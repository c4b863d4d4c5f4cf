----------------------------- MODULE MCRelease ------------------------------
(* Instances of Release for TLC: MCRelease.cfg, and MCReleaseTag.cfg,      *)
(* whose claim is refuted.                                                 *)
EXTENDS Release

RunSymmetry == Permutations(Runs)
=============================================================================
