------------------------------ MODULE MCSecrets ------------------------------
(* Instances of Secrets for TLC: MCSecrets.cfg.                            *)
EXTENDS Secrets
=============================================================================
