------------------------------ MODULE MCVault ------------------------------
(* The vault alone, for the run that lets a passkey log in before setup.  *)
EXTENDS Vault
=============================================================================
