----------------------------- MODULE MCAccounts -----------------------------
(* Small instance of Accounts alone for TLC.                               *)
EXTENDS Accounts
=============================================================================
