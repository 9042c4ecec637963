------------------------------- MODULE MCAccounts -------------------------------
(* Instances of Accounts for TLC.                                                *)
EXTENDS Accounts
===============================================================================
