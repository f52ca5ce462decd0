----------------------------- MODULE MCAccounts -----------------------------
(* TLC instance of Accounts: passwords and devices are interchangeable. *)
EXTENDS Accounts, TLC

Symmetry == Permutations(Pwds) \cup Permutations(Devices)
=============================================================================
