----------------------------- MODULE MCAccounts -----------------------------
(* Instances of Accounts for TLC.                                          *)
EXTENDS Accounts, TLC

\* Requests, secrets and links are interchangeable.
Symmetry ==
  Permutations(Requests) \cup Permutations(Secrets) \cup Permutations(Links)
=============================================================================
