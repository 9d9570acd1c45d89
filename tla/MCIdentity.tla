----------------------------- MODULE MCIdentity -----------------------------
(* Identity for TLC: accounts, emails and passwords are interchangeable. *)
EXTENDS Identity, TLC

Symmetry ==
  Permutations(Accounts) \cup Permutations(Emails) \cup Permutations(Passwords)
=============================================================================
