-------------------------- MODULE PasswordHistoryMC --------------------------
(* The symmetry of PasswordHistory, which a .cfg cannot write. *)
EXTENDS PasswordHistory, TLC

AnyOrder == Permutations(Passwords) \cup Permutations(Requests)
=============================================================================
