----------------------------- MODULE AccountsMC -----------------------------
(* Values for the constants of Accounts that a .cfg cannot write. *)
EXTENDS Accounts, TLC

CONSTANTS alice, bob, carol

OneAdmin == [u \in Users |-> "ADMIN"]
AdminAndOperator == (alice :> "ADMIN") @@ (bob :> "OPERATOR")
TwoAdmins == (alice :> "ADMIN") @@ (bob :> "ADMIN")
TwoAdminsAndVacancy == TwoAdmins @@ (carol :> "ABSENT")

Demotions == {[role |-> "OPERATOR", status |-> Keep], [role |-> Keep, status |-> "DISABLED"]}
Lockings == {[role |-> Keep, status |-> "LOCKED"], [role |-> Keep, status |-> "ACTIVE"]}
Promotion == {[role |-> "ADMIN", status |-> Keep]}
NoPatches == {}

SessionSymmetry == Permutations(Ids) \cup Permutations(Reqs)
PasswordSymmetry == SessionSymmetry \cup Permutations(Passwords)
=============================================================================
