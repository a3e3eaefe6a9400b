---------------------------- MODULE DiagnosticsMC ----------------------------
(* Values for the constants of Diagnostics that a .cfg cannot write. *)
EXTENDS Diagnostics

CONSTANTS r1, r2, r3

OneOfEach ==
    [r \in Reqs |-> CASE r = r1 -> {"HTTP"} [] r = r2 -> {"TCP"} [] OTHER -> {"DNS"}]
HttpOnly == [r \in Reqs |-> {"HTTP"}]
=============================================================================
