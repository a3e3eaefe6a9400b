----------------------------- MODULE AdminUsers -----------------------------
(***************************************************************************)
(* The handlers of app/api/admin_users.py that change state. Each runs in  *)
(* one transaction, with the context its dependencies have resolved, and   *)
(* does not look at the actor again.                                       *)
(***************************************************************************)
EXTENDS AuthDb

\* The insert of the audit event, whose foreign keys are the actor and the target.
AuditFree(r) == KeyShareFree(r, Actor(r)) /\ KeyShareFree(r, req[r].user)

-----------------------------------------------------------------------------
(* create_user *)

\* The insert refers to its creator, and a name that is taken is refused with 409.
CreateUser(r) ==
    /\ At(r, "create", "handler")
    /\ KeyShareFree(r, Actor(r))
    /\ \E u \in Users, role \in Role, p \in Passwords :
         /\ ~Exists(u)
         /\ account' = [account EXCEPT ![u] =
              [status |-> "PENDING", role |-> role, must |-> TRUE, pw |-> p,
               fails |-> 0, until |-> Null]]
    /\ End(r)
    /\ UNCHANGED <<session, clock>>

CreateRefuse(r) ==
    /\ At(r, "create", "handler")
    /\ \E u \in Users : Exists(u)
    /\ End(r)
    /\ UNCHANGED <<account, session, clock>>

-----------------------------------------------------------------------------
(* update_user *)

ActiveAdmins == {u \in Users : ActiveAdmin(u)}

\* The guard of the last administrator applies to a demotion and to DISABLED.
Guarded(u, p) ==
    account[u].role = "ADMIN" /\ (p.role \notin {Keep, "ADMIN"} \/ p.status = "DISABLED")

\* The target's row is locked; the administrators are counted without a lock.
UpdateUser(r) ==
    /\ At(r, "patch", "handler")
    /\ \E u \in Users, p \in Patches :
         /\ Exists(u)
         /\ UserFree(r, u)
         /\ Guarded(u, p) => Cardinality(ActiveAdmins) > 1
         /\ req' = [req EXCEPT ![r] =
              [@ EXCEPT !.pc = IF p.status = "DISABLED" THEN "sweep" ELSE "audit",
                        !.user = u, !.patch = p]]
    /\ UNCHANGED <<account, session, clock>>

\* 404, or 409 LAST_ADMIN_PROTECTED.
UpdateRefuse(r) ==
    /\ At(r, "patch", "handler")
    /\ \E u \in Users, p \in Patches :
         \/ ~Exists(u)
         \/ UserFree(r, u) /\ Guarded(u, p) /\ Cardinality(ActiveAdmins) <= 1
    /\ End(r)
    /\ UNCHANGED <<account, session, clock>>

Coalesce(new, old) == IF new = Keep THEN old ELSE new

\* The failure count and locked_until stay as they are.
UpdateCommit(r) ==
    LET u == req[r].user
        p == req[r].patch
    IN
    /\ At(r, "patch", "audit")
    /\ AuditFree(r)
    /\ account' = [account EXCEPT ![u] =
         [@ EXCEPT !.role = Coalesce(p.role, account[u].role),
                   !.status = Coalesce(p.status, account[u].status)]]
    /\ Revoke(req[r].rows, "ACCOUNT_DISABLED")
    /\ End(r)
    /\ UNCHANGED clock

-----------------------------------------------------------------------------
(* unlock_user: whatever the status was, it is ACTIVE afterwards. *)

UnlockUser(r) ==
    /\ At(r, "unlock", "handler")
    /\ \E u \in Users :
         /\ Exists(u)
         /\ UserFree(r, u)
         /\ req' = [req EXCEPT ![r] = [@ EXCEPT !.pc = "audit", !.user = u]]
    /\ UNCHANGED <<account, session, clock>>

UnlockCommit(r) ==
    LET u == req[r].user IN
    /\ At(r, "unlock", "audit")
    /\ AuditFree(r)
    /\ account' = [account EXCEPT ![u] =
         [@ EXCEPT !.status = "ACTIVE", !.fails = 0, !.until = Null]]
    /\ End(r)
    /\ UNCHANGED <<session, clock>>

-----------------------------------------------------------------------------
(* reset_password *)

\* Mutant: the temporary password is not stored.
ResetPasswordUnset(r) ==
    /\ At(r, "reset", "handler")
    /\ \E u \in Users :
         /\ Exists(u)
         /\ UserFree(r, u)
         /\ req' = [req EXCEPT ![r] = [@ EXCEPT !.pc = "sweep", !.user = u]]
    /\ UNCHANGED <<account, session, clock>>

\* The temporary password may be the current one: it is not compared with the history.
ResetPassword(r) ==
    /\ At(r, "reset", "handler")
    /\ \E u \in Users, p \in Passwords :
         /\ Exists(u)
         /\ UserFree(r, u)
         /\ req' = [req EXCEPT ![r] = [@ EXCEPT !.pc = "sweep", !.user = u, !.pw = p]]
    /\ UNCHANGED <<account, session, clock>>

ResetCommit(r) ==
    LET u == req[r].user IN
    /\ At(r, "reset", "audit")
    /\ AuditFree(r)
    /\ account' = [account EXCEPT ![u] = [@ EXCEPT !.pw = req[r].pw, !.must = TRUE]]
    /\ Revoke(req[r].rows, "PASSWORD_RESET")
    /\ End(r)
    /\ UNCHANGED clock

\* The update of the target's sessions, in update_user, reset_password and
\* revoke_user_sessions.
SweepSessions(r) ==
    /\ req[r].kind \in {"patch", "reset", "revoke"} /\ req[r].pc = "sweep"
    /\ SessionsFree(r, SweepRows(r))
    /\ req' = [req EXCEPT ![r] = [@ EXCEPT !.pc = "audit", !.rows = SweepRows(r)]]
    /\ UNCHANGED <<account, session, clock>>

-----------------------------------------------------------------------------
(* revoke_user_sessions: the user's row is not locked, so a session may be opened while  *)
(* the update waits for a row; the statement does not see it.                            *)

RevokeUserSessions(r) ==
    /\ At(r, "revoke", "handler")
    /\ \E u \in Users :
         /\ Exists(u)
         /\ req' = [req EXCEPT ![r] = [@ EXCEPT !.pc = "sweep", !.user = u,
                                                !.rows = Unrevoked(u)]]
    /\ UNCHANGED <<account, session, clock>>

RevokeCommit(r) ==
    /\ At(r, "revoke", "audit")
    /\ AuditFree(r)
    /\ Revoke(req[r].rows, "ADMIN_REVOKED")
    /\ End(r)
    /\ UNCHANGED <<account, clock>>

\* Unknown user (404, or a foreign key the audit event cannot have) or a refused password.
AdminRefuse(r) ==
    /\ req[r].kind \in {"unlock", "reset", "revoke"} /\ req[r].pc = "handler"
    /\ End(r)
    /\ UNCHANGED <<account, session, clock>>

AdminUsersStep(r) ==
    \/ CreateUser(r) \/ CreateRefuse(r)
    \/ UpdateUser(r) \/ UpdateRefuse(r) \/ UpdateCommit(r)
    \/ UnlockUser(r) \/ UnlockCommit(r)
    \/ ResetPassword(r) \/ ResetCommit(r) \/ SweepSessions(r)
    \/ RevokeUserSessions(r) \/ RevokeCommit(r)
    \/ AdminRefuse(r)
=============================================================================
