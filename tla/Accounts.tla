------------------------------ MODULE Accounts ------------------------------
(***************************************************************************)
(* The account and session service: the requests of AuthService and those  *)
(* of AdminUsers over the same tables, and what must hold of them.         *)
(***************************************************************************)
EXTENDS AuthService, AdminUsers

Step(r) == AuthServiceStep(r) \/ AdminUsersStep(r)

Next ==
    \/ \E r \in Reqs : ArriveLogin(r) \/ ArriveWithCookie(r) \/ Step(r) \/ Abort(r)
    \/ Tick

Spec == Init /\ [][Next]_vars

\* The event loop keeps running a request that can run; PostgreSQL queues the waiters of a
\* row, so one whose row becomes free again and again gets it; and its detector ends a
\* deadlock. Nothing obliges a client to call.
Fairness ==
    \A r \in Reqs : SF_vars(Step(r)) /\ WF_vars(Deadlocked(r) /\ Abort(r))

FairSpec == Spec /\ Fairness

-----------------------------------------------------------------------------
(* Invariants *)

\* The rows and the requests have the shape the schema and the handlers give them.
TypeOK ==
    /\ account \in [Users -> Account]
    /\ session \in [Ids -> Session]
    /\ req \in [Reqs -> Request]
    /\ clock \in 0 .. MaxTime

\* A user never has more than max_sessions_per_user unrevoked sessions, however many
\* logins run at once: authenticate counts and inserts under the lock of the user's row.
SessionCap == \A u \in Users : Cardinality(Unrevoked(u)) <= MaxSessions

\* Every unrevoked session was opened with the password the account has now, or is the one
\* the change of the password came through: no login that checked the old password
\* leaves a session behind a change or a reset.
CurrentCredential ==
    \A s \in Ids : session[s].user # Null /\ session[s].revoked = "NO"
                     => session[s].pw = account[session[s].user].pw

\* A disabled account has no unrevoked session, not even one of a login that was under way
\* when update_user disabled it.
DisabledHasNoSession ==
    \A u \in Users : account[u].status = "DISABLED" => Unrevoked(u) = {}

\* A session is never kept past its absolute lifetime: resolve_session moves the idle
\* deadline only up to it, and never by more than the idle time after the last use, which
\* is never in the future.
LeaseBounded ==
    \A s \in Ids : session[s].user # Null =>
        /\ session[s].seen <= clock
        /\ session[s].idle <= session[s].seen + IdleTtl
        /\ IdleTtl <= AbsTtl /\ IdleTtl <= AdminAbsTtl => session[s].idle <= session[s].abs

-----------------------------------------------------------------------------
(* Action properties *)

\* A revocation is final: no step brings a revoked session back, and the first reason stays
\* in the row. Only a session found expired between the list of those to evict and their
\* update is given the eviction's reason (auth_service.py:85-93, :118-120): who revokes for
\* another reason waits for the login.
RevocationFinal ==
    [][\A s \in Ids : session[s].revoked # "NO" /\ session'[s].revoked # session[s].revoked
         => session[s].revoked = "EXPIRED" /\ session'[s].revoked = "MAX_SESSIONS"]_vars

\* Requests of one session may commit in another order than they read the clock in: the
\* last use of a session and its idle deadline do not go back.
LeaseNeverShrinks ==
    [][\A s \in Ids : session[s].user # Null =>
         session'[s].seen >= session[s].seen /\ session'[s].idle >= session[s].idle]_vars

\* A session is opened only when the account is open, or its lock has run out.
NoEntryWhileBarred ==
    [][\A s \in Ids : session[s].user = Null /\ session'[s].user # Null =>
         LET a == account[session'[s].user] IN
         \/ a.status \in OpenStatus
         \/ a.status = "LOCKED" /\ a.until # Null /\ a.until <= clock]_vars

\* An administrator's commit on user u.
AdminCommits(u) ==
    \E r \in Reqs : /\ req[r].kind \in {"patch", "unlock"} /\ req[r].pc = "audit"
                    /\ req[r].user = u /\ req'[r] = Idle

\* A lock stands until its time is up, whatever passwords are tried; one an
\* administrator has set without a time stands until an administrator lifts it.
LockStands ==
    [][\A u \in Users :
         /\ account[u].status = "LOCKED"
         /\ account[u].until = Null \/ account[u].until > clock
         /\ account'[u] # account[u]
         => \/ AdminCommits(u)
            \/ account'[u].status = "LOCKED" /\ account'[u].until = account[u].until]_vars

\* A demotion or a disabling by an administrator leaves an administrator who can log in
\* (authentication-account-spec.md:390 and :878).
LastAdminProtected ==
    [][\A u \in Users :
         /\ ActiveAdmin(u)
         /\ account'[u].role # "ADMIN" \/ account'[u].status = "DISABLED"
         => \E v \in Users : ActiveAdmin(v)']_vars

-----------------------------------------------------------------------------
(* Liveness *)

\* Every request is answered: waiting for rows never lasts for ever, deadlocks included.
EveryRequestEnds == \A r \in Reqs : req[r].pc # "idle" ~> req[r].pc = "idle"
=============================================================================
