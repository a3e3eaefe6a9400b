----------------------------- MODULE AuthService -----------------------------
(***************************************************************************)
(* app/services/auth_service.py with the dependencies of                   *)
(* app/core/auth_deps.py and the routes of app/api/auth.py: login, the     *)
(* session check every other request passes, logout, change-password.      *)
(***************************************************************************)
EXTENDS AuthDb

-----------------------------------------------------------------------------
(* Arrival. The clock is read before the pool is asked for a connection,   *)
(* so "now" may be old when the transaction starts.                        *)

LoginsInFlight == {x \in Reqs : req[x].kind = "login"}

\* POST /auth/login. Bound: a login arrives only while a session row is left for it.
ArriveLogin(r) ==
    /\ "login" \in Kinds
    /\ req[r] = Idle
    /\ Cardinality(Unused) > Cardinality(LoginsInFlight)
    /\ \E u \in Users :
         req' = [req EXCEPT ![r] = [Idle EXCEPT !.kind = "login", !.pc = "lock",
                                                !.user = u, !.now = clock]]
    /\ UNCHANGED <<account, session, clock>>

\* Any other request, with the cookie of a session that was once opened.
ArriveWithCookie(r) ==
    /\ req[r] = Idle
    /\ \E k \in Kinds \ {"login"}, s \in Ids \ Unused :
         req' = [req EXCEPT ![r] = [Idle EXCEPT !.kind = k, !.pc = "resolve1",
                                                !.sid = s, !.now = clock]]
    /\ UNCHANGED <<account, session, clock>>

-----------------------------------------------------------------------------
(* authenticate *)

\* Mutants: a lock is lifted without a look at its time, or as run out when it has no time.
LockLiftedAnyway(u, now) ==
    IF account[u].status = "LOCKED"
    THEN [account[u] EXCEPT !.status = "ACTIVE", !.until = Null, !.fails = 0]
    ELSE account[u]
LockLiftedWithoutTime(u, now) ==
    LET a == account[u] IN
    IF a.status = "LOCKED" /\ (a.until = Null \/ a.until <= now)
    THEN [a EXCEPT !.status = "ACTIVE", !.until = Null, !.fails = 0]
    ELSE a

\* The row authenticate goes on with: a lock that has run out is lifted first.
LockLifted(u, now) ==
    LET a == account[u] IN
    IF a.status = "LOCKED" /\ a.until # Null /\ a.until <= now
    THEN [a EXCEPT !.status = "ACTIVE", !.until = Null, !.fails = 0]
    ELSE a

\* Unknown, disabled or locked: only an audit event is written.
AuthenticateRefuse(r) ==
    /\ At(r, "login", "lock")
    /\ UserFree(r, req[r].user)
    /\ LockLifted(req[r].user, req[r].now).status \notin OpenStatus
    /\ End(r)
    /\ UNCHANGED <<account, session, clock>>

AuthenticateBadPassword(r) ==
    LET u == req[r].user
        a == LockLifted(u, req[r].now)
        locked == a.fails + 1 >= MaxFailures
    IN
    /\ At(r, "login", "lock")
    /\ UserFree(r, u)
    /\ a.status \in OpenStatus
    /\ a.fails < FailCap
    /\ account' = [account EXCEPT ![u] =
         [a EXCEPT !.fails = @ + 1,
                   !.status = IF locked THEN "LOCKED" ELSE @,
                   !.until = IF locked THEN req[r].now + LockTtl ELSE Null]]
    /\ End(r)
    /\ UNCHANGED <<session, clock>>

\* "rows" are the oldest sessions of "all", as many as must go so that one more fits.
Oldest(rows, all) ==
    /\ rows \subseteq all
    /\ \A s \in rows, t \in all \ rows : session[s].created <= session[t].created
    /\ Cardinality(rows) = IF Cardinality(all) < MaxSessions THEN 0
                           ELSE Cardinality(all) + 1 - MaxSessions

\* The right password: from here on the user's row is locked FOR UPDATE. The list of
\* sessions is read without locking them.
AuthenticateVerify(r) ==
    LET u == req[r].user IN
    /\ At(r, "login", "lock")
    /\ UserFree(r, u)
    /\ LockLifted(u, req[r].now).status \in OpenStatus
    /\ \E rows \in SUBSET Unrevoked(u) :
         /\ Oldest(rows, Unrevoked(u))
         /\ req' = [req EXCEPT ![r] = [@ EXCEPT !.pc = "insert", !.pw = account[u].pw,
                                                !.rows = rows]]
    /\ UNCHANGED <<account, session, clock>>

\* Opened for u at the time "now"; created_at is the start of the transaction.
OpenedAt(u, now, created, pw) ==
    [user |-> u, created |-> created, seen |-> now, idle |-> now + IdleTtl,
     abs |-> now + (IF account[u].role = "ADMIN" THEN AdminAbsTtl ELSE AbsTtl),
     revoked |-> "NO", pw |-> pw]

\* The rows listed are revoked whatever became of them since, the session is inserted and
\* the transaction commits.
AuthenticateCommit(r) ==
    LET u == req[r].user
        a == LockLifted(u, req[r].now)
    IN
    /\ At(r, "login", "insert")
    /\ SessionsFree(r, req[r].rows)
    /\ \E s \in Unused, created \in req[r].now .. clock :
         session' = [t \in Ids |->
           IF t = s THEN OpenedAt(u, req[r].now, created, req[r].pw)
           ELSE IF t \in req[r].rows THEN [session[t] EXCEPT !.revoked = "MAX_SESSIONS"]
           ELSE session[t]]
    /\ account' = [account EXCEPT ![u] =
         [a EXCEPT !.fails = 0, !.until = Null,
                   !.status = IF @ = "PENDING" THEN "ACTIVE" ELSE @]]
    /\ End(r)
    /\ UNCHANGED clock

-----------------------------------------------------------------------------
(* resolve_session, csrf_matches *)

Expired(s, now) == session[s].idle <= now \/ session[s].abs <= now

\* Mutants: the idle deadline is not held below the absolute one; every request refreshes.
RefreshedUncapped(s, now) ==
    IF now >= session[s].seen + RefreshAfter
    THEN [session[s] EXCEPT !.seen = now, !.idle = now + IdleTtl]
    ELSE session[s]
RefreshedAlways(s, now) ==
    [session[s] EXCEPT !.seen = now,
       !.idle = IF now + IdleTtl < session[s].abs THEN now + IdleTtl ELSE session[s].abs]

\* last_seen_at moves only when five minutes have passed.
Refreshed(s, now) ==
    IF now >= session[s].seen + RefreshAfter
    THEN [session[s] EXCEPT !.seen = now,
            !.idle = IF now + IdleTtl < session[s].abs THEN now + IdleTtl ELSE session[s].abs]
    ELSE session[s]

\* The administrator routes also ask for the role, and turn away whoever must change
\* the password.
Admitted(r) ==
    LET a == account[Actor(r)] IN
    req[r].kind \in AdminKinds => ~a.must /\ a.role = "ADMIN"

ResolveRefuse(r) ==
    LET s == req[r].sid IN
    /\ req[r].pc \in {"resolve1", "resolve2"}
    /\ \/ session[s].revoked # "NO"
       \/ account[Actor(r)].status \notin OpenStatus /\ SessionsFree(r, {s})
    /\ End(r)
    /\ UNCHANGED <<account, session, clock>>

\* Mutant: whether the session was revoked meanwhile is not looked at.
ResolveExpiredAnew(r) ==
    LET s == req[r].sid IN
    /\ req[r].pc \in {"resolve1", "resolve2"}
    /\ SessionsFree(r, {s})
    /\ account[Actor(r)].status \in OpenStatus
    /\ Expired(s, req[r].now)
    /\ Revoke({s}, "EXPIRED")
    /\ End(r)
    /\ UNCHANGED <<account, clock>>

ResolveExpired(r) ==
    LET s == req[r].sid IN
    /\ req[r].pc \in {"resolve1", "resolve2"}
    /\ session[s].revoked = "NO"
    /\ SessionsFree(r, {s})
    /\ account[Actor(r)].status \in OpenStatus
    /\ Expired(s, req[r].now)
    /\ Revoke({s}, "EXPIRED")
    /\ End(r)
    /\ UNCHANGED <<account, clock>>

\* The refresh is committed before the role is looked at. A GET ends here; the dependencies
\* of the other routes run twice, before and after the CSRF check.
ResolveSession(r) ==
    LET s == req[r].sid
        next == IF req[r].pc = "resolve1" THEN "csrf" ELSE "handler"
    IN
    /\ req[r].pc \in {"resolve1", "resolve2"}
    /\ session[s].revoked = "NO"
    /\ SessionsFree(r, {s})
    /\ account[Actor(r)].status \in OpenStatus
    /\ ~Expired(s, req[r].now)
    /\ session' = [session EXCEPT ![s] = Refreshed(s, req[r].now)]
    /\ IF req[r].kind = "me" \/ ~Admitted(r) THEN End(r)
       ELSE req' = [req EXCEPT ![r] = [@ EXCEPT !.pc = next, !.now = 0]]
    /\ UNCHANGED <<account, clock>>

\* The tokens match and the session is not revoked; resolve_session then reads the clock
\* again.
CsrfMatches(r) ==
    /\ req[r].pc = "csrf"
    /\ session[req[r].sid].revoked = "NO"
    /\ req' = [req EXCEPT ![r] = [@ EXCEPT !.pc = "resolve2", !.now = clock]]
    /\ UNCHANGED <<account, session, clock>>

CsrfRefuse(r) ==
    /\ req[r].pc = "csrf"
    /\ End(r)
    /\ UNCHANGED <<account, session, clock>>

-----------------------------------------------------------------------------
(* revoke_session (logout) *)

\* Mutant: without "AND revoked_at IS NULL".
LogoutAgain(r) ==
    LET s == req[r].sid IN
    /\ At(r, "logout", "handler")
    /\ SessionsFree(r, {s})
    /\ req' = [req EXCEPT ![r] = [@ EXCEPT !.pc = "audit", !.user = Actor(r), !.rows = {s}]]
    /\ UNCHANGED <<account, session, clock>>

Logout(r) ==
    LET s == req[r].sid
        live == session[s].revoked = "NO"
    IN
    /\ At(r, "logout", "handler")
    /\ live => SessionsFree(r, {s})
    /\ req' = [req EXCEPT ![r] = [@ EXCEPT !.pc = "audit", !.user = Actor(r),
                                           !.rows = IF live THEN {s} ELSE {}]]
    /\ UNCHANGED <<account, session, clock>>

LogoutCommit(r) ==
    /\ At(r, "logout", "audit")
    /\ KeyShareFree(r, req[r].user)
    /\ Revoke(req[r].rows, "LOGOUT")
    /\ End(r)
    /\ UNCHANGED <<account, clock>>

-----------------------------------------------------------------------------
(* change_password *)

\* The current password is wrong, or the new one is refused by the policy or by the
\* history: the transaction writes nothing.
ChangePasswordRefuse(r) ==
    /\ At(r, "change", "handler")
    /\ UserFree(r, Actor(r))
    /\ End(r)
    /\ UNCHANGED <<account, session, clock>>

\* Mutant: the current password is verified without locking the row.
ChangePasswordUnlocked(r) ==
    LET u == Actor(r) IN
    /\ At(r, "change", "handler")
    /\ \E p \in Passwords \ {account[u].pw} :
         req' = [req EXCEPT ![r] = [@ EXCEPT !.pc = "sweep", !.user = u, !.pw = p]]
    /\ UNCHANGED <<account, session, clock>>

\* Neither the session nor the status is looked at again.
ChangePasswordVerify(r) ==
    LET u == Actor(r) IN
    /\ At(r, "change", "handler")
    /\ UserFree(r, u)
    /\ \E p \in Passwords \ {account[u].pw} :
         req' = [req EXCEPT ![r] = [@ EXCEPT !.pc = "sweep", !.user = u, !.pw = p]]
    /\ UNCHANGED <<account, session, clock>>

ChangePasswordCommit(r) ==
    LET u == req[r].user
        s == req[r].sid
    IN
    /\ At(r, "change", "sweep")
    /\ SessionsFree(r, SweepRows(r))
    /\ account' = [account EXCEPT ![u] = [@ EXCEPT !.pw = req[r].pw, !.must = FALSE]]
    /\ session' = [t \in Ids |->
         IF t = s THEN [session[t] EXCEPT !.pw = req[r].pw]
         ELSE IF t \in SweepRows(r) THEN [session[t] EXCEPT !.revoked = "PASSWORD_CHANGED"]
         ELSE session[t]]
    /\ End(r)
    /\ UNCHANGED clock

AuthServiceStep(r) ==
    \/ AuthenticateRefuse(r) \/ AuthenticateBadPassword(r)
    \/ AuthenticateVerify(r) \/ AuthenticateCommit(r)
    \/ ResolveRefuse(r) \/ ResolveExpired(r) \/ ResolveSession(r)
    \/ CsrfMatches(r) \/ CsrfRefuse(r)
    \/ Logout(r) \/ LogoutCommit(r)
    \/ ChangePasswordRefuse(r) \/ ChangePasswordVerify(r) \/ ChangePasswordCommit(r)
=============================================================================
