------------------------------- MODULE AuthDb -------------------------------
(***************************************************************************)
(* The rows of user_accounts and user_sessions, the HTTP requests that     *)
(* work on them, and the PostgreSQL behaviour the service relies on: each  *)
(* transaction runs at READ COMMITTED, its writes appear at commit, and    *)
(* its row locks are held from the statement that takes them to the end.   *)
(*                                                                         *)
(* A lock is not a variable of its own: which rows a request has locked    *)
(* follows from where it is in its transaction (LocksUser, LocksSession).  *)
(***************************************************************************)
EXTENDS Naturals, FiniteSets

CONSTANTS
    Users,              \* rows user_accounts may hold
    Ids,                \* rows user_sessions may hold
    Reqs,               \* slots for the requests being served at the same time
    Passwords,          \* what a password hash can stand for
    Kinds,              \* the operations the clients call
    Patches,            \* the role and status pairs PATCH may carry
    InitRole,           \* role of each account in the database the service starts on
    MaxSessions,        \* settings.max_sessions_per_user
    MaxFailures,        \* settings.login_max_failures
    LockTtl,            \* settings.login_lock_minutes
    IdleTtl,            \* settings.session_idle_minutes
    AbsTtl,             \* settings.session_absolute_hours
    AdminAbsTtl,        \* settings.admin_session_absolute_hours
    RefreshAfter,       \* the five minutes between two refreshes of last_seen_at
    MaxTime,            \* bound on the clock
    FailCap,            \* bound on failed_login_count
    Null

VARIABLES
    account,            \* user_accounts
    session,            \* user_sessions
    req,                \* the requests in flight
    clock               \* utcnow()

vars == <<account, session, req, clock>>

\* OPERATOR stands for VIEWER too: these routes do not tell the two apart.
Role == {"ADMIN", "OPERATOR"}
Status == {"PENDING", "ACTIVE", "LOCKED", "DISABLED"}
OpenStatus == {"ACTIVE", "PENDING"}
Reason == {"LOGOUT", "MAX_SESSIONS", "EXPIRED", "PASSWORD_CHANGED",
           "PASSWORD_RESET", "ACCOUNT_DISABLED", "ADMIN_REVOKED"}

AdminKinds == {"create", "patch", "unlock", "reset", "revoke"}
UserKinds == {"login", "me", "logout", "change"}

\* Where a request is: "lock" and "insert" are the two halves of authenticate, "resolve1",
\* "csrf" and "resolve2" the dependencies, "handler" the first statement of the handler,
\* "sweep" its update of the user's sessions and "audit" its last insert and commit.
Pc == {"idle", "lock", "insert", "resolve1", "csrf", "resolve2", "handler", "sweep",
       "audit"}

Keep == "KEEP"      \* a field the PATCH body leaves out
Patch == [role : Role \cup {Keep}, status : Status \cup {Keep}]

Account == [status : Status \cup {"ABSENT"}, role : Role, must : BOOLEAN,
            pw : Passwords, fails : Nat, until : Nat \cup {Null}]

\* "pw" is the password last proved from the session, which the table does not hold: it
\* is there for the properties. A row with user Null has not been inserted.
Session == [user : Users \cup {Null}, created : Nat, seen : Nat, idle : Nat, abs : Nat,
            revoked : Reason \cup {"NO"}, pw : Passwords \cup {Null}]

Request == [kind : UserKinds \cup AdminKinds \cup {"none"}, pc : Pc,
            sid : Ids \cup {Null}, user : Users \cup {Null}, now : Nat,
            pw : Passwords \cup {Null}, rows : SUBSET Ids, patch : Patch]

ASSUME SettingsAssumption ==
    /\ MaxSessions \in Nat \ {0} /\ MaxFailures \in Nat \ {0}
    /\ LockTtl \in Nat /\ IdleTtl \in Nat /\ RefreshAfter \in Nat \ {0}
    /\ AbsTtl \in Nat /\ AdminAbsTtl \in Nat
    /\ MaxTime \in Nat /\ FailCap \in Nat

ASSUME RowsAssumption ==
    /\ Null \notin Users \cup Ids \cup Passwords \cup Nat
    /\ IsFiniteSet(Ids)
    /\ Kinds \subseteq UserKinds \cup AdminKinds
    /\ Patches \subseteq Patch
    /\ InitRole \in [Users -> Role \cup {"ABSENT"}]

NoPatch == [role |-> Keep, status |-> Keep]
Idle == [kind |-> "none", pc |-> "idle", sid |-> Null, user |-> Null, now |-> 0,
         pw |-> Null, rows |-> {}, patch |-> NoPatch]
NoSession == [user |-> Null, created |-> 0, seen |-> 0, idle |-> 0, abs |-> 0,
              revoked |-> "NO", pw |-> Null]

-----------------------------------------------------------------------------
(* Rows *)

Exists(u) == account[u].status # "ABSENT"
ActiveAdmin(u) == account[u].role = "ADMIN" /\ account[u].status \in OpenStatus

\* WHERE user_id = u AND revoked_at IS NULL
Unrevoked(u) == {s \in Ids : session[s].user = u /\ session[s].revoked = "NO"}
Unused == {s \in Ids : session[s].user = Null}

\* UPDATE user_sessions SET revoked_at = ..., revoke_reason = why WHERE id IN rows
Revoke(rows, why) ==
    session' = [s \in Ids |-> IF s \in rows THEN [session[s] EXCEPT !.revoked = why]
                                            ELSE session[s]]

Actor(r) == session[req[r].sid].user

-----------------------------------------------------------------------------
(* Row locks *)

\* FOR UPDATE of a user row, or the lock of an UPDATE of it (unlock_user).
LocksUser(r, u) ==
    /\ req[r].user = u
    /\ \/ req[r].pc = "insert"
       \/ req[r].kind \in {"change", "patch", "reset", "unlock"}
          /\ req[r].pc \in {"sweep", "audit"}

\* Rows the request has updated and not committed yet.
LocksSession(r, s) == req[r].pc = "audit" /\ s \in req[r].rows

\* Mutant: FOR UPDATE is left out.
UserFreeUnlocked(r, u) == TRUE

UserFree(r, u) == \A x \in Reqs \ {r} : ~LocksUser(x, u)
SessionsFree(r, rows) == \A x \in Reqs \ {r} : \A s \in rows : ~LocksSession(x, s)

\* The insert into auth_audit_events takes FOR KEY SHARE on the users it refers to. That
\* waits for FOR UPDATE, and not for a plain UPDATE.
KeyShareFree(r, u) ==
    \A x \in Reqs \ {r} : LocksUser(x, u) => req[x].kind = "unlock"

-----------------------------------------------------------------------------
(* Requests *)

At(r, kind, pc) == req[r].kind = kind /\ req[r].pc = pc
End(r) == req' = [req EXCEPT ![r] = Idle]

\* The sessions the "sweep" statement revokes: of the rows it started on, those that are
\* unrevoked once their locks are free.
SweepRows(r) ==
    LET all == Unrevoked(req[r].user) IN
    CASE req[r].kind = "change" -> all \ {req[r].sid}
      [] req[r].kind = "revoke" -> all \cap req[r].rows
      [] OTHER -> all

\* Whom a request that holds locks waits for.
Needs(r, x) ==
    \/ req[r].pc = "insert" /\ \E s \in req[r].rows : LocksSession(x, s)
    \/ req[r].pc = "sweep" /\ \E s \in SweepRows(r) : LocksSession(x, s)
    \/ /\ req[r].pc = "audit"
       /\ \E u \in {Actor(r), req[r].user} : LocksUser(x, u) /\ req[x].kind # "unlock"

\* Mutant: nothing ends a cycle of waiting requests.
DeadlockedForGood(r) == FALSE

\* PostgreSQL's deadlock detector: a cycle of requests in which each one waits for
\* another.
Deadlocked(r) ==
    \E C \in SUBSET Reqs :
        /\ r \in C
        /\ \A x \in C : \E y \in C \ {x} : Needs(x, y)
        /\ \A y \in C : \E x \in C \ {y} : Needs(x, y)

\* A statement fails (a lost connection, statement_timeout, or the deadlock detector
\* chose this transaction): everything the transaction did is undone and the handler's
\* exception ends the request.
Abort(r) ==
    /\ req[r].pc \in {"insert", "sweep", "audit"}
    /\ End(r)
    /\ UNCHANGED <<account, session, clock>>

Tick ==
    /\ clock < MaxTime
    /\ clock' = clock + 1
    /\ UNCHANGED <<account, session, req>>

\* Accounts made by the administrators and past their first password change; nobody is
\* logged in.
Init ==
    /\ \E p \in Passwords :
         account = [u \in Users |->
           [status |-> IF InitRole[u] = "ABSENT" THEN "ABSENT" ELSE "ACTIVE",
            role |-> IF InitRole[u] = "ABSENT" THEN "OPERATOR" ELSE InitRole[u],
            must |-> FALSE, pw |-> p, fails |-> 0, until |-> Null]]
    /\ session = [s \in Ids |-> NoSession]
    /\ req = [r \in Reqs |-> Idle]
    /\ clock = 0
=============================================================================
