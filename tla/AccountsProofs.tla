--------------------------- MODULE AccountsProofs ---------------------------
(***************************************************************************)
(* Proofs about Accounts, for every number of users, sessions and          *)
(* concurrent requests and every value of the settings: the type           *)
(* invariant, the session cap, the credential behind every unrevoked       *)
(* session, and that a disabled account has none.                          *)
(***************************************************************************)
EXTENDS Accounts, FiniteSetTheorems, TLAPS

-----------------------------------------------------------------------------
(* The inductive invariant *)

\* Which operations have which statements, and what a request in them has chosen.
ReqOK(r) ==
    /\ req[r].pc \in {"lock", "insert"} => req[r].kind = "login"
    /\ req[r].pc = "sweep" => req[r].kind \in {"change", "patch", "reset", "revoke"}
    /\ req[r].pc = "audit" => req[r].kind \in {"logout", "patch", "unlock", "reset", "revoke"}
    /\ req[r].pc \in {"lock", "insert", "sweep", "audit"} => req[r].user \in Users
    /\ req[r].pc \in {"resolve1", "csrf", "resolve2", "handler", "sweep", "audit"}
         => req[r].sid \in Ids /\ session[req[r].sid].user \in Users
    /\ req[r].pc = "sweep" /\ req[r].kind = "change"
         => req[r].user = Actor(r) /\ req[r].pw \in Passwords
    /\ req[r].kind = "reset" /\ req[r].pc \in {"sweep", "audit"} => req[r].pw \in Passwords

PcOK == \A r \in Reqs : ReqOK(r)

\* Sessions belong to accounts, and only a row that exists is locked.
RowsExist ==
    /\ \A s \in Ids : session[s].user # Null => Exists(session[s].user)
    /\ \A r \in Reqs, u \in Users : LocksUser(r, u) => Exists(u)

\* FOR UPDATE excludes FOR UPDATE.
Exclusive ==
    \A r, x \in Reqs, u \in Users : LocksUser(r, u) /\ LocksUser(x, u) => r = x

\* What a login has read is still so when it inserts.
LoginFresh ==
    \A r \in Reqs : req[r].pc = "insert" =>
        LET u == req[r].user IN
        /\ Cardinality(Unrevoked(u) \ req[r].rows) < MaxSessions
        /\ req[r].pw = account[u].pw
        /\ account[u].status # "DISABLED"

\* The sweep of a reset or of a disabling has every unrevoked session in it until the commit.
SweepComplete ==
    \A r \in Reqs :
        /\ req[r].pc = "audit"
        /\ \/ req[r].kind = "reset"
           \/ req[r].kind = "patch" /\ req[r].patch.status = "DISABLED"
        => Unrevoked(req[r].user) \subseteq req[r].rows

IInv ==
    /\ TypeOK
    /\ PcOK
    /\ RowsExist
    /\ Exclusive
    /\ LoginFresh
    /\ SweepComplete
    /\ SessionCap
    /\ CurrentCredential
    /\ DisabledHasNoSession

-----------------------------------------------------------------------------
(* Types *)

\* A request that is put back or moved on is a request again.
LEMMA IdleType == Idle \in Request /\ NoSession \in Session
BY DEF Idle, Request, NoPatch, Patch, Keep, UserKinds, AdminKinds, Pc, NoSession, Session,
       Reason

\* A step that gives one request, or one account, a value of its type keeps the types.
LEMMA MoveType ==
    ASSUME TypeOK, NEW r \in Reqs, NEW q \in Request, req' = [req EXCEPT ![r] = q]
    PROVE  req' \in [Reqs -> Request]
BY DEF TypeOK

\* The same of an account.
LEMMA AccountType ==
    ASSUME TypeOK, NEW u \in Users, NEW q \in Account, account' = [account EXCEPT ![u] = q]
    PROVE  account' \in [Users -> Account]
BY DEF TypeOK

\* A request that ends is idle again, which is a request.
LEMMA EndType ==
    ASSUME TypeOK, NEW r \in Reqs, End(r)
    PROVE  req' \in [Reqs -> Request]
BY IdleType DEF TypeOK, End

\* LockLifted gives an account whose password is the one in the row.
LEMMA LockLiftedType ==
    ASSUME TypeOK, NEW u \in Users, NEW now \in Nat
    PROVE  /\ LockLifted(u, now) \in Account
           /\ LockLifted(u, now).pw = account[u].pw
           /\ LockLifted(u, now).status = "ABSENT" <=> account[u].status = "ABSENT"
           /\ LockLifted(u, now).status = "DISABLED" <=> account[u].status = "DISABLED"
BY DEF TypeOK, LockLifted, Account, Status

\* Revoking rows leaves rows.
LEMMA RevokeType ==
    ASSUME TypeOK, NEW rows, NEW why \in Reason, Revoke(rows, why)
    PROVE  session' \in [Ids -> Session]
BY DEF TypeOK, Revoke, Session

\* Every step of authenticate, of the dependencies and of the user's own operations keeps
\* the types.
LEMMA AuthServiceType ==
    ASSUME TypeOK, PcOK, NEW r \in Reqs, AuthServiceStep(r)
    PROVE  TypeOK'
<1> USE SettingsAssumption, RowsAssumption
<1> req[r] \in Request
  BY DEF TypeOK
<1>1. CASE AuthenticateRefuse(r)
  BY <1>1, EndType DEF AuthenticateRefuse, TypeOK
<1>2. CASE AuthenticateBadPassword(r)
  <2> DEFINE u == req[r].user
             a == LockLifted(u, req[r].now)
  <2>1. u \in Users /\ req[r].now \in Nat
    BY <1>2 DEF AuthenticateBadPassword, At, PcOK, ReqOK, Request
  <2>2. a \in Account
    BY <2>1, LockLiftedType
  <2>3. [a EXCEPT !.fails = @ + 1,
                  !.status = IF a.fails + 1 >= MaxFailures THEN "LOCKED" ELSE @,
                  !.until = IF a.fails + 1 >= MaxFailures THEN req[r].now + LockTtl
                            ELSE Null] \in Account
    <3>1. \A q \in Account, n \in Nat : q.fails + 1 \in Nat /\ n + LockTtl \in Nat
      BY DEF Account
    <3>2. \A q \in Account, f \in Nat, s \in Status \cup {"ABSENT"}, l \in Nat \cup {Null} :
            [q EXCEPT !.fails = f, !.status = s, !.until = l] \in Account
      BY DEF Account, Status
    <3> QED
      <4>1. a.status \in Status \cup {"ABSENT"}
        BY <2>2 DEF Account
      <4> HIDE DEF a
      <4> QED
        BY <2>1, <2>2, <3>1, <3>2, <4>1 DEF Status
  <2>4. account' \in [Users -> Account]
    BY <1>2, <2>1, <2>3, AccountType DEF AuthenticateBadPassword
  <2> QED
    BY <1>2, <2>4, EndType DEF AuthenticateBadPassword, TypeOK
<1>3. CASE AuthenticateVerify(r)
  <2>1. req[r].user \in Users
    BY <1>3 DEF AuthenticateVerify, At, PcOK, ReqOK
  <2>2. account[req[r].user].pw \in Passwords
    BY <2>1 DEF TypeOK, Account
  <2>3. Unrevoked(req[r].user) \subseteq Ids
    BY DEF Unrevoked
  <2>4. PICK rows \in SUBSET Unrevoked(req[r].user) :
          req' = [req EXCEPT ![r] = [@ EXCEPT !.pc = "insert",
                                       !.pw = account[req[r].user].pw, !.rows = rows]]
    BY <1>3 DEF AuthenticateVerify
  <2>5. [req[r] EXCEPT !.pc = "insert", !.pw = account[req[r].user].pw, !.rows = rows]
          \in Request
    BY <2>2, <2>3 DEF Request, Pc
  <2>6. req' \in [Reqs -> Request]
    BY <2>4, <2>5, MoveType
  <2> QED
    BY <1>3, <2>6 DEF AuthenticateVerify, TypeOK
<1>4. CASE AuthenticateCommit(r)
  <2> DEFINE u == req[r].user
             a == LockLifted(u, req[r].now)
  <2>1. u \in Users /\ req[r].now \in Nat /\ req[r].pw \in Passwords \cup {Null}
    BY <1>4 DEF AuthenticateCommit, At, PcOK, ReqOK, Request
  <2>2. a \in Account
    BY <2>1, LockLiftedType
  <2>3. account' \in [Users -> Account]
    BY <1>4, <2>1, <2>2 DEF AuthenticateCommit, TypeOK, Account, Status
  <2>4. session' \in [Ids -> Session]
    <3>1. PICK s \in Unused, created \in req[r].now .. clock :
            session' = [t \in Ids |->
              IF t = s THEN OpenedAt(u, req[r].now, created, req[r].pw)
              ELSE IF t \in req[r].rows THEN [session[t] EXCEPT !.revoked = "MAX_SESSIONS"]
              ELSE session[t]]
      BY <1>4 DEF AuthenticateCommit
    <3>2. created \in Nat
      BY <2>1 DEF TypeOK
    <3>3. OpenedAt(u, req[r].now, created, req[r].pw) \in Session
      BY <2>1, <3>2 DEF OpenedAt, Session
    <3>4. \A t \in Ids : [session[t] EXCEPT !.revoked = "MAX_SESSIONS"] \in Session
      BY DEF TypeOK, Session, Reason
    <3> QED
      BY <3>1, <3>3, <3>4 DEF TypeOK
  <2> QED
    BY <1>4, <2>3, <2>4, EndType DEF AuthenticateCommit, TypeOK
<1>5. CASE ResolveRefuse(r)
  BY <1>5, EndType DEF ResolveRefuse, TypeOK
<1>6. CASE ResolveExpired(r)
  BY <1>6, EndType, RevokeType DEF ResolveExpired, TypeOK, Reason
<1>7. CASE ResolveSession(r)
  <2> DEFINE s == req[r].sid
  <2>1. s \in Ids /\ req[r].now \in Nat
    BY <1>7 DEF ResolveSession, PcOK, ReqOK, Request
  <2>2. Refreshed(s, req[r].now) \in Session
    <3>1. session[s] \in Session
      BY <2>1 DEF TypeOK
    <3> QED
      <4>1. \A i \in Nat, n \in Nat : [session[s] EXCEPT !.seen = n, !.idle = i] \in Session
        BY <3>1 DEF Session
      <4>2. req[r].now + IdleTtl \in Nat /\ session[s].abs \in Nat
        BY <2>1, <3>1 DEF Session
      <4> QED
        BY <2>1, <3>1, <4>1, <4>2 DEF Refreshed
  <2>3. req' \in [Reqs -> Request]
    <3> DEFINE next == IF req[r].pc = "resolve1" THEN "csrf" ELSE "handler"
    <3>1. [req[r] EXCEPT !.pc = next, !.now = 0] \in Request
      <4>1. next \in Pc
        BY DEF Pc
      <4> HIDE DEF next
      <4> QED
        BY <4>1 DEF Request
    <3>2. CASE End(r)
      BY <3>2, EndType
    <3>3. CASE req' = [req EXCEPT ![r] = [@ EXCEPT !.pc = next, !.now = 0]]
      BY <3>1, <3>3, MoveType
    <3> QED
      BY <1>7, <3>2, <3>3 DEF ResolveSession
  <2> QED
    BY <1>7, <2>2, <2>3 DEF ResolveSession, TypeOK
<1>8. CASE CsrfMatches(r)
  <2>1. clock \in Nat
    BY DEF TypeOK
  <2>2. [req[r] EXCEPT !.pc = "resolve2", !.now = clock] \in Request
    BY <2>1 DEF Request, Pc
  <2> QED
    BY <1>8, <2>2, MoveType DEF CsrfMatches, TypeOK
<1>9. CASE CsrfRefuse(r)
  BY <1>9, EndType DEF CsrfRefuse, TypeOK
<1>10. CASE Logout(r)
  <2>1. req[r].sid \in Ids /\ Actor(r) \in Users
    BY <1>10 DEF Logout, At, PcOK, ReqOK, Actor
  <2> QED
    <3> DEFINE rows == IF session[req[r].sid].revoked = "NO" THEN {req[r].sid} ELSE {}
    <3>1. [req[r] EXCEPT !.pc = "audit", !.user = Actor(r), !.rows = rows] \in Request
      BY <2>1 DEF Request, Pc
    <3> QED
      BY <1>10, <3>1, MoveType DEF Logout, TypeOK
<1>11. CASE LogoutCommit(r)
  BY <1>11, EndType, RevokeType DEF LogoutCommit, TypeOK, Reason
<1>12. CASE ChangePasswordRefuse(r)
  BY <1>12, EndType DEF ChangePasswordRefuse, TypeOK
<1>13. CASE ChangePasswordVerify(r)
  <2>1. Actor(r) \in Users
    BY <1>13 DEF ChangePasswordVerify, At, PcOK, ReqOK, Actor
  <2> QED
    <3>1. \A p \in Passwords :
            [req[r] EXCEPT !.pc = "sweep", !.user = Actor(r), !.pw = p] \in Request
      BY <2>1 DEF Request, Pc
    <3> QED
      BY <1>13, <3>1, MoveType DEF ChangePasswordVerify, TypeOK
<1>14. CASE ChangePasswordCommit(r)
  <2>1. req[r].user \in Users /\ req[r].pw \in Passwords
    BY <1>14 DEF ChangePasswordCommit, At, PcOK, ReqOK
  <2>2. account' \in [Users -> Account]
    <3>1. account[req[r].user] \in Account
      BY <2>1 DEF TypeOK
    <3>2. [account[req[r].user] EXCEPT !.pw = req[r].pw, !.must = FALSE] \in Account
      BY <2>1, <3>1 DEF Account
    <3> QED
      BY <1>14, <2>1, <3>2, AccountType DEF ChangePasswordCommit
  <2>3. session' \in [Ids -> Session]
    BY <1>14, <2>1 DEF ChangePasswordCommit, TypeOK, Session, Reason
  <2> QED
    BY <1>14, <2>2, <2>3, EndType DEF ChangePasswordCommit, TypeOK
<1> QED
  BY <1>1, <1>2, <1>3, <1>4, <1>5, <1>6, <1>7, <1>8, <1>9, <1>10, <1>11, <1>12, <1>13,
     <1>14 DEF AuthServiceStep

\* And so does every step of the administrators' operations.
LEMMA AdminUsersType ==
    ASSUME TypeOK, PcOK, NEW r \in Reqs, AdminUsersStep(r)
    PROVE  TypeOK'
<1> USE SettingsAssumption, RowsAssumption
<1> req[r] \in Request
  BY DEF TypeOK
<1>1. CASE CreateUser(r)
  <2>1. account' \in [Users -> Account]
    BY <1>1 DEF CreateUser, TypeOK, Account, Status
  <2> QED
    BY <1>1, <2>1, EndType DEF CreateUser, TypeOK
<1>2. CASE CreateRefuse(r)
  BY <1>2, EndType DEF CreateRefuse, TypeOK
<1>3. CASE UpdateUser(r)
  <2>1. PICK u \in Users, p \in Patches :
          req' = [req EXCEPT ![r] =
                    [@ EXCEPT !.pc = IF p.status = "DISABLED" THEN "sweep" ELSE "audit",
                              !.user = u, !.patch = p]]
    BY <1>3 DEF UpdateUser
  <2>2. [req[r] EXCEPT !.pc = IF p.status = "DISABLED" THEN "sweep" ELSE "audit",
                       !.user = u, !.patch = p] \in Request
    <3> DEFINE next == IF p.status = "DISABLED" THEN "sweep" ELSE "audit"
    <3>1. next \in Pc /\ p \in Patch
      BY DEF Pc
    <3>2. \A pc \in Pc : [req[r] EXCEPT !.pc = pc, !.user = u, !.patch = p] \in Request
      BY <3>1 DEF Request
    <3> QED
      BY <3>1, <3>2
  <2>3. req' \in [Reqs -> Request]
    BY <2>1, <2>2, MoveType
  <2> QED
    BY <1>3, <2>3 DEF UpdateUser, TypeOK
<1>4. CASE UpdateRefuse(r)
  BY <1>4, EndType DEF UpdateRefuse, TypeOK
<1>5. CASE UpdateCommit(r)
  <2>1. req[r].user \in Users /\ req[r].patch \in Patch
    BY <1>5 DEF UpdateCommit, At, PcOK, ReqOK, Request
  <2>2. account' \in [Users -> Account]
    <3>1. account[req[r].user] \in Account
      BY <2>1 DEF TypeOK
    <3> DEFINE q == [account[req[r].user] EXCEPT
                      !.role = Coalesce(req[r].patch.role, account[req[r].user].role),
                      !.status = Coalesce(req[r].patch.status, account[req[r].user].status)]
    <3>2. q \in Account
      BY <2>1, <3>1 DEF Coalesce, Account, Patch, Keep
    <3>3. account' = [account EXCEPT ![req[r].user] = q]
      BY <1>5 DEF UpdateCommit
    <3> HIDE DEF q
    <3> QED
      BY <2>1, <3>2, <3>3, AccountType
  <2> QED
    BY <1>5, <2>2, EndType, RevokeType DEF UpdateCommit, TypeOK, Reason
<1>6. CASE UnlockUser(r)
  <2>1. \A u \in Users : [req[r] EXCEPT !.pc = "audit", !.user = u] \in Request
    BY DEF Request, Pc
  <2> QED
    BY <1>6, <2>1, MoveType DEF UnlockUser, TypeOK
<1>7. CASE UnlockCommit(r)
  <2>1. req[r].user \in Users
    BY <1>7 DEF UnlockCommit, At, PcOK, ReqOK
  <2>2. account' \in [Users -> Account]
    <3>1. account[req[r].user] \in Account
      BY <2>1 DEF TypeOK
    <3>2. [account[req[r].user] EXCEPT !.status = "ACTIVE", !.fails = 0, !.until = Null]
            \in Account
      BY <3>1 DEF Account, Status
    <3> QED
      BY <1>7, <2>1, <3>2, AccountType DEF UnlockCommit
  <2> QED
    BY <1>7, <2>2, EndType DEF UnlockCommit, TypeOK
<1>8. CASE ResetPassword(r)
  <2>1. \A u \in Users, p \in Passwords :
          [req[r] EXCEPT !.pc = "sweep", !.user = u, !.pw = p] \in Request
    BY DEF Request, Pc
  <2> QED
    BY <1>8, <2>1, MoveType DEF ResetPassword, TypeOK
<1>9. CASE ResetCommit(r)
  <2>1. req[r].user \in Users /\ req[r].pw \in Passwords
    BY <1>9 DEF ResetCommit, At, PcOK, ReqOK
  <2>2. account' \in [Users -> Account]
    <3>1. account[req[r].user] \in Account
      BY <2>1 DEF TypeOK
    <3>2. [account[req[r].user] EXCEPT !.pw = req[r].pw, !.must = TRUE] \in Account
      BY <2>1, <3>1 DEF Account
    <3> QED
      BY <1>9, <2>1, <3>2, AccountType DEF ResetCommit
  <2> QED
    BY <1>9, <2>2, EndType, RevokeType DEF ResetCommit, TypeOK, Reason
<1>10. CASE SweepSessions(r)
  <2>1. SweepRows(r) \subseteq Ids
    BY DEF SweepRows, Unrevoked
  <2> QED
    BY <1>10, <2>1 DEF SweepSessions, TypeOK, Request, Pc
<1>11. CASE RevokeUserSessions(r)
  <2>1. \A u \in Users : Unrevoked(u) \subseteq Ids
    BY DEF Unrevoked
  <2> QED
    <3>1. \A u \in Users :
            [req[r] EXCEPT !.pc = "sweep", !.user = u, !.rows = Unrevoked(u)] \in Request
      BY <2>1 DEF Request, Pc
    <3> QED
      BY <1>11, <3>1, MoveType DEF RevokeUserSessions, TypeOK
<1>12. CASE RevokeCommit(r)
  BY <1>12, EndType, RevokeType DEF RevokeCommit, TypeOK, Reason
<1>13. CASE AdminRefuse(r)
  BY <1>13, EndType DEF AdminRefuse, TypeOK
<1> QED
  BY <1>1, <1>2, <1>3, <1>4, <1>5, <1>6, <1>7, <1>8, <1>9, <1>10, <1>11, <1>12, <1>13
     DEF AdminUsersStep

\* The rows and the requests keep their shape: arrivals, the steps above, failures, the clock.
LEMMA TypeStep ==
    ASSUME TypeOK, PcOK, [Next]_vars
    PROVE  TypeOK'
<1> USE SettingsAssumption, RowsAssumption
<1>1. CASE \E r \in Reqs : ArriveLogin(r) \/ ArriveWithCookie(r)
  <2>1. PICK r \in Reqs : ArriveLogin(r) \/ ArriveWithCookie(r)
    BY <1>1
  <2>2. clock \in Nat
    BY DEF TypeOK
  <2>3. req' \in [Reqs -> Request]
    <3>1. CASE ArriveLogin(r)
      <4>1. \A u \in Users : [Idle EXCEPT !.kind = "login", !.pc = "lock",
                                          !.user = u, !.now = clock] \in Request
        BY <2>2, IdleType DEF Request, Pc, UserKinds
      <4> QED
        BY <3>1, <4>1, MoveType DEF ArriveLogin
    <3>2. CASE ArriveWithCookie(r)
      <4>1. \A k \in Kinds, s \in Ids :
              [Idle EXCEPT !.kind = k, !.pc = "resolve1", !.sid = s, !.now = clock] \in Request
        BY <2>2, IdleType DEF Request, Pc
      <4> QED
        BY <3>2, <4>1, MoveType DEF ArriveWithCookie
    <3> QED
      BY <2>1, <3>1, <3>2
  <2> QED
    BY <2>1, <2>3 DEF ArriveLogin, ArriveWithCookie, TypeOK
<1>2. CASE \E r \in Reqs : Step(r)
  BY <1>2, AuthServiceType, AdminUsersType DEF Step
<1>3. CASE \E r \in Reqs : Abort(r)
  BY <1>3, EndType DEF Abort, TypeOK
<1>4. CASE Tick
  BY <1>4 DEF Tick, TypeOK
<1>5. CASE UNCHANGED vars
  BY <1>5 DEF vars, TypeOK
<1> QED
  BY <1>1, <1>2, <1>3, <1>4, <1>5 DEF Next

-----------------------------------------------------------------------------
(* What a step of one request does: it gives up (Refuses), it goes on without a write   *)
(* (Reads), or it commits what it has written (Commits).                                *)

Refuses(r) ==
    \/ AuthenticateRefuse(r) \/ ResolveRefuse(r) \/ CsrfRefuse(r) \/ ChangePasswordRefuse(r)
    \/ CreateRefuse(r) \/ UpdateRefuse(r) \/ AdminRefuse(r) \/ Abort(r)

Reads(r) ==
    \/ ArriveLogin(r) \/ ArriveWithCookie(r) \/ AuthenticateVerify(r) \/ CsrfMatches(r)
    \/ Logout(r) \/ ChangePasswordVerify(r) \/ UpdateUser(r) \/ UnlockUser(r)
    \/ ResetPassword(r) \/ SweepSessions(r) \/ RevokeUserSessions(r)

Commits(r) ==
    \/ AuthenticateBadPassword(r) \/ AuthenticateCommit(r) \/ ResolveExpired(r)
    \/ ResolveSession(r) \/ LogoutCommit(r) \/ ChangePasswordCommit(r) \/ CreateUser(r)
    \/ UpdateCommit(r) \/ UnlockCommit(r) \/ ResetCommit(r) \/ RevokeCommit(r)

Moves(r) == Refuses(r) \/ Reads(r) \/ Commits(r)

\* A step of the service is a step of one request, or of the clock.
LEMMA NextMoves ==
    ASSUME Next
    PROVE  (\E r \in Reqs : Moves(r)) \/ Tick
BY DEF Next, Step, AuthServiceStep, AdminUsersStep, Moves, Refuses, Reads, Commits

\* A request that gives up has written nothing.
LEMMA RefusesEffect ==
    ASSUME TypeOK, NEW r \in Reqs, Refuses(r)
    PROVE  req' = [req EXCEPT ![r] = Idle] /\ account' = account /\ session' = session
BY DEF Refuses, AuthenticateRefuse, ResolveRefuse, CsrfRefuse, ChangePasswordRefuse,
       CreateRefuse, UpdateRefuse, AdminRefuse, Abort, End

\* Nothing is seen of a transaction before it commits.
LEMMA ReadsEffect ==
    ASSUME NEW r \in Reqs, Reads(r)
    PROVE  account' = account /\ session' = session
BY DEF Reads, ArriveLogin, ArriveWithCookie, AuthenticateVerify, CsrfMatches, Logout,
       ChangePasswordVerify, UpdateUser, UnlockUser, ResetPassword, SweepSessions,
       RevokeUserSessions

\* A request that commits holds no lock afterwards.
LEMMA CommitsEffect ==
    ASSUME TypeOK, NEW r \in Reqs, Commits(r)
    PROVE  \/ req' = [req EXCEPT ![r] = Idle]
           \/ /\ req[r].pc \in {"resolve1", "resolve2"}
              /\ \E pc \in {"csrf", "handler"} :
                   req' = [req EXCEPT ![r] = [@ EXCEPT !.pc = pc, !.now = 0]]
<1>1. CASE ResolveSession(r)
  BY <1>1 DEF ResolveSession, End
<1> QED
  BY <1>1 DEF Commits, AuthenticateBadPassword, AuthenticateCommit, ResolveExpired,
     LogoutCommit, ChangePasswordCommit, CreateUser, UpdateCommit, UnlockCommit,
     ResetCommit, RevokeCommit, End

\* The other requests stay where they are.
LEMMA OthersKept ==
    ASSUME TypeOK, NEW r \in Reqs, Moves(r), NEW x \in Reqs \ {r}
    PROVE  req'[x] = req[x]
<1>1. CASE Refuses(r)
  BY <1>1, RefusesEffect DEF TypeOK
<1>2. CASE Reads(r)
  BY <1>2 DEF Reads, ArriveLogin, ArriveWithCookie, AuthenticateVerify, CsrfMatches, Logout,
     ChangePasswordVerify, UpdateUser, UnlockUser, ResetPassword, SweepSessions,
     RevokeUserSessions, TypeOK
<1>3. CASE Commits(r)
  BY <1>3, CommitsEffect DEF TypeOK
<1> QED
  BY <1>1, <1>2, <1>3 DEF Moves

\* Revoke takes the rows out of the unrevoked ones and changes nothing else.
LEMMA RevokeEffect ==
    ASSUME TypeOK, NEW rows, NEW why \in Reason, Revoke(rows, why)
    PROVE  /\ \A s \in Ids : session'[s].user = session[s].user
                             /\ session'[s].pw = session[s].pw
           /\ \A u : Unrevoked(u)' = Unrevoked(u) \ rows
<1>1. \A s \in Ids : session'[s] = IF s \in rows THEN [session[s] EXCEPT !.revoked = why]
                                   ELSE session[s]
  BY DEF Revoke
<1>2. \A s \in Ids : session[s] \in Session
  BY DEF TypeOK
<1>3. \A s \in Ids : /\ session'[s].user = session[s].user
                     /\ session'[s].pw = session[s].pw
                     /\ session'[s].revoked = IF s \in rows THEN why ELSE session[s].revoked
  BY <1>1, <1>2 DEF Session
<1>4. why # "NO"
  BY DEF Reason
<1> QED
  BY <1>3, <1>4 DEF Unrevoked

\* A commit leaves each session with the user it was opened for; what is inserted goes to
\* a row that was unused.
LEMMA OwnerKept ==
    ASSUME TypeOK, PcOK, NEW r \in Reqs, Moves(r), NEW s \in Ids, session[s].user # Null
    PROVE  session'[s].user = session[s].user
<1> USE RowsAssumption
<1>0. session[s] \in Session
  BY DEF TypeOK
<1>1. CASE Refuses(r) \/ Reads(r)
  BY <1>1, RefusesEffect, ReadsEffect
<1>2. CASE AuthenticateBadPassword(r) \/ CreateUser(r) \/ UnlockCommit(r)
  BY <1>2 DEF AuthenticateBadPassword, CreateUser, UnlockCommit
<1>3. CASE AuthenticateCommit(r)
  BY <1>0, <1>3 DEF AuthenticateCommit, Unused, Session
<1>4. CASE ResolveExpired(r)
  BY <1>4, RevokeEffect DEF ResolveExpired, Reason
<1>5. CASE ResolveSession(r)
  BY <1>0, <1>5 DEF ResolveSession, Refreshed, TypeOK, Session
<1>6. CASE ChangePasswordCommit(r)
  BY <1>0, <1>6 DEF ChangePasswordCommit, Session
<1>7. CASE LogoutCommit(r)
  BY <1>7, RevokeEffect DEF LogoutCommit, Reason
<1>8. CASE UpdateCommit(r)
  BY <1>8, RevokeEffect DEF UpdateCommit, Reason
<1>9. CASE ResetCommit(r)
  BY <1>9, RevokeEffect DEF ResetCommit, Reason
<1>10. CASE RevokeCommit(r)
  BY <1>10, RevokeEffect DEF RevokeCommit, Reason
<1> QED
  BY <1>1, <1>2, <1>3, <1>4, <1>5, <1>6, <1>7, <1>8, <1>9, <1>10 DEF Moves, Commits

\* The slot of a request that has ended is idle.
LEMMA IdleOK == Idle.pc = "idle"
BY DEF Idle

\* A request that goes on to its next statement is where its operation has that statement.
LEMMA ReadsOK ==
    ASSUME TypeOK, PcOK, NEW r \in Reqs, Reads(r)
    PROVE  ReqOK(r)'
<1> USE RowsAssumption
<1>0. req[r] \in Request /\ ReqOK(r) /\ session' = session
  BY ReadsEffect DEF TypeOK, PcOK
<1>a. \A s \in Ids : session[s].user \in Users \cup {Null}
  BY DEF TypeOK, Session
<1>1. CASE ArriveLogin(r)
  <2>1. PICK u \in Users : req'[r] = [Idle EXCEPT !.kind = "login", !.pc = "lock",
                                                 !.user = u, !.now = clock]
    BY <1>1 DEF ArriveLogin, TypeOK
  <2> QED
    BY <2>1 DEF ReqOK, Idle
<1>2. CASE ArriveWithCookie(r)
  <2>1. PICK k \in Kinds, s \in Ids \ Unused :
          req'[r] = [Idle EXCEPT !.kind = k, !.pc = "resolve1", !.sid = s, !.now = clock]
    BY <1>2 DEF ArriveWithCookie, TypeOK
  <2>2. session[s].user \in Users
    BY <1>a DEF Unused
  <2> QED
    BY <1>0, <2>1, <2>2 DEF ReqOK, Idle
<1>3. CASE AuthenticateVerify(r)
  <2>1. PICK rows : req'[r] = [req[r] EXCEPT !.pc = "insert", !.pw = account[req[r].user].pw,
                                             !.rows = rows]
    BY <1>3 DEF AuthenticateVerify, TypeOK
  <2> QED
    BY <1>0, <1>3, <2>1 DEF AuthenticateVerify, At, ReqOK, Request
<1>4. CASE CsrfMatches(r)
  <2>1. req'[r] = [req[r] EXCEPT !.pc = "resolve2", !.now = clock]
    BY <1>4 DEF CsrfMatches, TypeOK
  <2> QED
    BY <1>0, <1>4, <2>1 DEF CsrfMatches, ReqOK, Request
<1>5. CASE Logout(r)
  <2>1. PICK rows : req'[r] = [req[r] EXCEPT !.pc = "audit", !.user = Actor(r), !.rows = rows]
    BY <1>5 DEF Logout, TypeOK
  <2> QED
    BY <1>0, <1>5, <2>1 DEF Logout, At, ReqOK, Request, Actor
<1>6. CASE ChangePasswordVerify(r)
  <2>1. PICK p \in Passwords :
          req'[r] = [req[r] EXCEPT !.pc = "sweep", !.user = Actor(r), !.pw = p]
    BY <1>6 DEF ChangePasswordVerify, TypeOK
  <2> QED
    BY <1>0, <1>6, <2>1 DEF ChangePasswordVerify, At, ReqOK, Request, Actor
<1>7. CASE UpdateUser(r)
  <2>1. PICK u \in Users, p \in Patches :
          req'[r] = [req[r] EXCEPT !.pc = IF p.status = "DISABLED" THEN "sweep" ELSE "audit",
                                   !.user = u, !.patch = p]
    BY <1>7 DEF UpdateUser, TypeOK
  <2> QED
    BY <1>0, <1>7, <2>1 DEF UpdateUser, At, ReqOK, Request, Actor
<1>8. CASE UnlockUser(r)
  <2>1. PICK u \in Users : req'[r] = [req[r] EXCEPT !.pc = "audit", !.user = u]
    BY <1>8 DEF UnlockUser, TypeOK
  <2> QED
    BY <1>0, <1>8, <2>1 DEF UnlockUser, At, ReqOK, Request, Actor
<1>9. CASE ResetPassword(r)
  <2>1. PICK u \in Users, p \in Passwords :
          req'[r] = [req[r] EXCEPT !.pc = "sweep", !.user = u, !.pw = p]
    BY <1>9 DEF ResetPassword, TypeOK
  <2> QED
    BY <1>0, <1>9, <2>1 DEF ResetPassword, At, ReqOK, Request, Actor
<1>10. CASE SweepSessions(r)
  <2>1. req'[r] = [req[r] EXCEPT !.pc = "audit", !.rows = SweepRows(r)]
    BY <1>10 DEF SweepSessions, TypeOK
  <2> QED
    BY <1>0, <1>10, <2>1 DEF SweepSessions, At, ReqOK, Request, Actor
<1>11. CASE RevokeUserSessions(r)
  <2>1. PICK u \in Users :
          req'[r] = [req[r] EXCEPT !.pc = "sweep", !.user = u, !.rows = Unrevoked(u)]
    BY <1>11 DEF RevokeUserSessions, TypeOK
  <2> QED
    BY <1>0, <1>11, <2>1 DEF RevokeUserSessions, At, ReqOK, Request, Actor
<1> QED
  BY <1>1, <1>2, <1>3, <1>4, <1>5, <1>6, <1>7, <1>8, <1>9, <1>10, <1>11 DEF Reads

\* Requests stay where their operation has a statement.
LEMMA PcStep ==
    ASSUME TypeOK, PcOK, [Next]_vars
    PROVE  PcOK'
<1> USE RowsAssumption
<1>1. CASE \E r \in Reqs : Moves(r)
  <2>1. PICK r \in Reqs : Moves(r)
    BY <1>1
  <2>2. ReqOK(r)'
    <3>1. CASE Refuses(r)
      BY <3>1, RefusesEffect, IdleOK DEF ReqOK, TypeOK, Idle
    <3>2. CASE Reads(r)
      BY <3>2, ReadsOK
    <3>3. CASE Commits(r)
      <4>1. CASE req' = [req EXCEPT ![r] = Idle]
        BY <4>1, IdleOK DEF ReqOK, TypeOK, Idle
      <4>2. CASE /\ req[r].pc \in {"resolve1", "resolve2"}
                 /\ \E pc \in {"csrf", "handler"} :
                      req' = [req EXCEPT ![r] = [@ EXCEPT !.pc = pc, !.now = 0]]
        <5>1. req[r] \in Request /\ ReqOK(r)
          BY DEF TypeOK, PcOK
        <5>2. PICK pc \in {"csrf", "handler"} :
                req'[r] = [req[r] EXCEPT !.pc = pc, !.now = 0]
          BY <4>2 DEF TypeOK
        <5>3. req'[r].pc = pc /\ req'[r].sid = req[r].sid
          BY <5>1, <5>2 DEF Request
        <5>4. req[r].sid \in Ids /\ session[req[r].sid].user \in Users
          BY <4>2, <5>1 DEF ReqOK
        <5>5. session'[req[r].sid].user = session[req[r].sid].user
          BY <2>1, <5>4, OwnerKept
        <5> QED
          BY <5>3, <5>4, <5>5 DEF ReqOK
      <4> QED
        BY <3>3, <4>1, <4>2, CommitsEffect
    <3> QED
      BY <2>1, <3>1, <3>2, <3>3 DEF Moves
  <2>3. ASSUME NEW x \in Reqs \ {r}
        PROVE  ReqOK(x)'
    <3>1. ReqOK(x) /\ req'[x] = req[x]
      BY <2>1, OthersKept DEF PcOK
    <3>2. \A s \in Ids : session[s].user \in Users => session'[s].user = session[s].user
      BY <2>1, OwnerKept
    <3> QED
      BY <3>1, <3>2 DEF ReqOK, Actor
  <2> QED
    BY <2>2, <2>3 DEF PcOK
<1>2. CASE Tick \/ UNCHANGED vars
  BY <1>2 DEF Tick, vars, PcOK, ReqOK, Actor
<1> QED
  BY <1>1, <1>2, NextMoves

-----------------------------------------------------------------------------
(* Row locks *)

\* A request gets the lock of a user's row only when no other request has it, and of a row
\* that exists.
LEMMA NewLock ==
    ASSUME TypeOK, PcOK, RowsExist, NEW r \in Reqs, Moves(r), NEW u \in Users,
           LocksUser(r, u)'
    PROVE  LocksUser(r, u) \/ (UserFree(r, u) /\ Exists(u))
<1> USE RowsAssumption
<1>0. req[r] \in Request /\ ReqOK(r) /\ req'[r].user = u
      /\ (\/ req'[r].pc = "insert"
          \/ req'[r].kind \in {"change", "patch", "reset", "unlock"}
             /\ req'[r].pc \in {"sweep", "audit"})
  BY DEF TypeOK, PcOK, LocksUser
<1>1. CASE Refuses(r)
  BY <1>0, <1>1, RefusesEffect, IdleOK DEF TypeOK
<1>2. CASE Commits(r)
  <2>1. \/ req'[r] = Idle
        \/ \E pc \in {"csrf", "handler"} : req'[r] = [req[r] EXCEPT !.pc = pc, !.now = 0]
    <3>1. CASE req' = [req EXCEPT ![r] = Idle]
      BY <3>1 DEF TypeOK
    <3>2. ASSUME NEW pc \in {"csrf", "handler"},
                 req' = [req EXCEPT ![r] = [@ EXCEPT !.pc = pc, !.now = 0]]
          PROVE  req'[r] = [req[r] EXCEPT !.pc = pc, !.now = 0]
      BY <3>2 DEF TypeOK
    <3> QED
      BY <1>2, <3>1, <3>2, CommitsEffect
  <2>2. CASE req'[r] = Idle
    BY <1>0, <2>2, IdleOK
  <2>3. ASSUME NEW pc \in {"csrf", "handler"},
               req'[r] = [req[r] EXCEPT !.pc = pc, !.now = 0]
        PROVE  FALSE
    <3>1. req'[r].pc = pc
      BY <1>0, <2>3 DEF Request
    <3> QED
      BY <1>0, <3>1
  <2> QED
    BY <2>1, <2>2, <2>3
<1>3. CASE ArriveLogin(r)
  <2>1. PICK v \in Users : req'[r] = [Idle EXCEPT !.kind = "login", !.pc = "lock",
                                                 !.user = v, !.now = clock]
    BY <1>3 DEF ArriveLogin, TypeOK
  <2> QED
    BY <1>0, <2>1 DEF Idle
<1>4. CASE ArriveWithCookie(r)
  <2>1. PICK k \in Kinds, s \in Ids \ Unused :
          req'[r] = [Idle EXCEPT !.kind = k, !.pc = "resolve1", !.sid = s, !.now = clock]
    BY <1>4 DEF ArriveWithCookie, TypeOK
  <2> QED
    BY <1>0, <2>1 DEF Idle
<1>5. CASE AuthenticateVerify(r)
  <2>1. PICK rows : req'[r] = [req[r] EXCEPT !.pc = "insert", !.pw = account[req[r].user].pw,
                                             !.rows = rows]
    BY <1>5 DEF AuthenticateVerify, TypeOK
  <2>2. req[r].user = u /\ req[r].now \in Nat
    BY <1>0, <2>1 DEF Request
  <2>3. Exists(u)
    BY <1>5, <2>2, LockLiftedType DEF AuthenticateVerify, OpenStatus, Exists
  <2> QED
    BY <1>5, <2>2, <2>3 DEF AuthenticateVerify
<1>6. CASE CsrfMatches(r)
  <2>1. req'[r] = [req[r] EXCEPT !.pc = "resolve2", !.now = clock]
    BY <1>6 DEF CsrfMatches, TypeOK
  <2> QED
    BY <1>0, <2>1 DEF Request
<1>7. CASE Logout(r)
  <2>1. PICK rows : req'[r] = [req[r] EXCEPT !.pc = "audit", !.user = Actor(r), !.rows = rows]
    BY <1>7 DEF Logout, TypeOK
  <2> QED
    BY <1>0, <1>7, <2>1 DEF Logout, At, Request
<1>8. CASE ChangePasswordVerify(r)
  <2>1. PICK p \in Passwords :
          req'[r] = [req[r] EXCEPT !.pc = "sweep", !.user = Actor(r), !.pw = p]
    BY <1>8 DEF ChangePasswordVerify, TypeOK
  <2>2. Actor(r) = u
    BY <1>0, <2>1 DEF Request
  <2>3. req[r].sid \in Ids
    BY <1>0, <1>8 DEF ChangePasswordVerify, At, ReqOK
  <2>4. Exists(u)
    BY <2>2, <2>3 DEF RowsExist, Actor
  <2> QED
    BY <1>8, <2>2, <2>4 DEF ChangePasswordVerify
<1>9. CASE UpdateUser(r)
  <2>1. PICK v \in Users, p \in Patches :
          /\ Exists(v) /\ UserFree(r, v)
          /\ req'[r] = [req[r] EXCEPT !.pc = IF p.status = "DISABLED" THEN "sweep" ELSE "audit",
                                      !.user = v, !.patch = p]
    BY <1>9 DEF UpdateUser, TypeOK
  <2> QED
    BY <1>0, <2>1 DEF Request
<1>10. CASE UnlockUser(r)
  <2>1. PICK v \in Users : /\ Exists(v) /\ UserFree(r, v)
                           /\ req'[r] = [req[r] EXCEPT !.pc = "audit", !.user = v]
    BY <1>10 DEF UnlockUser, TypeOK
  <2> QED
    BY <1>0, <2>1 DEF Request
<1>11. CASE ResetPassword(r)
  <2>1. PICK v \in Users, p \in Passwords :
          /\ Exists(v) /\ UserFree(r, v)
          /\ req'[r] = [req[r] EXCEPT !.pc = "sweep", !.user = v, !.pw = p]
    BY <1>11 DEF ResetPassword, TypeOK
  <2> QED
    BY <1>0, <2>1 DEF Request
<1>12. CASE SweepSessions(r)
  <2>1. req'[r] = [req[r] EXCEPT !.pc = "audit", !.rows = SweepRows(r)]
    BY <1>12 DEF SweepSessions, TypeOK
  <2> QED
    BY <1>0, <1>12, <2>1 DEF SweepSessions, Request, LocksUser
<1>13. CASE RevokeUserSessions(r)
  <2>1. PICK v \in Users :
          req'[r] = [req[r] EXCEPT !.pc = "sweep", !.user = v, !.rows = Unrevoked(v)]
    BY <1>13 DEF RevokeUserSessions, TypeOK
  <2> QED
    BY <1>0, <1>13, <2>1 DEF RevokeUserSessions, At, Request
<1> QED
  BY <1>1, <1>2, <1>3, <1>4, <1>5, <1>6, <1>7, <1>8, <1>9, <1>10, <1>11, <1>12, <1>13
     DEF Moves, Reads

\* A request's locks change in its own steps only.
LEMMA OtherLocksKept ==
    ASSUME TypeOK, NEW r \in Reqs, Moves(r), NEW x \in Reqs \ {r}, NEW u
    PROVE  LocksUser(x, u)' <=> LocksUser(x, u)
BY OthersKept DEF LocksUser

\* Two transactions never have the row of one user locked.
LEMMA ExclusiveStep ==
    ASSUME TypeOK, PcOK, RowsExist, Exclusive, [Next]_vars
    PROVE  Exclusive'
<1>1. CASE \E r \in Reqs : Moves(r)
  <2>1. PICK r \in Reqs : Moves(r)
    BY <1>1
  <2> SUFFICES ASSUME NEW y \in Reqs, NEW x \in Reqs, NEW u \in Users,
                      LocksUser(y, u)', LocksUser(x, u)', y # x
               PROVE  FALSE
    BY DEF Exclusive
  <2>2. ASSUME NEW z \in Reqs \ {r}, LocksUser(r, u)', LocksUser(z, u)'
        PROVE  FALSE
    <3>1. LocksUser(z, u)
      BY <2>1, <2>2, OtherLocksKept
    <3>2. LocksUser(r, u) \/ UserFree(r, u)
      BY <2>1, <2>2, NewLock
    <3> QED
      BY <3>1, <3>2 DEF Exclusive, UserFree
  <2>3. CASE y = r
    BY <2>2, <2>3
  <2>4. CASE x = r
    BY <2>2, <2>4
  <2>5. CASE y # r /\ x # r
    BY <2>1, <2>5, OtherLocksKept DEF Exclusive
  <2> QED
    BY <2>3, <2>4, <2>5
<1>2. CASE Tick \/ UNCHANGED vars
  BY <1>2 DEF Tick, vars, Exclusive, LocksUser
<1> QED
  BY <1>1, <1>2, NextMoves

\* What a user's row lock protects: while one request has it, no other request changes the
\* account or opens a session of it.
LEMMA LockProtects ==
    ASSUME TypeOK, PcOK, RowsExist, Exclusive, NEW r \in Reqs, Moves(r),
           NEW x \in Reqs \ {r}, NEW u \in Users, LocksUser(x, u)
    PROVE  account'[u] = account[u] /\ Unrevoked(u)' \subseteq Unrevoked(u)
<1> USE RowsAssumption
<1>0. req[r] \in Request /\ ReqOK(r) /\ ~UserFree(r, u) /\ ~LocksUser(r, u) /\ Exists(u)
  BY DEF TypeOK, PcOK, Exclusive, UserFree, RowsExist
<1>1. CASE Refuses(r) \/ Reads(r)
  <2>1. account' = account /\ session' = session
    BY <1>1, RefusesEffect, ReadsEffect
  <2> QED
    BY <2>1 DEF Unrevoked
<1>2. CASE AuthenticateBadPassword(r)
  <2>1. req[r].user # u
    BY <1>0, <1>2 DEF AuthenticateBadPassword
  <2> QED
    BY <1>2, <2>1 DEF AuthenticateBadPassword, Unrevoked, TypeOK
<1>3. CASE AuthenticateCommit(r)
  <2>1. req[r].user # u
    BY <1>0, <1>3 DEF AuthenticateCommit, At, LocksUser
  <2>2. account'[u] = account[u]
    BY <1>3, <2>1 DEF AuthenticateCommit, TypeOK
  <2>3. PICK s \in Unused, created \in req[r].now .. clock :
          session' = [t \in Ids |->
            IF t = s THEN OpenedAt(req[r].user, req[r].now, created, req[r].pw)
            ELSE IF t \in req[r].rows THEN [session[t] EXCEPT !.revoked = "MAX_SESSIONS"]
            ELSE session[t]]
    BY <1>3 DEF AuthenticateCommit
  <2>4. session'[s].user # u
    BY <2>1, <2>3 DEF OpenedAt, Unused
  <2>5. \A t \in Ids \ {s} : session'[t].user = session[t].user
                             /\ (session'[t].revoked = "NO" => session[t].revoked = "NO")
    BY <2>3 DEF TypeOK, Session
  <2> QED
    BY <2>2, <2>4, <2>5 DEF Unrevoked
<1>4. CASE ResolveExpired(r)
  BY <1>4, RevokeEffect DEF ResolveExpired, Reason
<1>5. CASE ResolveSession(r)
  <2>1. \A t \in Ids : session'[t].user = session[t].user
                       /\ session'[t].revoked = session[t].revoked
    BY <1>5 DEF ResolveSession, Refreshed, TypeOK, Session
  <2> QED
    BY <1>5, <2>1 DEF ResolveSession, Unrevoked
<1>6. CASE ChangePasswordCommit(r)
  <2>1. req[r].user # u
    BY <1>0, <1>6 DEF ChangePasswordCommit, At, LocksUser
  <2>2. account'[u] = account[u]
    BY <1>6, <2>1 DEF ChangePasswordCommit, TypeOK
  <2>3. \A t \in Ids : session'[t].user = session[t].user
                       /\ (session'[t].revoked = "NO" => session[t].revoked = "NO")
    BY <1>6 DEF ChangePasswordCommit, TypeOK, Session
  <2> QED
    BY <2>2, <2>3 DEF Unrevoked
<1>7. CASE LogoutCommit(r)
  BY <1>7, RevokeEffect DEF LogoutCommit, Reason
<1>8. CASE CreateUser(r)
  <2>1. account'[u] = account[u]
    BY <1>0, <1>8 DEF CreateUser, TypeOK
  <2> QED
    BY <1>8, <2>1 DEF CreateUser, Unrevoked
<1>9. CASE UpdateCommit(r)
  <2>1. req[r].user # u
    BY <1>0, <1>9 DEF UpdateCommit, At, LocksUser
  <2>2. account'[u] = account[u]
    BY <1>9, <2>1 DEF UpdateCommit, TypeOK
  <2> QED
    BY <1>9, <2>2, RevokeEffect DEF UpdateCommit, Reason
<1>10. CASE UnlockCommit(r)
  <2>1. req[r].user # u
    BY <1>0, <1>10 DEF UnlockCommit, At, LocksUser
  <2> QED
    BY <1>10, <2>1 DEF UnlockCommit, Unrevoked, TypeOK
<1>11. CASE ResetCommit(r)
  <2>1. req[r].user # u
    BY <1>0, <1>11 DEF ResetCommit, At, LocksUser
  <2>2. account'[u] = account[u]
    BY <1>11, <2>1 DEF ResetCommit, TypeOK
  <2> QED
    BY <1>11, <2>2, RevokeEffect DEF ResetCommit, Reason
<1>12. CASE RevokeCommit(r)
  BY <1>12, RevokeEffect DEF RevokeCommit, Reason
<1> QED
  BY <1>1, <1>2, <1>3, <1>4, <1>5, <1>6, <1>7, <1>8, <1>9, <1>10, <1>11, <1>12
     DEF Moves, Commits

-----------------------------------------------------------------------------
(* The conjuncts of the inductive invariant, one lemma each *)

\* Accounts are not deleted.
LEMMA ExistsKept ==
    ASSUME TypeOK, PcOK, NEW r \in Reqs, Moves(r), NEW u \in Users, Exists(u)
    PROVE  Exists(u)'
<1>0. req[r] \in Request /\ ReqOK(r) /\ account[u] \in Account /\ account[u].status # "ABSENT"
  BY DEF TypeOK, PcOK, Exists
<1> SUFFICES account'[u].status # "ABSENT"
  BY DEF Exists
<1>1. CASE account' = account
  BY <1>0, <1>1
<1>2. CASE AuthenticateBadPassword(r)
  <2>1. req[r].user \in Users /\ req[r].now \in Nat
    BY <1>0, <1>2 DEF AuthenticateBadPassword, At, ReqOK, Request
  <2>2. LockLifted(req[r].user, req[r].now) \in Account
    BY <2>1, LockLiftedType
  <2>3. account'[u] = account[u]
        \/ account'[u].status \in {"LOCKED", LockLifted(req[r].user, req[r].now).status}
    BY <1>2, <2>2 DEF AuthenticateBadPassword, TypeOK, Account
  <2> QED
    BY <1>0, <1>2, <2>3 DEF AuthenticateBadPassword, OpenStatus
<1>3. CASE AuthenticateCommit(r)
  <2>1. req[r].user \in Users /\ req[r].now \in Nat
    BY <1>0, <1>3 DEF AuthenticateCommit, At, ReqOK, Request
  <2>2. /\ LockLifted(req[r].user, req[r].now) \in Account
        /\ req[r].user = u => LockLifted(req[r].user, req[r].now).status # "ABSENT"
    BY <1>0, <2>1, LockLiftedType
  <2> DEFINE a == LockLifted(req[r].user, req[r].now)
             q == [a EXCEPT !.fails = 0, !.until = Null,
                            !.status = IF @ = "PENDING" THEN "ACTIVE" ELSE @]
  <2>a. account' = [account EXCEPT ![req[r].user] = q]
    BY <1>3 DEF AuthenticateCommit
  <2>b. q.status \in {"ACTIVE", a.status}
    BY <2>2 DEF Account
  <2>3. \/ account'[u] = account[u]
        \/ req[r].user = u /\ account'[u].status \in {"ACTIVE", a.status}
    <3>1. account'[u] = IF u = req[r].user THEN q ELSE account[u]
      BY <2>1, <2>a DEF TypeOK
    <3> HIDE DEF q, a
    <3> QED
      BY <2>b, <3>1
  <2> QED
    BY <1>0, <2>2, <2>3
<1>4. CASE ChangePasswordCommit(r)
  BY <1>0, <1>4 DEF ChangePasswordCommit, TypeOK, Account
<1>5. CASE CreateUser(r)
  BY <1>0, <1>5 DEF CreateUser, TypeOK
<1>6. CASE UpdateCommit(r)
  <2>1. account'[u] = account[u]
        \/ account'[u].status = Coalesce(req[r].patch.status, account[u].status)
    BY <1>0, <1>6 DEF UpdateCommit, TypeOK, Account
  <2>2. req[r].patch.status \in Status \cup {Keep}
    BY <1>0 DEF Request, Patch
  <2> QED
    BY <1>0, <2>1, <2>2 DEF Coalesce, Status
<1>7. CASE UnlockCommit(r)
  BY <1>0, <1>7 DEF UnlockCommit, TypeOK, Account
<1>8. CASE ResetCommit(r)
  BY <1>0, <1>8 DEF ResetCommit, TypeOK, Account
<1>9. CASE ResolveExpired(r) \/ ResolveSession(r) \/ LogoutCommit(r) \/ RevokeCommit(r)
  BY <1>1, <1>9 DEF ResolveExpired, ResolveSession, LogoutCommit, RevokeCommit
<1> QED
  BY <1>1, <1>2, <1>3, <1>4, <1>5, <1>6, <1>7, <1>8, <1>9, RefusesEffect, ReadsEffect
     DEF Moves, Commits

\* Where a session comes from.
LEMMA NewSession ==
    ASSUME TypeOK, PcOK, NEW r \in Reqs, Moves(r), NEW s \in Ids, session[s].user = Null,
           session'[s].user # Null
    PROVE  /\ AuthenticateCommit(r)
           /\ session'[s].user = req[r].user
<1>0. session[s] \in Session
  BY DEF TypeOK
<1>1. CASE session' = session
  BY <1>1
<1>2. CASE AuthenticateCommit(r)
  BY <1>0, <1>2 DEF AuthenticateCommit, OpenedAt, Session
<1>3. CASE ResolveExpired(r) \/ LogoutCommit(r) \/ UpdateCommit(r) \/ ResetCommit(r)
           \/ RevokeCommit(r)
  BY <1>3, RevokeEffect
     DEF ResolveExpired, LogoutCommit, UpdateCommit, ResetCommit, RevokeCommit, Reason
<1>4. CASE ResolveSession(r)
  BY <1>0, <1>4 DEF ResolveSession, Refreshed, TypeOK, Session
<1>5. CASE ChangePasswordCommit(r)
  BY <1>0, <1>5 DEF ChangePasswordCommit, Session
<1>6. CASE AuthenticateBadPassword(r) \/ CreateUser(r) \/ UnlockCommit(r)
  BY <1>1, <1>6 DEF AuthenticateBadPassword, CreateUser, UnlockCommit
<1> QED
  BY <1>1, <1>2, <1>3, <1>4, <1>5, <1>6, RefusesEffect, ReadsEffect DEF Moves, Commits

\* Sessions keep belonging to accounts that exist, and locks to rows that exist.
LEMMA RowsExistStep ==
    ASSUME TypeOK, PcOK, RowsExist, [Next]_vars
    PROVE  RowsExist'
<1> USE RowsAssumption
<1>1. CASE \E r \in Reqs : Moves(r)
  <2>1. PICK r \in Reqs : Moves(r)
    BY <1>1
  <2>2. ASSUME NEW s \in Ids, session'[s].user # Null
        PROVE  account'[session'[s].user].status # "ABSENT"
    <3>1. CASE session[s].user = Null
      <4>1. AuthenticateCommit(r) /\ session'[s].user = req[r].user
        BY <2>1, <2>2, <3>1, NewSession
      <4>2. req[r].user \in Users /\ LocksUser(r, req[r].user)
        BY <4>1 DEF AuthenticateCommit, At, LocksUser, PcOK, ReqOK
      <4>3. Exists(req[r].user)
        BY <4>2 DEF RowsExist
      <4>4. account'[req[r].user].status # "ABSENT"
        BY <2>1, <4>2, <4>3, ExistsKept DEF Exists
      <4> QED
        BY <4>1, <4>4
    <3>2. CASE session[s].user # Null
      <4>1. session'[s].user = session[s].user /\ session[s].user \in Users
        BY <2>1, <3>2, OwnerKept DEF TypeOK, Session
      <4>2. account'[session[s].user].status # "ABSENT"
        BY <2>1, <3>2, <4>1, ExistsKept DEF RowsExist, Exists
      <4> QED
        BY <4>1, <4>2
    <3> QED
      BY <3>1, <3>2
  <2>3. ASSUME NEW x \in Reqs, NEW u \in Users, LocksUser(x, u)'
        PROVE  Exists(u)'
    <3>1. Exists(u)
      BY <2>1, <2>3, NewLock, OtherLocksKept DEF RowsExist
    <3> QED
      BY <2>1, <3>1, ExistsKept
  <2> QED
    BY <2>2, <2>3 DEF RowsExist, Exists
<1>2. CASE Tick \/ UNCHANGED vars
  BY <1>2 DEF Tick, vars, RowsExist, Exists, LocksUser
<1> QED
  BY <1>1, <1>2, NextMoves

\* Only the check of a password leads to the insert, and only a sweep, or a statement that
\* needs none, to the audit.
LEMMA WhereNext ==
    ASSUME TypeOK, NEW r \in Reqs, Moves(r)
    PROVE  /\ req'[r].pc = "insert" => AuthenticateVerify(r)
           /\ req'[r].pc = "audit" =>
                \/ SweepSessions(r)
                \/ req'[r].kind \in {"logout", "unlock"}
                \/ req'[r].kind = "patch" /\ req'[r].patch.status # "DISABLED"
<1>0. req[r] \in Request
  BY DEF TypeOK
<1>1. CASE Refuses(r)
  BY <1>1, RefusesEffect, IdleOK DEF TypeOK
<1>2. CASE Commits(r)
  <2>1. \/ req'[r] = Idle
        \/ \E pc \in {"csrf", "handler"} : req'[r] = [req[r] EXCEPT !.pc = pc, !.now = 0]
    BY <1>2, CommitsEffect DEF TypeOK
  <2>2. req'[r].pc \in {"idle", "csrf", "handler"}
    BY <1>0, <2>1, IdleOK DEF Request
  <2> QED
    BY <2>2
<1>3. CASE ArriveLogin(r)
  <2>1. PICK v \in Users : req'[r] = [Idle EXCEPT !.kind = "login", !.pc = "lock",
                                                 !.user = v, !.now = clock]
    BY <1>3 DEF ArriveLogin, TypeOK
  <2> QED
    BY <2>1 DEF Idle
<1>4. CASE ArriveWithCookie(r)
  <2>1. PICK k \in Kinds, s \in Ids \ Unused :
          req'[r] = [Idle EXCEPT !.kind = k, !.pc = "resolve1", !.sid = s, !.now = clock]
    BY <1>4 DEF ArriveWithCookie, TypeOK
  <2> QED
    BY <2>1 DEF Idle
<1>5. CASE AuthenticateVerify(r)
  <2>1. PICK rows : req'[r] = [req[r] EXCEPT !.pc = "insert", !.pw = account[req[r].user].pw,
                                             !.rows = rows]
    BY <1>5 DEF AuthenticateVerify, TypeOK
  <2> QED
    BY <1>0, <1>5, <2>1 DEF Request
<1>6. CASE CsrfMatches(r)
  <2>1. req'[r] = [req[r] EXCEPT !.pc = "resolve2", !.now = clock]
    BY <1>6 DEF CsrfMatches, TypeOK
  <2> QED
    BY <1>0, <2>1 DEF Request
<1>7. CASE Logout(r)
  <2>1. PICK rows : req'[r] = [req[r] EXCEPT !.pc = "audit", !.user = Actor(r), !.rows = rows]
    BY <1>7 DEF Logout, TypeOK
  <2> QED
    BY <1>0, <1>7, <2>1 DEF Logout, At, Request
<1>8. CASE ChangePasswordVerify(r)
  <2>1. PICK p \in Passwords :
          req'[r] = [req[r] EXCEPT !.pc = "sweep", !.user = Actor(r), !.pw = p]
    BY <1>8 DEF ChangePasswordVerify, TypeOK
  <2> QED
    BY <1>0, <2>1 DEF Request
<1>9. CASE UpdateUser(r)
  <2>1. PICK v \in Users, p \in Patches :
          req'[r] = [req[r] EXCEPT !.pc = IF p.status = "DISABLED" THEN "sweep" ELSE "audit",
                                   !.user = v, !.patch = p]
    BY <1>9 DEF UpdateUser, TypeOK
  <2> QED
    BY <1>0, <1>9, <2>1 DEF UpdateUser, At, Request
<1>10. CASE UnlockUser(r)
  <2>1. PICK v \in Users : req'[r] = [req[r] EXCEPT !.pc = "audit", !.user = v]
    BY <1>10 DEF UnlockUser, TypeOK
  <2> QED
    BY <1>0, <1>10, <2>1 DEF UnlockUser, At, Request
<1>11. CASE ResetPassword(r)
  <2>1. PICK v \in Users, p \in Passwords :
          req'[r] = [req[r] EXCEPT !.pc = "sweep", !.user = v, !.pw = p]
    BY <1>11 DEF ResetPassword, TypeOK
  <2> QED
    BY <1>0, <2>1 DEF Request
<1>12. CASE SweepSessions(r)
  <2>1. req'[r] = [req[r] EXCEPT !.pc = "audit", !.rows = SweepRows(r)]
    BY <1>12 DEF SweepSessions, TypeOK
  <2> QED
    BY <1>0, <1>12, <2>1 DEF Request
<1>13. CASE RevokeUserSessions(r)
  <2>1. PICK v \in Users :
          req'[r] = [req[r] EXCEPT !.pc = "sweep", !.user = v, !.rows = Unrevoked(v)]
    BY <1>13 DEF RevokeUserSessions, TypeOK
  <2> QED
    BY <1>0, <2>1 DEF Request
<1> QED
  BY <1>1, <1>2, <1>3, <1>4, <1>5, <1>6, <1>7, <1>8, <1>9, <1>10, <1>11, <1>12, <1>13
     DEF Moves, Reads

\* A user's unrevoked sessions can be counted, before and after a step.
LEMMA UnrevokedFinite ==
    ASSUME NEW u
    PROVE  /\ IsFiniteSet(Unrevoked(u)) /\ Cardinality(Unrevoked(u)) \in Nat
           /\ IsFiniteSet(Unrevoked(u)') /\ Cardinality(Unrevoked(u)') \in Nat
<1>1. Unrevoked(u) \in SUBSET Ids /\ Unrevoked(u)' \in SUBSET Ids
  BY DEF Unrevoked
<1> QED
  BY <1>1, RowsAssumption, FS_Subset, FS_CardinalityType

\* A login that has checked its password reads the account and the sessions under the row
\* lock, and nobody disturbs them until it inserts.
LEMMA LoginFreshStep ==
    ASSUME TypeOK, PcOK, RowsExist, Exclusive, LoginFresh, [Next]_vars
    PROVE  LoginFresh'
<1> USE SettingsAssumption
<1>1. CASE \E r \in Reqs : Moves(r)
  <2>1. PICK r \in Reqs : Moves(r)
    BY <1>1
  <2>2. PcOK'
    BY PcStep
  <2> SUFFICES ASSUME NEW x \in Reqs, NEW u \in Users,
                      req'[x].pc = "insert", req'[x].user = u
               PROVE  /\ Cardinality(Unrevoked(u)' \ req'[x].rows) < MaxSessions
                      /\ req'[x].pw = account'[u].pw
                      /\ account'[u].status # "DISABLED"
    BY <2>2 DEF LoginFresh, Unrevoked, PcOK, ReqOK
  <2>3. CASE x # r
    <3>1. req'[x] = req[x] /\ LocksUser(x, u)
      BY <2>1, <2>3, OthersKept DEF LocksUser
    <3>2. account'[u] = account[u] /\ Unrevoked(u)' \subseteq Unrevoked(u)
      BY <2>1, <2>3, <3>1, LockProtects
    <3>3. /\ Cardinality(Unrevoked(u) \ req[x].rows) < MaxSessions
          /\ req[x].pw = account[u].pw
          /\ account[u].status # "DISABLED"
      BY <3>1 DEF LoginFresh
    <3>4. Cardinality(Unrevoked(u)' \ req[x].rows) < MaxSessions
      <4> DEFINE S == Unrevoked(u) \ req[x].rows
                 T == Unrevoked(u)' \ req[x].rows
      <4>1. T \in SUBSET S /\ S \in SUBSET Unrevoked(u)
        BY <3>2
      <4>2. IsFiniteSet(S)
        BY <4>1, UnrevokedFinite, FS_Subset
      <4>3. /\ Cardinality(T) <= Cardinality(S)
            /\ Cardinality(T) \in Nat /\ Cardinality(S) \in Nat
        BY <4>1, <4>2, FS_Subset, FS_CardinalityType
      <4> QED
        BY <3>3, <4>3
    <3> QED
      BY <3>1, <3>2, <3>3, <3>4
  <2>4. CASE x = r
    <3>1. AuthenticateVerify(r)
      BY <2>1, <2>4, WhereNext
    <3>2. req[r] \in Request
      BY DEF TypeOK
    <3>3. PICK rows \in SUBSET Unrevoked(req[r].user) :
            /\ Oldest(rows, Unrevoked(req[r].user))
            /\ req'[r] = [req[r] EXCEPT !.pc = "insert", !.pw = account[req[r].user].pw,
                                        !.rows = rows]
      BY <3>1 DEF AuthenticateVerify, TypeOK
    <3>4. /\ req[r].user = u /\ req[r].now \in Nat
          /\ req'[r].pw = account[u].pw /\ req'[r].rows = rows
      BY <2>4, <3>2, <3>3 DEF Request
    <3>5. account' = account /\ session' = session
      BY <3>1 DEF AuthenticateVerify
    <3>6. account[u].status # "DISABLED"
      BY <3>1, <3>4, LockLiftedType DEF AuthenticateVerify, OpenStatus
    <3>7. Cardinality(Unrevoked(u) \ rows) < MaxSessions
      <4> DEFINE S == Unrevoked(u)
      <4>1. rows \in SUBSET S /\ Oldest(rows, S) /\ S \cap rows = rows
        BY <3>3, <3>4
      <4>2. IsFiniteSet(S) /\ Cardinality(S) \in Nat
        BY UnrevokedFinite
      <4>3. Cardinality(S \ rows) = Cardinality(S) - Cardinality(rows)
        <5> HIDE DEF S
        <5> QED
          BY <4>1, <4>2, FS_Difference
      <4>4. Cardinality(rows) = IF Cardinality(S) < MaxSessions THEN 0
                                ELSE Cardinality(S) + 1 - MaxSessions
        BY <4>1 DEF Oldest
      <4> HIDE DEF S
      <4>5. Cardinality(S \ rows) < MaxSessions
        BY <4>2, <4>3, <4>4
      <4> QED
        BY <4>5 DEF S
    <3>8. Unrevoked(u)' = Unrevoked(u)
      BY <3>5 DEF Unrevoked
    <3> QED
      BY <2>4, <3>4, <3>5, <3>6, <3>7, <3>8
  <2> QED
    BY <2>3, <2>4
<1>2. CASE Tick \/ UNCHANGED vars
  BY <1>2 DEF Tick, vars, LoginFresh, Unrevoked
<1> QED
  BY <1>1, <1>2, NextMoves

\* A sweep stays complete: the user's row is locked until the commit, so that no session is
\* opened meanwhile.
LEMMA SweepCompleteStep ==
    ASSUME TypeOK, PcOK, RowsExist, Exclusive, SweepComplete, [Next]_vars
    PROVE  SweepComplete'
<1>1. CASE \E r \in Reqs : Moves(r)
  <2>1. PICK r \in Reqs : Moves(r)
    BY <1>1
  <2>2. PcOK'
    BY PcStep
  <2> SUFFICES ASSUME NEW x \in Reqs, NEW u \in Users,
                      req'[x].pc = "audit", req'[x].user = u,
                      \/ req'[x].kind = "reset"
                      \/ req'[x].kind = "patch" /\ req'[x].patch.status = "DISABLED"
               PROVE  Unrevoked(u)' \subseteq req'[x].rows
    BY <2>2 DEF SweepComplete, Unrevoked, PcOK, ReqOK
  <2>3. CASE x # r
    <3>1. req'[x] = req[x] /\ LocksUser(x, u)
      BY <2>1, <2>3, OthersKept DEF LocksUser
    <3>2. Unrevoked(u)' \subseteq Unrevoked(u)
      BY <2>1, <2>3, <3>1, LockProtects
    <3> QED
      BY <3>1, <3>2 DEF SweepComplete
  <2>4. CASE x = r
    <3>1. SweepSessions(r)
      BY <2>1, <2>4, WhereNext
    <3>2. req'[r] = [req[r] EXCEPT !.pc = "audit", !.rows = SweepRows(r)]
          /\ session' = session
      BY <3>1 DEF SweepSessions, TypeOK
    <3>3. req'[r].rows = SweepRows(r) /\ req[r].user = u /\ req[r].kind = req'[r].kind
      BY <2>4, <3>2 DEF TypeOK, Request
    <3>4. SweepRows(r) = Unrevoked(u)
      BY <2>4, <3>3 DEF SweepRows
    <3>5. Unrevoked(u)' = Unrevoked(u)
      BY <3>2 DEF Unrevoked
    <3> QED
      BY <2>4, <3>3, <3>4, <3>5
  <2> QED
    BY <2>3, <2>4
<1>2. CASE Tick \/ UNCHANGED vars
  BY <1>2 DEF Tick, vars, SweepComplete, Unrevoked
<1> QED
  BY <1>1, <1>2, NextMoves

\* Only a login adds to the unrevoked sessions of a user.
LEMMA OnlyLoginsOpen ==
    ASSUME TypeOK, PcOK, NEW r \in Reqs, Moves(r), ~AuthenticateCommit(r), NEW u \in Users
    PROVE  Unrevoked(u)' \subseteq Unrevoked(u)
<1>1. CASE session' = session
  BY <1>1 DEF Unrevoked
<1>2. CASE ResolveExpired(r) \/ LogoutCommit(r) \/ UpdateCommit(r) \/ ResetCommit(r)
           \/ RevokeCommit(r)
  BY <1>2, RevokeEffect
     DEF ResolveExpired, LogoutCommit, UpdateCommit, ResetCommit, RevokeCommit, Reason
<1>3. CASE ResolveSession(r)
  BY <1>3 DEF ResolveSession, Refreshed, TypeOK, Session, Unrevoked
<1>4. CASE ChangePasswordCommit(r)
  BY <1>4 DEF ChangePasswordCommit, TypeOK, Session, Unrevoked
<1>5. CASE AuthenticateBadPassword(r) \/ CreateUser(r) \/ UnlockCommit(r)
  BY <1>1, <1>5 DEF AuthenticateBadPassword, CreateUser, UnlockCommit
<1> QED
  BY <1>1, <1>2, <1>3, <1>4, <1>5, RefusesEffect, ReadsEffect DEF Moves, Commits

\* What a login leaves in the tables: the session it opened, the sessions it did not evict,
\* and an account whose password and whose being disabled are as they were.
LEMMA LoginEffect ==
    ASSUME TypeOK, PcOK, NEW r \in Reqs, AuthenticateCommit(r),
           NEW u \in Users, req[r].user = u
    PROVE  /\ \E s \in Unused :
                /\ session'[s].user = u /\ session'[s].pw = req[r].pw
                /\ Unrevoked(u)' \subseteq (Unrevoked(u) \ req[r].rows) \cup {s}
                /\ \A t \in Ids \ {s} :
                     /\ session'[t].user = session[t].user
                     /\ session'[t].pw = session[t].pw
                     /\ session'[t].revoked = "NO" => session[t].revoked = "NO"
           /\ \A v \in Users \ {u} : account'[v] = account[v]
           /\ account'[u].pw = account[u].pw
           /\ account'[u].status = "DISABLED" => account[u].status = "DISABLED"
<1> DEFINE a == LockLifted(u, req[r].now)
           q == [a EXCEPT !.fails = 0, !.until = Null,
                          !.status = IF @ = "PENDING" THEN "ACTIVE" ELSE @]
<1>1. req[r].now \in Nat
  BY DEF TypeOK, Request
<1>2. PICK s \in Unused, created \in req[r].now .. clock :
        session' = [t \in Ids |->
          IF t = s THEN OpenedAt(u, req[r].now, created, req[r].pw)
          ELSE IF t \in req[r].rows THEN [session[t] EXCEPT !.revoked = "MAX_SESSIONS"]
          ELSE session[t]]
  BY DEF AuthenticateCommit
<1>3. s \in Ids /\ session'[s] = OpenedAt(u, req[r].now, created, req[r].pw)
  BY <1>2 DEF Unused
<1>4. session'[s].user = u /\ session'[s].pw = req[r].pw
  BY <1>3 DEF OpenedAt
<1>5. \A t \in Ids \ {s} :
        /\ session'[t].user = session[t].user
        /\ session'[t].pw = session[t].pw
        /\ session'[t].revoked = "NO" => /\ session[t].revoked = "NO"
                                          /\ t \notin req[r].rows
  BY <1>2 DEF TypeOK, Session
<1>6. Unrevoked(u)' \subseteq (Unrevoked(u) \ req[r].rows) \cup {s}
  BY <1>5 DEF Unrevoked
<1>7. account' = [account EXCEPT ![u] = q]
  BY DEF AuthenticateCommit
<1>8. a \in Account /\ a.pw = account[u].pw
      /\ (a.status = "DISABLED" <=> account[u].status = "DISABLED")
  BY <1>1, LockLiftedType
<1>9. q.pw = a.pw /\ q.status \in {"ACTIVE", a.status}
  <2> HIDE DEF a
  <2> QED
    BY <1>8 DEF Account
<1>10. account'[u] = q /\ \A v \in Users \ {u} : account'[v] = account[v]
  <2> HIDE DEF q
  <2> QED
    BY <1>1, <1>7 DEF TypeOK
<1> HIDE DEF q, a
<1> QED
  BY <1>3, <1>4, <1>5, <1>6, <1>8, <1>9, <1>10 DEF Unused

\* The cap survives a login because the sessions it counted are still the ones there are.
LEMMA SessionCapStep ==
    ASSUME TypeOK, PcOK, LoginFresh, SessionCap, [Next]_vars
    PROVE  SessionCap'
<1> USE SettingsAssumption
<1>1. CASE \E r \in Reqs : Moves(r)
  <2>1. PICK r \in Reqs : Moves(r)
    BY <1>1
  <2> SUFFICES ASSUME NEW u \in Users
               PROVE  Cardinality(Unrevoked(u)') <= MaxSessions
    BY DEF SessionCap, Unrevoked
  <2>2. CASE Unrevoked(u)' \subseteq Unrevoked(u)
    <3>1. Cardinality(Unrevoked(u)') <= Cardinality(Unrevoked(u))
      BY <2>2, UnrevokedFinite, FS_Subset
    <3> QED
      BY <3>1, UnrevokedFinite DEF SessionCap
  <2>3. CASE AuthenticateCommit(r) /\ req[r].user = u
    <3> DEFINE S == Unrevoked(u) \ req[r].rows
    <3>1. PICK s \in Unused : Unrevoked(u)' \in SUBSET (S \cup {s})
      BY <2>3, LoginEffect
    <3>2. Cardinality(S) < MaxSessions
      BY <2>3 DEF LoginFresh, AuthenticateCommit, At
    <3>3. IsFiniteSet(S) /\ Cardinality(S) \in Nat
      <4>1. S \in SUBSET Unrevoked(u)
        OBVIOUS
      <4> QED
        BY <4>1, UnrevokedFinite, FS_Subset, FS_CardinalityType
    <3> HIDE DEF S
    <3>4. /\ IsFiniteSet(S \cup {s})
          /\ Cardinality(S \cup {s}) \in {Cardinality(S), Cardinality(S) + 1}
      BY <3>3, FS_AddElement
    <3>5. Cardinality(Unrevoked(u)') <= Cardinality(S \cup {s})
      BY <3>1, <3>4, FS_Subset
    <3> QED
      BY <3>2, <3>3, <3>4, <3>5, UnrevokedFinite
  <2>4. CASE AuthenticateCommit(r) /\ req[r].user # u
    <3>1. PICK v \in Users : req[r].user = v
      BY <2>4 DEF AuthenticateCommit, At, PcOK, ReqOK
    <3>2. Unrevoked(u)' \subseteq Unrevoked(u)
      BY <2>4, <3>1, LoginEffect DEF Unrevoked
    <3> QED
      BY <2>2, <3>2
  <2> QED
    BY <2>1, <2>2, <2>3, <2>4, OnlyLoginsOpen
<1>2. CASE Tick \/ UNCHANGED vars
  BY <1>2 DEF Tick, vars, SessionCap, Unrevoked
<1> QED
  BY <1>1, <1>2, NextMoves

\* A login opens its session with the password it checked, which is still the account's;
\* a change or a reset revokes every other session in the commit that stores the password.
LEMMA CredentialStep ==
    ASSUME TypeOK, PcOK, RowsExist, LoginFresh, SweepComplete, CurrentCredential, [Next]_vars
    PROVE  CurrentCredential'
<1>1. CASE \E r \in Reqs : Moves(r)
  <2>1. PICK r \in Reqs : Moves(r)
    BY <1>1
  <2>a. req[r] \in Request /\ ReqOK(r)
    BY DEF TypeOK, PcOK
  <2> SUFFICES ASSUME NEW s \in Ids, NEW u \in Users, session'[s].user = u,
                      session'[s].revoked = "NO"
               PROVE  session'[s].pw = account'[u].pw
    <3>1. \A s \in Ids : session'[s].user # Null => session'[s].user \in Users
      BY TypeStep DEF TypeOK, Session
    <3> QED
      BY <3>1 DEF CurrentCredential
  <2>b. session[s].user = u /\ session[s].revoked = "NO" => session[s].pw = account[u].pw
    BY RowsAssumption DEF CurrentCredential
  <2>2. CASE AuthenticateCommit(r)
    <3>1. PICK v \in Users : req[r].user = v
      BY <2>2, <2>a DEF AuthenticateCommit, At, ReqOK
    <3>2. req[r].pw = account[v].pw
      BY <2>2, <3>1 DEF AuthenticateCommit, At, LoginFresh
    <3>3. account'[u].pw = account[u].pw
      BY <2>2, <3>1, LoginEffect
    <3>4. \/ u = v /\ session'[s].pw = req[r].pw
          \/ /\ session'[s].user = session[s].user /\ session'[s].pw = session[s].pw
             /\ session[s].revoked = "NO"
      BY <2>2, <3>1, LoginEffect
    <3> QED
      BY <2>b, <3>2, <3>3, <3>4
  <2>3. CASE ChangePasswordCommit(r)
    <3>1. /\ req[r].user \in Users /\ req[r].sid \in Ids
          /\ session[req[r].sid].user = req[r].user
      BY <2>3, <2>a DEF ChangePasswordCommit, At, ReqOK, Actor
    <3>2. account'[u].pw = IF u = req[r].user THEN req[r].pw ELSE account[u].pw
      BY <2>3, <3>1 DEF ChangePasswordCommit, TypeOK, Account
    <3>3. SweepRows(r) = Unrevoked(req[r].user) \ {req[r].sid}
      BY <2>3 DEF ChangePasswordCommit, At, SweepRows
    <3>4. /\ session'[s].user = session[s].user
          /\ s = req[r].sid => session'[s].pw = req[r].pw
          /\ s # req[r].sid => /\ session'[s].pw = session[s].pw
                               /\ session[s].revoked = "NO"
                               /\ s \notin SweepRows(r)
      BY <2>3 DEF ChangePasswordCommit, TypeOK, Session
    <3>5. CASE s = req[r].sid
      BY <3>1, <3>2, <3>4, <3>5
    <3>6. CASE s # req[r].sid
      <4>1. u # req[r].user
        BY <3>3, <3>4, <3>6 DEF Unrevoked
      <4> QED
        BY <2>b, <3>2, <3>4, <3>6, <4>1
    <3> QED
      BY <3>5, <3>6
  <2>4. CASE ResetCommit(r)
    <3>1. req[r].user \in Users
      BY <2>4, <2>a DEF ResetCommit, At, ReqOK
    <3>2. account'[u].pw = IF u = req[r].user THEN req[r].pw ELSE account[u].pw
      BY <2>4, <3>1 DEF ResetCommit, TypeOK, Account
    <3>3. /\ session'[s].user = session[s].user /\ session'[s].pw = session[s].pw
          /\ Unrevoked(u)' = Unrevoked(u) \ req[r].rows
      BY <2>4, RevokeEffect DEF ResetCommit, Reason
    <3>4. s \in Unrevoked(u) \ req[r].rows
      BY <3>3 DEF Unrevoked
    <3>5. u # req[r].user
      BY <2>4, <3>4 DEF ResetCommit, At, SweepComplete
    <3> QED
      BY <2>b, <3>2, <3>3, <3>4, <3>5 DEF Unrevoked
  <2>5. CASE ~(AuthenticateCommit(r) \/ ChangePasswordCommit(r) \/ ResetCommit(r))
    <3>1. s \in Unrevoked(u)
      <4>1. s \in Unrevoked(u)'
        BY DEF Unrevoked
      <4> QED
        BY <2>1, <2>5, <4>1, OnlyLoginsOpen
    <3>2. session'[s].pw = session[s].pw
      <4>1. CASE ResolveExpired(r) \/ LogoutCommit(r) \/ UpdateCommit(r) \/ RevokeCommit(r)
        BY <4>1, RevokeEffect
           DEF ResolveExpired, LogoutCommit, UpdateCommit, RevokeCommit, Reason
      <4>2. CASE ResolveSession(r)
        BY <4>2 DEF ResolveSession, Refreshed, TypeOK, Session
      <4>3. CASE session' = session
        BY <4>3
      <4> QED
        BY <2>1, <2>5, <4>1, <4>2, <4>3, RefusesEffect, ReadsEffect
           DEF Moves, Commits, AuthenticateBadPassword, CreateUser, UnlockCommit
    <3>3. account'[u].pw = account[u].pw
      <4>1. CASE account' = account
        BY <4>1
      <4>2. CASE AuthenticateBadPassword(r)
        <5>1. req[r].user \in Users /\ req[r].now \in Nat
          BY <2>a, <4>2 DEF AuthenticateBadPassword, At, ReqOK, Request
        <5> DEFINE a == LockLifted(req[r].user, req[r].now)
                   locked == a.fails + 1 >= MaxFailures
                   q == [a EXCEPT !.fails = @ + 1,
                                  !.status = IF locked THEN "LOCKED" ELSE @,
                                  !.until = IF locked THEN req[r].now + LockTtl ELSE Null]
        <5>2. a \in Account /\ a.pw = account[req[r].user].pw
          BY <5>1, LockLiftedType
        <5>3. account' = [account EXCEPT ![req[r].user] = q]
          BY <4>2 DEF AuthenticateBadPassword
        <5>4. q.pw = a.pw
          <6> HIDE DEF a
          <6> QED
            BY <5>2 DEF Account
        <5> HIDE DEF q, a
        <5> QED
          BY <5>1, <5>2, <5>3, <5>4 DEF TypeOK
      <4>3. CASE CreateUser(r)
        <5>1. Exists(u)
          BY <3>1, RowsAssumption DEF RowsExist, Unrevoked
        <5> QED
          BY <4>3, <5>1 DEF CreateUser, TypeOK
      <4>4. CASE UpdateCommit(r)
        BY <4>4 DEF UpdateCommit, TypeOK, Account
      <4>5. CASE UnlockCommit(r)
        BY <4>5 DEF UnlockCommit, TypeOK, Account
      <4>6. CASE ResolveExpired(r) \/ ResolveSession(r) \/ LogoutCommit(r) \/ RevokeCommit(r)
        BY <4>1, <4>6 DEF ResolveExpired, ResolveSession, LogoutCommit, RevokeCommit
      <4> QED
        BY <2>1, <2>5, <4>1, <4>2, <4>3, <4>4, <4>5, <4>6, RefusesEffect, ReadsEffect
           DEF Moves, Commits
    <3> QED
      BY <2>b, <3>1, <3>2, <3>3 DEF Unrevoked
  <2> QED
    BY <2>2, <2>3, <2>4, <2>5
<1>2. CASE Tick \/ UNCHANGED vars
  BY <1>2 DEF Tick, vars, CurrentCredential
<1> QED
  BY <1>1, <1>2, NextMoves

\* Disabling revokes every session there is in one commit, and a login that waited for the
\* row, or comes later, is refused.
LEMMA DisabledStep ==
    ASSUME TypeOK, PcOK, LoginFresh, SweepComplete, DisabledHasNoSession, [Next]_vars
    PROVE  DisabledHasNoSession'
<1>1. CASE \E r \in Reqs : Moves(r)
  <2>1. PICK r \in Reqs : Moves(r)
    BY <1>1
  <2>a. req[r] \in Request /\ ReqOK(r)
    BY DEF TypeOK, PcOK
  <2> SUFFICES ASSUME NEW u \in Users, account'[u].status = "DISABLED"
               PROVE  Unrevoked(u)' = {}
    BY DEF DisabledHasNoSession, Unrevoked
  <2>2. CASE account[u].status = "DISABLED" /\ Unrevoked(u)' \subseteq Unrevoked(u)
    BY <2>2 DEF DisabledHasNoSession
  <2>3. CASE AuthenticateCommit(r)
    <3>1. PICK v \in Users : req[r].user = v
      BY <2>3, <2>a DEF AuthenticateCommit, At, ReqOK
    <3>2. account[v].status # "DISABLED"
      BY <2>3, <3>1 DEF AuthenticateCommit, At, LoginFresh
    <3>3. u # v /\ account[u].status = "DISABLED"
      BY <2>3, <3>1, <3>2, LoginEffect
    <3>4. Unrevoked(u)' \subseteq Unrevoked(u)
      BY <2>3, <3>1, <3>3, LoginEffect DEF Unrevoked
    <3> QED
      BY <2>2, <3>3, <3>4
  <2>4. CASE UpdateCommit(r)
    <3>1. Unrevoked(u)' = Unrevoked(u) \ req[r].rows
      BY <2>4, RevokeEffect DEF UpdateCommit, Reason
    <3>2. \/ account[u].status = "DISABLED"
          \/ req[r].user = u /\ req[r].patch.status = "DISABLED"
      BY <2>4 DEF UpdateCommit, TypeOK, Account, Coalesce
    <3>3. req[r].user = u /\ req[r].patch.status = "DISABLED"
            => Unrevoked(u) \subseteq req[r].rows
      BY <2>4 DEF UpdateCommit, At, SweepComplete
    <3> QED
      BY <2>2, <3>1, <3>2, <3>3
  <2>5. CASE ~(AuthenticateCommit(r) \/ UpdateCommit(r))
    <3>1. Unrevoked(u)' \subseteq Unrevoked(u)
      BY <2>1, <2>5, OnlyLoginsOpen
    <3>2. account[u].status = "DISABLED"
      <4>1. CASE account' = account
        BY <4>1
      <4>2. CASE AuthenticateBadPassword(r)
        <5>1. req[r].user \in Users /\ req[r].now \in Nat
          BY <2>a, <4>2 DEF AuthenticateBadPassword, At, ReqOK, Request
        <5> DEFINE a == LockLifted(req[r].user, req[r].now)
                   locked == a.fails + 1 >= MaxFailures
                   q == [a EXCEPT !.fails = @ + 1,
                                  !.status = IF locked THEN "LOCKED" ELSE @,
                                  !.until = IF locked THEN req[r].now + LockTtl ELSE Null]
        <5>2. a \in Account /\ a.status \in OpenStatus
          BY <4>2, <5>1, LockLiftedType DEF AuthenticateBadPassword
        <5>3. account' = [account EXCEPT ![req[r].user] = q]
          BY <4>2 DEF AuthenticateBadPassword
        <5>4. q.status \in {"LOCKED", a.status}
          <6> HIDE DEF a
          <6> QED
            BY <5>2 DEF Account
        <5> HIDE DEF q, a
        <5> QED
          BY <5>1, <5>2, <5>3, <5>4 DEF TypeOK, OpenStatus
      <4>3. CASE CreateUser(r)
        BY <4>3 DEF CreateUser, TypeOK
      <4>4. CASE UnlockCommit(r)
        BY <4>4 DEF UnlockCommit, TypeOK, Account
      <4>5. CASE ChangePasswordCommit(r) \/ ResetCommit(r)
        <5>1. CASE ChangePasswordCommit(r)
          BY <5>1 DEF ChangePasswordCommit, TypeOK, Account
        <5>2. CASE ResetCommit(r)
          BY <5>2 DEF ResetCommit, TypeOK, Account
        <5> QED
          BY <4>5, <5>1, <5>2
      <4>6. CASE ResolveExpired(r) \/ ResolveSession(r) \/ LogoutCommit(r) \/ RevokeCommit(r)
        BY <4>1, <4>6 DEF ResolveExpired, ResolveSession, LogoutCommit, RevokeCommit
      <4> QED
        BY <2>1, <2>5, <4>1, <4>2, <4>3, <4>4, <4>5, <4>6, RefusesEffect, ReadsEffect
           DEF Moves, Commits
    <3> QED
      BY <2>2, <3>1, <3>2
  <2> QED
    BY <2>3, <2>4, <2>5
<1>2. CASE Tick \/ UNCHANGED vars
  BY <1>2 DEF Tick, vars, DisabledHasNoSession, Unrevoked
<1> QED
  BY <1>1, <1>2, NextMoves

-----------------------------------------------------------------------------
(* The theorems *)

\* The service starts with nobody logged in, where the invariant holds.
LEMMA InitInv ==
    ASSUME Init
    PROVE  IInv
<1> USE SettingsAssumption, RowsAssumption
<1>1. TypeOK
  <2>1. account \in [Users -> Account]
    BY DEF Init, Account, Status, Role
  <2> QED
    BY <2>1, IdleType DEF Init, TypeOK
<1>2. \A r \in Reqs : req[r].pc = "idle"
  BY IdleOK DEF Init
<1>3. \A s \in Ids : session[s].user = Null
  BY DEF Init, NoSession
<1>4. \A u \in Users : Unrevoked(u) = {}
  BY <1>3 DEF Unrevoked
<1>5. PcOK /\ RowsExist /\ Exclusive /\ LoginFresh /\ SweepComplete
  BY <1>2, <1>3 DEF PcOK, ReqOK, RowsExist, Exclusive, LocksUser, LoginFresh, SweepComplete
<1>6. SessionCap /\ CurrentCredential /\ DisabledHasNoSession
  BY <1>3, <1>4, FS_EmptySet DEF SessionCap, CurrentCredential, DisabledHasNoSession
<1> QED
  BY <1>1, <1>5, <1>6 DEF IInv

\* Every step keeps the invariant.
LEMMA NextInv ==
    ASSUME IInv, [Next]_vars
    PROVE  IInv'
BY TypeStep, PcStep, RowsExistStep, ExclusiveStep, LoginFreshStep, SweepCompleteStep,
   SessionCapStep, CredentialStep, DisabledStep DEF IInv

\* IInv is an invariant of the service.
THEOREM Inductive == Spec => []IInv
BY InitInv, NextInv, PTL DEF Spec

\* For any users, requests and settings: the rows and the requests keep their shape.
THEOREM TypeCorrect == Spec => []TypeOK
<1>1. IInv => TypeOK
  BY DEF IInv
<1> QED
  BY <1>1, Inductive, PTL

\* However many logins run at once, authenticate never leaves a user more than
\* max_sessions_per_user unrevoked sessions.
THEOREM CapHolds == Spec => []SessionCap
<1>1. IInv => SessionCap
  BY DEF IInv
<1> QED
  BY <1>1, Inductive, PTL

\* No unrevoked session rests on a password that change_password or reset_password has
\* replaced.
THEOREM CredentialHolds == Spec => []CurrentCredential
<1>1. IInv => CurrentCredential
  BY DEF IInv
<1> QED
  BY <1>1, Inductive, PTL

\* update_user leaves a disabled account without a session, and no login gives it one.
THEOREM DisabledHolds == Spec => []DisabledHasNoSession
<1>1. IInv => DisabledHasNoSession
  BY DEF IInv
<1> QED
  BY <1>1, Inductive, PTL
=============================================================================
