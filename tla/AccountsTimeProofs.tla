------------------------- MODULE AccountsTimeProofs -------------------------
(***************************************************************************)
(* Proofs about Accounts over time, for every number of users, sessions    *)
(* and concurrent requests: what the lease of a session may do, when a     *)
(* lock lets somebody in, that a revocation is final, and that only        *)
(* overlapping requests can take the last administrator away.              *)
(***************************************************************************)
EXTENDS AccountsProofs

-----------------------------------------------------------------------------
(* The inductive invariant, on top of IInv *)

\* No request works with a time that has not come.
NotAhead == \A r \in Reqs : req[r].now <= clock

\* What a login has read of the account lets it in until it inserts.
EntryOpen ==
    \A r \in Reqs : req[r].pc = "insert"
      => LockLifted(req[r].user, req[r].now).status \in OpenStatus

\* The rows a request means to revoke: rows that were inserted, and, once it has locked
\* them, rows that nobody else revokes.
RowsHeldBy(r) ==
    /\ req[r].pc \notin {"insert", "sweep", "audit"} => req[r].rows = {}
    /\ req[r].pc \in {"insert", "audit"} => \A s \in req[r].rows : session[s].user # Null
    /\ req[r].pc = "audit" => \A s \in req[r].rows : session[s].revoked = "NO"

RowsHeld == \A r \in Reqs : RowsHeldBy(r)

\* An uncommitted update of a session excludes another one.
SessionExclusive ==
    \A r, x \in Reqs, s \in Ids : LocksSession(r, s) /\ LocksSession(x, s) => r = x

\* A row that has not been inserted has not been revoked either.
UnusedUnrevoked == \A s \in Ids : session[s].user = Null => session[s].revoked = "NO"

\* The rows a request revokes are those of the user it works on. While a login holds that
\* user's row, those it has listed are revoked by nobody else, or have expired.
RowsOfUser ==
    \A r \in Reqs : \A s \in req[r].rows :
        /\ req[r].pc \in {"insert", "audit"} => session[s].user = req[r].user
        /\ req[r].pc = "insert" => session[s].revoked \in {"NO", "EXPIRED"}

TimeInv ==
    /\ NotAhead
    /\ EntryOpen
    /\ RowsHeld
    /\ RowsOfUser
    /\ SessionExclusive
    /\ UnusedUnrevoked
    /\ LeaseBounded

-----------------------------------------------------------------------------
(* What a step does to one session *)

\* The statements that revoke session s, and whether r is at one of them.
Revokes(r, s) ==
    \/ AuthenticateCommit(r) /\ s \in req[r].rows /\ session'[s].revoked = "MAX_SESSIONS"
    \/ ResolveExpired(r) /\ s = req[r].sid
    \/ ChangePasswordCommit(r) /\ s \in SweepRows(r)
    \/ LocksSession(r, s)

SameLease(s) ==
    /\ session'[s].user = session[s].user
    /\ session'[s].seen = session[s].seen
    /\ session'[s].idle = session[s].idle
    /\ session'[s].abs = session[s].abs

\* Revoke leaves the lease of every session.
LEMMA RevokeLease ==
    ASSUME TypeOK, NEW rows, NEW why \in Reason, Revoke(rows, why), NEW s \in Ids
    PROVE  /\ SameLease(s)
           /\ session'[s].revoked = session[s].revoked \/ s \in rows
<1>1. session'[s] = IF s \in rows THEN [session[s] EXCEPT !.revoked = why] ELSE session[s]
  BY DEF Revoke
<1>2. session[s] \in Session
  BY DEF TypeOK
<1> QED
  BY <1>1, <1>2 DEF Session, SameLease

\* A step opens a session in a row that was unused, or refreshes the one it came through,
\* or leaves the lease; only the statements above revoke.
LEMMA SessionEffect ==
    ASSUME TypeOK, NEW r \in Reqs, Moves(r), NEW s \in Ids
    PROVE  \/ /\ AuthenticateCommit(r) /\ session[s].user = Null
              /\ \E created \in req[r].now .. clock :
                   session'[s] = OpenedAt(req[r].user, req[r].now, created, req[r].pw)
           \/ /\ ResolveSession(r) /\ s = req[r].sid
              /\ session'[s] = Refreshed(s, req[r].now)
           \/ /\ SameLease(s)
              /\ session'[s].revoked = session[s].revoked \/ Revokes(r, s)
<1>0. session[s] \in Session
  BY DEF TypeOK
<1>1. CASE session' = session
  BY <1>1 DEF SameLease
<1>2. CASE AuthenticateCommit(r)
  <2>1. PICK t \in Unused, created \in req[r].now .. clock :
          session' = [x \in Ids |->
            IF x = t THEN OpenedAt(req[r].user, req[r].now, created, req[r].pw)
            ELSE IF x \in req[r].rows THEN [session[x] EXCEPT !.revoked = "MAX_SESSIONS"]
            ELSE session[x]]
    BY <1>2 DEF AuthenticateCommit
  <2>2. CASE s = t
    BY <1>2, <2>1, <2>2 DEF Unused
  <2>3. CASE s # t /\ s \in req[r].rows
    <3>1. session'[s] = [session[s] EXCEPT !.revoked = "MAX_SESSIONS"]
      BY <2>1, <2>3
    <3> QED
      BY <1>0, <1>2, <2>3, <3>1 DEF Session, SameLease, Revokes
  <2>4. CASE s # t /\ s \notin req[r].rows
    <3>1. session'[s] = session[s]
      BY <2>1, <2>4
    <3> QED
      BY <3>1 DEF SameLease
  <2> QED
    BY <2>2, <2>3, <2>4
<1>3. CASE ResolveExpired(r)
  <2>1. Revoke({req[r].sid}, "EXPIRED")
    BY <1>3 DEF ResolveExpired
  <2> QED
    BY <1>3, <2>1, RevokeLease DEF Revokes, Reason
<1>4. CASE ResolveSession(r)
  <2>1. session' = [session EXCEPT ![req[r].sid] = Refreshed(req[r].sid, req[r].now)]
    BY <1>4 DEF ResolveSession
  <2> QED
    BY <1>4, <2>1 DEF TypeOK, SameLease
<1>5. CASE ChangePasswordCommit(r)
  <2>1. session'[s] = IF s = req[r].sid THEN [session[s] EXCEPT !.pw = req[r].pw]
                      ELSE IF s \in SweepRows(r)
                        THEN [session[s] EXCEPT !.revoked = "PASSWORD_CHANGED"]
                      ELSE session[s]
    BY <1>5 DEF ChangePasswordCommit
  <2> QED
    BY <1>0, <1>5, <2>1 DEF Session, SameLease, Revokes
<1>6. CASE LogoutCommit(r) \/ UpdateCommit(r) \/ ResetCommit(r) \/ RevokeCommit(r)
  <2>1. /\ req[r].pc = "audit"
        /\ \E why \in Reason : Revoke(req[r].rows, why)
    BY <1>6 DEF LogoutCommit, UpdateCommit, ResetCommit, RevokeCommit, At, Reason
  <2> QED
    BY <2>1, RevokeLease DEF Revokes, LocksSession
<1>7. CASE AuthenticateBadPassword(r) \/ CreateUser(r) \/ UnlockCommit(r)
  BY <1>1, <1>7 DEF AuthenticateBadPassword, CreateUser, UnlockCommit
<1> QED
  BY <1>1, <1>2, <1>3, <1>4, <1>5, <1>6, <1>7, RefusesEffect, ReadsEffect
     DEF Moves, Commits

-----------------------------------------------------------------------------
(* Uncommitted updates *)

\* A request arrives with the time of its arrival and with no row.
LEMMA ArrivalEffect ==
    ASSUME TypeOK, NEW r \in Reqs, ArriveLogin(r) \/ ArriveWithCookie(r)
    PROVE  /\ req'[r].pc \in {"lock", "resolve1"}
           /\ req'[r].rows = {} /\ req'[r].now = clock
<1>1. CASE ArriveLogin(r)
  <2>1. PICK u \in Users : req'[r] = [Idle EXCEPT !.kind = "login", !.pc = "lock",
                                                 !.user = u, !.now = clock]
    BY <1>1 DEF ArriveLogin, TypeOK
  <2> QED
    BY <2>1 DEF Idle
<1>2. CASE ArriveWithCookie(r)
  <2>1. PICK k \in Kinds, s \in Ids \ Unused :
          req'[r] = [Idle EXCEPT !.kind = k, !.pc = "resolve1", !.sid = s, !.now = clock]
    BY <1>2 DEF ArriveWithCookie, TypeOK
  <2> QED
    BY <2>1 DEF Idle
<1> QED
  BY <1>1, <1>2

\* A request locks the sessions it updates when nobody else has them, and only rows of the
\* user it works on that are in use and unrevoked.
LEMMA NewSessionLock ==
    ASSUME TypeOK, PcOK, RowsHeld, NEW r \in Reqs, Moves(r), NEW s \in Ids,
           LocksSession(r, s)'
    PROVE  /\ session' = session
           /\ session[s].user # Null /\ session[s].revoked = "NO"
           /\ session[s].user = req'[r].user
           /\ \A x \in Reqs \ {r} : ~LocksSession(x, s)
<1> USE RowsAssumption
<1>0. req[r] \in Request /\ ReqOK(r) /\ RowsHeldBy(r)
  BY DEF TypeOK, PcOK, RowsHeld
<1>1. req'[r].pc = "audit" /\ s \in req'[r].rows
  BY DEF LocksSession
<1>2. CASE SweepSessions(r)
  <2>1. req'[r] = [req[r] EXCEPT !.pc = "audit", !.rows = SweepRows(r)]
        /\ session' = session /\ SessionsFree(r, SweepRows(r)) /\ req[r].user \in Users
    BY <1>0, <1>2 DEF SweepSessions, TypeOK, ReqOK
  <2>2. s \in SweepRows(r) /\ req'[r].user = req[r].user
    BY <1>0, <1>1, <2>1 DEF Request
  <2>3. s \in Unrevoked(req[r].user)
    BY <2>2 DEF SweepRows
  <2> QED
    BY <2>1, <2>2, <2>3 DEF SessionsFree, Unrevoked
<1>3. CASE Logout(r)
  <2>1. /\ req[r].sid \in Ids /\ session[req[r].sid].user \in Users
        /\ req'[r] = [req[r] EXCEPT !.pc = "audit", !.user = Actor(r),
                        !.rows = IF session[req[r].sid].revoked = "NO"
                                 THEN {req[r].sid} ELSE {}]
    BY <1>0, <1>3 DEF Logout, At, TypeOK, ReqOK
  <2>2. /\ req'[r].rows = IF session[req[r].sid].revoked = "NO" THEN {req[r].sid} ELSE {}
        /\ req'[r].user = session[req[r].sid].user
    BY <1>0, <2>1 DEF Request, Actor
  <2>3. s = req[r].sid /\ session[s].revoked = "NO"
    BY <1>1, <2>2
  <2> QED
    BY <1>3, <2>1, <2>2, <2>3 DEF Logout, SessionsFree
<1>4. CASE UpdateUser(r)
  <2>1. req[r].rows = {}
    BY <1>0, <1>4 DEF UpdateUser, At, RowsHeldBy
  <2>2. PICK u \in Users, p \in Patches :
          req'[r] = [req[r] EXCEPT !.pc = IF p.status = "DISABLED" THEN "sweep" ELSE "audit",
                                   !.user = u, !.patch = p]
    BY <1>4 DEF UpdateUser, TypeOK
  <2>3. req'[r].rows = req[r].rows
    BY <1>0, <2>2 DEF Request
  <2> QED
    BY <1>1, <2>1, <2>3
<1>5. CASE UnlockUser(r)
  <2>1. req[r].rows = {}
    BY <1>0, <1>5 DEF UnlockUser, At, RowsHeldBy
  <2>2. PICK u \in Users : req'[r] = [req[r] EXCEPT !.pc = "audit", !.user = u]
    BY <1>5 DEF UnlockUser, TypeOK
  <2>3. req'[r].rows = req[r].rows
    BY <1>0, <2>2 DEF Request
  <2> QED
    BY <1>1, <2>1, <2>3
<1>6. ~Refuses(r)
  BY <1>1, RefusesEffect, IdleOK DEF TypeOK
<1>7. ~Commits(r)
  <2> SUFFICES ASSUME Commits(r) PROVE FALSE
    OBVIOUS
  <2>1. CASE req' = [req EXCEPT ![r] = Idle]
    BY <1>1, <2>1, IdleOK DEF TypeOK
  <2>2. ASSUME NEW pc \in {"csrf", "handler"},
               req' = [req EXCEPT ![r] = [@ EXCEPT !.pc = pc, !.now = 0]]
        PROVE  FALSE
    BY <1>0, <1>1, <2>2 DEF TypeOK, Request
  <2> QED
    BY <2>1, <2>2, CommitsEffect
<1>8. CASE ArriveLogin(r) \/ ArriveWithCookie(r)
  BY <1>1, <1>8, ArrivalEffect
<1>9. CASE AuthenticateVerify(r) \/ CsrfMatches(r) \/ ChangePasswordVerify(r)
           \/ ResetPassword(r) \/ RevokeUserSessions(r)
  <2>1. CASE AuthenticateVerify(r)
    <3>1. PICK rows : req'[r] = [req[r] EXCEPT !.pc = "insert",
                                   !.pw = account[req[r].user].pw, !.rows = rows]
      BY <2>1 DEF AuthenticateVerify, TypeOK
    <3> QED
      BY <1>0, <1>1, <3>1 DEF Request
  <2>2. CASE CsrfMatches(r)
    BY <1>0, <1>1, <2>2 DEF CsrfMatches, TypeOK, Request
  <2>3. CASE ChangePasswordVerify(r)
    <3>1. PICK p : req'[r] = [req[r] EXCEPT !.pc = "sweep", !.user = Actor(r), !.pw = p]
      BY <2>3 DEF ChangePasswordVerify, TypeOK
    <3> QED
      BY <1>0, <1>1, <3>1 DEF Request
  <2>4. CASE ResetPassword(r)
    <3>1. PICK u, p : req'[r] = [req[r] EXCEPT !.pc = "sweep", !.user = u, !.pw = p]
      BY <2>4 DEF ResetPassword, TypeOK
    <3> QED
      BY <1>0, <1>1, <3>1 DEF Request
  <2>5. CASE RevokeUserSessions(r)
    <3>1. PICK u : req'[r] = [req[r] EXCEPT !.pc = "sweep", !.user = u,
                                            !.rows = Unrevoked(u)]
      BY <2>5 DEF RevokeUserSessions, TypeOK
    <3> QED
      BY <1>0, <1>1, <3>1 DEF Request
  <2> QED
    BY <1>9, <2>1, <2>2, <2>3, <2>4, <2>5
<1> QED
  BY <1>2, <1>3, <1>4, <1>5, <1>6, <1>7, <1>8, <1>9 DEF Moves, Reads

\* Two requests never have an uncommitted update of the same session.
LEMMA SessionExclusiveStep ==
    ASSUME TypeOK, PcOK, RowsHeld, SessionExclusive, [Next]_vars
    PROVE  SessionExclusive'
<1>1. CASE \E r \in Reqs : Moves(r)
  <2>1. PICK r \in Reqs : Moves(r)
    BY <1>1
  <2>2. ASSUME NEW x \in Reqs \ {r}, NEW s \in Ids, LocksSession(x, s)'
        PROVE  LocksSession(x, s)
    BY <2>1, <2>2, OthersKept DEF LocksSession
  <2>3. ASSUME NEW x \in Reqs \ {r}, NEW s \in Ids, LocksSession(x, s)', LocksSession(r, s)'
        PROVE  FALSE
    BY <2>1, <2>2, <2>3, NewSessionLock
  <2> QED
    BY <2>2, <2>3 DEF SessionExclusive
<1>2. CASE Tick \/ UNCHANGED vars
  BY <1>2 DEF Tick, vars, SessionExclusive, LocksSession
<1> QED
  BY <1>1, <1>2, NextMoves

\* A session that somebody else has updated is in use, and stays as it is until he commits.
LEMMA HeldUntouched ==
    ASSUME TypeOK, PcOK, RowsHeld, SessionExclusive, NEW r \in Reqs, Moves(r),
           NEW x \in Reqs \ {r}, NEW s \in Ids, LocksSession(x, s)
    PROVE  session'[s].revoked = session[s].revoked
<1>0. session[s] \in Session /\ session[s].user # Null
  BY DEF TypeOK, RowsHeld, RowsHeldBy, LocksSession
<1>1. ~Revokes(r, s)
  <2>1. ~(AuthenticateCommit(r) /\ s \in req[r].rows)
    BY DEF AuthenticateCommit, SessionsFree
  <2>2. ~(ResolveExpired(r) /\ s = req[r].sid)
    BY DEF ResolveExpired, SessionsFree
  <2>3. ~(ChangePasswordCommit(r) /\ s \in SweepRows(r))
    BY DEF ChangePasswordCommit, SessionsFree
  <2>4. ~LocksSession(r, s)
    BY DEF SessionExclusive
  <2> QED
    BY <2>1, <2>2, <2>3, <2>4 DEF Revokes
<1>2. Refreshed(s, req[r].now).revoked = session[s].revoked
  BY <1>0 DEF Refreshed, Session
<1> QED
  BY <1>0, <1>1, <1>2, SessionEffect

\* A request revokes rows that are in use, and once it has them nobody else revokes them.
LEMMA RowsHeldStep ==
    ASSUME TypeOK, PcOK, RowsHeld, SessionExclusive, [Next]_vars
    PROVE  RowsHeld'
<1> USE RowsAssumption
<1>1. CASE \E r \in Reqs : Moves(r)
  <2>1. PICK r \in Reqs : Moves(r)
    BY <1>1
  <2>a. \A s \in Ids : session[s].user # Null => session'[s].user # Null
    BY <2>1, OwnerKept
  <2>b. \A x \in Reqs : req[x] \in Request /\ RowsHeldBy(x)
    BY DEF TypeOK, RowsHeld
  <2>2. ASSUME NEW x \in Reqs \ {r}
        PROVE  RowsHeldBy(x)'
    <3>1. req'[x] = req[x] /\ req[x].rows \subseteq Ids
      BY <2>1, <2>b, OthersKept DEF Request
    <3>2. req[x].pc = "audit" => \A s \in req[x].rows : session'[s].revoked = "NO"
      BY <2>1, <2>b, <3>1, HeldUntouched DEF LocksSession, RowsHeldBy
    <3> QED
      BY <2>a, <2>b, <3>1, <3>2 DEF RowsHeldBy
  <2>3. RowsHeldBy(r)'
    <3>0. req'[r] \in Request /\ session' \in [Ids -> Session]
      BY TypeStep DEF TypeOK
    <3>1. CASE req'[r].pc = "audit"
      <4>1. \A s \in req'[r].rows : s \in Ids /\ LocksSession(r, s)'
        BY <3>0, <3>1 DEF Request, LocksSession
      <4>2. \A s \in req'[r].rows : session'[s].user # Null /\ session'[s].revoked = "NO"
        BY <2>1, <4>1, NewSessionLock
      <4> QED
        BY <3>1, <4>2 DEF RowsHeldBy
    <3>2. CASE req'[r].pc = "insert"
      <4>1. AuthenticateVerify(r)
        BY <2>1, <3>2, WhereNext
      <4>2. PICK rows \in SUBSET Unrevoked(req[r].user) :
              req'[r] = [req[r] EXCEPT !.pc = "insert", !.pw = account[req[r].user].pw,
                                       !.rows = rows]
        BY <4>1 DEF AuthenticateVerify, TypeOK
      <4>3. req'[r].rows = rows /\ req[r].user \in Users /\ session' = session
        BY <2>b, <4>1, <4>2 DEF AuthenticateVerify, At, Request, PcOK, ReqOK
      <4> QED
        BY <3>2, <4>2, <4>3 DEF RowsHeldBy, Unrevoked
    <3>3. CASE req'[r].pc \notin {"insert", "sweep", "audit"}
      <4>1. CASE Refuses(r)
        BY <3>3, <4>1, RefusesEffect DEF TypeOK, RowsHeldBy, Idle
      <4>2. CASE Commits(r)
        <5>1. CASE req' = [req EXCEPT ![r] = Idle]
          BY <3>3, <5>1 DEF TypeOK, RowsHeldBy, Idle
        <5>2. ASSUME req[r].pc \in {"resolve1", "resolve2"},
                     NEW pc \in {"csrf", "handler"},
                     req' = [req EXCEPT ![r] = [@ EXCEPT !.pc = pc, !.now = 0]]
              PROVE  RowsHeldBy(r)'
          <6>1. req'[r].rows = req[r].rows /\ req[r].rows = {}
            BY <2>b, <5>2 DEF TypeOK, Request, RowsHeldBy
          <6> QED
            BY <3>3, <6>1 DEF RowsHeldBy
        <5> QED
          BY <4>2, <5>1, <5>2, CommitsEffect
      <4>3. CASE ArriveLogin(r) \/ ArriveWithCookie(r)
        <5>1. req'[r].rows = {}
          BY <4>3, ArrivalEffect
        <5> QED
          BY <3>3, <5>1 DEF RowsHeldBy
      <4>4. CASE CsrfMatches(r)
        <5>1. req'[r].rows = req[r].rows /\ req[r].rows = {}
          BY <2>b, <4>4 DEF CsrfMatches, TypeOK, Request, RowsHeldBy
        <5> QED
          BY <3>3, <5>1 DEF RowsHeldBy
      <4>5. CASE Reads(r) /\ ~ArriveLogin(r) /\ ~ArriveWithCookie(r) /\ ~CsrfMatches(r)
        <5>1. req'[r].pc \in {"insert", "sweep", "audit"}
          <6>1. \A rows : [req[r] EXCEPT !.pc = "insert", !.pw = account[req[r].user].pw,
                                        !.rows = rows].pc = "insert"
            BY <2>b DEF Request
          <6>2. \A u, rows :
                  [req[r] EXCEPT !.pc = "audit", !.user = u, !.rows = rows].pc = "audit"
            BY <2>b DEF Request
          <6>3. \A u, p : [req[r] EXCEPT !.pc = "sweep", !.user = u, !.pw = p].pc = "sweep"
            BY <2>b DEF Request
          <6>4. \A u, p, pc :
                  [req[r] EXCEPT !.pc = pc, !.user = u, !.patch = p].pc = pc
            BY <2>b DEF Request
          <6>5. \A u : [req[r] EXCEPT !.pc = "audit", !.user = u].pc = "audit"
            BY <2>b DEF Request
          <6>6. \A rows : [req[r] EXCEPT !.pc = "audit", !.rows = rows].pc = "audit"
            BY <2>b DEF Request
          <6>7. \A u, rows :
                  [req[r] EXCEPT !.pc = "sweep", !.user = u, !.rows = rows].pc = "sweep"
            BY <2>b DEF Request
          <6>8. CASE UpdateUser(r)
            BY <6>4, <6>8 DEF UpdateUser, TypeOK
          <6>9. CASE Logout(r)
            BY <6>2, <6>9 DEF Logout, TypeOK
          <6>10. CASE AuthenticateVerify(r)
            BY <6>1, <6>10 DEF AuthenticateVerify, TypeOK
          <6>11. CASE ChangePasswordVerify(r)
            BY <6>3, <6>11 DEF ChangePasswordVerify, TypeOK
          <6>12. CASE UnlockUser(r)
            BY <6>5, <6>12 DEF UnlockUser, TypeOK
          <6>13. CASE ResetPassword(r)
            BY <6>3, <6>13 DEF ResetPassword, TypeOK
          <6>14. CASE SweepSessions(r)
            BY <6>6, <6>14 DEF SweepSessions, TypeOK
          <6>15. CASE RevokeUserSessions(r)
            BY <6>7, <6>15 DEF RevokeUserSessions, TypeOK
          <6> QED
            BY <4>5, <6>8, <6>9, <6>10, <6>11, <6>12, <6>13, <6>14, <6>15 DEF Reads
        <5> QED
          BY <3>3, <5>1
      <4> QED
        BY <2>1, <4>1, <4>2, <4>3, <4>4, <4>5 DEF Moves
    <3>4. CASE req'[r].pc = "sweep"
      BY <3>4 DEF RowsHeldBy
    <3> QED
      BY <3>1, <3>2, <3>3, <3>4
  <2> QED
    BY <2>2, <2>3 DEF RowsHeld
<1>2. CASE Tick \/ UNCHANGED vars
  BY <1>2 DEF Tick, vars, RowsHeld, RowsHeldBy
<1> QED
  BY <1>1, <1>2, NextMoves

\* While a login is at its insert, a session of its user is revoked by nobody else, but may
\* be found expired: all other statements that revoke need the user's row, if only for the
\* foreign keys of the audit event.
LEMMA LoginProtects ==
    ASSUME TypeOK, PcOK, Exclusive, RowsOfUser, NEW r \in Reqs, Moves(r),
           NEW x \in Reqs \ {r}, req[x].pc = "insert",
           NEW s \in Ids, session[s].user = req[x].user,
           session[s].revoked \in {"NO", "EXPIRED"}
    PROVE  session'[s].revoked \in {"NO", "EXPIRED"}
<1> USE RowsAssumption
<1> DEFINE u == req[x].user
<1>0. /\ session[s] \in Session /\ req[r] \in Request /\ ReqOK(r) /\ ReqOK(x)
      /\ u \in Users /\ u # Null /\ LocksUser(x, u) /\ req[x].kind = "login"
  BY DEF TypeOK, PcOK, ReqOK, LocksUser
<1>1. ~LocksUser(r, u)
  BY <1>0 DEF Exclusive
<1>2. CASE session' = session
  BY <1>2
<1>3. CASE AuthenticateCommit(r)
  <2>1. req[r].pc = "insert" /\ req[r].user # u
    BY <1>1, <1>3 DEF AuthenticateCommit, At, LocksUser
  <2>2. s \notin req[r].rows
    BY <2>1 DEF RowsOfUser
  <2>3. session'[s] = session[s]
    BY <1>0, <1>3, <2>2 DEF AuthenticateCommit, Unused
  <2> QED
    BY <2>3
<1>4. CASE ResolveExpired(r)
  <2>1. session'[s] = IF s = req[r].sid THEN [session[s] EXCEPT !.revoked = "EXPIRED"]
                                        ELSE session[s]
    BY <1>4 DEF ResolveExpired, Revoke
  <2> QED
    BY <1>0, <2>1 DEF Session
<1>5. CASE ResolveSession(r)
  BY <1>0, <1>5 DEF ResolveSession, Refreshed, TypeOK, Session
<1>6. CASE ChangePasswordCommit(r)
  <2>1. req[r].kind = "change" /\ req[r].pc = "sweep" /\ req[r].user # u
    BY <1>1, <1>6 DEF ChangePasswordCommit, At, LocksUser
  <2>2. s \notin SweepRows(r)
    BY <2>1 DEF SweepRows, Unrevoked
  <2>3. session'[s] = IF s = req[r].sid THEN [session[s] EXCEPT !.pw = req[r].pw]
                                        ELSE session[s]
    BY <1>6, <2>2 DEF ChangePasswordCommit
  <2> QED
    BY <1>0, <2>3 DEF Session
<1>7. CASE LogoutCommit(r) \/ UpdateCommit(r) \/ ResetCommit(r) \/ RevokeCommit(r)
  <2>1. /\ req[r].pc = "audit" /\ KeyShareFree(r, req[r].user)
        /\ \E why \in Reason : Revoke(req[r].rows, why)
    BY <1>7 DEF LogoutCommit, UpdateCommit, ResetCommit, RevokeCommit, At, Reason, AuditFree
  <2>2. req[r].user # u
    BY <1>0, <2>1 DEF KeyShareFree
  <2>3. s \notin req[r].rows
    BY <2>1, <2>2 DEF RowsOfUser
  <2>4. session'[s] = session[s]
    BY <2>1, <2>3 DEF Revoke
  <2> QED
    BY <2>4
<1>8. CASE AuthenticateBadPassword(r) \/ CreateUser(r) \/ UnlockCommit(r)
  BY <1>2, <1>8 DEF AuthenticateBadPassword, CreateUser, UnlockCommit
<1> QED
  BY <1>2, <1>3, <1>4, <1>5, <1>6, <1>7, <1>8, RefusesEffect, ReadsEffect DEF Moves, Commits

\* A login lists sessions of its user, and a sweep or a logout chooses them.
LEMMA RowsOfUserStep ==
    ASSUME TypeOK, PcOK, Exclusive, RowsHeld, RowsOfUser, [Next]_vars
    PROVE  RowsOfUser'
<1> USE RowsAssumption
<1>1. CASE \E r \in Reqs : Moves(r)
  <2>1. PICK r \in Reqs : Moves(r)
    BY <1>1
  <2>2. req[r] \in Request /\ ReqOK(r) /\ RowsHeldBy(r) /\ req'[r] \in Request
    BY TypeStep DEF TypeOK, PcOK, RowsHeld
  <2> SUFFICES ASSUME NEW x \in Reqs, NEW s \in req'[x].rows,
                      req'[x].pc \in {"insert", "audit"}
               PROVE  /\ session'[s].user = req'[x].user
                      /\ req'[x].pc = "insert" => session'[s].revoked \in {"NO", "EXPIRED"}
    BY DEF RowsOfUser
  <2>3. CASE x # r
    <3>1. req'[x] = req[x] /\ s \in Ids /\ RowsHeldBy(x)
      BY <2>1, <2>3, OthersKept DEF TypeOK, Request, RowsHeld
    <3>2. session[s].user = req[x].user /\ session[s].user # Null
      BY <3>1 DEF RowsOfUser, RowsHeldBy
    <3>3. session'[s].user = session[s].user
      BY <2>1, <3>1, <3>2, OwnerKept
    <3> QED
      BY <2>1, <2>3, <3>1, <3>2, <3>3, LoginProtects DEF RowsOfUser
  <2>4. CASE x = r /\ req'[r].pc = "insert"
    <3>1. AuthenticateVerify(r)
      BY <2>1, <2>4, WhereNext
    <3>2. PICK rows \in SUBSET Unrevoked(req[r].user) :
            req'[r] = [req[r] EXCEPT !.pc = "insert", !.pw = account[req[r].user].pw,
                                     !.rows = rows]
      BY <3>1 DEF AuthenticateVerify, TypeOK
    <3>3. req'[r].rows = rows /\ req'[r].user = req[r].user /\ session' = session
      BY <2>2, <3>1, <3>2 DEF AuthenticateVerify, Request
    <3> QED
      BY <2>4, <3>2, <3>3 DEF Unrevoked
  <2>5. CASE x = r /\ req'[r].pc = "audit"
    <3>1. s \in Ids /\ LocksSession(r, s)'
      BY <2>2, <2>5 DEF Request, LocksSession
    <3> QED
      BY <2>1, <2>5, <3>1, NewSessionLock
  <2> QED
    BY <2>3, <2>4, <2>5
<1>2. CASE Tick \/ UNCHANGED vars
  BY <1>2 DEF Tick, vars, RowsOfUser
<1> QED
  BY <1>1, <1>2, NextMoves

\* Only a row in use is revoked.
LEMMA UnusedUnrevokedStep ==
    ASSUME TypeOK, PcOK, RowsHeld, UnusedUnrevoked, [Next]_vars
    PROVE  UnusedUnrevoked'
<1> USE RowsAssumption
<1>1. CASE \E r \in Reqs : Moves(r)
  <2>1. PICK r \in Reqs : Moves(r)
    BY <1>1
  <2>2. req[r] \in Request /\ ReqOK(r) /\ RowsHeldBy(r)
    BY DEF TypeOK, PcOK, RowsHeld
  <2> SUFFICES ASSUME NEW s \in Ids, session'[s].user = Null
               PROVE  session'[s].revoked = "NO"
    BY DEF UnusedUnrevoked
  <2>3. session[s].user = Null /\ session[s].revoked = "NO"
    BY <2>1, OwnerKept DEF UnusedUnrevoked
  <2>4. ~Revokes(r, s)
    <3>1. ~(AuthenticateCommit(r) /\ s \in req[r].rows)
      BY <2>2, <2>3 DEF AuthenticateCommit, At, RowsHeldBy
    <3>2. ~(ResolveExpired(r) /\ s = req[r].sid)
      BY <2>2, <2>3 DEF ResolveExpired, ReqOK
    <3>3. ~(ChangePasswordCommit(r) /\ s \in SweepRows(r))
      BY <2>2, <2>3 DEF ChangePasswordCommit, At, ReqOK, SweepRows, Unrevoked
    <3>4. ~LocksSession(r, s)
      BY <2>2, <2>3 DEF LocksSession, RowsHeldBy
    <3> QED
      BY <3>1, <3>2, <3>3, <3>4 DEF Revokes
  <2>5. ~(ResolveSession(r) /\ s = req[r].sid)
    BY <2>2, <2>3 DEF ResolveSession, ReqOK
  <2>6. ASSUME AuthenticateCommit(r), NEW created,
               session'[s] = OpenedAt(req[r].user, req[r].now, created, req[r].pw)
        PROVE  FALSE
    <3>1. session'[s].user = req[r].user
      BY <2>6 DEF OpenedAt
    <3> QED
      BY <2>2, <2>6, <3>1 DEF AuthenticateCommit, At, ReqOK
  <2> QED
    BY <2>1, <2>3, <2>4, <2>5, <2>6, SessionEffect
<1>2. CASE Tick \/ UNCHANGED vars
  BY <1>2 DEF Tick, vars, UnusedUnrevoked
<1> QED
  BY <1>1, <1>2, NextMoves

-----------------------------------------------------------------------------
(* Times *)

\* Only Tick moves the clock.
LEMMA ClockKept ==
    ASSUME NEW r \in Reqs, Moves(r)
    PROVE  clock' = clock
<1>1. CASE Refuses(r)
  BY <1>1 DEF Refuses, AuthenticateRefuse, ResolveRefuse, CsrfRefuse, ChangePasswordRefuse,
     CreateRefuse, UpdateRefuse, AdminRefuse, Abort
<1>2. CASE Reads(r)
  BY <1>2 DEF Reads, ArriveLogin, ArriveWithCookie, AuthenticateVerify, CsrfMatches, Logout,
     ChangePasswordVerify, UpdateUser, UnlockUser, ResetPassword, SweepSessions,
     RevokeUserSessions
<1>3. CASE Commits(r)
  BY <1>3 DEF Commits, AuthenticateBadPassword, AuthenticateCommit, ResolveExpired,
     ResolveSession, LogoutCommit, ChangePasswordCommit, CreateUser, UpdateCommit,
     UnlockCommit, ResetCommit, RevokeCommit
<1> QED
  BY <1>1, <1>2, <1>3 DEF Moves

\* A request goes on with the time it has, or with the clock, or with none.
LEMMA TimeKept ==
    ASSUME TypeOK, NEW r \in Reqs, Moves(r)
    PROVE  req'[r].now \in {req[r].now, clock, 0}
<1>0. req[r] \in Request
  BY DEF TypeOK
<1>1. CASE Refuses(r)
  BY <1>1, RefusesEffect DEF TypeOK, Idle
<1>2. CASE Commits(r)
  <2>1. CASE req' = [req EXCEPT ![r] = Idle]
    BY <2>1 DEF TypeOK, Idle
  <2>2. ASSUME NEW pc \in {"csrf", "handler"},
               req' = [req EXCEPT ![r] = [@ EXCEPT !.pc = pc, !.now = 0]]
        PROVE  req'[r].now = 0
    BY <1>0, <2>2 DEF TypeOK, Request
  <2> QED
    BY <1>2, <2>1, <2>2, CommitsEffect
<1>3. CASE ArriveLogin(r) \/ ArriveWithCookie(r)
  BY <1>3, ArrivalEffect
<1>4. CASE CsrfMatches(r)
  BY <1>0, <1>4 DEF CsrfMatches, TypeOK, Request
<1>5. CASE AuthenticateVerify(r)
  <2>1. PICK rows : req'[r] = [req[r] EXCEPT !.pc = "insert",
                                 !.pw = account[req[r].user].pw, !.rows = rows]
    BY <1>5 DEF AuthenticateVerify, TypeOK
  <2> QED
    BY <1>0, <2>1 DEF Request
<1>6. CASE Logout(r)
  <2>1. PICK rows : req'[r] = [req[r] EXCEPT !.pc = "audit", !.user = Actor(r),
                                             !.rows = rows]
    BY <1>6 DEF Logout, TypeOK
  <2> QED
    BY <1>0, <2>1 DEF Request
<1>7. CASE ChangePasswordVerify(r)
  <2>1. PICK p : req'[r] = [req[r] EXCEPT !.pc = "sweep", !.user = Actor(r), !.pw = p]
    BY <1>7 DEF ChangePasswordVerify, TypeOK
  <2> QED
    BY <1>0, <2>1 DEF Request
<1>8. CASE UpdateUser(r)
  <2>1. PICK u \in Users, p \in Patches :
          req'[r] = [req[r] EXCEPT !.pc = IF p.status = "DISABLED" THEN "sweep" ELSE "audit",
                                   !.user = u, !.patch = p]
    BY <1>8 DEF UpdateUser, TypeOK
  <2> QED
    BY <1>0, <2>1 DEF Request
<1>9. CASE UnlockUser(r)
  <2>1. PICK u : req'[r] = [req[r] EXCEPT !.pc = "audit", !.user = u]
    BY <1>9 DEF UnlockUser, TypeOK
  <2> QED
    BY <1>0, <2>1 DEF Request
<1>10. CASE ResetPassword(r)
  <2>1. PICK u, p : req'[r] = [req[r] EXCEPT !.pc = "sweep", !.user = u, !.pw = p]
    BY <1>10 DEF ResetPassword, TypeOK
  <2> QED
    BY <1>0, <2>1 DEF Request
<1>11. CASE SweepSessions(r)
  BY <1>0, <1>11 DEF SweepSessions, TypeOK, Request
<1>12. CASE RevokeUserSessions(r)
  <2>1. PICK u : req'[r] = [req[r] EXCEPT !.pc = "sweep", !.user = u, !.rows = Unrevoked(u)]
    BY <1>12 DEF RevokeUserSessions, TypeOK
  <2> QED
    BY <1>0, <2>1 DEF Request
<1> QED
  BY <1>1, <1>2, <1>3, <1>4, <1>5, <1>6, <1>7, <1>8, <1>9, <1>10, <1>11, <1>12
     DEF Moves, Reads

\* Requests work with times that have come.
LEMMA NotAheadStep ==
    ASSUME TypeOK, NotAhead, [Next]_vars
    PROVE  NotAhead'
<1>0. clock \in Nat /\ \A r \in Reqs : req[r].now \in Nat /\ req[r].now <= clock
  BY SettingsAssumption DEF TypeOK, Request, NotAhead
<1>1. CASE \E r \in Reqs : Moves(r)
  <2>1. PICK r \in Reqs : Moves(r)
    BY <1>1
  <2>2. \A x \in Reqs \ {r} : req'[x] = req[x]
    BY <2>1, OthersKept
  <2>3. req'[r].now \in {req[r].now, clock, 0} /\ clock' = clock
    BY <2>1, TimeKept, ClockKept
  <2>4. req'[r].now <= clock'
    BY <1>0, <2>3
  <2> QED
    BY <1>0, <2>2, <2>3, <2>4 DEF NotAhead
<1>2. CASE Tick
  BY <1>0, <1>2 DEF Tick, NotAhead
<1>3. CASE UNCHANGED vars
  BY <1>3 DEF vars, NotAhead
<1> QED
  BY <1>1, <1>2, <1>3, NextMoves

\* The row of the account is locked while a login is at its insert, so what it has read
\* of the account is still so.
LEMMA EntryOpenStep ==
    ASSUME TypeOK, PcOK, RowsExist, Exclusive, EntryOpen, [Next]_vars
    PROVE  EntryOpen'
<1>1. CASE \E r \in Reqs : Moves(r)
  <2>1. PICK r \in Reqs : Moves(r)
    BY <1>1
  <2> SUFFICES ASSUME NEW x \in Reqs, req'[x].pc = "insert"
               PROVE  LockLifted(req[x].user, req[x].now)'.status \in OpenStatus
    BY DEF EntryOpen
  <2>2. CASE x # r
    <3>1. req'[x] = req[x] /\ req[x].user \in Users
      BY <2>1, <2>2, OthersKept DEF PcOK, ReqOK
    <3>2. account'[req[x].user] = account[req[x].user]
      BY <2>1, <2>2, <3>1, LockProtects DEF LocksUser
    <3> QED
      BY <3>1, <3>2 DEF EntryOpen, LockLifted
  <2>3. CASE x = r
    <3>1. AuthenticateVerify(r)
      BY <2>1, <2>3, WhereNext
    <3>2. PICK rows : req'[r] = [req[r] EXCEPT !.pc = "insert",
                                   !.pw = account[req[r].user].pw, !.rows = rows]
      BY <3>1 DEF AuthenticateVerify, TypeOK
    <3>3. req'[r].user = req[r].user /\ req'[r].now = req[r].now
      BY <3>2 DEF TypeOK, Request
    <3> QED
      BY <2>3, <3>1, <3>3 DEF AuthenticateVerify, LockLifted
  <2> QED
    BY <2>2, <2>3
<1>2. CASE Tick \/ UNCHANGED vars
  BY <1>2 DEF Tick, vars, EntryOpen, LockLifted
<1> QED
  BY <1>1, <1>2, NextMoves

\* A session is opened with its last use at a time that has come and its deadlines counted
\* from there; a refresh moves both to the time of the request that makes it.
LEMMA LeaseStep ==
    ASSUME TypeOK, PcOK, NotAhead, LeaseBounded, [Next]_vars
    PROVE  LeaseBounded'
<1> USE SettingsAssumption, RowsAssumption
<1>0. clock \in Nat /\ \A r \in Reqs : req[r].now \in Nat /\ req[r].now <= clock
  BY DEF TypeOK, Request, NotAhead
<1>1. CASE \E r \in Reqs : Moves(r)
  <2>1. PICK r \in Reqs : Moves(r)
    BY <1>1
  <2>2. clock' = clock /\ ReqOK(r) /\ req[r].now \in Nat /\ req[r].now <= clock
    BY <1>0, <2>1, ClockKept DEF PcOK
  <2> SUFFICES ASSUME NEW s \in Ids, session'[s].user # Null
               PROVE  /\ session'[s].seen <= clock
                      /\ session'[s].idle <= session'[s].seen + IdleTtl
                      /\ IdleTtl <= AbsTtl /\ IdleTtl <= AdminAbsTtl
                           => session'[s].idle <= session'[s].abs
    BY <2>2 DEF LeaseBounded
  <2>3. session[s] \in Session
    BY DEF TypeOK
  <2>4. ASSUME NEW created,
               session'[s] = OpenedAt(req[r].user, req[r].now, created, req[r].pw)
        PROVE  /\ session'[s].seen = req[r].now
               /\ session'[s].idle = req[r].now + IdleTtl
               /\ session'[s].abs \in {req[r].now + AdminAbsTtl, req[r].now + AbsTtl}
    BY <2>4 DEF OpenedAt
  <2>5. CASE ResolveSession(r) /\ s = req[r].sid /\ session'[s] = Refreshed(s, req[r].now)
    <3>1. session[s].user # Null
      BY <2>2, <2>5 DEF ResolveSession, ReqOK
    <3>2. CASE session'[s] = session[s]
      BY <3>1, <3>2 DEF LeaseBounded
    <3>3. CASE session'[s] # session[s]
      <4> DEFINE idle == IF req[r].now + IdleTtl < session[s].abs
                         THEN req[r].now + IdleTtl ELSE session[s].abs
      <4>1. session'[s] = [session[s] EXCEPT !.seen = req[r].now, !.idle = idle]
        BY <2>5, <3>3 DEF Refreshed
      <4>2. /\ session'[s].seen = req[r].now /\ session'[s].idle = idle
            /\ session'[s].abs = session[s].abs /\ session[s].abs \in Nat
        BY <2>3, <4>1 DEF Session
      <4> QED
        BY <2>2, <4>2
    <3> QED
      BY <3>2, <3>3
  <2>6. CASE SameLease(s)
    BY <2>6 DEF SameLease, LeaseBounded
  <2>7. CASE \E created \in req[r].now .. clock :
               session'[s] = OpenedAt(req[r].user, req[r].now, created, req[r].pw)
    BY <2>2, <2>4, <2>7
  <2> QED
    BY <2>1, <2>5, <2>6, <2>7, SessionEffect
<1>2. CASE Tick
  <2>1. clock' = clock + 1 /\ session' = session
    BY <1>2 DEF Tick
  <2>2. \A s \in Ids : session[s].seen \in Nat
    BY DEF TypeOK, Session
  <2> QED
    BY <1>0, <2>1, <2>2 DEF LeaseBounded
<1>3. CASE UNCHANGED vars
  BY <1>3 DEF vars, LeaseBounded
<1> QED
  BY <1>1, <1>2, <1>3, NextMoves

-----------------------------------------------------------------------------
(* The theorems *)

\* The service starts with nobody logged in and no request.
LEMMA TimeInit ==
    ASSUME Init
    PROVE  TimeInv
<1>1. \A r \in Reqs : req[r] = Idle
  BY DEF Init
<1>2. \A s \in Ids : session[s].user = Null /\ session[s].revoked = "NO"
  BY DEF Init, NoSession
<1> QED
  BY <1>1, <1>2 DEF Init, TimeInv, NotAhead, EntryOpen, RowsHeld, RowsHeldBy,
     RowsOfUser, SessionExclusive, LocksSession, UnusedUnrevoked, LeaseBounded, Idle

\* Every step keeps it.
LEMMA TimeNext ==
    ASSUME IInv, TimeInv, [Next]_vars
    PROVE  TimeInv'
BY NotAheadStep, EntryOpenStep, RowsHeldStep, RowsOfUserStep, SessionExclusiveStep, UnusedUnrevokedStep,
   LeaseStep DEF IInv, TimeInv

\* TimeInv is an invariant of the service.
THEOREM TimeInvariance == Spec => []TimeInv
BY TimeInit, TimeNext, Inductive, PTL DEF Spec

\* No session is seen in the future, kept idle longer than session_idle_minutes after its
\* last use, or past its absolute lifetime.
THEOREM LeasesAreBounded == Spec => []LeaseBounded
<1>1. TimeInv => LeaseBounded
  BY DEF TimeInv
<1> QED
  BY <1>1, TimeInvariance, PTL

\* Whatever the order in which the requests of a session commit, neither its last use nor
\* its idle deadline goes back, as long as the idle time is no longer than the absolute
\* lifetimes (as with the settings' defaults).
THEOREM LeasesNeverShrink ==
    ASSUME IdleTtl <= AbsTtl, IdleTtl <= AdminAbsTtl
    PROVE  Spec => LeaseNeverShrinks
<1> USE SettingsAssumption, RowsAssumption
<1>1. ASSUME IInv, TimeInv, [Next]_vars, NEW s \in Ids, session[s].user # Null
      PROVE  session'[s].seen >= session[s].seen /\ session'[s].idle >= session[s].idle
  <2>0. /\ session[s] \in Session /\ LeaseBounded
        /\ session[s].seen \in Nat /\ session[s].idle \in Nat /\ session[s].abs \in Nat
    BY <1>1 DEF IInv, TimeInv, TypeOK, Session
  <2>1. CASE \E r \in Reqs : Moves(r)
    <3>1. PICK r \in Reqs : Moves(r)
      BY <2>1
    <3>2. req[r].now \in Nat /\ RefreshAfter \in Nat
      BY <1>1 DEF IInv, TypeOK, Request
    <3>3. CASE session'[s] = Refreshed(s, req[r].now)
      <4>1. CASE session'[s] = session[s]
        BY <2>0, <4>1
      <4>2. CASE session'[s] # session[s]
        <5> DEFINE idle == IF req[r].now + IdleTtl < session[s].abs
                           THEN req[r].now + IdleTtl ELSE session[s].abs
        <5>1. /\ req[r].now >= session[s].seen + RefreshAfter
              /\ session'[s] = [session[s] EXCEPT !.seen = req[r].now, !.idle = idle]
          BY <3>3, <4>2 DEF Refreshed
        <5>2. session'[s].seen = req[r].now /\ session'[s].idle = idle
          BY <2>0, <5>1 DEF Session
        <5>3. /\ session[s].idle <= session[s].seen + IdleTtl
              /\ session[s].idle <= session[s].abs
          BY <1>1, <2>0 DEF LeaseBounded
        <5> QED
          BY <2>0, <3>2, <5>1, <5>2, <5>3
      <4> QED
        BY <4>1, <4>2
    <3>4. CASE SameLease(s)
      BY <2>0, <3>4 DEF SameLease
    <3> QED
      BY <1>1, <3>1, <3>3, <3>4, SessionEffect DEF IInv
  <2>2. CASE Tick \/ UNCHANGED vars
    BY <2>0, <2>2 DEF Tick, vars
  <2> QED
    BY <1>1, <2>1, <2>2, NextMoves
<1>2. IInv /\ TimeInv /\ [Next]_vars =>
        \A s \in Ids : session[s].user # Null =>
          session'[s].seen >= session[s].seen /\ session'[s].idle >= session[s].idle
  BY <1>1
<1> QED
  BY <1>2, Inductive, TimeInvariance, PTL DEF Spec, LeaseNeverShrinks

\* No step brings a revoked session back, and its reason stays. Only the eviction by a login
\* that listed it before may replace it, and only by a session check that found it expired:
\* every other statement that revokes finds it unrevoked and keeps it locked until it
\* commits, and does not get at the sessions of a login's user before the login is through.
THEOREM RevocationsAreFinal == Spec => RevocationFinal
<1> USE RowsAssumption
<1>1. ASSUME IInv, TimeInv, [Next]_vars, NEW s \in Ids, session[s].revoked # "NO",
             session'[s].revoked # session[s].revoked
      PROVE  session[s].revoked = "EXPIRED" /\ session'[s].revoked = "MAX_SESSIONS"
  <2>0. session[s] \in Session /\ session[s].user # Null
    BY <1>1 DEF IInv, TimeInv, TypeOK, UnusedUnrevoked
  <2>1. CASE \E r \in Reqs : Moves(r)
    <3>1. PICK r \in Reqs : Moves(r)
      BY <2>1
    <3>2. Refreshed(s, req[r].now).revoked = session[s].revoked
      BY <2>0 DEF Refreshed, Session
    <3>3. Revokes(r, s)
      BY <1>1, <2>0, <3>1, <3>2, SessionEffect DEF IInv
    <3>4. ~(ResolveExpired(r) /\ s = req[r].sid)
      BY <1>1 DEF ResolveExpired
    <3>5. ~(ChangePasswordCommit(r) /\ s \in SweepRows(r))
      BY <1>1 DEF ChangePasswordCommit, At, SweepRows, Unrevoked
    <3>6. ~LocksSession(r, s)
      BY <1>1 DEF TimeInv, RowsHeld, RowsHeldBy, LocksSession
    <3>7. /\ AuthenticateCommit(r) /\ s \in req[r].rows
          /\ session'[s].revoked = "MAX_SESSIONS"
      BY <3>3, <3>4, <3>5, <3>6 DEF Revokes
    <3> QED
      BY <1>1, <3>7 DEF AuthenticateCommit, At, TimeInv, RowsOfUser
  <2>2. CASE Tick \/ UNCHANGED vars
    BY <1>1, <2>2 DEF Tick, vars
  <2> QED
    BY <1>1, <2>1, <2>2, NextMoves
<1>2. IInv /\ TimeInv /\ [Next]_vars =>
        \A s \in Ids : session[s].revoked # "NO" /\ session'[s].revoked # session[s].revoked
          => session[s].revoked = "EXPIRED" /\ session'[s].revoked = "MAX_SESSIONS"
  BY <1>1
<1> QED
  BY <1>2, Inductive, TimeInvariance, PTL DEF Spec, RevocationFinal

\* authenticate inserts a session only for an account that is still open at that moment, or
\* whose lock has run out.
THEOREM NobodyEntersWhileBarred == Spec => NoEntryWhileBarred
<1> USE RowsAssumption
<1>1. ASSUME IInv, TimeInv, [Next]_vars, NEW s \in Ids,
             session[s].user = Null, session'[s].user # Null
      PROVE  LET a == account[session'[s].user] IN
             \/ a.status \in OpenStatus
             \/ a.status = "LOCKED" /\ a.until # Null /\ a.until <= clock
  <2>1. PICK r \in Reqs : Moves(r)
    <3>1. CASE Tick \/ UNCHANGED vars
      BY <1>1, <3>1 DEF Tick, vars
    <3> QED
      BY <1>1, <3>1, NextMoves
  <2>2. AuthenticateCommit(r) /\ session'[s].user = req[r].user
    BY <1>1, <2>1, NewSession DEF IInv
  <2> DEFINE u == req[r].user
  <2>3. /\ LockLifted(u, req[r].now).status \in OpenStatus
        /\ req[r].now \in Nat /\ req[r].now <= clock /\ clock \in Nat
        /\ account[u] \in Account
    BY <1>1, <2>2, SettingsAssumption DEF IInv, TimeInv, EntryOpen, NotAhead, TypeOK, Request,
       AuthenticateCommit, At, PcOK, ReqOK
  <2>4. CASE account[u].status = "LOCKED" /\ account[u].until # Null
             /\ account[u].until <= req[r].now
    <3>1. account[u].until \in Nat
      BY <2>3, <2>4 DEF Account
    <3> QED
      BY <2>2, <2>3, <2>4, <3>1
  <2>5. CASE ~(account[u].status = "LOCKED" /\ account[u].until # Null
               /\ account[u].until <= req[r].now)
    <3>1. LockLifted(u, req[r].now) = account[u]
      BY <2>5 DEF LockLifted
    <3> QED
      BY <2>2, <2>3, <3>1
  <2> QED
    BY <2>4, <2>5
<1>2. IInv /\ TimeInv /\ [Next]_vars =>
        \A s \in Ids : session[s].user = Null /\ session'[s].user # Null =>
          LET a == account[session'[s].user] IN
          \/ a.status \in OpenStatus
          \/ a.status = "LOCKED" /\ a.until # Null /\ a.until <= clock
  BY <1>1
<1> QED
  BY <1>2, Inductive, TimeInvariance, PTL DEF Spec, NoEntryWhileBarred

\* A lock that has not run out stands against logins, right and wrong passwords, changes and
\* resets; only the commit of an administrator's PATCH or unlock lifts or alters it.
THEOREM LocksStand == Spec => LockStands
<1> USE SettingsAssumption, RowsAssumption
<1>1. ASSUME IInv, TimeInv, [Next]_vars, NEW u \in Users, account[u].status = "LOCKED",
             account[u].until = Null \/ account[u].until > clock, account'[u] # account[u]
      PROVE  \/ AdminCommits(u)
             \/ account'[u].status = "LOCKED" /\ account'[u].until = account[u].until
  <2>0. account[u] \in Account /\ clock \in Nat
    BY <1>1 DEF IInv, TypeOK
  <2>1. PICK r \in Reqs : Moves(r)
    <3>1. CASE Tick \/ UNCHANGED vars
      BY <1>1, <3>1 DEF Tick, vars
    <3> QED
      BY <1>1, <3>1, NextMoves
  <2>2. /\ req[r].now \in Nat /\ req[r].now <= clock /\ ReqOK(r)
        /\ account \in [Users -> Account]
    BY <1>1 DEF IInv, TimeInv, TypeOK, Request, NotAhead, PcOK
  <2>3. LockLifted(u, req[r].now) = account[u] /\ account[u].status \notin OpenStatus
    <3>1. ~(account[u].until # Null /\ account[u].until <= req[r].now)
      BY <1>1, <2>0, <2>2 DEF Account
    <3> QED
      BY <1>1, <3>1 DEF LockLifted, OpenStatus
  <2>4. CASE AuthenticateBadPassword(r)
    <3>1. req[r].user # u
      BY <2>3, <2>4 DEF AuthenticateBadPassword
    <3> QED
      BY <1>1, <2>2, <2>4, <3>1 DEF AuthenticateBadPassword
  <2>5. CASE AuthenticateCommit(r)
    <3>1. LockLifted(req[r].user, req[r].now).status \in OpenStatus
      BY <1>1, <2>5 DEF TimeInv, EntryOpen, AuthenticateCommit, At
    <3>2. req[r].user # u
      BY <2>3, <3>1
    <3> QED
      BY <1>1, <2>2, <2>5, <3>2 DEF AuthenticateCommit
  <2>6. CASE ChangePasswordCommit(r)
    BY <1>1, <2>0, <2>2, <2>6 DEF ChangePasswordCommit, Account
  <2>7. CASE ResetCommit(r)
    BY <1>1, <2>0, <2>2, <2>7 DEF ResetCommit, Account
  <2>8. CASE CreateUser(r)
    <3>1. PICK v \in Users, q \in Account : ~Exists(v) /\ account' = [account EXCEPT ![v] = q]
      BY <2>8 DEF CreateUser, Account, Status
    <3>2. u # v
      BY <1>1, <3>1 DEF Exists
    <3> QED
      BY <1>1, <2>2, <3>1, <3>2
  <2>9. CASE UpdateCommit(r)
    <3>1. req[r].user = u
      BY <1>1, <2>2, <2>9 DEF UpdateCommit
    <3>2. req'[r] = Idle
      BY <1>1, <2>9 DEF UpdateCommit, End, IInv, TypeOK
    <3> QED
      BY <2>9, <3>1, <3>2 DEF UpdateCommit, At, AdminCommits
  <2>10. CASE UnlockCommit(r)
    <3>1. req[r].user = u
      BY <1>1, <2>2, <2>10 DEF UnlockCommit
    <3>2. req'[r] = Idle
      BY <1>1, <2>10 DEF UnlockCommit, End, IInv, TypeOK
    <3> QED
      BY <2>10, <3>1, <3>2 DEF UnlockCommit, At, AdminCommits
  <2>11. CASE account' = account
    BY <1>1, <2>11
  <2> QED
    BY <1>1, <2>1, <2>4, <2>5, <2>6, <2>7, <2>8, <2>9, <2>10, <2>11, RefusesEffect,
       ReadsEffect DEF IInv, Moves, Commits, ResolveExpired, ResolveSession, LogoutCommit,
       RevokeCommit
<1>2. IInv /\ TimeInv /\ [Next]_vars =>
        \A u \in Users :
          /\ account[u].status = "LOCKED"
          /\ account[u].until = Null \/ account[u].until > clock
          /\ account'[u] # account[u]
          => \/ AdminCommits(u)
             \/ account'[u].status = "LOCKED" /\ account'[u].until = account[u].until
  BY <1>1
<1> QED
  BY <1>2, Inductive, TimeInvariance, PTL DEF Spec, LockStands

-----------------------------------------------------------------------------
(* The last administrator, when requests come one at a time *)

\* A PATCH that takes an administrator away has seen another one who can log in.
GuardInv ==
    \A r \in Reqs :
        /\ req[r].kind = "patch" /\ req[r].pc \in {"sweep", "audit"}
        /\ Guarded(req[r].user, req[r].patch)
        => \E v \in Users \ {req[r].user} : ActiveAdmin(v)

\* With nobody else at work, what the PATCH has counted is still so when it commits.
LEMMA GuardStep ==
    ASSUME \A r, x \in Reqs : r = x, TypeOK, PcOK, GuardInv, [Next]_vars
    PROVE  GuardInv'
<1>1. CASE \E r \in Reqs : Moves(r)
  <2>1. PICK r \in Reqs : Moves(r)
    BY <1>1
  <2>2. req[r] \in Request
    BY DEF TypeOK
  <2> SUFFICES ASSUME req'[r].kind = "patch", req'[r].pc \in {"sweep", "audit"},
                      Guarded(req[r].user, req[r].patch)'
               PROVE  \E v \in Users \ {req'[r].user} : ActiveAdmin(v)'
    BY DEF GuardInv
  <2>3. CASE UpdateUser(r)
    <3>1. PICK u \in Users, p \in Patches :
            /\ Guarded(u, p) => Cardinality(ActiveAdmins) > 1
            /\ req' = [req EXCEPT ![r] =
                 [@ EXCEPT !.pc = IF p.status = "DISABLED" THEN "sweep" ELSE "audit",
                           !.user = u, !.patch = p]]
      BY <2>3 DEF UpdateUser
    <3>2. req'[r].user = u /\ req'[r].patch = p /\ account' = account
      BY <2>2, <2>3, <3>1 DEF UpdateUser, TypeOK, Request
    <3>3. Cardinality(ActiveAdmins) > 1
      BY <3>1, <3>2 DEF Guarded
    <3>4. ~(ActiveAdmins \subseteq {u})
      <4> SUFFICES ASSUME ActiveAdmins \subseteq {u} PROVE FALSE
        OBVIOUS
      <4>1. Cardinality({u}) = 1 /\ Cardinality({}) = 0
        BY FS_Singleton, FS_EmptySet
      <4>2. ActiveAdmins = {} \/ ActiveAdmins = {u}
        OBVIOUS
      <4> QED
        BY <3>3, <4>1, <4>2
    <3>5. PICK v \in Users \ {u} : ActiveAdmin(v)
      BY <3>4 DEF ActiveAdmins
    <3> QED
      BY <3>2, <3>5 DEF ActiveAdmin
  <2>4. CASE SweepSessions(r)
    <3>1. req'[r] = [req[r] EXCEPT !.pc = "audit", !.rows = SweepRows(r)]
          /\ account' = account /\ req[r].pc = "sweep"
      BY <2>4 DEF SweepSessions, TypeOK
    <3>2. /\ req'[r].kind = req[r].kind /\ req'[r].user = req[r].user
          /\ req'[r].patch = req[r].patch
      BY <2>2, <3>1 DEF Request
    <3> QED
      BY <3>1, <3>2 DEF GuardInv, Guarded, ActiveAdmin
  <2>5. CASE Refuses(r)
    BY <2>5, RefusesEffect DEF TypeOK, Idle
  <2>6. CASE Commits(r)
    <3>1. CASE req' = [req EXCEPT ![r] = Idle]
      BY <3>1 DEF TypeOK, Idle
    <3>2. ASSUME NEW pc \in {"csrf", "handler"},
                 req' = [req EXCEPT ![r] = [@ EXCEPT !.pc = pc, !.now = 0]]
          PROVE  FALSE
      BY <2>2, <3>2 DEF TypeOK, Request
    <3> QED
      BY <2>6, <3>1, <3>2, CommitsEffect
  <2>7. CASE ArriveLogin(r) \/ ArriveWithCookie(r)
    BY <2>7, ArrivalEffect
  <2>8. CASE AuthenticateVerify(r)
    <3>1. PICK rows : req'[r] = [req[r] EXCEPT !.pc = "insert",
                                   !.pw = account[req[r].user].pw, !.rows = rows]
      BY <2>8 DEF AuthenticateVerify, TypeOK
    <3> QED
      BY <2>2, <3>1 DEF Request
  <2>9. CASE CsrfMatches(r)
    BY <2>2, <2>9 DEF CsrfMatches, TypeOK, Request
  <2>10. CASE Logout(r)
    <3>1. PICK rows : req'[r] = [req[r] EXCEPT !.pc = "audit", !.user = Actor(r),
                                               !.rows = rows]
      BY <2>10 DEF Logout, TypeOK
    <3> QED
      BY <2>2, <2>10, <3>1 DEF Logout, At, Request
  <2>11. CASE ChangePasswordVerify(r)
    <3>1. PICK p : req'[r] = [req[r] EXCEPT !.pc = "sweep", !.user = Actor(r), !.pw = p]
      BY <2>11 DEF ChangePasswordVerify, TypeOK
    <3> QED
      BY <2>2, <2>11, <3>1 DEF ChangePasswordVerify, At, Request
  <2>12. CASE UnlockUser(r)
    <3>1. PICK u : req'[r] = [req[r] EXCEPT !.pc = "audit", !.user = u]
      BY <2>12 DEF UnlockUser, TypeOK
    <3> QED
      BY <2>2, <2>12, <3>1 DEF UnlockUser, At, Request
  <2>13. CASE ResetPassword(r)
    <3>1. PICK u \in Users, p \in Passwords : req'[r] = [req[r] EXCEPT !.pc = "sweep", !.user = u,
                                                                !.pw = p]
      BY <2>13 DEF ResetPassword, TypeOK
    <3> QED
      BY <2>2, <2>13, <3>1 DEF ResetPassword, At, Request
  <2>14. CASE RevokeUserSessions(r)
    <3>1. PICK u : req'[r] = [req[r] EXCEPT !.pc = "sweep", !.user = u,
                                            !.rows = Unrevoked(u)]
      BY <2>14 DEF RevokeUserSessions, TypeOK
    <3> QED
      BY <2>2, <2>14, <3>1 DEF RevokeUserSessions, At, Request
  <2> QED
    BY <2>1, <2>3, <2>4, <2>5, <2>6, <2>7, <2>8, <2>9, <2>10, <2>11, <2>12, <2>13, <2>14
       DEF Moves, Reads
<1>2. CASE Tick \/ UNCHANGED vars
  BY <1>2 DEF Tick, vars, GuardInv, Guarded, ActiveAdmin
<1> QED
  BY <1>1, <1>2, NextMoves

\* Served one request at a time, the service never lets a PATCH take the last administrator
\* who can log in: that it may is the doing of overlapping requests alone.
THEOREM LastAdminAlone ==
    ASSUME \A r, x \in Reqs : r = x
    PROVE  Spec => LastAdminProtected
<1> USE SettingsAssumption, RowsAssumption
<1>1. Init => GuardInv
  BY DEF Init, GuardInv, Idle
<1>2. IInv /\ GuardInv /\ [Next]_vars => GuardInv'
  BY GuardStep DEF IInv
<1>3. Spec => []GuardInv
  BY <1>1, <1>2, Inductive, PTL DEF Spec
<1>4. ASSUME IInv, GuardInv, [Next]_vars, NEW u \in Users, ActiveAdmin(u),
             account'[u].role # "ADMIN" \/ account'[u].status = "DISABLED"
      PROVE  \E v \in Users : ActiveAdmin(v)'
  <2>0. /\ account \in [Users -> Account] /\ account[u] \in Account
        /\ account[u].role = "ADMIN" /\ account[u].status \in OpenStatus
    BY <1>4 DEF IInv, TypeOK, ActiveAdmin
  <2>1. PICK r \in Reqs : Moves(r)
    <3>1. CASE Tick \/ UNCHANGED vars
      BY <1>4, <2>0, <3>1 DEF Tick, vars, OpenStatus
    <3> QED
      BY <1>4, <3>1, NextMoves
  <2>2. req[r] \in Request /\ ReqOK(r) /\ req[r].now \in Nat
    BY <1>4 DEF IInv, TypeOK, PcOK, Request
  <2>3. account'[u] # account[u]
    BY <1>4, <2>0 DEF OpenStatus
  <2>4. LockLifted(u, req[r].now) = account[u]
    BY <2>0 DEF LockLifted, OpenStatus
  <2>5. CASE UpdateCommit(r)
    <3>1. req[r].user = u
      BY <2>0, <2>3, <2>5 DEF UpdateCommit
    <3>2. /\ account'[u].role = Coalesce(req[r].patch.role, account[u].role)
          /\ account'[u].status = Coalesce(req[r].patch.status, account[u].status)
          /\ \A v \in Users \ {u} : account'[v] = account[v]
      BY <2>0, <2>5, <3>1 DEF UpdateCommit, Account
    <3>3. Guarded(req[r].user, req[r].patch)
      BY <1>4, <2>0, <3>1, <3>2 DEF Guarded, Coalesce, OpenStatus
    <3>4. PICK v \in Users \ {u} : ActiveAdmin(v)
      BY <1>4, <2>5, <3>1, <3>3 DEF GuardInv, UpdateCommit, At
    <3> QED
      BY <3>2, <3>4 DEF ActiveAdmin
  <2>6. ASSUME AuthenticateBadPassword(r) PROVE FALSE
    <3>1. req[r].user = u
      BY <2>0, <2>3, <2>6 DEF AuthenticateBadPassword
    <3> DEFINE f == account[u].fails + 1
               st == IF account[u].fails + 1 >= MaxFailures THEN "LOCKED"
                     ELSE account[u].status
               un == IF account[u].fails + 1 >= MaxFailures THEN req[r].now + LockTtl ELSE Null
    <3>2. account'[u] = [account[u] EXCEPT !.fails = f, !.status = st, !.until = un]
      BY <2>0, <2>4, <2>6, <3>1 DEF AuthenticateBadPassword, Account
    <3>3. account'[u].role = account[u].role /\ account'[u].status = st
      <4> HIDE DEF f, st, un
      <4> QED
        BY <2>0, <3>2 DEF Account
    <3> QED
      BY <1>4, <2>0, <3>3 DEF OpenStatus
  <2>7. ASSUME AuthenticateCommit(r) PROVE FALSE
    <3>1. req[r].user = u
      BY <2>0, <2>3, <2>7 DEF AuthenticateCommit
    <3> DEFINE st == IF account[u].status = "PENDING" THEN "ACTIVE" ELSE account[u].status
    <3>2. account'[u] = [account[u] EXCEPT !.fails = 0, !.until = Null, !.status = st]
      BY <2>0, <2>4, <2>7, <3>1 DEF AuthenticateCommit, Account
    <3>3. account'[u].role = account[u].role /\ account'[u].status = st
      <4> HIDE DEF st
      <4> QED
        BY <2>0, <3>2 DEF Account
    <3> QED
      BY <1>4, <2>0, <3>3 DEF OpenStatus
  <2>8. ASSUME ChangePasswordCommit(r) \/ ResetCommit(r) PROVE FALSE
    <3>1. account'[u].role = account[u].role /\ account'[u].status = account[u].status
      <4>1. CASE ChangePasswordCommit(r)
        BY <2>0, <4>1 DEF ChangePasswordCommit, Account
      <4>2. CASE ResetCommit(r)
        BY <2>0, <4>2 DEF ResetCommit, Account
      <4> QED
        BY <2>8, <4>1, <4>2
    <3> QED
      BY <1>4, <2>0, <3>1 DEF OpenStatus
  <2>9. ASSUME CreateUser(r) PROVE FALSE
    <3>1. PICK v \in Users, q \in Account : ~Exists(v) /\ account' = [account EXCEPT ![v] = q]
      BY <2>9 DEF CreateUser, Account, Status
    <3>2. u # v
      BY <2>0, <3>1 DEF Exists, OpenStatus
    <3> QED
      BY <2>0, <2>3, <3>1, <3>2
  <2>10. ASSUME UnlockCommit(r) PROVE FALSE
    <3>1. req[r].user = u
      BY <2>0, <2>3, <2>10 DEF UnlockCommit
    <3>2. account'[u] = [account[u] EXCEPT !.status = "ACTIVE", !.fails = 0, !.until = Null]
      BY <2>0, <2>10, <3>1 DEF UnlockCommit
    <3>3. account'[u].role = account[u].role /\ account'[u].status = "ACTIVE"
      BY <2>0, <3>2 DEF Account
    <3> QED
      BY <1>4, <2>0, <3>3
  <2> QED
    BY <1>4, <2>1, <2>3, <2>5, <2>6, <2>7, <2>8, <2>9, <2>10, RefusesEffect, ReadsEffect
       DEF IInv, Moves, Commits, ResolveExpired, ResolveSession, LogoutCommit, RevokeCommit
<1>5. IInv /\ GuardInv /\ [Next]_vars =>
        \A u \in Users :
          /\ ActiveAdmin(u)
          /\ account'[u].role # "ADMIN" \/ account'[u].status = "DISABLED"
          => \E v \in Users : ActiveAdmin(v)'
  BY <1>4
<1> QED
  BY <1>3, <1>5, Inductive, PTL DEF Spec, LastAdminProtected
=============================================================================
