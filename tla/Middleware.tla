------------------------------ MODULE Middleware ------------------------------
(***************************************************************************)
(* A request on its way through the server: response_middleware and the    *)
(* exception handlers of app/main.py, the dependencies that check session  *)
(* and CSRF token, the handler, persist_http_audit of services/audit.py,   *)
(* and database_ready.  Database, login and storage of the diagnoses are   *)
(* enabled; each use of the database may fail.                             *)
(* Diagnostics models what "work" stands for, Accounts what "session" and  *)
(* "csrf" look up.                                                         *)
(***************************************************************************)
EXTENDS DbPool

VARIABLES
    request,            \* the requests
    event               \* the row of audit_events each request has left: its result code

serverVars == <<pool, free, use, request, event>>

\* A diagnosis, the history of the diagnoses, and /health/ready.
Route == {"check", "history", "ready"}

\* INTERNAL is the answer to an exception nobody handles; FAILED stands for the codes of a
\* diagnosis that fails, REFUSED for those of an HTTPException or a body that is not valid.
Code == {"OK", "FAILED", "REFUSED", "NOT_READY", "INTERNAL"}

ASSUME CodeAssumption == None \notin Code

\* The stages that use the database.
DbStage == {"session", "again", "csrf", "store", "read", "ready", "audit"}
Request == [stage : DbStage \cup {"idle", "work", "answer"}, route : Route,
            code : Code \cup {None}, passed : SUBSET {"session", "csrf"}]
NoRequest == [stage |-> "idle", route |-> "ready", code |-> None, passed |-> {}]

InitServer ==
    /\ InitPool
    /\ request = [r \in Requests |-> NoRequest]
    /\ event = [r \in Requests |-> None]

\* The request goes on to a stage; one that uses the database calls get_pool first.
Enter(r, stage, next) ==
    /\ request' = [request EXCEPT ![r] = [next EXCEPT !.stage = stage]]
    /\ use' = [use EXCEPT ![r] = IF stage \in DbStage THEN [NoUse EXCEPT !.pc = "ask"]
                                ELSE NoUse]
    /\ UNCHANGED <<pool, free>>

Coded(r, code) == [request[r] EXCEPT !.code = code]

\* What the handlers of main.py turn into a response passes the middleware, which audits it.
Respond(r, code) == Enter(r, "audit", Coded(r, code)) /\ UNCHANGED event

\* Any other exception is answered outside the middleware.
Unhandled(r) == Enter(r, "answer", Coded(r, "INTERNAL")) /\ UNCHANGED event

Ends(r, stage, outcome) == request[r].stage = stage /\ use[r].pc = outcome

-----------------------------------------------------------------------------

\* The first stage; without a cookie there is nothing to look up.
Arrive(r) ==
    /\ request[r].stage = "idle"
    /\ \E route \in Route :
         LET new == [NoRequest EXCEPT !.route = route] IN
         \/ route = "ready" /\ Enter(r, "ready", new)
         \/ route # "ready" /\ Enter(r, "session", new)
         \/ route # "ready" /\ Enter(r, "audit", [new EXCEPT !.code = "REFUSED"])
    /\ UNCHANGED event

\* The session and the role will do; the history looks the session up for its router and
\* again for its handler.
Admit(r, passed) ==
    /\ \/ request[r].route = "check" /\ Enter(r, "csrf", [request[r] EXCEPT !.passed = passed])
       \/ /\ request[r].route = "history"
          /\ Enter(r, IF request[r].stage = "session" THEN "again" ELSE "read",
                   [request[r] EXCEPT !.passed = passed])
    /\ UNCHANGED event

\* Mutant: a session that cannot be looked up is taken for a valid one.
CheckSessionOpen(r) ==
    \E stage \in {"session", "again"} :
        \/ Ends(r, stage, "ok") /\ (Respond(r, "REFUSED") \/ Admit(r, {"session"}))
        \/ Ends(r, stage, "failed") /\ Admit(r, request[r].passed)

\* require_current_user, require_roles, and of require_csrf what needs no database
CheckSession(r) ==
    \E stage \in {"session", "again"} :
        \/ Ends(r, stage, "ok") /\ (Respond(r, "REFUSED") \/ Admit(r, {"session"}))
        \/ Ends(r, stage, "failed") /\ Unhandled(r)

\* The rest of require_csrf, then the rate limit and the body.
CheckCsrf(r) ==
    \/ /\ Ends(r, "csrf", "ok")
       /\ \/ Respond(r, "REFUSED")
          \/ /\ Enter(r, "work", [request[r] EXCEPT !.passed = @ \cup {"csrf"}])
             /\ UNCHANGED event
    \/ Ends(r, "csrf", "failed") /\ Unhandled(r)

\* The diagnosis has an outcome, or persist_diagnostic raises outside its try block.
Work(r) ==
    /\ request[r].stage = "work"
    /\ \/ /\ \E code \in {"OK", "FAILED"} : Enter(r, "store", Coded(r, code))
          /\ UNCHANGED event
       \/ Unhandled(r)

\* Mutant: what the database raises is not caught.
StoreRaises(r) ==
    \/ Ends(r, "store", "ok") /\ Respond(r, request[r].code)
    \/ Ends(r, "store", "failed") /\ Unhandled(r)

\* persist_diagnostic: a failure is logged, and no more.
Store(r) ==
    /\ \E outcome \in {"ok", "failed"} : Ends(r, "store", outcome)
    /\ Respond(r, request[r].code)

\* list_diagnostics and get_diagnostic, where 404 is REFUSED
ReadHistory(r) ==
    \/ Ends(r, "read", "ok") /\ \E code \in {"OK", "REFUSED"} : Respond(r, code)
    \/ Ends(r, "read", "failed") /\ Unhandled(r)

\* database_ready and readiness
Ready(r) ==
    \/ Ends(r, "ready", "ok") /\ Respond(r, "OK")
    \/ Ends(r, "ready", "failed") /\ Respond(r, "NOT_READY")

\* Mutant: only the answers of the handlers are recorded.
AuditHandled(r) ==
    /\ \E outcome \in {"ok", "failed"} :
         /\ Ends(r, "audit", outcome)
         /\ event' = IF outcome = "ok" /\ request[r].code # "REFUSED"
                     THEN [event EXCEPT ![r] = request[r].code] ELSE event
    /\ Enter(r, "answer", request[r])

\* persist_http_audit: a failure is logged, and no more.
Audit(r) ==
    /\ \E outcome \in {"ok", "failed"} :
         /\ Ends(r, "audit", outcome)
         /\ event' = IF outcome = "ok" THEN [event EXCEPT ![r] = request[r].code] ELSE event
    /\ Enter(r, "answer", request[r])

\* The response is sent. Bound: the row of the event is forgotten.
Answer(r) ==
    /\ request[r].stage = "answer"
    /\ Enter(r, "idle", NoRequest)
    /\ event' = [event EXCEPT ![r] = None]

RequestStep(r) ==
    \/ PoolStep(r) /\ UNCHANGED <<request, event>>
    \/ CheckSession(r) \/ CheckCsrf(r) \/ Work(r) \/ Store(r) \/ ReadHistory(r)
    \/ Ready(r) \/ Audit(r) \/ Answer(r)
=============================================================================
