--------------------------- MODULE DeploymentProofs ---------------------------
(***************************************************************************)
(* The deployment adds nothing to what its processes that migrate may do,  *)
(* so that what MigrationsProofs proves of them alone holds beside a       *)
(* server that runs, stops and crashes, with any number of requests.       *)
(* And, for any number of requests and connections: the pool gets its      *)
(* connections back, and what the checks, the audit and the failures of    *)
(* the database may do to an answer.                                       *)
(***************************************************************************)
EXTENDS Deployment, MigrationsProofs, FiniteSetTheorems

-----------------------------------------------------------------------------
(* The migrations *)

\* The server leaves the schema alone: each step is one of a migrator, or changes nothing of
\* the migrations (postgresql-database-spec.md:592).
THEOREM OnlyMigratorsMigrate == Spec => MigrationSpec
<1>1. Init => InitMigrations
  BY DEF Init
<1>2. [Next]_vars => [MigrationNext]_migrationVars
  <2> SUFFICES ASSUME [Next]_vars PROVE [MigrationNext]_migrationVars
    OBVIOUS
  <2>1. CASE Start \/ Stop \/ End
    BY <2>1 DEF Start, Stop, End
  <2>2. ASSUME NEW r \in Requests, Call(r) \/ Serve(r)
        PROVE  UNCHANGED migrationVars
    BY <2>2 DEF Call, Serve
  <2>3. ASSUME NEW m \in Migrators, Migrate(m)
        PROVE  MigrationNext
    BY <2>3 DEF Migrate, MigrationNext
  <2>4. CASE UNCHANGED vars
    BY <2>4 DEF vars, migrationVars
  <2>5. QED
    BY <2>1, <2>2, <2>3, <2>4 DEF Next
<1>3. QED
  BY <1>1, <1>2, PTL DEF Spec, MigrationSpec

\* The migrations have their shape beside a server, too.
LEMMA DeployedTypes == Spec => []MigrationsTypeOK
BY OnlyMigratorsMigrate, MigrationsTypeCorrect

\* Beside a server, too, the schema is always that of the first scripts, each run once and
\* in order (migrations.py:18-27).
THEOREM DeployedSchemaIsWhole == Spec => []SchemaWhole
BY OnlyMigratorsMigrate, SchemaIsWhole

\* No process meets the changes of a script it runs (migrations.py:19-21).
THEOREM DeployedNoScriptTwice == Spec => []NoScriptTwice
BY OnlyMigratorsMigrate, NoScriptMeetsItself

\* What "migrate" reports as applied is recorded.
THEOREM DeployedReportIsTrue == Spec => []ReportIsTrue
BY OnlyMigratorsMigrate, ReportIsAlwaysTrue

-----------------------------------------------------------------------------
(* The inductive invariant of the server *)

\* The types of what the server keeps.
ServerTypes ==
    /\ PoolTypeOK
    /\ request \in [Requests -> Request]
    /\ event \in [Requests -> Code \cup {None}]
    /\ server \in {"down", "up", "closed"}

\* What a request has passed, and whether it has a code, at each stage.
Passes(q) ==
    /\ q.stage \in {"again", "csrf", "read"} => q.passed = {"session"}
    /\ q.stage \in {"work", "store"} => q.passed = {"session", "csrf"}
    /\ q.stage = "ready" => q.route = "ready"
    /\ q.code # None => q.stage \in {"store", "audit", "answer"}
    /\ q.route # "ready" /\ q.code \in {"OK", "FAILED"} => "session" \in q.passed

\* Only a stage of the database uses it, and only an answer has left an event.
RequestInv ==
    \A r \in Requests :
        /\ Passes(request[r])
        /\ request[r].stage \notin DbStage => use[r] = NoUse
        /\ request[r].stage # "answer" => event[r] = None

\* A pool that is stored or used is open; one that is about to be made is not open yet.
Open(p) == p \in Requests /\ free[p] # None
PoolInv ==
    /\ pool # None => Open(pool)
    /\ pool = None => \A p \in Requests : server = "up" => free[p] = None
    /\ \A r \in Requests :
         /\ use[r].pc \in {"acquire", "hold"} => Open(use[r].pool)
         /\ use[r].pc = "create" => free[r] = None

\* What is free and what is held add up; the requests that hold a connection are finitely
\* many, since each has taken one.
Returned(p) ==
    /\ IsFiniteSet(Holding(p))
    /\ free[p] = None => Holding(p) = {}
    /\ free[p] # None => free[p] + Cardinality(Holding(p)) = PoolSize

\* A server that is down has nothing in memory, and one that has closed its pool no request.
DownInv ==
    /\ server = "down" =>
         /\ pool = None /\ \A p \in Requests : free[p] = None
         /\ \A r \in Requests : request[r] = NoRequest
    /\ server = "closed" => pool = None /\ \A r \in Requests : request[r].stage = "idle"

ServerInv ==
    /\ ServerTypes /\ RequestInv /\ PoolInv /\ DownInv
    /\ \A p \in Requests : Returned(p)

-----------------------------------------------------------------------------
(* Requests *)

\* The stages, the records of the requests and the uses of the database.
LEMMA Kinds ==
    /\ NoRequest \in Request /\ Passes(NoRequest) /\ NoRequest.stage = "idle"
    /\ NoUse \in Use /\ NoUse.pc = "none"
    /\ [NoUse EXCEPT !.pc = "ask"] \in Use /\ [NoUse EXCEPT !.pc = "ask"].pc = "ask"
    /\ "idle" \notin DbStage /\ "work" \notin DbStage /\ "answer" \notin DbStage
<1>1. NoRequest \in Request
  BY DEF NoRequest, Request, Route
<1>2. Passes(NoRequest)
  BY DEF NoRequest, Passes
<1>3. NoUse \in Use /\ [NoUse EXCEPT !.pc = "ask"] \in Use
  BY DEF NoUse, Use
<1>4. QED
  BY <1>1, <1>2, <1>3 DEF NoRequest, NoUse, DbStage

\* A request that goes on to a stage changes nothing of the others, nor of the pools.
LEMMA EnterEffect ==
    ASSUME ServerTypes, NEW r \in Requests, NEW stage \in DbStage \cup {"idle", "work", "answer"},
           NEW next \in Request, Enter(r, stage, next)
    PROVE  /\ request' \in [Requests -> Request] /\ use' \in [Requests -> Use]
           /\ request'[r] = [next EXCEPT !.stage = stage]
           /\ use'[r].pc \in {"none", "ask"} /\ (stage \notin DbStage => use'[r] = NoUse)
           /\ \A x \in Requests \ {r} : request'[x] = request[x] /\ use'[x] = use[x]
           /\ UNCHANGED <<pool, free>>
<1> DEFINE q == [next EXCEPT !.stage = stage]
           u == IF stage \in DbStage THEN [NoUse EXCEPT !.pc = "ask"] ELSE NoUse
<1>1. q \in Request
  BY DEF Request
<1>2. u \in Use /\ u.pc \in {"none", "ask"} /\ (stage \notin DbStage => u = NoUse)
  BY Kinds
<1>3. request' = [request EXCEPT ![r] = q] /\ use' = [use EXCEPT ![r] = u]
      /\ UNCHANGED <<pool, free>>
  BY DEF Enter
<1>4. request \in [Requests -> Request] /\ use \in [Requests -> Use]
  BY DEF ServerTypes, PoolTypeOK
<1> HIDE DEF q, u
<1>5. /\ request' \in [Requests -> Request] /\ use' \in [Requests -> Use]
      /\ request'[r] = q /\ use'[r] = u
      /\ \A x \in Requests \ {r} : request'[x] = request[x] /\ use'[x] = use[x]
  BY <1>1, <1>2, <1>3, <1>4
<1>6. QED
  BY <1>2, <1>3, <1>5 DEF q

\* What every step of a request does that leaves the pools alone: it is not in the middle of
\* a use of the database, goes on with the checks and the code its next stage allows, keeps
\* a code it has, and leaves an event that agrees with its answer.
Moves(r) ==
    \E stage \in DbStage \cup {"idle", "work", "answer"}, next \in Request :
        /\ Enter(r, stage, next)
        /\ use[r].pc \in {"none", "ok", "failed"}
        /\ Passes([next EXCEPT !.stage = stage])
        /\ request[r].code # None /\ stage # "idle" => next.code = request[r].code
        /\ event' \in [Requests -> Code \cup {None}]
        /\ \A x \in Requests \ {r} : event'[x] = event[x]
        /\ stage # "answer" => event'[r] = None
        /\ stage = "answer" =>
             \/ event'[r] = next.code
             \/ event'[r] = None /\ (next.code = "INTERNAL" \/ use[r].pc = "failed")

\* A step that goes on to a stage without an event.
LEMMA MovesOn ==
    ASSUME ServerTypes, RequestInv, NEW r \in Requests,
           NEW stage \in DbStage \cup {"idle", "work", "answer"}, NEW next \in Request,
           Enter(r, stage, next), UNCHANGED event, request[r].stage # "answer",
           use[r].pc \in {"none", "ok", "failed"}, Passes([next EXCEPT !.stage = stage]),
           request[r].code # None => next.code = request[r].code,
           stage = "answer" => next.code = "INTERNAL"
    PROVE  Moves(r)
BY DEF ServerTypes, RequestInv, Moves

\* The answer to an exception nobody handles.
LEMMA UnhandledMoves ==
    ASSUME ServerTypes, RequestInv, NEW r \in Requests, Unhandled(r),
           request[r].stage \in {"session", "again", "csrf", "read", "work"},
           use[r].pc \in {"none", "ok", "failed"}
    PROVE  Moves(r)
<1> DEFINE next == Coded(r, "INTERNAL")
<1>1. request[r] \in Request /\ Passes(request[r]) /\ request[r].code = None
  BY DEF ServerTypes, RequestInv, Passes
<1>2. next \in Request /\ next.code = "INTERNAL" /\ Passes([next EXCEPT !.stage = "answer"])
  BY <1>1 DEF Coded, Request, Code, Passes
<1>3. Enter(r, "answer", next) /\ UNCHANGED event
  BY DEF Unhandled
<1> HIDE DEF next
<1>4. QED
  BY <1>1, <1>2, <1>3, MovesOn

\* A response of a handler, an exception handler or the middleware itself.
LEMMA RespondMoves ==
    ASSUME ServerTypes, RequestInv, NEW r \in Requests, NEW code \in Code, Respond(r, code),
           request[r].stage # "answer", use[r].pc \in {"none", "ok", "failed"},
           request[r].code # None => code = request[r].code,
           code \in {"OK", "FAILED"} =>
             "session" \in request[r].passed \/ request[r].route = "ready"
    PROVE  Moves(r)
<1> DEFINE next == Coded(r, code)
<1>1. request[r] \in Request
  BY DEF ServerTypes
<1>2. next \in Request /\ next.code = code /\ Passes([next EXCEPT !.stage = "audit"])
  BY <1>1 DEF Coded, Request, Passes
<1>3. Enter(r, "audit", next) /\ UNCHANGED event /\ "audit" \in DbStage
  BY DEF Respond, DbStage
<1> HIDE DEF next
<1>4. QED
  BY <1>2, <1>3, MovesOn

\* A request that arrives has passed nothing and has no code.
LEMMA ArriveMoves ==
    ASSUME ServerTypes, RequestInv, NEW r \in Requests, Arrive(r)
    PROVE  Moves(r)
<1>1. /\ request[r].stage = "idle" /\ UNCHANGED event
      /\ use[r] = NoUse /\ Passes(request[r]) /\ request[r].code = None
  BY Kinds DEF Arrive, RequestInv, Passes
<1>2. use[r].pc = "none"
  BY <1>1, Kinds
<1>3. PICK route \in Route :
        \/ route = "ready" /\ Enter(r, "ready", [NoRequest EXCEPT !.route = route])
        \/ route # "ready" /\ Enter(r, "session", [NoRequest EXCEPT !.route = route])
        \/ /\ route # "ready"
           /\ Enter(r, "audit", [[NoRequest EXCEPT !.route = route] EXCEPT !.code = "REFUSED"])
  BY DEF Arrive
<1> DEFINE new == [NoRequest EXCEPT !.route = route]
           refused == [new EXCEPT !.code = "REFUSED"]
<1>4. /\ new \in Request /\ refused \in Request
      /\ "ready" \in DbStage /\ "session" \in DbStage /\ "audit" \in DbStage
  BY Kinds DEF Request, Code, DbStage
<1>5. /\ route = "ready" => Passes([new EXCEPT !.stage = "ready"])
      /\ Passes([new EXCEPT !.stage = "session"]) /\ Passes([refused EXCEPT !.stage = "audit"])
  BY CodeAssumption DEF Passes, NoRequest, Code
<1> HIDE DEF new, refused
<1>6. CASE Enter(r, "ready", new) /\ route = "ready"
  BY <1>1, <1>2, <1>4, <1>5, <1>6, MovesOn
<1>7. CASE Enter(r, "session", new)
  BY <1>1, <1>2, <1>4, <1>5, <1>7, MovesOn
<1>8. CASE Enter(r, "audit", refused)
  BY <1>1, <1>2, <1>4, <1>5, <1>8, MovesOn
<1>9. QED
  BY <1>3, <1>6, <1>7, <1>8 DEF new, refused

\* The checks of the session let a request on only when they pass.
LEMMA CheckSessionMoves ==
    ASSUME ServerTypes, RequestInv, NEW r \in Requests, CheckSession(r)
    PROVE  Moves(r)
<1>1. /\ request[r].stage \in {"session", "again"} /\ use[r].pc \in {"ok", "failed"}
      /\ Respond(r, "REFUSED") \/ Admit(r, {"session"}) \/ Unhandled(r)
  BY DEF CheckSession, Ends
<1>2. request[r] \in Request /\ Passes(request[r]) /\ request[r].code = None
  BY <1>1 DEF ServerTypes, RequestInv, Passes
<1>3. CASE Respond(r, "REFUSED")
  BY <1>1, <1>2, <1>3, RespondMoves DEF Code
<1>4. CASE Unhandled(r)
  BY <1>1, <1>4, UnhandledMoves
<1>5. CASE Admit(r, {"session"})
  <2> DEFINE next == [request[r] EXCEPT !.passed = {"session"}]
  <2>1. next \in Request /\ next.code = None
    BY <1>2 DEF Request
  <2>2. PICK stage \in {"csrf", "again", "read"} : Enter(r, stage, next)
    BY <1>5 DEF Admit
  <2>3. Passes([next EXCEPT !.stage = stage])
    BY <1>2, <2>1, <2>2, CodeAssumption DEF Passes, Code, Request
  <2>4. stage \in DbStage /\ stage # "answer" /\ UNCHANGED event
    BY <1>5 DEF DbStage, Admit
  <2> HIDE DEF next
  <2>5. QED
    BY <1>1, <1>2, <2>1, <2>2, <2>3, <2>4, MovesOn
<1>6. QED
  BY <1>1, <1>3, <1>4, <1>5

\* The check of the CSRF token lets a request work only when it passes.
LEMMA CheckCsrfMoves ==
    ASSUME ServerTypes, RequestInv, NEW r \in Requests, CheckCsrf(r)
    PROVE  Moves(r)
<1> DEFINE next == [request[r] EXCEPT !.passed = @ \cup {"csrf"}]
<1>1. /\ request[r].stage = "csrf" /\ use[r].pc \in {"ok", "failed"}
      /\ \/ Respond(r, "REFUSED") \/ Unhandled(r)
         \/ Enter(r, "work", next) /\ UNCHANGED event
  BY DEF CheckCsrf, Ends
<1>2. /\ request[r] \in Request /\ Passes(request[r]) /\ request[r].code = None
      /\ request[r].passed = {"session"}
  BY <1>1 DEF ServerTypes, RequestInv, Passes
<1>3. CASE Respond(r, "REFUSED")
  BY <1>1, <1>2, <1>3, RespondMoves DEF Code
<1>4. CASE Unhandled(r)
  BY <1>1, <1>4, UnhandledMoves
<1>5. CASE Enter(r, "work", next) /\ UNCHANGED event
  <2>1. /\ next \in Request /\ next.passed = {"session", "csrf"} /\ next.code = None
        /\ Passes([next EXCEPT !.stage = "work"])
    BY <1>2, CodeAssumption DEF Request, Passes, Code
  <2> HIDE DEF next
  <2>2. QED
    BY <1>1, <1>2, <1>5, <2>1, MovesOn
<1>6. QED
  BY <1>1, <1>3, <1>4, <1>5

\* A diagnosis gets a code after both checks.
LEMMA WorkMoves ==
    ASSUME ServerTypes, RequestInv, NEW r \in Requests, Work(r)
    PROVE  Moves(r)
<1>1. /\ request[r].stage = "work" /\ use[r].pc = "none"
      /\ request[r] \in Request /\ Passes(request[r]) /\ request[r].code = None
      /\ request[r].passed = {"session", "csrf"}
  BY Kinds DEF Work, ServerTypes, RequestInv, Passes
<1>2. CASE Unhandled(r)
  BY <1>1, <1>2, UnhandledMoves
<1>3. ASSUME NEW code \in {"OK", "FAILED"}, Enter(r, "store", Coded(r, code)), UNCHANGED event
      PROVE  Moves(r)
  <2> DEFINE next == Coded(r, code)
  <2>1. /\ next \in Request /\ Passes([next EXCEPT !.stage = "store"]) /\ "store" \in DbStage
    BY <1>1 DEF Coded, Request, Code, Passes, DbStage
  <2> HIDE DEF next
  <2>2. QED
    BY <1>1, <1>3, <2>1, MovesOn DEF next
<1>4. QED
  BY <1>2, <1>3 DEF Work

\* Storing leaves the code alone, whatever the database does.
LEMMA StoreMoves ==
    ASSUME ServerTypes, RequestInv, NEW r \in Requests, Store(r)
    PROVE  Moves(r)
<1>1. /\ request[r].stage = "store" /\ use[r].pc \in {"ok", "failed"}
      /\ Respond(r, request[r].code)
      /\ request[r].passed = {"session", "csrf"} /\ request[r].code \in Code \cup {None}
  BY DEF Store, Ends, ServerTypes, RequestInv, Passes, Request
<1>2. CASE request[r].code \in Code
  BY <1>1, <1>2, RespondMoves
<1>3. CASE request[r].code = None
  <2> DEFINE next == Coded(r, None)
  <2>1. /\ next \in Request /\ Passes([next EXCEPT !.stage = "audit"]) /\ "audit" \in DbStage
    BY <1>1, CodeAssumption DEF Coded, Request, Code, Passes, DbStage, ServerTypes
  <2>2. Enter(r, "audit", next) /\ UNCHANGED event
    BY <1>1, <1>3 DEF Respond
  <2> HIDE DEF next
  <2>3. QED
    BY <1>1, <1>3, <2>1, <2>2, MovesOn
<1>4. QED
  BY <1>1, <1>2, <1>3

\* The history answers a request whose session is checked; /health/ready asks for no session.
LEMMA ReadMoves ==
    ASSUME ServerTypes, RequestInv, NEW r \in Requests, ReadHistory(r) \/ Ready(r)
    PROVE  Moves(r)
<1>1. /\ request[r].stage \in {"read", "ready"} /\ use[r].pc \in {"ok", "failed"}
      /\ \/ \E code \in {"OK", "REFUSED", "NOT_READY"} : Respond(r, code)
         \/ Unhandled(r) /\ request[r].stage = "read"
  BY DEF ReadHistory, Ready, Ends
<1>2. /\ request[r].code = None
      /\ "session" \in request[r].passed \/ request[r].route = "ready"
  BY <1>1 DEF RequestInv, Passes
<1>3. ASSUME NEW code \in {"OK", "REFUSED", "NOT_READY"}, Respond(r, code) PROVE Moves(r)
  BY <1>1, <1>2, <1>3, RespondMoves DEF Code
<1>4. QED
  BY <1>1, <1>3, UnhandledMoves

\* The audit leaves the code of the answer, or nothing when the database fails.
LEMMA AuditMoves ==
    ASSUME ServerTypes, RequestInv, NEW r \in Requests, Audit(r)
    PROVE  Moves(r)
<1> DEFINE q == request[r]
<1>1. /\ q.stage = "audit" /\ use[r].pc \in {"ok", "failed"}
      /\ event' = IF use[r].pc = "ok" THEN [event EXCEPT ![r] = q.code] ELSE event
      /\ Enter(r, "answer", q)
  BY DEF Audit, Ends
<1>2. /\ q \in Request /\ q.code \in Code \cup {None} /\ Passes(q) /\ event[r] = None
      /\ event \in [Requests -> Code \cup {None}]
  BY <1>1 DEF ServerTypes, RequestInv, Request
<1>3. Passes([q EXCEPT !.stage = "answer"])
  BY <1>2 DEF Passes, Request
<1>4. /\ event' \in [Requests -> Code \cup {None}]
      /\ \A x \in Requests \ {r} : event'[x] = event[x]
      /\ event'[r] = q.code \/ (event'[r] = None /\ use[r].pc = "failed")
  BY <1>1, <1>2
<1>5. q.code = request[r].code
  OBVIOUS
<1> DEFINE stage == "answer"
<1>6. /\ stage \in DbStage \cup {"idle", "work", "answer"} /\ stage # "idle"
      /\ stage = "answer" /\ Enter(r, stage, q) /\ Passes([q EXCEPT !.stage = stage])
  BY <1>1, <1>3
<1> HIDE DEF q, stage
<1>7. QED
  BY <1>1, <1>2, <1>4, <1>5, <1>6 DEF Moves

\* A request that is answered leaves nothing.
LEMMA AnswerMoves ==
    ASSUME ServerTypes, RequestInv, NEW r \in Requests, Answer(r)
    PROVE  Moves(r)
<1>1. /\ request[r].stage = "answer" /\ use[r] = NoUse
      /\ Enter(r, "idle", NoRequest) /\ event' = [event EXCEPT ![r] = None]
  BY Kinds DEF Answer, RequestInv
<1>2. use[r].pc = "none"
  BY <1>1, Kinds
<1>3. NoRequest \in Request /\ Passes([NoRequest EXCEPT !.stage = "idle"])
  BY Kinds DEF Passes, NoRequest
<1>4. /\ event' \in [Requests -> Code \cup {None}] /\ event'[r] = None
      /\ \A x \in Requests \ {r} : event'[x] = event[x]
  BY <1>1 DEF ServerTypes
<1> DEFINE stage == "idle"
           next == NoRequest
<1>5. /\ stage \in DbStage \cup {"idle", "work", "answer"} /\ stage = "idle"
      /\ stage # "answer" /\ next \in Request /\ Enter(r, stage, next)
      /\ Passes([next EXCEPT !.stage = stage])
  BY <1>1, <1>3
<1> HIDE DEF stage, next
<1>6. QED
  BY <1>2, <1>4, <1>5 DEF Moves

\* A step of a request moves it on, or is one of its use of a pool.
LEMMA StepMoves ==
    ASSUME ServerTypes, RequestInv, NEW r \in Requests, Call(r) \/ Serve(r)
    PROVE  Moves(r) \/ (PoolStep(r) /\ UNCHANGED <<request, event>>)
BY ArriveMoves, CheckSessionMoves, CheckCsrfMoves, WorkMoves, StoreMoves, ReadMoves,
   AuditMoves, AnswerMoves
DEF Call, Serve, RequestStep

-----------------------------------------------------------------------------
(* What moving on keeps *)

\* The types, the requests and the pools are as they should be after a request moves on.
LEMMA MovesInv ==
    ASSUME ServerInv, server = "up", server' = server, NEW r \in Requests, Moves(r)
    PROVE  ServerInv'
<1>1. PICK stage \in DbStage \cup {"idle", "work", "answer"}, next \in Request :
        /\ Enter(r, stage, next)
        /\ use[r].pc \in {"none", "ok", "failed"}
        /\ Passes([next EXCEPT !.stage = stage])
        /\ event' \in [Requests -> Code \cup {None}]
        /\ \A x \in Requests \ {r} : event'[x] = event[x]
        /\ stage # "answer" => event'[r] = None
  BY DEF Moves
<1> DEFINE q == [next EXCEPT !.stage = stage]
<1>2. q.stage = stage
  BY DEF Request
<1>3. /\ request' \in [Requests -> Request] /\ use' \in [Requests -> Use]
      /\ request'[r] = q
      /\ use'[r].pc \in {"none", "ask"} /\ (stage \notin DbStage => use'[r] = NoUse)
      /\ \A x \in Requests \ {r} : request'[x] = request[x] /\ use'[x] = use[x]
      /\ UNCHANGED <<pool, free>>
  BY <1>1, EnterEffect DEF ServerInv
<1>4. Passes(q)
  BY <1>1
<1> HIDE DEF q
<1>5. ServerTypes'
  BY <1>1, <1>3 DEF ServerInv, ServerTypes, PoolTypeOK
<1>6. ASSUME NEW x \in Requests
      PROVE  /\ Passes(request'[x])
             /\ request'[x].stage \notin DbStage => use'[x] = NoUse
             /\ request'[x].stage # "answer" => event'[x] = None
  <2>1. CASE x = r
    BY <1>1, <1>2, <1>3, <1>4, <2>1
  <2>2. CASE x # r
    BY <1>1, <1>3, <2>2 DEF ServerInv, RequestInv
  <2>3. QED
    BY <2>1, <2>2
<1>7. RequestInv'
  BY <1>6 DEF RequestInv, Passes
<1>8. PoolInv'
  BY <1>3 DEF ServerInv, PoolInv, Open
<1>9. ASSUME NEW p \in Requests PROVE Returned(p)'
  <2>1. Holding(p)' = Holding(p)
    BY <1>1, <1>3 DEF Holding
  <2>2. QED
    BY <1>3, <2>1 DEF ServerInv, Returned
<1>10. DownInv'
  BY DEF DownInv
<1>11. QED
  BY <1>5, <1>7, <1>8, <1>9, <1>10 DEF ServerInv

-----------------------------------------------------------------------------
(* The pools *)

\* A request that turns to another use of the database leaves the other requests' alone.
LEMMA SetUseEffect ==
    ASSUME ServerTypes, NEW r \in Requests, NEW p \in Requests \cup {None},
           NEW pc \in {"ask", "create", "acquire", "hold", "ok", "failed"}, SetUse(r, pc, p)
    PROVE  /\ use' \in [Requests -> Use] /\ use'[r].pc = pc /\ use'[r].pool = p
           /\ \A x \in Requests \ {r} : use'[x] = use[x]
<1> DEFINE u == [pc |-> pc, pool |-> p]
<1>1. u \in Use /\ u.pc = pc /\ u.pool = p
  BY DEF Use
<1>2. use' = [use EXCEPT ![r] = u] /\ use \in [Requests -> Use]
  BY DEF SetUse, ServerTypes, PoolTypeOK
<1> HIDE DEF u
<1>3. QED
  BY <1>1, <1>2

\* What a step of a request in a pool keeps: it is enough that the pools and who holds their
\* connections are as they should be.
LEMMA PoolStepInv ==
    ASSUME ServerInv, server = "up", server' = server, NEW r \in Requests,
           use[r].pc # "none", UNCHANGED <<request, event>>,
           \A x \in Requests \ {r} : use'[x] = use[x],
           PoolTypeOK', PoolInv', \A p \in Requests : Returned(p)'
    PROVE  ServerInv'
<1>1. request[r].stage \in DbStage
  BY Kinds DEF ServerInv, RequestInv
<1>2. RequestInv'
  BY <1>1 DEF ServerInv, RequestInv, Passes
<1>3. ServerTypes' /\ DownInv'
  BY DEF ServerInv, ServerTypes, DownInv
<1>4. QED
  BY <1>2, <1>3 DEF ServerInv

\* What a request that neither takes nor returns a connection keeps.
LEMMA SameHolders ==
    ASSUME ServerInv, NEW r \in Requests, use[r].pc # "hold", use'[r].pc # "hold",
           \A x \in Requests \ {r} : use'[x] = use[x], NEW p \in Requests, free'[p] = free[p]
    PROVE  Returned(p)'
<1>1. Holding(p)' = Holding(p)
  BY DEF Holding
<1>2. QED
  BY <1>1 DEF ServerInv, Returned

\* get_pool finds the pool, or sets out to make one.
LEMMA GetPoolInv ==
    ASSUME ServerInv, server = "up", server' = server, NEW r \in Requests, GetPool(r),
           UNCHANGED <<request, event>>
    PROVE  ServerInv'
<1>1. /\ use[r].pc = "ask" /\ UNCHANGED <<pool, free>> /\ pool \in Requests \cup {None}
      /\ \/ SetUse(r, "create", None) /\ pool = None
         \/ SetUse(r, "acquire", pool) /\ pool # None
  BY DEF GetPool, ServerInv, ServerTypes, PoolTypeOK
<1>2. PICK pc \in {"create", "acquire"}, p \in Requests \cup {None} :
        SetUse(r, pc, p) /\ (pc = "create" => pool = None) /\ (pc = "acquire" => p = pool /\ pool # None)
  BY <1>1
<1>3. /\ use' \in [Requests -> Use] /\ use'[r].pc = pc /\ use'[r].pool = p
      /\ \A x \in Requests \ {r} : use'[x] = use[x]
  BY <1>2, SetUseEffect DEF ServerInv
<1>4. PoolTypeOK'
  BY <1>1, <1>3 DEF ServerInv, ServerTypes, PoolTypeOK
<1>5. PoolInv'
  BY <1>1, <1>2, <1>3 DEF ServerInv, PoolInv, Open
<1>6. \A x \in Requests : Returned(x)'
  BY <1>1, <1>3, SameHolders
<1>7. QED
  BY <1>1, <1>3, <1>4, <1>5, <1>6, PoolStepInv

\* The new pool is full, and is not one that has been open.
LEMMA CreatePoolInv ==
    ASSUME ServerInv, server = "up", server' = server, NEW r \in Requests, CreatePool(r),
           UNCHANGED <<request, event>>
    PROVE  ServerInv'
<1> USE PoolAssumption
<1>1. /\ use[r].pc = "create" /\ pool' = r /\ free' = [free EXCEPT ![r] = PoolSize]
      /\ SetUse(r, "acquire", r) /\ free[r] = None
      /\ free \in [Requests -> (0 .. PoolSize) \cup {None}]
  BY DEF CreatePool, ServerInv, ServerTypes, PoolTypeOK, PoolInv
<1>2. /\ use' \in [Requests -> Use] /\ use'[r].pc = "acquire" /\ use'[r].pool = r
      /\ \A x \in Requests \ {r} : use'[x] = use[x]
  BY <1>1, SetUseEffect DEF ServerInv
<1>3. /\ free' \in [Requests -> (0 .. PoolSize) \cup {None}]
      /\ free'[r] = PoolSize /\ PoolSize # None
      /\ \A x \in Requests \ {r} : free'[x] = free[x]
  BY <1>1
<1>4. PoolTypeOK'
  BY <1>1, <1>2, <1>3 DEF PoolTypeOK
<1>5. PoolInv'
  BY <1>1, <1>2, <1>3 DEF ServerInv, PoolInv, Open
<1>6. ASSUME NEW x \in Requests PROVE Returned(x)'
  <2>1. CASE x = r
    <3>1. Holding(r) = {}
      BY <1>1 DEF ServerInv, Returned
    <3>2. Holding(r)' = {}
      BY <1>2, <3>1 DEF Holding
    <3>3. IsFiniteSet({}) /\ Cardinality({}) = 0
      BY FS_EmptySet
    <3>4. QED
      BY <1>3, <2>1, <3>2, <3>3 DEF Returned
  <2>2. CASE x # r
    BY <1>1, <1>2, <1>3, <2>2, SameHolders
  <2>3. QED
    BY <2>1, <2>2
<1>7. QED
  BY <1>1, <1>2, <1>4, <1>5, <1>6, PoolStepInv

\* Who takes a connection holds it.
LEMMA AcquireInv ==
    ASSUME ServerInv, server = "up", server' = server, NEW r \in Requests, Acquire(r),
           UNCHANGED <<request, event>>
    PROVE  ServerInv'
<1> USE PoolAssumption
<1>1. PICK p \in Requests :
      /\ p = use[r].pool
      /\ use[r].pc = "acquire" /\ free[p] # None /\ free[p] # 0
      /\ free' = [free EXCEPT ![p] = @ - 1] /\ pool' = pool
      /\ SetUse(r, "hold", p)
      /\ free \in [Requests -> (0 .. PoolSize) \cup {None}] /\ Returned(p)
  BY DEF Acquire, ServerInv, ServerTypes, PoolTypeOK, PoolInv, Open
<1>2. /\ use' \in [Requests -> Use] /\ use'[r].pc = "hold" /\ use'[r].pool = p
      /\ \A x \in Requests \ {r} : use'[x] = use[x]
  BY <1>1, SetUseEffect DEF ServerInv
<1>3. /\ free' \in [Requests -> (0 .. PoolSize) \cup {None}]
      /\ free[p] \in 1 .. PoolSize /\ free'[p] = free[p] - 1 /\ free'[p] # None
      /\ \A x \in Requests \ {p} : free'[x] = free[x]
  BY <1>1
<1>4. PoolTypeOK'
  BY <1>1, <1>2, <1>3 DEF ServerInv, ServerTypes, PoolTypeOK
<1>5. PoolInv'
  BY <1>1, <1>2, <1>3 DEF ServerInv, PoolInv, Open
<1>6. ASSUME NEW x \in Requests PROVE Returned(x)'
  <2>1. CASE x = p
    <3>1. Holding(p)' = Holding(p) \cup {r} /\ r \notin Holding(p)
      BY <1>1, <1>2 DEF Holding
    <3>2. IsFiniteSet(Holding(p)) /\ free[p] + Cardinality(Holding(p)) = PoolSize
      BY <1>1 DEF Returned
    <3>3. /\ IsFiniteSet(Holding(p)') /\ Cardinality(Holding(p)) \in Nat
          /\ Cardinality(Holding(p)') = Cardinality(Holding(p)) + 1
      BY <3>1, <3>2, FS_AddElement, FS_CardinalityType
    <3>4. free'[p] + Cardinality(Holding(p)') = PoolSize
      BY <1>3, <3>2, <3>3
    <3>5. QED
      BY <1>3, <2>1, <3>3, <3>4 DEF Returned
  <2>2. CASE x # p
    <3>1. Holding(x)' = Holding(x)
      BY <1>1, <1>2, <2>2 DEF Holding
    <3>2. QED
      BY <1>3, <2>2, <3>1 DEF ServerInv, Returned
  <2>3. QED
    BY <2>1, <2>2
<1>7. QED
  BY <1>1, <1>2, <1>4, <1>5, <1>6, PoolStepInv

\* Who leaves gives the connection back to the pool it came from.
LEMMA LeaveInv ==
    ASSUME ServerInv, server = "up", server' = server, NEW r \in Requests,
           NEW pc \in {"ok", "failed"}, Leave(r, pc), UNCHANGED <<request, event>>
    PROVE  ServerInv'
<1> USE PoolAssumption
<1>1. PICK p \in Requests :
      /\ p = use[r].pool
      /\ use[r].pc = "hold" /\ free[p] # None
      /\ free' = [free EXCEPT ![p] = @ + 1] /\ pool' = pool
      /\ SetUse(r, pc, None)
      /\ free \in [Requests -> (0 .. PoolSize) \cup {None}] /\ Returned(p)
  BY DEF Leave, ServerInv, ServerTypes, PoolTypeOK, PoolInv, Open
<1>2. r \in Holding(p)
  BY <1>1 DEF Holding
<1>3. /\ use' \in [Requests -> Use] /\ use'[r].pc = pc /\ use'[r].pool = None
      /\ \A x \in Requests \ {r} : use'[x] = use[x]
  BY <1>1, SetUseEffect DEF ServerInv
<1>4. IsFiniteSet(Holding(p)) /\ free[p] + Cardinality(Holding(p)) = PoolSize
  BY <1>1 DEF Returned
<1>5. Holding(p)' = Holding(p) \ {r}
  BY <1>3 DEF Holding
<1>6. /\ IsFiniteSet(Holding(p)') /\ Cardinality(Holding(p)) \in Nat
      /\ Cardinality(Holding(p)') = Cardinality(Holding(p)) - 1
      /\ Cardinality(Holding(p)') \in Nat
  BY <1>2, <1>4, <1>5, FS_RemoveElement, FS_CardinalityType
<1>7. free[p] \in 0 .. PoolSize /\ free[p] + 1 \in 0 .. PoolSize
  BY <1>1, <1>4, <1>6
<1>8. /\ free' \in [Requests -> (0 .. PoolSize) \cup {None}]
      /\ free'[p] = free[p] + 1 /\ free'[p] # None
      /\ \A x \in Requests \ {p} : free'[x] = free[x]
  BY <1>1, <1>7
<1>9. PoolTypeOK'
  BY <1>1, <1>3, <1>8 DEF ServerInv, ServerTypes, PoolTypeOK
<1>10. PoolInv'
  BY <1>1, <1>3, <1>8 DEF ServerInv, PoolInv, Open
<1>11. ASSUME NEW x \in Requests PROVE Returned(x)'
  <2>1. CASE x = p
    <3>1. free'[p] + Cardinality(Holding(p)') = PoolSize
      BY <1>4, <1>6, <1>7, <1>8
    <3>2. QED
      BY <1>6, <1>8, <2>1, <3>1 DEF Returned
  <2>2. CASE x # p
    <3>1. Holding(x)' = Holding(x)
      BY <1>1, <1>3, <2>2 DEF Holding
    <3>2. QED
      BY <1>8, <2>2, <3>1 DEF ServerInv, Returned
  <2>3. QED
    BY <2>1, <2>2
<1>12. QED
  BY <1>1, <1>3, <1>9, <1>10, <1>11, PoolStepInv

\* Every step in a pool keeps the invariant.
LEMMA PoolKept ==
    ASSUME ServerInv, server = "up", server' = server, NEW r \in Requests, PoolStep(r),
           UNCHANGED <<request, event>>
    PROVE  ServerInv'
<1>1. CASE DatabaseFails(r) /\ ~Leave(r, "failed")
  <2>1. /\ use[r].pc \in {"create", "acquire"} /\ SetUse(r, "failed", None)
        /\ UNCHANGED <<pool, free>>
    BY <1>1 DEF DatabaseFails
  <2>2. /\ use' \in [Requests -> Use] /\ use'[r].pc = "failed"
        /\ \A x \in Requests \ {r} : use'[x] = use[x]
    BY <2>1, SetUseEffect DEF ServerInv
  <2>3. PoolTypeOK' /\ PoolInv'
    BY <2>1, <2>2 DEF ServerInv, ServerTypes, PoolTypeOK, PoolInv, Open
  <2>4. \A p \in Requests : Returned(p)'
    BY <2>1, <2>2, SameHolders
  <2>5. QED
    BY <2>1, <2>2, <2>3, <2>4, PoolStepInv
<1>2. QED
  BY <1>1, GetPoolInv, CreatePoolInv, AcquireInv, LeaveInv DEF PoolStep, DatabaseFails

-----------------------------------------------------------------------------
(* The server *)

\* A server that is down has nothing, and one that starts, stops or crashes keeps nothing.
LEMMA NothingInMemory ==
    ASSUME pool = None, free = [p \in Requests |-> None], use = [r \in Requests |-> NoUse],
           request = [r \in Requests |-> NoRequest], event = [r \in Requests |-> None],
           server = "down"
    PROVE  ServerInv
<1>1. ServerTypes
  BY Kinds DEF ServerTypes, PoolTypeOK
<1>2. RequestInv
  BY Kinds DEF RequestInv
<1>3. PoolInv /\ DownInv
  BY Kinds DEF PoolInv, DownInv
<1>4. ASSUME NEW p \in Requests PROVE Returned(p)
  <2>1. Holding(p) = {} /\ IsFiniteSet({})
    BY Kinds, FS_EmptySet DEF Holding
  <2>2. QED
    BY <2>1 DEF Returned
<1>5. QED
  BY <1>1, <1>2, <1>3, <1>4 DEF ServerInv

\* A request that is idle uses no pool.
LEMMA Idle ==
    ASSUME ServerInv, NEW r \in Requests, request[r].stage = "idle"
    PROVE  use[r] = NoUse /\ use[r].pc = "none"
BY Kinds DEF ServerInv, RequestInv

\* The server starts with nothing, and stops when its requests are answered.
LEMMA StartStopInv ==
    ASSUME ServerInv, Start \/ Stop
    PROVE  ServerInv'
<1>1. CASE Start
  <2>1. server' = "up" /\ UNCHANGED <<pool, free, use, request, event>> /\ server = "down"
    BY <1>1 DEF Start, serverVars
  <2>2. ServerTypes' /\ RequestInv' /\ DownInv'
    BY <2>1 DEF ServerInv, ServerTypes, PoolTypeOK, RequestInv, Passes, DownInv
  <2>3. PoolInv'
    BY <2>1 DEF ServerInv, PoolInv, DownInv, Open
  <2>4. \A p \in Requests : Returned(p)'
    BY <2>1 DEF ServerInv, Returned, Holding
  <2>5. QED
    BY <2>2, <2>3, <2>4 DEF ServerInv
<1>2. CASE Stop
  <2>1. /\ server = "up" /\ \A r \in Requests : request[r].stage = "idle"
        /\ pool' = None /\ free' = [p \in Requests |-> IF p = pool THEN None ELSE free[p]]
        /\ server' = "closed" /\ UNCHANGED <<use, request, event>>
    BY <1>2 DEF Stop, Dispose
  <2>2. \A r \in Requests : use[r].pc = "none"
    BY <2>1, Idle
  <2>3. ServerTypes' /\ RequestInv' /\ DownInv'
    BY <2>1 DEF ServerInv, ServerTypes, PoolTypeOK, RequestInv, Passes, DownInv
  <2>4. PoolInv'
    BY <2>1, <2>2 DEF PoolInv
  <2>5. ASSUME NEW p \in Requests PROVE Returned(p)'
    <3>1. Holding(p) = {} /\ Holding(p)' = {}
      BY <2>1, <2>2 DEF Holding
    <3>2. free'[p] \in {None, free[p]}
      BY <2>1
    <3>3. QED
      BY <3>1, <3>2 DEF ServerInv, Returned
  <2>6. QED
    BY <2>3, <2>4, <2>5 DEF ServerInv
<1>3. QED
  BY <1>1, <1>2

\* At the start the server is down.
LEMMA ServerInit == Init => ServerInv
BY NothingInMemory DEF Init, InitServer, InitPool

\* Every step of the deployment keeps the invariant of the server.
LEMMA ServerStep == ServerInv /\ [Next]_vars => ServerInv'
<1> SUFFICES ASSUME ServerInv, [Next]_vars PROVE ServerInv'
  OBVIOUS
<1>1. ASSUME NEW r \in Requests, Call(r) \/ Serve(r) PROVE ServerInv'
  <2>1. server = "up" /\ server' = server
    BY <1>1 DEF Call, Serve
  <2>2. Moves(r) \/ (PoolStep(r) /\ UNCHANGED <<request, event>>)
    BY <1>1, StepMoves DEF ServerInv
  <2>3. QED
    BY <2>1, <2>2, MovesInv, PoolKept
<1>2. CASE End
  <2>1. /\ (pool = None)' /\ (free = [p \in Requests |-> None])'
        /\ (use = [r \in Requests |-> NoUse])' /\ (request = [r \in Requests |-> NoRequest])'
        /\ (event = [r \in Requests |-> None])' /\ (server = "down")'
    BY <1>2 DEF End
  <2>2. QED
    BY <2>1, NothingInMemory, PTL
<1>3. ASSUME UNCHANGED <<serverVars, server>> PROVE ServerInv'
  BY <1>3 DEF serverVars, ServerInv, ServerTypes, PoolTypeOK, RequestInv, Passes, PoolInv, Open,
              Returned, Holding, DownInv
<1>4. ASSUME NEW m \in Migrators, Migrate(m) PROVE ServerInv'
  BY <1>3, <1>4 DEF Migrate
<1>5. CASE UNCHANGED vars
  BY <1>3, <1>5 DEF vars, serverVars
<1>6. QED
  BY <1>1, <1>2, <1>4, <1>5, StartStopInv DEF Next

\* What a step does to one request: nothing, a step of its own, or the end of the server.
LEMMA OneRequest ==
    ASSUME ServerInv, [Next]_vars, NEW r \in Requests
    PROVE  \/ request'[r] = request[r] /\ event'[r] = event[r]
           \/ Moves(r) /\ ServerTypes
           \/ request'[r].stage = "idle"
<1>1. ASSUME NEW x \in Requests, Call(x) \/ Serve(x)
      PROVE  \/ request'[r] = request[r] /\ event'[r] = event[r]
             \/ Moves(r) /\ ServerTypes
  <2>1. Moves(x) \/ (PoolStep(x) /\ UNCHANGED <<request, event>>)
    BY <1>1, StepMoves DEF ServerInv
  <2>2. CASE x # r /\ Moves(x)
    <3>1. PICK stage \in DbStage \cup {"idle", "work", "answer"}, next \in Request :
            Enter(x, stage, next) /\ \A y \in Requests \ {x} : event'[y] = event[y]
      BY <2>2 DEF Moves
    <3>2. \A y \in Requests \ {x} : request'[y] = request[y]
      BY <3>1, EnterEffect DEF ServerInv
    <3>3. QED
      BY <2>2, <3>1, <3>2
  <2>3. QED
    BY <2>1, <2>2 DEF ServerInv
<1>2. CASE End
  BY <1>2, Kinds DEF End
<1>3. CASE Start \/ Stop \/ (\E m \in Migrators : Migrate(m)) \/ UNCHANGED vars
  BY <1>3 DEF Start, Stop, Migrate, serverVars, vars
<1>4. QED
  BY <1>1, <1>2, <1>3 DEF Next

\* What moving on does to the request's stage and code.
LEMMA MovesEffect ==
    ASSUME ServerTypes, NEW r \in Requests, Moves(r)
    PROVE  /\ request[r].code # None /\ request'[r].stage # "idle"
                => request'[r].code = request[r].code
           /\ request'[r].stage = "answer" =>
                \/ event'[r] = request'[r].code
                \/ /\ event'[r] = None
                   /\ request'[r].code = "INTERNAL" \/ use[r].pc = "failed"
<1>1. PICK stage \in DbStage \cup {"idle", "work", "answer"}, next \in Request :
        /\ Enter(r, stage, next)
        /\ request[r].code # None /\ stage # "idle" => next.code = request[r].code
        /\ stage = "answer" =>
             \/ event'[r] = next.code
             \/ event'[r] = None /\ (next.code = "INTERNAL" \/ use[r].pc = "failed")
  BY DEF Moves
<1>2. request'[r] = [next EXCEPT !.stage = stage]
  BY <1>1, EnterEffect
<1>3. request'[r].stage = stage /\ request'[r].code = next.code
  BY <1>2 DEF Request
<1>4. QED
  BY <1>1, <1>3

-----------------------------------------------------------------------------
(* The theorems of the server *)

\* The inductive invariant holds whatever the requests, the database and the processes do.
THEOREM ServerInvariance == Spec => []ServerInv
BY ServerInit, ServerStep, PTL DEF Spec

\* The pool, the requests, the migrations and the server have the shape the code gives them.
THEOREM DeploymentTypeCorrect == Spec => []TypeOK
<1>1. ServerInv /\ MigrationsTypeOK => TypeOK
  BY DEF ServerInv, ServerTypes, TypeOK
<1>2. QED
  BY <1>1, ServerInvariance, DeployedTypes, PTL

\* Every connection is back in the pool it was taken from, whichever pool is stored by then
\* and however the statements end (session.py:14-27).
THEOREM ConnectionsComeBack == Spec => []ConnectionsReturned
<1>1. ServerInv => ConnectionsReturned
  BY DEF ServerInv, Returned, ConnectionsReturned
<1>2. QED
  BY <1>1, ServerInvariance, PTL

\* Where the database fails, nobody gets past the checks
\* (authentication-account-spec.md:874).
THEOREM ChecksHold == Spec => []NobodyUnchecked
<1>1. ServerInv => NobodyUnchecked
  BY DEF ServerInv, RequestInv, Passes, NobodyUnchecked
<1>2. QED
  BY <1>1, ServerInvariance, PTL

\* Neither the history nor the audit changes a result that is known (audit.py:39,
\* persistence.py:104).
THEOREM ResultsStand == Spec => FailOpen
<1>1. ASSUME ServerInv, [Next]_vars, NEW r \in Requests,
             request[r].code # None, request'[r].stage # "idle"
      PROVE  request'[r].code = request[r].code
  BY <1>1, OneRequest, MovesEffect
<1>2. ServerInv /\ [Next]_vars =>
        [\A r \in Requests : request[r].code # None /\ request'[r].stage # "idle"
           => request'[r].code = request[r].code]_vars
  BY <1>1
<1>3. QED
  BY <1>2, ServerInvariance, PTL DEF Spec, FailOpen

\* Every answer leaves an event that agrees with it, unless it is an unhandled exception or
\* the database fails (logging-spec.md:107).
THEOREM AnswersLeaveEvents == Spec => AnswersAudited
<1>1. ASSUME ServerInv, [Next]_vars, NEW r \in Requests,
             request[r].stage # "answer", request'[r].stage = "answer"
      PROVE  \/ event'[r] = request'[r].code
             \/ event'[r] = None /\ (request'[r].code = "INTERNAL" \/ use[r].pc = "failed")
  BY <1>1, OneRequest, MovesEffect
<1>2. ServerInv /\ [Next]_vars =>
        [\A r \in Requests : request[r].stage # "answer" /\ request'[r].stage = "answer"
           => \/ event'[r] = request'[r].code
              \/ event'[r] = None /\ (request'[r].code = "INTERNAL" \/ use[r].pc = "failed")]_vars
  BY <1>1
<1>3. QED
  BY <1>2, ServerInvariance, PTL DEF Spec, AnswersAudited
=============================================================================
