------------------------------ MODULE Deployment ------------------------------
(***************************************************************************)
(* The server and the processes that migrate, over one database. The       *)
(* server never migrates (postgresql-database-spec.md:592), and it starts  *)
(* on whatever schema there is; what it keeps in memory goes when it stops *)
(* or crashes, what is committed stays.                                    *)
(* Bound: nobody migrates while the server runs, as the guides have it.    *)
(***************************************************************************)
EXTENDS Middleware, Migrations

VARIABLE server         \* whether the process of the server runs

vars == <<pool, free, use, request, event, table, versions, changes, migrator, server>>

Init == InitServer /\ InitMigrations /\ server = "down"

\* Every table the server uses comes with the first script; "SELECT 1" needs none.
Answerable(r) == 1 \in versions \/ request[r].stage = "ready"

Start ==
    /\ server = "down" /\ \A m \in Migrators : migrator[m].pc = "idle"
    /\ server' = "up"
    /\ UNCHANGED <<serverVars, migrationVars>>

Call(r) == server = "up" /\ Arrive(r) /\ UNCHANGED <<migrationVars, server>>

Serve(r) ==
    /\ server = "up"
    /\ RequestStep(r)
    /\ use[r].pc = "hold" /\ use'[r].pc = "ok" => Answerable(r)
    /\ UNCHANGED <<migrationVars, server>>

\* lifespan, once the requests are answered
Stop ==
    /\ server = "up" /\ \A r \in Requests : request[r].stage = "idle"
    /\ Dispose
    /\ server' = "closed"
    /\ UNCHANGED <<use, request, event, migrationVars>>

\* The process ends, or crashes, with what it has in memory.
End ==
    /\ server \in {"up", "closed"}
    /\ server' = "down"
    /\ pool' = None /\ free' = [p \in Requests |-> None] /\ use' = [r \in Requests |-> NoUse]
    /\ request' = [r \in Requests |-> NoRequest] /\ event' = [r \in Requests |-> None]
    /\ UNCHANGED migrationVars

Migrate(m) ==
    /\ server = "down"
    /\ StartMigrator(m) \/ MigrationStep(m)
    /\ UNCHANGED <<serverVars, server>>

Next ==
    \/ Start \/ Stop \/ End
    \/ \E r \in Requests : Call(r) \/ Serve(r)
    \/ \E m \in Migrators : Migrate(m)

Spec == Init /\ [][Next]_vars

\* The event loop runs whatever can run, and statements have a timeout; nothing obliges a
\* client to call. asyncpg wakes who waits longest, but who comes at that moment may take
\* the connection first: a request that waits for one is not promised that it gets it.
Fairness == \A r \in Requests : WF_vars(Serve(r))

FairSpec == Spec /\ Fairness

-----------------------------------------------------------------------------
(* Properties *)

TypeOK ==
    /\ PoolTypeOK /\ MigrationsTypeOK
    /\ request \in [Requests -> Request]
    /\ event \in [Requests -> Code \cup {None}]
    /\ server \in {"down", "up", "closed"}

\* Where the database fails, nobody gets past the checks: what a handler answers has passed
\* the session check, and a diagnosis the CSRF check (authentication-account-spec.md:874).
NobodyUnchecked ==
    \A r \in Requests :
        /\ request[r].stage = "work" => request[r].passed = {"session", "csrf"}
        /\ request[r].route # "ready" /\ request[r].code \in {"OK", "FAILED"}
             => "session" \in request[r].passed

\* A result that is known is what the client gets: neither the history nor the audit changes
\* it when the database fails (audit.py:39, persistence.py:104).
FailOpen ==
    [][\A r \in Requests :
         request[r].code # None /\ request'[r].stage # "idle"
           => request'[r].code = request[r].code]_vars

\* Every answer of the application, refusals included, leaves an event that agrees with it,
\* unless it is an unhandled exception or the database fails (logging-spec.md:107).
AnswersAudited ==
    [][\A r \in Requests :
         request[r].stage # "answer" /\ request'[r].stage = "answer"
           => \/ event'[r] = request'[r].code
              \/ event'[r] = None /\ (request'[r].code = "INTERNAL" \/ use[r].pc = "failed")]_vars

\* No two requests wait for each other's connections, even when the pool has one: while
\* there are requests, one of them is answered, or the server goes down.
SomebodyIsAnswered ==
    (\E r \in Requests : request[r].stage # "idle")
        ~> (server # "up" \/ \E r \in Requests : request[r].stage = "answer")
=============================================================================
