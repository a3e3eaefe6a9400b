-------------------------------- MODULE DbPool --------------------------------
(***************************************************************************)
(* The pool of database connections of app/db/session.py.  get_pool makes  *)
(* it when it is first called for, and awaits between looking for the      *)
(* global and setting it: a pool is named by the request that made it.     *)
(* What asyncpg.Pool does is modelled from its use here.                   *)
(***************************************************************************)
EXTENDS Naturals, FiniteSets

CONSTANTS
    Requests,           \* slots for the requests served at the same time
    PoolSize,           \* settings.database_pool_size + settings.database_max_overflow
    None

VARIABLES
    pool,               \* _pool
    free,               \* connections not in use, for each pool that is open
    use                 \* what each request is doing with the database

poolVars == <<pool, free, use>>

ASSUME PoolAssumption ==
    PoolSize \in Nat \ {0} /\ None \notin Requests \cup Nat

Use == [pc : {"none", "ask", "create", "acquire", "hold", "ok", "failed"},
        pool : Requests \cup {None}]
NoUse == [pc |-> "none", pool |-> None]

InitPool ==
    /\ pool = None
    /\ free = [p \in Requests |-> None]
    /\ use = [r \in Requests |-> NoUse]

SetUse(r, pc, p) == use' = [use EXCEPT ![r] = [pc |-> pc, pool |-> p]]

\* get_pool, to its first await
GetPool(r) ==
    /\ use[r].pc = "ask"
    /\ IF pool = None THEN SetUse(r, "create", None) ELSE SetUse(r, "acquire", pool)
    /\ UNCHANGED <<pool, free>>

\* A pool that another request has stored meanwhile is replaced, but not closed.
CreatePool(r) ==
    /\ use[r].pc = "create"
    /\ pool' = r
    /\ free' = [free EXCEPT ![r] = PoolSize]
    /\ SetUse(r, "acquire", r)

\* pool.acquire() waits for a connection without a limit.
Acquire(r) ==
    /\ use[r].pc = "acquire" /\ free[use[r].pool] # 0
    /\ free' = [free EXCEPT ![use[r].pool] = @ - 1]
    /\ SetUse(r, "hold", use[r].pool)
    /\ UNCHANGED pool

\* Mutant: a connection whose statement failed is not given back.
LeaveOnSuccess(r, pc) ==
    /\ use[r].pc = "hold"
    /\ free' = IF pc = "ok" THEN [free EXCEPT ![use[r].pool] = @ + 1] ELSE free
    /\ SetUse(r, pc, None)
    /\ UNCHANGED pool

\* Mutant: the connection is given to the pool that is stored by now.
LeaveToStored(r, pc) ==
    /\ use[r].pc = "hold"
    /\ free' = [free EXCEPT ![pool] = @ + 1]
    /\ SetUse(r, pc, None)
    /\ UNCHANGED pool

\* The statements are done or have failed; the connection goes back where it came from.
Leave(r, pc) ==
    /\ use[r].pc = "hold"
    /\ free' = [free EXCEPT ![use[r].pool] = @ + 1]
    /\ SetUse(r, pc, None)
    /\ UNCHANGED pool

\* No pool, no connection, or a statement that fails or takes too long.
DatabaseFails(r) ==
    \/ /\ use[r].pc \in {"create", "acquire"}
       /\ use[r].pc = "acquire" => free[use[r].pool] # 0
       /\ SetUse(r, "failed", None)
       /\ UNCHANGED <<pool, free>>
    \/ Leave(r, "failed")

PoolStep(r) ==
    GetPool(r) \/ CreatePool(r) \/ Acquire(r) \/ Leave(r, "ok") \/ DatabaseFails(r)

\* dispose_engine closes the pool that is stored.
Dispose ==
    /\ pool' = None
    /\ free' = [p \in Requests |-> IF p = pool THEN None ELSE free[p]]

-----------------------------------------------------------------------------
(* Properties *)

\* The pools and their uses have the shape the code gives them.
PoolTypeOK ==
    /\ pool \in Requests \cup {None}
    /\ free \in [Requests -> (0 .. PoolSize) \cup {None}]
    /\ use \in [Requests -> Use]

Holding(p) == {r \in Requests : use[r].pc = "hold" /\ use[r].pool = p}

\* Whichever pool a request got, and however its statements end, the connection is back in
\* that pool, stored or replaced: what is free and what is held add up to a full pool.
ConnectionsReturned ==
    \A p \in Requests :
        IF free[p] = None THEN Holding(p) = {}
        ELSE free[p] + Cardinality(Holding(p)) = PoolSize
=============================================================================
