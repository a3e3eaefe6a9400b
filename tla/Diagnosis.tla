------------------------------ MODULE Diagnosis ------------------------------
(***************************************************************************)
(* The state of the requests for a diagnosis (HTTP, TCP, DNS), from the    *)
(* moment they have passed authentication and the rate limit, and the      *)
(* semaphore of app/core/deps.py that bounds how many use the network.     *)
(* All of them run in one event loop: what lies between two awaits is one  *)
(* step.                                                                   *)
(***************************************************************************)
EXTENDS Naturals, Sequences, FiniteSets, SequencesExt

CONSTANTS
    Reqs,               \* slots for the requests being served at the same time
    Asks,               \* the diagnoses asked for in each slot
    Slots,              \* settings.max_concurrent_diagnostics
    MaxRedirects,       \* settings.max_redirects
    None

VARIABLES
    task,               \* the requests in flight
    permits,            \* Semaphore._value
    waiters,            \* Semaphore._waiters
    woken,              \* waiters whose future is set and who have not run yet
    run,                \* diagnostic_runs: the result code of each request's row
    detail              \* the ..._diagnostic_results: the table that holds its details

semaphore == <<permits, waiters, woken>>
vars == <<task, permits, waiters, woken, run, detail>>

Kind == {"HTTP", "TCP", "DNS"}

ASSUME DiagnosisAssumption ==
    /\ Asks \in [Reqs -> SUBSET Kind]
    /\ Slots \in Nat \ {0} /\ MaxRedirects \in Nat
    /\ IsFiniteSet(Reqs)

Code == {"OK", "OK_EMPTY", "OPEN", "REFUSED", "TIMEOUT", "DNS_FAILED", "BLOCKED",
         "VALIDATION_ERROR", "TARGET_NOT_ALLOWED", "DNS_RESOLUTION_FAILED",
         "CONNECTION_TIMEOUT", "CONNECTION_REFUSED", "TLS_ERROR", "TOO_MANY_REDIRECTS",
         "INTERNAL_SERVER_ERROR"}

\* What the name in the URL resolves to: addresses the policy allows, among them one it does
\* not allow, or such a one only since the code has checked the name.
Host == {"allowed", "blocked", "moved"}

ASSUME NoneAssumption == None \notin Reqs \cup Kind \cup Code \cup Host

\* "begin" to "body" lie inside "async with" the semaphore; "store" and "detail" are
\* the two inserts of persist_diagnostic.
Pc == {"idle", "validate", "acquire", "wait", "begin", "resolve", "send", "connected", "body",
       "store", "detail", "answer"}
InNetwork == {"begin", "resolve", "send", "connected", "body"}

\* "checked", "cut" and "dbFailed" are there for the properties: how many URLs of the chain
\* have been resolved and found allowed, whether the answer is a redirect that was to be
\* followed, and whether the database failed and the rows are lost.
Task == [pc : Pc, kind : Kind \cup {None}, hops : Nat, parses : BOOLEAN,
         host : Host \cup {None}, code : Code \cup {None}, checked : Nat, cut : BOOLEAN, dbFailed : BOOLEAN]

Idle == [pc |-> "idle", kind |-> None, hops |-> 0, parses |-> TRUE, host |-> None,
         code |-> None, checked |-> 0, cut |-> FALSE, dbFailed |-> FALSE]

Init ==
    /\ task = [r \in Reqs |-> Idle]
    /\ permits = Slots /\ waiters = << >> /\ woken = {}
    /\ run = [r \in Reqs |-> None]
    /\ detail = [r \in Reqs |-> None]

At(r, kind, pc) == task[r].kind = kind /\ task[r].pc = pc
Go(r, pc) == task' = [task EXCEPT ![r].pc = pc]

\* The port check and the DNS lookup validate their input before they ask for a permit.
Arrive(r) ==
    /\ task[r] = Idle
    /\ \E k \in Asks[r] :
         task' = [task EXCEPT ![r] = [Idle EXCEPT !.kind = k,
                    !.pc = IF k = "HTTP" THEN "acquire" ELSE "validate"]]
    /\ UNCHANGED <<permits, waiters, woken, run, detail>>

-----------------------------------------------------------------------------
(* asyncio.Semaphore *)

Locked == permits = 0 \/ waiters # << >>

\* Where the waiters stand whose future is not done, and the first n of them.
Unwoken == {i \in DOMAIN waiters : waiters[i] \notin woken}
NextWaiters(n) ==
    {waiters[i] : i \in {j \in Unwoken : Cardinality({k \in Unwoken : k < j}) < n}}

AcquireAtOnce(r) ==
    /\ task[r].pc = "acquire"
    /\ ~Locked
    /\ permits' = permits - 1
    /\ Go(r, "begin")
    /\ UNCHANGED <<waiters, woken, run, detail>>

AcquireLater(r) ==
    /\ task[r].pc = "acquire"
    /\ Locked
    /\ waiters' = Append(waiters, r)
    /\ Go(r, "wait")
    /\ UNCHANGED <<permits, woken, run, detail>>

\* The waiter goes on, and passes further permits to those who came meanwhile and had to
\* wait behind it: to one of them or to as many as there are, which depends on the patch
\* release of CPython 3.12.
Resume(r) ==
    LET most == IF permits < Cardinality(Unwoken) THEN permits ELSE Cardinality(Unwoken) IN
    /\ r \in woken
    /\ \E n \in {most, IF most > 1 THEN 1 ELSE most} :
         /\ woken' = (woken \ {r}) \cup NextWaiters(n)
         /\ permits' = permits - n
    /\ \E i \in DOMAIN waiters : waiters[i] = r /\ waiters' = RemoveAt(waiters, i)
    /\ Go(r, "begin")
    /\ UNCHANGED <<run, detail>>

\* Mutant: the last waiter gets it.
ReleaseToLast ==
    /\ IF Unwoken = {}
       THEN permits' = permits + 1 /\ UNCHANGED woken
       ELSE /\ woken' = woken \cup {waiters[i] : i \in {j \in Unwoken : \A k \in Unwoken : k <= j}}
            /\ UNCHANGED permits
    /\ UNCHANGED waiters

\* The permit goes to the first waiter that has none.
Release ==
    /\ IF Unwoken = {}
       THEN permits' = permits + 1 /\ UNCHANGED woken
       ELSE woken' = woken \cup NextWaiters(1) /\ UNCHANGED permits
    /\ UNCHANGED waiters

-----------------------------------------------------------------------------
(* The ends of a diagnosis *)

\* What is left of the request: what the chain of redirects was is of no use any more.
Ended(r, code) ==
    [task[r] EXCEPT !.pc = "store", !.code = code, !.hops = 0, !.checked = 0, !.host = None]

\* Mutants: a failure keeps the permit; the permit is given back twice.
FinishHeld(r, code) ==
    /\ task' = [task EXCEPT ![r] = Ended(r, code)]
    /\ IF code = "INTERNAL_SERVER_ERROR" THEN UNCHANGED semaphore ELSE Release
    /\ UNCHANGED <<run, detail>>
FinishTwice(r, code) ==
    /\ task' = [task EXCEPT ![r] = Ended(r, code)]
    /\ permits' = permits + 2
    /\ UNCHANGED <<waiters, woken, run, detail>>

\* It ends inside "async with": the permit is given back, then the result is stored.
Finish(r, code) ==
    /\ task' = [task EXCEPT ![r] = Ended(r, code)]
    /\ Release
    /\ UNCHANGED <<run, detail>>

\* It is refused before a permit was asked for.
Refuse(r, code) ==
    /\ task' = [task EXCEPT ![r] = Ended(r, code)]
    /\ UNCHANGED <<permits, waiters, woken, run, detail>>

SemaphoreStep(r) == AcquireAtOnce(r) \/ AcquireLater(r) \/ Resume(r)
=============================================================================
