----------------------------- MODULE Diagnostics -----------------------------
(***************************************************************************)
(* The diagnoses of the service: HTTP checks, port checks and DNS lookups  *)
(* that share the semaphore and the tables of the results, and what must   *)
(* hold of them.                                                           *)
(***************************************************************************)
EXTENDS HttpCheck, PortCheck, DnsLookup, Persistence

\* The response is sent and the slot is free for another request. Bound: the rows of the
\* request, which nothing changes any more, are forgotten.
Answer(r) ==
    /\ task[r].pc = "answer"
    /\ task' = [task EXCEPT ![r] = Idle]
    /\ run' = [run EXCEPT ![r] = None]
    /\ detail' = [detail EXCEPT ![r] = None]
    /\ UNCHANGED semaphore

Step(r) ==
    \/ SemaphoreStep(r)
    \/ HttpCheckStep(r) \/ PortCheckStep(r) \/ DnsLookupStep(r)
    \/ PersistenceStep(r)
    \/ Answer(r)

Next == \E r \in Reqs : Arrive(r) \/ NameChanges(r) \/ Step(r)

Spec == Init /\ [][Next]_vars

\* Every use of the network and every statement has a timeout, and the event loop runs
\* whatever can run; that a connection comes free is Deployment's to show. Nothing obliges a
\* client to call, nor a name to change.
Fairness == \A r \in Reqs : WF_vars(Step(r))

FairSpec == Spec /\ Fairness

-----------------------------------------------------------------------------
(* Invariants *)

\* The requests, the semaphore and the tables have the shape the code gives them.
TypeOK ==
    /\ task \in [Reqs -> Task]
    /\ permits \in 0 .. Slots
    /\ waiters \in Seq(Reqs) /\ woken \subseteq ToSet(waiters)
    /\ run \in [Reqs -> Code \cup {None}]
    /\ detail \in [Reqs -> Kind \cup {None}]

\* Every path out of a diagnosis gives its permit back, once: what is left in the semaphore,
\* what is used and what is on its way to a waiter add up to the limit.
PermitsConserved ==
    permits + Cardinality(woken) + Cardinality({r \in Reqs : task[r].pc \in InNetwork})
      = Slots

\* Every connection of a redirect chain is made after the host of that very URL has been
\* resolved and all its addresses found allowed, and the chain is no longer than
\* max_redirects (README.md:116). An address that is not allowed is reached only when the
\* name has changed since: network-diagnostic-service-spec.md:376 asks for a check of the
\* actual target right before connecting, and http_service.py:89 has none.
EveryHopChecked ==
    \A r \in Reqs : At(r, "HTTP", "connected") =>
        /\ task[r].checked = task[r].hops + 1 /\ task[r].hops <= MaxRedirects
        /\ task[r].host # "blocked"

\* A run is in the history with its details or not at all, and with the code its request is
\* answered with, wherever the database fails (postgresql-database-spec.md:428).
HistoryAgrees ==
    \A r \in Reqs :
        /\ run[r] = None <=> detail[r] = None
        /\ run[r] # None /\ task[r].pc = "answer"
             => run[r] = task[r].code /\ detail[r] = task[r].kind

\* A chain of redirects that is longer than the limit is answered with
\* TOO_MANY_REDIRECTS (http_service.py:144).
TooManyRedirectsReported ==
    \A r \in Reqs : task[r].pc = "answer" /\ task[r].code = "OK" => ~task[r].cut

\* Whatever the outcome, failures of input and of the target included, a diagnosis leaves
\* a run in the history, unless the database fails (postgresql-database-spec.md:18).
EveryDiagnosisStored ==
    \A r \in Reqs : task[r].pc = "answer" => run[r] # None \/ task[r].dbFailed

-----------------------------------------------------------------------------
(* The limit on concurrent diagnostics *)

\* A waiter with a permit counts as running; those that have one are the first ones.
Queue ==
    INSTANCE DiagnosticQueue WITH
        queue <- SubSeq(waiters, Cardinality(woken) + 1, Len(waiters)),
        running <- woken \cup {r \in Reqs : task[r].pc \in InNetwork}

\* At most max_concurrent_diagnostics run, and nobody overtakes who waits.
ImplementsQueue == Queue!Spec

\* Every diagnosis is answered: no wake-up is lost and no chain of redirects is endless.
EveryDiagnosisEnds == \A r \in Reqs : task[r].pc # "idle" ~> task[r].pc = "idle"
=============================================================================
