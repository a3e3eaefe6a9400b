----------------------------- MODULE Persistence -----------------------------
(***************************************************************************)
(* persist_diagnostic of app/services/persistence.py: the row of           *)
(* diagnostic_runs and the row of details go in one transaction, and a     *)
(* failure of the database is logged and otherwise ignored.                *)
(***************************************************************************)
EXTENDS Diagnosis

\* The columns of the details that the code does not cut to their length:
\* connection_result, which takes 20 characters, and the headers of an HTTP response.
DetailFits(r) ==
    CASE task[r].kind = "TCP" -> {task[r].code # "INTERNAL_SERVER_ERROR"}
      [] task[r].kind = "HTTP" /\ task[r].code = "OK" -> BOOLEAN
      [] OTHER -> {TRUE}

\* The URL is parsed again for the log, outside the try block: the handler's exception goes
\* past the middleware, and the client gets the answer of the outermost handler.
PersistRaises(r) ==
    /\ task[r].pc = "store"
    /\ ~task[r].parses
    /\ Go(r, "answer")
    /\ UNCHANGED <<permits, waiters, woken, run, detail>>

\* Mutant: each insert is committed at once.
InsertRunAlone(r) ==
    /\ task[r].pc = "store"
    /\ task[r].parses
    /\ Go(r, "detail")
    /\ run' = [run EXCEPT ![r] = task[r].code]
    /\ UNCHANGED <<permits, waiters, woken, detail>>

InsertRun(r) ==
    /\ task[r].pc = "store"
    /\ task[r].parses
    /\ Go(r, "detail")
    /\ UNCHANGED <<permits, waiters, woken, run, detail>>

\* What the transaction leaves in the tables.
Commit(r) ==
    /\ run' = [run EXCEPT ![r] = task[r].code]
    /\ detail' = [detail EXCEPT ![r] = task[r].kind]

\* The second insert and the commit; a value that is too long undoes the first insert.
InsertDetail(r) ==
    /\ task[r].pc = "detail"
    /\ Go(r, "answer")
    /\ \E fits \in DetailFits(r) : IF fits THEN Commit(r) ELSE UNCHANGED <<run, detail>>
    /\ UNCHANGED semaphore

\* No connection, a lost one, or a statement that took too long. A commit whose
\* confirmation is lost has been done nevertheless.
DatabaseFails(r) ==
    /\ task[r].pc \in {"store", "detail"}
    /\ task[r].parses
    /\ \/ /\ task' = [task EXCEPT ![r].pc = "answer", ![r].dbFailed = TRUE]
          /\ UNCHANGED <<run, detail>>
       \/ /\ task[r].pc = "detail" /\ TRUE \in DetailFits(r)
          /\ Go(r, "answer")
          /\ Commit(r)
    /\ UNCHANGED semaphore

PersistenceStep(r) ==
    PersistRaises(r) \/ InsertRun(r) \/ InsertDetail(r) \/ DatabaseFails(r)
=============================================================================
