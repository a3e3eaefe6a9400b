------------------------------ MODULE HttpCheck ------------------------------
(***************************************************************************)
(* perform_http_check of app/services/http_service.py and the handler of   *)
(* app/api/http_check.py: the loop over the redirects, and the code each   *)
(* failure is answered with.                                               *)
(***************************************************************************)
EXTENDS Diagnosis

\* The first validate_url: refused, or not even split (an address that is not closed by "]"
\* raises ValueError, which persist_diagnostic will raise again).
HttpValidate(r) ==
    /\ At(r, "HTTP", "begin")
    /\ \/ /\ \E host \in {"allowed", "blocked"} :
               task' = [task EXCEPT ![r].pc = "resolve", ![r].host = host]
          /\ UNCHANGED <<permits, waiters, woken, run, detail>>
       \/ Finish(r, "VALIDATION_ERROR")
       \/ /\ task' = [task EXCEPT ![r] =
               [Ended(r, "INTERNAL_SERVER_ERROR") EXCEPT !.parses = FALSE]]
          /\ Release
          /\ UNCHANGED <<run, detail>>

\* The name may get other addresses at any time until httpx has connected.
NameChanges(r) ==
    /\ \/ /\ At(r, "HTTP", "resolve")
          /\ \E host \in {"allowed", "blocked"} : task' = [task EXCEPT ![r].host = host]
       \/ /\ At(r, "HTTP", "send")
          /\ task' = [task EXCEPT ![r].host = IF @ = "allowed" THEN "moved" ELSE "allowed"]
    /\ UNCHANGED <<permits, waiters, woken, run, detail>>

\* _resolve_and_validate: one address that is not allowed is enough.
HttpResolve(r) ==
    /\ At(r, "HTTP", "resolve")
    /\ \/ /\ task[r].host = "allowed"
          /\ task' = [task EXCEPT ![r].pc = "send", ![r].checked = @ + 1]
          /\ UNCHANGED <<permits, waiters, woken, run, detail>>
       \/ task[r].host = "blocked" /\ Finish(r, "TARGET_NOT_ALLOWED")
       \/ \E code \in {"DNS_RESOLUTION_FAILED", "INTERNAL_SERVER_ERROR"} : Finish(r, code)

\* httpx is given the URL, so it resolves the name again and connects to an address of that
\* answer: nothing compares it with the addresses that were checked.
HttpConnect(r) ==
    /\ At(r, "HTTP", "send")
    /\ Go(r, "connected")
    /\ UNCHANGED <<permits, waiters, woken, run, detail>>

\* A URL that httpx does not build a request from is an internal error; a name that does
\* not resolve any more is a refused connection. A connection may fail as well.
HttpSendFails(r) ==
    \/ /\ At(r, "HTTP", "send")
       /\ \E code \in {"CONNECTION_TIMEOUT", "CONNECTION_REFUSED", "TLS_ERROR",
                       "INTERNAL_SERVER_ERROR"} : Finish(r, code)
    \/ /\ At(r, "HTTP", "connected")
       /\ \E code \in {"CONNECTION_TIMEOUT", "TLS_ERROR"} : Finish(r, code)

\* A redirect is followed while the count is below the limit.
Followed(r) == task[r].hops < MaxRedirects

\* Mutants: the new host is not resolved and checked; the redirect is not counted.
NextHopUnchecked(r) == [task[r] EXCEPT !.pc = "send", !.hops = @ + 1]
NextHopUncounted(r) == [task[r] EXCEPT !.pc = "resolve", !.checked = 0]

\* Where the next turn of the loop starts.
NextHop(r) == [task[r] EXCEPT !.pc = "resolve", !.hops = @ + 1]

\* The new URL may be refused, or be none at all; the count is compared with the limit
\* after it has grown.
HttpRedirect(r) ==
    /\ At(r, "HTTP", "connected")
    /\ Followed(r)
    /\ \/ IF NextHop(r).hops > MaxRedirects
          THEN Finish(r, "TOO_MANY_REDIRECTS")
          ELSE /\ \E host \in {"allowed", "blocked"} :
                    task' = [task EXCEPT ![r] = [NextHop(r) EXCEPT !.host = host]]
               /\ UNCHANGED <<permits, waiters, woken, run, detail>>
       \/ \E code \in {"VALIDATION_ERROR", "INTERNAL_SERVER_ERROR"} : Finish(r, code)

\* The response is not followed: it is no redirect, none is wanted, or the limit is reached.
HttpResponse(r) ==
    /\ At(r, "HTTP", "connected")
    /\ \E cut \in {FALSE, ~Followed(r)} :
         task' = [task EXCEPT ![r].pc = "body", ![r].host = None, ![r].cut = cut]
    /\ UNCHANGED <<permits, waiters, woken, run, detail>>

\* The body is read up to max_response_bytes, outside the try block.
HttpBody(r) ==
    /\ At(r, "HTTP", "body")
    /\ \E code \in {"OK", "INTERNAL_SERVER_ERROR"} : Finish(r, code)

HttpCheckStep(r) ==
    \/ HttpValidate(r) \/ HttpResolve(r) \/ HttpConnect(r) \/ HttpSendFails(r)
    \/ HttpRedirect(r) \/ HttpResponse(r) \/ HttpBody(r)
=============================================================================
