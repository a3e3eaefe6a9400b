------------------------------ MODULE PortCheck ------------------------------
(***************************************************************************)
(* perform_port_check of app/services/tcp_service.py and the handler of    *)
(* app/api/port_check.py. A name that does not resolve and a port that is  *)
(* closed are results, not failures.                                       *)
(***************************************************************************)
EXTENDS Diagnosis

\* validate_host and assert_port_allowed
PortValidate(r) ==
    /\ At(r, "TCP", "validate")
    /\ \/ Go(r, "acquire") /\ UNCHANGED <<permits, waiters, woken, run, detail>>
       \/ \E code \in {"VALIDATION_ERROR", "TARGET_NOT_ALLOWED"} : Refuse(r, code)

PortResolve(r) ==
    /\ At(r, "TCP", "begin")
    /\ \/ Go(r, "send") /\ UNCHANGED <<permits, waiters, woken, run, detail>>
       \/ \E code \in {"DNS_FAILED", "TARGET_NOT_ALLOWED", "INTERNAL_SERVER_ERROR"} :
            Finish(r, code)

PortConnect(r) ==
    /\ At(r, "TCP", "send")
    /\ \E code \in {"OPEN", "TIMEOUT", "REFUSED", "BLOCKED", "INTERNAL_SERVER_ERROR"} :
         Finish(r, code)

PortCheckStep(r) == PortValidate(r) \/ PortResolve(r) \/ PortConnect(r)
=============================================================================
