------------------------------ MODULE DnsLookup ------------------------------
(***************************************************************************)
(* perform_dns_lookup of app/services/dns_service.py and the handler of    *)
(* app/api/dns_lookup.py. A name without records of the type asked for is  *)
(* a result, with an empty list.                                           *)
(***************************************************************************)
EXTENDS Diagnosis

\* validate_domain
DnsValidate(r) ==
    /\ At(r, "DNS", "validate")
    /\ \/ Go(r, "acquire") /\ UNCHANGED <<permits, waiters, woken, run, detail>>
       \/ Refuse(r, "VALIDATION_ERROR")

\* NXDOMAIN and a resolver without an answer are reported alike.
DnsResolve(r) ==
    /\ At(r, "DNS", "begin")
    /\ \E code \in {"OK", "OK_EMPTY", "DNS_RESOLUTION_FAILED", "CONNECTION_TIMEOUT",
                    "INTERNAL_SERVER_ERROR"} : Finish(r, code)

DnsLookupStep(r) == DnsValidate(r) \/ DnsResolve(r)
=============================================================================
