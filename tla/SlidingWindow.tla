---------------------------- MODULE SlidingWindow ----------------------------
(***************************************************************************)
(* What "N requests a minute for each client" promises: a request is let   *)
(* in when fewer than Limit of the client's were in the minute before it.  *)
(* The limiter of app/core/security.py is to implement this.               *)
(***************************************************************************)
EXTENDS Naturals, Sequences, FiniteSets

CONSTANTS
    Keys,               \* the clients, by IP address
    Limit,              \* settings.rate_limit_per_minute
    Minute,             \* 60 seconds
    MaxTime             \* bound on the clock

VARIABLES
    clock,              \* time.monotonic()
    admitted            \* when each client's requests were let in

vars == <<clock, admitted>>

\* The client's requests in the minute up to "at".
InMinute(k, at) ==
    {i \in DOMAIN admitted[k] : at <= admitted[k][i] + Minute /\ admitted[k][i] <= at}

Init ==
    /\ clock = 0
    /\ admitted = [k \in Keys |-> << >>]

\* The request arrived at "at", and is let in now.
Admit(k) ==
    /\ \E at \in 0 .. clock :
         /\ \A i \in DOMAIN admitted[k] : admitted[k][i] <= at
         /\ Cardinality(InMinute(k, at)) < Limit
         /\ admitted' = [admitted EXCEPT ![k] = Append(@, at)]
    /\ UNCHANGED clock

Tick ==
    /\ clock < MaxTime
    /\ clock' = clock + 1
    /\ UNCHANGED admitted

Next == (\E k \in Keys : Admit(k)) \/ Tick

Spec == Init /\ [][Next]_vars

\* No minute, whenever it starts, holds more than the limit of one client's requests.
WithinLimit == \A k \in Keys, at \in 0 .. MaxTime : Cardinality(InMinute(k, at)) <= Limit
=============================================================================
