----------------------------- MODULE RateLimiter -----------------------------
(***************************************************************************)
(* RateLimiter and get_rate_limiter of app/core/security.py, as the        *)
(* dependency enforce_rate_limit calls them: it is a plain function, so    *)
(* FastAPI runs it in a pool of threads, and no lock guards the limiter.   *)
(* A thread is interrupted where CPython 3.12 looks for another one to     *)
(* run, at calls and backward jumps; what lies between two labels is one   *)
(* step. "admitted" and "overlapped" are history variables for the         *)
(* properties.                                                             *)
(***************************************************************************)
EXTENDS Naturals, Sequences, FiniteSets

CONSTANTS
    Keys,               \* the clients, by IP address
    Limit,              \* settings.rate_limit_per_minute
    Minute,             \* 60 seconds
    Threads,            \* the threads of the pool
    MaxTime,            \* bound on the clock
    None

VARIABLES
    clock,              \* time.monotonic()
    admitted,           \* when each client's requests were let in
    overlapped,         \* whether a call has ever begun while another was under way
    limiter,            \* _rate_limiter: the thread that made it, or None
    windows,            \* RateLimiter._windows: for a limiter and a key, who made the window
    hits,               \* _RateWindow.hits, for a limiter, a key and the window's maker
    thread              \* where each thread is

vars == <<clock, admitted, overlapped, limiter, windows, hits, thread>>

ASSUME LimiterAssumption ==
    /\ Limit \in Nat \ {0} /\ Minute \in Nat /\ MaxTime \in Nat
    /\ IsFiniteSet(Threads) /\ None \notin Threads \cup Keys

Promise == INSTANCE SlidingWindow

Label == {"idle", "get", "create", "check", "window", "make", "trim", "decide"}
Thread == [pc : Label, key : Keys \cup {None}, limiter : Threads \cup {None},
           maker : Threads \cup {None}, now : 0 .. MaxTime, count : Nat]
Waiting == [pc |-> "idle", key |-> None, limiter |-> None, maker |-> None, now |-> 0,
            count |-> 0]

Init ==
    /\ clock = 0
    /\ admitted = [k \in Keys |-> << >>]
    /\ overlapped = FALSE
    /\ limiter = None
    /\ windows = [l \in Threads |-> [k \in Keys |-> None]]
    /\ hits = [l \in Threads |-> [k \in Keys |-> [m \in Threads |-> << >>]]]
    /\ thread = [t \in Threads |-> Waiting]

Go(t, next) == thread' = [thread EXCEPT ![t] = next]

\* The deque the thread holds, in the limiter it holds.
Hits(t) == hits[thread[t].limiter][thread[t].key][thread[t].maker]
SetHits(t, h) ==
    hits' = [hits EXCEPT ![thread[t].limiter][thread[t].key][thread[t].maker] = h]

-----------------------------------------------------------------------------
(* get_rate_limiter *)

Call(t) ==
    /\ thread[t].pc = "idle"
    /\ \E k \in Keys : Go(t, [Waiting EXCEPT !.pc = "get", !.key = k])
    /\ overlapped' = (overlapped \/ \E x \in Threads : thread[x].pc # "idle")
    /\ UNCHANGED <<clock, admitted, limiter, windows, hits>>

Get(t) ==
    /\ thread[t].pc = "get"
    /\ Go(t, IF limiter = None THEN [thread[t] EXCEPT !.pc = "create"]
             ELSE [thread[t] EXCEPT !.pc = "check", !.limiter = limiter])
    /\ UNCHANGED <<clock, admitted, overlapped, limiter, windows, hits>>

\* A limiter another thread has made meanwhile is replaced, with all its windows.
Create(t) ==
    /\ thread[t].pc = "create"
    /\ limiter' = t
    /\ Go(t, [thread[t] EXCEPT !.pc = "check", !.limiter = t])
    /\ UNCHANGED <<clock, admitted, overlapped, windows, hits>>

-----------------------------------------------------------------------------
(* RateLimiter.check *)

ReadClock(t) ==
    /\ thread[t].pc = "check"
    /\ Go(t, [thread[t] EXCEPT !.pc = "window", !.now = clock])
    /\ UNCHANGED <<clock, admitted, overlapped, limiter, windows, hits>>

FindWindow(t) ==
    LET maker == windows[thread[t].limiter][thread[t].key] IN
    /\ thread[t].pc = "window"
    /\ Go(t, IF maker = None THEN [thread[t] EXCEPT !.pc = "make"]
             ELSE [thread[t] EXCEPT !.pc = "trim", !.maker = maker])
    /\ UNCHANGED <<clock, admitted, overlapped, limiter, windows, hits>>

\* defaultdict stores what its factory made over what is there by then.
MakeWindow(t) ==
    /\ thread[t].pc = "make"
    /\ windows' = [windows EXCEPT ![thread[t].limiter][thread[t].key] = t]
    /\ Go(t, [thread[t] EXCEPT !.pc = "trim", !.maker = t])
    /\ UNCHANGED <<clock, admitted, overlapped, limiter, hits>>

\* Mutant: a hit as old as the minute is dropped.
OldByNow(t, h) == h # << >> /\ Head(h) + Minute <= thread[t].now

Old(t, h) == h # << >> /\ Head(h) + Minute < thread[t].now

\* One turn of the loop, or its end and len(window.hits).
Trim(t) ==
    /\ thread[t].pc = "trim"
    /\ IF Old(t, Hits(t))
       THEN SetHits(t, Tail(Hits(t))) /\ UNCHANGED thread
       ELSE /\ Go(t, [thread[t] EXCEPT !.pc = "decide", !.count = Len(Hits(t))])
            /\ UNCHANGED hits
    /\ UNCHANGED <<clock, admitted, overlapped, limiter, windows>>

\* Mutant: ">" for ">=".
FullBeyond(t) == thread[t].count > Limit

\* Mutant: "==" for ">=", which serves as long as threads do not count at the same time.
FullAt(t) == thread[t].count = Limit

Full(t) == thread[t].count >= Limit

\* Mutant: the hit is stored with the time it runs out.
AcceptUntil(t) ==
    /\ thread[t].pc = "decide"
    /\ ~Full(t)
    /\ SetHits(t, Append(Hits(t), thread[t].now + Minute))
    /\ admitted' = [admitted EXCEPT ![thread[t].key] = Append(@, thread[t].now)]
    /\ Go(t, Waiting)
    /\ UNCHANGED <<clock, overlapped, limiter, windows>>

\* The hit is let in with the time the thread has read, whatever the deque holds by now.
Accept(t) ==
    /\ thread[t].pc = "decide"
    /\ ~Full(t)
    /\ SetHits(t, Append(Hits(t), thread[t].now))
    /\ admitted' = [admitted EXCEPT ![thread[t].key] = Append(@, thread[t].now)]
    /\ Go(t, Waiting)
    /\ UNCHANGED <<clock, overlapped, limiter, windows>>

\* Mutant: a request that is refused counts too.
RejectCounted(t) ==
    /\ thread[t].pc = "decide"
    /\ Full(t)
    /\ SetHits(t, Append(Hits(t), thread[t].now))
    /\ Go(t, Waiting)
    /\ UNCHANGED <<clock, admitted, overlapped, limiter, windows>>

\* 429 RATE_LIMIT_EXCEEDED
Reject(t) ==
    /\ thread[t].pc = "decide"
    /\ Full(t)
    /\ Go(t, Waiting)
    /\ UNCHANGED <<clock, admitted, overlapped, limiter, windows, hits>>

Tick ==
    /\ clock < MaxTime
    /\ clock' = clock + 1
    /\ UNCHANGED <<admitted, overlapped, limiter, windows, hits, thread>>

Next ==
    \/ \E t \in Threads :
         \/ Call(t) \/ Get(t) \/ Create(t) \/ ReadClock(t) \/ FindWindow(t) \/ MakeWindow(t)
         \/ Trim(t) \/ Accept(t) \/ Reject(t)
    \/ Tick

Spec == Init /\ [][Next]_vars

-----------------------------------------------------------------------------
(* Properties *)

\* The threads, the limiter and its windows have the shape the code gives them.
TypeOK ==
    /\ clock \in 0 .. MaxTime
    /\ admitted \in [Keys -> Seq(0 .. MaxTime)]
    /\ overlapped \in BOOLEAN
    /\ limiter \in Threads \cup {None}
    /\ windows \in [Threads -> [Keys -> Threads \cup {None}]]
    /\ hits \in [Threads -> [Keys -> [Threads -> Seq(0 .. MaxTime)]]]
    /\ thread \in [Threads -> Thread]

\* However many threads count it at the same time, a window never holds more than the
\* limit and one hit for each further thread.
OvershootBounded ==
    \A l, m \in Threads, k \in Keys :
        Len(hits[l][k][m]) <= Limit + Cardinality(Threads) - 1

\* The rate is N a minute for each client (security.py:156).
WithinLimit == Promise!WithinLimit

\* The rate is kept as long as no two calls have overlapped, whichever threads made them.
SerialWithinLimit == ~overlapped => WithinLimit

\* As long as no two calls have overlapped, a client that is refused has had its full share
\* of requests in the last minute.
RefusalJustified ==
    [][\A t \in Threads : ~overlapped /\ Reject(t) =>
         Cardinality(Promise!InMinute(thread[t].key, thread[t].now)) >= Limit]_vars

\* As long as no two calls have overlapped, the limiter lets in what the sliding window lets
\* in, and nothing else.
ImplementsWindow ==
    Promise!Init /\ [][~overlapped' => [Promise!Next]_(Promise!vars)]_vars
=============================================================================
