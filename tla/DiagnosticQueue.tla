--------------------------- MODULE DiagnosticQueue ---------------------------
(***************************************************************************)
(* What the limit on concurrent diagnostics promises: at most Slots run at *)
(* the same time, and those that must wait start in the order they came.   *)
(* The semaphore of app/core/deps.py and the handlers that hold it are to  *)
(* implement this.                                                         *)
(***************************************************************************)
EXTENDS Naturals, Sequences, FiniteSets, SequencesExt

CONSTANTS
    Reqs,               \* the requests being served
    Slots               \* settings.max_concurrent_diagnostics

VARIABLES
    queue,              \* who waits, first come first
    running             \* whose diagnosis runs

vars == <<queue, running>>

Init == queue = << >> /\ running = {}

\* One may run at once only if nobody waits.
Enter(r) ==
    /\ r \notin running \cup ToSet(queue)
    /\ \/ /\ queue = << >>
          /\ Cardinality(running) < Slots
          /\ running' = running \cup {r}
          /\ UNCHANGED queue
       \/ /\ queue' = Append(queue, r)
          /\ UNCHANGED running

\* Those in "gone" end, and the first n of the queue start.
Move(gone, n) ==
    /\ gone \subseteq running
    /\ running' = (running \ gone) \cup ToSet(SubSeq(queue, 1, n))
    /\ queue' = SubSeq(queue, n + 1, Len(queue))
    /\ Cardinality(running') <= Slots

Next ==
    \/ \E r \in Reqs : Enter(r)
    \/ \E r \in Reqs, n \in 0 .. Len(queue) : Move({r}, n)
    \/ \E n \in 1 .. Len(queue) : Move({}, n)

Spec == Init /\ [][Next]_vars
=============================================================================
