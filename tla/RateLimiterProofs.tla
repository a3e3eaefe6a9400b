-------------------------- MODULE RateLimiterProofs --------------------------
(***************************************************************************)
(* Proofs about RateLimiter, for every limit and any number of clients and *)
(* threads: the type invariant, and how far threads that count at the same *)
(* time can overfill a window.  As long as no two calls overlap: the       *)
(* limiter implements SlidingWindow, which keeps its limit.                *)
(***************************************************************************)
EXTENDS RateLimiter, FiniteSetTheorems, TLAPS

-----------------------------------------------------------------------------
(* The inductive invariant *)

\* What a thread holds at each label.
Holds(t) ==
    /\ thread[t].pc # "idle" => thread[t].key \in Keys
    /\ thread[t].pc \in {"check", "window", "make", "trim", "decide"}
         => thread[t].limiter \in Threads
    /\ thread[t].pc \in {"trim", "decide"} => thread[t].maker \in Threads

\* The threads that have counted this window, found room and not yet added their hit.
Entering(l, k, m) ==
    {t \in Threads : /\ thread[t].pc = "decide" /\ thread[t].count < Limit
                     /\ thread[t].limiter = l /\ thread[t].key = k /\ thread[t].maker = m}

\* The hits that are there and those that are sure to come.
Room == \A l, m \in Threads, k \in Keys :
            Len(hits[l][k][m]) + Cardinality(Entering(l, k, m))
              <= Limit + Cardinality(Threads) - 1

IInv == TypeOK /\ (\A t \in Threads : Holds(t)) /\ Room

-----------------------------------------------------------------------------
(* Counting the threads *)

\* The pool of threads is finite, and so is every part of it.
LEMMA SomeThreads ==
    ASSUME NEW S, S \subseteq Threads
    PROVE  /\ IsFiniteSet(S) /\ Cardinality(S) \in Nat /\ Cardinality(Threads) \in Nat
           /\ Cardinality(S) <= Cardinality(Threads)
<1>1. IsFiniteSet(Threads)
  BY LimiterAssumption
<1>2. QED
  BY <1>1, FS_Subset, FS_CardinalityType

\* Fewer threads count less.
LEMMA FewerThreads ==
    ASSUME NEW S, NEW R, S \subseteq R, R \subseteq Threads
    PROVE  Cardinality(S) <= Cardinality(R)
<1>1. IsFiniteSet(R)
  BY SomeThreads
<1>2. QED
  BY <1>1, FS_Subset

-----------------------------------------------------------------------------
(* The deque a thread works on, and where it goes *)

\* Storing a deque changes the one window the thread holds.
LEMMA OneWindow ==
    ASSUME TypeOK, NEW t \in Threads, thread[t].limiter \in Threads,
           thread[t].key \in Keys, thread[t].maker \in Threads,
           NEW h \in Seq(0 .. MaxTime), SetHits(t, h)
    PROVE  /\ hits' \in [Threads -> [Keys -> [Threads -> Seq(0 .. MaxTime)]]]
           /\ \A l, m \in Threads, k \in Keys : hits'[l][k][m] =
                IF l = thread[t].limiter /\ k = thread[t].key /\ m = thread[t].maker
                THEN h ELSE hits[l][k][m]
<1> DEFINE tl == thread[t].limiter
           tk == thread[t].key
           tm == thread[t].maker
           Deques == Seq(0 .. MaxTime)
<1>1. hits \in [Threads -> [Keys -> [Threads -> Deques]]] /\ h \in Deques
  BY DEF TypeOK
<1>2. hits' = [hits EXCEPT ![tl][tk][tm] = h]
  BY DEF SetHits
<1>3. tl \in Threads /\ tk \in Keys /\ tm \in Threads
  OBVIOUS
<1> HIDE DEF tl, tk, tm, Deques
<1>4. /\ hits' \in [Threads -> [Keys -> [Threads -> Deques]]]
      /\ \A l, m \in Threads, k \in Keys : hits'[l][k][m] =
           IF l = tl /\ k = tk /\ m = tm THEN h ELSE hits[l][k][m]
  BY <1>1, <1>2, <1>3
<1>5. QED
  BY <1>4 DEF tl, tk, tm, Deques

\* What a thread holds is a sequence of times.
LEMMA HitsType ==
    ASSUME TypeOK, NEW t \in Threads, Holds(t), thread[t].pc \in {"trim", "decide"}
    PROVE  Hits(t) \in Seq(0 .. MaxTime)
<1>1. thread[t].limiter \in Threads /\ thread[t].key \in Keys /\ thread[t].maker \in Threads
  BY DEF Holds
<1>2. QED
  BY <1>1 DEF TypeOK, Hits

\* A thread that goes on leaves the others where they are.
LEMMA GoEffect ==
    ASSUME TypeOK, NEW t \in Threads, NEW next \in Thread, Go(t, next)
    PROVE  /\ thread' \in [Threads -> Thread] /\ thread'[t] = next
           /\ \A x \in Threads \ {t} : thread'[x] = thread[x]
BY DEF TypeOK, Go

-----------------------------------------------------------------------------
(* Types *)

\* It is enough that the thread that goes on gets a shape and holdings that fit its label.
LEMMA TypeByGo ==
    ASSUME TypeOK, \A x \in Threads : Holds(x), NEW t \in Threads,
           NEW next \in Thread, Go(t, next),
           next.pc # "idle" => next.key \in Keys,
           next.pc \in {"check", "window", "make", "trim", "decide"} => next.limiter \in Threads,
           next.pc \in {"trim", "decide"} => next.maker \in Threads
    PROVE  thread' \in [Threads -> Thread] /\ (\A x \in Threads : Holds(x))'
<1>1. /\ thread' \in [Threads -> Thread] /\ thread'[t] = next
      /\ \A x \in Threads \ {t} : thread'[x] = thread[x]
  BY GoEffect
<1>2. ASSUME NEW x \in Threads PROVE Holds(x)'
  <2>1. CASE x = t
    BY <1>1, <2>1 DEF Holds
  <2>2. CASE x # t
    BY <1>1, <2>2 DEF Holds
  <2>3. QED
    BY <2>1, <2>2
<1>3. QED
  BY <1>1, <1>2

\* A thread's shape.
LEMMA ThreadType ==
    ASSUME TypeOK, NEW t \in Threads
    PROVE  /\ thread[t] \in Thread /\ thread[t].now \in 0 .. MaxTime
           /\ thread[t].count \in Nat /\ Waiting \in Thread
BY LimiterAssumption DEF TypeOK, Thread, Waiting, Label

\* A step leaves every thread with the shape and the holdings of its label.
LEMMA TypeStep ==
    ASSUME TypeOK, \A x \in Threads : Holds(x), Next
    PROVE  TypeOK' /\ (\A x \in Threads : Holds(x))'
<1> USE LimiterAssumption
<1>1. ASSUME NEW t \in Threads, Call(t)
      PROVE  TypeOK' /\ (\A x \in Threads : Holds(x))'
  <2>1. PICK k \in Keys : Go(t, [Waiting EXCEPT !.pc = "get", !.key = k])
    BY <1>1 DEF Call
  <2> DEFINE next == [Waiting EXCEPT !.pc = "get", !.key = k]
  <2>2. next \in Thread /\ next.pc = "get" /\ next.key \in Keys
    BY ThreadType DEF Thread, Label
  <2>3. thread' \in [Threads -> Thread] /\ (\A x \in Threads : Holds(x))'
    BY <2>1, <2>2, TypeByGo
  <2>4. QED
    BY <1>1, <2>3 DEF Call, TypeOK
<1>2. ASSUME NEW t \in Threads, Get(t)
      PROVE  TypeOK' /\ (\A x \in Threads : Holds(x))'
  <2> DEFINE next == IF limiter = None THEN [thread[t] EXCEPT !.pc = "create"]
                     ELSE [thread[t] EXCEPT !.pc = "check", !.limiter = limiter]
  <2>1. /\ next \in Thread /\ next.key \in Keys /\ next.pc \in {"create", "check"}
        /\ next.pc = "check" => next.limiter \in Threads
    <3>1. thread[t] \in Thread /\ thread[t].key \in Keys
      BY <1>2, ThreadType DEF Get, Holds
    <3>2. limiter \in Threads \cup {None}
      BY DEF TypeOK
    <3>3. CASE limiter = None
      BY <3>1, <3>3 DEF Thread, Label
    <3>4. CASE limiter # None
      BY <3>1, <3>2, <3>4 DEF Thread, Label
    <3>5. QED
      BY <3>3, <3>4
  <2>2. Go(t, next)
    BY <1>2 DEF Get
  <2>3. thread' \in [Threads -> Thread] /\ (\A x \in Threads : Holds(x))'
    <3> HIDE DEF next
    <3> QED BY <2>1, <2>2, TypeByGo
  <2>4. QED
    BY <1>2, <2>3 DEF Get, TypeOK
<1>3. ASSUME NEW t \in Threads, Create(t)
      PROVE  TypeOK' /\ (\A x \in Threads : Holds(x))'
  <2> DEFINE next == [thread[t] EXCEPT !.pc = "check", !.limiter = t]
  <2>1. next \in Thread /\ next.key \in Keys /\ next.pc = "check" /\ next.limiter \in Threads
    BY <1>3 DEF Create, TypeOK, Thread, Label, Holds
  <2>2. Go(t, next)
    BY <1>3 DEF Create
  <2>3. thread' \in [Threads -> Thread] /\ (\A x \in Threads : Holds(x))'
    <3> HIDE DEF next
    <3> QED BY <2>1, <2>2, TypeByGo
  <2>4. QED
    BY <1>3, <2>3 DEF Create, TypeOK
<1>4. ASSUME NEW t \in Threads, ReadClock(t)
      PROVE  TypeOK' /\ (\A x \in Threads : Holds(x))'
  <2> DEFINE next == [thread[t] EXCEPT !.pc = "window", !.now = clock]
  <2>1. next \in Thread /\ next.key \in Keys /\ next.pc = "window" /\ next.limiter \in Threads
    BY <1>4 DEF ReadClock, TypeOK, Thread, Label, Holds
  <2>2. Go(t, next)
    BY <1>4 DEF ReadClock
  <2>3. thread' \in [Threads -> Thread] /\ (\A x \in Threads : Holds(x))'
    <3> HIDE DEF next
    <3> QED BY <2>1, <2>2, TypeByGo
  <2>4. QED
    BY <1>4, <2>3 DEF ReadClock, TypeOK
<1>5. ASSUME NEW t \in Threads, FindWindow(t)
      PROVE  TypeOK' /\ (\A x \in Threads : Holds(x))'
  <2> DEFINE maker == windows[thread[t].limiter][thread[t].key]
             next == IF maker = None THEN [thread[t] EXCEPT !.pc = "make"]
                     ELSE [thread[t] EXCEPT !.pc = "trim", !.maker = maker]
  <2>1. thread[t].limiter \in Threads /\ thread[t].key \in Keys
    BY <1>5 DEF FindWindow, Holds
  <2>2. maker \in Threads \cup {None}
    BY <2>1 DEF TypeOK
  <2>3. /\ next \in Thread /\ next.key \in Keys /\ next.pc \in {"make", "trim"}
        /\ next.limiter \in Threads
        /\ next.pc = "trim" => next.maker \in Threads
    <3> HIDE DEF maker
    <3>1. thread[t] \in Thread /\ "make" \in Label /\ "trim" \in Label
      BY ThreadType DEF Label
    <3>2. CASE maker = None
      BY <2>1, <3>1, <3>2 DEF Thread
    <3>3. CASE maker # None
      BY <2>1, <2>2, <3>1, <3>3 DEF Thread
    <3>4. QED
      BY <3>2, <3>3
  <2>4. Go(t, next)
    BY <1>5 DEF FindWindow
  <2>5. thread' \in [Threads -> Thread] /\ (\A x \in Threads : Holds(x))'
    <3> HIDE DEF next
    <3> QED BY <2>3, <2>4, TypeByGo
  <2>6. QED
    BY <1>5, <2>5 DEF FindWindow, TypeOK
<1>6. ASSUME NEW t \in Threads, MakeWindow(t)
      PROVE  TypeOK' /\ (\A x \in Threads : Holds(x))'
  <2> DEFINE next == [thread[t] EXCEPT !.pc = "trim", !.maker = t]
  <2>1. /\ next \in Thread /\ next.key \in Keys /\ next.pc = "trim"
        /\ next.limiter \in Threads /\ next.maker \in Threads
    BY <1>6, ThreadType DEF MakeWindow, Thread, Label, Holds
  <2>2. Go(t, next)
    BY <1>6 DEF MakeWindow
  <2>3. thread' \in [Threads -> Thread] /\ (\A x \in Threads : Holds(x))'
    <3> HIDE DEF next
    <3> QED BY <2>1, <2>2, TypeByGo
  <2>4. windows' \in [Threads -> [Keys -> Threads \cup {None}]]
    BY <1>6 DEF MakeWindow, TypeOK, Holds
  <2>5. QED
    BY <1>6, <2>3, <2>4 DEF MakeWindow, TypeOK
<1>7. ASSUME NEW t \in Threads, Trim(t)
      PROVE  TypeOK' /\ (\A x \in Threads : Holds(x))'
  <2>1. Hits(t) \in Seq(0 .. MaxTime) /\ Len(Hits(t)) \in Nat
    BY <1>7, HitsType DEF Trim
  <2>2. /\ thread[t].pc = "trim" /\ thread[t].limiter \in Threads
        /\ thread[t].key \in Keys /\ thread[t].maker \in Threads
    BY <1>7 DEF Trim, Holds
  <2>3. CASE Old(t, Hits(t))
    <3>1. Tail(Hits(t)) \in Seq(0 .. MaxTime)
      BY <2>1, <2>3 DEF Old
    <3>2. hits' \in [Threads -> [Keys -> [Threads -> Seq(0 .. MaxTime)]]]
      BY <1>7, <2>2, <2>3, <3>1, OneWindow DEF Trim
    <3>3. UNCHANGED <<clock, admitted, overlapped, limiter, windows, thread>>
      BY <1>7, <2>3 DEF Trim
    <3>4. QED
      BY <3>2, <3>3 DEF TypeOK, Holds
  <2>4. CASE ~Old(t, Hits(t))
    <3> DEFINE next == [thread[t] EXCEPT !.pc = "decide", !.count = Len(Hits(t))]
    <3>1. /\ next \in Thread /\ next.key \in Keys /\ next.pc = "decide"
          /\ next.limiter \in Threads /\ next.maker \in Threads
      BY <2>1, <2>2, ThreadType DEF Thread, Label
    <3>2. Go(t, next) /\ UNCHANGED <<clock, admitted, overlapped, limiter, windows, hits>>
      BY <1>7, <2>4 DEF Trim
    <3>3. thread' \in [Threads -> Thread] /\ (\A x \in Threads : Holds(x))'
      <4> HIDE DEF next
      <4> QED BY <3>1, <3>2, TypeByGo
    <3>4. QED
      BY <3>2, <3>3 DEF TypeOK
  <2>5. QED
    BY <2>3, <2>4
<1>8. ASSUME NEW t \in Threads, Accept(t)
      PROVE  TypeOK' /\ (\A x \in Threads : Holds(x))'
  <2>1. /\ thread[t].pc = "decide" /\ thread[t].limiter \in Threads
        /\ thread[t].key \in Keys /\ thread[t].maker \in Threads
    BY <1>8 DEF Accept, Holds
  <2>2. Append(Hits(t), thread[t].now) \in Seq(0 .. MaxTime)
    BY <2>1, HitsType, ThreadType
  <2>3. hits' \in [Threads -> [Keys -> [Threads -> Seq(0 .. MaxTime)]]]
    BY <1>8, <2>1, <2>2, OneWindow DEF Accept
  <2>4. admitted' \in [Keys -> Seq(0 .. MaxTime)]
    BY <1>8, <2>1, ThreadType DEF Accept, TypeOK
  <2>5. thread' \in [Threads -> Thread] /\ (\A x \in Threads : Holds(x))'
    BY <1>8, ThreadType, TypeByGo DEF Accept, Waiting
  <2>6. QED
    BY <1>8, <2>3, <2>4, <2>5 DEF Accept, TypeOK
<1>9. ASSUME NEW t \in Threads, Reject(t)
      PROVE  TypeOK' /\ (\A x \in Threads : Holds(x))'
  <2>1. thread' \in [Threads -> Thread] /\ (\A x \in Threads : Holds(x))'
    BY <1>9, ThreadType, TypeByGo DEF Reject, Waiting
  <2>2. QED
    BY <1>9, <2>1 DEF Reject, TypeOK
<1>10. CASE Tick
  BY <1>10 DEF Tick, TypeOK, Holds
<1>11. QED
  BY <1>1, <1>2, <1>3, <1>4, <1>5, <1>6, <1>7, <1>8, <1>9, <1>10 DEF Next

-----------------------------------------------------------------------------
(* Room *)

\* A window with no more hits, and no more threads about to add one, is as full as it was.
LEMMA NoFuller ==
    ASSUME Room, NEW l \in Threads, NEW m \in Threads, NEW k \in Keys,
           Len(hits[l][k][m]) \in Nat, Len(hits'[l][k][m]) \in Nat,
           Len(hits'[l][k][m]) <= Len(hits[l][k][m]),
           Entering(l, k, m)' \subseteq Entering(l, k, m)
    PROVE  Len(hits'[l][k][m]) + Cardinality(Entering(l, k, m)')
             <= Limit + Cardinality(Threads) - 1
<1> DEFINE old == Entering(l, k, m)
           new == Entering(l, k, m)'
           before == Len(hits[l][k][m])
           after == Len(hits'[l][k][m])
<1>1. old \subseteq Threads /\ new \subseteq Threads /\ new \subseteq old
  BY DEF Entering
<1>2. /\ before + Cardinality(old) <= Limit + Cardinality(Threads) - 1
      /\ before \in Nat /\ after \in Nat /\ after <= before
  BY DEF Room
<1> HIDE DEF old, new, before, after
<1>3. /\ Cardinality(old) \in Nat /\ Cardinality(new) \in Nat
      /\ Cardinality(Threads) \in Nat /\ Cardinality(new) <= Cardinality(old)
  BY <1>1, SomeThreads, FewerThreads
<1>4. after + Cardinality(new) <= Limit + Cardinality(Threads) - 1
  BY <1>2, <1>3, LimiterAssumption
<1>5. QED
  BY <1>4 DEF new, after

\* The lengths of the windows are numbers.
LEMMA Lengths ==
    ASSUME hits \in [Threads -> [Keys -> [Threads -> Seq(0 .. MaxTime)]]],
           NEW l \in Threads, NEW m \in Threads, NEW k \in Keys
    PROVE  hits[l][k][m] \in Seq(0 .. MaxTime) /\ Len(hits[l][k][m]) \in Nat
<1>1. hits[l][k][m] \in Seq(0 .. MaxTime)
  OBVIOUS
<1>2. QED
  BY <1>1

\* Steps that leave the deques alone and decide nothing leave the room there is.
LEMMA RoomByGo ==
    ASSUME TypeOK, Room, NEW t \in Threads, NEW next \in Thread, Go(t, next),
           next.pc # "decide", hits' = hits
    PROVE  Room'
<1>1. /\ thread'[t] = next
      /\ \A x \in Threads \ {t} : thread'[x] = thread[x]
  BY GoEffect
<1>2. ASSUME NEW l \in Threads, NEW m \in Threads, NEW k \in Keys
      PROVE  Len(hits'[l][k][m]) + Cardinality(Entering(l, k, m)')
               <= Limit + Cardinality(Threads) - 1
  <2>1. Entering(l, k, m)' \subseteq Entering(l, k, m)
    BY <1>1 DEF Entering
  <2>2. Len(hits[l][k][m]) \in Nat
    BY Lengths DEF TypeOK
  <2>3. Len(hits'[l][k][m]) \in Nat /\ Len(hits'[l][k][m]) <= Len(hits[l][k][m])
    BY <2>2
  <2>4. QED
    BY <2>1, <2>2, <2>3, NoFuller
<1>3. QED
  BY <1>2 DEF Room

\* Trimming drops hits, and a thread enters only a window that it found with room in it.
LEMMA RoomTrim ==
    ASSUME TypeOK, Room, \A x \in Threads : Holds(x), NEW t \in Threads, Trim(t)
    PROVE  Room'
<1> USE LimiterAssumption
<1>1. /\ thread[t].pc = "trim" /\ thread[t].limiter \in Threads
      /\ thread[t].key \in Keys /\ thread[t].maker \in Threads
  BY DEF Trim, Holds
<1>2. Hits(t) \in Seq(0 .. MaxTime) /\ Len(Hits(t)) \in Nat
  BY <1>1, HitsType
<1>3. CASE Old(t, Hits(t))
  <2> DEFINE h == Tail(Hits(t))
  <2>1. h \in Seq(0 .. MaxTime) /\ Len(h) \in Nat /\ Len(h) <= Len(Hits(t))
    BY <1>2, <1>3 DEF Old
  <2>2. SetHits(t, h) /\ thread' = thread
    BY <1>3 DEF Trim
  <2> HIDE DEF h
  <2>3. ASSUME NEW l \in Threads, NEW m \in Threads, NEW k \in Keys
        PROVE  Len(hits'[l][k][m]) + Cardinality(Entering(l, k, m)')
                 <= Limit + Cardinality(Threads) - 1
    <3>1. hits'[l][k][m] =
            IF l = thread[t].limiter /\ k = thread[t].key /\ m = thread[t].maker
            THEN h ELSE hits[l][k][m]
      BY <1>1, <2>1, <2>2, OneWindow
    <3>2. Len(hits[l][k][m]) \in Nat
      BY Lengths DEF TypeOK
    <3>3. Len(hits'[l][k][m]) \in Nat /\ Len(hits'[l][k][m]) <= Len(hits[l][k][m])
      BY <2>1, <3>1, <3>2 DEF Hits
    <3>4. Entering(l, k, m)' \subseteq Entering(l, k, m)
      BY <2>2 DEF Entering
    <3>5. QED
      BY <3>2, <3>3, <3>4, NoFuller
  <2>4. QED
    BY <2>3 DEF Room
<1>4. CASE ~Old(t, Hits(t))
  <2> DEFINE next == [thread[t] EXCEPT !.pc = "decide", !.count = Len(Hits(t))]
  <2>1. Go(t, next) /\ hits' = hits
    BY <1>4 DEF Trim
  <2>2. /\ next \in Thread /\ next.pc = "decide" /\ next.count = Len(Hits(t))
        /\ next.limiter = thread[t].limiter /\ next.key = thread[t].key
        /\ next.maker = thread[t].maker
    BY <1>2, ThreadType DEF Thread, Label
  <2> HIDE DEF next
  <2>3. /\ thread'[t] = next
        /\ \A x \in Threads \ {t} : thread'[x] = thread[x]
    BY <2>1, <2>2, GoEffect
  <2>4. ASSUME NEW l \in Threads, NEW m \in Threads, NEW k \in Keys
        PROVE  Len(hits'[l][k][m]) + Cardinality(Entering(l, k, m)')
                 <= Limit + Cardinality(Threads) - 1
    <3>1. /\ Len(hits[l][k][m]) \in Nat /\ Len(hits'[l][k][m]) \in Nat
          /\ Len(hits'[l][k][m]) = Len(hits[l][k][m])
          /\ Len(hits'[l][k][m]) <= Len(hits[l][k][m])
      BY <2>1, Lengths DEF TypeOK
    <3>2. CASE Len(hits[l][k][m]) < Limit
      <4>1. /\ Cardinality(Entering(l, k, m)') <= Cardinality(Threads)
            /\ Cardinality(Entering(l, k, m)') \in Nat /\ Cardinality(Threads) \in Nat
        <5>1. Entering(l, k, m)' \subseteq Threads
          BY DEF Entering
        <5>2. QED
          BY <5>1, SomeThreads
      <4>2. QED
        BY <3>1, <3>2, <4>1
    <3>3. CASE ~(Len(hits[l][k][m]) < Limit)
      <4>1. t \notin Entering(l, k, m)'
        <5> SUFFICES ASSUME t \in Entering(l, k, m)' PROVE FALSE
          OBVIOUS
        <5>1. /\ next.count < Limit /\ next.limiter = l /\ next.key = k
              /\ next.maker = m
          BY <2>3 DEF Entering
        <5>2. next.count = Len(hits[l][k][m])
          BY <2>2, <5>1 DEF Hits
        <5>3. QED
          BY <3>3, <5>1, <5>2
      <4>2. Entering(l, k, m)' \subseteq Entering(l, k, m)
        BY <2>3, <4>1 DEF Entering
      <4>3. QED
        BY <3>1, <4>2, NoFuller
    <3>4. QED
      BY <3>2, <3>3
  <2>5. QED
    BY <2>4 DEF Room
<1>5. QED
  BY <1>3, <1>4

\* A hit that is added is the one its thread was counted for.
LEMMA RoomAccept ==
    ASSUME TypeOK, Room, \A x \in Threads : Holds(x), NEW t \in Threads, Accept(t)
    PROVE  Room'
<1> USE LimiterAssumption
<1> DEFINE h == Append(Hits(t), thread[t].now)
<1>1. /\ thread[t].pc = "decide" /\ thread[t].limiter \in Threads
      /\ thread[t].key \in Keys /\ thread[t].maker \in Threads
      /\ thread[t].count \in Nat /\ thread[t].count < Limit
  BY ThreadType DEF Accept, Holds, Full
<1>2. /\ Hits(t) \in Seq(0 .. MaxTime) /\ Len(Hits(t)) \in Nat
      /\ h \in Seq(0 .. MaxTime) /\ Len(h) = Len(Hits(t)) + 1
  BY <1>1, HitsType, ThreadType
<1>3. SetHits(t, h) /\ Go(t, Waiting)
  BY DEF Accept
<1> HIDE DEF h
<1>4. /\ thread'[t] = Waiting /\ Waiting.pc = "idle"
      /\ \A x \in Threads \ {t} : thread'[x] = thread[x]
  <2>1. Waiting \in Thread
    BY ThreadType
  <2>2. QED
    BY <1>3, <2>1, GoEffect DEF Waiting
<1>5. ASSUME NEW l \in Threads, NEW m \in Threads, NEW k \in Keys
      PROVE  Len(hits'[l][k][m]) + Cardinality(Entering(l, k, m)')
               <= Limit + Cardinality(Threads) - 1
  <2>1. hits'[l][k][m] =
          IF l = thread[t].limiter /\ k = thread[t].key /\ m = thread[t].maker
          THEN h ELSE hits[l][k][m]
    BY <1>1, <1>2, <1>3, OneWindow
  <2>2. Len(hits[l][k][m]) \in Nat
    BY Lengths DEF TypeOK
  <2>3. CASE l = thread[t].limiter /\ k = thread[t].key /\ m = thread[t].maker
    <3> DEFINE old == Entering(l, k, m)
               new == Entering(l, k, m)'
    <3>1. new = old \ {t} /\ t \in old /\ old \subseteq Threads /\ new \subseteq Threads
      BY <1>1, <1>4, <2>3 DEF Entering
    <3>2. Len(hits[l][k][m]) + Cardinality(old) <= Limit + Cardinality(Threads) - 1
      BY DEF Room
    <3>3. Len(hits'[l][k][m]) = Len(hits[l][k][m]) + 1
      BY <1>2, <2>1, <2>3 DEF Hits
    <3> HIDE DEF old, new
    <3>4. /\ Cardinality(new) = Cardinality(old) - 1 /\ Cardinality(old) \in Nat
          /\ Cardinality(new) \in Nat /\ Cardinality(Threads) \in Nat
      BY <3>1, SomeThreads, FS_RemoveElement
    <3>5. Len(hits'[l][k][m]) + Cardinality(new) <= Limit + Cardinality(Threads) - 1
      BY <2>2, <3>2, <3>3, <3>4
    <3>6. QED
      BY <3>5 DEF new
  <2>4. CASE ~(l = thread[t].limiter /\ k = thread[t].key /\ m = thread[t].maker)
    <3>1. Entering(l, k, m)' \subseteq Entering(l, k, m)
      BY <1>4 DEF Entering
    <3>2. Len(hits'[l][k][m]) \in Nat /\ Len(hits'[l][k][m]) <= Len(hits[l][k][m])
      BY <2>1, <2>2, <2>4
    <3>3. QED
      BY <2>2, <3>1, <3>2, NoFuller
  <2>5. QED
    BY <2>3, <2>4
<1>6. QED
  BY <1>5 DEF Room

\* Every step leaves the room the bound leaves.
LEMMA RoomStep ==
    ASSUME TypeOK, Room, \A x \in Threads : Holds(x), Next
    PROVE  Room'
<1> USE LimiterAssumption
<1>1. ASSUME NEW t \in Threads, Call(t) PROVE Room'
  <2>1. PICK k \in Keys : Go(t, [Waiting EXCEPT !.pc = "get", !.key = k])
    BY <1>1 DEF Call
  <2> DEFINE next == [Waiting EXCEPT !.pc = "get", !.key = k]
  <2>2. next \in Thread /\ next.pc # "decide" /\ Go(t, next) /\ hits' = hits
    BY <1>1, <2>1, ThreadType DEF Call, Thread, Label
  <2> HIDE DEF next
  <2>3. QED
    BY <2>2, RoomByGo
<1>2. ASSUME NEW t \in Threads, Get(t) PROVE Room'
  <2> DEFINE next == IF limiter = None THEN [thread[t] EXCEPT !.pc = "create"]
                     ELSE [thread[t] EXCEPT !.pc = "check", !.limiter = limiter]
  <2>1. next \in Thread /\ next.pc # "decide" /\ Go(t, next) /\ hits' = hits
    BY <1>2 DEF Get, TypeOK, Thread, Label
  <2> HIDE DEF next
  <2>2. QED
    BY <2>1, RoomByGo
<1>3. ASSUME NEW t \in Threads, Create(t) PROVE Room'
  <2> DEFINE next == [thread[t] EXCEPT !.pc = "check", !.limiter = t]
  <2>1. next \in Thread /\ next.pc # "decide" /\ Go(t, next) /\ hits' = hits
    BY <1>3, ThreadType DEF Create, Thread, Label
  <2> HIDE DEF next
  <2>2. QED
    BY <2>1, RoomByGo
<1>4. ASSUME NEW t \in Threads, ReadClock(t) PROVE Room'
  <2> DEFINE next == [thread[t] EXCEPT !.pc = "window", !.now = clock]
  <2>1. next \in Thread /\ next.pc # "decide" /\ Go(t, next) /\ hits' = hits
    BY <1>4, ThreadType DEF ReadClock, Thread, Label, TypeOK
  <2> HIDE DEF next
  <2>2. QED
    BY <2>1, RoomByGo
<1>5. ASSUME NEW t \in Threads, FindWindow(t) PROVE Room'
  <2> DEFINE maker == windows[thread[t].limiter][thread[t].key]
             next == IF maker = None THEN [thread[t] EXCEPT !.pc = "make"]
                     ELSE [thread[t] EXCEPT !.pc = "trim", !.maker = maker]
  <2>1. maker \in Threads \cup {None} /\ Go(t, next) /\ hits' = hits
    BY <1>5 DEF FindWindow, Holds, TypeOK
  <2>2. next \in Thread /\ next.pc # "decide"
    <3> HIDE DEF maker
    <3>1. thread[t] \in Thread /\ "make" \in Label /\ "trim" \in Label
      BY ThreadType DEF Label
    <3>2. CASE maker = None
      BY <3>1, <3>2 DEF Thread
    <3>3. CASE maker # None
      BY <2>1, <3>1, <3>3 DEF Thread
    <3>4. QED
      BY <3>2, <3>3
  <2> HIDE DEF next
  <2>3. QED
    BY <2>1, <2>2, RoomByGo
<1>6. ASSUME NEW t \in Threads, MakeWindow(t) PROVE Room'
  <2> DEFINE next == [thread[t] EXCEPT !.pc = "trim", !.maker = t]
  <2>1. next \in Thread /\ next.pc # "decide" /\ Go(t, next) /\ hits' = hits
    BY <1>6, ThreadType DEF MakeWindow, Thread, Label
  <2> HIDE DEF next
  <2>2. QED
    BY <2>1, RoomByGo
<1>7. ASSUME NEW t \in Threads, Trim(t) PROVE Room'
  BY <1>7, RoomTrim
<1>8. ASSUME NEW t \in Threads, Accept(t) PROVE Room'
  BY <1>8, RoomAccept
<1>9. ASSUME NEW t \in Threads, Reject(t) PROVE Room'
  <2>1. Waiting \in Thread /\ Waiting.pc # "decide" /\ Go(t, Waiting) /\ hits' = hits
    BY <1>9, ThreadType DEF Reject, Waiting
  <2>2. QED
    BY <2>1, RoomByGo
<1>10. CASE Tick
  BY <1>10 DEF Tick, Room, Entering
<1>11. QED
  BY <1>1, <1>2, <1>3, <1>4, <1>5, <1>6, <1>7, <1>8, <1>9, <1>10 DEF Next

-----------------------------------------------------------------------------
(* The invariant and the theorems *)

\* At the start no thread counts and every window is empty.
LEMMA InitInv == Init => IInv
<1> SUFFICES ASSUME Init PROVE IInv
  OBVIOUS
<1> USE LimiterAssumption
<1>1. Waiting \in Thread /\ Waiting.pc = "idle"
  <2>1. "idle" \in Label /\ 0 \in 0 .. MaxTime /\ 0 \in Nat
    BY DEF Label
  <2>2. QED
    BY <2>1 DEF Waiting, Thread
<1>2. TypeOK
  <2>1. << >> \in Seq(0 .. MaxTime) /\ 0 \in 0 .. MaxTime
    OBVIOUS
  <2>2. QED
    BY <1>1, <2>1 DEF Init, TypeOK
<1>3. \A t \in Threads : Holds(t)
  BY <1>1 DEF Init, Holds
<1>4. Room
  <2>1. ASSUME NEW l \in Threads, NEW m \in Threads, NEW k \in Keys
        PROVE  Len(hits[l][k][m]) + Cardinality(Entering(l, k, m))
                 <= Limit + Cardinality(Threads) - 1
    <3>1. hits[l][k][m] = << >> /\ Entering(l, k, m) = {}
      BY <1>1 DEF Init, Entering
    <3>2. Len(hits[l][k][m]) = 0 /\ Cardinality(Entering(l, k, m)) = 0
      BY <3>1, FS_EmptySet
    <3>3. Cardinality(Threads) \in Nat
      BY SomeThreads
    <3>4. QED
      BY <3>2, <3>3
  <2>2. QED
    BY <2>1 DEF Room
<1>5. QED
  BY <1>2, <1>3, <1>4 DEF IInv

\* Every step, and every stuttering step, preserves the invariant.
LEMMA StepInv == IInv /\ [Next]_vars => IInv'
<1> SUFFICES ASSUME IInv, [Next]_vars PROVE IInv'
  OBVIOUS
<1>1. CASE Next
  BY <1>1, TypeStep, RoomStep DEF IInv
<1>2. CASE UNCHANGED vars
  BY <1>2 DEF IInv, vars, TypeOK, Holds, Room, Entering
<1>3. QED
  BY <1>1, <1>2

\* The invariant bounds what a window holds: who is about to add counts as none or more.
LEMMA InvBounds == IInv => OvershootBounded
<1> SUFFICES ASSUME IInv, NEW l \in Threads, NEW m \in Threads, NEW k \in Keys
             PROVE  Len(hits[l][k][m]) <= Limit + Cardinality(Threads) - 1
  BY DEF OvershootBounded
<1>1. Len(hits[l][k][m]) + Cardinality(Entering(l, k, m)) <= Limit + Cardinality(Threads) - 1
  BY DEF IInv, Room
<1>2. Len(hits[l][k][m]) \in Nat
  BY Lengths DEF IInv, TypeOK
<1>3. Cardinality(Entering(l, k, m)) \in Nat /\ Cardinality(Threads) \in Nat
  <2>1. Entering(l, k, m) \subseteq Threads
    BY DEF Entering
  <2>2. QED
    BY <2>1, SomeThreads
<1>4. QED
  BY <1>1, <1>2, <1>3, LimiterAssumption

\* The limiter and the threads in it have the shape the code gives them, for every limit
\* and any number of threads and clients.
THEOREM LimiterTypeCorrect == Spec => []TypeOK
<1>1. IInv => TypeOK
  BY DEF IInv
<1>2. QED
  BY InitInv, StepInv, <1>1, PTL DEF Spec

\* However many threads of the pool count one client's window at the same time, each adds
\* at most one hit over the limit: check() of security.py, with no lock around it.
THEOREM OvershootIsBounded == Spec => []OvershootBounded
BY InitInv, StepInv, InvBounds, PTL DEF Spec

-----------------------------------------------------------------------------
(* What a client's deque knows of the requests that were let in *)

\* The hits "h" are the last of the client's requests "a"; those before are older than the
\* minute up to "now". They were let in one after the other, the last by "now".
Tracks(a, h, now) ==
    /\ Len(h) <= Len(a)
    /\ \A i \in 1 .. Len(h) : h[i] = a[Len(a) - Len(h) + i]
    /\ \A i \in 1 .. Len(a) - Len(h) : a[i] + Minute < now
    /\ \A i, j \in 1 .. Len(a) : i <= j => a[i] <= a[j]
    /\ \A i \in 1 .. Len(a) : a[i] <= now

\* The requests "a" of the minute up to "now".
Recent(a, now) == {i \in DOMAIN a : now <= a[i] + Minute /\ a[i] <= now}

\* What is older than a minute stays so.
LEMMA TracksLater ==
    ASSUME NEW a \in Seq(0 .. MaxTime), NEW h \in Seq(0 .. MaxTime), NEW now \in Nat,
           NEW later \in Nat, now <= later, Tracks(a, h, now)
    PROVE  Tracks(a, h, later)
<1>1. /\ Len(a) \in Nat /\ Len(h) \in Nat /\ Minute \in Nat
      /\ \A i \in 1 .. Len(a) : a[i] \in Nat
  BY LimiterAssumption
<1>2. Len(h) <= Len(a) /\ \A i \in 1 .. Len(a) - Len(h) : i \in 1 .. Len(a)
  BY <1>1 DEF Tracks
<1>3. \A i \in 1 .. Len(a) - Len(h) : a[i] + Minute < later
  BY <1>1, <1>2 DEF Tracks
<1>4. \A i \in 1 .. Len(a) : a[i] <= later
  BY <1>1 DEF Tracks
<1>5. QED
  BY <1>3, <1>4 DEF Tracks

\* The loop drops only what is older than the minute.
LEMMA TracksTail ==
    ASSUME NEW a \in Seq(0 .. MaxTime), NEW h \in Seq(0 .. MaxTime), NEW now \in Nat,
           Tracks(a, h, now), h # << >>, Head(h) + Minute < now
    PROVE  Tracks(a, Tail(h), now)
<1> DEFINE n == Len(a)
           m == Len(h)
           s == Tail(h)
<1>1. /\ n \in Nat /\ m \in Nat /\ m >= 1 /\ m <= n /\ Head(h) = h[1]
      /\ Len(s) = m - 1 /\ \A i \in 1 .. m - 1 : s[i] = h[i + 1]
  BY DEF Tracks
<1>2. /\ \A i \in 1 .. m : h[i] = a[n - m + i]
      /\ \A i \in 1 .. n - m : a[i] + Minute < now
      /\ \A i, j \in 1 .. n : i <= j => a[i] <= a[j]
      /\ \A i \in 1 .. n : a[i] <= now
  BY DEF Tracks
<1> HIDE DEF n, m, s
<1>3. \A i \in 1 .. Len(s) : s[i] = a[n - Len(s) + i]
  <2> SUFFICES ASSUME NEW i \in 1 .. Len(s) PROVE s[i] = a[n - Len(s) + i]
    OBVIOUS
  <2>1. i \in 1 .. m - 1 /\ i + 1 \in 1 .. m /\ n - Len(s) + i = n - m + (i + 1)
    BY <1>1
  <2>2. QED
    BY <1>1, <1>2, <2>1
<1>4. \A i \in 1 .. n - Len(s) : a[i] + Minute < now
  <2> SUFFICES ASSUME NEW i \in 1 .. n - Len(s) PROVE a[i] + Minute < now
    OBVIOUS
  <2>1. i \in 1 .. n - m \/ i = n - m + 1
    BY <1>1
  <2>2. h[1] = a[n - m + 1]
    BY <1>1, <1>2
  <2>3. QED
    BY <1>1, <1>2, <2>1, <2>2
<1>5. Len(s) <= n
  BY <1>1
<1>6. QED
  BY <1>2, <1>3, <1>4, <1>5 DEF Tracks, n, s

\* A request that is let in is the last of both.
LEMMA TracksAppend ==
    ASSUME NEW a \in Seq(0 .. MaxTime), NEW h \in Seq(0 .. MaxTime), NEW now \in 0 .. MaxTime,
           Tracks(a, h, now)
    PROVE  Tracks(Append(a, now), Append(h, now), now)
<1> DEFINE n == Len(a)
           m == Len(h)
           b == Append(a, now)
           g == Append(h, now)
<1>1. /\ n \in Nat /\ m \in Nat /\ m <= n /\ Len(b) = n + 1 /\ Len(g) = m + 1
      /\ b[n + 1] = now /\ \A i \in 1 .. n : b[i] = a[i]
      /\ g[m + 1] = now /\ \A i \in 1 .. m : g[i] = h[i]
  BY DEF Tracks
<1>2. /\ \A i \in 1 .. m : h[i] = a[n - m + i]
      /\ \A i \in 1 .. n - m : a[i] + Minute < now
      /\ \A i, j \in 1 .. n : i <= j => a[i] <= a[j]
      /\ \A i \in 1 .. n : a[i] <= now
  BY DEF Tracks
<1> HIDE DEF n, m, b, g
<1>3. \A i \in 1 .. Len(g) : g[i] = b[Len(b) - Len(g) + i]
  <2> SUFFICES ASSUME NEW i \in 1 .. m + 1 PROVE g[i] = b[n - m + i]
    BY <1>1
  <2>1. CASE i = m + 1
    <3>1. n - m + i = n + 1
      BY <1>1, <2>1
    <3>2. QED
      BY <1>1, <2>1, <3>1
  <2>2. CASE i # m + 1
    <3>1. i \in 1 .. m /\ n - m + i \in 1 .. n
      BY <1>1, <2>2
    <3>2. QED
      BY <1>1, <1>2, <3>1
  <2>3. QED
    BY <2>1, <2>2
<1>4. \A i \in 1 .. Len(b) - Len(g) : b[i] + Minute < now
  <2> SUFFICES ASSUME NEW i \in 1 .. n - m PROVE b[i] + Minute < now
    BY <1>1
  <2>1. i \in 1 .. n
    BY <1>1
  <2>2. QED
    BY <1>1, <1>2, <2>1
<1>5. \A i \in 1 .. Len(b) : b[i] <= now /\ (i \in 1 .. n \/ i = n + 1)
  BY <1>1, <1>2
<1>6. \A i, j \in 1 .. Len(b) : i <= j => b[i] <= b[j]
  <2> SUFFICES ASSUME NEW i \in 1 .. Len(b), NEW j \in 1 .. Len(b), i <= j PROVE b[i] <= b[j]
    OBVIOUS
  <2>1. CASE j = n + 1
    BY <1>1, <1>5, <2>1
  <2>2. CASE j # n + 1
    <3>1. i \in 1 .. n /\ j \in 1 .. n
      BY <1>1, <2>2
    <3>2. QED
      BY <1>1, <1>2, <3>1
  <2>3. QED
    BY <2>1, <2>2
<1>7. Len(g) <= Len(b)
  BY <1>1
<1>8. QED
  BY <1>3, <1>4, <1>5, <1>6, <1>7 DEF Tracks, b, g

\* Once nothing old is left in front, the deque is as long as the minute has requests.
LEMMA CountIsExact ==
    ASSUME NEW a \in Seq(0 .. MaxTime), NEW h \in Seq(0 .. MaxTime), NEW now \in 0 .. MaxTime,
           Tracks(a, h, now), h = << >> \/ ~(Head(h) + Minute < now)
    PROVE  Cardinality(Recent(a, now)) = Len(h)
<1> DEFINE n == Len(a)
           m == Len(h)
<1>1. /\ n \in Nat /\ m \in Nat /\ m <= n /\ Minute \in Nat
      /\ \A i \in 1 .. n : a[i] \in Nat
      /\ m >= 1 => h[1] = a[n - m + 1] /\ now <= h[1] + Minute
  <2>1. /\ n \in Nat /\ m \in Nat /\ m <= n /\ Minute \in Nat /\ \A i \in 1 .. n : a[i] \in Nat
    BY LimiterAssumption DEF Tracks
  <2>2. ASSUME m >= 1 PROVE h[1] = a[n - m + 1] /\ now <= h[1] + Minute
    <3>1. h[1] = a[n - m + 1] /\ Head(h) = h[1] /\ h # << >> /\ h[1] \in Nat
      BY <2>1, <2>2 DEF Tracks
    <3>2. QED
      BY <2>1, <3>1
  <2>3. QED
    BY <2>1, <2>2
<1>2. /\ \A i \in 1 .. n - m : a[i] + Minute < now
      /\ \A i, j \in 1 .. n : i <= j => a[i] <= a[j]
      /\ \A i \in 1 .. n : a[i] <= now
  BY DEF Tracks
<1>3. Recent(a, now) = {i \in 1 .. n : now <= a[i] + Minute /\ a[i] <= now}
  BY DEF Recent
<1> HIDE DEF n, m
<1>4. ASSUME NEW i \in 1 .. n PROVE now <= a[i] + Minute <=> i \in n - m + 1 .. n
  <2>1. CASE i \in 1 .. n - m
    BY <1>1, <1>2, <2>1
  <2>2. CASE i \notin 1 .. n - m
    <3>1. n - m + 1 <= i /\ m >= 1 /\ n - m + 1 \in 1 .. n /\ i \in n - m + 1 .. n
      BY <1>1, <2>2
    <3>2. a[n - m + 1] <= a[i]
      BY <1>2, <3>1
    <3>3. QED
      BY <1>1, <3>1, <3>2
  <2>3. QED
    BY <2>1, <2>2
<1>5. \A i \in n - m + 1 .. n : i \in 1 .. n
  BY <1>1
<1>6. Recent(a, now) = n - m + 1 .. n
  BY <1>2, <1>3, <1>4, <1>5
<1>7. Cardinality(n - m + 1 .. n) = m
  BY <1>1, FS_Interval
<1>8. QED
  BY <1>6, <1>7 DEF m

-----------------------------------------------------------------------------
(* Calls that do not overlap: the invariant *)

\* The hits of the client that a call beginning now would find.
Deque(k) ==
    IF limiter = None \/ windows[limiter][k] = None THEN << >>
    ELSE hits[limiter][k][windows[limiter][k]]

\* Two calls are not under way at once.
OneCall == \A x, y \in Threads : thread[x].pc # "idle" /\ thread[y].pc # "idle" => x = y

\* What nobody has made yet is empty.
Fresh ==
    /\ limiter = None => \A l \in Threads, k \in Keys : windows[l][k] = None
    /\ \A l, m \in Threads, k \in Keys : windows[l][k] = None => hits[l][k][m] = << >>

\* Each client's deque knows of its requests.
Known == \A k \in Keys : Tracks(admitted[k], Deque(k), clock)

Judging == {"window", "make", "trim", "decide"}

\* The call under way works on what a call beginning now would find, and what it has read
\* still holds.
Serves(t) ==
    /\ thread[t].pc = "create" => limiter = None
    /\ thread[t].pc \in {"check"} \cup Judging => thread[t].limiter = limiter
    /\ thread[t].pc = "make" => windows[limiter][thread[t].key] = None
    /\ thread[t].pc \in {"trim", "decide"} => thread[t].maker = windows[limiter][thread[t].key]
    /\ thread[t].pc \in Judging =>
         /\ thread[t].now <= clock
         /\ \A k \in Keys : Tracks(admitted[k], Deque(k), thread[t].now)
    /\ thread[t].pc = "decide" => thread[t].count = Len(Hits(t)) /\ ~Old(t, Hits(t))

Alone == OneCall /\ Fresh /\ Known /\ \A t \in Threads : Serves(t)

SerialInv == TypeOK /\ (\A t \in Threads : Holds(t)) /\ (~overlapped => Alone)

\* A client's deque is a sequence of times.
LEMMA DequeType ==
    ASSUME TypeOK, NEW k \in Keys
    PROVE  /\ Deque(k) \in Seq(0 .. MaxTime) /\ admitted[k] \in Seq(0 .. MaxTime)
           /\ clock \in Nat /\ clock \in 0 .. MaxTime
<1>1. << >> \in Seq(0 .. MaxTime) /\ clock \in 0 .. MaxTime
  BY DEF TypeOK
<1>2. limiter # None => limiter \in Threads
  BY DEF TypeOK
<1>3. limiter \in Threads /\ windows[limiter][k] # None => windows[limiter][k] \in Threads
  BY DEF TypeOK
<1>4. Deque(k) \in Seq(0 .. MaxTime)
  <2>1. CASE limiter = None \/ windows[limiter][k] = None
    BY <1>1, <2>1 DEF Deque
  <2>2. CASE ~(limiter = None \/ windows[limiter][k] = None)
    <3>1. limiter \in Threads /\ windows[limiter][k] \in Threads
      BY <1>2, <1>3, <2>2
    <3>2. hits[limiter][k][windows[limiter][k]] \in Seq(0 .. MaxTime)
      BY <3>1 DEF TypeOK
    <3>3. QED
      BY <2>2, <3>2 DEF Deque
  <2>3. QED
    BY <2>1, <2>2
<1>5. QED
  BY <1>1, <1>4 DEF TypeOK

\* The deque a call holds is the client's.
LEMMA HoldsDeque ==
    ASSUME TypeOK, NEW t \in Threads, Holds(t), Serves(t), thread[t].pc \in {"trim", "decide"}
    PROVE  /\ thread[t].key \in Keys /\ limiter \in Threads /\ thread[t].limiter = limiter
           /\ windows[limiter][thread[t].key] \in Threads
           /\ thread[t].maker = windows[limiter][thread[t].key]
           /\ Hits(t) = Deque(thread[t].key) /\ Hits(t) \in Seq(0 .. MaxTime)
           /\ admitted[thread[t].key] \in Seq(0 .. MaxTime)
           /\ thread[t].now \in 0 .. MaxTime /\ thread[t].now <= clock
           /\ Tracks(admitted[thread[t].key], Hits(t), thread[t].now)
<1>1. /\ thread[t].key \in Keys /\ limiter \in Threads /\ thread[t].limiter = limiter
      /\ thread[t].maker = windows[limiter][thread[t].key] /\ thread[t].maker \in Threads
  BY DEF Holds, Serves, Judging
<1>2. Hits(t) = Deque(thread[t].key)
  BY <1>1, LimiterAssumption DEF Hits, Deque
<1>3. /\ Tracks(admitted[thread[t].key], Deque(thread[t].key), thread[t].now)
      /\ thread[t].now <= clock
  BY <1>1 DEF Serves, Judging
<1>4. thread[t].now \in 0 .. MaxTime
  BY ThreadType
<1>5. QED
  BY <1>1, <1>2, <1>3, <1>4, DequeType

\* What a deque knows, it knows later as well.
LEMMA KnownLater ==
    ASSUME TypeOK, NEW k \in Keys, NEW now \in Nat, NEW later \in Nat, now <= later,
           Tracks(admitted[k], Deque(k), now)
    PROVE  Tracks(admitted[k], Deque(k), later)
BY DequeType, TracksLater

\* When one thread goes on and no other is in a call, it is enough to look at that one.
LEMMA AloneByGo ==
    ASSUME TypeOK, NEW t \in Threads, \A x \in Threads \ {t} : thread[x].pc = "idle",
           NEW next \in Thread, Go(t, next), Fresh', Known', Serves(t)'
    PROVE  Alone'
<1>1. /\ thread'[t] = next /\ \A x \in Threads \ {t} : thread'[x] = thread[x]
  BY GoEffect
<1>2. OneCall'
  BY <1>1 DEF OneCall
<1>3. ASSUME NEW x \in Threads PROVE Serves(x)'
  <2>1. CASE x = t
    BY <2>1
  <2>2. CASE x # t
    <3>1. thread'[x].pc = "idle"
      BY <1>1, <2>2
    <3>2. QED
      BY <3>1 DEF Serves, Judging
  <2>3. QED
    BY <2>1, <2>2
<1>4. QED
  BY <1>2, <1>3 DEF Alone

\* A step within a call is taken by the only call under way.
LEMMA OthersIdle ==
    ASSUME Alone, NEW t \in Threads, thread[t].pc # "idle"
    PROVE  \A x \in Threads \ {t} : thread[x].pc = "idle"
BY DEF Alone, OneCall

\* While the deques stay as they are, so does what they know.
LEMMA KnownStays ==
    ASSUME Alone, UNCHANGED <<clock, admitted, limiter, windows, hits>>
    PROVE  /\ Fresh' /\ Known' /\ \A k \in Keys : Deque(k)' = Deque(k)
BY DEF Alone, Fresh, Known, Deque, Tracks

\* At the start no call is under way and nothing was let in.
LEMMA SerialInit == Init => SerialInv
<1> SUFFICES ASSUME Init PROVE SerialInv
  OBVIOUS
<1>1. TypeOK /\ \A x \in Threads : Holds(x)
  BY InitInv DEF IInv
<1>2. \A t \in Threads : thread[t].pc = "idle"
  BY DEF Init, Waiting
<1>3. ASSUME NEW k \in Keys PROVE Tracks(admitted[k], Deque(k), clock)
  <2>1. admitted[k] = << >> /\ Deque(k) = << >>
    BY DEF Init, Deque
  <2>2. QED
    BY <2>1 DEF Tracks
<1>4. Fresh
  BY DEF Init, Fresh
<1>5. Alone
  BY <1>2, <1>3, <1>4 DEF Alone, OneCall, Known, Serves, Judging
<1>6. QED
  BY <1>1, <1>5 DEF SerialInv

\* A call that begins when no other is under way holds nothing yet.
LEMMA SerialCall ==
    ASSUME TypeOK, Alone, NEW t \in Threads, Call(t), ~overlapped'
    PROVE  Alone'
<1>1. PICK k \in Keys : Go(t, [Waiting EXCEPT !.pc = "get", !.key = k])
  BY DEF Call
<1> DEFINE next == [Waiting EXCEPT !.pc = "get", !.key = k]
<1>2. next \in Thread /\ next.pc = "get"
  BY ThreadType DEF Thread, Label
<1>3. \A x \in Threads : thread[x].pc = "idle"
  BY DEF Call
<1>4. UNCHANGED <<clock, admitted, limiter, windows, hits>>
  BY DEF Call
<1>5. Go(t, next)
  BY <1>1
<1> HIDE DEF next
<1>6. thread'[t] = next
  BY <1>2, <1>5, GoEffect
<1>7. Serves(t)'
  BY <1>2, <1>6 DEF Serves, Judging
<1>8. QED
  BY <1>2, <1>3, <1>4, <1>5, <1>7, KnownStays, AloneByGo

\* The limiter the call takes is the one there is.
LEMMA SerialGet ==
    ASSUME TypeOK, Alone, NEW t \in Threads, Get(t)
    PROVE  Alone'
<1> DEFINE next == IF limiter = None THEN [thread[t] EXCEPT !.pc = "create"]
                   ELSE [thread[t] EXCEPT !.pc = "check", !.limiter = limiter]
<1>1. /\ next \in Thread
      /\ limiter = None => next.pc = "create"
      /\ limiter # None => next.pc = "check" /\ next.limiter = limiter
  <2>1. thread[t] \in Thread /\ limiter \in Threads \cup {None}
    BY ThreadType DEF TypeOK
  <2>2. QED
    BY <2>1 DEF Thread, Label
<1>2. Go(t, next) /\ UNCHANGED <<clock, admitted, limiter, windows, hits>>
  BY DEF Get
<1> HIDE DEF next
<1>3. thread'[t] = next
  BY <1>1, <1>2, GoEffect
<1>4. Serves(t)'
  BY <1>1, <1>2, <1>3 DEF Serves, Judging
<1>5. QED
  BY <1>1, <1>2, <1>4, KnownStays, OthersIdle, AloneByGo DEF Get

\* The limiter a call makes is the first, and empty.
LEMMA SerialCreate ==
    ASSUME TypeOK, Alone, NEW t \in Threads, Create(t)
    PROVE  Alone'
<1> DEFINE next == [thread[t] EXCEPT !.pc = "check", !.limiter = t]
<1>1. next \in Thread /\ next.pc = "check" /\ next.limiter = t
  BY ThreadType DEF Thread, Label
<1>2. /\ Go(t, next) /\ limiter' = t /\ UNCHANGED <<clock, admitted, windows, hits>>
      /\ thread[t].pc = "create"
  BY DEF Create
<1> HIDE DEF next
<1>3. limiter = None /\ t # None
  BY <1>2, LimiterAssumption DEF Alone, Serves
<1>4. \A k \in Keys : windows[t][k] = None
  BY <1>3 DEF Alone, Fresh
<1>5. \A k \in Keys : Deque(k)' = Deque(k)
  BY <1>2, <1>3, <1>4 DEF Deque
<1>6. Known'
  BY <1>2, <1>5 DEF Alone, Known, Tracks
<1>7. Fresh'
  BY <1>2, <1>3 DEF Alone, Fresh
<1>8. thread'[t] = next
  BY <1>1, <1>2, GoEffect
<1>9. Serves(t)'
  BY <1>1, <1>2, <1>8 DEF Serves, Judging
<1>10. QED
  BY <1>1, <1>2, <1>6, <1>7, <1>9, OthersIdle, AloneByGo

\* What each deque knows, it knows at the time the call reads.
LEMMA SerialReadClock ==
    ASSUME TypeOK, Alone, NEW t \in Threads, ReadClock(t)
    PROVE  Alone'
<1> DEFINE next == [thread[t] EXCEPT !.pc = "window", !.now = clock]
<1>1. /\ next \in Thread /\ next.pc = "window" /\ next.limiter = thread[t].limiter
      /\ next.now = clock
  BY ThreadType DEF TypeOK, Thread, Label
<1>2. /\ Go(t, next) /\ thread[t].pc = "check"
      /\ UNCHANGED <<clock, admitted, limiter, windows, hits>>
  BY DEF ReadClock
<1> HIDE DEF next
<1>3. thread'[t] = next
  BY <1>1, <1>2, GoEffect
<1>4. Fresh' /\ Known' /\ \A k \in Keys : Deque(k)' = Deque(k)
  BY <1>2, KnownStays
<1>5. thread[t].limiter = limiter /\ clock <= clock
  BY <1>2 DEF Alone, Serves, TypeOK
<1>6. \A k \in Keys : Tracks(admitted'[k], Deque(k)', next.now)
  BY <1>1, <1>2, <1>4 DEF Alone, Known
<1>7. Serves(t)'
  BY <1>1, <1>2, <1>3, <1>5, <1>6 DEF Serves, Judging, Tracks
<1>8. QED
  BY <1>1, <1>2, <1>4, <1>7, OthersIdle, AloneByGo

\* The window the call finds is the client's.
LEMMA SerialFindWindow ==
    ASSUME TypeOK, Alone, NEW t \in Threads, Holds(t), FindWindow(t)
    PROVE  Alone'
<1> DEFINE maker == windows[thread[t].limiter][thread[t].key]
           next == IF maker = None THEN [thread[t] EXCEPT !.pc = "make"]
                   ELSE [thread[t] EXCEPT !.pc = "trim", !.maker = maker]
<1>1. /\ thread[t].pc = "window" /\ Go(t, next)
      /\ UNCHANGED <<clock, admitted, limiter, windows, hits>>
  BY DEF FindWindow
<1>2. thread[t].limiter \in Threads /\ thread[t].key \in Keys
  BY <1>1 DEF Holds
<1>3. maker \in Threads \cup {None} /\ thread[t] \in Thread
  BY <1>2, ThreadType DEF TypeOK
<1>4. /\ thread[t].limiter = limiter /\ thread[t].now <= clock
      /\ \A k \in Keys : Tracks(admitted[k], Deque(k), thread[t].now)
  BY <1>1 DEF Alone, Serves, Judging
<1>5. maker = windows[limiter][thread[t].key]
  BY <1>4
<1> HIDE DEF maker
<1>6. /\ next \in Thread /\ next.key = thread[t].key /\ next.limiter = limiter
      /\ next.now = thread[t].now
      /\ maker = None => next.pc = "make"
      /\ maker # None => next.pc = "trim" /\ next.maker = maker
  BY <1>3, <1>4 DEF Thread, Label
<1> HIDE DEF next
<1>7. thread'[t] = next
  BY <1>1, <1>6, GoEffect
<1>8. Fresh' /\ Known' /\ \A k \in Keys : Deque(k)' = Deque(k)
  BY <1>1, KnownStays
<1>9. Serves(t)'
  <2>1. next.pc \in {"make", "trim"}
    BY <1>6
  <2>2. \A k \in Keys : Tracks(admitted'[k], Deque(k)', thread'[t].now)
    BY <1>1, <1>4, <1>6, <1>7, <1>8
  <2>3. /\ thread'[t].limiter = limiter' /\ thread'[t].now <= clock'
        /\ thread'[t].pc = "make" => windows'[limiter'][thread'[t].key] = None
        /\ thread'[t].pc = "trim" => thread'[t].maker = windows'[limiter'][thread'[t].key]
    BY <1>1, <1>4, <1>5, <1>6, <1>7
  <2>4. QED
    BY <1>7, <2>1, <2>2, <2>3 DEF Serves, Judging, Tracks
<1>10. QED
  BY <1>1, <1>6, <1>8, <1>9, OthersIdle, AloneByGo

\* The window a call makes is the client's first, and empty.
LEMMA SerialMakeWindow ==
    ASSUME TypeOK, Alone, NEW t \in Threads, Holds(t), MakeWindow(t)
    PROVE  Alone'
<1> DEFINE next == [thread[t] EXCEPT !.pc = "trim", !.maker = t]
<1>1. PICK key \in Keys :
        /\ thread[t].key = key /\ thread[t].pc = "make" /\ thread[t].limiter = limiter
        /\ limiter \in Threads /\ windows[limiter][key] = None /\ thread[t].now <= clock
        /\ \A k \in Keys : Tracks(admitted[k], Deque(k), thread[t].now)
  BY DEF MakeWindow, Holds, Alone, Serves, Judging
<1>2. /\ Go(t, next) /\ windows' = [windows EXCEPT ![limiter][key] = t]
      /\ UNCHANGED <<clock, admitted, limiter, hits>>
  BY <1>1 DEF MakeWindow
<1>3. /\ next \in Thread /\ next.pc = "trim" /\ next.key = key /\ next.limiter = limiter
      /\ next.maker = t /\ next.now = thread[t].now
  BY <1>1, ThreadType DEF Thread, Label
<1> HIDE DEF next
<1>4. \A l \in Threads, k \in Keys :
        windows'[l][k] = IF l = limiter /\ k = key THEN t ELSE windows[l][k]
  BY <1>1, <1>2 DEF TypeOK
<1>5. limiter # None /\ t # None
  BY <1>1, LimiterAssumption
<1>6. hits[limiter][key][t] = << >>
  BY <1>1 DEF Alone, Fresh
<1>7. \A k \in Keys : Deque(k)' = Deque(k)
  BY <1>1, <1>2, <1>4, <1>5, <1>6 DEF Deque
<1>8. Known'
  BY <1>2, <1>7 DEF Alone, Known, Tracks
<1>9. Fresh'
  BY <1>1, <1>2, <1>4, <1>5 DEF Alone, Fresh
<1>10. thread'[t] = next
  BY <1>2, <1>3, GoEffect
<1>11. \A k \in Keys : Tracks(admitted'[k], Deque(k)', thread'[t].now)
  BY <1>1, <1>2, <1>3, <1>7, <1>10
<1>12. Serves(t)'
  BY <1>1, <1>2, <1>3, <1>4, <1>10, <1>11 DEF Serves, Judging, Tracks
<1>13. QED
  BY <1>1, <1>2, <1>3, <1>8, <1>9, <1>12, OthersIdle, AloneByGo

\* Storing hits in the call's deque changes that client's deque and no other.
LEMMA OneDeque ==
    ASSUME TypeOK, Alone, NEW t \in Threads, Holds(t), thread[t].pc \in {"trim", "decide"},
           NEW h \in Seq(0 .. MaxTime), SetHits(t, h), UNCHANGED <<limiter, windows>>
    PROVE  /\ \A k \in Keys : Deque(k)' = IF k = thread[t].key THEN h ELSE Deque(k)
           /\ Fresh'
<1>1. PICK key \in Keys, maker \in Threads :
        /\ thread[t].key = key /\ thread[t].maker = maker /\ thread[t].limiter = limiter
        /\ limiter \in Threads /\ windows[limiter][key] = maker
  BY HoldsDeque DEF Alone
<1>2. \A l, m \in Threads, k \in Keys : hits'[l][k][m] =
        IF l = limiter /\ k = key /\ m = maker THEN h ELSE hits[l][k][m]
  <2>1. /\ thread[t].limiter \in Threads /\ thread[t].key \in Keys
        /\ thread[t].maker \in Threads
    BY <1>1
  <2>2. \A l, m \in Threads, k \in Keys : hits'[l][k][m] =
          IF l = thread[t].limiter /\ k = thread[t].key /\ m = thread[t].maker
          THEN h ELSE hits[l][k][m]
    BY <2>1, OneWindow
  <2>3. QED
    BY <1>1, <2>2
<1>3. limiter # None /\ maker # None
  BY <1>1, LimiterAssumption
<1>4. ASSUME NEW k \in Keys PROVE Deque(k)' = IF k = key THEN h ELSE Deque(k)
  <2>1. CASE windows[limiter][k] = None
    BY <1>1, <1>3, <2>1 DEF Deque
  <2>2. CASE windows[limiter][k] # None
    <3>1. windows[limiter][k] \in Threads
      BY <1>1, <2>2 DEF TypeOK
    <3>2. QED
      BY <1>1, <1>2, <1>3, <2>2, <3>1 DEF Deque
  <2>3. QED
    BY <2>1, <2>2
<1>5. Fresh'
  BY <1>1, <1>2, <1>3 DEF Alone, Fresh
<1>6. QED
  BY <1>1, <1>4, <1>5

\* Trimming: what is dropped is older than the minute, and what is counted is all there is.
LEMMA SerialTrim ==
    ASSUME TypeOK, Alone, NEW t \in Threads, Holds(t), Trim(t)
    PROVE  Alone'
<1>1. thread[t].pc = "trim" /\ UNCHANGED <<clock, admitted, limiter, windows>>
  BY DEF Trim
<1>2. PICK key \in Keys, now \in 0 .. MaxTime :
        /\ thread[t].key = key /\ thread[t].limiter = limiter
        /\ thread[t].maker = windows[limiter][key]
        /\ thread[t].now = now /\ now <= clock
        /\ Hits(t) = Deque(key) /\ Hits(t) \in Seq(0 .. MaxTime)
        /\ admitted[key] \in Seq(0 .. MaxTime) /\ Tracks(admitted[key], Hits(t), now)
        /\ \A k \in Keys : Tracks(admitted[k], Deque(k), now)
  <2>1. \A k \in Keys : Tracks(admitted[k], Deque(k), thread[t].now)
    BY <1>1 DEF Alone, Serves, Judging
  <2>2. QED
    BY <1>1, <2>1, HoldsDeque DEF Alone
<1>3. CASE Old(t, Hits(t))
  <2>1. PICK h \in Seq(0 .. MaxTime) : h = Tail(Hits(t))
    <3>1. \A h \in Seq(0 .. MaxTime) : h # << >> => Tail(h) \in Seq(0 .. MaxTime)
      OBVIOUS
    <3>2. QED
      BY <1>2, <1>3, <3>1 DEF Old
  <2>2. SetHits(t, h) /\ UNCHANGED thread
    BY <1>3, <2>1 DEF Trim
  <2>3. /\ \A k \in Keys : Deque(k)' = IF k = key THEN h ELSE Deque(k)
        /\ Fresh'
    BY <1>1, <1>2, <2>2, OneDeque
  <2>4. Tracks(admitted[key], h, now)
    BY <1>2, <1>3, <2>1, TracksTail DEF Old
  <2>5. \A k \in Keys : Tracks(admitted[k], Deque(k)', now)
    BY <1>2, <2>3, <2>4
  <2>6. ASSUME NEW k \in Keys PROVE Tracks(admitted[k], Deque(k)', clock)
    <3>1. Deque(k)' \in Seq(0 .. MaxTime)
      BY <2>3, DequeType
    <3>2. QED
      BY <1>2, <2>5, <3>1, DequeType, TracksLater
  <2>7. Known'
    BY <1>1, <2>6 DEF Known, Tracks
  <2>8. Serves(t)'
    BY <1>1, <1>2, <2>2, <2>5 DEF Serves, Judging, Tracks
  <2>9. Go(t, thread[t]) /\ thread[t] \in Thread
    BY <2>2, ThreadType DEF Go, TypeOK
  <2>10. QED
    BY <1>1, <2>3, <2>7, <2>8, <2>9, OthersIdle, AloneByGo
<1>4. CASE ~Old(t, Hits(t))
  <2> DEFINE next == [thread[t] EXCEPT !.pc = "decide", !.count = Len(Hits(t))]
  <2>1. /\ next \in Thread /\ next.pc = "decide" /\ next.count = Len(Hits(t))
        /\ next.key = key /\ next.limiter = limiter /\ next.maker = thread[t].maker
        /\ next.now = now
    <3>1. \A h \in Seq(0 .. MaxTime) : Len(h) \in Nat
      OBVIOUS
    <3>2. thread[t] \in Thread
      BY ThreadType
    <3>3. PICK n \in Nat : n = Len(Hits(t))
      BY <1>2, <3>1
    <3>4. next = [thread[t] EXCEPT !.pc = "decide", !.count = n]
      BY <3>3
    <3>5. /\ next \in Thread /\ next.pc = "decide" /\ next.count = n
          /\ next.key = thread[t].key /\ next.limiter = thread[t].limiter
          /\ next.maker = thread[t].maker /\ next.now = thread[t].now
      <4> HIDE DEF next
      <4> QED BY <3>2, <3>4 DEF Thread, Label
    <3>6. QED
      BY <1>2, <3>3, <3>5
  <2>2. Go(t, next) /\ UNCHANGED hits
    BY <1>4 DEF Trim
  <2> HIDE DEF next
  <2>3. thread'[t] = next
    BY <2>1, <2>2, GoEffect
  <2>4. Fresh' /\ Known' /\ \A k \in Keys : Deque(k)' = Deque(k)
    BY <1>1, <2>2, KnownStays
  <2>5. Hits(t)' = Hits(t)
    BY <1>2, <2>1, <2>2, <2>3 DEF Hits
  <2>6. thread'[t].count = Len(Hits(t)') /\ ~Old(t, Hits(t))'
    BY <1>2, <1>4, <2>1, <2>3, <2>5 DEF Old
  <2>7. \A k \in Keys : Tracks(admitted'[k], Deque(k)', thread'[t].now)
    BY <1>1, <1>2, <2>1, <2>3, <2>4
  <2>8. Serves(t)'
    BY <1>1, <1>2, <2>1, <2>3, <2>6, <2>7 DEF Serves, Judging, Tracks
  <2>9. QED
    BY <1>1, <2>1, <2>2, <2>4, <2>8, OthersIdle, AloneByGo
<1>5. QED
  BY <1>3, <1>4

\* A request that is let in is the last hit as well.
LEMMA SerialAccept ==
    ASSUME TypeOK, Alone, NEW t \in Threads, Holds(t), Accept(t)
    PROVE  Alone'
<1>1. /\ thread[t].pc = "decide" /\ UNCHANGED <<clock, limiter, windows>>
      /\ SetHits(t, Append(Hits(t), thread[t].now)) /\ Go(t, Waiting)
      /\ admitted' = [admitted EXCEPT ![thread[t].key] = Append(@, thread[t].now)]
  BY DEF Accept
<1>2. PICK key \in Keys, now \in 0 .. MaxTime :
        /\ thread[t].key = key /\ thread[t].now = now /\ now <= clock
        /\ Hits(t) = Deque(key) /\ Hits(t) \in Seq(0 .. MaxTime)
        /\ admitted[key] \in Seq(0 .. MaxTime) /\ Tracks(admitted[key], Hits(t), now)
  BY <1>1, HoldsDeque DEF Alone
<1>3. \A h \in Seq(0 .. MaxTime), n \in 0 .. MaxTime : Append(h, n) \in Seq(0 .. MaxTime)
  OBVIOUS
<1>4. PICK h \in Seq(0 .. MaxTime) : h = Append(Hits(t), now)
  BY <1>2, <1>3
<1>5. /\ \A k \in Keys : Deque(k)' = IF k = key THEN h ELSE Deque(k)
      /\ Fresh'
  <2>1. SetHits(t, h)
    BY <1>1, <1>2, <1>4
  <2>2. QED
    BY <1>1, <1>2, <2>1, OneDeque
<1>6. \A k \in Keys : admitted'[k] = IF k = key THEN Append(admitted[k], now) ELSE admitted[k]
  BY <1>1, <1>2 DEF TypeOK
<1>7. Tracks(Append(admitted[key], now), h, now)
  BY <1>2, <1>4, TracksAppend
<1>8. ASSUME NEW k \in Keys PROVE Tracks(admitted'[k], Deque(k)', clock)
  <2>1. CASE k = key
    <3>1. /\ admitted'[k] = Append(admitted[key], now) /\ Deque(k)' = h
          /\ Append(admitted[key], now) \in Seq(0 .. MaxTime)
      BY <1>2, <1>3, <1>5, <1>6, <2>1
    <3>2. now \in Nat /\ clock \in Nat /\ now <= clock
      BY <1>2 DEF TypeOK
    <3>3. Tracks(Append(admitted[key], now), h, clock)
      BY <1>7, <3>1, <3>2, TracksLater
    <3>4. QED
      BY <3>1, <3>3
  <2>2. CASE k # key
    BY <1>5, <1>6, <2>2 DEF Alone, Known
  <2>3. QED
    BY <2>1, <2>2
<1>9. Known'
  BY <1>1, <1>8 DEF Known, Tracks
<1>10. Waiting \in Thread /\ Waiting.pc = "idle"
  BY ThreadType DEF Waiting
<1>11. thread'[t] = Waiting
  BY <1>1, <1>10, GoEffect
<1>12. Serves(t)'
  BY <1>10, <1>11 DEF Serves, Judging
<1>13. QED
  BY <1>1, <1>5, <1>9, <1>10, <1>12, OthersIdle, AloneByGo

\* A request that is refused changes no deque.
LEMMA SerialReject ==
    ASSUME TypeOK, Alone, NEW t \in Threads, Reject(t)
    PROVE  Alone'
<1>1. /\ thread[t].pc = "decide" /\ Go(t, Waiting)
      /\ UNCHANGED <<clock, admitted, limiter, windows, hits>>
  BY DEF Reject
<1>2. Waiting \in Thread /\ Waiting.pc = "idle"
  BY ThreadType DEF Waiting
<1>3. thread'[t] = Waiting
  BY <1>1, <1>2, GoEffect
<1>4. Serves(t)'
  BY <1>2, <1>3 DEF Serves, Judging
<1>5. QED
  BY <1>1, <1>2, <1>4, KnownStays, OthersIdle, AloneByGo

\* As time goes by, what a deque knows stays true.
LEMMA SerialTick ==
    ASSUME TypeOK, Alone, Tick
    PROVE  Alone'
<1>1. clock' = clock + 1 /\ clock \in Nat
  BY DEF Tick, TypeOK
<1>2. UNCHANGED <<admitted, limiter, windows, hits, thread>>
  BY DEF Tick
<1>3. \A k \in Keys : Deque(k)' = Deque(k)
  BY <1>2 DEF Deque
<1>4. ASSUME NEW k \in Keys PROVE Tracks(admitted[k], Deque(k), clock + 1)
  <2>1. Tracks(admitted[k], Deque(k), clock)
    BY DEF Alone, Known
  <2>2. QED
    BY <1>1, <2>1, KnownLater
<1>5. Known'
  BY <1>1, <1>2, <1>3, <1>4 DEF Known, Tracks
<1>6. OneCall' /\ Fresh'
  BY <1>2 DEF Alone, OneCall, Fresh
<1>7. ASSUME NEW x \in Threads PROVE Serves(x)'
  <2>1. thread[x].now \in Nat
    BY ThreadType
  <2>2. Serves(x)
    BY DEF Alone
  <2>3. Hits(x)' = Hits(x)
    BY <1>2 DEF Hits
  <2>4. ~Old(x, Hits(x)) => ~Old(x, Hits(x))'
    BY <1>2, <2>3 DEF Old
  <2>5. \A k \in Keys : Tracks(admitted[k], Deque(k), thread[x].now)
                          => Tracks(admitted[k], Deque(k), thread[x].now)'
    BY <1>2, <1>3 DEF Tracks
  <2>6. thread[x].now <= clock => thread'[x].now <= clock'
    BY <1>1, <1>2, <2>1
  <2>7. QED
    BY <1>2, <2>2, <2>3, <2>4, <2>5, <2>6 DEF Serves, Judging
<1>8. QED
  BY <1>5, <1>6, <1>7 DEF Alone

\* Calls that have overlapped have done so for good.
LEMMA OverlapStays == [Next]_vars => (overlapped => overlapped')
BY DEF Next, vars, Call, Get, Create, ReadClock, FindWindow, MakeWindow, Trim, Accept, Reject,
       Tick

\* Every step of a call that is alone, and of the clock, keeps the invariant.
LEMMA SerialStep == SerialInv /\ [Next]_vars => SerialInv'
<1> SUFFICES ASSUME SerialInv, [Next]_vars PROVE SerialInv'
  OBVIOUS
<1>1. TypeOK /\ \A t \in Threads : Holds(t)
  BY DEF SerialInv
<1>2. TypeOK' /\ (\A t \in Threads : Holds(t))'
  <2>1. CASE Next
    BY <1>1, <2>1, TypeStep
  <2>2. CASE UNCHANGED vars
    BY <1>1, <2>2 DEF vars, TypeOK, Holds
  <2>3. QED
    BY <2>1, <2>2
<1>3. ASSUME ~overlapped' PROVE Alone'
  <2>1. Alone
    BY <1>3, OverlapStays DEF SerialInv
  <2>2. ASSUME NEW t \in Threads, Call(t) \/ Get(t) \/ Create(t) PROVE Alone'
    BY <1>1, <1>3, <2>1, <2>2, SerialCall, SerialGet, SerialCreate
  <2>3. ASSUME NEW t \in Threads, ReadClock(t) \/ FindWindow(t) \/ MakeWindow(t) PROVE Alone'
    BY <1>1, <2>1, <2>3, SerialReadClock, SerialFindWindow, SerialMakeWindow
  <2>4. ASSUME NEW t \in Threads, Trim(t) \/ Accept(t) \/ Reject(t) PROVE Alone'
    BY <1>1, <2>1, <2>4, SerialTrim, SerialAccept, SerialReject
  <2>5. CASE Tick
    BY <1>1, <2>1, <2>5, SerialTick
  <2>6. CASE UNCHANGED vars
    <3>1. UNCHANGED <<clock, admitted, limiter, windows, hits, thread>>
      BY <2>6 DEF vars
    <3>2. Fresh' /\ Known' /\ OneCall'
      BY <2>1, <3>1, KnownStays DEF Alone, OneCall
    <3>3. ASSUME NEW x \in Threads PROVE Serves(x)'
      <4>1. Hits(x)' = Hits(x) /\ Old(x, Hits(x))' = Old(x, Hits(x))
        BY <3>1 DEF Hits, Old
      <4>2. \A k \in Keys : Deque(k)' = Deque(k)
        BY <3>1 DEF Deque
      <4>3. QED
        BY <2>1, <3>1, <4>1, <4>2 DEF Alone, Serves, Judging, Tracks
    <3>4. QED
      BY <3>2, <3>3 DEF Alone
  <2>7. QED
    BY <2>2, <2>3, <2>4, <2>5, <2>6 DEF Next
<1>4. QED
  BY <1>2, <1>3 DEF SerialInv

-----------------------------------------------------------------------------
(* Calls that do not overlap: the sliding window *)

\* An instance has names of its own for the operators of FiniteSets.
LEMMA SameCardinality == \A S : Promise!Cardinality(S) = Cardinality(S)
BY DEF Promise!Cardinality, Cardinality

\* What a call alone has counted is what the client has had in the minute.
LEMMA CountsMinute ==
    ASSUME TypeOK, Alone, NEW t \in Threads, Holds(t), thread[t].pc = "decide"
    PROVE  /\ Cardinality(Promise!InMinute(thread[t].key, thread[t].now)) = thread[t].count
           /\ thread[t].key \in Keys /\ thread[t].now \in 0 .. clock
           /\ \A i \in DOMAIN admitted[thread[t].key] :
                admitted[thread[t].key][i] <= thread[t].now
<1>1. thread[t].count = Len(Hits(t)) /\ ~Old(t, Hits(t))
  BY DEF Alone, Serves
<1>2. PICK key \in Keys, now \in 0 .. MaxTime :
        /\ thread[t].key = key /\ thread[t].now = now /\ now <= clock
        /\ Hits(t) \in Seq(0 .. MaxTime) /\ admitted[key] \in Seq(0 .. MaxTime)
        /\ Tracks(admitted[key], Hits(t), now)
  BY HoldsDeque DEF Alone
<1>3. Cardinality(Recent(admitted[key], now)) = Len(Hits(t))
  BY <1>1, <1>2, CountIsExact DEF Old
<1>4. Promise!InMinute(key, now) = Recent(admitted[key], now)
  BY DEF Promise!InMinute, Recent
<1>5. \A i \in DOMAIN admitted[key] : admitted[key][i] <= now
  <2>1. \A i \in 1 .. Len(admitted[key]) : admitted[key][i] <= now
    BY <1>2 DEF Tracks
  <2>2. DOMAIN admitted[key] = 1 .. Len(admitted[key])
    BY <1>2
  <2>3. QED
    BY <2>1, <2>2
<1>6. now \in 0 .. clock
  BY <1>2 DEF TypeOK
<1>7. QED
  BY <1>1, <1>2, <1>3, <1>4, <1>5, <1>6

\* A request is let in as the sliding window lets it in.
LEMMA AcceptAdmits ==
    ASSUME TypeOK, Alone, NEW t \in Threads, Holds(t), Accept(t)
    PROVE  \E k \in Keys : Promise!Admit(k)
<1>1. /\ thread[t].pc = "decide" /\ ~Full(t) /\ UNCHANGED clock
      /\ admitted' = [admitted EXCEPT ![thread[t].key] = Append(@, thread[t].now)]
  BY DEF Accept
<1>2. thread[t].count < Limit
  BY <1>1, ThreadType, LimiterAssumption DEF Full
<1>3. Promise!Cardinality(Promise!InMinute(thread[t].key, thread[t].now)) < Limit
  BY <1>1, <1>2, CountsMinute, SameCardinality
<1>4. Promise!Admit(thread[t].key)
  BY <1>1, <1>3, CountsMinute DEF Promise!Admit
<1>5. QED
  BY <1>1, <1>4, CountsMinute

\* Until calls overlap, every step of the limiter is one of the sliding window, or none.
LEMMA SerialRefines ==
    SerialInv /\ [Next]_vars => (~overlapped' => [Promise!Next]_(Promise!vars))
<1> SUFFICES ASSUME SerialInv, [Next]_vars, ~overlapped' PROVE [Promise!Next]_(Promise!vars)
  OBVIOUS
<1>1. TypeOK /\ Alone /\ \A t \in Threads : Holds(t)
  BY OverlapStays DEF SerialInv
<1>2. ASSUME NEW t \in Threads, Accept(t) PROVE [Promise!Next]_(Promise!vars)
  BY <1>1, <1>2, AcceptAdmits DEF Promise!Next
<1>3. CASE Tick
  BY <1>3 DEF Tick, Promise!Tick, Promise!Next
<1>4. ASSUME NEW t \in Threads,
             \/ Call(t) \/ Get(t) \/ Create(t) \/ ReadClock(t) \/ FindWindow(t) \/ MakeWindow(t)
             \/ Trim(t) \/ Reject(t)
      PROVE  [Promise!Next]_(Promise!vars)
  BY <1>4 DEF Call, Get, Create, ReadClock, FindWindow, MakeWindow, Trim, Reject, Promise!vars
<1>5. CASE UNCHANGED vars
  BY <1>5 DEF vars, Promise!vars
<1>6. QED
  BY <1>2, <1>3, <1>4, <1>5 DEF Next

\* What the sliding window keeps: no minute, whenever it ends, holds more than the limit.
PromiseInv ==
    /\ clock \in Nat
    /\ admitted \in [Keys -> Seq(Nat)]
    /\ \A k \in Keys, at \in Nat : Cardinality(Promise!InMinute(k, at)) <= Limit

\* The minute is finite.
LEMMA MinuteIsFinite ==
    ASSUME NEW k \in Keys, NEW at, admitted[k] \in Seq(Nat)
    PROVE  /\ IsFiniteSet(Promise!InMinute(k, at))
           /\ Promise!InMinute(k, at) \subseteq 1 .. Len(admitted[k])
<1>1. Promise!InMinute(k, at) \subseteq 1 .. Len(admitted[k]) /\ Len(admitted[k]) \in Nat
  BY DEF Promise!InMinute
<1>2. IsFiniteSet(1 .. Len(admitted[k]))
  BY <1>1, FS_Interval
<1>3. QED
  BY <1>1, <1>2, FS_Subset

\* A request that the sliding window lets in makes no minute too full: one that ends before
\* it does not have it, and one that ends later has of the others only what the minute
\* before it had.
LEMMA AdmitKeeps ==
    ASSUME PromiseInv, NEW k \in Keys, Promise!Admit(k)
    PROVE  PromiseInv'
<1> USE LimiterAssumption
<1>1. PICK at \in 0 .. clock :
        /\ \A i \in DOMAIN admitted[k] : admitted[k][i] <= at
        /\ Cardinality(Promise!InMinute(k, at)) < Limit
        /\ admitted' = [admitted EXCEPT ![k] = Append(@, at)]
  BY SameCardinality DEF Promise!Admit
<1>2. /\ admitted \in [Keys -> Seq(Nat)] /\ admitted[k] \in Seq(Nat) /\ at \in Nat
      /\ clock' \in Nat
  BY DEF PromiseInv, Promise!Admit
<1>3. admitted' \in [Keys -> Seq(Nat)]
  BY <1>1, <1>2
<1> DEFINE a == admitted[k]
           b == admitted'[k]
           n == Len(a)
<1>4. /\ n \in Nat /\ DOMAIN a = 1 .. n /\ DOMAIN b = 1 .. n + 1
      /\ b[n + 1] = at /\ \A i \in 1 .. n : b[i] = a[i] /\ a[i] \in Nat
      /\ \A i \in 1 .. n : a[i] <= at
  <2>1. b = Append(a, at)
    BY <1>1, <1>2
  <2>2. a \in Seq(Nat)
    BY <1>2
  <2> HIDE DEF a, b
  <2>3. /\ n \in Nat /\ DOMAIN a = 1 .. n /\ DOMAIN b = 1 .. n + 1
        /\ b[n + 1] = at /\ \A i \in 1 .. n : b[i] = a[i] /\ a[i] \in Nat
    BY <1>2, <2>1, <2>2
  <2>4. \A i \in 1 .. n : a[i] <= at
    BY <1>1, <2>3 DEF a
  <2>5. QED
    BY <2>3, <2>4
<1>5. ASSUME NEW x \in Keys, NEW end \in Nat
      PROVE  Cardinality(Promise!InMinute(x, end)') <= Limit
  <2>1. CASE x # k
    <3>1. Promise!InMinute(x, end)' = Promise!InMinute(x, end)
      BY <1>1, <1>2, <2>1 DEF Promise!InMinute
    <3>2. QED
      BY <3>1 DEF PromiseInv
  <2>2. CASE x = k
    <3> DEFINE old == {i \in DOMAIN a : end <= a[i] + Minute /\ a[i] <= end}
               new == {i \in DOMAIN b : end <= b[i] + Minute /\ b[i] <= end}
               before == {i \in DOMAIN a : at <= a[i] + Minute /\ a[i] <= at}
    <3>1. /\ Promise!InMinute(k, end) = old /\ Promise!InMinute(x, end)' = new
          /\ Promise!InMinute(k, at) = before
      BY <2>2 DEF Promise!InMinute
    <3>2. Cardinality(old) <= Limit /\ Cardinality(before) < Limit /\ IsFiniteSet(before)
      BY <1>1, <1>2, <3>1, MinuteIsFinite DEF PromiseInv
    <3> HIDE DEF a, b, n
    <3>3. CASE end < at
      <4>1. new = old
        BY <1>2, <1>4, <3>3
      <4>2. QED
        BY <3>1, <3>2, <4>1
    <3>4. CASE end >= at
      <4>1. new \subseteq before \cup {n + 1} /\ n + 1 \notin before
        BY <1>2, <1>4, <3>4
      <4> HIDE DEF new, before
      <4>2. /\ IsFiniteSet(before \cup {n + 1}) /\ Cardinality(before) \in Nat
            /\ Cardinality(before \cup {n + 1}) = Cardinality(before) + 1
        BY <3>2, <4>1, FS_AddElement, FS_CardinalityType
      <4>3. Cardinality(new) \in Nat /\ Cardinality(new) <= Cardinality(before) + 1
        BY <4>1, <4>2, FS_Subset, FS_CardinalityType
      <4>4. QED
        BY <3>1, <3>2, <4>2, <4>3
    <3>5. QED
      BY <1>2, <3>3, <3>4
  <2>3. QED
    BY <2>1, <2>2
<1>6. QED
  BY <1>2, <1>3, <1>5 DEF PromiseInv

\* The sliding window keeps its limit.
LEMMA PromiseStep == PromiseInv /\ [Promise!Next]_(Promise!vars) => PromiseInv'
<1> SUFFICES ASSUME PromiseInv, [Promise!Next]_(Promise!vars) PROVE PromiseInv'
  OBVIOUS
<1>1. ASSUME NEW k \in Keys, Promise!Admit(k) PROVE PromiseInv'
  BY <1>1, AdmitKeeps
<1>2. CASE Promise!Tick
  BY <1>2 DEF Promise!Tick, PromiseInv, Promise!InMinute
<1>3. CASE UNCHANGED Promise!vars
  BY <1>3 DEF Promise!vars, PromiseInv, Promise!InMinute
<1>4. QED
  BY <1>1, <1>2, <1>3 DEF Promise!Next

\* At the start no minute holds a request.
LEMMA PromiseStart == Promise!Init => PromiseInv
<1> SUFFICES ASSUME Promise!Init PROVE PromiseInv
  OBVIOUS
<1>1. clock \in Nat /\ admitted \in [Keys -> Seq(Nat)]
  BY DEF Promise!Init
<1>2. ASSUME NEW k \in Keys, NEW at \in Nat
      PROVE  Cardinality(Promise!InMinute(k, at)) <= Limit
  <2>1. Promise!InMinute(k, at) = {}
    BY DEF Promise!Init, Promise!InMinute
  <2>2. QED
    BY <2>1, FS_EmptySet, LimiterAssumption
<1>3. QED
  BY <1>1, <1>2 DEF PromiseInv

\* What "N requests a minute" promises follows from how the sliding window lets requests in,
\* for every limit and every number of clients.
THEOREM WindowKeepsLimit == Promise!Spec => []Promise!WithinLimit
<1>1. PromiseInv => Promise!WithinLimit
  BY LimiterAssumption, SameCardinality DEF PromiseInv, Promise!WithinLimit
<1>2. QED
  BY <1>1, PromiseStart, PromiseStep, PTL DEF Promise!Spec

-----------------------------------------------------------------------------
(* Calls that do not overlap: the theorems *)

\* As long as no two calls have overlapped, the limiter lets in what the sliding window lets
\* in, and nothing else: check() of security.py, whatever the limit, the length of the
\* minute, and the threads that make the calls.
THEOREM SerialImplementsWindow == Spec => ImplementsWindow
<1>1. Init => Promise!Init
  BY DEF Init, Promise!Init
<1>2. SerialInv /\ [Next]_vars => [~overlapped' => [Promise!Next]_(Promise!vars)]_vars
  BY SerialRefines
<1>3. QED
  BY <1>1, <1>2, SerialInit, SerialStep, PTL DEF Spec, ImplementsWindow

\* As long as no two calls have overlapped, no minute holds more than the limit of one
\* client's requests (security.py:156).
THEOREM SerialKeepsLimit == Spec => []SerialWithinLimit
<1> DEFINE Inv == SerialInv /\ (~overlapped => PromiseInv)
<1>1. Init => Inv
  BY SerialInit, PromiseStart DEF Init, Promise!Init
<1>2. Inv /\ [Next]_vars => Inv'
  BY SerialStep, SerialRefines, OverlapStays, PromiseStep
<1>3. Inv => SerialWithinLimit
  BY LimiterAssumption, SameCardinality
  DEF PromiseInv, SerialWithinLimit, WithinLimit, Promise!WithinLimit
<1>4. QED
  BY <1>1, <1>2, <1>3, PTL DEF Spec

\* As long as no two calls have overlapped, a client that is refused has had its full share
\* in the minute before.
THEOREM SerialRefusesRightly == Spec => RefusalJustified
<1>1. SerialInv /\ [Next]_vars => [\A t \in Threads : ~overlapped /\ Reject(t) =>
        Cardinality(Promise!InMinute(thread[t].key, thread[t].now)) >= Limit]_vars
  <2> SUFFICES ASSUME SerialInv, NEW t \in Threads, ~overlapped, Reject(t)
               PROVE  Cardinality(Promise!InMinute(thread[t].key, thread[t].now)) >= Limit
    OBVIOUS
  <2>1. TypeOK /\ Alone /\ Holds(t) /\ thread[t].pc = "decide" /\ thread[t].count >= Limit
    BY DEF SerialInv, Reject, Full
  <2>2. QED
    BY <2>1, CountsMinute
<1>2. QED
  BY <1>1, SerialInit, SerialStep, PTL DEF Spec, RefusalJustified
=============================================================================
