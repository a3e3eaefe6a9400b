-------------------------- MODULE DiagnosticsProofs --------------------------
(***************************************************************************)
(* Proofs about Diagnostics, for any number of requests, of permits and of *)
(* redirects: the type invariant, that permits are conserved, that every   *)
(* hop of a chain is checked, that history and answers agree, and that the *)
(* semaphore implements DiagnosticQueue.                                   *)
(***************************************************************************)
EXTENDS Diagnostics, FiniteSetTheorems, SequenceTheorems, TLAPS

-----------------------------------------------------------------------------
(* The inductive invariant *)

InUse == {r \in Reqs : task[r].pc \in InNetwork}

\* The waiters are the requests that wait, each once.
WaitersWait ==
    /\ waiters \in Seq(Reqs)
    /\ \A i, j \in 1 .. Len(waiters) : waiters[i] = waiters[j] => i = j
    /\ \A r \in Reqs : task[r].pc = "wait" <=> \E i \in 1 .. Len(waiters) : waiters[i] = r

\* The waiters that have a permit are the first ones.
WokenFirst == \E w \in 0 .. Len(waiters) : woken = {waiters[i] : i \in 1 .. w}

SemaphoreInv ==
    /\ task \in [Reqs -> Task] /\ permits \in Nat
    /\ WaitersWait /\ WokenFirst /\ PermitsConserved

\* What a request carries at each of its stages.
Carries(t) ==
    /\ t.pc # "idle" => t.kind \in Kind
    /\ t.pc \in {"store", "detail", "answer"} => t.code \in Code
    /\ t.kind = "HTTP" /\ t.pc \in {"acquire", "wait", "begin"} => t.hops = 0 /\ t.checked = 0
    /\ t.kind = "HTTP" /\ t.pc = "resolve" => t.hops <= MaxRedirects /\ t.checked = t.hops
    /\ t.kind = "HTTP" /\ t.pc \in {"send", "connected"} =>
         t.hops <= MaxRedirects /\ t.checked = t.hops + 1 /\ t.host \in {"allowed", "moved"}

\* What the tables have of it.
Stored(t, code, kind) ==
    \/ code = None /\ kind = None
    \/ t.pc = "answer" /\ code = t.code /\ kind = t.kind

RequestInv == \A r \in Reqs : Carries(task[r]) /\ Stored(task[r], run[r], detail[r])

TablesInv == run \in [Reqs -> Code \cup {None}] /\ detail \in [Reqs -> Kind \cup {None}]

IInv == SemaphoreInv /\ RequestInv /\ TablesInv

-----------------------------------------------------------------------------
(* Sequences *)

\* What is left of a sequence when one element is taken out.
LEMMA RemoveAtEffect ==
    ASSUME NEW S, NEW s \in Seq(S), NEW i \in 1 .. Len(s), NEW t, t = RemoveAt(s, i)
    PROVE  /\ t \in Seq(S) /\ Len(t) = Len(s) - 1
           /\ \A j \in 1 .. Len(t) : t[j] = IF j < i THEN s[j] ELSE s[j + 1]
<1> DEFINE a == SubSeq(s, 1, i - 1)
           b == SubSeq(s, i + 1, Len(s))
<1>1. Len(s) \in Nat /\ \A j \in 1 .. Len(s) : s[j] \in S
  BY LenProperties, ElementOfSeq
<1>2. /\ a \in Seq(S) /\ Len(a) = i - 1
      /\ \A j \in 1 .. (i - 1) : a[j] = s[j]
  <2>1. \A j \in 1 .. (i - 1) : s[j] \in S
    BY <1>1
  <2>2. i - 1 \in Int
    BY <1>1
  <2> HIDE DEF a
  <2>3. /\ a \in Seq(S) /\ Len(a) = (IF 1 <= i - 1 THEN i - 1 - 1 + 1 ELSE 0)
        /\ \A j \in 1 .. (i - 1 - 1 + 1) : a[j] = s[1 + j - 1]
    BY <2>1, <2>2, SubSeqProperties DEF a
  <2>4. QED
    BY <1>1, <2>3
<1>3. /\ b \in Seq(S) /\ Len(b) = Len(s) - i
      /\ \A j \in 1 .. (Len(s) - i) : b[j] = s[i + j]
  <2>1. \A j \in (i + 1) .. Len(s) : s[j] \in S
    BY <1>1
  <2>2. i + 1 \in Int /\ Len(s) \in Int
    BY <1>1
  <2> HIDE DEF b
  <2>3. /\ b \in Seq(S) /\ Len(b) = (IF i + 1 <= Len(s) THEN Len(s) - (i + 1) + 1 ELSE 0)
        /\ \A j \in 1 .. (Len(s) - (i + 1) + 1) : b[j] = s[i + 1 + j - 1]
    BY <2>1, <2>2, SubSeqProperties DEF b
  <2>4. QED
    BY <1>1, <2>3
<1>4. t = a \o b
  BY DEF RemoveAt
<1> HIDE DEF a, b
<1>5. /\ t \in Seq(S) /\ Len(t) = Len(a) + Len(b)
      /\ \A j \in 1 .. (Len(a) + Len(b)) :
           t[j] = IF j <= Len(a) THEN a[j] ELSE b[j - Len(a)]
  <2>1. a \in Seq(S) /\ b \in Seq(S)
    BY <1>2, <1>3
  <2>2. /\ a \o b \in Seq(S) /\ Len(a \o b) = Len(a) + Len(b)
        /\ \A j \in 1 .. Len(a) + Len(b) :
             (a \o b)[j] = IF j <= Len(a) THEN a[j] ELSE b[j - Len(a)]
    BY ONLY <2>1, ConcatProperties
  <2>3. QED
    BY ONLY <1>4, <2>2
<1>6. Len(t) = Len(s) - 1
  BY <1>1, <1>2, <1>3, <1>5
<1>7. ASSUME NEW j \in 1 .. Len(t) PROVE t[j] = IF j < i THEN s[j] ELSE s[j + 1]
  <2>1. CASE j < i
    BY <1>1, <1>2, <1>3, <1>5, <1>6, <2>1
  <2>2. CASE j >= i
    <3>1. t[j] = b[j - Len(a)] /\ j - Len(a) = j - i + 1
      BY <1>1, <1>2, <1>3, <1>5, <1>6, <2>2
    <3>2. j - i + 1 \in 1 .. (Len(s) - i) /\ i + (j - i + 1) = j + 1
      BY <1>1, <1>6, <2>2
    <3>3. b[j - i + 1] = s[j + 1]
      BY <1>3, <3>2
    <3>4. t[j] = s[j + 1]
      BY <3>1, <3>3
    <3>5. ~(j < i)
      BY <1>1, <1>6, <2>2
    <3>6. QED
      BY <3>4, <3>5
  <2>3. QED
    BY <1>1, <1>6, <2>1, <2>2
<1>8. QED
  BY <1>5, <1>6, <1>7

\* The first elements of a sequence without repetitions are as many as their places.
LEMMA CountFirst ==
    ASSUME NEW S, NEW s \in Seq(S), NEW w \in 0 .. Len(s),
           \A i, j \in 1 .. Len(s) : s[i] = s[j] => i = j,
           NEW first, first = {s[i] : i \in 1 .. w}
    PROVE  IsFiniteSet(first) /\ Cardinality(first) = w
<1> DEFINE f == [i \in 1 .. w |-> s[i]]
<1>1. Len(s) \in Nat
  BY LenProperties
<1>2. f \in Bijection(1 .. w, first)
  BY <1>1 DEF Bijection, Injection, IsInjective, Surjection
<1>3. ExistsBijection(1 .. w, first)
  BY <1>2 DEF ExistsBijection
<1>4. IsFiniteSet(1 .. w) /\ Cardinality(1 .. w) = w
  BY <1>1, FS_Interval
<1>5. QED
  BY ONLY <1>3, <1>4, FS_Bijection

\* The end of a sequence, and the end of an end.
LEMMA SuffixEffect ==
    ASSUME NEW S, NEW s \in Seq(S), NEW w \in 0 .. Len(s), NEW q,
           q = SubSeq(s, w + 1, Len(s))
    PROVE  /\ q \in Seq(S) /\ Len(q) = Len(s) - w
           /\ \A i \in 1 .. (Len(s) - w) : q[i] = s[w + i]
<1>1. Len(s) \in Nat /\ \A j \in 1 .. Len(s) : s[j] \in S
  BY LenProperties, ElementOfSeq
<1>2. \A j \in (w + 1) .. Len(s) : s[j] \in S
  BY <1>1
<1>3. w + 1 \in Int /\ Len(s) \in Int
  BY <1>1
<1>4. /\ q \in Seq(S) /\ Len(q) = (IF w + 1 <= Len(s) THEN Len(s) - (w + 1) + 1 ELSE 0)
      /\ \A j \in 1 .. (Len(s) - (w + 1) + 1) : q[j] = s[w + 1 + j - 1]
  BY <1>2, <1>3, SubSeqProperties
<1>5. QED
  BY <1>1, <1>4

After(s, w) == SubSeq(s, w + 1, Len(s))

\* What t has after its first v elements is what s has n further than after its first w.
Shifted(s, w, t, v, n) ==
    /\ w \in 0 .. Len(s) /\ v \in 0 .. Len(t) /\ n \in 0 .. (Len(s) - w)
    /\ Len(t) - v = Len(s) - w - n
    /\ \A i \in 1 .. (Len(t) - v) : t[v + i] = s[w + n + i]

LEMMA SuffixShift ==
    ASSUME NEW S, NEW s \in Seq(S), NEW t \in Seq(S),
           NEW w \in Nat, NEW v \in Nat, NEW n \in Nat, Shifted(s, w, t, v, n)
    PROVE  After(t, v) = After(After(s, w), n)
<1> SUFFICES ASSUME NEW q, q = SubSeq(s, w + 1, Len(s)), NEW p, p = SubSeq(t, v + 1, Len(t))
             PROVE  p = SubSeq(q, n + 1, Len(q))
  BY DEF After
<1>1. Len(s) \in Nat /\ Len(t) \in Nat
  BY LenProperties
<1>2. /\ w \in 0 .. Len(s) /\ v \in 0 .. Len(t) /\ n \in 0 .. (Len(s) - w)
      /\ Len(t) - v = Len(s) - w - n
  BY DEF Shifted
<1>3. \A i \in 1 .. (Len(t) - v) : t[v + i] = s[w + n + i]
  BY DEF Shifted
<1>4. /\ q \in Seq(S) /\ Len(q) = Len(s) - w
      /\ \A i \in 1 .. (Len(s) - w) : q[i] = s[w + i]
  BY <1>2, SuffixEffect
<1>5. /\ p \in Seq(S) /\ Len(p) = Len(t) - v
      /\ \A i \in 1 .. (Len(t) - v) : p[i] = t[v + i]
  BY <1>2, SuffixEffect
<1> DEFINE u == SubSeq(q, n + 1, Len(q))
<1>6. n \in 0 .. Len(q)
  BY <1>1, <1>4, <1>2
<1> HIDE DEF u
<1>7. /\ u \in Seq(S) /\ Len(u) = Len(q) - n
      /\ \A i \in 1 .. (Len(q) - n) : u[i] = q[n + i]
  <2>1. q \in Seq(S) /\ n \in 0 .. Len(q) /\ u = SubSeq(q, n + 1, Len(q))
    BY <1>4, <1>6 DEF u
  <2>2. QED
    BY ONLY <2>1, SuffixEffect
<1>8. Len(p) = Len(u) /\ Len(p) = Len(t) - v /\ Len(p) = Len(q) - n /\ Len(q) = Len(s) - w
  BY <1>1, <1>4, <1>5, <1>7, <1>2
<1>9. ASSUME NEW i \in 1 .. Len(p) PROVE p[i] = u[i]
  <2>1. /\ i \in 1 .. (Len(t) - v) /\ i \in 1 .. (Len(q) - n) /\ n + i \in 1 .. (Len(s) - w)
        /\ w + (n + i) = w + n + i
    <3> DEFINE ls == Len(s)
               lt == Len(t)
               lq == Len(q)
               lp == Len(p)
    <3>1. /\ ls \in Nat /\ lt \in Nat /\ lq = ls - w /\ lp = lt - v /\ lp = lq - n
          /\ i \in 1 .. lp /\ w \in Nat /\ n \in Nat
      BY <1>1, <1>8, <1>2
    <3> HIDE DEF ls, lt, lq, lp
    <3>2. /\ i \in 1 .. (lt - v) /\ i \in 1 .. (lq - n) /\ n + i \in 1 .. (ls - w)
          /\ w + (n + i) = w + n + i
      BY <3>1
    <3>3. QED
      BY <3>2 DEF ls, lt, lq
  <2>2. p[i] = s[w + n + i]
    BY <1>5, <2>1, <1>3
  <2>3. u[i] = s[w + (n + i)]
    BY <1>4, <1>7, <2>1
  <2>4. QED
    BY <2>1, <2>2, <2>3
<1>10. p = u
  BY ONLY <1>5, <1>7, <1>8, <1>9, SeqEqual
<1>11. QED
  BY <1>10 DEF u

\* The first n elements of the end of a sequence.
LEMMA SuffixFirst ==
    ASSUME NEW S, NEW s \in Seq(S), NEW w \in 0 .. Len(s), NEW n \in 0 .. (Len(s) - w),
           NEW q, q = SubSeq(s, w + 1, Len(s))
    PROVE  ToSet(SubSeq(q, 1, n)) = {s[i] : i \in (w + 1) .. (w + n)}
<1>1. Len(s) \in Nat
  BY LenProperties
<1>2. /\ q \in Seq(S) /\ Len(q) = Len(s) - w
      /\ \A i \in 1 .. (Len(s) - w) : q[i] = s[w + i]
  BY SuffixEffect
<1> DEFINE u == SubSeq(q, 1, n)
<1>3. \A i \in 1 .. n : q[i] \in S
  <2>1. \A i \in 1 .. n : i \in 1 .. Len(q)
    BY <1>1, <1>2
  <2>2. QED
    BY <1>2, <2>1, ElementOfSeq
<1> HIDE DEF u
<1>4. /\ u \in Seq(S) /\ Len(u) = (IF 1 <= n THEN n - 1 + 1 ELSE 0)
      /\ \A i \in 1 .. (n - 1 + 1) : u[i] = q[1 + i - 1]
  <2>1. u = SubSeq(q, 1, n) /\ n \in Int /\ 1 \in Int
    BY DEF u
  <2>2. QED
    BY ONLY <1>3, <2>1, SubSeqProperties
<1>5. Len(u) = n /\ DOMAIN u = 1 .. n
  BY <1>4, LenProperties
<1>6. \A i \in 1 .. n : u[i] = s[w + i]
  <2>1. \A i \in 1 .. n : i \in 1 .. (n - 1 + 1) /\ 1 + i - 1 = i /\ i \in 1 .. (Len(s) - w)
    BY <1>1
  <2>2. QED
    BY <1>2, <1>4, <2>1
<1>7. ASSUME NEW j \in (w + 1) .. (w + n) PROVE s[j] \in ToSet(u)
  <2>1. j - w \in 1 .. n /\ w + (j - w) = j
    BY <1>1
  <2>2. s[j] = u[j - w]
    BY <1>6, <2>1
  <2>3. QED
    BY <1>5, <2>1, <2>2 DEF ToSet
<1>8. ASSUME NEW x \in ToSet(u) PROVE \E j \in (w + 1) .. (w + n) : x = s[j]
  <2>1. PICK i \in 1 .. n : x = u[i]
    BY <1>5 DEF ToSet
  <2>2. w + i \in (w + 1) .. (w + n)
    BY <1>1
  <2>3. QED
    BY <1>6, <2>1, <2>2
<1>9. ToSet(u) = {s[i] : i \in (w + 1) .. (w + n)}
  BY <1>7, <1>8
<1>10. QED
  BY <1>9 DEF u

-----------------------------------------------------------------------------
(* The semaphore *)

\* What is counted can be counted, and who has a permit is not yet in the network.
LEMMA Countable ==
    ASSUME SemaphoreInv
    PROVE  /\ IsFiniteSet(InUse) /\ Cardinality(InUse) \in Nat
           /\ IsFiniteSet(woken) /\ Cardinality(woken) \in Nat
           /\ woken \subseteq Reqs /\ woken \cap InUse = {}
           /\ \A r \in woken : task[r].pc = "wait"
           /\ permits + Cardinality(woken) + Cardinality(InUse) = Slots
<1>1. InUse \subseteq Reqs /\ IsFiniteSet(Reqs)
  BY DiagnosisAssumption DEF InUse
<1>2. woken \subseteq Reqs /\ \A r \in woken : task[r].pc = "wait"
  BY ElementOfSeq, LenProperties DEF SemaphoreInv, WaitersWait, WokenFirst
<1>3. woken \cap InUse = {}
  BY <1>2 DEF InUse, InNetwork
<1>4. IsFiniteSet(InUse) /\ Cardinality(InUse) \in Nat
  BY <1>1, FS_Subset, FS_CardinalityType
<1>5. IsFiniteSet(woken) /\ Cardinality(woken) \in Nat
  BY <1>1, <1>2, FS_Subset, FS_CardinalityType
<1>6. permits + Cardinality(woken) + Cardinality(InUse) = Slots
  BY DEF SemaphoreInv, PermitsConserved, InUse
<1>7. QED
  BY <1>2, <1>3, <1>4, <1>5, <1>6

\* Where the waiters without a permit stand, and who is next.
LEMMA WokenCount ==
    ASSUME WaitersWait, NEW w \in 0 .. Len(waiters), woken = {waiters[i] : i \in 1 .. w}
    PROVE  /\ Len(waiters) \in Nat /\ Cardinality(woken) = w
           /\ Unwoken = (w + 1) .. Len(waiters)
           /\ Cardinality(Unwoken) = Len(waiters) - w
           /\ \A n \in 0 .. (Len(waiters) - w) :
                NextWaiters(n) = {waiters[i] : i \in (w + 1) .. (w + n)}
<1>1. waiters \in Seq(Reqs) /\ Len(waiters) \in Nat /\ DOMAIN waiters = 1 .. Len(waiters)
  BY LenProperties DEF WaitersWait
<1>2. Cardinality(woken) = w
  <2>1. \A i, j \in 1 .. Len(waiters) : waiters[i] = waiters[j] => i = j
    BY DEF WaitersWait
  <2>2. QED
    BY ONLY <1>1, <2>1, w \in 0 .. Len(waiters), woken = {waiters[i] : i \in 1 .. w},
            CountFirst
<1>3. ASSUME NEW i \in 1 .. Len(waiters) PROVE waiters[i] \in woken <=> i <= w
  <2>1. CASE i <= w
    BY <1>1, <2>1
  <2>2. ASSUME waiters[i] \in woken PROVE i <= w
    <3>1. PICK j \in 1 .. w : waiters[i] = waiters[j]
      BY <2>2
    <3>2. i = j
      BY <1>1, <3>1 DEF WaitersWait
    <3>3. QED
      BY <1>1, <3>2
  <2>3. QED
    BY <2>1, <2>2
<1>4. Unwoken = (w + 1) .. Len(waiters)
  <2>1. Unwoken = {i \in 1 .. Len(waiters) : ~(i <= w)}
    BY <1>1, <1>3 DEF Unwoken
  <2>2. w \in Nat
    BY <1>1
  <2>3. QED
    BY ONLY <1>1, <2>1, <2>2
<1>5. Cardinality(Unwoken) = Len(waiters) - w
  <2> DEFINE len == Len(waiters)
  <2>1. w \in Nat /\ len \in Nat /\ w <= len /\ Unwoken = (w + 1) .. len
    BY <1>1, <1>4
  <2> HIDE DEF len
  <2>2. Cardinality((w + 1) .. len) = IF w + 1 > len THEN 0 ELSE len - (w + 1) + 1
    BY <2>1, FS_Interval
  <2>3. Cardinality((w + 1) .. len) = len - w
    BY <2>1, <2>2
  <2>4. QED
    BY <2>1, <2>3 DEF len
<1>6. ASSUME NEW n \in 0 .. (Len(waiters) - w)
      PROVE  NextWaiters(n) = {waiters[i] : i \in (w + 1) .. (w + n)}
  <2>1. ASSUME NEW j \in Unwoken PROVE Cardinality({k \in Unwoken : k < j}) = j - w - 1
    <3> DEFINE before == {k \in Unwoken : k < j}
    <3>1. before = (w + 1) .. (j - 1)
      BY <1>1, <1>4
    <3>2. w \in Int /\ j \in Int /\ w + 1 \in Int /\ j - 1 \in Int /\ w + 1 <= j
      BY <1>1, <1>4
    <3>3. Cardinality((w + 1) .. (j - 1)) =
            IF w + 1 > j - 1 THEN 0 ELSE j - 1 - (w + 1) + 1
      BY <3>2, FS_Interval
    <3> HIDE DEF before
    <3>4. Cardinality(before) = j - w - 1
      BY ONLY <3>1, <3>2, <3>3
    <3>5. QED
      BY <3>4 DEF before
  <2>2. {j \in Unwoken : Cardinality({k \in Unwoken : k < j}) < n} = (w + 1) .. (w + n)
    <3>1. {j \in Unwoken : Cardinality({k \in Unwoken : k < j}) < n}
            = {j \in Unwoken : j - w - 1 < n}
      BY <2>1
    <3>2. w \in Nat /\ n \in Nat /\ n <= Len(waiters) - w
      BY <1>1
    <3> DEFINE len == Len(waiters)
    <3>3. len \in Nat /\ n <= len - w /\ Unwoken = (w + 1) .. len
      BY <1>1, <1>4, <3>2
    <3> HIDE DEF len
    <3>4. {j \in Unwoken : j - w - 1 < n} = (w + 1) .. (w + n)
      BY ONLY <3>2, <3>3
    <3>5. QED
      BY <3>1, <3>4
  <2>3. QED
    BY <2>2 DEF NextWaiters
<1>7. QED
  BY <1>1, <1>2, <1>4, <1>5, <1>6

\* A release raises the value, or hands the permit to the first waiter without one.
LEMMA ReleaseEffect ==
    ASSUME SemaphoreInv, NEW w \in 0 .. Len(waiters), woken = {waiters[i] : i \in 1 .. w},
           Release
    PROVE  /\ waiters' = waiters
           /\ \E n \in {0, 1} :
                /\ w + n <= Len(waiters) /\ permits' = permits + 1 - n
                /\ woken' = {waiters[i] : i \in 1 .. (w + n)}
                /\ n = 0 => w = Len(waiters)
<1>1. /\ Len(waiters) \in Nat /\ Unwoken = (w + 1) .. Len(waiters) /\ permits \in Nat
      /\ \A n \in 0 .. (Len(waiters) - w) :
           NextWaiters(n) = {waiters[i] : i \in (w + 1) .. (w + n)}
  BY WokenCount DEF SemaphoreInv
<1>2. CASE w = Len(waiters)
  <2>1. Unwoken = {}
    BY <1>1, <1>2
  <2>2. permits' = permits + 1 /\ woken' = woken /\ waiters' = waiters
    BY <2>1 DEF Release
  <2>3. QED
    BY <1>1, <1>2, <2>2
<1>3. CASE w < Len(waiters)
  <2>1. w + 1 \in Unwoken
    BY <1>1, <1>3
  <2>2. permits' = permits /\ woken' = woken \cup NextWaiters(1) /\ waiters' = waiters
    BY <2>1 DEF Release
  <2>3. NextWaiters(1) = {waiters[i] : i \in (w + 1) .. (w + 1)}
    BY <1>1, <1>3
  <2>4. woken' = {waiters[i] : i \in 1 .. (w + 1)}
    <3>1. w \in Nat /\ 1 .. (w + 1) = (1 .. w) \cup ((w + 1) .. (w + 1))
      BY <1>1
    <3>2. QED
      BY <2>2, <2>3, <3>1
  <2>5. QED
    BY <1>1, <1>3, <2>2, <2>4
<1>4. QED
  BY <1>1, <1>2, <1>3

\* A waiter that goes on leaves its place, the i-th, and passes on n permits.
Resumes(r, w, n, i) ==
    /\ w + n <= Len(waiters) /\ waiters[i] = r /\ permits' = permits - n
    /\ waiters' \in Seq(Reqs) /\ Len(waiters') = Len(waiters) - 1
    /\ \A j \in 1 .. Len(waiters') :
         waiters'[j] = IF j < i THEN waiters[j] ELSE waiters[j + 1]
    /\ woken' = {waiters'[j] : j \in 1 .. (w + n - 1)}
    /\ woken' = (woken \ {r}) \cup {waiters[j] : j \in (w + 1) .. (w + n)}

LEMMA ResumeEffect ==
    ASSUME SemaphoreInv, NEW w \in 0 .. Len(waiters), woken = {waiters[i] : i \in 1 .. w},
           NEW r \in Reqs, Resume(r)
    PROVE  \E n \in 0 .. permits, i \in 1 .. w : Resumes(r, w, n, i)
<1> DEFINE len == Len(waiters)
<1>1. /\ waiters \in Seq(Reqs) /\ len \in Nat /\ permits \in Nat /\ w \in 0 .. len
      /\ DOMAIN waiters = 1 .. len
      /\ \A j, k \in 1 .. len : waiters[j] = waiters[k] => j = k
  BY LenProperties DEF SemaphoreInv, WaitersWait
<1>2. /\ Cardinality(Unwoken) = len - w
      /\ \A n \in 0 .. (len - w) :
           NextWaiters(n) = {waiters[i] : i \in (w + 1) .. (w + n)}
  BY WokenCount DEF SemaphoreInv
<1>3. PICK n \in 0 .. permits : /\ n <= len - w /\ permits' = permits - n
                               /\ woken' = (woken \ {r}) \cup NextWaiters(n)
  <2> DEFINE most == IF permits < Cardinality(Unwoken) THEN permits ELSE Cardinality(Unwoken)
  <2>1. PICK n \in {most, IF most > 1 THEN 1 ELSE most} :
          woken' = (woken \ {r}) \cup NextWaiters(n) /\ permits' = permits - n
    BY DEF Resume
  <2>2. n \in 0 .. permits /\ n <= len - w
    BY <1>1, <1>2, <2>1
  <2>3. QED
    BY <2>1, <2>2
<1>4. PICK i \in 1 .. len : waiters[i] = r /\ waiters' = RemoveAt(waiters, i)
  BY <1>1 DEF Resume
<1>5. i \in 1 .. w
  <2>1. r \in woken
    BY DEF Resume
  <2>2. PICK j \in 1 .. w : r = waiters[j]
    BY <2>1
  <2>3. j \in 1 .. len
    BY <1>1
  <2>4. QED
    BY <1>1, <1>4, <2>2, <2>3
<1>6. /\ waiters' \in Seq(Reqs) /\ Len(waiters') = len - 1
      /\ \A j \in 1 .. (len - 1) :
           waiters'[j] = IF j < i THEN waiters[j] ELSE waiters[j + 1]
  <2>1. waiters \in Seq(Reqs) /\ i \in 1 .. Len(waiters) /\ waiters' = RemoveAt(waiters, i)
    BY <1>1, <1>4
  <2>2. /\ waiters' \in Seq(Reqs) /\ Len(waiters') = Len(waiters) - 1
        /\ \A j \in 1 .. Len(waiters') :
             waiters'[j] = IF j < i THEN waiters[j] ELSE waiters[j + 1]
    BY ONLY <2>1, RemoveAtEffect
  <2>3. QED
    BY <2>2
<1> HIDE DEF len
<1>7. n \in Nat /\ w \in Nat /\ w + n <= len /\ w + n - 1 <= len - 1 /\ i <= w + n
  BY <1>1, <1>3, <1>5
<1>8. woken' = (woken \ {waiters[i]}) \cup {waiters[k] : k \in (w + 1) .. (w + n)}
  BY <1>1, <1>2, <1>3, <1>4, <1>7
<1>9. woken' = {waiters'[j] : j \in 1 .. (w + n - 1)}
  <2>1. ASSUME NEW x \in woken' PROVE \E j \in 1 .. (w + n - 1) : x = waiters'[j]
    <3>1. PICK k \in 1 .. (w + n) : x = waiters[k] /\ k # i
      BY <1>1, <1>5, <1>7, <1>8
    <3>2. CASE k < i
      <4>1. k \in 1 .. (w + n - 1) /\ k \in 1 .. (len - 1)
        BY <1>1, <1>7, <3>2
      <4>2. QED
        BY <1>6, <3>1, <3>2, <4>1
    <3>3. CASE k > i
      <4>1. /\ k - 1 \in 1 .. (w + n - 1) /\ k - 1 \in 1 .. (len - 1)
            /\ ~(k - 1 < i) /\ k - 1 + 1 = k
        BY <1>1, <1>7, <3>3
      <4>2. waiters'[k - 1] = waiters[k]
        BY <1>6, <4>1
      <4>3. QED
        BY <3>1, <4>1, <4>2
    <3>4. QED
      BY <1>1, <3>1, <3>2, <3>3
  <2>2. ASSUME NEW j \in 1 .. (w + n - 1) PROVE waiters'[j] \in woken'
    <3>1. j \in 1 .. (len - 1)
      BY <1>1, <1>7
    <3>2. PICK k \in 1 .. (w + n) : waiters'[j] = waiters[k] /\ k # i
      <4>1. CASE j < i
        <5>1. j \in 1 .. (w + n) /\ j # i
          BY <1>7, <4>1
        <5>2. QED
          BY <1>6, <3>1, <4>1, <5>1
      <4>2. CASE ~(j < i)
        <5>1. j + 1 \in 1 .. (w + n) /\ j + 1 # i
          BY <1>1, <1>7, <4>2
        <5>2. QED
          BY <1>6, <3>1, <4>2, <5>1
      <4>3. QED
        BY <4>1, <4>2
    <3>3. k \in 1 .. len /\ waiters[k] # waiters[i]
      BY <1>1, <1>7, <3>2
    <3>4. CASE k <= w
      BY <1>7, <1>8, <3>2, <3>3, <3>4
    <3>5. CASE k > w
      <4>1. k \in (w + 1) .. (w + n)
        BY <1>7, <3>5
      <4>2. QED
        BY <1>8, <3>2, <4>1
    <3>6. QED
      BY <1>7, <3>4, <3>5
  <2>3. QED
    BY <2>1, <2>2
<1>10. Resumes(r, w, n, i)
  BY <1>3, <1>4, <1>6, <1>7, <1>8, <1>9 DEF len, Resumes
<1>11. QED
  BY <1>3, <1>5, <1>10

-----------------------------------------------------------------------------
(* The semaphore's invariant *)

\* Who is in the network after a step of one request.
LEMMA InUseChange ==
    ASSUME SemaphoreInv, NEW r \in Reqs, NEW next \in Task, task' = [task EXCEPT ![r] = next]
    PROVE  /\ task' \in [Reqs -> Task] /\ task'[r] = next
           /\ \A x \in Reqs \ {r} : task'[x] = task[x]
           /\ InUse' = IF next.pc \in InNetwork THEN InUse \cup {r} ELSE InUse \ {r}
           /\ Cardinality(InUse') = IF next.pc \in InNetwork
                                    THEN IF r \in InUse THEN Cardinality(InUse)
                                         ELSE Cardinality(InUse) + 1
                                    ELSE IF r \in InUse THEN Cardinality(InUse) - 1
                                         ELSE Cardinality(InUse)
<1>1. /\ task' \in [Reqs -> Task] /\ task'[r] = next
      /\ \A x \in Reqs \ {r} : task'[x] = task[x]
  BY DEF SemaphoreInv
<1>2. InUse' = IF next.pc \in InNetwork THEN InUse \cup {r} ELSE InUse \ {r}
  BY <1>1 DEF InUse
<1>3. IsFiniteSet(InUse)
  BY Countable
<1>4. /\ Cardinality(InUse \cup {r}) =
           IF r \in InUse THEN Cardinality(InUse) ELSE Cardinality(InUse) + 1
      /\ Cardinality(InUse \ {r}) =
           IF r \in InUse THEN Cardinality(InUse) - 1 ELSE Cardinality(InUse)
  BY <1>3, FS_AddElement, FS_RemoveElement
<1>5. QED
  BY <1>1, <1>2, <1>4

\* How the invariant is put together after a step: the first waiters have the permits that
\* are on their way.
LEMMA SemaphoreKept ==
    ASSUME task' \in [Reqs -> Task], permits' \in Nat, WaitersWait',
           NEW w \in 0 .. Len(waiters'), woken' = {waiters'[i] : i \in 1 .. w},
           permits' + w + Cardinality(InUse') = Slots
    PROVE  SemaphoreInv'
<1>1. WokenFirst'
  BY DEF WokenFirst
<1>2. Cardinality(woken') = w
  <2>1. /\ waiters' \in Seq(Reqs) /\ w \in 0 .. Len(waiters')
        /\ \A i, j \in 1 .. Len(waiters') : waiters'[i] = waiters'[j] => i = j
        /\ woken' = {waiters'[i] : i \in 1 .. w}
    BY DEF WaitersWait
  <2>2. QED
    BY ONLY <2>1, CountFirst
<1>3. PermitsConserved'
  BY <1>2 DEF PermitsConserved, InUse
<1>4. QED
  BY <1>1, <1>3 DEF SemaphoreInv

\* A step beside the semaphore.
LEMMA QuietStep ==
    ASSUME SemaphoreInv, NEW r \in Reqs, NEW next \in Task, task' = [task EXCEPT ![r] = next],
           next.pc \in InNetwork <=> task[r].pc \in InNetwork,
           task[r].pc # "wait", next.pc # "wait", UNCHANGED semaphore
    PROVE  SemaphoreInv' /\ InUse' = InUse
<1>1. /\ task' \in [Reqs -> Task] /\ task'[r] = next
      /\ \A x \in Reqs \ {r} : task'[x] = task[x]
      /\ InUse' = InUse
  BY InUseChange DEF InUse
<1>2. permits' = permits /\ waiters' = waiters /\ woken' = woken
  BY DEF semaphore
<1>3. WaitersWait'
  BY <1>1, <1>2 DEF SemaphoreInv, WaitersWait
<1>4. WokenFirst' /\ permits' \in Nat
  BY <1>2 DEF SemaphoreInv, WokenFirst
<1>5. PermitsConserved'
  BY <1>1, <1>2 DEF SemaphoreInv, PermitsConserved, InUse
<1>6. QED
  BY <1>1, <1>3, <1>4, <1>5 DEF SemaphoreInv

\* A diagnosis ends and gives its permit back.
LEMMA EndStep ==
    ASSUME SemaphoreInv, NEW r \in Reqs, NEW next \in Task, task' = [task EXCEPT ![r] = next],
           task[r].pc \in InNetwork, next.pc = "store", Release
    PROVE  SemaphoreInv'
<1>1. PICK w \in 0 .. Len(waiters) : woken = {waiters[i] : i \in 1 .. w}
  BY DEF SemaphoreInv, WokenFirst
<1>2. waiters' = waiters
  BY DEF Release
<1>3. PICK n \in {0, 1} :
        /\ w + n <= Len(waiters) /\ permits' = permits + 1 - n
        /\ woken' = {waiters[i] : i \in 1 .. (w + n)}
  BY <1>1, ReleaseEffect
<1>4. /\ Len(waiters) \in Nat /\ Cardinality(woken) = w /\ permits \in Nat
      /\ Cardinality(InUse) \in Nat /\ permits + w + Cardinality(InUse) = Slots
  BY <1>1, WokenCount, Countable DEF SemaphoreInv
<1>5. /\ task' \in [Reqs -> Task] /\ task'[r] = next
      /\ \A x \in Reqs \ {r} : task'[x] = task[x]
      /\ Cardinality(InUse') = Cardinality(InUse) - 1
  BY InUseChange DEF InUse, InNetwork
<1>6. WaitersWait'
  BY <1>2, <1>5 DEF SemaphoreInv, WaitersWait, InNetwork
<1>7. w + n \in 0 .. Len(waiters') /\ permits' \in Nat
  BY <1>2, <1>3, <1>4
<1>8. permits' + (w + n) + Cardinality(InUse') = Slots
  BY <1>3, <1>4, <1>5
<1>9. woken' = {waiters'[i] : i \in 1 .. (w + n)}
  BY <1>2, <1>3
<1>10. QED
  BY <1>5, <1>6, <1>7, <1>8, <1>9, SemaphoreKept

\* A permit is taken from those that are left.
LEMMA AcquireAtOnceKeeps ==
    ASSUME SemaphoreInv, NEW r \in Reqs, AcquireAtOnce(r)
    PROVE  SemaphoreInv'
<1> DEFINE next == [task[r] EXCEPT !.pc = "begin"]
<1>1. next \in Task /\ task' = [task EXCEPT ![r] = next] /\ next.pc = "begin"
  BY DEF SemaphoreInv, AcquireAtOnce, Go, Task, Pc
<1>2. /\ task[r].pc = "acquire" /\ permits # 0 /\ permits' = permits - 1
      /\ waiters' = waiters /\ woken' = woken
  BY DEF AcquireAtOnce, Locked
<1>3. PICK w \in 0 .. Len(waiters) : woken = {waiters[i] : i \in 1 .. w}
  BY DEF SemaphoreInv, WokenFirst
<1>4. /\ Len(waiters) \in Nat /\ Cardinality(woken) = w /\ permits \in Nat
      /\ Cardinality(InUse) \in Nat /\ permits + w + Cardinality(InUse) = Slots
  BY <1>3, WokenCount, Countable DEF SemaphoreInv
<1> HIDE DEF next
<1>5. /\ task' \in [Reqs -> Task] /\ task'[r] = next
      /\ \A x \in Reqs \ {r} : task'[x] = task[x]
      /\ Cardinality(InUse') = Cardinality(InUse) + 1
  BY <1>1, <1>2, InUseChange DEF InUse, InNetwork
<1>6. WaitersWait'
  BY <1>1, <1>2, <1>5 DEF SemaphoreInv, WaitersWait
<1>7. permits' \in Nat /\ permits' + w + Cardinality(InUse') = Slots
  BY <1>2, <1>4, <1>5
<1>8. QED
  BY <1>2, <1>3, <1>5, <1>6, <1>7, SemaphoreKept

\* One more waits.
LEMMA AcquireLaterKeeps ==
    ASSUME SemaphoreInv, NEW r \in Reqs, AcquireLater(r)
    PROVE  SemaphoreInv' /\ InUse' = InUse
<1> DEFINE next == [task[r] EXCEPT !.pc = "wait"]
<1>1. next \in Task /\ task' = [task EXCEPT ![r] = next] /\ next.pc = "wait"
  BY DEF SemaphoreInv, AcquireLater, Go, Task, Pc
<1>2. /\ task[r].pc = "acquire" /\ permits' = permits
      /\ waiters' = Append(waiters, r) /\ woken' = woken
  BY DEF AcquireLater
<1>3. PICK w \in 0 .. Len(waiters) : woken = {waiters[i] : i \in 1 .. w}
  BY DEF SemaphoreInv, WokenFirst
<1>4. /\ Len(waiters) \in Nat /\ Cardinality(woken) = w /\ permits \in Nat
      /\ Cardinality(InUse) \in Nat /\ permits + w + Cardinality(InUse) = Slots
  BY <1>3, WokenCount, Countable DEF SemaphoreInv
<1> HIDE DEF next
<1>5. /\ task' \in [Reqs -> Task] /\ task'[r] = next
      /\ \A x \in Reqs \ {r} : task'[x] = task[x]
      /\ InUse' = InUse
  BY <1>1, <1>2, InUseChange DEF InUse, InNetwork
<1> DEFINE len == Len(waiters)
<1>6. /\ waiters' \in Seq(Reqs) /\ Len(waiters') = len + 1 /\ waiters'[len + 1] = r
      /\ \A i \in 1 .. len : waiters'[i] = waiters[i]
  BY <1>2, AppendProperties DEF SemaphoreInv, WaitersWait
<1>7. /\ len \in Nat /\ w \in 0 .. len
      /\ \A i, j \in 1 .. len : waiters[i] = waiters[j] => i = j
      /\ \A x \in Reqs : task[x].pc = "wait" <=> \E i \in 1 .. len : waiters[i] = x
  BY <1>4 DEF SemaphoreInv, WaitersWait
<1> HIDE DEF len
<1>8. \A i \in 1 .. (len + 1) : i \in 1 .. len \/ i = len + 1
  BY <1>7
<1>9. \A i \in 1 .. len : waiters[i] # r
  BY <1>2, <1>7
<1>10. \A i, j \in 1 .. (len + 1) : waiters'[i] = waiters'[j] => i = j
  BY <1>6, <1>7, <1>8, <1>9
<1>11. \A x \in Reqs : task'[x].pc = "wait" <=> \E i \in 1 .. (len + 1) : waiters'[i] = x
  <2>1. len + 1 \in 1 .. (len + 1) /\ \A i \in 1 .. len : i \in 1 .. (len + 1)
    BY <1>7
  <2>2. task'[r].pc = "wait" /\ \E i \in 1 .. (len + 1) : waiters'[i] = r
    BY <1>1, <1>5, <1>6, <2>1
  <2>3. ASSUME NEW x \in Reqs \ {r}
        PROVE  task'[x].pc = "wait" <=> \E i \in 1 .. (len + 1) : waiters'[i] = x
    BY <1>5, <1>6, <1>7, <1>8, <2>1
  <2>4. QED
    BY <2>2, <2>3
<1>12. WaitersWait'
  BY <1>6, <1>10, <1>11 DEF WaitersWait
<1>13. w \in 0 .. Len(waiters') /\ woken' = {waiters'[i] : i \in 1 .. w}
  <2>1. \A i \in 1 .. w : waiters'[i] = waiters[i]
    BY <1>6, <1>7
  <2>2. QED
    BY <1>2, <1>3, <1>6, <1>7, <2>1
<1>14. permits' \in Nat /\ permits' + w + Cardinality(InUse') = Slots
  BY <1>2, <1>4, <1>5
<1>15. QED
  BY <1>5, <1>12, <1>13, <1>14, SemaphoreKept

\* A waiter goes on with the permit it was given.
LEMMA ResumeKeeps ==
    ASSUME SemaphoreInv, NEW r \in Reqs, Resume(r)
    PROVE  SemaphoreInv'
<1> DEFINE next == [task[r] EXCEPT !.pc = "begin"]
           len == Len(waiters)
<1>1. next \in Task /\ task' = [task EXCEPT ![r] = next] /\ next.pc = "begin"
  BY DEF SemaphoreInv, Resume, Go, Task, Pc
<1>2. task[r].pc = "wait"
  BY Countable DEF Resume
<1>3. PICK w \in 0 .. len : woken = {waiters[i] : i \in 1 .. w}
  BY DEF SemaphoreInv, WokenFirst
<1>4. /\ len \in Nat /\ Cardinality(woken) = w /\ permits \in Nat
      /\ Cardinality(InUse) \in Nat /\ permits + w + Cardinality(InUse) = Slots
  BY <1>3, WokenCount, Countable DEF SemaphoreInv
<1>5. PICK n \in 0 .. permits, i \in 1 .. w :
        /\ w + n <= len /\ waiters[i] = r /\ permits' = permits - n
        /\ waiters' \in Seq(Reqs) /\ Len(waiters') = len - 1
        /\ \A j \in 1 .. Len(waiters') :
             waiters'[j] = IF j < i THEN waiters[j] ELSE waiters[j + 1]
        /\ woken' = {waiters'[j] : j \in 1 .. (w + n - 1)}
  <2>1. PICK n \in 0 .. permits, i \in 1 .. w : Resumes(r, w, n, i)
    BY <1>3, ResumeEffect
  <2>2. QED
    BY <2>1 DEF Resumes
<1>6. /\ \A j, k \in 1 .. len : waiters[j] = waiters[k] => j = k
      /\ \A x \in Reqs : task[x].pc = "wait" <=> \E j \in 1 .. len : waiters[j] = x
  BY DEF SemaphoreInv, WaitersWait
<1> HIDE DEF next, len
<1>7. /\ task' \in [Reqs -> Task] /\ task'[r] = next
      /\ \A x \in Reqs \ {r} : task'[x] = task[x]
      /\ Cardinality(InUse') = Cardinality(InUse) + 1
  BY <1>1, <1>2, InUseChange DEF InUse, InNetwork
\* The place that each of the remaining waiters had.
<1> DEFINE was(j) == IF j < i THEN j ELSE j + 1
<1>8. \A j \in 1 .. (len - 1) :
        /\ was(j) \in 1 .. len /\ was(j) # i /\ waiters'[j] = waiters[was(j)]
  BY <1>4, <1>5
<1>9. \A j, k \in 1 .. (len - 1) : was(j) = was(k) => j = k
  BY <1>4, <1>5
<1>10. ASSUME NEW k \in 1 .. len, k # i PROVE \E j \in 1 .. (len - 1) : was(j) = k
  <2>1. CASE k < i
    <3>1. k \in 1 .. (len - 1) /\ was(k) = k
      BY <1>4, <1>5, <2>1
    <3>2. QED
      BY <3>1
  <2>2. CASE k > i
    <3>1. k - 1 \in 1 .. (len - 1) /\ was(k - 1) = k
      BY <1>4, <1>5, <2>2
    <3>2. QED
      BY <3>1
  <2>3. QED
    BY <1>4, <1>5, <1>10, <2>1, <2>2
<1> HIDE DEF was
<1>11. \A j, k \in 1 .. (len - 1) : waiters'[j] = waiters'[k] => j = k
  BY <1>6, <1>8, <1>9
<1>12. ASSUME NEW x \in Reqs
       PROVE  task'[x].pc = "wait" <=> \E j \in 1 .. (len - 1) : waiters'[j] = x
  <2>1. i \in 1 .. len
    BY <1>4, <1>5
  <2>2. CASE x = r
    <3>1. task'[x].pc # "wait"
      BY <1>1, <1>7, <2>2
    <3>2. ASSUME NEW j \in 1 .. (len - 1) PROVE waiters'[j] # x
      <4>1. was(j) \in 1 .. len /\ was(j) # i /\ waiters'[j] = waiters[was(j)]
        BY <1>8
      <4>2. waiters[i] = x
        BY <1>5, <2>2
      <4>3. waiters[was(j)] # waiters[i]
        BY ONLY <1>6, <2>1, <4>1
      <4>4. QED
        BY <4>1, <4>2, <4>3
    <3>3. QED
      BY <3>1, <3>2
  <2>3. CASE x # r
    <3>1. task'[x] = task[x]
      BY <1>7, <2>3
    <3>2. ASSUME NEW k \in 1 .. len, waiters[k] = x
          PROVE  \E j \in 1 .. (len - 1) : waiters'[j] = x
      <4>1. k # i
        BY <1>5, <2>3, <3>2
      <4>2. QED
        BY <1>8, <1>10, <3>2, <4>1
    <3>3. ASSUME NEW j \in 1 .. (len - 1), waiters'[j] = x
          PROVE  \E k \in 1 .. len : waiters[k] = x
      BY <1>8, <3>3
    <3>4. QED
      BY <1>6, <3>1, <3>2, <3>3
  <2>4. QED
    BY <2>2, <2>3
<1>13. WaitersWait'
  <2>1. Len(waiters') = len - 1 /\ waiters' \in Seq(Reqs)
    BY <1>5
  <2>2. QED
    BY <1>11, <1>12, <2>1 DEF WaitersWait
<1>14. /\ w + n - 1 \in 0 .. Len(waiters') /\ permits' \in Nat
       /\ permits' + (w + n - 1) + Cardinality(InUse') = Slots
  BY <1>4, <1>5, <1>7
<1>15. QED
  BY <1>5, <1>7, <1>13, <1>14, SemaphoreKept

-----------------------------------------------------------------------------
(* The steps beside the semaphore *)

\* A request goes to "next": either beside the semaphore or by ending its diagnosis.
Quiet(r, next) ==
    /\ next.pc \in InNetwork <=> task[r].pc \in InNetwork
    /\ task[r].pc # "wait" /\ next.pc # "wait"
    /\ UNCHANGED semaphore
Ends(r, next) == task[r].pc \in InNetwork /\ next.pc = "store" /\ Release

\* What it does to the tables.
Rows(r, next) ==
    /\ TablesInv'
    /\ \A x \in Reqs \ {r} : run'[x] = run[x] /\ detail'[x] = detail[x]
    /\ Stored(next, run'[r], detail'[r])

Goes(r, next) ==
    /\ task' = [task EXCEPT ![r] = next]
    /\ Quiet(r, next) \/ Ends(r, next)
    /\ Carries(next) /\ Rows(r, next)

\* The fields of a request.
LEMMA Fields ==
    ASSUME NEW t \in Task
    PROVE  /\ t = [pc |-> t.pc, kind |-> t.kind, hops |-> t.hops, parses |-> t.parses,
                   host |-> t.host, code |-> t.code, checked |-> t.checked, cut |-> t.cut,
                   dbFailed |-> t.dbFailed]
           /\ t.pc \in Pc /\ t.kind \in Kind \cup {None} /\ t.hops \in Nat
           /\ t.parses \in BOOLEAN /\ t.code \in Code \cup {None} /\ t.checked \in Nat
           /\ t.cut \in BOOLEAN /\ t.dbFailed \in BOOLEAN /\ t.host \in Host \cup {None}
  BY DEF Task

\* Rows are left alone until the answer is there.
LEMMA RowsLeftAlone ==
    ASSUME IInv, NEW r \in Reqs, NEW next, task[r].pc # "answer", UNCHANGED <<run, detail>>
    PROVE  Rows(r, next)
  BY DEF IInv, RequestInv, TablesInv, Rows, Stored

\* The end of a diagnosis, with or without a permit.
LEMMA EndGoes ==
    ASSUME IInv, NEW r \in Reqs, NEW code \in Code, NEW parses \in BOOLEAN, NEW next,
           next = [Ended(r, code) EXCEPT !.parses = parses],
           task' = [task EXCEPT ![r] = next], UNCHANGED <<run, detail>>,
           \/ task[r].pc \in InNetwork /\ Release
           \/ task[r].pc = "validate" /\ UNCHANGED semaphore
    PROVE  next \in Task /\ Goes(r, next)
<1>1. task[r] \in Task /\ task[r].pc \notin {"idle", "wait", "answer"}
  BY DEF IInv, SemaphoreInv, InNetwork
<1>2. task[r].kind \in Kind
  BY <1>1 DEF IInv, RequestInv, Carries
<1>3. /\ next = [pc |-> "store", kind |-> task[r].kind, hops |-> 0, parses |-> parses,
                 host |-> None, code |-> code, checked |-> 0, cut |-> task[r].cut,
                 dbFailed |-> task[r].dbFailed]
      /\ next \in Task
  BY <1>1, Fields DEF Ended, Task, Pc
<1>4. Carries(next)
  BY <1>2, <1>3 DEF Carries
<1>5. Quiet(r, next) \/ Ends(r, next)
  BY <1>1, <1>3 DEF Quiet, Ends, InNetwork
<1>6. Rows(r, next)
  BY <1>1, RowsLeftAlone
<1>7. QED
  BY <1>3, <1>4, <1>5, <1>6 DEF Goes

LEMMA FinishGoes ==
    ASSUME IInv, NEW r \in Reqs, NEW code \in Code, task[r].pc \in InNetwork, Finish(r, code)
    PROVE  \E next \in Task : Goes(r, next)
<1>1. task[r] \in Task
  BY DEF IInv, SemaphoreInv
<1>2. Ended(r, code) = [Ended(r, code) EXCEPT !.parses = task[r].parses]
      /\ task[r].parses \in BOOLEAN
  BY <1>1, Fields DEF Ended
<1>3. QED
  BY <1>2, EndGoes DEF Finish

LEMMA RefuseGoes ==
    ASSUME IInv, NEW r \in Reqs, NEW code \in Code, task[r].pc = "validate", Refuse(r, code)
    PROVE  \E next \in Task : Goes(r, next)
<1>1. task[r] \in Task
  BY DEF IInv, SemaphoreInv
<1>2. Ended(r, code) = [Ended(r, code) EXCEPT !.parses = task[r].parses]
      /\ task[r].parses \in BOOLEAN
  BY <1>1, Fields DEF Ended
<1>3. QED
  BY <1>2, EndGoes DEF Refuse, semaphore

LEMMA ArriveGoes ==
    ASSUME IInv, NEW r \in Reqs, Arrive(r)
    PROVE  \E next \in Task : Goes(r, next)
<1>1. PICK k \in Asks[r] :
        task' = [task EXCEPT ![r] = [Idle EXCEPT !.kind = k,
                   !.pc = IF k = "HTTP" THEN "acquire" ELSE "validate"]]
  BY DEF Arrive
<1> DEFINE next == [Idle EXCEPT !.kind = k,
                      !.pc = IF k = "HTTP" THEN "acquire" ELSE "validate"]
<1>2. k \in Kind /\ task[r].pc = "idle" /\ UNCHANGED <<permits, waiters, woken, run, detail>>
  BY DiagnosisAssumption DEF Arrive, Idle
<1>3. /\ next = [pc |-> IF k = "HTTP" THEN "acquire" ELSE "validate", kind |-> k, hops |-> 0,
                 parses |-> TRUE, host |-> None, code |-> None, checked |-> 0, cut |-> FALSE,
                 dbFailed |-> FALSE]
      /\ next \in Task /\ next.pc \in {"acquire", "validate"}
  <2> DEFINE pc == IF k = "HTTP" THEN "acquire" ELSE "validate"
  <2>1. pc \in Pc /\ pc \in {"acquire", "validate"}
    BY DEF Pc
  <2> HIDE DEF pc
  <2>2. PICK n : n = [Idle EXCEPT !.kind = k, !.pc = pc]
    OBVIOUS
  <2>3. n = [pc |-> pc, kind |-> k, hops |-> 0, parses |-> TRUE, host |-> None, code |-> None,
             checked |-> 0, cut |-> FALSE, dbFailed |-> FALSE]
    BY <2>2 DEF Idle
  <2>4. n \in Task /\ n.pc = pc
    BY <1>2, <2>1, <2>3 DEF Task
  <2>5. next = n
    BY <2>2 DEF pc
  <2>6. QED
    BY <2>1, <2>3, <2>4, <2>5 DEF pc
<1>4. task' = [task EXCEPT ![r] = next]
  BY <1>1
<1> HIDE DEF next
<1>5. Carries(next)
  BY <1>2, <1>3 DEF Carries
<1>6. Quiet(r, next)
  BY <1>2, <1>3 DEF Quiet, InNetwork, semaphore
<1>7. Rows(r, next)
  BY <1>2, RowsLeftAlone
<1>8. QED
  BY <1>3, <1>4, <1>5, <1>6, <1>7 DEF Goes

\* A step of a check that goes on.
LEMMA GoesOn ==
    ASSUME IInv, NEW r \in Reqs, NEW next \in Task, task' = [task EXCEPT ![r] = next],
           next.pc \in InNetwork <=> task[r].pc \in InNetwork,
           task[r].pc \notin {"wait", "answer"}, next.pc # "wait",
           UNCHANGED <<permits, waiters, woken, run, detail>>, Carries(next)
    PROVE  Goes(r, next)
<1>1. Quiet(r, next)
  BY DEF Quiet, semaphore
<1>2. Rows(r, next)
  BY RowsLeftAlone
<1>3. QED
  BY <1>1, <1>2 DEF Goes

LEMMA HttpGoes ==
    ASSUME IInv, NEW r \in Reqs, HttpCheckStep(r) \/ NameChanges(r)
    PROVE  \E next \in Task : Goes(r, next)
<1>1. /\ task[r] \in Task /\ task[r].kind = "HTTP" /\ task[r].pc \in InNetwork
      /\ Carries(task[r])
  BY DEF IInv, SemaphoreInv, RequestInv, HttpCheckStep, HttpValidate, HttpResolve,
         HttpConnect, HttpSendFails, HttpRedirect, HttpResponse, HttpBody, NameChanges, At,
         InNetwork
<1>2. /\ {"VALIDATION_ERROR", "INTERNAL_SERVER_ERROR", "DNS_RESOLUTION_FAILED",
          "TARGET_NOT_ALLOWED", "CONNECTION_TIMEOUT", "CONNECTION_REFUSED", "TLS_ERROR",
          "TOO_MANY_REDIRECTS", "OK"} \subseteq Code
      /\ FALSE \in BOOLEAN /\ {"allowed", "blocked", "moved"} \subseteq Host
  BY DEF Code, Host
\* A step that goes on.
<1>3. ASSUME NEW next \in Task, next.pc \in {"resolve", "send", "connected", "body"},
             next.kind = "HTTP", task' = [task EXCEPT ![r] = next],
             next.pc = "resolve" => next.hops <= MaxRedirects /\ next.checked = next.hops,
             next.pc \in {"send", "connected"} =>
               /\ next.hops <= MaxRedirects /\ next.checked = next.hops + 1
               /\ next.host \in {"allowed", "moved"},
             UNCHANGED <<permits, waiters, woken, run, detail>>
      PROVE  Goes(r, next)
  <2>1. Carries(next)
    BY <1>3 DEF Carries, Kind
  <2>2. next.pc \in InNetwork /\ task[r].pc \notin {"wait", "answer"} /\ next.pc # "wait"
    BY <1>1, <1>3 DEF InNetwork
  <2>3. QED
    BY <1>1, <1>3, <2>1, <2>2, GoesOn
<1>4. CASE HttpValidate(r)
  <2>1. ASSUME NEW host \in {"allowed", "blocked"},
               task' = [task EXCEPT ![r].pc = "resolve", ![r].host = host],
               UNCHANGED <<permits, waiters, woken, run, detail>>
        PROVE  \E next \in Task : Goes(r, next)
    <3>1. task[r].hops = 0 /\ task[r].checked = 0 /\ host \in Host
      BY <1>1, <1>2, <1>4 DEF HttpValidate, At, Carries
    <3>2. PICK next : next = [task[r] EXCEPT !.pc = "resolve", !.host = host]
      OBVIOUS
    <3>3. /\ next \in Task /\ next.pc = "resolve" /\ next.kind = "HTTP"
          /\ next.hops = 0 /\ next.checked = 0
      BY <1>1, <3>1, <3>2 DEF Task, Pc
    <3>4. 0 <= MaxRedirects
      BY DiagnosisAssumption
    <3>5. task' = [task EXCEPT ![r] = next]
      BY <1>1, <2>1, <3>2 DEF Task
    <3>6. Goes(r, next)
      BY <1>3, <2>1, <3>3, <3>4, <3>5
    <3>7. QED
      BY <3>3, <3>6
  <2>2. CASE Finish(r, "VALIDATION_ERROR")
    BY <1>1, <1>2, <2>2, FinishGoes
  <2>3. CASE /\ task' = [task EXCEPT ![r] =
                  [Ended(r, "INTERNAL_SERVER_ERROR") EXCEPT !.parses = FALSE]]
             /\ Release /\ UNCHANGED <<run, detail>>
    BY <1>1, <1>2, <2>3, EndGoes
  <2>4. QED
    BY <1>4, <2>1, <2>2, <2>3 DEF HttpValidate
<1>5. CASE HttpResolve(r)
  <2>1. CASE /\ task[r].host = "allowed"
             /\ task' = [task EXCEPT ![r].pc = "send", ![r].checked = @ + 1]
             /\ UNCHANGED <<permits, waiters, woken, run, detail>>
    <3>1. /\ task[r].hops <= MaxRedirects /\ task[r].checked = task[r].hops
          /\ task[r].hops \in Nat /\ task[r].cut \in BOOLEAN
      BY <1>1, <1>5, Fields DEF HttpResolve, At, Carries
    <3>2. PICK next : next = [task[r] EXCEPT !.pc = "send", !.checked = task[r].hops + 1]
      OBVIOUS
    <3>3. /\ next \in Task /\ next.pc = "send" /\ next.kind = "HTTP"
          /\ next.hops = task[r].hops /\ next.checked = task[r].hops + 1
          /\ next.host = task[r].host
      <4>1. task[r] \in Task /\ task[r].kind = "HTTP" /\ task[r].hops + 1 \in Nat
        BY <1>1, <3>1
      <4>2. QED
        BY ONLY <3>2, <4>1 DEF Task, Pc
    <3>4. task' = [task EXCEPT ![r] = next]
      BY <2>1, <3>1, <3>2
    <3>5. Goes(r, next)
      BY <1>3, <2>1, <3>1, <3>3, <3>4
    <3>6. QED
      BY <3>3, <3>5
  <2>2. CASE \E code \in {"DNS_RESOLUTION_FAILED", "TARGET_NOT_ALLOWED",
                          "INTERNAL_SERVER_ERROR"} : Finish(r, code)
    BY <1>1, <1>2, <2>2, FinishGoes
  <2>3. QED
    BY <1>5, <2>1, <2>2 DEF HttpResolve
\* A change of the name, or a connection, leaves the hops as they are.
<1>6. ASSUME NEW pc \in {"resolve", "send", "connected"}, NEW host \in Host,
              task' = [task EXCEPT ![r] = [task[r] EXCEPT !.pc = pc, !.host = host]],
              task[r].pc = (IF pc = "connected" THEN "send" ELSE pc),
              pc = "resolve" \/ host \in {"allowed", "moved"},
              UNCHANGED <<permits, waiters, woken, run, detail>>
       PROVE  \E next \in Task : Goes(r, next)
  <2>1. PICK next : next = [task[r] EXCEPT !.pc = pc, !.host = host]
    OBVIOUS
  <2>2. /\ next \in Task /\ next.pc = pc /\ next.kind = "HTTP" /\ next.host = host
        /\ next.hops = task[r].hops /\ next.checked = task[r].checked
    BY <1>1, <1>6, <2>1 DEF Task, Pc
  <2>3. Goes(r, next)
    BY <1>1, <1>3, <1>6, <2>1, <2>2 DEF Carries
  <2>4. QED
    BY <2>2, <2>3
<1>7. CASE HttpConnect(r)
  <2>1. /\ task[r].pc = "send" /\ task[r].host \in {"allowed", "moved"}
        /\ UNCHANGED <<permits, waiters, woken, run, detail>>
    BY <1>1, <1>7 DEF HttpConnect, At, Carries
  <2>2. task' = [task EXCEPT ![r] = [task[r] EXCEPT !.pc = "connected", !.host = task[r].host]]
    BY <1>1, <1>7 DEF HttpConnect, Go, Task
  <2>3. task[r].host \in Host
    BY <1>2, <2>1
  <2>4. QED
    BY <1>6, <2>1, <2>2, <2>3
<1>8. CASE NameChanges(r)
  <2>1. UNCHANGED <<permits, waiters, woken, run, detail>>
    BY <1>8 DEF NameChanges
  <2>2. ASSUME NEW host \in {"allowed", "blocked"}, task[r].pc = "resolve",
               task' = [task EXCEPT ![r].host = host]
        PROVE  \E next \in Task : Goes(r, next)
    <3>1. task' = [task EXCEPT ![r] = [task[r] EXCEPT !.pc = "resolve", !.host = host]]
      BY <1>1, <2>2 DEF Task
    <3>2. QED
      BY <1>2, <1>6, <2>1, <2>2, <3>1
  <2>3. CASE /\ task[r].pc = "send"
             /\ task' = [task EXCEPT ![r].host = IF @ = "allowed" THEN "moved" ELSE "allowed"]
    <3>1. PICK host \in {"allowed", "moved"} :
            host = IF task[r].host = "allowed" THEN "moved" ELSE "allowed"
      OBVIOUS
    <3>2. task' = [task EXCEPT ![r] = [task[r] EXCEPT !.pc = "send", !.host = host]]
      BY <1>1, <2>3, <3>1 DEF Task
    <3>3. QED
      BY <1>2, <1>6, <2>1, <2>3, <3>1, <3>2
  <2>4. QED
    BY <1>8, <2>2, <2>3 DEF NameChanges, At
<1>9. CASE HttpSendFails(r)
  BY <1>1, <1>2, <1>9, FinishGoes DEF HttpSendFails
<1>10. CASE HttpRedirect(r)
  <2>1. /\ task[r].hops < MaxRedirects /\ task[r].checked = task[r].hops + 1
        /\ task[r].hops \in Nat /\ task[r].cut \in BOOLEAN
    BY <1>1, <1>10, Fields DEF HttpRedirect, At, Followed, Carries
  <2>2. NextHop(r).hops = task[r].hops + 1
    BY <1>1 DEF NextHop, Task
  <2>3. ASSUME NEW host \in {"allowed", "blocked"},
               task' = [task EXCEPT ![r] = [NextHop(r) EXCEPT !.host = host]],
               UNCHANGED <<permits, waiters, woken, run, detail>>
        PROVE  \E next \in Task : Goes(r, next)
    <3>1. PICK next : next = [NextHop(r) EXCEPT !.host = host]
      OBVIOUS
    <3>2. /\ next \in Task /\ next.pc = "resolve" /\ next.kind = "HTTP"
          /\ next.hops = task[r].hops + 1 /\ next.checked = task[r].checked
      <4>1. next = [task[r] EXCEPT !.pc = "resolve", !.hops = task[r].hops + 1, !.host = host]
        BY <1>1, <3>1 DEF NextHop, Task
      <4>2. /\ task[r] \in Task /\ task[r].kind = "HTTP" /\ task[r].hops + 1 \in Nat
            /\ host \in Host
        BY <1>1, <1>2, <2>1
      <4>3. QED
        BY ONLY <4>1, <4>2 DEF Task, Pc
    <3>3. task[r].hops + 1 <= MaxRedirects
      BY <2>1, DiagnosisAssumption
    <3>4. Goes(r, next)
      BY <1>3, <2>1, <2>3, <3>1, <3>2, <3>3
    <3>5. QED
      BY <3>2, <3>4
  <2>4. CASE \E code \in {"TOO_MANY_REDIRECTS", "VALIDATION_ERROR",
                          "INTERNAL_SERVER_ERROR"} : Finish(r, code)
    BY <1>1, <1>2, <2>4, FinishGoes
  <2>5. QED
    BY <1>10, <2>3, <2>4 DEF HttpRedirect
<1>11. CASE HttpResponse(r)
  <2>1. PICK cut \in BOOLEAN :
          task' = [task EXCEPT ![r].pc = "body", ![r].host = None, ![r].cut = cut]
    BY <1>11 DEF HttpResponse, Followed
  <2>2. PICK next : next = [task[r] EXCEPT !.pc = "body", !.host = None, !.cut = cut]
    OBVIOUS
  <2>3. next \in Task /\ next.pc = "body" /\ next.kind = "HTTP"
    BY <1>1, <2>2 DEF Task, Pc
  <2>4. task' = [task EXCEPT ![r] = next]
    BY <2>1, <2>2
  <2>5. Goes(r, next)
    BY <1>3, <1>11, <2>3, <2>4 DEF HttpResponse
  <2>6. QED
    BY <2>3, <2>5
<1>12. CASE HttpBody(r)
  BY <1>1, <1>2, <1>12, FinishGoes DEF HttpBody
<1>13. QED
  BY <1>4, <1>5, <1>9, <1>10, <1>11, <1>12, <1>7, <1>8 DEF HttpCheckStep

\* A port check or a lookup goes on.
LEMMA PcGoes ==
    ASSUME IInv, NEW r \in Reqs, NEW pc \in {"acquire", "send"}, Go(r, pc),
           task[r].kind # "HTTP", task[r].pc = (IF pc = "acquire" THEN "validate" ELSE "begin"),
           UNCHANGED <<permits, waiters, woken, run, detail>>
    PROVE  \E next \in Task : Goes(r, next)
<1>1. task[r] \in Task /\ Carries(task[r])
  BY DEF IInv, SemaphoreInv, RequestInv
<1>2. PICK next : next = [task[r] EXCEPT !.pc = pc]
  OBVIOUS
<1>3. next \in Task /\ next.pc = pc /\ next.kind = task[r].kind
  BY <1>1, <1>2 DEF Task, Pc
<1>4. Carries(next)
  BY <1>1, <1>3 DEF Carries
<1>5. task' = [task EXCEPT ![r] = next]
  BY <1>2 DEF Go
<1>6. Goes(r, next)
  BY <1>3, <1>4, <1>5, GoesOn DEF InNetwork
<1>7. QED
  BY <1>3, <1>6

LEMMA PortGoes ==
    ASSUME IInv, NEW r \in Reqs, PortCheckStep(r)
    PROVE  \E next \in Task : Goes(r, next)
<1>1. {"VALIDATION_ERROR", "TARGET_NOT_ALLOWED", "DNS_FAILED", "INTERNAL_SERVER_ERROR",
       "OPEN", "TIMEOUT", "REFUSED", "BLOCKED"} \subseteq Code
  BY DEF Code
<1>2. CASE PortValidate(r)
  <2>1. task[r].kind = "TCP" /\ task[r].pc = "validate"
    BY <1>2 DEF PortValidate, At
  <2>2. CASE Go(r, "acquire") /\ UNCHANGED <<permits, waiters, woken, run, detail>>
    BY <2>1, <2>2, PcGoes
  <2>3. CASE \E code \in {"VALIDATION_ERROR", "TARGET_NOT_ALLOWED"} : Refuse(r, code)
    BY <1>1, <2>1, <2>3, RefuseGoes
  <2>4. QED
    BY <1>2, <2>2, <2>3 DEF PortValidate
<1>3. CASE PortResolve(r)
  <2>1. task[r].kind = "TCP" /\ task[r].pc = "begin" /\ task[r].pc \in InNetwork
    BY <1>3 DEF PortResolve, At, InNetwork
  <2>2. CASE Go(r, "send") /\ UNCHANGED <<permits, waiters, woken, run, detail>>
    BY <2>1, <2>2, PcGoes
  <2>3. CASE \E code \in {"DNS_FAILED", "TARGET_NOT_ALLOWED", "INTERNAL_SERVER_ERROR"} :
               Finish(r, code)
    BY <1>1, <2>1, <2>3, FinishGoes
  <2>4. QED
    BY <1>3, <2>2, <2>3 DEF PortResolve
<1>4. CASE PortConnect(r)
  <2>1. task[r].pc \in InNetwork
    BY <1>4 DEF PortConnect, At, InNetwork
  <2>2. QED
    BY <1>1, <1>4, <2>1, FinishGoes DEF PortConnect
<1>5. QED
  BY <1>2, <1>3, <1>4 DEF PortCheckStep

LEMMA DnsGoes ==
    ASSUME IInv, NEW r \in Reqs, DnsLookupStep(r)
    PROVE  \E next \in Task : Goes(r, next)
<1>1. {"VALIDATION_ERROR", "OK", "OK_EMPTY", "DNS_RESOLUTION_FAILED", "CONNECTION_TIMEOUT",
       "INTERNAL_SERVER_ERROR"} \subseteq Code
  BY DEF Code
<1>2. CASE DnsValidate(r)
  <2>1. task[r].kind = "DNS" /\ task[r].pc = "validate"
    BY <1>2 DEF DnsValidate, At
  <2>2. CASE Go(r, "acquire") /\ UNCHANGED <<permits, waiters, woken, run, detail>>
    BY <2>1, <2>2, PcGoes
  <2>3. CASE Refuse(r, "VALIDATION_ERROR")
    BY <1>1, <2>1, <2>3, RefuseGoes
  <2>4. QED
    BY <1>2, <2>2, <2>3 DEF DnsValidate
<1>3. CASE DnsResolve(r)
  <2>1. task[r].pc \in InNetwork
    BY <1>3 DEF DnsResolve, At, InNetwork
  <2>2. QED
    BY <1>1, <1>3, <2>1, FinishGoes DEF DnsResolve
<1>4. QED
  BY <1>2, <1>3 DEF DnsLookupStep

\* A step of persist_diagnostic, which leaves the tables alone or stores what is answered.
LEMMA PersistenceGoes ==
    ASSUME IInv, NEW r \in Reqs, PersistenceStep(r)
    PROVE  \E next \in Task : Goes(r, next)
<1>1. task[r] \in Task /\ Carries(task[r]) /\ task[r].pc \in {"store", "detail"}
  BY DEF IInv, SemaphoreInv, RequestInv, PersistenceStep, PersistRaises, InsertRun,
         InsertDetail, DatabaseFails
<1>2. UNCHANGED semaphore
  BY DEF PersistenceStep, PersistRaises, InsertRun, InsertDetail, DatabaseFails, semaphore
<1>3. task[r].kind \in Kind /\ task[r].code \in Code
  BY <1>1 DEF Carries
<1>4. PICK next \in Task :
        /\ task' = [task EXCEPT ![r] = next] /\ next.pc \in {"detail", "answer"}
        /\ next.kind = task[r].kind /\ next.code = task[r].code
        /\ next.pc = "detail" => UNCHANGED <<run, detail>>
  <2>1. ASSUME NEW pc \in {"detail", "answer"}, Go(r, pc),
               pc = "detail" => UNCHANGED <<run, detail>>
        PROVE  \E next \in Task :
                 /\ task' = [task EXCEPT ![r] = next] /\ next.pc \in {"detail", "answer"}
                 /\ next.kind = task[r].kind /\ next.code = task[r].code
                 /\ next.pc = "detail" => UNCHANGED <<run, detail>>
    <3>1. PICK next : next = [task[r] EXCEPT !.pc = pc]
      OBVIOUS
    <3>2. /\ next \in Task /\ next.pc = pc /\ next.kind = task[r].kind
          /\ next.code = task[r].code
      BY <1>1, <3>1 DEF Task, Pc
    <3>3. task' = [task EXCEPT ![r] = next]
      BY <2>1, <3>1 DEF Go
    <3>4. QED
      BY <2>1, <3>2, <3>3
  <2>2. CASE task' = [task EXCEPT ![r].pc = "answer", ![r].dbFailed = TRUE]
    <3>1. PICK next : next = [task[r] EXCEPT !.pc = "answer", !.dbFailed = TRUE]
      OBVIOUS
    <3>2. /\ next \in Task /\ next.pc = "answer" /\ next.kind = task[r].kind
          /\ next.code = task[r].code
      BY <1>1, <3>1 DEF Task, Pc
    <3>3. task' = [task EXCEPT ![r] = next]
      BY <2>2, <3>1
    <3>4. QED
      BY <3>2, <3>3
  <2>3. \/ Go(r, "answer")
        \/ Go(r, "detail") /\ UNCHANGED <<run, detail>>
        \/ task' = [task EXCEPT ![r].pc = "answer", ![r].dbFailed = TRUE]
    BY DEF PersistenceStep, PersistRaises, InsertRun, InsertDetail, DatabaseFails
  <2>4. QED
    BY <2>1, <2>2, <2>3
<1>5. Carries(next)
  BY <1>3, <1>4 DEF Carries
<1>6. Quiet(r, next)
  BY <1>1, <1>2, <1>4 DEF Quiet, InNetwork
<1>7. Rows(r, next)
  <2>1. UNCHANGED <<run, detail>> \/ Commit(r)
    BY DEF PersistenceStep, PersistRaises, InsertRun, InsertDetail, DatabaseFails
  <2>2. CASE UNCHANGED <<run, detail>>
    BY <1>1, <2>2, RowsLeftAlone
  <2>3. CASE Commit(r) /\ next.pc = "answer"
    BY <1>3, <1>4, <2>3 DEF Rows, Commit, TablesInv, IInv, Stored
  <2>4. QED
    BY <1>4, <2>1, <2>2, <2>3
<1>8. QED
  BY <1>4, <1>5, <1>6, <1>7 DEF Goes

LEMMA AnswerGoes ==
    ASSUME IInv, NEW r \in Reqs, Answer(r)
    PROVE  \E next \in Task : Goes(r, next)
<1>1. Idle \in Task /\ Idle.pc = "idle" /\ Idle.kind = None
  BY DEF Idle, Task, Pc
<1>2. Carries(Idle)
  BY <1>1, NoneAssumption DEF Carries, Kind
<1>3. Quiet(r, Idle)
  BY <1>1 DEF Answer, Quiet, InNetwork
<1>4. Rows(r, Idle)
  BY DEF Answer, Rows, TablesInv, IInv, Stored
<1>5. task' = [task EXCEPT ![r] = Idle]
  BY DEF Answer
<1>6. QED
  BY <1>1, <1>2, <1>3, <1>4, <1>5 DEF Goes

-----------------------------------------------------------------------------
(* The invariant *)

LEMMA InitInv == Init => IInv
<1> SUFFICES ASSUME Init PROVE IInv
  OBVIOUS
<1>1. Idle \in Task /\ Idle.pc = "idle" /\ Idle.kind = None
  BY DEF Idle, Task, Pc
<1>2. /\ task \in [Reqs -> Task] /\ permits = Slots /\ permits \in Nat
      /\ \A r \in Reqs : task[r] = Idle
  BY <1>1, DiagnosisAssumption DEF Init
<1>3. waiters = << >> /\ waiters \in Seq(Reqs) /\ Len(waiters) = 0 /\ woken = {}
  BY DEF Init
<1>4. WaitersWait
  BY <1>1, <1>2, <1>3 DEF WaitersWait
<1>5. WokenFirst
  <2>1. 0 \in 0 .. Len(waiters) /\ woken = {waiters[i] : i \in 1 .. 0}
    BY <1>3
  <2>2. QED
    BY <2>1 DEF WokenFirst
<1>6. PermitsConserved
  <2>1. {r \in Reqs : task[r].pc \in InNetwork} = {} /\ woken = {}
    BY <1>1, <1>2, <1>3 DEF InNetwork
  <2>2. Cardinality({}) = 0
    BY FS_EmptySet
  <2>3. QED
    BY <1>2, <2>1, <2>2, DiagnosisAssumption DEF PermitsConserved
<1>7. RequestInv
  BY <1>1, <1>2, NoneAssumption DEF Init, RequestInv, Carries, Stored, Kind
<1>8. TablesInv
  BY DEF Init, TablesInv
<1>9. QED
  BY <1>2, <1>4, <1>5, <1>6, <1>7, <1>8 DEF IInv, SemaphoreInv

\* A step is one of the semaphore or one of those above.
LEMMA Steps ==
    ASSUME IInv, NEW r \in Reqs, Arrive(r) \/ NameChanges(r) \/ Step(r)
    PROVE  SemaphoreStep(r) \/ \E next \in Task : Goes(r, next)
  BY ArriveGoes, HttpGoes, PortGoes, DnsGoes, PersistenceGoes, AnswerGoes DEF Step

\* What a step of the semaphore does to the request.
LEMMA SemaphoreStepTask ==
    ASSUME IInv, NEW r \in Reqs, SemaphoreStep(r)
    PROVE  \E pc \in {"wait", "begin"} :
             /\ Go(r, pc) /\ task[r].pc \in {"acquire", "wait"}
             /\ pc = "wait" => task[r].pc = "acquire"
             /\ UNCHANGED <<run, detail>>
<1>1. IInv => SemaphoreInv
  BY DEF IInv
<1>2. ASSUME Resume(r) PROVE task[r].pc = "wait" /\ Go(r, "begin") /\ UNCHANGED <<run, detail>>
  BY <1>1, <1>2, Countable DEF Resume
<1>3. QED
  BY <1>2 DEF SemaphoreStep, AcquireAtOnce, AcquireLater

LEMMA StepInv == IInv /\ [Next]_vars => IInv'
<1> SUFFICES ASSUME IInv, [Next]_vars PROVE IInv'
  OBVIOUS
<1>1. CASE UNCHANGED vars
  <2>1. SemaphoreInv'
    BY <1>1 DEF vars, IInv, SemaphoreInv, WaitersWait, WokenFirst, PermitsConserved
  <2>2. RequestInv' /\ TablesInv'
    BY <1>1 DEF vars, IInv, RequestInv, TablesInv
  <2>3. QED
    BY <2>1, <2>2 DEF IInv
<1>2. ASSUME NEW r \in Reqs, SemaphoreStep(r) PROVE IInv'
  <2>1. SemaphoreInv'
    BY <1>2, AcquireAtOnceKeeps, AcquireLaterKeeps, ResumeKeeps DEF SemaphoreStep, IInv
  <2>2. PICK pc \in {"wait", "begin"} :
          /\ Go(r, pc) /\ task[r].pc \in {"acquire", "wait"}
          /\ UNCHANGED <<run, detail>>
    BY <1>2, SemaphoreStepTask
  <2>3. task \in [Reqs -> Task] /\ Carries(task[r])
    BY DEF IInv, SemaphoreInv, RequestInv
  <2>4. PICK next : next = [task[r] EXCEPT !.pc = pc]
    OBVIOUS
  <2>5. /\ next.pc = pc /\ next.kind = task[r].kind /\ next.hops = task[r].hops
        /\ next.checked = task[r].checked
    BY <2>3, <2>4 DEF Task
  <2>6. Carries(next)
    BY <2>2, <2>3, <2>5 DEF Carries
  <2>7. task'[r] = next /\ \A x \in Reqs \ {r} : task'[x] = task[x]
    BY <2>2, <2>3, <2>4 DEF Go
  <2>8. Stored(next, run'[r], detail'[r])
    BY <2>2 DEF IInv, RequestInv, Stored
  <2>9. RequestInv' /\ TablesInv'
    BY <2>2, <2>6, <2>7, <2>8 DEF IInv, RequestInv, TablesInv
  <2>10. QED
    BY <2>1, <2>9 DEF IInv
<1>3. ASSUME NEW r \in Reqs, NEW next \in Task, Goes(r, next) PROVE IInv'
  <2>1. SemaphoreInv'
    <3>1. SemaphoreInv /\ task' = [task EXCEPT ![r] = next]
      BY <1>3 DEF IInv, Goes
    <3>2. CASE Quiet(r, next)
      BY <3>1, <3>2, QuietStep DEF Quiet
    <3>3. CASE Ends(r, next)
      BY <3>1, <3>3, EndStep DEF Ends
    <3>4. QED
      BY <1>3, <3>2, <3>3 DEF Goes
  <2>2. task'[r] = next /\ \A x \in Reqs \ {r} : task'[x] = task[x]
    BY <1>3 DEF Goes, IInv, SemaphoreInv
  <2>3. /\ Carries(next) /\ TablesInv' /\ Stored(next, run'[r], detail'[r])
        /\ \A x \in Reqs \ {r} : run'[x] = run[x] /\ detail'[x] = detail[x]
    BY <1>3 DEF Goes, Rows
  <2>4. RequestInv'
    BY <2>2, <2>3 DEF IInv, RequestInv
  <2>5. QED
    BY <2>1, <2>3, <2>4 DEF IInv
<1>4. QED
  BY <1>1, <1>2, <1>3, Steps DEF Next

THEOREM Invariance == Spec => []IInv
<1>1. QED
  BY InitInv, StepInv, PTL DEF Spec

\* The requests, the semaphore and the tables keep the shape the code gives them; nobody
\* but a waiter is woken.
THEOREM TypeCorrect == Spec => []TypeOK
<1>1. IInv => TypeOK
  <2> SUFFICES ASSUME IInv PROVE TypeOK
    OBVIOUS
  <2>1. permits \in 0 .. Slots
    BY Countable, DiagnosisAssumption DEF IInv, SemaphoreInv
  <2>2. waiters \in Seq(Reqs) /\ woken \subseteq ToSet(waiters)
    <3>1. waiters \in Seq(Reqs) /\ DOMAIN waiters = 1 .. Len(waiters) /\ Len(waiters) \in Nat
      BY LenProperties DEF IInv, SemaphoreInv, WaitersWait
    <3>2. PICK w \in 0 .. Len(waiters) : woken = {waiters[i] : i \in 1 .. w}
      BY DEF IInv, SemaphoreInv, WokenFirst
    <3>3. \A i \in 1 .. w : i \in DOMAIN waiters
      BY <3>1
    <3>4. QED
      BY <3>1, <3>2, <3>3 DEF ToSet
  <2>3. QED
    BY <2>1, <2>2 DEF IInv, SemaphoreInv, TablesInv, TypeOK
<1>2. QED
  BY Invariance, <1>1, PTL

\* Every permit is left, used or on its way to a waiter: none is lost, none is made up,
\* whatever a diagnosis ends with (the "async with" of the three handlers).
THEOREM PermitsAreConserved == Spec => []PermitsConserved
<1>1. IInv => PermitsConserved
  BY DEF IInv, SemaphoreInv
<1>2. QED
  BY Invariance, <1>1, PTL

\* No connection is made for a URL of a chain whose own host has not been resolved and found
\* allowed, unless the name has changed since, and no chain is longer than max_redirects
\* (perform_http_check).
THEOREM HopsAreChecked == Spec => []EveryHopChecked
<1>1. IInv => EveryHopChecked
  BY DEF IInv, RequestInv, Carries, EveryHopChecked, At
<1>2. QED
  BY Invariance, <1>1, PTL

\* The history has a run with its details or not at all, and with the code its request is
\* answered with (persist_diagnostic).
THEOREM HistoryAgreesWithAnswers == Spec => []HistoryAgrees
<1>1. IInv => HistoryAgrees
  <2> SUFFICES ASSUME IInv, NEW r \in Reqs
               PROVE  /\ run[r] = None <=> detail[r] = None
                      /\ run[r] # None /\ task[r].pc = "answer"
                           => run[r] = task[r].code /\ detail[r] = task[r].kind
    BY DEF HistoryAgrees
  <2>1. Carries(task[r]) /\ Stored(task[r], run[r], detail[r])
    BY DEF IInv, RequestInv
  <2>2. CASE run[r] = None /\ detail[r] = None
    BY <2>2
  <2>3. CASE task[r].pc = "answer" /\ run[r] = task[r].code /\ detail[r] = task[r].kind
    <3>1. task[r].kind \in Kind /\ task[r].code \in Code
      BY <2>1, <2>3 DEF Carries
    <3>2. QED
      BY <2>3, <3>1, NoneAssumption
  <2>4. QED
    BY <2>1, <2>2, <2>3 DEF Stored
<1>2. QED
  BY Invariance, <1>1, PTL

-----------------------------------------------------------------------------
(* The semaphore implements the queue *)

\* What the mapping makes of the semaphore.
Queued == SubSeq(waiters, Cardinality(woken) + 1, Len(waiters))
Running == woken \cup {r \in Reqs : task[r].pc \in InNetwork}

LEMMA SameOperators ==
    ASSUME NEW S
    PROVE  Queue!Cardinality(S) = Cardinality(S) /\ Queue!ToSet(S) = ToSet(S)
<1>1. Queue!Cardinality(S) = Cardinality(S)
  BY DEF Queue!Cardinality, Cardinality
<1>2. Queue!ToSet(S) = ToSet(S)
  BY DEF Queue!ToSet, ToSet
<1>3. QED
  BY <1>1, <1>2

\* As many run as have a permit; those in the queue are waiters without one.
LEMMA MappedState ==
    ASSUME SemaphoreInv
    PROVE  /\ Cardinality(Running) = Slots - permits /\ Cardinality(Running) <= Slots
           /\ permits \in Nat /\ Running = woken \cup InUse
           /\ \A r \in Running : task[r].pc \in InNetwork \cup {"wait"}
           /\ \A r \in ToSet(Queued) : task[r].pc = "wait"
<1>1. /\ IsFiniteSet(InUse) /\ IsFiniteSet(woken) /\ woken \cap InUse = {}
      /\ Cardinality(InUse) \in Nat /\ Cardinality(woken) \in Nat /\ permits \in Nat
      /\ permits + Cardinality(woken) + Cardinality(InUse) = Slots
      /\ \A r \in woken : task[r].pc = "wait"
  BY Countable DEF SemaphoreInv
<1>2. Running = woken \cup InUse
  BY DEF Running, InUse
<1>3. Cardinality(Running) = Cardinality(woken) + Cardinality(InUse)
  <2>1. Cardinality({}) = 0
    BY FS_EmptySet
  <2>2. Cardinality(woken \cup InUse)
          = Cardinality(woken) + Cardinality(InUse) - Cardinality({})
    BY <1>1, FS_Union
  <2>3. QED
    BY <1>1, <1>2, <2>1, <2>2
<1>4. \A r \in ToSet(Queued) : task[r].pc = "wait"
  <2>1. PICK w \in 0 .. Len(waiters) : woken = {waiters[i] : i \in 1 .. w}
    BY DEF SemaphoreInv, WokenFirst
  <2>2. Cardinality(woken) = w /\ waiters \in Seq(Reqs) /\ Len(waiters) \in Nat
    BY <2>1, WokenCount DEF SemaphoreInv, WaitersWait
  <2>3. /\ Queued \in Seq(Reqs) /\ Len(Queued) = Len(waiters) - w
        /\ \A i \in 1 .. (Len(waiters) - w) : Queued[i] = waiters[w + i]
    <3>1. Queued = SubSeq(waiters, w + 1, Len(waiters))
      BY <2>2 DEF Queued
    <3>2. QED
      BY ONLY <2>2, <3>1, w \in 0 .. Len(waiters), SuffixEffect
  <2>4. DOMAIN Queued = 1 .. (Len(waiters) - w)
    BY <2>3, LenProperties
  <2>5. ASSUME NEW i \in 1 .. (Len(waiters) - w) PROVE task[Queued[i]].pc = "wait"
    <3>1. w + i \in 1 .. Len(waiters) /\ Queued[i] = waiters[w + i]
      BY <2>2, <2>3
    <3>2. waiters[w + i] \in Reqs
      BY <2>2, <3>1, ElementOfSeq
    <3>3. QED
      BY <3>1, <3>2 DEF SemaphoreInv, WaitersWait
  <2>6. QED
    BY <2>4, <2>5 DEF ToSet
<1>5. QED
  BY <1>1, <1>2, <1>3, <1>4, DiagnosisAssumption DEF InUse

LEMMA FewRun == SemaphoreInv => Cardinality(Running) <= Slots
  BY MappedState

\* Permits are handed to the next n waiters, wherever the others stand now.
LEMMA MappedMove ==
    ASSUME SemaphoreInv, SemaphoreInv',
           NEW w \in 0 .. Len(waiters), woken = {waiters[i] : i \in 1 .. w},
           NEW v \in 0 .. Len(waiters'), woken' = {waiters'[i] : i \in 1 .. v},
           NEW n \in Nat, Shifted(waiters, w, waiters', v, n),
           NEW gone, gone \subseteq Running,
           Running' = (Running \ gone) \cup {waiters[i] : i \in (w + 1) .. (w + n)}
    PROVE  n \in 0 .. Len(Queued) /\ Queue!Move(gone, n)
<1>1. /\ waiters \in Seq(Reqs) /\ Len(waiters) \in Nat /\ Cardinality(woken) = w
      /\ waiters' \in Seq(Reqs)
  BY WokenCount DEF SemaphoreInv, WaitersWait
<1>2. Cardinality(woken') = v
  <2>1. /\ waiters' \in Seq(Reqs) /\ v \in 0 .. Len(waiters')
        /\ \A i, j \in 1 .. Len(waiters') : waiters'[i] = waiters'[j] => i = j
        /\ woken' = {waiters'[i] : i \in 1 .. v}
    BY DEF SemaphoreInv, WaitersWait
  <2>2. QED
    BY ONLY <2>1, CountFirst
<1>3. /\ Queued = SubSeq(waiters, w + 1, Len(waiters))
      /\ Queued' = SubSeq(waiters', v + 1, Len(waiters'))
  BY <1>1, <1>2 DEF Queued
<1>4. Queued' = SubSeq(Queued, n + 1, Len(Queued))
  <2>1. w \in Nat /\ v \in Nat
    BY <1>1, LenProperties
  <2>2. After(waiters', v) = After(After(waiters, w), n)
    BY ONLY <1>1, <2>1, n \in Nat, Shifted(waiters, w, waiters', v, n), SuffixShift
  <2>3. QED
    BY ONLY <1>3, <2>2 DEF After
<1>5. /\ ToSet(SubSeq(Queued, 1, n)) = {waiters[i] : i \in (w + 1) .. (w + n)}
      /\ Len(Queued) = Len(waiters) - w
  <2>1. /\ waiters \in Seq(Reqs) /\ w \in 0 .. Len(waiters) /\ n \in 0 .. (Len(waiters) - w)
    BY <1>1 DEF Shifted
  <2>2. ToSet(SubSeq(Queued, 1, n)) = {waiters[i] : i \in (w + 1) .. (w + n)}
    BY ONLY <1>3, <2>1, SuffixFirst
  <2>3. Len(Queued) = Len(waiters) - w
    BY ONLY <1>3, <2>1, SuffixEffect
  <2>4. QED
    BY <2>2, <2>3
<1>6. Cardinality(Running') <= Slots
  <2>1. (SemaphoreInv => Cardinality(Running) <= Slots)'
    BY FewRun, PTL
  <2>2. QED
    BY <2>1
<1>7. n \in 0 .. Len(Queued)
  BY <1>5 DEF Shifted
<1>8. Running' = (Running \ gone) \cup ToSet(SubSeq(Queued, 1, n))
  BY <1>5
<1>9. QED
  BY <1>4, <1>6, <1>7, <1>8, SameOperators DEF Queue!Move, Queued, Running

LEMMA MappedInit == Init => Queue!Init
<1> SUFFICES ASSUME Init PROVE Queue!Init
  OBVIOUS
<1>1. waiters = << >> /\ woken = {} /\ \A r \in Reqs : task[r].pc = "idle"
  BY DEF Init, Idle
<1>2. Running = {}
  BY <1>1 DEF Running, InNetwork
<1>3. Cardinality(woken) = 0 /\ Len(waiters) = 0
  BY <1>1, FS_EmptySet
<1>4. Queued = << >>
  BY <1>3, SubSeqEmpty DEF Queued
<1>5. QED
  BY <1>2, <1>4 DEF Queue!Init, Queued, Running

\* A permit that is free is taken: the first disjunct of Enter.
LEMMA MappedAtOnce ==
    ASSUME SemaphoreInv, SemaphoreInv', NEW r \in Reqs, AcquireAtOnce(r)
    PROVE  Queue!Enter(r)
<1>1. /\ task[r].pc = "acquire" /\ permits # 0 /\ waiters = << >>
      /\ waiters' = waiters /\ woken' = woken
  BY DEF AcquireAtOnce, Locked
<1>2. /\ r \notin Running \cup ToSet(Queued)
      /\ Cardinality(Running) = Slots - permits /\ permits \in Nat
  BY <1>1, MappedState DEF InNetwork
<1>3. Cardinality(Running) < Slots
  BY <1>1, <1>2, DiagnosisAssumption
<1>4. Queued = << >> /\ Queued' = Queued
  <2>1. Len(waiters) = 0
    BY <1>1
  <2>2. Cardinality(woken) \in Nat
    BY Countable
  <2>3. 0 < Cardinality(woken) + 1 /\ Cardinality(woken) + 1 \in Int
    BY <2>2
  <2>4. SubSeq(waiters, Cardinality(woken) + 1, 0) = << >>
    BY ONLY <2>3, 0 \in Int, SubSeqEmpty
  <2>5. QED
    BY <1>1, <2>1, <2>4 DEF Queued
<1>5. Running' = Running \cup {r}
  <2>1. /\ task \in [Reqs -> Task] /\ task' = [task EXCEPT ![r].pc = "begin"]
    BY DEF SemaphoreInv, AcquireAtOnce, Go
  <2>2. task'[r].pc = "begin" /\ \A x \in Reqs \ {r} : task'[x] = task[x]
    BY <2>1 DEF Task
  <2>3. QED
    BY <1>1, <2>2 DEF Running, InNetwork
<1>6. QED
  BY <1>2, <1>3, <1>4, <1>5, SameOperators DEF Queue!Enter, Queued, Running

\* The request joins the queue: the second disjunct of Enter.
LEMMA MappedLater ==
    ASSUME SemaphoreInv, SemaphoreInv', NEW r \in Reqs, AcquireLater(r)
    PROVE  Queue!Enter(r)
<1>1. /\ task[r].pc = "acquire" /\ waiters' = Append(waiters, r) /\ woken' = woken
  BY DEF AcquireLater
<1>2. r \notin Running \cup ToSet(Queued)
  BY <1>1, MappedState DEF InNetwork
<1>3. Running' = Running
  <2>1. InUse' = InUse
    BY AcquireLaterKeeps
  <2>2. QED
    BY <1>1, <2>1 DEF Running, InUse
<1>4. Queued' = Append(Queued, r)
  <2>1. PICK w \in 0 .. Len(waiters) : woken = {waiters[i] : i \in 1 .. w}
    BY DEF SemaphoreInv, WokenFirst
  <2>2. /\ Cardinality(woken) = w /\ waiters \in Seq(Reqs) /\ Len(waiters) \in Nat
    BY <2>1, WokenCount DEF SemaphoreInv, WaitersWait
  <2>3. /\ waiters' \in Seq(Reqs) /\ Len(waiters') = Len(waiters) + 1
        /\ \A i \in 1 .. (Len(waiters) + 1) :
             waiters'[i] = IF i = Len(waiters) + 1 THEN r ELSE waiters[i]
    BY <1>1, <2>2, AppendProperties
  <2> DEFINE q == Queued
             p == Queued'
             u == Append(q, r)
             s == waiters
             t == waiters'
  <2>4. q = SubSeq(s, w + 1, Len(s)) /\ p = SubSeq(t, w + 1, Len(t))
    BY <1>1, <2>2 DEF Queued
  <2> HIDE DEF q, p, u
  <2>5. /\ q \in Seq(Reqs) /\ Len(q) = Len(s) - w
        /\ \A i \in 1 .. (Len(s) - w) : q[i] = s[w + i]
    BY ONLY <2>2, <2>4, w \in 0 .. Len(waiters), SuffixEffect
  <2>6. w \in 0 .. Len(t)
    BY <2>2, <2>3
  <2>7. /\ p \in Seq(Reqs) /\ Len(p) = Len(t) - w
        /\ \A i \in 1 .. (Len(t) - w) : p[i] = t[w + i]
    BY ONLY <2>3, <2>4, <2>6, SuffixEffect
  <2>8. /\ u \in Seq(Reqs) /\ Len(u) = Len(q) + 1 /\ u[Len(q) + 1] = r
        /\ \A i \in 1 .. Len(q) : u[i] = q[i]
    BY <2>5, AppendProperties DEF u
  <2> DEFINE len == Len(s)
             lq == Len(q)
             lp == Len(p)
             lu == Len(u)
  <2>9. len \in Nat /\ w \in 0 .. len /\ lq = len - w /\ lp = len + 1 - w /\ lu = lq + 1
    BY <2>2, <2>3, <2>5, <2>7, <2>8
  <2>10. ASSUME NEW i \in 1 .. lp PROVE p[i] = u[i]
    <3>1. p[i] = t[w + i] /\ w + i \in 1 .. (len + 1)
      BY <2>3, <2>7, <2>9
    <3> HIDE DEF len, lq, lp, lu, s, t
    <3>2. CASE i = len - w + 1
      <4>1. w + i = len + 1 /\ i = lq + 1
        BY <2>9, <3>2
      <4>2. t[len + 1] = r /\ u[lq + 1] = r
        BY <2>2, <2>3, <2>8 DEF len, lq, s, t
      <4>3. QED
        BY <3>1, <4>1, <4>2
    <3>3. CASE i # len - w + 1
      <4>1. w + i # len + 1 /\ i \in 1 .. (len - w) /\ i \in 1 .. lq
        BY <2>9, <3>3
      <4>2. t[w + i] = s[w + i]
        BY <2>3, <3>1, <4>1 DEF len, s, t
      <4>3. u[i] = q[i] /\ q[i] = s[w + i]
        BY <2>5, <2>8, <4>1 DEF len, lq
      <4>4. QED
        BY <3>1, <4>2, <4>3
    <3>4. QED
      BY <3>2, <3>3
  <2>11. Len(p) = Len(u)
    BY <2>9
  <2>12. p = u
    BY ONLY <2>7, <2>8, <2>10, <2>11, SeqEqual DEF lp
  <2>13. QED
    BY <2>12 DEF p, u, q
<1>5. QED
  BY <1>2, <1>3, <1>4, SameOperators DEF Queue!Enter, Queued, Running

\* A diagnosis ends, and the next one may start: Move.
LEMMA MappedEnd ==
    ASSUME SemaphoreInv, SemaphoreInv', NEW r \in Reqs, NEW next \in Task,
           task' = [task EXCEPT ![r] = next], Ends(r, next)
    PROVE  \E n \in 0 .. Len(Queued) : Queue!Move({r}, n)
<1>1. PICK w \in 0 .. Len(waiters) : woken = {waiters[i] : i \in 1 .. w}
  BY DEF SemaphoreInv, WokenFirst
<1>2. Release /\ task[r].pc \in InNetwork /\ next.pc = "store"
  BY DEF Ends
<1>3. PICK n \in {0, 1} :
        /\ waiters' = waiters /\ w + n <= Len(waiters)
        /\ woken' = {waiters[i] : i \in 1 .. (w + n)}
  BY <1>1, <1>2, ReleaseEffect
<1>4. /\ Len(waiters) \in Nat /\ r \in InUse /\ woken \cap InUse = {}
      /\ InUse' = InUse \ {r}
  BY <1>1, <1>2, WokenCount, Countable, InUseChange DEF SemaphoreInv, InUse, InNetwork
<1>5. w \in Nat /\ n \in Nat /\ w + n \in 0 .. Len(waiters')
  BY <1>3, <1>4
<1>6. Shifted(waiters, w, waiters', w + n, n)
  BY <1>3, <1>4, <1>5 DEF Shifted
<1>7. woken' = woken \cup {waiters[i] : i \in (w + 1) .. (w + n)}
  <2>1. 1 .. (w + n) = (1 .. w) \cup ((w + 1) .. (w + n))
    BY <1>5
  <2>2. QED
    BY <1>1, <1>3, <2>1
<1>8. Running' = (Running \ {r}) \cup {waiters[i] : i \in (w + 1) .. (w + n)}
  <2>1. Running = woken \cup InUse /\ Running' = woken' \cup InUse' /\ r \notin woken
    BY <1>4 DEF Running, InUse
  <2>2. QED
    BY <1>4, <1>7, <2>1
<1>9. {r} \subseteq Running
  BY <1>4 DEF Running, InUse
<1>10. woken' = {waiters'[i] : i \in 1 .. (w + n)}
  BY <1>3
<1>11. QED
  BY <1>1, <1>5, <1>6, <1>8, <1>9, <1>10, MappedMove

\* A waiter goes on: nothing changes, or those it passes permits to start.
LEMMA MappedResume ==
    ASSUME SemaphoreInv, SemaphoreInv', NEW r \in Reqs, Resume(r)
    PROVE  \E n \in 0 .. Len(Queued) : Queue!Move({}, n)
<1>1. PICK w \in 0 .. Len(waiters) : woken = {waiters[i] : i \in 1 .. w}
  BY DEF SemaphoreInv, WokenFirst
<1>2. PICK n \in 0 .. permits, i \in 1 .. w :
        /\ w + n <= Len(waiters) /\ Len(waiters') = Len(waiters) - 1
        /\ \A j \in 1 .. Len(waiters') :
             waiters'[j] = IF j < i THEN waiters[j] ELSE waiters[j + 1]
        /\ woken' = {waiters'[j] : j \in 1 .. (w + n - 1)}
        /\ woken' = (woken \ {r}) \cup {waiters[j] : j \in (w + 1) .. (w + n)}
  <2>1. PICK n \in 0 .. permits, i \in 1 .. w : Resumes(r, w, n, i)
    BY <1>1, ResumeEffect
  <2>2. QED
    BY <2>1 DEF Resumes
<1>3. Len(waiters) \in Nat /\ permits \in Nat /\ r \in woken
  BY <1>1, WokenCount DEF SemaphoreInv, Resume
<1>4. w \in Nat /\ n \in Nat /\ w + n - 1 \in 0 .. Len(waiters')
  BY <1>2, <1>3
<1>5. Shifted(waiters, w, waiters', w + n - 1, n)
  <2> DEFINE len == Len(waiters)
             lt == Len(waiters')
  <2>1. len \in Nat /\ lt = len - 1 /\ w + n <= len /\ i \in 1 .. w /\ w \in Nat /\ n \in Nat
    BY <1>2, <1>3, <1>4
  <2>2. ASSUME NEW j \in 1 .. (lt - (w + n - 1))
        PROVE  waiters'[w + n - 1 + j] = waiters[w + n + j]
    <3>1. \A k \in 1 .. lt : waiters'[k] = IF k < i THEN waiters[k] ELSE waiters[k + 1]
      BY <1>2
    <3> HIDE DEF len, lt
    <3>2. /\ w + n - 1 + j \in 1 .. lt /\ ~(w + n - 1 + j < i)
          /\ w + n - 1 + j + 1 = w + n + j
      BY <2>1
    <3>3. QED
      BY <3>1, <3>2
  <2>3. /\ w \in 0 .. len /\ w + n - 1 \in 0 .. lt /\ n \in 0 .. (len - w)
        /\ lt - (w + n - 1) = len - w - n
    <3> HIDE DEF len, lt
    <3> QED
      BY <2>1
  <2>4. QED
    BY <2>2, <2>3 DEF Shifted
<1>6. Running' = (Running \ {}) \cup {waiters[j] : j \in (w + 1) .. (w + n)}
  <2>1. /\ task \in [Reqs -> Task] /\ task' = [task EXCEPT ![r].pc = "begin"]
    BY DEF SemaphoreInv, Resume, Go
  <2>2. task'[r].pc = "begin" /\ \A x \in Reqs \ {r} : task'[x] = task[x]
    BY <2>1 DEF Task
  <2>3. {x \in Reqs : task'[x].pc \in InNetwork}
          = {x \in Reqs : task[x].pc \in InNetwork} \cup {r}
    BY <2>2 DEF InNetwork
  <2>4. QED
    BY <1>2, <1>3, <2>3 DEF Running
<1>7. QED
  BY <1>1, <1>2, <1>4, <1>5, <1>6, MappedMove

\* Nobody ends and nobody starts.
LEMMA MappedNothing == SemaphoreInv /\ Queue!Move({}, 0) => UNCHANGED <<Queued, Running>>
<1> SUFFICES ASSUME SemaphoreInv, Queue!Move({}, 0) PROVE UNCHANGED <<Queued, Running>>
  OBVIOUS
<1>1. /\ Running' = (Running \ {}) \cup ToSet(SubSeq(Queued, 1, 0))
      /\ Queued' = SubSeq(Queued, 0 + 1, Len(Queued))
  BY SameOperators DEF Queue!Move, Queued, Running
<1>2. SubSeq(Queued, 1, 0) = << >>
  BY SubSeqEmpty
<1>3. ToSet(<< >>) = {}
  BY DEF ToSet
<1>4. Queued \in Seq(Reqs)
  <2>1. PICK w \in 0 .. Len(waiters) : woken = {waiters[i] : i \in 1 .. w}
    BY DEF SemaphoreInv, WokenFirst
  <2>2. Cardinality(woken) = w /\ waiters \in Seq(Reqs)
    BY <2>1, WokenCount DEF SemaphoreInv, WaitersWait
  <2>3. Queued = SubSeq(waiters, w + 1, Len(waiters))
    BY <2>2 DEF Queued
  <2>4. QED
    BY ONLY <2>2, <2>3, w \in 0 .. Len(waiters), SuffixEffect
<1>5. SubSeq(Queued, 1, Len(Queued)) = Queued
  BY <1>4, SubSeqFull
<1>6. Queued' = Queued
  <2>1. 0 + 1 = 1
    OBVIOUS
  <2>2. QED
    BY ONLY <1>1, <1>5, <2>1, Zenon
<1>7. Running' = Running
  <2>1. ToSet(SubSeq(Queued, 1, 0)) = {}
    BY ONLY <1>2, <1>3, Zenon
  <2>2. QED
    BY ONLY <1>1, <2>1
<1>8. QED
  BY <1>6, <1>7

\* A step beside the semaphore leaves the queue as it is.
LEMMA MappedQuiet ==
    ASSUME SemaphoreInv, NEW r \in Reqs, NEW next \in Task,
           task' = [task EXCEPT ![r] = next], Quiet(r, next)
    PROVE  UNCHANGED <<Queued, Running>>
<1>1. InUse' = InUse
  BY QuietStep DEF Quiet
<1>2. waiters' = waiters /\ woken' = woken
  BY DEF Quiet, semaphore
<1>3. QED
  BY <1>1, <1>2 DEF Queued, Running, InUse

LEMMA MappedStep == IInv /\ IInv' /\ [Next]_vars => [Queue!Next]_<<Queued, Running>>
<1> SUFFICES ASSUME IInv, IInv', [Next]_vars PROVE [Queue!Next]_<<Queued, Running>>
  OBVIOUS
<1>1. SemaphoreInv /\ SemaphoreInv'
  BY DEF IInv
<1>2. CASE UNCHANGED vars
  BY <1>2 DEF vars, Queued, Running
<1>3. ASSUME NEW r \in Reqs, SemaphoreStep(r) PROVE [Queue!Next]_<<Queued, Running>>
  <2>1. CASE AcquireAtOnce(r)
    BY <1>1, <2>1, MappedAtOnce DEF Queue!Next
  <2>2. CASE AcquireLater(r)
    BY <1>1, <2>2, MappedLater DEF Queue!Next
  <2>3. CASE Resume(r)
    <3>1. PICK n \in 0 .. Len(Queued) : Queue!Move({}, n)
      BY <1>1, <2>3, MappedResume
    <3>2. CASE n = 0
      BY <1>1, <3>1, <3>2, MappedNothing
    <3>3. CASE n # 0
      <4>1. n \in 1 .. Len(Queued)
        BY <3>1, <3>3
      <4>2. QED
        BY <3>1, <4>1 DEF Queue!Next, Queued
    <3>4. QED
      BY <3>2, <3>3
  <2>4. QED
    BY <1>3, <2>1, <2>2, <2>3 DEF SemaphoreStep
<1>4. ASSUME NEW r \in Reqs, NEW next \in Task, Goes(r, next)
      PROVE  [Queue!Next]_<<Queued, Running>>
  <2>1. task' = [task EXCEPT ![r] = next]
    BY <1>4 DEF Goes
  <2>2. CASE Quiet(r, next)
    BY <1>1, <2>1, <2>2, MappedQuiet
  <2>3. CASE Ends(r, next)
    <3>1. PICK n \in 0 .. Len(Queued) : Queue!Move({r}, n)
      BY <1>1, <2>1, <2>3, MappedEnd
    <3>2. QED
      BY <3>1 DEF Queue!Next, Queued
  <2>4. QED
    BY <1>4, <2>2, <2>3 DEF Goes
<1>5. QED
  BY <1>2, <1>3, <1>4, Steps DEF Next

\* The semaphore of deps.py, with what the handlers do to it, implements the limit: at most
\* max_concurrent_diagnostics run, and who waits starts in the order of arrival.
THEOREM LimitImplemented == Spec => ImplementsQueue
<1>1. Init => Queue!Init
  BY MappedInit
<1>2. IInv /\ IInv' /\ [Next]_vars => [Queue!Next]_(Queue!vars)
  BY MappedStep DEF Queue!vars, Queued, Running
<1>3. QED
  BY <1>1, <1>2, Invariance, PTL DEF Spec, ImplementsQueue, Queue!Spec
=============================================================================
