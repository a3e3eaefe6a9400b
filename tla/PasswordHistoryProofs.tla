----------------------- MODULE PasswordHistoryProofs -----------------------
(***************************************************************************)
(* Proofs about PasswordHistory, for any passwords, length of the history  *)
(* and number of requests: what ORDER BY created_at DESC LIMIT keeps, that *)
(* trimming and resets together lose no recent password, and that a change *)
(* never brings one back.                                                  *)
(***************************************************************************)
EXTENDS PasswordHistory, FiniteSetTheorems, SequenceTheorems, WellFoundedInduction, TLAPS

-----------------------------------------------------------------------------
(* The newest rows of a table *)

\* A set of naturals has a least element.
LEMMA LeastNatural ==
    ASSUME NEW T, T \subseteq Nat, T # {}
    PROVE  \E x \in T : \A y \in T : x <= y
<1> DEFINE LT == {ss \in Nat \X Nat : ss[1] < ss[2]}
<1>1. IsWellFoundedOn(LT, Nat)
  BY NatLessThanWellFounded DEF OpToRel
<1>2. \A x, y \in T : x < y => <<x, y>> \in LT
  OBVIOUS
<1> HIDE DEF LT
<1>3. PICK x \in T : \A y \in T : <<y, x>> \notin LT
  BY <1>1, WFMin
<1>4. \A y \in T : ~(y < x)
  BY <1>2, <1>3
<1> QED
  BY <1>4

\* A set of naturals below a bound has a greatest element.
LEMMA GreatestNatural ==
    ASSUME NEW T, T \subseteq Nat, T # {}, NEW n \in Nat, \A x \in T : x <= n
    PROVE  \E x \in T : \A y \in T : y <= x
<1> DEFINE U == {k \in Nat : n - k \in T}
<1>1. \A x \in T : n - x \in U /\ n - (n - x) = x
  <2> TAKE x \in T
  <2>1. x \in Nat /\ x <= n
    OBVIOUS
  <2>2. n - x \in Nat /\ n - (n - x) = x
    BY <2>1
  <2> QED
    BY <2>2
<1>2. U # {} /\ U \subseteq Nat
  BY <1>1
<1> HIDE DEF U
<1>3. PICK k \in U : \A j \in U : k <= j
  BY <1>2, LeastNatural
<1>4. n - k \in T /\ k \in Nat
  BY <1>3 DEF U
<1>5. \A y \in T : y <= n - k
  BY <1>1, <1>3, <1>4
<1> QED
  BY <1>4, <1>5

\* The rows of a finite table and those later than one of them are counted by naturals.
LEMMA LaterFinite ==
    ASSUME NEW rows, IsFiniteSet(rows), NEW x
    PROVE  IsFiniteSet(Later(rows, x)) /\ Cardinality(Later(rows, x)) \in Nat
<1>1. Later(rows, x) \in SUBSET rows
  BY DEF Later
<1> QED
  BY <1>1, FS_Subset, FS_CardinalityType

\* LIMIT Count: rows of different times give no more than Count of them.
LEMMA NewestCount ==
    ASSUME NEW rows, rows \subseteq Row, IsFiniteSet(rows),
           \A x, y \in rows : x.at = y.at => x = y
    PROVE  Cardinality(NewestRows(rows)) <= Count
<1> USE HistoryAssumption
<1> DEFINE N == NewestRows(rows)
<1>1. N \in SUBSET rows
  BY DEF NewestRows
<1>2. IsFiniteSet(N) /\ Cardinality(N) \in Nat
  BY <1>1, FS_Subset, FS_CardinalityType
<1>3. \A x \in rows : x.at \in Nat
  BY DEF Row
<1>4. CASE N = {}
  BY <1>4, FS_EmptySet
<1>5. CASE N # {}
  <2> DEFINE T == {x.at : x \in N}
  <2>1. T # {} /\ T \subseteq Nat
    BY <1>1, <1>3, <1>5
  <2> HIDE DEF T, N
  <2>2. PICK t \in T : \A y \in T : t <= y
    BY <2>1, LeastNatural
  <2>3. PICK x \in N : x.at = t
    BY <2>2 DEF T
  <2>4. \A y \in N : x.at <= y.at
    BY <2>2, <2>3 DEF T
  <2>5. N \ {x} \in SUBSET Later(rows, x)
    <3> SUFFICES ASSUME NEW y \in N, y # x
                 PROVE  y \in Later(rows, x)
      OBVIOUS
    <3>1. y \in rows /\ x \in rows /\ y.at # x.at /\ x.at <= y.at
      BY <1>1, <2>3, <2>4
    <3>2. y.at > x.at
      BY <1>3, <3>1
    <3> QED
      BY <3>1, <3>2 DEF Later
  <2>6. Cardinality(Later(rows, x)) < Count
    BY <2>3 DEF N, NewestRows
  <2>7. Cardinality(N \ {x}) <= Cardinality(Later(rows, x))
    BY <2>5, LaterFinite, FS_Subset
  <2>8. Cardinality(N \ {x}) = Cardinality(N) - 1
    BY <1>2, <2>3, FS_RemoveElement
  <2>9. Cardinality(Later(rows, x)) \in Nat
    BY LaterFinite
  <2>10. Cardinality(N) <= Count
    BY <1>2, <2>6, <2>7, <2>8, <2>9
  <2> QED
    BY <2>10 DEF N
<1> QED
  BY <1>4, <1>5

\* A table that is part of a larger one and has its newest rows has the same newest rows.
LEMMA NewestOfPart ==
    ASSUME NEW all, all \subseteq Row, IsFiniteSet(all),
           NEW part, part \subseteq all, NewestRows(all) \subseteq part
    PROVE  NewestRows(part) = NewestRows(all)
<1> USE HistoryAssumption
<1>1. part \in SUBSET all /\ IsFiniteSet(part)
  BY FS_Subset
<1>2. \A x \in all : x.at \in Nat /\ x.at <= MaxStarts
  BY DEF Row
<1>3. \A x : Cardinality(Later(part, x)) <= Cardinality(Later(all, x))
  <2> TAKE x
  <2>1. Later(part, x) \in SUBSET Later(all, x)
    BY DEF Later
  <2> QED
    BY <2>1, LaterFinite, FS_Subset
<1>4. \A x : Cardinality(Later(part, x)) \in Nat /\ Cardinality(Later(all, x)) \in Nat
  BY <1>1, LaterFinite
<1>5. NewestRows(all) \subseteq NewestRows(part)
  BY <1>3, <1>4 DEF NewestRows
<1>6. ASSUME NEW y \in NewestRows(part), y \notin NewestRows(all)
      PROVE  FALSE
  <2> DEFINE Old == all \ NewestRows(all)
             T == {x.at : x \in Old}
  <2>1. y \in part /\ y \in Old /\ Cardinality(Later(part, y)) < Count
    BY <1>6 DEF NewestRows
  <2>2. T # {} /\ T \subseteq Nat /\ \A t \in T : t <= MaxStarts
    BY <1>2, <2>1
  <2> HIDE DEF T
  <2>3. PICK t \in T : \A u \in T : u <= t
    BY <2>2, GreatestNatural
  <2>4. PICK z \in Old : z.at = t
    BY <2>3 DEF T
  <2>5. \A x \in Old : x.at <= z.at
    BY <2>3, <2>4 DEF T
  <2>6. Later(all, z) \in SUBSET Later(part, y)
    <3> SUFFICES ASSUME NEW w \in all, w.at > z.at
                 PROVE  w \in part /\ w.at > y.at
      BY DEF Later
    <3>1. w \notin Old
      BY <1>2, <2>4, <2>5
    <3>2. y.at <= z.at
      BY <2>1, <2>5
    <3> QED
      BY <1>2, <2>1, <2>4, <3>1, <3>2
  <2>7. Cardinality(Later(all, z)) <= Cardinality(Later(part, y))
    BY <1>1, <2>6, LaterFinite, FS_Subset
  <2>8. ~(Cardinality(Later(all, z)) < Count)
    BY <2>4 DEF NewestRows
  <2> QED
    BY <1>4, <2>1, <2>7, <2>8
<1> QED
  BY <1>5, <1>6

\* A row that is added only pushes rows out of the newest ones.
LEMMA NewestOfMore ==
    ASSUME NEW rows, IsFiniteSet(rows), NEW x
    PROVE  NewestRows(rows \cup {x}) \subseteq NewestRows(rows) \cup {x}
<1> USE HistoryAssumption
<1>1. IsFiniteSet(rows \cup {x})
  BY FS_AddElement
<1> SUFFICES ASSUME NEW y \in rows, y \in NewestRows(rows \cup {x})
             PROVE  y \in NewestRows(rows)
  BY DEF NewestRows
<1>2. Later(rows, y) \in SUBSET Later(rows \cup {x}, y)
  BY DEF Later
<1>3. Cardinality(Later(rows, y)) <= Cardinality(Later(rows \cup {x}, y))
  BY <1>1, <1>2, LaterFinite, FS_Subset
<1>4. Cardinality(Later(rows, y)) \in Nat /\ Cardinality(Later(rows \cup {x}, y)) \in Nat
  BY <1>1, LaterFinite
<1> QED
  BY <1>3, <1>4 DEF NewestRows

-----------------------------------------------------------------------------
(* The inductive invariant *)

\* What has been replaced, in whatever order.
ReplacedRows == {replaced[i] : i \in DOMAIN replaced}

\* A transaction has started, and once it has read the row it knows what it replaces.
TxOK(r) ==
    /\ tx[r].pc # "idle" => tx[r].new \in Passwords /\ tx[r].at \in 1 .. starts
    /\ tx[r].pc = "write" => tx[r].given \in Passwords

\* No two transactions start at the same time, so no two rows are of the same time.
DatesDiffer ==
    /\ \A r, x \in Requests :
         tx[r].pc # "idle" /\ tx[x].pc # "idle" /\ tx[r].at = tx[x].at => r = x
    /\ \A y \in ReplacedRows :
         /\ y.at <= starts
         /\ \A r \in Requests : tx[r].pc # "idle" => tx[r].at # y.at
         /\ \A z \in ReplacedRows : y.at = z.at => y = z

\* One transaction at a time has the account's row.
OneWriter == \A r, x \in Requests : tx[r].pc = "write" /\ tx[x].pc = "write" => r = x

\* What a change has read of the password and its history is still so when it writes.
ChangeChecked ==
    \A r \in Requests : tx[r].pc = "write" /\ tx[r].kind = "change"
      => tx[r].new \notin {password} \cup PasswordsOf(NewestRows(history))

\* The history holds rows that were replaced, the newest of all of them among them.
KeepsNewest == history \subseteq ReplacedRows /\ NewestRows(ReplacedRows) \subseteq history

IInv ==
    /\ TypeOK
    /\ \A r \in Requests : TxOK(r)
    /\ DatesDiffer
    /\ OneWriter
    /\ ChangeChecked
    /\ KeepsNewest
    /\ OnlyResetsExceed

-----------------------------------------------------------------------------
(* The replaced passwords *)

\* They are finitely many rows.
LEMMA ReplacedFinite ==
    ASSUME TypeOK
    PROVE  /\ IsFiniteSet(ReplacedRows)
           /\ ReplacedRows \subseteq Row
<1>1. replaced \in [1 .. Len(replaced) -> Row] /\ DOMAIN replaced = 1 .. Len(replaced)
      /\ Len(replaced) \in Nat
  BY DEF TypeOK
<1>2. ReplacedRows \subseteq Row
  BY <1>1 DEF ReplacedRows
<1>3. replaced \in Surjection(1 .. Len(replaced), ReplacedRows)
  BY <1>1 DEF ReplacedRows, Surjection
<1>4. IsFiniteSet(1 .. Len(replaced))
  BY <1>1, FS_Interval
<1>5. IsFiniteSet(ReplacedRows)
  BY <1>3, <1>4, FS_Surjection
<1> QED
  BY <1>2, <1>5

\* When nobody was overtaken, the newest rows are the last ones replaced.
LEMMA NewestAreLast ==
    ASSUME TypeOK, InOrder
    PROVE  NewestRows(ReplacedRows) = LastReplaced
<1> USE HistoryAssumption
<1> DEFINE n == Len(replaced)
<1>1. /\ n \in Nat /\ DOMAIN replaced = 1 .. n
      /\ \A i \in 1 .. n : replaced[i] \in Row /\ replaced[i].at \in Nat
  <2>1. n \in Nat /\ DOMAIN replaced = 1 .. n /\ \A i \in 1 .. n : replaced[i] \in Row
    BY DEF TypeOK
  <2>2. \A row \in Row : row.at \in Nat
    BY DEF Row
  <2> QED
    BY <2>1, <2>2
<1>2. \A i, j \in 1 .. n : replaced[i].at < replaced[j].at => i < j
  <2> TAKE i, j \in 1 .. n
  <2>1. CASE i = j
    BY <1>1, <2>1
  <2>2. CASE j < i
    <3>1. replaced[j].at < replaced[i].at
      BY <1>1, <2>2 DEF InOrder
    <3> QED
      BY <1>1, <3>1
  <2> QED
    BY <1>1, <2>1, <2>2
<1>3. ASSUME NEW i \in 1 .. n
      PROVE  Cardinality(Later(ReplacedRows, replaced[i])) = n - i
  <2> DEFINE L == Later(ReplacedRows, replaced[i])
             f == [j \in i + 1 .. n |-> replaced[j]]
  <2>1. \A j \in i + 1 .. n : j \in 1 .. n /\ i < j
    BY <1>1
  <2>2. \A j \in i + 1 .. n : replaced[j] \in L
    <3> TAKE j \in i + 1 .. n
    <3>1. replaced[i].at < replaced[j].at
      BY <1>1, <2>1 DEF InOrder
    <3> QED
      BY <1>1, <2>1, <3>1 DEF Later, ReplacedRows
  <2>3. \A y \in L : \E j \in i + 1 .. n : y = replaced[j]
    <3> TAKE y \in L
    <3>1. PICK j \in 1 .. n : y = replaced[j] /\ replaced[j].at > replaced[i].at
      BY <1>1 DEF Later, ReplacedRows
    <3>2. i < j
      BY <1>1, <1>2, <3>1
    <3> QED
      BY <3>1, <3>2
  <2>4. \A j, k \in i + 1 .. n : replaced[j] = replaced[k] => j = k
    <3> TAKE j, k \in i + 1 .. n
    <3>1. j < k => replaced[j].at < replaced[k].at
      BY <1>1, <2>1 DEF InOrder
    <3>2. k < j => replaced[k].at < replaced[j].at
      BY <1>1, <2>1 DEF InOrder
    <3> QED
      BY <1>1, <2>1, <3>1, <3>2
  <2> HIDE DEF L
  <2>5. f \in Bijection(i + 1 .. n, L)
    <3>1. f \in [i + 1 .. n -> L]
      BY <2>2
    <3>2. \A j \in i + 1 .. n : f[j] = replaced[j]
      OBVIOUS
    <3> HIDE DEF f
    <3>3. f \in Injection(i + 1 .. n, L)
      BY <2>4, <3>1, <3>2 DEF Injection, IsInjective
    <3>4. f \in Surjection(i + 1 .. n, L)
      BY <2>3, <3>1, <3>2 DEF Surjection
    <3> QED
      BY <3>3, <3>4 DEF Bijection
  <2>6. ExistsBijection(i + 1 .. n, L)
    BY <2>5 DEF ExistsBijection
  <2>7. IsFiniteSet(i + 1 .. n) /\ Cardinality(i + 1 .. n) = n - i
    <3>1. i + 1 \in Int /\ n \in Int /\ i <= n
      BY <1>1
    <3>2. Cardinality(i + 1 .. n) = IF i + 1 > n THEN 0 ELSE n - (i + 1) + 1
      BY <3>1, FS_Interval
    <3> QED
      BY <3>1, <3>2, FS_Interval
  <2>8. Cardinality(L) = n - i
    BY <2>6, <2>7, FS_Bijection
  <2> QED
    BY <2>8 DEF L
<1>4. \A i \in 1 .. n : n - i < Count <=> i + Count > n
  BY <1>1
<1>5. \A i \in 1 .. n : Cardinality(Later(ReplacedRows, replaced[i])) < Count
                          <=> i + Count > n
  BY <1>3, <1>4
<1> QED
  BY <1>1, <1>5 DEF NewestRows, ReplacedRows, LastReplaced

\* A commit adds one row to what has been replaced.
LEMMA ReplacedGrows ==
    ASSUME TypeOK, NEW row \in Row, replaced' = Append(replaced, row)
    PROVE  ReplacedRows' = ReplacedRows \cup {row}
<1>1. /\ DOMAIN replaced = 1 .. Len(replaced) /\ Len(replaced) \in Nat
      /\ DOMAIN replaced' = 1 .. Len(replaced) + 1
      /\ \A i \in 1 .. Len(replaced) : replaced'[i] = replaced[i]
      /\ replaced'[Len(replaced) + 1] = row
  BY DEF TypeOK
<1>2. \A i \in 1 .. Len(replaced) + 1 : i \in 1 .. Len(replaced) \/ i = Len(replaced) + 1
  BY <1>1
<1> QED
  BY <1>1, <1>2 DEF ReplacedRows

-----------------------------------------------------------------------------
(* The steps *)

\* What a commit writes is a row.
LEMMA ReplacedIsRow ==
    ASSUME TypeOK, NEW r \in Requests, TxOK(r), tx[r].pc = "write"
    PROVE  Replaced(r) \in Row
<1>1. tx[r].given \in Passwords /\ tx[r].at \in 1 .. MaxStarts
  BY HistoryAssumption DEF TypeOK, TxOK
<1> QED
  BY <1>1 DEF Replaced, Row

\* The rows and the transactions keep their shape.
LEMMA TypeStep ==
    ASSUME TypeOK, \A r \in Requests : TxOK(r), [Next]_vars
    PROVE  TypeOK'
<1> USE HistoryAssumption
<1>0. Idle \in Tx
  BY DEF Idle, Tx
<1>1. ASSUME NEW r \in Requests, Begin(r)
      PROVE  TypeOK'
  <2>1. PICK kind \in {"change", "reset"}, given \in Passwords \cup {None}, new \in Passwords :
          tx' = [tx EXCEPT ![r] = [pc |-> "lock", kind |-> kind, at |-> starts + 1,
                                   given |-> given, new |-> new]]
    BY <1>1 DEF Begin
  <2>2. starts' \in 0 .. MaxStarts /\ starts + 1 \in 0 .. MaxStarts
    BY <1>1 DEF Begin, TypeOK
  <2>3. [pc |-> "lock", kind |-> kind, at |-> starts + 1, given |-> given, new |-> new] \in Tx
    BY <2>2 DEF Tx
  <2>4. tx' \in [Requests -> Tx]
    BY <2>1, <2>3 DEF TypeOK
  <2> QED
    BY <1>1, <2>2, <2>4 DEF Begin, TypeOK
<1>2. ASSUME NEW r \in Requests, Read(r)
      PROVE  TypeOK'
  <2>1. tx[r] \in Tx /\ password \in Passwords
    BY DEF TypeOK
  <2>2. [tx[r] EXCEPT !.pc = "write", !.given = password] \in Tx
    BY <2>1 DEF Tx
  <2>3. tx' = [tx EXCEPT ![r] = [tx[r] EXCEPT !.pc = "write", !.given = password]]
    BY <1>2, <2>1 DEF Read, TypeOK, Tx
  <2>4. tx' \in [Requests -> Tx]
    BY <2>2, <2>3 DEF TypeOK
  <2> QED
    BY <1>2, <2>4 DEF Read, TypeOK
<1>3. ASSUME NEW r \in Requests, Rollback(r)
      PROVE  TypeOK'
  BY <1>0, <1>3 DEF Rollback, TypeOK
<1>4. ASSUME NEW r \in Requests, CommitChange(r) \/ CommitReset(r)
      PROVE  TypeOK'
  <2>1. Replaced(r) \in Row
    BY <1>4, ReplacedIsRow DEF CommitChange, CommitReset
  <2>2. history' \subseteq Row
    BY <1>4, <2>1 DEF CommitChange, CommitReset, TrimmedRows, NewestRows, TypeOK
  <2>3. password' \in Passwords /\ mustChange' \in BOOLEAN
    BY <1>4 DEF CommitChange, CommitReset, TxOK
  <2>4. replaced' \in Seq(Row)
    BY <1>4, <2>1 DEF CommitChange, CommitReset, TypeOK
  <2>5. tx' \in [Requests -> Tx] /\ starts' = starts
    BY <1>0, <1>4 DEF CommitChange, CommitReset, TypeOK
  <2> QED
    BY <2>2, <2>3, <2>4, <2>5 DEF TypeOK
<1>5. CASE UNCHANGED vars
  BY <1>5 DEF vars, TypeOK
<1> QED
  BY <1>1, <1>2, <1>3, <1>4, <1>5 DEF Next

Commits(r) == CommitChange(r) \/ CommitReset(r)
Acts(r) == Begin(r) \/ Read(r) \/ Rollback(r) \/ Commits(r)

\* What each step does to the transactions: one begins, reads, or ends.
LEMMA TxEffect ==
    ASSUME TypeOK, NEW r \in Requests, Acts(r)
    PROVE  /\ \A x \in Requests \ {r} : tx'[x] = tx[x]
           /\ Begin(r) => /\ tx'[r].pc = "lock" /\ tx'[r].at = starts + 1
                          /\ tx'[r].new \in Passwords
           /\ Read(r) => /\ tx'[r].pc = "write" /\ tx'[r].given = password
                         /\ tx'[r].kind = tx[r].kind /\ tx'[r].at = tx[r].at
                         /\ tx'[r].new = tx[r].new
           /\ Rollback(r) \/ Commits(r) => tx'[r].pc = "idle"
<1>0. tx[r] \in Tx
  BY DEF TypeOK
<1>1. ASSUME Begin(r)
      PROVE  /\ tx'[r].pc = "lock" /\ tx'[r].at = starts + 1 /\ tx'[r].new \in Passwords
             /\ \A x \in Requests \ {r} : tx'[x] = tx[x]
  <2>1. PICK kind \in {"change", "reset"}, given \in Passwords \cup {None}, new \in Passwords :
          tx' = [tx EXCEPT ![r] = [pc |-> "lock", kind |-> kind, at |-> starts + 1,
                                   given |-> given, new |-> new]]
    BY <1>1 DEF Begin
  <2> QED
    BY <2>1 DEF TypeOK
<1>2. ASSUME Read(r)
      PROVE  /\ tx'[r].pc = "write" /\ tx'[r].given = password
             /\ tx'[r].kind = tx[r].kind /\ tx'[r].at = tx[r].at
             /\ tx'[r].new = tx[r].new
             /\ \A x \in Requests \ {r} : tx'[x] = tx[x]
  <2>1. tx' = [tx EXCEPT ![r] = [tx[r] EXCEPT !.pc = "write", !.given = password]]
    BY <1>0, <1>2 DEF Read, TypeOK, Tx
  <2>2. tx'[r] = [tx[r] EXCEPT !.pc = "write", !.given = password]
    BY <2>1 DEF TypeOK
  <2> QED
    BY <1>0, <2>1, <2>2 DEF TypeOK, Tx
<1>3. ASSUME Rollback(r) \/ Commits(r)
      PROVE  tx'[r].pc = "idle" /\ \A x \in Requests \ {r} : tx'[x] = tx[x]
  <2>1. tx' = [tx EXCEPT ![r] = Idle]
    BY <1>3 DEF Rollback, Commits, CommitChange, CommitReset
  <2> QED
    BY <2>1 DEF TypeOK, Idle
<1> QED
  BY <1>1, <1>2, <1>3 DEF Acts

\* What each step does to the rest: time passes when a transaction begins, and a commit
\* writes the row it has replaced.
LEMMA RowsEffect ==
    ASSUME TypeOK, NEW r \in Requests, TxOK(r), Acts(r)
    PROVE  /\ starts' = IF Begin(r) THEN starts + 1 ELSE starts
           /\ Begin(r) \/ Read(r) \/ Rollback(r)
                => UNCHANGED <<password, mustChange, history, replaced, ReplacedRows>>
           /\ Commits(r) =>
                /\ tx[r].pc = "write"
                /\ Replaced(r) \in Row /\ Replaced(r).at = tx[r].at
                /\ ReplacedRows' = ReplacedRows \cup {Replaced(r)}
                /\ history' = IF tx[r].kind = "change"
                              THEN NewestRows(history \cup {Replaced(r)})
                              ELSE history \cup {Replaced(r)}
                /\ mustChange' = (tx[r].kind # "change")
<1>1. ASSUME Commits(r)
      PROVE  /\ tx[r].pc = "write" /\ starts' = starts
             /\ replaced' = Append(replaced, Replaced(r))
             /\ history' = IF tx[r].kind = "change"
                           THEN NewestRows(history \cup {Replaced(r)})
                           ELSE history \cup {Replaced(r)}
             /\ mustChange' = (tx[r].kind # "change")
  BY <1>1 DEF Commits, CommitChange, CommitReset, TrimmedRows
<1>2. Commits(r) => Replaced(r) \in Row /\ Replaced(r).at = tx[r].at
  BY <1>1, ReplacedIsRow DEF Replaced
<1>3. Commits(r) => ReplacedRows' = ReplacedRows \cup {Replaced(r)}
  BY <1>1, <1>2, ReplacedGrows
<1>4. Begin(r) => starts' = starts + 1 /\ tx[r].pc = "idle"
                  /\ UNCHANGED <<password, mustChange, history, replaced>>
  BY DEF Begin
<1>5. Read(r) \/ Rollback(r) => tx[r].pc # "idle"
                  /\ UNCHANGED <<password, mustChange, history, replaced, starts>>
  BY DEF Read, Rollback
<1>6. replaced' = replaced => ReplacedRows' = ReplacedRows
  BY DEF ReplacedRows
<1> QED
  BY <1>1, <1>2, <1>3, <1>4, <1>5, <1>6 DEF Acts

\* A transaction keeps its time and knows what it replaces from its read on.
LEMMA TxStep ==
    ASSUME TypeOK, \A r \in Requests : TxOK(r), [Next]_vars
    PROVE  \A r \in Requests : TxOK(r)'
<1>0. starts \in Nat /\ \A x \in Requests : tx[x].at \in Nat
  BY HistoryAssumption DEF TypeOK, Tx
<1>1. ASSUME NEW r \in Requests, Acts(r)
      PROVE  \A x \in Requests : TxOK(x)'
  <2>1. starts' \in {starts, starts + 1}
    BY <1>1, RowsEffect
  <2>2. ASSUME NEW x \in Requests \ {r}
        PROVE  TxOK(x)'
    <3>1. tx'[x] = tx[x]
      BY <1>1, TxEffect
    <3> QED
      BY <1>0, <2>1, <3>1 DEF TxOK
  <2>3. TxOK(r)'
    <3>1. CASE Begin(r)
      <4>1. /\ tx'[r].pc = "lock" /\ tx'[r].at = starts + 1 /\ tx'[r].new \in Passwords
            /\ starts' = starts + 1
        BY <1>1, <3>1, TxEffect, RowsEffect
      <4> QED
        BY <1>0, <4>1 DEF TxOK
    <3>2. CASE Read(r)
      <4>1. tx[r].pc = "lock" /\ password \in Passwords
        BY <3>2 DEF Read, TypeOK
      <4> QED
        BY <1>0, <1>1, <2>1, <3>2, <4>1, TxEffect DEF TxOK
    <3>3. CASE Rollback(r) \/ Commits(r)
      BY <1>1, <3>3, TxEffect DEF TxOK
    <3> QED
      BY <1>1, <3>1, <3>2, <3>3 DEF Acts
  <2> QED
    BY <2>2, <2>3
<1>2. CASE UNCHANGED vars
  BY <1>2 DEF vars, TxOK
<1> QED
  BY <1>1, <1>2 DEF Next, Acts, Commits

\* Each transaction begins later than those before it.
LEMMA DatesStep ==
    ASSUME TypeOK, \A r \in Requests : TxOK(r), DatesDiffer, [Next]_vars
    PROVE  DatesDiffer'
<1>0. /\ starts \in Nat /\ \A x \in Requests : tx[x].at \in Nat
      /\ \A y \in ReplacedRows : y.at \in Nat
  BY ReplacedFinite, HistoryAssumption DEF TypeOK, Tx, Row
<1>1. ASSUME NEW r \in Requests, Acts(r)
      PROVE  DatesDiffer'
  <2>0. \A x \in Requests \ {r} : tx'[x] = tx[x]
    BY <1>1, TxEffect
  <2>a. \A x \in Requests : tx[x].pc # "idle" => tx[x].at <= starts
    BY <1>0 DEF TxOK
  <2>1. CASE Begin(r)
    <3>1. /\ tx'[r].at = starts + 1 /\ starts' = starts + 1
          /\ ReplacedRows' = ReplacedRows
      BY <1>1, <2>1, TxEffect, RowsEffect
    <3>2. \A x \in Requests \ {r} : tx'[x].pc # "idle" => tx'[x].at < tx'[r].at
      BY <1>0, <2>0, <2>a, <3>1
    <3>3. \A y \in ReplacedRows : y.at < tx'[r].at /\ y.at <= starts'
      BY <1>0, <3>1 DEF DatesDiffer
    <3>4. \A x, z \in Requests :
            tx'[x].pc # "idle" /\ tx'[z].pc # "idle" /\ tx'[x].at = tx'[z].at => x = z
      BY <1>0, <2>0, <3>1, <3>2 DEF DatesDiffer
    <3>5. \A y \in ReplacedRows, x \in Requests : tx'[x].pc # "idle" => tx'[x].at # y.at
      BY <1>0, <2>0, <3>1, <3>3 DEF DatesDiffer
    <3> QED
      BY <3>1, <3>3, <3>4, <3>5 DEF DatesDiffer
  <2>2. CASE Read(r) \/ Rollback(r)
    <3>1. /\ tx'[r].pc # "idle" => tx[r].pc # "idle" /\ tx'[r].at = tx[r].at
          /\ ReplacedRows' = ReplacedRows
      BY <1>1, <2>2, TxEffect, RowsEffect DEF Read
    <3>2. starts' = starts
      BY <2>2 DEF Read, Rollback
    <3> QED
      BY <2>0, <3>1, <3>2 DEF DatesDiffer
  <2>3. CASE Commits(r)
    <3>1. /\ tx[r].pc = "write" /\ Replaced(r).at = tx[r].at
          /\ ReplacedRows' = ReplacedRows \cup {Replaced(r)}
      BY <1>1, <2>3, RowsEffect
    <3>2. tx'[r].pc = "idle"
      BY <1>1, <2>3, TxEffect
    <3>3. starts' = starts
      BY <2>3 DEF Commits, CommitChange, CommitReset
    <3>4. \A x, z \in Requests :
            tx'[x].pc # "idle" /\ tx'[z].pc # "idle" /\ tx'[x].at = tx'[z].at => x = z
      BY <2>0, <3>2 DEF DatesDiffer
    <3>5. \A x \in Requests : tx'[x].pc # "idle" => tx'[x].at # Replaced(r).at
      BY <2>0, <3>1, <3>2 DEF DatesDiffer
    <3>6. \A y \in ReplacedRows : y.at # Replaced(r).at /\ y.at <= starts
      BY <3>1 DEF DatesDiffer
    <3>7. Replaced(r).at <= starts
      BY <2>a, <3>1
    <3>8. \A y \in ReplacedRows, x \in Requests : tx'[x].pc # "idle" => tx'[x].at # y.at
      BY <2>0, <3>2 DEF DatesDiffer
    <3>9. \A y, z \in ReplacedRows : y.at = z.at => y = z
      BY DEF DatesDiffer
    <3> QED
      BY <3>1, <3>3, <3>4, <3>5, <3>6, <3>7, <3>8, <3>9 DEF DatesDiffer
  <2> QED
    BY <1>1, <2>1, <2>2, <2>3 DEF Acts
<1>2. CASE UNCHANGED vars
  BY <1>2 DEF vars, DatesDiffer, ReplacedRows
<1> QED
  BY <1>1, <1>2 DEF Next, Acts, Commits

\* Only a transaction that finds the row free reads it.
LEMMA OneWriterStep ==
    ASSUME TypeOK, OneWriter, [Next]_vars
    PROVE  OneWriter'
<1>1. ASSUME NEW r \in Requests, Acts(r)
      PROVE  OneWriter'
  <2>1. \A x \in Requests \ {r} : tx'[x] = tx[x]
    BY <1>1, TxEffect
  <2>2. CASE Read(r)
    <3>1. \A x \in Requests : tx[x].pc # "write"
      BY <2>2 DEF Read, UserFree
    <3> QED
      BY <2>1, <3>1 DEF OneWriter
  <2>3. CASE ~Read(r)
    <3>1. tx'[r].pc \in {"lock", "idle"}
      BY <1>1, <2>3, TxEffect DEF Acts
    <3> QED
      BY <2>1, <3>1 DEF OneWriter
  <2> QED
    BY <2>2, <2>3
<1>2. CASE UNCHANGED vars
  BY <1>2 DEF vars, OneWriter
<1> QED
  BY <1>1, <1>2 DEF Next, Acts, Commits

\* What a change has checked stays so: nobody else writes before it does.
LEMMA ChangeCheckedStep ==
    ASSUME TypeOK, \A r \in Requests : TxOK(r), OneWriter, ChangeChecked, [Next]_vars
    PROVE  ChangeChecked'
<1>1. ASSUME NEW r \in Requests, Acts(r)
      PROVE  ChangeChecked'
  <2>1. \A x \in Requests \ {r} : tx'[x] = tx[x]
    BY <1>1, TxEffect
  <2>2. CASE Commits(r)
    <3>1. tx[r].pc = "write" /\ tx'[r].pc = "idle"
      BY <1>1, <2>2, TxEffect, RowsEffect
    <3>2. \A x \in Requests : tx'[x].pc # "write"
      BY <2>1, <3>1 DEF OneWriter
    <3> QED
      BY <3>2 DEF ChangeChecked
  <2>3. CASE ~Commits(r)
    <3>1. password' = password /\ history' = history
      BY <1>1, <2>3, RowsEffect DEF Acts
    <3>2. ASSUME NEW x \in Requests \ {r}, tx'[x].pc = "write", tx'[x].kind = "change"
          PROVE  tx'[x].new \notin {password} \cup PasswordsOf(NewestRows(history))
      BY <2>1, <3>2 DEF ChangeChecked
    <3>3. ASSUME tx'[r].pc = "write", tx'[r].kind = "change"
          PROVE  tx'[r].new \notin {password} \cup PasswordsOf(NewestRows(history))
      <4>1. Read(r) /\ tx'[r].kind = tx[r].kind /\ tx'[r].new = tx[r].new
        BY <1>1, <2>3, <3>3, TxEffect DEF Acts
      <4> QED
        BY <3>3, <4>1 DEF Read
    <3>4. PasswordsOf(NewestRows(history))' = PasswordsOf(NewestRows(history))
      BY <3>1 DEF PasswordsOf, NewestRows, Later
    <3> QED
      BY <3>1, <3>2, <3>3, <3>4 DEF ChangeChecked
  <2> QED
    BY <2>2, <2>3
<1>2. CASE UNCHANGED vars
  BY <1>2 DEF vars, ChangeChecked, PasswordsOf, NewestRows, Later
<1> QED
  BY <1>1, <1>2 DEF Next, Acts, Commits

\* Neither a reset, which deletes nothing, nor the trim of a change loses one of the newest
\* of all the rows.
LEMMA KeepsNewestStep ==
    ASSUME TypeOK, \A r \in Requests : TxOK(r), KeepsNewest, [Next]_vars
    PROVE  KeepsNewest'
<1>1. ASSUME NEW r \in Requests, Acts(r)
      PROVE  KeepsNewest'
  <2>1. CASE Commits(r)
    <3> DEFINE row == Replaced(r)
               H == history \cup {row}
               R == ReplacedRows \cup {row}
    <3>1. /\ row \in Row /\ ReplacedRows' = R
          /\ history' = IF tx[r].kind = "change" THEN NewestRows(H) ELSE H
      BY <1>1, <2>1, RowsEffect
    <3>2. H \subseteq R /\ NewestRows(R) \subseteq H
      BY ReplacedFinite, NewestOfMore DEF KeepsNewest
    <3>3. IsFiniteSet(R) /\ R \subseteq Row
      BY <3>1, ReplacedFinite, FS_AddElement
    <3>4. NewestRows(H) = NewestRows(R)
      <4> HIDE DEF H, R
      <4> QED
        BY <3>2, <3>3, NewestOfPart
    <3>5. NewestRows(H) \subseteq H
      BY DEF NewestRows
    <3>6. NewestRows(ReplacedRows)' = NewestRows(R)
      BY <3>1 DEF NewestRows, Later
    <3> HIDE DEF H, R
    <3> QED
      BY <3>1, <3>2, <3>4, <3>5, <3>6 DEF KeepsNewest
  <2>2. CASE ~Commits(r)
    <3>1. history' = history /\ ReplacedRows' = ReplacedRows
      BY <1>1, <2>2, RowsEffect DEF Acts
    <3>2. NewestRows(ReplacedRows)' = NewestRows(ReplacedRows)
      BY <3>1 DEF NewestRows, Later
    <3> QED
      BY <3>1, <3>2 DEF KeepsNewest
  <2> QED
    BY <2>1, <2>2
<1>2. CASE UNCHANGED vars
  BY <1>2 DEF vars, KeepsNewest, ReplacedRows, NewestRows, Later
<1> QED
  BY <1>1, <1>2 DEF Next, Acts, Commits

\* A change leaves no more rows than the history may have, since no two are of the same
\* time; a reset may leave more, with a temporary password.
LEMMA OnlyResetsStep ==
    ASSUME TypeOK, \A r \in Requests : TxOK(r), DatesDiffer, KeepsNewest, OnlyResetsExceed,
           [Next]_vars
    PROVE  OnlyResetsExceed'
<1> USE HistoryAssumption
<1>1. ASSUME NEW r \in Requests, Acts(r)
      PROVE  OnlyResetsExceed'
  <2>1. CASE Commits(r)
    <3> DEFINE row == Replaced(r)
               H == history \cup {row}
    <3>1. /\ row \in Row /\ row.at = tx[r].at /\ tx[r].pc = "write"
          /\ history' = IF tx[r].kind = "change" THEN NewestRows(H) ELSE H
          /\ mustChange' = (tx[r].kind # "change")
      BY <1>1, <2>1, RowsEffect
    <3>2. \A y \in history : y \in ReplacedRows /\ y.at # row.at
      BY <3>1 DEF KeepsNewest, DatesDiffer
    <3>3. \A y, z \in H : y.at = z.at => y = z
      BY <3>2 DEF DatesDiffer
    <3>4. IsFiniteSet(H) /\ H \subseteq Row
      <4>1. history \in SUBSET ReplacedRows
        BY DEF KeepsNewest
      <4>2. IsFiniteSet(history) /\ history \subseteq Row
        BY <4>1, ReplacedFinite, FS_Subset
      <4> QED
        BY <3>1, <4>2, FS_AddElement
    <3>5. Cardinality(NewestRows(H)) <= Count
      <4> HIDE DEF H
      <4> QED
        BY <3>3, <3>4, NewestCount
    <3>6. NewestRows(H) \in SUBSET H
      BY DEF NewestRows
    <3> HIDE DEF H
    <3>7. Cardinality(NewestRows(H)) \in Nat
      BY <3>4, <3>6, FS_Subset, FS_CardinalityType
    <3>8. CASE tx[r].kind = "change"
      <4>1. history' = NewestRows(H)
        BY <3>1, <3>8
      <4>2. ~(Cardinality(history') > Count)
        BY <3>5, <3>7, <4>1
      <4> QED
        BY <4>2 DEF OnlyResetsExceed
    <3>9. CASE tx[r].kind # "change"
      BY <3>1, <3>9 DEF OnlyResetsExceed
    <3> QED
      BY <3>8, <3>9
  <2>2. CASE ~Commits(r)
    <3>1. history' = history /\ mustChange' = mustChange
      BY <1>1, <2>2, RowsEffect DEF Acts
    <3> QED
      BY <3>1 DEF OnlyResetsExceed
  <2> QED
    BY <2>1, <2>2
<1>2. CASE UNCHANGED vars
  BY <1>2 DEF vars, OnlyResetsExceed
<1> QED
  BY <1>1, <1>2 DEF Next, Acts, Commits

-----------------------------------------------------------------------------
(* The theorems *)

\* An account starts with a password, without a history and without a transaction.
LEMMA InitInv ==
    ASSUME Init
    PROVE  IInv
<1> USE HistoryAssumption
<1>1. TypeOK
  BY DEF Init, TypeOK, Idle, Tx
<1>2. ReplacedRows = {} /\ NewestRows(ReplacedRows) = {} /\ \A r \in Requests : tx[r].pc = "idle"
  BY DEF Init, ReplacedRows, NewestRows, Idle
<1>3. (\A r \in Requests : TxOK(r)) /\ DatesDiffer /\ OneWriter /\ ChangeChecked
  BY <1>2 DEF TxOK, DatesDiffer, OneWriter, ChangeChecked
<1>4. KeepsNewest
  BY <1>2 DEF Init, KeepsNewest
<1>5. OnlyResetsExceed
  BY FS_EmptySet DEF Init, OnlyResetsExceed
<1> QED
  BY <1>1, <1>3, <1>4, <1>5 DEF IInv

\* IInv is an invariant of the password and its history.
THEOREM HistoryInvariance == Spec => []IInv
<1>1. IInv /\ [Next]_vars => IInv'
  BY TypeStep, TxStep, DatesStep, OneWriterStep, ChangeCheckedStep, KeepsNewestStep,
     OnlyResetsStep DEF IInv
<1> QED
  BY <1>1, InitInv, PTL DEF Spec

\* The rows and the transactions keep their shape.
THEOREM HistoryTypeCorrect == Spec => []TypeOK
<1>1. IInv => TypeOK
  BY DEF IInv
<1> QED
  BY <1>1, HistoryInvariance, PTL

\* What the invariant says of the last passwords replaced.
LEMMA NewestKept ==
    ASSUME IInv, InOrder
    PROVE  NewestRows(history) = LastReplaced
<1>1. NewestRows(history) = NewestRows(ReplacedRows)
  BY ReplacedFinite, NewestOfPart DEF IInv, KeepsNewest
<1> QED
  BY <1>1, NewestAreLast DEF IInv

\* For a history of any length: whatever changes trim and resets add, the newest rows are
\* the last passwords replaced, as long as no transaction overtakes another.
THEOREM RecentAreKept == Spec => []KeepsRecent
<1>1. IInv => KeepsRecent
  BY NewestKept DEF KeepsRecent
<1> QED
  BY <1>1, HistoryInvariance, PTL

\* change_password deletes down to password_history_count, so that only resets exceed it.
THEOREM ResetsAloneExceed == Spec => []OnlyResetsExceed
<1>1. IInv => OnlyResetsExceed
  BY DEF IInv
<1> QED
  BY <1>1, HistoryInvariance, PTL

\* A change that commits brings back neither the current password nor one of the last ones
\* replaced, as long as no transaction overtakes another.
THEOREM RecentAreNotReused == Spec => RecentNotReused
<1>1. ASSUME IInv, NEW r \in Requests, InOrder, CommitChange(r)
      PROVE  password' \notin {password} \cup PasswordsOf(LastReplaced)
  <2>1. /\ password' = tx[r].new
        /\ tx[r].new \notin {password} \cup PasswordsOf(NewestRows(history))
    BY <1>1 DEF CommitChange, IInv, ChangeChecked
  <2> QED
    BY <1>1, <2>1, NewestKept
<1>2. IInv /\ [Next]_vars =>
        \A r \in Requests : InOrder /\ CommitChange(r) =>
          password' \notin {password} \cup PasswordsOf(LastReplaced)
  BY <1>1
<1> QED
  BY <1>2, HistoryInvariance, PTL DEF Spec, RecentNotReused
=============================================================================
