--------------------------- MODULE PasswordHistory ---------------------------
(***************************************************************************)
(* The password of one account and its rows in user_password_history:      *)
(* change_password of services/auth_service.py, which refuses a recent     *)
(* password, and reset_password of api/admin_users.py, which does not.     *)
(* Both lock the account's row, so they run one after the other; but a row *)
(* of the history is dated by now(), which PostgreSQL fixes when the       *)
(* transaction starts, before it waits for the lock.                       *)
(* Accounts models what the two do to the sessions.                        *)
(***************************************************************************)
EXTENDS Naturals, Sequences, FiniteSets

CONSTANTS
    Passwords,          \* what a password hash can stand for
    Count,              \* settings.password_history_count
    Requests,           \* slots for requests being served at the same time
    MaxStarts,          \* bound on the transactions started
    None

VARIABLES
    password,           \* user_accounts.password_hash
    mustChange,         \* user_accounts.must_change_password
    history,            \* the account's rows in user_password_history
    tx,                 \* the transactions
    starts,             \* now(): each transaction starts later than those before
    replaced            \* the passwords replaced so far, in the order of the commits

vars == <<password, mustChange, history, tx, starts, replaced>>

ASSUME HistoryAssumption ==
    Count \in Nat \ {0} /\ MaxStarts \in Nat /\ None \notin Passwords

Row == [password : Passwords, at : 1 .. MaxStarts]
Tx == [pc : {"idle", "lock", "write"}, kind : {"change", "reset"}, at : 0 .. MaxStarts,
       given : Passwords \cup {None}, new : Passwords \cup {None}]
Idle == [pc |-> "idle", kind |-> "change", at |-> 0, given |-> None, new |-> None]

Init ==
    /\ password \in Passwords
    /\ mustChange = TRUE
    /\ history = {}
    /\ tx = [r \in Requests |-> Idle]
    /\ starts = 0
    /\ replaced = << >>

\* Mutant: the account is read without FOR UPDATE.
NotLocked == TRUE

\* No other transaction has the account's row.
UserFree == \A x \in Requests : tx[x].pc # "write"

Later(rows, x) == {y \in rows : y.at > x.at}

\* Mutant: ORDER BY created_at without DESC in the DELETE.
OldestRows(rows) == {x \in rows : Cardinality({y \in rows : y.at < x.at}) < Count}

\* ORDER BY created_at DESC LIMIT Count
NewestRows(rows) == {x \in rows : Cardinality(Later(rows, x)) < Count}

PasswordsOf(rows) == {x.password : x \in rows}

Replaced(r) == [password |-> tx[r].given, at |-> tx[r].at]

-----------------------------------------------------------------------------

\* The transaction starts; for a change the client gives the current password as well.
Begin(r) ==
    /\ tx[r].pc = "idle" /\ starts < MaxStarts
    /\ starts' = starts + 1
    /\ \E kind \in {"change", "reset"}, given \in Passwords \cup {None}, new \in Passwords :
         /\ kind = "reset" <=> given = None
         /\ tx' = [tx EXCEPT ![r] = [pc |-> "lock", kind |-> kind, at |-> starts + 1,
                                     given |-> given, new |-> new]]
    /\ UNCHANGED <<password, mustChange, history, replaced>>

\* Mutant: a reset does not read the password it replaces.
ReadForChange(r) ==
    /\ tx[r].pc = "lock" /\ UserFree
    /\ tx[r].kind = "change" =>
         /\ tx[r].given = password
         /\ tx[r].new \notin {password} \cup PasswordsOf(NewestRows(history))
    /\ tx' = [tx EXCEPT ![r].pc = "write"]
    /\ UNCHANGED <<password, mustChange, history, starts, replaced>>

\* SELECT ... FOR UPDATE, and for a change the checks: the wrong password is answered
\* False, a recent one ValueError.
Read(r) ==
    /\ tx[r].pc = "lock" /\ UserFree
    /\ tx[r].kind = "change" =>
         /\ tx[r].given = password
         /\ tx[r].new \notin {password} \cup PasswordsOf(NewestRows(history))
    /\ tx' = [tx EXCEPT ![r].pc = "write", ![r].given = password]
    /\ UNCHANGED <<password, mustChange, history, starts, replaced>>

\* The checks refuse, or the database fails the transaction: it is rolled back.
Rollback(r) ==
    /\ tx[r].pc \in {"lock", "write"} /\ (tx[r].pc = "lock" => UserFree)
    /\ tx' = [tx EXCEPT ![r] = Idle]
    /\ UNCHANGED <<password, mustChange, history, starts, replaced>>

\* Mutant: the old rows are not deleted.
KeepRows(rows) == rows

\* DELETE ... WHERE id NOT IN (the newest)
TrimmedRows(rows) == NewestRows(rows)

CommitChange(r) ==
    /\ tx[r].pc = "write" /\ tx[r].kind = "change"
    /\ history' = TrimmedRows(history \cup {Replaced(r)})
    /\ mustChange' = FALSE
    /\ password' = tx[r].new
    /\ replaced' = Append(replaced, Replaced(r))
    /\ tx' = [tx EXCEPT ![r] = Idle]
    /\ UNCHANGED starts

\* A reset adds its row and deletes none.
CommitReset(r) ==
    /\ tx[r].pc = "write" /\ tx[r].kind = "reset"
    /\ history' = history \cup {Replaced(r)}
    /\ mustChange' = TRUE
    /\ password' = tx[r].new
    /\ replaced' = Append(replaced, Replaced(r))
    /\ tx' = [tx EXCEPT ![r] = Idle]
    /\ UNCHANGED starts

Next == \E r \in Requests : \/ Begin(r) \/ Read(r) \/ Rollback(r)
                            \/ CommitChange(r) \/ CommitReset(r)

Spec == Init /\ [][Next]_vars

-----------------------------------------------------------------------------
(* Properties *)

TypeOK ==
    /\ password \in Passwords
    /\ mustChange \in BOOLEAN
    /\ history \subseteq Row
    /\ tx \in [Requests -> Tx]
    /\ starts \in 0 .. MaxStarts
    /\ replaced \in Seq(Row)

\* The transactions committed in the order they started.
InOrder == \A i, j \in DOMAIN replaced : i < j => replaced[i].at < replaced[j].at

\* The last passwords replaced, as many as the history is to remember.
LastReplaced ==
    {replaced[i] : i \in {j \in DOMAIN replaced : j + Count > Len(replaced)}}

\* A change never brings back the current password or one of the last ones replaced, by a
\* change or a reset (auth_service.py:148-155), as long as no transaction overtakes another.
RecentNotReused ==
    [][\A r \in Requests : InOrder /\ CommitChange(r) =>
         password' \notin {password} \cup PasswordsOf(LastReplaced)]_vars

\* Trimming and resets together never lose a recent password: the newest rows are the last
\* passwords replaced, as long as no transaction overtakes another.
KeepsRecent == InOrder => NewestRows(history) = LastReplaced

\* Only resets since the last change make the history longer than the limit
\* (auth_service.py:160, admin_users.py:97), and then the password is a temporary one.
OnlyResetsExceed == Cardinality(history) > Count => mustChange
=============================================================================
