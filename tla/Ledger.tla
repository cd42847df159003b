------------------------------- MODULE Ledger -------------------------------
(***************************************************************************)
(* service.post_transaction, run concurrently by database sessions of the  *)
(* API process and of the worker process against PostgreSQL at READ        *)
(* COMMITTED.  A session inserts the ledger row, moves the balance with an *)
(* UPDATE (or, the first time, an INSERT in a savepoint) and commits; each *)
(* of these is a step other sessions interleave with.  A row or a key that *)
(* another open transaction holds blocks the session.                      *)
(***************************************************************************)
EXTENDS Integers, FiniteSets, FiniteSetsExt

CONSTANTS Users,     \* customers
          Sessions,  \* database sessions that post: API requests, the worker
          Keys,      \* idempotency keys: (workspace or scope, period, kind)
          NoKey,     \* the key of a posting whose period_start is NULL
          Amounts,   \* signed micro-credits of one posting
          NoRow,     \* no credit_accounts row for this customer
          MaxPosts   \* bound: ledger rows ever attempted

ASSUME AmountsAssumption == Amounts \subseteq Int
ASSUME NoKeyAssumption == NoKey \notin Keys
ASSUME NoRowAssumption == NoRow \notin Int
ASSUME MaxPostsAssumption == MaxPosts \in Nat

VARIABLES people,    \* customers whose users row exists
          account,   \* committed credit_accounts.balance_micro, or NoRow
          rows,      \* committed credit_transactions
          nextId,    \* the credit_transactions.id sequence
          tx         \* the transaction each session has open

vars == <<people, account, rows, nextId, tx>>

Ids == 0 .. MaxPosts
AnyKey == Keys \cup {NoKey}
Row == [id : Ids, user : Users, key : AnyKey, amount : Amounts]

(***************************************************************************)
(* pc: idle     no transaction                                             *)
(*     flushed  the ledger row is inserted, uncommitted                    *)
(*     missing  UPDATE matched no account row                              *)
(*     retry    the savepoint INSERT lost to another session               *)
(*     moved    the account row is updated, uncommitted, and locked        *)
(*     created  the account row is inserted, uncommitted                   *)
(* value is the uncommitted balance of moved and created.                  *)
(***************************************************************************)
Idle == [pc |-> "idle"]
OpenTx == [pc : {"flushed", "missing", "retry", "moved", "created"},
           row : Row, value : Int]
Open(s) == tx[s].pc # "idle"
Owner(s) == tx[s].row.user
Holds(s, k) == k # NoKey /\ Open(s) /\ tx[s].row.key = k
\* Mutant: no unique constraint reaches a key with a NULL workspace.
PostedUnscoped(k) == FALSE
Posted(k) == k # NoKey /\ \E r \in rows : r.key = k
RowLocked(u) == \E s \in Sessions : tx[s].pc = "moved" /\ Owner(s) = u
BeingCreated(u) == \E s \in Sessions : tx[s].pc = "created" /\ Owner(s) = u

Init ==
    /\ people = Users
    /\ account \in [Users -> {0, NoRow}]
    /\ rows = {}
    /\ nextId = 0
    /\ tx = [s \in Sessions |-> Idle]

Goto(s, pc, value) ==
    tx' = [tx EXCEPT ![s] = [pc |-> pc, row |-> tx[s].row, value |-> value]]

-----------------------------------------------------------------------------
\* db.flush() of the ledger row.  It waits while another open transaction holds
\* the key.
FlushRow(s, u, k, a) ==
    /\ ~Open(s) /\ nextId < MaxPosts
    /\ \A t \in Sessions : ~Holds(t, k)
    /\ u \in people /\ ~Posted(k)
    /\ nextId' = nextId + 1
    /\ tx' = [tx EXCEPT ![s] = [pc |-> "flushed", value |-> 0,
                row |-> [id |-> nextId, user |-> u, key |-> k, amount |-> a]]]
    /\ UNCHANGED <<people, account, rows>>

\* The flush raised IntegrityError: the key is spent, or the users row is gone.
\* Rollback and None.
FlushRefused(s, u, k) ==
    /\ ~Open(s) /\ nextId < MaxPosts
    /\ \A t \in Sessions : ~Holds(t, k)
    /\ u \notin people \/ Posted(k)
    /\ nextId' = nextId + 1
    /\ UNCHANGED <<people, account, rows, tx>>

\* UPDATE ... SET balance = balance + amount, against the last committed row.
MoveBalance(s) ==
    LET u == Owner(s) IN
    /\ tx[s].pc \in {"flushed", "retry"}
    /\ account[u] # NoRow /\ ~RowLocked(u)
    /\ Goto(s, "moved", account[u] + tx[s].row.amount)
    /\ UNCHANGED <<people, account, rows, nextId>>

\* The UPDATE matched no row: an uncommitted INSERT of another session is not
\* visible to it.
MissAccount(s) ==
    /\ tx[s].pc = "flushed"
    /\ account[Owner(s)] = NoRow
    /\ Goto(s, "missing", 0)
    /\ UNCHANGED <<people, account, rows, nextId>>

\* Mutant: the INSERT that lost is tried again instead of the UPDATE.
CreateAccountInsertAgain(s) ==
    LET u == Owner(s) IN
    /\ tx[s].pc = "missing"
    /\ ~BeingCreated(u)
    /\ IF account[u] = NoRow
       THEN Goto(s, "created", tx[s].row.amount)
       ELSE Goto(s, "missing", 0)
    /\ UNCHANGED <<people, account, rows, nextId>>

\* INSERT of the account in a savepoint; it waits for another pending INSERT.
CreateAccount(s) ==
    LET u == Owner(s) IN
    /\ tx[s].pc = "missing"
    /\ ~BeingCreated(u)
    /\ IF account[u] = NoRow
       THEN Goto(s, "created", tx[s].row.amount)
       ELSE Goto(s, "retry", 0)
    /\ UNCHANGED <<people, account, rows, nextId>>

Commit(s) ==
    /\ tx[s].pc \in {"moved", "created"}
    /\ account' = [account EXCEPT ![Owner(s)] = tx[s].value]
    /\ rows' = rows \cup {tx[s].row}
    /\ tx' = [tx EXCEPT ![s] = Idle]
    /\ UNCHANGED <<people, nextId>>

\* The process dies, or the caller's own work fails before it commits
\* (commit=False): PostgreSQL undoes the row and the balance together.
Abort(s) ==
    /\ Open(s)
    /\ tx' = [tx EXCEPT ![s] = Idle]
    /\ UNCHANGED <<people, account, rows, nextId>>

\* Mutant: the account row is not part of the erasure.
EraseLedgerOnly(u) ==
    /\ u \in people
    /\ \A s \in Sessions : Open(s) => Owner(s) # u
    /\ people' = people \ {u}
    /\ rows' = {r \in rows : r.user # u}
    /\ UNCHANGED <<account, nextId, tx>>

\* The commit at the end of worker._purge_account.  Its DELETE of the users row
\* waits for every transaction that inserted a row referencing it.
Erase(u) ==
    /\ u \in people
    /\ \A s \in Sessions : Open(s) => Owner(s) # u
    /\ people' = people \ {u}
    /\ account' = [account EXCEPT ![u] = NoRow]
    /\ rows' = {r \in rows : r.user # u}
    /\ UNCHANGED <<nextId, tx>>

Step(s) == MoveBalance(s) \/ MissAccount(s) \/ CreateAccount(s) \/ Commit(s)

Next ==
    \/ \E s \in Sessions, u \in Users, k \in AnyKey, a \in Amounts : FlushRow(s, u, k, a)
    \/ \E s \in Sessions, u \in Users, k \in AnyKey : FlushRefused(s, u, k)
    \/ \E s \in Sessions : Step(s) \/ Abort(s)
    \/ \E u \in Users : Erase(u)

Spec == Init /\ [][Next]_vars
FairSpec == Spec /\ \A s \in Sessions : WF_vars(Step(s))

-----------------------------------------------------------------------------
TypeOK ==
    /\ people \subseteq Users
    /\ account \in [Users -> Int \cup {NoRow}]
    /\ rows \subseteq Row
    /\ nextId \in 0 .. MaxPosts
    /\ tx \in [Sessions -> {Idle} \cup OpenTx]

Balance == [u \in Users |-> IF account[u] = NoRow THEN 0 ELSE account[u]]

\* A balance is the sum of the ledger: no interleaving of postings loses or
\* repeats a movement (the comment above the UPDATE in post_transaction).
BalanceIsLedgerSum ==
    \A u \in Users :
        Balance[u] = MapThenSumSet(LAMBDA r : r.amount, {r \in rows : r.user = u})

\* A key is charged at most once, over every retry, crash and racing session
\* (uq_charge_once_per_period, uq_scoped_charge_once_per_period).
ChargedOncePerKey ==
    \A q, r \in rows : q.key = r.key /\ q.key # NoKey => q = r

\* After a lost INSERT the retried UPDATE finds the row, so the `raise` behind
\* rowcount == 0 is dead code.
RetryFindsAccount ==
    \A s \in Sessions : tx[s].pc = "retry" => account[Owner(s)] # NoRow

\* Every posting that was started commits or is undone: sessions waiting for
\* keys, rows and pending inserts of one another never wait in a circle.
PostingEnds == \A s \in Sessions : Open(s) ~> ~Open(s)

\* The interleaved postings implement atomic ones.
Atomic == INSTANCE AtomicLedger WITH balance <- Balance
AtomicSpec == Atomic!Spec
=============================================================================
