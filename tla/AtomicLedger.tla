---------------------------- MODULE AtomicLedger ----------------------------
(***************************************************************************)
(* What the credit ledger promises its callers: every posting is one       *)
(* indivisible step that adds a row and moves the balance by the row's     *)
(* amount, and an idempotency key is spent at most once.  Ledger.tla shows *)
(* that service.post_transaction, run by several database sessions at      *)
(* once, implements this.                                                  *)
(***************************************************************************)
EXTENDS Integers

CONSTANTS Users,    \* customers, by users.id
          Keys,     \* idempotency keys: (workspace or scope, period, kind)
          NoKey,    \* a posting with a NULL period, such as a grant
          Amounts,  \* signed micro-credits; negative is a charge
          Ids       \* credit_transactions.id

VARIABLES rows,     \* the committed credit_transactions
          balance,  \* the balance of each customer, 0 without an account row
          people    \* the customers whose users row exists

avars == <<rows, balance, people>>

Row == [id : Ids, user : Users, key : Keys \cup {NoKey}, amount : Amounts]

Init ==
    /\ rows = {}
    /\ balance = [u \in Users |-> 0]
    /\ people = Users

Post(r) ==
    /\ r.user \in people
    /\ \A q \in rows : q.id # r.id
    /\ r.key # NoKey => \A q \in rows : q.key # r.key
    /\ rows' = rows \cup {r}
    /\ balance' = [balance EXCEPT ![r.user] = @ + r.amount]
    /\ UNCHANGED people

\* A customer's account is erased: its rows, its balance and its identity go
\* together.
Erase(u) ==
    /\ u \in people
    /\ rows' = {r \in rows : r.user # u}
    /\ balance' = [balance EXCEPT ![u] = 0]
    /\ people' = people \ {u}

Next == \/ \E r \in Row : Post(r)
        \/ \E u \in Users : Erase(u)

Spec == Init /\ [][Next]_avars
=============================================================================
