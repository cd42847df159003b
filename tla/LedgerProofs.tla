---------------------------- MODULE LedgerProofs ----------------------------
(***************************************************************************)
(* Theorems about Ledger for any number of customers, sessions and         *)
(* postings: types, at most one charge per key, that the interleaved       *)
(* postings implement AtomicLedger, and that balances are the sums of the  *)
(* ledger.  The inductive invariant says what open transactions may assume *)
(* of one another: no two hold one key or one account row, and an          *)
(* uncommitted balance is the committed one plus the amount of its own row.*)
(***************************************************************************)
EXTENDS Ledger, FiniteSetTheorems, WellFoundedInduction, TLAPS

Moved(s) == tx[s].pc = "moved"
Created(s) == tx[s].pc = "created"

IdsFresh ==
    /\ \A r \in rows : r.id < nextId
    /\ \A s \in Sessions : Open(s) => tx[s].row.id < nextId
    /\ \A s \in Sessions, r \in rows : Open(s) => r.id # tx[s].row.id
    /\ \A s, t \in Sessions :
          Open(s) /\ Open(t) /\ s # t => tx[s].row.id # tx[t].row.id

KeysApart ==
    /\ \A s \in Sessions, r \in rows :
          Open(s) /\ r.key = tx[s].row.key => r.key = NoKey
    /\ \A s, t \in Sessions, k \in Keys :
          Holds(s, k) /\ Holds(t, k) => s = t

AccountsApart ==
    /\ \A s \in Sessions : Moved(s) =>
          /\ account[Owner(s)] # NoRow
          /\ tx[s].value = account[Owner(s)] + tx[s].row.amount
    /\ \A s \in Sessions : Created(s) =>
          /\ account[Owner(s)] = NoRow
          /\ tx[s].value = tx[s].row.amount
    /\ \A s, t \in Sessions :
          Moved(s) /\ Moved(t) /\ Owner(s) = Owner(t) => s = t
    /\ \A s, t \in Sessions :
          Created(s) /\ Created(t) /\ Owner(s) = Owner(t) => s = t

OwnersExist == \A s \in Sessions : Open(s) => Owner(s) \in people

IInv ==
    /\ TypeOK
    /\ IdsFresh
    /\ KeysApart
    /\ AccountsApart
    /\ OwnersExist
    /\ ChargedOncePerKey
    /\ RetryFindsAccount

-----------------------------------------------------------------------------
\* What type correctness says of one transaction, in the form the leaves use.
LEMMA TxType ==
    ASSUME TypeOK, NEW s \in Sessions
    PROVE  /\ ~Open(s) => tx[s] = Idle
           /\ Open(s) => /\ tx[s] \in OpenTx
                         /\ tx[s].row \in Row
                         /\ Owner(s) \in Users
                         /\ tx[s].row.amount \in Int
                         /\ tx[s].row.id \in Int
                         /\ tx[s].value \in Int
<1>1. tx[s] = Idle \/ tx[s] \in OpenTx
  BY DEF TypeOK
<1>2. CASE tx[s] = Idle
  BY <1>2 DEF Open, Idle
<1>3. CASE tx[s] \in OpenTx
  <2>1. Open(s)
    BY <1>3 DEF Open, OpenTx
  <2>2. tx[s].row \in Row /\ tx[s].value \in Int
    BY <1>3 DEF OpenTx
  <2>3. /\ tx[s].row.id \in Ids
        /\ tx[s].row.user \in Users
        /\ tx[s].row.amount \in Amounts
    BY <2>2 DEF Row
  <2>4. tx[s].row.id \in Int
    BY <2>3, MaxPostsAssumption DEF Ids
  <2>5. tx[s].row.amount \in Int
    BY <2>3, AmountsAssumption
  <2>6. QED
    BY <1>3, <2>1, <2>2, <2>3, <2>4, <2>5 DEF Owner
<1>4. QED
  BY <1>1, <1>2, <1>3

\* The value every step but the flush and the commit gives the session.
LEMMA GotoEffect ==
    ASSUME TypeOK, NEW s \in Sessions, Open(s),
           NEW pc \in {"flushed", "missing", "retry", "moved", "created"},
           NEW value \in Int, Goto(s, pc, value)
    PROVE  /\ tx' \in [Sessions -> {Idle} \cup OpenTx]
           /\ tx'[s] = [pc |-> pc, row |-> tx[s].row, value |-> value]
           /\ \A t \in Sessions \ {s} : tx'[t] = tx[t]
BY TxType DEF TypeOK, Goto, Open, Idle, OpenTx

\* Init establishes the types.
LEMMA InitInv == Init => IInv
BY MaxPostsAssumption DEF Init, IInv, TypeOK, IdsFresh, KeysApart, AccountsApart,
   OwnersExist, ChargedOncePerKey, RetryFindsAccount, Open, Moved, Created,
   Holds, Idle, Row

-----------------------------------------------------------------------------
\* A fresh posting: its id is new, its key is neither posted nor held, and no
\* account row is touched.
LEMMA FlushRowInv ==
    ASSUME IInv, NEW s \in Sessions, NEW u \in Users, NEW k \in AnyKey,
           NEW a \in Amounts, FlushRow(s, u, k, a)
    PROVE  IInv'
<1> DEFINE r == [id |-> nextId, user |-> u, key |-> k, amount |-> a]
<1>1. TypeOK /\ nextId \in Int /\ nextId < MaxPosts /\ MaxPosts \in Int
  BY MaxPostsAssumption DEF IInv, TypeOK, FlushRow
<1>2. r \in Row
  BY <1>1 DEF Row, Ids, IInv, TypeOK
<1>3. [pc |-> "flushed", row |-> r, value |-> 0] \in OpenTx
  BY <1>2 DEF OpenTx
<1>4. /\ tx' \in [Sessions -> {Idle} \cup OpenTx]
      /\ tx'[s] = [pc |-> "flushed", row |-> r, value |-> 0]
      /\ \A t \in Sessions \ {s} : tx'[t] = tx[t]
  BY <1>3 DEF FlushRow, IInv, TypeOK
<1>5. UNCHANGED <<people, account, rows>> /\ nextId' = nextId + 1
  BY DEF FlushRow
<1>6. TypeOK'
  BY <1>1, <1>4, <1>5 DEF TypeOK
<1>7. \A t \in Sessions : t # s => /\ tx'[t] = tx[t]
                                  /\ Owner(t)' = Owner(t)
                                  /\ (Open(t)' <=> Open(t))
                                  /\ (Moved(t)' <=> Moved(t))
                                  /\ (Created(t)' <=> Created(t))
  BY <1>4 DEF Open, Owner, Moved, Created
<1>8. Open(s)' /\ ~Moved(s)' /\ ~Created(s)' /\ tx'[s].row = r /\ Owner(s)' = u
      /\ tx'[s].pc # "retry"
  BY <1>4 DEF Open, Owner, Moved, Created
<1>9. r.id = nextId /\ r.key = k /\ r.user = u
  OBVIOUS
<1>10. IdsFresh'
  <2>1. \A t \in Sessions : Open(t) => tx[t].row.id \in Int
    BY <1>1, TxType
  <2>2. \A q \in rows : q.id \in Int
    BY <1>1 DEF TypeOK, Row, Ids
  <2>3. QED
    BY <1>1, <1>5, <1>7, <1>8, <1>9, <2>1, <2>2 DEF IInv, IdsFresh
<1>11. KeysApart'
  <2>3. /\ \A q \in rows : q.key = k => k = NoKey
        /\ \A t \in Sessions : ~Holds(t, k)
    BY DEF FlushRow, Posted
  <2>4. \A t \in Sessions, q \in rows' :
           Open(t)' /\ q.key = tx'[t].row.key => q.key = NoKey
    BY <1>5, <1>7, <1>8, <1>9, <2>3 DEF IInv, KeysApart
  <2>5. \A t \in Sessions, j \in Keys : t # s => (Holds(t, j)' <=> Holds(t, j))
    BY <1>7 DEF Holds
  <2>6. \A j \in Keys : Holds(s, j)' => j = k
    BY <1>8, <1>9 DEF Holds
  <2>7. ASSUME NEW q \in Sessions, NEW t \in Sessions, NEW j \in Keys,
               Holds(q, j)', Holds(t, j)'
        PROVE  q = t
    <3>1. CASE q # s /\ t # s
      BY <2>5, <2>7, <3>1 DEF IInv, KeysApart
    <3>2. CASE q # s /\ t = s
      BY <2>3, <2>5, <2>6, <2>7, <3>2
    <3>3. CASE q = s /\ t # s
      BY <2>3, <2>5, <2>6, <2>7, <3>3
    <3>4. QED
      BY <3>1, <3>2, <3>3
  <2>8. QED
    BY <2>4, <2>7 DEF KeysApart
<1>12. AccountsApart'
  BY <1>5, <1>7, <1>8 DEF IInv, AccountsApart
<1>13. OwnersExist'
  BY <1>5, <1>7, <1>8 DEF IInv, OwnersExist, FlushRow
<1>14. ChargedOncePerKey' /\ RetryFindsAccount'
  BY <1>5, <1>7, <1>8 DEF IInv, ChargedOncePerKey, RetryFindsAccount
<1>15. QED
  BY <1>6, <1>10, <1>11, <1>12, <1>13, <1>14 DEF IInv

LEMMA FlushRefusedInv ==
    ASSUME IInv, NEW s \in Sessions, NEW u \in Users, NEW k \in AnyKey,
           FlushRefused(s, u, k)
    PROVE  IInv'
<1>1. UNCHANGED <<people, account, rows, tx>> /\ nextId' = nextId + 1
  BY DEF FlushRefused
<1>2. /\ nextId \in Int /\ nextId < MaxPosts /\ MaxPosts \in Int
      /\ nextId \in 0 .. MaxPosts
  BY MaxPostsAssumption DEF IInv, TypeOK, FlushRefused
<1>3. TypeOK'
  BY <1>1, <1>2 DEF IInv, TypeOK
<1>4. IdsFresh'
  <2>1. \A t \in Sessions : Open(t) => tx[t].row.id \in Int
    BY TxType DEF IInv
  <2>2. \A q \in rows : q.id \in Int
    BY <1>2 DEF IInv, TypeOK, Row, Ids
  <2>3. QED
    BY <1>1, <1>2, <2>1, <2>2 DEF IInv, IdsFresh, Open
<1>5. QED
  BY <1>1, <1>3, <1>4 DEF IInv, KeysApart, AccountsApart, OwnersExist,
     ChargedOncePerKey, RetryFindsAccount, Open, Owner, Holds, Posted, Moved, Created

-----------------------------------------------------------------------------
\* A step inside an open transaction keeps its row, so ids, keys and owners
\* are as they were.
LEMMA GotoFrame ==
    ASSUME IInv, NEW s \in Sessions, Open(s),
           NEW pc \in {"flushed", "missing", "retry", "moved", "created"},
           NEW value \in Int, Goto(s, pc, value),
           UNCHANGED <<people, account, rows, nextId>>
    PROVE  /\ TypeOK' /\ IdsFresh' /\ KeysApart' /\ OwnersExist' /\ ChargedOncePerKey'
           /\ \A t \in Sessions : Owner(t)' = Owner(t) \/ ~Open(t)
           /\ Owner(s)' = Owner(s)
<1>1. TypeOK
  BY DEF IInv
<1>2. /\ tx' \in [Sessions -> {Idle} \cup OpenTx]
      /\ tx'[s] = [pc |-> pc, row |-> tx[s].row, value |-> value]
      /\ \A t \in Sessions \ {s} : tx'[t] = tx[t]
  BY <1>1, GotoEffect
<1>3. TypeOK'
  BY <1>1, <1>2 DEF TypeOK
<1>4. Open(s)' /\ tx'[s].row = tx[s].row /\ Owner(s)' = Owner(s)
  BY <1>2 DEF Open, Owner
<1>5. \A t \in Sessions : (Open(t)' <=> Open(t))
  BY <1>2, <1>4 DEF Open
<1>6. \A t \in Sessions : Open(t) => tx'[t].row = tx[t].row /\ Owner(t)' = Owner(t)
  BY <1>2, <1>4 DEF Owner
<1>7. \A t \in Sessions, j \in Keys : Holds(t, j)' <=> Holds(t, j)
  BY <1>5, <1>6 DEF Holds
<1>8. IdsFresh'
  BY <1>5, <1>6 DEF IInv, IdsFresh
<1>9. KeysApart'
  BY <1>5, <1>6, <1>7 DEF IInv, KeysApart
<1>10. OwnersExist' /\ ChargedOncePerKey'
  BY <1>5, <1>6 DEF IInv, OwnersExist, ChargedOncePerKey
<1>11. QED
  BY <1>3, <1>4, <1>6, <1>8, <1>9, <1>10

\* The UPDATE: its row lock keeps two uncommitted balances of one account apart.
LEMMA MoveBalanceInv ==
    ASSUME IInv, NEW s \in Sessions, MoveBalance(s)
    PROVE  IInv'
<1> DEFINE v == account[Owner(s)] + tx[s].row.amount
<1>1. Open(s) /\ TypeOK /\ tx[s].row.amount \in Int /\ Owner(s) \in Users
  BY TxType DEF MoveBalance, Open, IInv
<1>2. account[Owner(s)] \in Int /\ account[Owner(s)] # NoRow
  BY <1>1 DEF MoveBalance, TypeOK
<1>3. v \in Int
  BY <1>1, <1>2
<1>4. Goto(s, "moved", v) /\ UNCHANGED <<people, account, rows, nextId>>
  BY DEF MoveBalance
<1>5. TypeOK' /\ IdsFresh' /\ KeysApart' /\ OwnersExist' /\ ChargedOncePerKey'
  BY <1>1, <1>3, <1>4, GotoFrame
<1>6. /\ tx'[s] = [pc |-> "moved", row |-> tx[s].row, value |-> v]
      /\ \A t \in Sessions \ {s} : tx'[t] = tx[t]
  BY <1>1, <1>3, <1>4, GotoEffect
<1>7. /\ Moved(s)' /\ ~Created(s)' /\ tx'[s].pc # "retry" /\ Owner(s)' = Owner(s)
      /\ tx'[s].row = tx[s].row /\ tx'[s].value = v
  BY <1>6 DEF Moved, Created, Owner
<1>8. \A t \in Sessions : t # s => /\ tx'[t] = tx[t]
                                  /\ Owner(t)' = Owner(t)
                                  /\ (Moved(t)' <=> Moved(t))
                                  /\ (Created(t)' <=> Created(t))
  BY <1>6 DEF Moved, Created, Owner
<1>9. \A t \in Sessions : Moved(t) => Owner(t) # Owner(s)
  BY DEF MoveBalance, RowLocked, Moved
<1>10. AccountsApart'
  BY <1>2, <1>4, <1>7, <1>8, <1>9 DEF IInv, AccountsApart
<1>11. RetryFindsAccount'
  BY <1>4, <1>7, <1>8 DEF IInv, RetryFindsAccount
<1>12. QED
  BY <1>5, <1>10, <1>11 DEF IInv

LEMMA MissAccountInv ==
    ASSUME IInv, NEW s \in Sessions, MissAccount(s)
    PROVE  IInv'
<1>1. Open(s) /\ TypeOK
  BY DEF MissAccount, Open, IInv
<1>2. Goto(s, "missing", 0) /\ UNCHANGED <<people, account, rows, nextId>>
  BY DEF MissAccount
<1>3. TypeOK' /\ IdsFresh' /\ KeysApart' /\ OwnersExist' /\ ChargedOncePerKey'
  BY <1>1, <1>2, GotoFrame
<1>4. /\ tx'[s] = [pc |-> "missing", row |-> tx[s].row, value |-> 0]
      /\ \A t \in Sessions \ {s} : tx'[t] = tx[t]
  BY <1>1, <1>2, GotoEffect
<1>5. ~Moved(s)' /\ ~Created(s)' /\ tx'[s].pc # "retry"
  BY <1>4 DEF Moved, Created
<1>6. \A t \in Sessions : t # s => /\ tx'[t] = tx[t]
                                  /\ Owner(t)' = Owner(t)
                                  /\ (Moved(t)' <=> Moved(t))
                                  /\ (Created(t)' <=> Created(t))
  BY <1>4 DEF Moved, Created, Owner
<1>7. AccountsApart' /\ RetryFindsAccount'
  BY <1>2, <1>5, <1>6 DEF IInv, AccountsApart, RetryFindsAccount
<1>8. QED
  BY <1>3, <1>7 DEF IInv

\* The INSERT of the account: one pending INSERT per customer, and losing it
\* means that the winner has committed.
LEMMA CreateAccountInv ==
    ASSUME IInv, NEW s \in Sessions, CreateAccount(s)
    PROVE  IInv'
<1>1. Open(s) /\ TypeOK /\ tx[s].row.amount \in Int
  BY TxType DEF CreateAccount, Open, IInv
<1>2. UNCHANGED <<people, account, rows, nextId>>
  BY DEF CreateAccount
<1>3. \A t \in Sessions : Created(t) => Owner(t) # Owner(s)
  BY DEF CreateAccount, BeingCreated, Created
<1>4. CASE account[Owner(s)] = NoRow
  <2>1. Goto(s, "created", tx[s].row.amount)
    BY <1>4 DEF CreateAccount
  <2>2. TypeOK' /\ IdsFresh' /\ KeysApart' /\ OwnersExist' /\ ChargedOncePerKey'
    BY <1>1, <1>2, <2>1, GotoFrame
  <2>3. /\ tx'[s] = [pc |-> "created", row |-> tx[s].row, value |-> tx[s].row.amount]
        /\ \A t \in Sessions \ {s} : tx'[t] = tx[t]
    BY <1>1, <2>1, GotoEffect
  <2>4. /\ ~Moved(s)' /\ Created(s)' /\ tx'[s].pc # "retry" /\ Owner(s)' = Owner(s)
        /\ tx'[s].value = tx'[s].row.amount
    BY <2>3 DEF Moved, Created, Owner
  <2>5. \A t \in Sessions : t # s => /\ tx'[t] = tx[t]
                                    /\ Owner(t)' = Owner(t)
                                    /\ (Moved(t)' <=> Moved(t))
                                    /\ (Created(t)' <=> Created(t))
    BY <2>3 DEF Moved, Created, Owner
  <2>6. AccountsApart'
    BY <1>2, <1>3, <1>4, <2>4, <2>5 DEF IInv, AccountsApart
  <2>7. RetryFindsAccount'
    BY <1>2, <2>4, <2>5 DEF IInv, RetryFindsAccount
  <2>8. QED
    BY <2>2, <2>6, <2>7 DEF IInv
<1>5. CASE account[Owner(s)] # NoRow
  <2>1. Goto(s, "retry", 0)
    BY <1>5 DEF CreateAccount
  <2>2. TypeOK' /\ IdsFresh' /\ KeysApart' /\ OwnersExist' /\ ChargedOncePerKey'
    BY <1>1, <1>2, <2>1, GotoFrame
  <2>3. /\ tx'[s] = [pc |-> "retry", row |-> tx[s].row, value |-> 0]
        /\ \A t \in Sessions \ {s} : tx'[t] = tx[t]
    BY <1>1, <2>1, GotoEffect
  <2>4. ~Moved(s)' /\ ~Created(s)' /\ Owner(s)' = Owner(s)
    BY <2>3 DEF Moved, Created, Owner
  <2>5. \A t \in Sessions : t # s => /\ tx'[t] = tx[t]
                                    /\ Owner(t)' = Owner(t)
                                    /\ (Moved(t)' <=> Moved(t))
                                    /\ (Created(t)' <=> Created(t))
    BY <2>3 DEF Moved, Created, Owner
  <2>6. AccountsApart'
    BY <1>2, <2>4, <2>5 DEF IInv, AccountsApart
  <2>7. RetryFindsAccount'
    BY <1>2, <1>5, <2>4, <2>5 DEF IInv, RetryFindsAccount
  <2>8. QED
    BY <2>2, <2>6, <2>7 DEF IInv
<1>6. QED
  BY <1>4, <1>5

-----------------------------------------------------------------------------
\* Closing a transaction leaves the others as they were.
LEMMA CloseFrame ==
    ASSUME TypeOK, NEW s \in Sessions, tx' = [tx EXCEPT ![s] = Idle]
    PROVE  /\ tx' \in [Sessions -> {Idle} \cup OpenTx]
           /\ ~Open(s)' /\ ~Moved(s)' /\ ~Created(s)' /\ tx'[s].pc # "retry"
           /\ \A j \in Keys : ~Holds(s, j)'
           /\ \A t \in Sessions : t # s =>
                 /\ tx'[t] = tx[t] /\ Owner(t)' = Owner(t)
                 /\ (Open(t)' <=> Open(t))
                 /\ (Moved(t)' <=> Moved(t))
                 /\ (Created(t)' <=> Created(t))
                 /\ \A j \in Keys : Holds(t, j)' <=> Holds(t, j)
<1>1. /\ tx' \in [Sessions -> {Idle} \cup OpenTx]
      /\ tx'[s] = Idle
      /\ \A t \in Sessions : t # s => tx'[t] = tx[t]
  BY DEF TypeOK
<1>2. tx'[s].pc = "idle"
  BY <1>1 DEF Idle
<1>3. QED
  BY <1>1, <1>2 DEF Open, Moved, Created, Owner, Holds

LEMMA AbortInv ==
    ASSUME IInv, NEW s \in Sessions, Abort(s)
    PROVE  IInv'
<1>1. TypeOK /\ tx' = [tx EXCEPT ![s] = Idle]
  BY DEF IInv, Abort
<1>2. UNCHANGED <<people, account, rows, nextId>>
  BY DEF Abort
<1>3. TypeOK'
  BY <1>1, <1>2, CloseFrame DEF TypeOK
<1>4. IdsFresh'
  BY <1>1, <1>2, CloseFrame DEF IInv, IdsFresh
<1>5. KeysApart'
  BY <1>1, <1>2, CloseFrame DEF IInv, KeysApart
<1>6. AccountsApart'
  <2>1. /\ ~Moved(s)' /\ ~Created(s)'
        /\ \A t \in Sessions : t # s => /\ tx'[t] = tx[t]
                                     /\ Owner(t)' = Owner(t)
                                     /\ (Moved(t)' <=> Moved(t))
                                     /\ (Created(t)' <=> Created(t))
    BY <1>1, CloseFrame
  <2>2. QED
    BY <1>2, <2>1 DEF IInv, AccountsApart
<1>7. OwnersExist' /\ RetryFindsAccount' /\ ChargedOncePerKey'
  BY <1>1, <1>2, CloseFrame DEF IInv, OwnersExist, RetryFindsAccount, ChargedOncePerKey
<1>8. QED
  BY <1>3, <1>4, <1>5, <1>6, <1>7 DEF IInv

\* What a committing session knows of its own row.
LEMMA CommitFacts ==
    ASSUME IInv, NEW s \in Sessions, Commit(s)
    PROVE  /\ Open(s) /\ (Moved(s) \/ Created(s))
           /\ tx[s].row \in Row /\ Owner(s) \in people /\ Owner(s) \in Users
           /\ tx[s].value \in Int
           /\ \A r \in rows : r.id # tx[s].row.id
           /\ \A r \in rows : r.key = tx[s].row.key => r.key = NoKey
           /\ tx[s].value = Balance[Owner(s)] + tx[s].row.amount
<1>1. Open(s) /\ (Moved(s) \/ Created(s))
  BY DEF Commit, Open, Moved, Created
<1>2. tx[s].row \in Row /\ Owner(s) \in Users /\ tx[s].row.amount \in Int
      /\ tx[s].value \in Int
  BY <1>1, TxType DEF IInv
<1>3. Owner(s) \in people
  BY <1>1 DEF IInv, OwnersExist
<1>4. /\ \A r \in rows : r.id # tx[s].row.id
      /\ \A r \in rows : r.key = tx[s].row.key => r.key = NoKey
  BY <1>1 DEF IInv, IdsFresh, KeysApart
<1>5. tx[s].value = Balance[Owner(s)] + tx[s].row.amount
  <2>1. CASE Moved(s)
    BY <2>1, <1>2 DEF IInv, AccountsApart, Balance
  <2>2. CASE Created(s)
    <3>1. account[Owner(s)] = NoRow /\ tx[s].value = tx[s].row.amount
      BY <2>2 DEF IInv, AccountsApart
    <3>2. Balance[Owner(s)] = 0
      BY <3>1, <1>2 DEF Balance
    <3>3. QED
      BY <3>1, <3>2, <1>2
  <2>3. QED
    BY <1>1, <2>1, <2>2
<1>6. QED
  BY <1>1, <1>2, <1>3, <1>4, <1>5

LEMMA CommitInv ==
    ASSUME IInv, NEW s \in Sessions, Commit(s)
    PROVE  IInv'
<1> DEFINE u == Owner(s)
<1> DEFINE new == tx[s].row
<1>1. TypeOK /\ tx' = [tx EXCEPT ![s] = Idle] /\ UNCHANGED <<people, nextId>>
  BY DEF IInv, Commit
<1>2. rows' = rows \cup {new}
  BY DEF Commit
<1>3. /\ account'[u] = tx[s].value /\ tx[s].value # NoRow
      /\ \A w \in Users : w # u => account'[w] = account[w]
      /\ account' \in [Users -> Int \cup {NoRow}]
  BY <1>1, CommitFacts, NoRowAssumption DEF Commit, TypeOK
<1>4. TypeOK'
  BY <1>1, <1>2, <1>3, CommitFacts, CloseFrame DEF TypeOK
<1>5. IdsFresh'
  <2>1. new.id < nextId /\ \A t \in Sessions : Open(t) /\ t # s => new.id # tx[t].row.id
    BY CommitFacts DEF IInv, IdsFresh
  <2>2. QED
    BY <1>1, <1>2, <2>1, CloseFrame DEF IInv, IdsFresh
<1>6. KeysApart'
  <2>1. ASSUME NEW t \in Sessions, t # s, Open(t), new.key = tx[t].row.key
        PROVE  new.key = NoKey
    <3>1. new.key \in Keys => Holds(s, new.key) /\ Holds(t, new.key)
      BY <2>1, CommitFacts, NoKeyAssumption DEF Holds
    <3>2. new.key \in Keys \cup {NoKey}
      BY CommitFacts DEF Row, AnyKey
    <3>3. QED
      BY <2>1, <3>1, <3>2 DEF IInv, KeysApart
  <2>2. \A t \in Sessions, r \in rows' :
           Open(t)' /\ r.key = tx'[t].row.key => r.key = NoKey
    BY <1>1, <1>2, <2>1, CloseFrame DEF IInv, KeysApart
  <2>3. \A q, t \in Sessions, k \in Keys : Holds(q, k)' /\ Holds(t, k)' => q = t
    BY <1>1, CloseFrame DEF IInv, KeysApart
  <2>4. QED
    BY <2>2, <2>3 DEF KeysApart
<1>7. AccountsApart'
  <2>1. ASSUME NEW t \in Sessions, t # s, Moved(t) \/ Created(t)
        PROVE  Owner(t) # u /\ Owner(t) \in Users
    <3>1. Open(t)
      BY <2>1 DEF Moved, Created, Open
    <3>2. Owner(t) \in Users
      BY <1>1, <3>1, TxType
    <3>3. Moved(s) \/ Created(s)
      BY CommitFacts
    <3>4. Owner(t) # u
      BY <2>1, <3>3 DEF IInv, AccountsApart
    <3>5. QED
      BY <3>2, <3>4
  <2>2. /\ ~Moved(s)' /\ ~Created(s)'
        /\ \A t \in Sessions : t # s => /\ tx'[t] = tx[t]
                                     /\ Owner(t)' = Owner(t)
                                     /\ (Moved(t)' <=> Moved(t))
                                     /\ (Created(t)' <=> Created(t))
    BY <1>1, CloseFrame
  <2>3. QED
    BY <1>3, <2>1, <2>2 DEF IInv, AccountsApart
<1>8. OwnersExist'
  BY <1>1, CloseFrame DEF IInv, OwnersExist
<1>9. RetryFindsAccount'
  <2>1. ASSUME NEW t \in Sessions, t # s, tx[t].pc = "retry"
        PROVE  Owner(t) \in Users /\ account[Owner(t)] # NoRow
    BY <2>1, <1>1, TxType DEF IInv, RetryFindsAccount, Open
  <2>2. QED
    BY <1>1, <1>3, <2>1, CloseFrame DEF RetryFindsAccount
<1>10. ChargedOncePerKey'
  BY <1>2, CommitFacts DEF IInv, ChargedOncePerKey
<1>11. QED
  BY <1>4, <1>5, <1>6, <1>7, <1>8, <1>9, <1>10 DEF IInv

\* Erasure touches only a customer no open transaction refers to.
LEMMA EraseInv ==
    ASSUME IInv, NEW u \in Users, Erase(u)
    PROVE  IInv'
<1>1. TypeOK /\ UNCHANGED <<nextId, tx>>
  BY DEF IInv, Erase
<1>2. /\ account'[u] = NoRow
      /\ \A w \in Users : w # u => account'[w] = account[w]
      /\ account' \in [Users -> Int \cup {NoRow}]
  BY <1>1 DEF Erase, TypeOK
<1>3. /\ people' = people \ {u} /\ rows' \subseteq rows
      /\ \A t \in Sessions : Open(t) => Owner(t) # u /\ Owner(t) \in Users
  BY <1>1, TxType DEF Erase
<1>4. TypeOK'
  BY <1>1, <1>2, <1>3 DEF TypeOK
<1>5. IdsFresh' /\ KeysApart' /\ ChargedOncePerKey'
  BY <1>1, <1>3 DEF IInv, IdsFresh, KeysApart, ChargedOncePerKey, Open, Holds
<1>6. AccountsApart'
  <2>1. \A t \in Sessions : Moved(t) \/ Created(t) \/ tx[t].pc = "retry" => Open(t)
    BY DEF Moved, Created, Open
  <2>2. \A t \in Sessions : Owner(t)' = Owner(t) /\ (Moved(t)' <=> Moved(t))
                          /\ (Created(t)' <=> Created(t))
    BY <1>1 DEF Owner, Moved, Created
  <2>3. QED
    BY <1>1, <1>2, <1>3, <2>1, <2>2 DEF IInv, AccountsApart
<1>7. OwnersExist' /\ RetryFindsAccount'
  BY <1>1, <1>2, <1>3 DEF IInv, OwnersExist, RetryFindsAccount, Open, Owner
<1>8. QED
  BY <1>4, <1>5, <1>6, <1>7 DEF IInv

-----------------------------------------------------------------------------
\* Every step of the code keeps the invariant.
LEMMA NextInv == IInv /\ [Next]_vars => IInv'
<1> SUFFICES ASSUME IInv, [Next]_vars PROVE IInv'
  OBVIOUS
<1>1. CASE UNCHANGED vars
  <2>1. UNCHANGED <<people, account, rows, nextId, tx>>
    BY <1>1 DEF vars
  <2>2. TypeOK' /\ IdsFresh' /\ KeysApart'
    BY <2>1 DEF IInv, TypeOK, IdsFresh, KeysApart, Open, Holds
  <2>3. AccountsApart' /\ OwnersExist' /\ ChargedOncePerKey' /\ RetryFindsAccount'
    BY <2>1 DEF IInv, AccountsApart, OwnersExist, ChargedOncePerKey,
       RetryFindsAccount, Open, Owner, Moved, Created
  <2>4. QED
    BY <2>2, <2>3 DEF IInv
<1>2. ASSUME NEW s \in Sessions, NEW u \in Users, NEW k \in AnyKey,
             NEW a \in Amounts, FlushRow(s, u, k, a)
      PROVE  IInv'
  BY <1>2, FlushRowInv
<1>3. ASSUME NEW s \in Sessions, NEW u \in Users, NEW k \in AnyKey, FlushRefused(s, u, k)
      PROVE  IInv'
  BY <1>3, FlushRefusedInv
<1>4. ASSUME NEW s \in Sessions, Step(s) \/ Abort(s)
      PROVE  IInv'
  BY <1>4, MoveBalanceInv, MissAccountInv, CreateAccountInv, CommitInv, AbortInv DEF Step
<1>5. ASSUME NEW u \in Users, Erase(u)
      PROVE  IInv'
  BY <1>5, EraseInv
<1>6. QED
  BY <1>1, <1>2, <1>3, <1>4, <1>5 DEF Next

\* The inductive invariant holds of every behaviour of the postings.
THEOREM InvHolds == Spec => []IInv
BY InitInv, NextInv, PTL DEF Spec

\* Every value stays in its domain (service.post_transaction).
THEOREM Typing == Spec => []TypeOK
<1>1. IInv => TypeOK
  BY DEF IInv
<1>2. QED
  BY <1>1, InvHolds, PTL

\* No retry, crash or race charges an idempotency key twice (the two unique
\* constraints of CreditTransaction).
THEOREM OneChargePerKey == Spec => []ChargedOncePerKey
<1>1. IInv => ChargedOncePerKey
  BY DEF IInv
<1>2. QED
  BY <1>1, InvHolds, PTL

\* The `raise` after the retried UPDATE of post_transaction is unreachable.
THEOREM RetryNeverRaises == Spec => []RetryFindsAccount
<1>1. IInv => RetryFindsAccount
  BY DEF IInv
<1>2. QED
  BY <1>1, InvHolds, PTL

-----------------------------------------------------------------------------
\* Only a commit or an erasure changes what the abstract ledger sees; a
\* commit is one atomic posting.
LEMMA StepRefines == IInv /\ [Next]_vars => [Atomic!Next]_(Atomic!avars)
<1> SUFFICES ASSUME IInv, [Next]_vars
             PROVE  Atomic!Next \/ UNCHANGED <<rows, Balance, people>>
  BY DEF Atomic!avars
<1>1. ASSUME UNCHANGED <<people, account, rows>>
      PROVE  UNCHANGED <<rows, Balance, people>>
  BY <1>1 DEF Balance
<1>2. CASE UNCHANGED vars
  BY <1>1, <1>2 DEF vars
<1>3. ASSUME NEW s \in Sessions, Commit(s)
      PROVE  Atomic!Next
  <2> DEFINE r == tx[s].row
  <2>1. r \in Atomic!Row
    BY <1>3, CommitFacts DEF Row, Atomic!Row, AnyKey
  <2>2. /\ r.user \in people
        /\ \A q \in rows : q.id # r.id
        /\ r.key # NoKey => \A q \in rows : q.key # r.key
    BY <1>3, CommitFacts DEF Owner
  <2>3. rows' = rows \cup {r} /\ people' = people
    BY <1>3 DEF Commit
  <2>4. Balance' = [Balance EXCEPT ![r.user] = @ + r.amount]
    <3>1. account' = [account EXCEPT ![r.user] = tx[s].value]
      BY <1>3 DEF Commit, Owner
    <3>2. tx[s].value = Balance[r.user] + r.amount /\ tx[s].value # NoRow
          /\ r.user \in Users
      BY <1>3, CommitFacts, NoRowAssumption DEF Owner
    <3>3. account \in [Users -> Int \cup {NoRow}]
      BY DEF IInv, TypeOK
    <3>4. Balance' = [w \in Users |-> IF account'[w] = NoRow THEN 0 ELSE account'[w]]
      BY DEF Balance
    <3>5. \A w \in Users : (IF account'[w] = NoRow THEN 0 ELSE account'[w]) =
                           (IF w = r.user THEN Balance[r.user] + r.amount ELSE Balance[w])
      BY <3>1, <3>2, <3>3 DEF Balance
    <3>6. QED
      BY <3>4, <3>5 DEF Balance
  <2>5. Atomic!Post(r)
    BY <2>2, <2>3, <2>4 DEF Atomic!Post
  <2>6. QED
    BY <2>1, <2>5 DEF Atomic!Next
<1>4. ASSUME NEW u \in Users, Erase(u)
      PROVE  Atomic!Next
  <2>1. Balance' = [Balance EXCEPT ![u] = 0]
    <3>1. account' = [account EXCEPT ![u] = NoRow]
      BY <1>4 DEF Erase
    <3>2. account \in [Users -> Int \cup {NoRow}]
      BY DEF IInv, TypeOK
    <3>3. \A w \in Users : (IF account'[w] = NoRow THEN 0 ELSE account'[w]) =
                           (IF w = u THEN 0 ELSE Balance[w])
      BY <3>1, <3>2 DEF Balance
    <3>4. Balance' = [w \in Users |-> IF account'[w] = NoRow THEN 0 ELSE account'[w]]
      BY DEF Balance
    <3>5. QED
      BY <3>3, <3>4 DEF Balance
  <2>2. Atomic!Erase(u)
    BY <1>4, <2>1 DEF Erase, Atomic!Erase
  <2>3. QED
    BY <2>2 DEF Atomic!Next
<1>5. ASSUME NEW s \in Sessions, NEW u \in Users, NEW k \in AnyKey, NEW a \in Amounts,
             FlushRow(s, u, k, a) \/ FlushRefused(s, u, k)
      PROVE  UNCHANGED <<rows, Balance, people>>
  BY <1>1, <1>5 DEF FlushRow, FlushRefused
<1>6. ASSUME NEW s \in Sessions,
             MoveBalance(s) \/ MissAccount(s) \/ CreateAccount(s) \/ Abort(s)
      PROVE  UNCHANGED <<rows, Balance, people>>
  BY <1>1, <1>6 DEF MoveBalance, MissAccount, CreateAccount, Abort
<1>7. ASSUME NEW s \in Sessions, NEW u \in Users, NEW k \in AnyKey, FlushRefused(s, u, k)
      PROVE  UNCHANGED <<rows, Balance, people>>
  BY <1>1, <1>7 DEF FlushRefused
<1>8. QED
  BY <1>2, <1>3, <1>4, <1>5, <1>6, <1>7 DEF Next, Step

\* post_transaction, run by any number of sessions that interleave, block and
\* crash, behaves as if each posting were one indivisible step.
THEOREM LedgerIsAtomic == Spec => AtomicSpec
<1>1. Init => Atomic!Init
  BY DEF Init, Atomic!Init, Balance
<1>2. QED
  BY <1>1, StepRefines, InvHolds, PTL DEF Spec, AtomicSpec, Atomic!Spec
-----------------------------------------------------------------------------
(* The balance is the sum of the ledger.  MapThenSumSet adds up in an order  *)
(* of its choice; these lemmas say that the order does not matter, by the    *)
(* smallest set of rows for which it would.                                  *)

Sum(S) == MapThenSumSet(LAMBDA r : r.amount, S)
Weighs(S) == \A r \in S : r.amount \in Int

\* The row that is added next.
Any(S) == CHOOSE r \in S : TRUE
Adds(g, S) == IF S = {} THEN 0 ELSE Any(S).amount + g[S \ {Any(S)}]
AddsUp(g, D) == g = [S \in D |-> Adds(g, S)]
Upto(S, n) == {T \in SUBSET S : Cardinality(T) <= n}

LEMMA Least == ASSUME NEW A \in SUBSET Nat, A # {} PROVE \E n \in A : \A k \in A : n <= k
  <1>1. IsWellFoundedOn(OpToRel(<, Nat), Nat)
    BY NatLessThanWellFounded
  <1>2. PICK n \in A : \A k \in A : ~ (<<k, n>> \in OpToRel(<, Nat))
    BY <1>1, WFMin
  <1>3. \A k \in A : ~(k < n)
    BY <1>2 DEF OpToRel
  <1> QED
    BY <1>3

\* Up to every size, there is a function that adds up.
LEMMA Partial ==
    ASSUME NEW S, IsFiniteSet(S), NEW n \in Nat
    PROVE  \E g : AddsUp(g, Upto(S, n))
  <1> DEFINE Sums(k) == \E g : AddsUp(g, Upto(S, k))
             Bad == {k \in Nat : ~ Sums(k)}
  <1>1. SUFFICES ASSUME Bad # {} PROVE FALSE
    BY Zenon
  <1>2. PICK k \in Bad : \A j \in Bad : k <= j
    BY <1>1, Least
  <1>3. \A t \in SUBSET S : IsFiniteSet(t) /\ Cardinality(t) \in Nat
    BY FS_Subset, FS_CardinalityType
  <1>4. \A t \in SUBSET S : t # {} =>
          Any(t) \in t /\ t \ {Any(t)} \in SUBSET S /\ Cardinality(t \ {Any(t)}) = Cardinality(t) - 1
    <2>1. ASSUME NEW t \in SUBSET S, t # {}
          PROVE  Any(t) \in t /\ t \ {Any(t)} \in SUBSET S /\ Cardinality(t \ {Any(t)}) = Cardinality(t) - 1
      <3>1. Any(t) \in t
        BY <2>1 DEF Any
      <3>2. Cardinality(t \ {Any(t)}) = Cardinality(t) - 1
        BY <3>1, <1>3, FS_RemoveElement
      <3> QED
        BY <3>1, <3>2
    <2> QED
      BY <2>1
  <1>5. CASE k = 0
    <2> DEFINE g == [s \in Upto(S, 0) |-> 0]
    <2>1. \A s \in Upto(S, 0) : s = {}
      BY <1>3, FS_EmptySet DEF Upto
    <2>2. AddsUp(g, Upto(S, 0))
      BY <2>1 DEF Adds, AddsUp
    <2> QED
      BY <1>2, <1>5, <2>2
  <1>6. CASE k # 0
    <2>1. k - 1 \in Nat /\ Sums(k - 1)
      <3> HIDE DEF Sums
      <3> QED
        BY <1>2, <1>6
    <2>2. PICK g : AddsUp(g, Upto(S, k - 1))
      BY <2>1
    <2> DEFINE h == [s \in Upto(S, k) |-> Adds(g, s)]
    <2>3. \A s \in Upto(S, k) : s # {} => s \ {Any(s)} \in Upto(S, k - 1)
      BY <1>2, <1>3, <1>4 DEF Upto
    <2>4. \A s \in Upto(S, k - 1) : h[s] = g[s]
      <3>1. Upto(S, k - 1) \subseteq Upto(S, k)
        BY <1>2, <1>3 DEF Upto
      <3> QED
        BY <2>2, <3>1 DEF AddsUp
    <2>5. \A s \in Upto(S, k) : Adds(h, s) = Adds(g, s)
      <3> HIDE DEF h
      <3> QED
        BY <2>3, <2>4 DEF Adds
    <2>6. AddsUp(h, Upto(S, k))
      BY <2>5 DEF AddsUp
    <2> QED
      BY <1>2, <2>6
  <1> QED
    BY <1>5, <1>6

\* What Sum computes: g goes through the rows one by one.
LEMMA SumSteps ==
    ASSUME NEW S, IsFiniteSet(S)
    PROVE  \E g : AddsUp(g, SUBSET S) /\ Sum(S) = g[S]
  <1>1. \E g : AddsUp(g, SUBSET S)
    <2>1. \A t \in SUBSET S : Cardinality(t) <= Cardinality(S)
      BY FS_Subset
    <2>2. PICK n \in Nat : n = Cardinality(S)
      BY FS_CardinalityType
    <2>3. Upto(S, n) = SUBSET S
      BY <2>1, <2>2 DEF Upto
    <2>4. \E g : AddsUp(g, Upto(S, n))
      BY Partial
    <2> QED
      BY <2>3, <2>4
  <1>2. Sum(S) = (CHOOSE g : AddsUp(g, SUBSET S))[S]
    BY DEF Sum, MapThenSumSet, MapThenFoldSet, Any, Adds, AddsUp
  <1> QED
    BY <1>1, <1>2

LEMMA Smallest ==
    ASSUME NEW S, IsFiniteSet(S), NEW W \in SUBSET SUBSET S, W # {}
    PROVE  \E s \in W : \A t \in W : t \subseteq s => t = s
  <1> DEFINE Counts == {n \in Nat : \E s \in W : Cardinality(s) = n}
  <1>1. \A s \in W : IsFiniteSet(s) /\ Cardinality(s) \in Nat
    BY FS_Subset, FS_CardinalityType
  <1>2. Counts \in SUBSET Nat /\ Counts # {}
    BY <1>1
  <1>3. PICK n \in Counts : \A k \in Counts : n <= k
    <2> HIDE DEF Counts
    <2> QED
      BY <1>2, Least
  <1>4. PICK s \in W : Cardinality(s) = n
    BY <1>3
  <1>5. ASSUME NEW t \in W, t \subseteq s, t # s PROVE FALSE
    <2>1. n <= Cardinality(t)
      BY <1>1, <1>3
    <2>2. IsFiniteSet(s) /\ t \in SUBSET s
      BY <1>1, <1>5
    <2>3. Cardinality(t) <= Cardinality(s) /\ (Cardinality(s) = Cardinality(t) => s = t)
      BY <2>2, FS_Subset
    <2> QED
      BY <1>1, <1>4, <1>5, <2>1, <2>3
  <1> QED
    BY <1>5

LEMMA SumsAreInt ==
    ASSUME NEW S, IsFiniteSet(S), Weighs(S), NEW g, AddsUp(g, SUBSET S)
    PROVE  \A s \in SUBSET S : g[s] \in Int
  <1> DEFINE W == {s \in SUBSET S : g[s] \notin Int}
  <1>1. SUFFICES ASSUME W # {} PROVE FALSE
    OBVIOUS
  <1>2. PICK s \in W : \A t \in W : t \subseteq s => t = s
    <2>1. W \in SUBSET SUBSET S
      OBVIOUS
    <2> HIDE DEF W
    <2> QED
      BY <1>1, <2>1, Smallest
  <1>3. g[s] = Adds(g, s)
    BY <1>2 DEF AddsUp
  <1>4. s # {}
    BY <1>2, <1>3 DEF Adds
  <1>5. Any(s) \in s
    BY <1>4 DEF Any
  <1>6. g[s \ {Any(s)}] \in Int
    BY <1>2, <1>5
  <1> QED
    BY <1>2, <1>3, <1>4, <1>5, <1>6 DEF Adds, Weighs

\* Any row may be added last.
LEMMA AnyOrder ==
    ASSUME NEW S, IsFiniteSet(S), Weighs(S), NEW g, AddsUp(g, SUBSET S)
    PROVE  \A s \in SUBSET S : \A x \in s : g[s] = x.amount + g[s \ {x}]
  <1> DEFINE W == {s \in SUBSET S : \E x \in s : g[s] # x.amount + g[s \ {x}]}
  <1>1. SUFFICES ASSUME W # {} PROVE FALSE
    OBVIOUS
  <1>2. PICK s \in W : \A t \in W : t \subseteq s => t = s
    <2>1. W \in SUBSET SUBSET S
      OBVIOUS
    <2> HIDE DEF W
    <2> QED
      BY <1>1, <2>1, Smallest
  <1>3. PICK x \in s : g[s] # x.amount + g[s \ {x}]
    BY <1>2
  <1>4. Any(s) \in s
    BY <1>3 DEF Any
  <1>5. PICK y \in s : y = Any(s)
    BY <1>4
  <1>6. g[s] = y.amount + g[s \ {y}]
    BY <1>2, <1>3, <1>5 DEF Adds, AddsUp
  <1>7. g[s \ {y}] = x.amount + g[(s \ {y}) \ {x}]
    BY <1>2, <1>3, <1>5, <1>6
  <1>8. g[s \ {x}] = y.amount + g[(s \ {x}) \ {y}]
    BY <1>2, <1>3, <1>5, <1>6
  <1>9. g[(s \ {y}) \ {x}] = g[(s \ {x}) \ {y}]
    <2>1. (s \ {y}) \ {x} = (s \ {x}) \ {y}
      OBVIOUS
    <2> QED
      BY <2>1, Zenon
  <1>10. x.amount \in Int /\ y.amount \in Int /\ g[(s \ {x}) \ {y}] \in Int
    BY <1>2, <1>3, SumsAreInt DEF Weighs
  <1> QED
    BY <1>3, <1>6, <1>7, <1>8, <1>9, <1>10

\* A sum is the amount of one row and the sum of the others.
LEMMA SumRemove ==
    ASSUME NEW S, IsFiniteSet(S), Weighs(S), NEW x \in S
    PROVE  Sum(S) = x.amount + Sum(S \ {x})
  <1> DEFINE U == S \ {x}
  <1>1. IsFiniteSet(U) /\ Weighs(U)
    BY FS_Subset DEF Weighs
  <1>2. PICK g : AddsUp(g, SUBSET S) /\ Sum(S) = g[S]
    BY SumSteps
  <1>3. PICK h : AddsUp(h, SUBSET U) /\ Sum(U) = h[U]
    BY <1>1, SumSteps
  <1>4. \A s \in SUBSET U : g[s] = h[s]
    <2> DEFINE W == {s \in SUBSET U : g[s] # h[s]}
    <2>1. SUFFICES ASSUME W # {} PROVE FALSE
      OBVIOUS
    <2>2. PICK s \in W : \A t \in W : t \subseteq s => t = s
      <3>1. W \in SUBSET SUBSET U
        OBVIOUS
      <3> HIDE DEF W
      <3> QED
        BY <1>1, <2>1, <3>1, Smallest
    <2>3. g[s] = Adds(g, s) /\ h[s] = Adds(h, s)
      BY <1>2, <1>3, <2>2 DEF AddsUp
    <2>4. s # {}
      BY <2>2, <2>3 DEF Adds
    <2>5. Any(s) \in s
      BY <2>4 DEF Any
    <2>6. g[s \ {Any(s)}] = h[s \ {Any(s)}]
      BY <2>2, <2>5
    <2> QED
      BY <2>2, <2>3, <2>6 DEF Adds
  <1>5. g[S] = x.amount + g[U]
    BY <1>2, AnyOrder
  <1> QED
    BY <1>2, <1>3, <1>4, <1>5

LEMMA SumEmpty == Sum({}) = 0
  <1>1. IsFiniteSet({})
    BY FS_EmptySet
  <1>2. PICK g : AddsUp(g, SUBSET {}) /\ Sum({}) = g[{}]
    BY <1>1, SumSteps
  <1> QED
    BY <1>2 DEF AddsUp, Adds

-----------------------------------------------------------------------------
Entries(u) == {r \in rows : r.user = u}
Books == IsFiniteSet(rows) /\ \A u \in Users : Balance[u] = Sum(Entries(u))

LEMMA EntriesWeigh == IInv => \A T \in SUBSET rows : Weighs(T)
  BY AmountsAssumption DEF IInv, TypeOK, Row, Weighs

\* An atomic posting adds its amount to the balance and to the ledger.
LEMMA PostBooks ==
    ASSUME IInv, IInv', Books, NEW r, r.user \in Users, Atomic!Post(r)
    PROVE  Books'
  <1>1. /\ rows' = rows \cup {r} /\ r \notin rows
        /\ Balance' = [Balance EXCEPT ![r.user] = @ + r.amount]
    BY DEF Atomic!Post
  <1>2. IsFiniteSet(rows')
    BY <1>1, FS_AddElement DEF Books
  <1>3. ASSUME NEW u \in Users PROVE Balance'[u] = Sum(Entries(u)')
    <2>1. Balance[u] = Sum(Entries(u))
      BY DEF Books
    <2>2. CASE u = r.user
      <3>1. r \in Entries(u)' /\ Entries(u)' \ {r} = Entries(u)
        BY <1>1, <2>2 DEF Entries
      <3>2. IsFiniteSet(Entries(u)') /\ Weighs(Entries(u)')
        <4>1. Entries(u)' \in SUBSET rows'
          BY DEF Entries
        <4>2. \A q \in rows' : q.amount \in Int
          BY AmountsAssumption DEF IInv, TypeOK, Row
        <4> QED
          BY <1>2, <4>1, <4>2, FS_Subset DEF Weighs
      <3>3. Sum(Entries(u)') = r.amount + Sum(Entries(u))
        BY <3>1, <3>2, SumRemove
      <3>4. r.amount \in Int /\ Balance[u] \in Int
        BY <3>1, <3>2 DEF Weighs, Balance, IInv, TypeOK
      <3> QED
        BY <1>1, <2>1, <2>2, <3>3, <3>4 DEF Balance
    <2>3. CASE u # r.user
      <3>1. Entries(u)' = Entries(u)
        BY <1>1, <2>3 DEF Entries
      <3>2. Balance'[u] = Balance[u]
        BY <1>1, <2>3 DEF Balance
      <3> QED
        BY <2>1, <3>1, <3>2, Zenon
    <2> QED
      BY <2>2, <2>3, Zenon
  <1> QED
    BY <1>2, <1>3, Zenon DEF Books

LEMMA EraseBooks == ASSUME IInv, Books, NEW u \in Users, Atomic!Erase(u) PROVE Books'
  <1>1. rows' = {r \in rows : r.user # u} /\ Balance' = [Balance EXCEPT ![u] = 0]
    BY DEF Atomic!Erase
  <1>2. IsFiniteSet(rows')
    BY <1>1, FS_Subset DEF Books
  <1>3. ASSUME NEW w \in Users PROVE Balance'[w] = Sum(Entries(w)')
    <2>1. Balance[w] = Sum(Entries(w))
      BY DEF Books
    <2>2. CASE w = u
      <3>1. Entries(w)' = {}
        BY <1>1, <2>2 DEF Entries
      <3>2. Balance'[w] = 0
        BY <1>1, <2>2 DEF Balance
      <3> QED
        BY <3>1, <3>2, SumEmpty, Zenon
    <2>3. CASE w # u
      <3>1. Entries(w)' = Entries(w)
        BY <1>1, <2>3 DEF Entries
      <3>2. Balance'[w] = Balance[w]
        BY <1>1, <2>3 DEF Balance
      <3> QED
        BY <2>1, <3>1, <3>2, Zenon
    <2> QED
      BY <2>2, <2>3, Zenon
  <1> QED
    BY <1>2, <1>3, Zenon DEF Books

\* The balance of a customer is the sum of the customer's rows: no interleaving of
\* postings, retries and crashes loses or repeats a movement (post_transaction).
THEOREM BalancesAddUp == Spec => []BalanceIsLedgerSum
  <1>1. Init => Books
    <2> SUFFICES ASSUME Init PROVE Books
      OBVIOUS
    <2>1. rows = {} /\ IsFiniteSet(rows)
      BY FS_EmptySet DEF Init
    <2>2. \A u \in Users : {r \in rows : r.user = u} = {} /\ Balance[u] = 0
      BY <2>1 DEF Init, Balance
    <2>3. \A u \in Users : Balance[u] = Sum({r \in rows : r.user = u})
      BY <2>2, SumEmpty, Zenon
    <2> QED
      BY <2>1, <2>3 DEF Books, Entries
  <1>2. IInv /\ IInv' /\ Books /\ [Next]_vars => Books'
    <2> SUFFICES ASSUME IInv, IInv', Books, [Next]_vars PROVE Books'
      OBVIOUS
    <2>1. Atomic!Next \/ UNCHANGED <<rows, Balance, people>>
      BY StepRefines DEF Atomic!avars
    <2>2. CASE UNCHANGED <<rows, Balance, people>>
      BY <2>2 DEF Books, Entries
    <2>3. ASSUME NEW r \in Atomic!Row, Atomic!Post(r) PROVE Books'
      <3>1. r.user \in Users
        BY DEF Atomic!Row
      <3> QED
        BY <2>3, <3>1, PostBooks
    <2>4. ASSUME NEW u \in Users, Atomic!Erase(u) PROVE Books'
      BY <2>4, EraseBooks
    <2> QED
      BY <2>1, <2>2, <2>3, <2>4 DEF Atomic!Next
  <1>3. Books => BalanceIsLedgerSum
    BY DEF Books, BalanceIsLedgerSum, Sum, Entries
  <1> QED
    BY <1>1, <1>2, <1>3, InvHolds, PTL DEF Spec
=============================================================================
