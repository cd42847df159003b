-------------------------- MODULE SupplierKeyProofs --------------------------
(***************************************************************************)
(* What holds of a customer's key whatever answers are lost and whenever   *)
(* the worker or the API dies, for any number of keys, grants and units of *)
(* spend: no unit is charged twice, and no working key that the customer   *)
(* may hold is left behind.  Both rest on the row and the worker's copy of *)
(* it agreeing in the key and its mark: the API writes nothing but         *)
(* limit_dirty, and the worker does one thing at a time.                   *)
(***************************************************************************)
EXTENDS SupplierKey, WellFoundedInduction, TLAPS

\* What the worker has in hand, by what it is about to do.
WorkerTyped ==
    /\ wk.pc = "idle" => wk = Idle
    /\ wk.pc = "begin" => wk \in [pc : {"begin"}, full : BOOLEAN, copy : Account, credit : Int]
    /\ wk.pc \in {"block", "commit"} =>
           wk \in [pc : {"block", "commit"}, copy : Account, credit : Int, new : Account]
    /\ wk.pc \in {"meter", "cap"} =>
           wk \in [pc : {"meter", "cap"}, copy : Account, credit : Int, info : Key]
    /\ wk.pc = "revoked" => wk \in [pc : {"revoked"}, copy : Account]
    /\ api.pc = "idle" => api = Idle

\* The copy names the key of the row, and how far it is charged.
CopyAgrees ==
    wk.pc \in {"begin", "block", "meter", "cap", "commit", "revoked"} =>
        wk.copy.key = row.key /\ wk.copy.mark = row.mark

\* What the worker is about to write, charge or erase is so.
WorkerKnows ==
    /\ wk.pc \in {"meter", "cap", "revoked"} => row.key # NoKey
    /\ wk.pc = "meter" => wk.info.usage <= keys[row.key].usage
    /\ wk.pc \in {"block", "commit"} =>
           /\ wk.new.key # NoKey /\ row.key \in {NoKey, wk.new.key}
           /\ charged[wk.new.key] <= wk.new.mark /\ keys[wk.new.key].state # "unused"
    /\ wk.pc = "block" => wk.new.mark = 0
    /\ wk.pc = "revoked" => keys[row.key].state = "deleted"
    /\ wk.pc = "purge" => row.key = NoKey

\* Nobody works on an account that is erased.
ErasedIsOver == status = "erased" => wk.pc = "idle" /\ ~doomed

\* A key that was never minted is nobody's and costs nothing.
UnusedIsNew ==
    \A k \in Keys : keys[k].state = "unused" => charged[k] = 0 /\ k # row.key /\ k \notin shown

MarkCovers == row.key # NoKey => charged[row.key] <= row.mark

IInv ==
    /\ TypeOK /\ WorkerTyped /\ CopyAgrees /\ WorkerKnows /\ ErasedIsOver
    /\ UnusedIsNew /\ MarkCovers /\ NeverOvercharged /\ NoKeyLeftBehind

-----------------------------------------------------------------------------
\* The first of some keys is one of them.
LEMMA MinIsOneOfThem == ASSUME NEW S \in SUBSET Keys, S # {} PROVE Min(S) \in S
  <1>1. S \subseteq Nat
    BY SupplierKeyAssumption
  <1>2. IsWellFoundedOn(OpToRel(<, Nat), Nat)
    BY NatLessThanWellFounded
  <1>3. PICK x \in S : \A y \in S : ~ (<<y, x>> \in OpToRel(<, Nat))
    BY <1>1, <1>2, WFMin
  <1>4. \A y \in S : ~(y < x)
    BY <1>1, <1>3 DEF OpToRel
  <1>5. \A y \in S : x <= y
    BY <1>1, <1>4
  <1> QED
    BY <1>5 DEF Min

LEMMA AffordableTyped == ASSUME NEW credit \in Int PROVE Affordable(credit) \in Int
  <1>1. ASSUME NEW a \in Int, NEW b \in Int PROVE Max({a, b}) \in Int /\ Min({a, b}) \in Int
    <2>1. \E x \in {a, b} : \A y \in {a, b} : x >= y
      <3>1. CASE a >= b
        BY <3>1
      <3>2. CASE b >= a
        BY <3>2
      <3> QED
        BY <3>1, <3>2
    <2>2. \E x \in {a, b} : \A y \in {a, b} : x <= y
      <3>1. CASE a >= b
        BY <3>1
      <3>2. CASE b >= a
        BY <3>2
      <3> QED
        BY <3>1, <3>2
    <2>3. Max({a, b}) \in {a, b} /\ Min({a, b}) \in {a, b}
      BY <2>1, <2>2 DEF Max, Min
    <2> QED
      BY <2>3
  <1> QED
    BY <1>1, SupplierKeyAssumption DEF Affordable

LEMMA NewAccountTyped == NewAccount \in Account
  BY DEF NewAccount, Account

\* A commit of the worker's copy, if the row's key and mark are the copy's.
LEMMA SavedRow ==
    ASSUME row \in Account, NEW copy \in Account, NEW new \in Account,
           copy.key = row.key, copy.mark = row.mark
    PROVE  /\ Save(copy, new) \in Account
           /\ Save(copy, new).key = new.key /\ Save(copy, new).mark = new.mark
  <1>1. DOMAIN row = {"key", "mark", "blocked", "dirty"}
    BY DEF Account
  <1>2. Save(copy, new) = [f \in {"key", "mark", "blocked", "dirty"} |->
                               IF new[f] = copy[f] THEN row[f] ELSE new[f]]
    BY <1>1 DEF Save
  <1>3. Save(copy, new) = [key |-> IF new.key = copy.key THEN row.key ELSE new.key,
                           mark |-> IF new.mark = copy.mark THEN row.mark ELSE new.mark,
                           blocked |-> IF new.blocked = copy.blocked THEN row.blocked ELSE new.blocked,
                           dirty |-> IF new.dirty = copy.dirty THEN row.dirty ELSE new.dirty]
    BY <1>2
  <1>4. /\ row.key \in {NoKey} \cup Keys /\ row.mark \in Nat
        /\ row.blocked \in BOOLEAN /\ row.dirty \in BOOLEAN
        /\ new.key \in {NoKey} \cup Keys /\ new.mark \in Nat
        /\ new.blocked \in BOOLEAN /\ new.dirty \in BOOLEAN
    BY DEF Account
  <1> QED
    BY <1>3, <1>4 DEF Account

LEMMA InitInv == ASSUME Init PROVE IInv
  <1>1. TypeOK
    <2>1. row \in Account /\ keys \in [Keys -> Key] /\ charged \in [Keys -> Nat]
      BY NewAccountTyped DEF Init, Key
    <2>2. 0 \in 0 .. FullEvery - 1 /\ 0 \in 0 .. MaxRequests /\ 0 \in 0 .. MaxFaults
      BY SupplierKeyAssumption
    <2>3. wk.pc = "idle" /\ api.pc = "idle"
      BY DEF Init, Idle
    <2>4. /\ status \in {"pending", "approved", "rejected", "deleting", "erased"}
          /\ doomed \in BOOLEAN /\ bucket \in BOOLEAN
      BY DEF Init
    <2>5. balance \in Int /\ shown \subseteq Keys
      BY DEF Init
    <2>6. tick \in 0 .. FullEvery - 1 /\ requests \in 0 .. MaxRequests /\ faults \in 0 .. MaxFaults
      BY <2>2 DEF Init
    <2> QED
      BY <2>1, <2>3, <2>4, <2>5, <2>6 DEF TypeOK
  <1>2. WorkerTyped /\ CopyAgrees /\ WorkerKnows /\ ErasedIsOver
    BY DEF Init, WorkerTyped, CopyAgrees, WorkerKnows, ErasedIsOver, Idle
  <1>3. UnusedIsNew /\ MarkCovers /\ NeverOvercharged /\ NoKeyLeftBehind
    BY SupplierKeyAssumption
    DEF Init, UnusedIsNew, MarkCovers, NeverOvercharged, NoKeyLeftBehind, NewAccount, NoKey
  <1> QED
    BY <1>1, <1>2, <1>3 DEF IInv

-----------------------------------------------------------------------------
\* The row keeps its key, and nobody is charged: what the supplier's side may do.
LEMMA RowKept ==
    ASSUME IInv, TypeOK', UNCHANGED <<charged, shown>>,
           row'.key = row.key, row'.mark = row.mark,
           \A k \in Keys : /\ keys'[k].usage >= charged[k]
                           /\ keys'[k].state = "unused" => keys[k].state = "unused"
                           /\ k \in shown /\ keys'[k].state = "live" => keys[k].state = "live",
           status' = "erased" => status = "erased", ErasedIsOver',
           WorkerTyped', CopyAgrees', WorkerKnows'
    PROVE  IInv'
  <1>1. UnusedIsNew'
    BY DEF IInv, UnusedIsNew
  <1>2. MarkCovers'
    BY DEF IInv, MarkCovers
  <1>3. NeverOvercharged'
    BY DEF IInv, TypeOK, NeverOvercharged, Key
  <1>4. NoKeyLeftBehind'
    BY DEF IInv, TypeOK, NoKeyLeftBehind
  <1> QED
    BY <1>1, <1>2, <1>3, <1>4 DEF IInv

\* Whoever moves while the worker has what it has.
LEMMA WorkerUnmoved ==
    ASSUME IInv, TypeOK', UNCHANGED <<wk, charged, shown>>, row'.key = row.key, row'.mark = row.mark,
           \A k \in Keys : keys'[k].usage >= keys[k].usage /\ keys'[k].state = keys[k].state,
           status' = "erased" => status = "erased", status = "erased" => doomed' = doomed,
           api'.pc = "idle" => api' = Idle
    PROVE  IInv'
  <1>1. WorkerTyped'
    BY DEF IInv, WorkerTyped
  <1>2. CopyAgrees'
    BY DEF IInv, CopyAgrees
  <1>3. WorkerKnows'
    BY DEF IInv, TypeOK, WorkerKnows, WorkerTyped, Account, Key
  <1>4. ErasedIsOver'
    BY DEF IInv, ErasedIsOver
  <1>5. \A k \in Keys : keys'[k].usage >= charged[k]
    BY DEF IInv, TypeOK, NeverOvercharged, Key
  <1> QED
    BY <1>1, <1>2, <1>3, <1>4, <1>5, RowKept

LEMMA AdministratorsInv ==
    ASSUME IInv, Admin \/ GrantLoads \/ OtherCharge \/ NextBucket
    PROVE  IInv'
  <1>1. UNCHANGED <<wk, keys, charged, shown, row>>
    BY DEF Admin, Approve, Reject, Delete, Grant, GrantLoads, OtherCharge, NextBucket
  <1>2. TypeOK'
    <2>1. requests' \in 0 .. MaxRequests /\ faults' \in 0 .. MaxFaults
      <3>1. requests' = requests \/ Ask
        BY DEF Admin, Approve, Reject, Delete, Grant, GrantLoads, OtherCharge, NextBucket
      <3>2. faults' = faults \/ Fault("api")
        BY DEF Admin, Approve, Reject, Delete, Grant, GrantLoads, OtherCharge, NextBucket
      <3> QED
        BY <3>1, <3>2, SupplierKeyAssumption DEF IInv, TypeOK, Ask, Fault
    <2>2. balance' \in Int /\ tick' = tick
      <3>1. CASE Grant
        <4>1. PICK amount \in Grants : balance' = balance + amount
          BY <3>1, Zenon DEF Grant
        <4>2. tick' = tick
          BY <3>1 DEF Grant
        <4> QED
          BY <4>1, <4>2, SupplierKeyAssumption DEF IInv, TypeOK
      <3>2. CASE OtherCharge
        BY <3>2 DEF IInv, TypeOK, OtherCharge
      <3>3. CASE Approve \/ Reject \/ Delete \/ GrantLoads \/ NextBucket
        BY <3>3 DEF IInv, TypeOK, Approve, Reject, Delete, GrantLoads, NextBucket
      <3> QED
        BY <3>1, <3>2, <3>3 DEF Admin
    <2>3. /\ status' \in {status, "approved", "rejected", "deleting"}
          /\ doomed' \in {doomed, TRUE} /\ bucket' \in {bucket, FALSE}
      BY DEF Admin, Approve, Reject, Delete, Grant, GrantLoads, OtherCharge, NextBucket
    <2>4. api' = api \/ api'.pc \in {"load", "wake"}
      BY DEF Admin, Approve, Reject, Delete, Grant, GrantLoads, OtherCharge, NextBucket
    <2> QED
      BY <1>1, <2>1, <2>2, <2>3, <2>4 DEF IInv, TypeOK
  <1>3. /\ status' = "erased" => status = "erased"
        /\ status = "erased" => doomed' = doomed
        /\ api'.pc = "idle" => api' = Idle
    BY DEF Admin, Approve, Reject, Delete, Grant, GrantLoads, OtherCharge, NextBucket, IInv,
           WorkerTyped
  <1>4. \A k \in Keys : keys'[k].usage >= keys[k].usage /\ keys'[k].state = keys[k].state
    BY <1>1 DEF IInv, TypeOK, Key
  <1> QED
    BY <1>1, <1>2, <1>3, <1>4, WorkerUnmoved

LEMMA GrantWakesInv == ASSUME IInv, GrantWakes PROVE IInv'
  <1>1. /\ api' = Idle
        /\ UNCHANGED <<status, doomed, balance, bucket, keys, shown, charged, tick, wk, requests, faults>>
    BY DEF GrantWakes
  <1>2. row' \in Account /\ row'.key = row.key /\ row'.mark = row.mark
    <2> DEFINE woken == IF status = "erased" THEN row.dirty ELSE row.dirty \/ ~api.dirty
    <2>1. row' = [row EXCEPT !.dirty = woken] /\ row \in Account
      BY DEF GrantWakes, IInv, TypeOK
    <2>2. woken \in BOOLEAN
      BY <2>1 DEF Account
    <2> HIDE DEF woken
    <2> QED
      BY <2>1, <2>2 DEF Account
  <1>3. TypeOK'
    BY <1>1, <1>2 DEF IInv, TypeOK, Idle
  <1>4. \A k \in Keys : keys'[k].usage >= keys[k].usage /\ keys'[k].state = keys[k].state
    BY <1>1 DEF IInv, TypeOK, Key
  <1> QED
    BY <1>1, <1>2, <1>3, <1>4, WorkerUnmoved

LEMMA SpendInv == ASSUME IInv, NEW k \in Keys, Spend(k) PROVE IInv'
  <1>1. /\ keys' = [keys EXCEPT ![k].usage = @ + 1]
        /\ UNCHANGED <<status, doomed, row, balance, bucket, shown, charged, tick, wk, api,
                       requests, faults>>
    BY DEF Spend
  <1>2. /\ keys' \in [Keys -> Key]
        /\ \A j \in Keys : keys'[j].usage >= keys[j].usage /\ keys'[j].state = keys[j].state
    BY <1>1 DEF IInv, TypeOK, Key
  <1>3. TypeOK'
    BY <1>1, <1>2 DEF IInv, TypeOK
  <1> QED
    BY <1>1, <1>2, <1>3, WorkerUnmoved DEF IInv, WorkerTyped

-----------------------------------------------------------------------------
LEMMA LetGo ==
    ASSUME IInv, wk' = Idle, UNCHANGED api, status' = status, status = "erased" => doomed' = doomed
    PROVE  /\ WorkerTyped' /\ CopyAgrees' /\ WorkerKnows' /\ ErasedIsOver'
           /\ wk'.pc = "idle" /\ api'.pc \in {"idle", "load", "wake"}
  <1>1. wk'.pc = "idle"
    BY DEF Idle
  <1> QED
    BY <1>1 DEF IInv, TypeOK, WorkerTyped, CopyAgrees, WorkerKnows, ErasedIsOver

\* The parts of TypeOK that the worker's steps leave alone.
LEMMA WorkerTypes ==
    ASSUME IInv, row' \in Account, keys' \in [Keys -> Key], shown' \subseteq Keys,
           charged' \in [Keys -> Nat], balance' \in Int, bucket' \in BOOLEAN,
           wk'.pc \in {"idle", "begin", "block", "meter", "cap", "commit", "revoked", "purge"},
           faults' = faults \/ \E kind \in Faults : Fault(kind),
           UNCHANGED <<status, doomed, tick, api, requests>>
    PROVE  TypeOK'
  <1>1. faults' \in 0 .. MaxFaults
    BY SupplierKeyAssumption DEF IInv, TypeOK, Fault
  <1> QED
    BY <1>1 DEF IInv, TypeOK

\* Only an account that is not erased is in the worker's hands.
LEMMA NotErased == ASSUME IInv, wk.pc # "idle" PROVE status # "erased"
  BY DEF IInv, ErasedIsOver

LEMMA BeginInv == ASSUME IInv, Begin PROVE IInv'
  <1>1. UNCHANGED <<status, doomed, row, balance, bucket, keys, shown, charged, api, requests, faults>>
    BY DEF Begin
  <1>2. tick' \in 0 .. FullEvery - 1
    BY SupplierKeyAssumption DEF Begin, NextTick, IInv, TypeOK
  <1>3. \A k \in Keys :
            /\ keys'[k].usage >= charged[k]
            /\ keys'[k].state = keys[k].state
    BY <1>1 DEF IInv, TypeOK, NeverOvercharged, Key
  <1>4. CASE wk' = Idle
    <2>1. TypeOK'
      BY <1>1, <1>2, <1>4, LetGo DEF IInv, TypeOK
    <2> QED
      BY <1>1, <1>3, <1>4, <2>1, LetGo, RowKept
  <1>5. CASE /\ status = "approved"
             /\ wk' = [pc |-> "begin", full |-> tick = 0, copy |-> row, credit |-> balance]
    <2>1. TypeOK'
      BY <1>1, <1>2, <1>5 DEF IInv, TypeOK
    <2>2. wk' \in [pc : {"begin"}, full : BOOLEAN, copy : Account, credit : Int]
      BY <1>5 DEF IInv, TypeOK
    <2>3. WorkerTyped' /\ CopyAgrees' /\ WorkerKnows' /\ ErasedIsOver'
      BY <1>1, <1>5, <2>2 DEF IInv, WorkerTyped, CopyAgrees, WorkerKnows, ErasedIsOver
    <2> QED
      BY <1>1, <1>3, <2>1, <2>3, RowKept
  <1> QED
    BY <1>4, <1>5 DEF Begin

\* A key that was unused is minted, and the worker knows it or does not.
LEMMA MintInv == ASSUME IInv, Mint PROVE IInv'
  <1> DEFINE unused == {j \in Keys : keys[j].state = "unused"}
             first == Min(unused)
             cap == Affordable(Credit)
             minted == [state |-> "live", usage |-> 0, limit |-> cap, disabled |-> FALSE]
             fresh == [wk.copy EXCEPT !.key = first, !.mark = 0, !.blocked = FALSE]
             broke == Credit <= 0
             new == [fresh EXCEPT !.blocked = broke, !.dirty = FALSE]
             held == [pc |-> IF broke THEN "block" ELSE "commit", copy |-> wk.copy,
                      credit |-> Credit, new |-> new]
  <1>1. /\ wk.pc = "begin" /\ wk.copy.key = NoKey /\ unused # {}
        /\ UNCHANGED <<status, doomed, row, balance, bucket, shown, charged, tick, api, requests>>
        /\ \/ keys' = [keys EXCEPT ![first] = minted] /\ wk' = held /\ UNCHANGED faults
           \/ /\ Fault("mint") /\ keys' \in {keys, [keys EXCEPT ![first] = minted]} /\ wk' = Idle
    BY DEF Mint, Update
  <1>2. first \in Keys /\ keys[first].state = "unused"
    <2>1. unused \in SUBSET Keys
      OBVIOUS
    <2>2. first \in unused
      BY <1>1, <2>1, MinIsOneOfThem
    <2> QED
      BY <2>2
  <1>3. charged[first] = 0 /\ first \notin shown /\ first # NoKey
    BY <1>2, SupplierKeyAssumption DEF IInv, UnusedIsNew, NoKey
  <1>4. wk \in [pc : {"begin"}, full : BOOLEAN, copy : Account, credit : Int] /\ Credit \in Int
    BY <1>1 DEF IInv, TypeOK, WorkerTyped, Credit
  <1>5. minted \in Key
    BY <1>4, AffordableTyped DEF Key
  <1>6. new \in Account /\ new.key = first /\ new.mark = 0
    <2>1. wk.copy \in Account
      BY <1>4
    <2>2. broke \in BOOLEAN
      OBVIOUS
    <2> HIDE DEF broke, first
    <2> QED
      BY <2>1, <2>2, <1>2 DEF Account
  <1> HIDE DEF first, new, minted, broke
  <1>7. keys' \in {keys, [keys EXCEPT ![first] = minted]} /\ keys \in [Keys -> Key]
    BY <1>1 DEF IInv, TypeOK
  <1>8. /\ keys' \in [Keys -> Key]
        /\ \A k \in Keys : keys'[k] = keys[k] \/ (k = first /\ keys'[k] = minted)
    BY <1>5, <1>7
  <1>9. \A k \in Keys :
            /\ keys'[k].usage >= charged[k]
            /\ keys'[k].state = "unused" => keys[k].state = "unused"
            /\ k \in shown /\ keys'[k].state = "live" => keys[k].state = "live"
    BY <1>3, <1>8 DEF IInv, TypeOK, NeverOvercharged, Key, minted
  <1>10. UNCHANGED <<charged, shown, row, status>>
    BY <1>1
  <1>11. faults' = faults \/ \E kind \in Faults : Fault(kind)
    BY <1>1 DEF Faults
  <1>12. CASE wk' = Idle
    <2>1. TypeOK'
      BY <1>1, <1>8, <1>11, <1>12, LetGo, WorkerTypes DEF IInv, TypeOK
    <2>2. WorkerTyped' /\ CopyAgrees' /\ WorkerKnows' /\ ErasedIsOver'
      BY <1>1, <1>12, LetGo
    <2> QED
      BY <1>9, <1>12, <1>10, <2>1, <2>2, RowKept
  <1>13. CASE wk' = held /\ keys' = [keys EXCEPT ![first] = minted]
    <2>1. /\ wk' \in [pc : {"block", "commit"}, copy : Account, credit : Int, new : Account]
          /\ wk'.copy = wk.copy /\ wk'.new = new
      BY <1>4, <1>6, <1>13
    <2>2. wk'.pc \in {"block", "commit"}
      BY <2>1
    <2>3. TypeOK'
      BY <1>1, <1>8, <1>11, <2>2, WorkerTypes DEF IInv, TypeOK
    <2>4. WorkerTyped'
      BY <1>1, <2>1, <2>2 DEF IInv, WorkerTyped
    <2>5. CopyAgrees'
      BY <1>1, <2>1, <2>2 DEF IInv, CopyAgrees
    <2>6. keys'[first].state = "live" /\ row.key = NoKey
      BY <1>1, <1>2, <1>7, <1>13 DEF IInv, CopyAgrees, minted
    <2>7. WorkerKnows'
      BY <1>1, <1>2, <1>3, <1>6, <2>1, <2>2, <2>6 DEF WorkerKnows
    <2>8. ErasedIsOver'
      BY <1>1 DEF IInv, ErasedIsOver
    <2> QED
      BY <1>9, <1>10, <2>3, <2>4, <2>5, <2>7, <2>8, RowKept
  <1> QED
    BY <1>1, <1>12, <1>13

\* The row takes a key: one it has, or the first one, and then no other works.
LEMMA RowTakesKey ==
    ASSUME IInv, NEW k \in Keys, row' \in Account, row'.key = k, charged[k] <= row'.mark,
           keys[k].state # "unused", row.key \in {NoKey, k}, shown' = shown \cup {k},
           \A j \in Keys : keys'[j].usage >= keys[j].usage /\ keys'[j].state = keys[j].state,
           TypeOK', UNCHANGED <<status, charged>>, wk.pc # "idle",
           WorkerTyped', CopyAgrees', WorkerKnows', ErasedIsOver'
    PROVE  IInv'
  <1>1. k # NoKey /\ status # "erased"
    BY NotErased, SupplierKeyAssumption DEF NoKey
  <1>2. UnusedIsNew'
    BY DEF IInv, UnusedIsNew
  <1>3. MarkCovers'
    BY DEF MarkCovers
  <1>4. NeverOvercharged'
    BY DEF IInv, TypeOK, NeverOvercharged, Key
  <1>5. NoKeyLeftBehind'
    <2>1. ASSUME NEW j \in shown, keys'[j].state = "live" PROVE row'.key = j
      <3>1. j \in Keys /\ keys[j].state = "live" /\ j # NoKey
        BY <2>1, SupplierKeyAssumption DEF IInv, TypeOK, NoKey
      <3>2. row.key = j
        BY <3>1 DEF IInv, NoKeyLeftBehind
      <3> QED
        BY <3>1, <3>2
    <2> QED
      BY <1>1, <2>1 DEF NoKeyLeftBehind
  <1> QED
    BY <1>2, <1>3, <1>4, <1>5 DEF IInv

\* The supplier disables a minted key, or refuses and the key is committed all the same.
LEMMA BlockMintedInv == ASSUME IInv, BlockMinted PROVE IInv'
  <1> DEFINE k == wk.new.key
             disabled == [keys[k] EXCEPT !.disabled = TRUE]
             kept == [wk.copy EXCEPT !.key = k, !.mark = 0, !.blocked = FALSE]
  <1>1. /\ wk.pc = "block"
        /\ UNCHANGED <<status, doomed, balance, bucket, charged, tick, api, requests>>
        /\ \/ /\ keys' = [keys EXCEPT ![k] = disabled]
              /\ wk' = [wk EXCEPT !.pc = "commit"] /\ UNCHANGED <<row, shown, faults>>
           \/ /\ Fault("update") /\ keys' \in {keys, [keys EXCEPT ![k] = disabled]}
              /\ wk' = Idle /\ shown' = shown \cup {k} /\ row' = Save(wk.copy, kept)
    BY DEF BlockMinted, Update
  <1>2. /\ wk \in [pc : {"block", "commit"}, copy : Account, credit : Int, new : Account]
        /\ keys \in [Keys -> Key] /\ row \in Account
    BY <1>1 DEF IInv, TypeOK, WorkerTyped
  <1>3. /\ k \in Keys /\ row.key \in {NoKey, k} /\ charged[k] <= 0 /\ keys[k].state # "unused"
        /\ wk.copy.key = row.key /\ wk.copy.mark = row.mark
    BY <1>1, <1>2 DEF IInv, WorkerKnows, CopyAgrees, Account
  <1>4. kept \in Account /\ kept.key = k /\ kept.mark = 0
    BY <1>2, <1>3 DEF Account
  <1>5. keys[k] \in Key
    BY <1>2, <1>3
  <1>6. disabled \in Key /\ disabled.usage = keys[k].usage /\ disabled.state = keys[k].state
    BY <1>5 DEF Key
  <1> HIDE DEF k, kept, disabled
  <1>7. keys' \in {keys, [keys EXCEPT ![k] = disabled]}
    BY <1>1
  <1>8. /\ keys' \in [Keys -> Key]
        /\ \A j \in Keys : keys'[j].usage >= keys[j].usage /\ keys'[j].state = keys[j].state
    BY <1>2, <1>6, <1>7 DEF Key
  <1>9. faults' = faults \/ \E kind \in Faults : Fault(kind)
    BY <1>1 DEF Faults
  <1>10. CASE wk' = [wk EXCEPT !.pc = "commit"] /\ UNCHANGED <<row, shown>>
    <2>1. /\ wk' \in [pc : {"block", "commit"}, copy : Account, credit : Int, new : Account]
          /\ wk'.copy = wk.copy /\ wk'.new = wk.new /\ wk'.pc = "commit"
      BY <1>2, <1>10
    <2>2. TypeOK'
      BY <1>1, <1>8, <1>9, <1>10, <2>1, WorkerTypes DEF IInv, TypeOK
    <2>3. WorkerTyped'
      BY <1>1, <2>1 DEF IInv, WorkerTyped
    <2>4. CopyAgrees'
      BY <1>3, <1>10, <2>1 DEF CopyAgrees
    <2>5. k = wk.new.key
      BY DEF k
    <2>6. WorkerKnows'
      BY <1>1, <1>3, <1>8, <1>10, <2>1, <2>5 DEF IInv, WorkerKnows
    <2>7. ErasedIsOver'
      BY <1>1 DEF IInv, ErasedIsOver
    <2>8. \A j \in Keys : keys'[j].usage >= charged[j]
      BY <1>8, <1>2 DEF IInv, TypeOK, NeverOvercharged, Key
    <2>9. UNCHANGED <<charged, shown, row, status>>
      BY <1>1, <1>10
    <2> QED
      BY <1>8, <2>2, <2>3, <2>4, <2>6, <2>7, <2>8, <2>9, RowKept
  <1>11. CASE wk' = Idle /\ shown' = shown \cup {k} /\ row' = Save(wk.copy, kept)
    <2>1. row' \in Account /\ row'.key = k /\ row'.mark = 0
      BY <1>2, <1>3, <1>4, <1>11, SavedRow
    <2>2. shown' \subseteq Keys
      BY <1>3, <1>11 DEF IInv, TypeOK
    <2>3. wk'.pc = "idle" /\ WorkerTyped' /\ CopyAgrees' /\ WorkerKnows' /\ ErasedIsOver'
      BY <1>1, <1>11, LetGo
    <2>4. TypeOK'
      BY <1>1, <1>8, <1>9, <2>1, <2>2, <2>3, WorkerTypes DEF IInv, TypeOK
    <2>5. UNCHANGED <<status, charged>> /\ wk.pc # "idle" /\ shown' = shown \cup {k}
      BY <1>1, <1>11
    <2> QED
      BY <1>3, <1>8, <2>1, <2>3, <2>4, <2>5, RowTakesKey
  <1> QED
    BY <1>1, <1>10, <1>11

\* The end of a pass: the row takes what the worker has made of its copy.
LEMMA CommitInv == ASSUME IInv, Commit PROVE IInv'
  <1>1. /\ wk.pc = "commit" /\ row' = Save(wk.copy, wk.new) /\ shown' = shown \cup {wk.new.key}
        /\ wk' = Idle
        /\ UNCHANGED <<status, doomed, balance, bucket, keys, charged, tick, api, requests, faults>>
    BY DEF Commit
  <1>2. /\ wk \in [pc : {"block", "commit"}, copy : Account, credit : Int, new : Account]
        /\ keys \in [Keys -> Key] /\ row \in Account
    BY <1>1 DEF IInv, TypeOK, WorkerTyped
  <1>3. /\ wk.new.key \in Keys /\ row.key \in {NoKey, wk.new.key}
        /\ charged[wk.new.key] <= wk.new.mark /\ keys[wk.new.key].state # "unused"
        /\ wk.copy.key = row.key /\ wk.copy.mark = row.mark
    BY <1>1, <1>2 DEF IInv, WorkerKnows, CopyAgrees, Account
  <1>4. row' \in Account /\ row'.key = wk.new.key /\ row'.mark = wk.new.mark
    BY <1>1, <1>2, <1>3, SavedRow
  <1>5. wk'.pc = "idle" /\ WorkerTyped' /\ CopyAgrees' /\ WorkerKnows' /\ ErasedIsOver'
    BY <1>1, LetGo
  <1>6. shown' \subseteq Keys
    BY <1>1, <1>3 DEF IInv, TypeOK
  <1>7. TypeOK'
    BY <1>1, <1>4, <1>5, <1>6, WorkerTypes DEF IInv, TypeOK
  <1>8. \A j \in Keys : keys'[j].usage >= keys[j].usage /\ keys'[j].state = keys[j].state
    BY <1>1, <1>2 DEF Key
  <1>9. UNCHANGED <<status, charged>> /\ wk.pc # "idle"
    BY <1>1
  <1> DEFINE k == wk.new.key
  <1>10. k \in Keys /\ charged[k] <= row'.mark /\ row'.key = k /\ row.key \in {NoKey, k}
         /\ keys[k].state # "unused" /\ shown' = shown \cup {k}
    BY <1>1, <1>3, <1>4
  <1> HIDE DEF k
  <1> QED
    BY <1>4, <1>5, <1>7, <1>8, <1>9, <1>10, RowTakesKey

-----------------------------------------------------------------------------
\* What the supplier says of the key is no more than what was used.
LEMMA ReadInv == ASSUME IInv, Read PROVE IInv'
  <1>1. /\ wk.pc = "begin" /\ wk.copy.key # NoKey
        /\ UNCHANGED <<status, doomed, row, balance, bucket, keys, shown, charged, tick, api, requests>>
        /\ \/ UNCHANGED faults
              /\ wk' = [pc |-> IF wk.full THEN "meter" ELSE "cap", copy |-> wk.copy,
                        credit |-> Credit, info |-> keys[wk.copy.key]]
           \/ wk' = Idle /\ (UNCHANGED faults \/ Fault("get"))
    BY DEF Read
  <1>2. wk \in [pc : {"begin"}, full : BOOLEAN, copy : Account, credit : Int] /\ Credit \in Int
    BY <1>1 DEF IInv, TypeOK, WorkerTyped, Credit
  <1>3. row.key \in Keys /\ wk.copy.key = row.key /\ wk.copy.mark = row.mark
    BY <1>1, <1>2 DEF IInv, CopyAgrees, Account
  <1>4. \A k \in Keys :
            keys'[k].usage >= charged[k] /\ keys'[k].state = keys[k].state
    BY <1>1 DEF IInv, TypeOK, NeverOvercharged, Key
  <1>5. faults' = faults \/ \E kind \in Faults : Fault(kind)
    BY <1>1 DEF Faults
  <1>6. UNCHANGED <<charged, shown, row, status>>
    BY <1>1
  <1>7. CASE wk' = Idle
    <2>1. wk'.pc = "idle" /\ WorkerTyped' /\ CopyAgrees' /\ WorkerKnows' /\ ErasedIsOver'
      BY <1>1, <1>7, LetGo
    <2>2. TypeOK'
      BY <1>1, <1>5, <2>1, WorkerTypes DEF IInv, TypeOK
    <2> QED
      BY <1>4, <1>6, <2>1, <2>2, RowKept
  <1>8. CASE wk' = [pc |-> IF wk.full THEN "meter" ELSE "cap", copy |-> wk.copy,
                    credit |-> Credit, info |-> keys[wk.copy.key]]
    <2>1. keys[wk.copy.key] \in Key
      BY <1>3 DEF IInv, TypeOK
    <2>2. /\ wk' \in [pc : {"meter", "cap"}, copy : Account, credit : Int, info : Key]
          /\ wk'.copy = wk.copy /\ wk'.info = keys[wk.copy.key]
      BY <1>2, <1>8, <2>1
    <2>3. wk'.pc \in {"meter", "cap"}
      BY <2>2
    <2>4. TypeOK'
      BY <1>1, <1>5, <2>3, WorkerTypes DEF IInv, TypeOK
    <2>5. WorkerTyped'
      BY <1>1, <2>2, <2>3 DEF IInv, WorkerTyped
    <2>6. CopyAgrees'
      BY <1>3, <1>6, <2>2 DEF CopyAgrees
    <2>7. WorkerKnows'
      BY <1>1, <1>3, <2>1, <2>2, <2>3 DEF WorkerKnows, Key
    <2>8. ErasedIsOver'
      BY <1>1 DEF IInv, ErasedIsOver
    <2> QED
      BY <1>4, <1>6, <2>4, <2>5, <2>6, <2>7, <2>8, RowKept
  <1> QED
    BY <1>1, <1>7, <1>8

\* What is charged is what was used above the mark, which is what was charged before.
LEMMA MeterInv == ASSUME IInv, Meter PROVE IInv'
  <1> DEFINE k == wk.copy.key
             delta == wk.info.usage - wk.copy.mark
  <1>1. /\ wk.pc = "meter"
        /\ UNCHANGED <<status, doomed, keys, shown, tick, api, requests, faults>>
        /\ \/ wk' = [wk EXCEPT !.pc = "cap"] /\ UNCHANGED <<row, balance, bucket, charged>>
           \/ /\ wk' = [wk EXCEPT !.pc = "cap", !.copy = row, !.credit = balance]
              /\ UNCHANGED <<row, balance, bucket, charged>>
           \/ /\ delta > 0 /\ charged' = [charged EXCEPT ![k] = @ + delta]
              /\ balance' = balance - delta /\ bucket' = TRUE
              /\ row' = [row EXCEPT !.mark = wk.info.usage]
              /\ wk' = [wk EXCEPT !.pc = "cap", !.copy.mark = wk.info.usage, !.credit = balance']
    <2>1. wk \in [pc : {"meter", "cap"}, copy : Account, credit : Int, info : Key]
      BY DEF Meter, IInv, WorkerTyped
    <2>2. delta \in Int
      BY <2>1 DEF Account, Key
    <2>3. delta <= 0 \/ delta > 0
      BY <2>2
    <2> QED
      BY <2>3 DEF Meter
  <1>2. /\ wk \in [pc : {"meter", "cap"}, copy : Account, credit : Int, info : Key]
        /\ keys \in [Keys -> Key] /\ row \in Account /\ charged \in [Keys -> Nat] /\ balance \in Int
        /\ bucket \in BOOLEAN
    BY <1>1 DEF IInv, TypeOK, WorkerTyped
  <1>3. /\ k \in Keys /\ row.key = k /\ wk.copy.mark = row.mark /\ charged[k] <= row.mark
        /\ wk.info.usage <= keys[k].usage /\ wk.info.usage \in Nat /\ row.mark \in Nat
    BY <1>1, <1>2 DEF IInv, WorkerKnows, CopyAgrees, MarkCovers, Account, Key
  <1>4. ErasedIsOver'
    BY <1>1 DEF IInv, ErasedIsOver
  <1>5. faults' = faults \/ \E kind \in Faults : Fault(kind)
    BY <1>1
  <1>6. CASE UNCHANGED <<row, balance, bucket, charged>> /\ wk'.copy.key = k /\ wk'.copy.mark = row.mark
             /\ wk' \in [pc : {"cap"}, copy : Account, credit : Int, info : Key]
    <2>1. wk'.pc = "cap"
      BY <1>6
    <2>2. TypeOK'
      BY <1>1, <1>2, <1>5, <1>6, <2>1, WorkerTypes DEF IInv, TypeOK
    <2>3. WorkerTyped'
      BY <1>1, <1>6, <2>1 DEF IInv, WorkerTyped
    <2>4. CopyAgrees' /\ WorkerKnows'
      BY <1>3, <1>6, <2>1, SupplierKeyAssumption DEF CopyAgrees, WorkerKnows, NoKey
    <2>5. UNCHANGED <<charged, shown, row, status>>
      BY <1>1, <1>6
    <2>6. \A j \in Keys :
              keys'[j].usage >= charged[j] /\ keys'[j].state = keys[j].state
      BY <1>1, <1>2 DEF IInv, NeverOvercharged, Key
    <2> QED
      BY <1>4, <2>2, <2>3, <2>4, <2>5, <2>6, RowKept
  <1>7. CASE /\ delta > 0 /\ charged' = [charged EXCEPT ![k] = @ + delta]
             /\ balance' = balance - delta /\ bucket' = TRUE
             /\ row' = [row EXCEPT !.mark = wk.info.usage]
             /\ wk' = [wk EXCEPT !.pc = "cap", !.copy.mark = wk.info.usage, !.credit = balance']
    <2>1. /\ charged' \in [Keys -> Nat] /\ charged'[k] <= wk.info.usage
          /\ \A j \in Keys : j # k => charged'[j] = charged[j]
      BY <1>2, <1>3, <1>7
    <2>2. row' \in Account /\ row'.key = k /\ row'.mark = wk.info.usage
      BY <1>2, <1>3, <1>7 DEF Account
    <2>3. balance' \in Int /\ bucket' \in BOOLEAN
      BY <1>2, <1>3, <1>7
    <2>4. [wk.copy EXCEPT !.mark = wk.info.usage] \in Account
      BY <1>2, <1>3 DEF Account
    <2>5. /\ wk' \in [pc : {"cap"}, copy : Account, credit : Int, info : Key]
          /\ wk'.copy = [wk.copy EXCEPT !.mark = wk.info.usage]
      BY <1>2, <1>7, <2>3, <2>4
    <2>6. wk'.pc = "cap" /\ wk'.copy.key = k /\ wk'.copy.mark = wk.info.usage
      BY <1>2, <2>5 DEF Account
    <2>7. TypeOK'
      BY <1>1, <1>2, <1>5, <2>1, <2>2, <2>3, <2>6, WorkerTypes DEF IInv, TypeOK
    <2>8. WorkerTyped'
      BY <1>1, <2>5, <2>6 DEF IInv, WorkerTyped
    <2>9. CopyAgrees' /\ WorkerKnows'
      BY <1>3, <2>2, <2>6, SupplierKeyAssumption DEF CopyAgrees, WorkerKnows, NoKey
    <2>10. UnusedIsNew'
      BY <1>1, <1>3, <2>1, <2>2 DEF IInv, UnusedIsNew
    <2>11. MarkCovers' /\ NeverOvercharged'
      BY <1>1, <1>2, <1>3, <2>1, <2>2 DEF IInv, MarkCovers, NeverOvercharged, Key
    <2>12. NoKeyLeftBehind'
      BY <1>1, <1>3, <2>2 DEF IInv, NoKeyLeftBehind
    <2> QED
      BY <1>4, <2>7, <2>8, <2>9, <2>10, <2>11, <2>12 DEF IInv
  <1>8. CASE wk' = [wk EXCEPT !.pc = "cap"] /\ UNCHANGED <<row, balance, bucket, charged>>
    BY <1>2, <1>3, <1>6, <1>8
  <1>9. CASE /\ wk' = [wk EXCEPT !.pc = "cap", !.copy = row, !.credit = balance]
             /\ UNCHANGED <<row, balance, bucket, charged>>
    BY <1>2, <1>3, <1>6, <1>9
  <1> QED
    BY <1>1, <1>7, <1>8, <1>9

\* A new cap, or none: neither what was used nor the life of the key changes.
LEMMA RecapInv == ASSUME IInv, Recap PROVE IInv'
  <1> DEFINE k == wk.copy.key
             blocked == wk.credit <= 0
             cap == wk.info.usage + Affordable(wk.credit)
             new == [wk.copy EXCEPT !.blocked = blocked, !.dirty = FALSE]
             done == [pc |-> "commit", copy |-> wk.copy, credit |-> wk.credit, new |-> new]
             capped == [keys[k] EXCEPT !.limit = cap, !.disabled = blocked]
  <1>1. /\ wk.pc = "cap"
        /\ UNCHANGED <<status, doomed, row, balance, bucket, shown, charged, tick, api, requests>>
        /\ keys' \in {keys, [keys EXCEPT ![k] = capped]}
        /\ \/ wk' = done /\ UNCHANGED faults
           \/ wk' = Idle /\ Fault("update")
    <2>1. CASE wk.info.limit = cap /\ wk.info.disabled = blocked
      BY <2>1 DEF Recap
    <2>2. CASE ~(wk.info.limit = cap /\ wk.info.disabled = blocked)
      <3>1. Update("update", k, capped, wk' = done, wk' = Idle)
        BY <2>2, Zenon DEF Recap
      <3> HIDE DEF done, capped
      <3>2. \/ keys' = [keys EXCEPT ![k] = capped] /\ wk' = done /\ UNCHANGED faults
            \/ Fault("update") /\ keys' \in {keys, [keys EXCEPT ![k] = capped]} /\ wk' = Idle
        BY <3>1, Zenon DEF Update
      <3> QED
        BY <3>2 DEF Recap
    <2> QED
      BY <2>1, <2>2
  <1>2. /\ wk \in [pc : {"meter", "cap"}, copy : Account, credit : Int, info : Key]
        /\ keys \in [Keys -> Key] /\ row \in Account
    BY <1>1 DEF IInv, TypeOK, WorkerTyped
  <1>3. /\ k \in Keys /\ row.key = k /\ wk.copy.mark = row.mark /\ charged[k] <= row.mark
        /\ keys[k].state # "unused" /\ k # NoKey
    BY <1>1, <1>2 DEF IInv, WorkerKnows, CopyAgrees, MarkCovers, UnusedIsNew, Account
  <1>4. blocked \in BOOLEAN /\ cap \in Int
    BY <1>2, AffordableTyped DEF Key
  <1> HIDE DEF blocked, cap
  <1>5. /\ capped \in Key /\ capped.usage = keys[k].usage /\ capped.state = keys[k].state
        /\ new \in Account /\ new.key = k /\ new.mark = wk.copy.mark
    <2>1. wk.copy \in Account /\ keys[k] \in Key
      BY <1>2, <1>3
    <2>2. capped \in Key /\ capped.usage = keys[k].usage /\ capped.state = keys[k].state
      BY <2>1, <1>4 DEF Key
    <2>3. new \in Account /\ new.key = wk.copy.key /\ new.mark = wk.copy.mark
      BY <2>1, <1>4 DEF Account
    <2> QED
      BY <2>2, <2>3
  <1> HIDE DEF capped, new
  <1>6. /\ keys' \in [Keys -> Key]
        /\ \A j \in Keys : keys'[j].usage = keys[j].usage /\ keys'[j].state = keys[j].state
    BY <1>1, <1>2, <1>5
  <1>7. \A j \in Keys :
            keys'[j].usage >= charged[j] /\ keys'[j].state = keys[j].state
    BY <1>2, <1>6 DEF IInv, TypeOK, NeverOvercharged, Key
  <1>8. faults' = faults \/ \E kind \in Faults : Fault(kind)
    BY <1>1 DEF Faults
  <1>9. UNCHANGED <<charged, shown, row, status>>
    BY <1>1
  <1>10. CASE wk' = Idle
    <2>1. wk'.pc = "idle" /\ WorkerTyped' /\ CopyAgrees' /\ WorkerKnows' /\ ErasedIsOver'
      BY <1>1, <1>10, LetGo
    <2>2. TypeOK'
      BY <1>1, <1>6, <1>8, <2>1, WorkerTypes DEF IInv, TypeOK
    <2> QED
      BY <1>7, <1>9, <2>1, <2>2, RowKept
  <1>11. CASE wk' = done
    <2>1. /\ wk' \in [pc : {"block", "commit"}, copy : Account, credit : Int, new : Account]
          /\ wk'.copy = wk.copy /\ wk'.new = new /\ wk'.pc = "commit"
      BY <1>2, <1>5, <1>11
    <2>2. TypeOK'
      BY <1>1, <1>6, <1>8, <2>1, WorkerTypes DEF IInv, TypeOK
    <2>3. WorkerTyped'
      BY <1>1, <2>1 DEF IInv, WorkerTyped
    <2>4. CopyAgrees'
      BY <1>3, <1>9, <2>1 DEF CopyAgrees
    <2>5. WorkerKnows'
      BY <1>3, <1>5, <1>6, <1>9, <2>1 DEF WorkerKnows
    <2>6. ErasedIsOver'
      BY <1>1 DEF IInv, ErasedIsOver
    <2> QED
      BY <1>7, <1>9, <2>2, <2>3, <2>4, <2>5, <2>6, RowKept
  <1> QED
    BY <1>1, <1>10, <1>11

-----------------------------------------------------------------------------
\* The key goes first: until the supplier says so, the row names it.
LEMMA PurgeKeyInv == ASSUME IInv, PurgeKey PROVE IInv'
  <1> DEFINE k == row.key
             gone == [keys[k] EXCEPT !.state = "deleted"]
  <1>1. /\ wk = Idle /\ doomed
        /\ UNCHANGED <<status, doomed, row, balance, bucket, shown, charged, tick, api, requests>>
        /\ \/ k = NoKey /\ wk' = [pc |-> "purge"] /\ UNCHANGED <<keys, faults>>
           \/ /\ k # NoKey /\ keys' = [keys EXCEPT ![k] = gone]
              /\ wk' = [pc |-> "revoked", copy |-> row] /\ UNCHANGED faults
           \/ /\ k # NoKey /\ keys' \in {keys, [keys EXCEPT ![k] = gone]}
              /\ wk' = Idle /\ Fault("delete")
    BY DEF PurgeKey, Update
  <1>2. keys \in [Keys -> Key] /\ row \in Account
    BY DEF IInv, TypeOK
  <1>3. k # NoKey => k \in Keys /\ keys[k] \in Key /\ keys[k].state # "unused"
    BY <1>2 DEF IInv, UnusedIsNew, Account
  <1>4. k # NoKey => gone \in Key /\ gone.usage = keys[k].usage /\ gone.state = "deleted"
    BY <1>3 DEF Key
  <1> HIDE DEF gone
  <1>5. /\ keys' \in [Keys -> Key]
        /\ \A j \in Keys : keys'[j] = keys[j] \/ (k # NoKey /\ j = k /\ keys'[j] = gone)
    BY <1>1, <1>2, <1>3, <1>4
  <1>6. \A j \in Keys :
            /\ keys'[j].usage >= charged[j]
            /\ keys'[j].state = "unused" => keys[j].state = "unused"
            /\ j \in shown /\ keys'[j].state = "live" => keys[j].state = "live"
    BY <1>2, <1>4, <1>5 DEF IInv, TypeOK, NeverOvercharged, Key
  <1>7. faults' = faults \/ \E kind \in Faults : Fault(kind)
    BY <1>1 DEF Faults
  <1>8. UNCHANGED <<charged, shown, row, status>> /\ status # "erased"
    BY <1>1 DEF IInv, ErasedIsOver
  <1>9. ErasedIsOver'
    BY <1>8 DEF ErasedIsOver
  <1>10. /\ wk'.pc \in {"idle", "revoked", "purge"}
         /\ WorkerTyped' /\ CopyAgrees' /\ WorkerKnows'
    <2>1. CASE wk' = Idle
      BY <1>1, <2>1, LetGo
    <2>2. CASE k = NoKey /\ wk' = [pc |-> "purge"]
      BY <1>1, <2>2 DEF IInv, WorkerTyped, CopyAgrees, WorkerKnows
    <2>3. CASE k # NoKey /\ wk' = [pc |-> "revoked", copy |-> row] /\ keys' = [keys EXCEPT ![k] = gone]
      <3>1. keys'[k].state = "deleted"
        BY <1>2, <1>3, <1>4, <2>3
      <3>2. wk' \in [pc : {"revoked"}, copy : Account] /\ wk'.pc = "revoked" /\ wk'.copy = row
        BY <1>2, <2>3
      <3> QED
        BY <1>1, <2>3, <3>1, <3>2 DEF IInv, WorkerTyped, CopyAgrees, WorkerKnows
    <2> QED
      BY <1>1, <2>1, <2>2, <2>3
  <1>11. TypeOK'
    BY <1>1, <1>5, <1>7, <1>10, WorkerTypes DEF IInv, TypeOK
  <1> QED
    BY <1>6, <1>8, <1>9, <1>10, <1>11, RowKept

\* What the customer may hold works no more, whatever becomes of the row.
LEMMA RowCleared ==
    ASSUME IInv, row.key = NoKey \/ keys[row.key].state = "deleted",
           TypeOK', UNCHANGED <<keys, charged, shown>>, row'.key = NoKey,
           WorkerTyped', CopyAgrees', WorkerKnows', ErasedIsOver'
    PROVE  IInv'
  <1>1. \A k \in shown : keys[k].state # "live"
    BY SupplierKeyAssumption DEF IInv, TypeOK, NoKeyLeftBehind, NoKey
  <1>2. NoKeyLeftBehind'
    BY <1>1 DEF NoKeyLeftBehind
  <1>3. UnusedIsNew' /\ MarkCovers' /\ NeverOvercharged'
    BY SupplierKeyAssumption DEF IInv, UnusedIsNew, MarkCovers, NeverOvercharged, NoKey
  <1> QED
    BY <1>2, <1>3 DEF IInv

LEMMA RevokedInv == ASSUME IInv, Revoked PROVE IInv'
  <1> DEFINE cleared == [wk.copy EXCEPT !.key = NoKey, !.blocked = TRUE, !.dirty = FALSE]
  <1>1. /\ wk.pc = "revoked" /\ wk' = [pc |-> "purge"] /\ row' = Save(wk.copy, cleared)
        /\ UNCHANGED <<status, doomed, balance, bucket, keys, shown, charged, tick, api, requests, faults>>
    BY DEF Revoked
  <1>2. /\ wk \in [pc : {"revoked"}, copy : Account] /\ row \in Account
        /\ wk.copy.key = row.key /\ wk.copy.mark = row.mark /\ keys[row.key].state = "deleted"
    BY <1>1 DEF IInv, TypeOK, WorkerTyped, CopyAgrees, WorkerKnows
  <1>3. cleared \in Account /\ cleared.key = NoKey
    BY <1>2 DEF Account
  <1> HIDE DEF cleared
  <1>4. row' \in Account /\ row'.key = NoKey
    BY <1>1, <1>2, <1>3, SavedRow
  <1>5. wk'.pc = "purge"
    BY <1>1
  <1>6. TypeOK'
    BY <1>1, <1>4, <1>5, WorkerTypes DEF IInv, TypeOK
  <1>7. WorkerTyped' /\ CopyAgrees' /\ WorkerKnows'
    BY <1>1, <1>4, <1>5 DEF IInv, WorkerTyped, CopyAgrees, WorkerKnows
  <1>8. ErasedIsOver'
    BY <1>1 DEF IInv, ErasedIsOver
  <1> QED
    BY <1>1, <1>2, <1>4, <1>6, <1>7, <1>8, RowCleared

LEMMA PurgeInv == ASSUME IInv, Purge PROVE IInv'
  <1>1. /\ wk.pc = "purge" /\ wk' = Idle
        /\ UNCHANGED <<bucket, keys, shown, charged, tick, api, requests>>
        /\ \/ /\ status' = "erased" /\ doomed' = FALSE /\ row' = NewAccount /\ balance' = 0
              /\ UNCHANGED faults
           \/ Fault("destroy") /\ UNCHANGED <<status, doomed, row, balance>>
    BY DEF Purge
  <1>2. row.key = NoKey /\ wk'.pc = "idle"
    BY <1>1 DEF IInv, WorkerKnows, Idle
  <1>3. row' \in Account /\ row'.key = NoKey
    <2>1. NewAccount \in Account /\ NewAccount.key = NoKey
      BY NewAccountTyped DEF NewAccount
    <2>2. row \in Account
      BY DEF IInv, TypeOK
    <2> QED
      BY <1>1, <1>2, <2>1, <2>2
  <1>4. faults' \in 0 .. MaxFaults
    BY <1>1, SupplierKeyAssumption DEF IInv, TypeOK, Fault
  <1>5. balance' \in Int
    BY <1>1 DEF IInv, TypeOK
  <1>5a. doomed' \in BOOLEAN
    <2>1. doomed \in BOOLEAN
      BY DEF IInv, TypeOK
    <2>2. doomed' = FALSE \/ doomed' = doomed
      BY <1>1, Zenon
    <2> QED
      BY <2>1, <2>2, Zenon
  <1>6. TypeOK'
    BY <1>1, <1>2, <1>3, <1>4, <1>5, <1>5a DEF IInv, TypeOK
  <1>7. WorkerTyped' /\ CopyAgrees' /\ WorkerKnows'
    BY <1>1, <1>2 DEF IInv, WorkerTyped, CopyAgrees, WorkerKnows
  <1>8. ErasedIsOver'
    BY <1>1, <1>2 DEF IInv, ErasedIsOver
  <1> QED
    BY <1>1, <1>2, <1>3, <1>6, <1>7, <1>8, RowCleared

\* A death leaves the row as it was committed, and a key just minted nobody's.
LEMMA WorkerDiesInv == ASSUME IInv, WorkerDies PROVE IInv'
  <1>1. /\ wk' = Idle /\ tick' = 0 /\ Fault("worker")
        /\ UNCHANGED <<status, doomed, row, balance, bucket, keys, shown, charged, api, requests>>
    BY DEF WorkerDies
  <1>2. wk'.pc = "idle" /\ WorkerTyped' /\ CopyAgrees' /\ WorkerKnows' /\ ErasedIsOver'
    BY <1>1, LetGo
  <1>3. tick' \in 0 .. FullEvery - 1 /\ faults' \in 0 .. MaxFaults
    BY <1>1, SupplierKeyAssumption DEF IInv, TypeOK, Fault
  <1>4. TypeOK'
    BY <1>1, <1>2, <1>3 DEF IInv, TypeOK
  <1>5. \A j \in Keys :
            keys'[j].usage >= charged[j] /\ keys'[j].state = keys[j].state
    BY <1>1 DEF IInv, TypeOK, NeverOvercharged, Key
  <1>6. UNCHANGED <<charged, shown, row, status>>
    BY <1>1
  <1> QED
    BY <1>2, <1>4, <1>5, <1>6, RowKept

-----------------------------------------------------------------------------
LEMMA NextInv == ASSUME IInv, [Next]_vars PROVE IInv'
  <1>1. CASE UNCHANGED vars
    BY <1>1 DEF vars, IInv, TypeOK, WorkerTyped, CopyAgrees, WorkerKnows, ErasedIsOver, UnusedIsNew,
                MarkCovers, NeverOvercharged, NoKeyLeftBehind
  <1>2. CASE Admin \/ GrantLoads \/ GrantWakes \/ OtherCharge \/ NextBucket
    BY <1>2, AdministratorsInv, GrantWakesInv
  <1>3. CASE Work
    BY <1>3, BeginInv, MintInv, BlockMintedInv, ReadInv, MeterInv, RecapInv, CommitInv, PurgeKeyInv,
       RevokedInv, PurgeInv DEF Work
  <1>4. CASE WorkerDies \/ \E k \in Keys : Spend(k)
    BY <1>4, WorkerDiesInv, SpendInv
  <1> QED
    BY <1>1, <1>2, <1>3, <1>4 DEF Next

LEMMA Invariance == Spec => []IInv
  <1>1. Init => IInv
    BY InitInv
  <1>2. IInv /\ [Next]_vars => IInv'
    BY NextInv
  <1> QED
    BY <1>1, <1>2, PTL DEF Spec

\* Type correctness, for any number of keys, requests, faults and units of spend.
THEOREM Typing == Spec => []TypeOK
  <1>1. IInv => TypeOK
    BY DEF IInv
  <1> QED
    BY <1>1, Invariance, PTL

\* However many answers of the supplier are lost and wherever the worker dies, no unit of
\* spend is charged twice (meter: "correct across restarts").
THEOREM NoUnitTwice == Spec => []NeverOvercharged
  <1>1. IInv => NeverOvercharged
    BY DEF IInv
  <1> QED
    BY <1>1, Invariance, PTL

\* However many answers are lost, deletions retried and keys minted anew, a key that works
\* and that the customer may hold is the one in the account, and an erased account has
\* none (ensure_key, revoke_key, _purge_account).
THEOREM OneKeyWorks == Spec => []NoKeyLeftBehind
  <1>1. IInv => NoKeyLeftBehind
    BY DEF IInv
  <1> QED
    BY <1>1, Invariance, PTL
=============================================================================
