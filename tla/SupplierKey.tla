---------------------------- MODULE SupplierKey ----------------------------
(***************************************************************************)
(* One customer's OpenRouter key.  The worker mints it, caps it at what the *)
(* balance covers, disables it at zero credit, reads its cumulative usage   *)
(* and charges what is new, and deletes it with the account.  The API never *)
(* talks to the supplier: a grant sets limit_dirty and the worker finds it. *)
(*                                                                         *)
(* hermes_once, the machine's charges and the erasure of accounts run one   *)
(* after the other in the worker; the API's threads and the customer's      *)
(* spending interleave with every step.  The supplier may fail, or do what  *)
(* it was asked and lose the answer; worker and API may die.  Money is in   *)
(* units of spend: the price of a unit is linear and never discounted.      *)
(***************************************************************************)
EXTENDS Integers, FiniteSets, FiniteSetsExt

CONSTANTS Keys,         \* the supplier's keys, minted in order
          Grants,       \* amounts an administrator adds, negative ones included
          MinCap,       \* MIN_CAP_USD
          MaxCap,       \* MAX_CAP_USD
          FullEvery,    \* HERMES_EVERY: every so many ticks a pass meters
          MaxRequests,  \* bound: administrators' requests and other charges
          MaxSpend,     \* bound: what the customer ever spends
          MaxFaults,    \* bound: faults that ever happen
          Failures      \* which of Faults may happen

Faults == {"mint", "get", "update", "delete", "destroy", "worker", "api"}

ASSUME SupplierKeyAssumption ==
    /\ Keys \subseteq Nat \ {0} /\ Keys # {} /\ IsFiniteSet(Keys)
    /\ Grants \subseteq Int /\ MinCap \in Nat /\ MaxCap \in Nat /\ MinCap <= MaxCap
    /\ FullEvery \in Nat \ {0} /\ MaxRequests \in Nat /\ MaxSpend \in Nat
    /\ MaxFaults \in Nat /\ Failures \subseteq Faults

VARIABLES status,    \* the user's status, or "erased"
          doomed,    \* an account_delete operation is waiting
          row,       \* the openrouter_accounts row
          balance,   \* the credit account
          bucket,    \* a charge was made in the present five minutes
          keys,      \* the supplier's side
          shown,     \* keys whose secret was ever stored, so that the customer may hold it
          charged,   \* what was ever charged for each key
          granted,   \* the credit ever granted
          tick,      \* the worker's count, modulo FullEvery
          wk,        \* the account in the worker's hands
          api,       \* a grant on its way in the API
          requests, faults

vars == <<status, doomed, row, balance, bucket, keys, shown, charged, granted, tick, wk, api, requests, faults>>

NoKey == 0
Idle == [pc |-> "idle"]
Account == [key : {NoKey} \cup Keys, mark : Nat, blocked : BOOLEAN, dirty : BOOLEAN]
NewAccount == [key |-> NoKey, mark |-> 0, blocked |-> TRUE, dirty |-> TRUE]
Key == [state : {"unused", "live", "deleted"}, usage : Nat, limit : Int, disabled : BOOLEAN]

\* register leaves a user without a row; NewAccount stands for no row as well as for
\* the row that approval makes.
Init ==
    /\ status = "pending" /\ doomed = FALSE /\ row = NewAccount /\ balance = 0 /\ bucket = FALSE
    /\ keys = [k \in Keys |-> [state |-> "unused", usage |-> 0, limit |-> 0, disabled |-> FALSE]]
    /\ shown = {} /\ charged = [k \in Keys |-> 0] /\ granted = 0
    /\ tick = 0 /\ wk = Idle /\ api = Idle /\ requests = 0 /\ faults = 0

Fault(kind) == kind \in Failures /\ faults < MaxFaults /\ faults' = faults + 1
Ask == requests < MaxRequests /\ requests' = requests + 1

Affordable(credit) == Max({MinCap, Min({MaxCap, credit})})

\* The commit of a changed copy: attributes equal to the copy are not written.
Save(copy, new) == [f \in DOMAIN row |-> IF new[f] = copy[f] THEN row[f] ELSE new[f]]

\* A call to the supplier that changes key k: done, refused, or done and the
\* answer lost.  after is where the worker goes on when it has the answer.
Update(kind, k, new, after, otherwise) ==
    \/ keys' = [keys EXCEPT ![k] = new] /\ after /\ UNCHANGED faults
    \/ Fault(kind) /\ keys' \in {keys, [keys EXCEPT ![k] = new]} /\ otherwise

-----------------------------------------------------------------------------
(* Administrators and the customer.                                          *)

Approve ==
    /\ status \notin {"approved", "erased"} /\ Ask /\ status' = "approved"
    /\ UNCHANGED <<granted, doomed, row, balance, bucket, keys, shown, charged, tick, wk, api, faults>>

Reject ==
    /\ status # "erased" /\ Ask /\ status' = "rejected"
    /\ UNCHANGED <<granted, doomed, row, balance, bucket, keys, shown, charged, tick, wk, api, faults>>

Delete ==
    /\ status \notin {"deleting", "erased"} /\ Ask /\ status' = "deleting" /\ doomed' = TRUE
    /\ UNCHANGED <<granted, row, balance, bucket, keys, shown, charged, tick, wk, api, faults>>

\* POST /api/admin/users/{id}/credit: the grant is committed ...
Grant ==
    /\ status # "erased" /\ api = Idle /\ Ask
    /\ \E amount \in Grants : balance' = balance + amount /\ granted' = granted + Max({0, amount})
    /\ \/ api' = [pc |-> "load"] /\ UNCHANGED faults
       \/ Fault("api") /\ UNCHANGED api
    /\ UNCHANGED <<status, doomed, row, bucket, keys, shown, charged, tick, wk>>

\* ... the account loaded ...
GrantLoads ==
    /\ api.pc = "load" /\ api' = [pc |-> "wake", dirty |-> row.dirty]
    /\ UNCHANGED <<granted, status, doomed, row, balance, bucket, keys, shown, charged, tick, wk, requests, faults>>

\* ... and limit_dirty committed, unless the copy has it set already.
GrantWakes ==
    /\ api.pc = "wake" /\ api' = Idle
    /\ row' = [row EXCEPT !.dirty = IF status = "erased" THEN @ ELSE @ \/ ~api.dirty]
    /\ UNCHANGED <<granted, status, doomed, balance, bucket, keys, shown, charged, tick, wk, requests, faults>>

\* The customer uses a key.
Spend(k) ==
    /\ k \in shown /\ keys[k].state = "live" /\ ~keys[k].disabled /\ keys[k].usage < keys[k].limit
    /\ MapThenSumSet(LAMBDA j : keys[j].usage, Keys) < MaxSpend
    /\ keys' = [keys EXCEPT ![k].usage = @ + 1]
    /\ UNCHANGED <<granted, status, doomed, row, balance, bucket, shown, charged, tick, wk, api, requests, faults>>

-----------------------------------------------------------------------------
(* hermes_once.                                                              *)

\* The pass that meters takes every approved account; the fast one those that
\* have no key, were granted credit, or have crossed zero.
Due(full) == full \/ row.key = NoKey \/ row.dirty \/ row.blocked # (balance <= 0)

NextTick == tick' = (tick + 1) % FullEvery

\* Its other charges over, the worker begins a tick.
Begin ==
    /\ wk = Idle /\ NextTick
    /\ wk' = IF status = "approved" /\ Due(tick = 0)
             THEN [pc |-> "begin", full |-> tick = 0, copy |-> row, credit |-> balance] ELSE Idle
    /\ UNCHANGED <<granted, status, doomed, row, balance, bucket, keys, shown, charged, api, requests, faults>>

\* The balance the fast pass goes by is the one its filter has read.
Credit == IF wk.full THEN balance ELSE wk.credit

\* ensure_key.  A key whose answer is lost is nobody's.
Mint ==
    LET k == Min({j \in Keys : keys[j].state = "unused"})
        cap == Affordable(Credit)
        new == [wk.copy EXCEPT !.key = k, !.mark = 0, !.blocked = FALSE] IN
    /\ wk.pc = "begin" /\ wk.copy.key = NoKey /\ \E j \in Keys : keys[j].state = "unused"
    /\ Update("mint", k, [state |-> "live", usage |-> 0, limit |-> cap, disabled |-> FALSE],
              wk' = [pc |-> IF Credit <= 0 THEN "block" ELSE "commit", copy |-> wk.copy, credit |-> Credit,
                     new |-> [new EXCEPT !.blocked = Credit <= 0, !.dirty = FALSE]],
              wk' = Idle)
    /\ UNCHANGED <<granted, status, doomed, row, balance, bucket, shown, charged, tick, api, requests>>

\* A customer without credit gets a key that is disabled.  When the supplier
\* refuses, the key is committed all the same, with what ensure_key has set.
BlockMinted ==
    LET k == wk.new.key IN
    /\ wk.pc = "block"
    /\ Update("update", k, [keys[k] EXCEPT !.disabled = TRUE],
              wk' = [wk EXCEPT !.pc = "commit"] /\ UNCHANGED <<row, shown>>,
              /\ wk' = Idle /\ shown' = shown \cup {k}
              /\ row' = Save(wk.copy, [wk.copy EXCEPT !.key = k, !.mark = 0, !.blocked = FALSE]))
    /\ UNCHANGED <<granted, status, doomed, balance, bucket, charged, tick, api, requests>>

\* get_key: what the supplier says of the key.
Read ==
    LET k == wk.copy.key IN
    /\ wk.pc = "begin" /\ k # NoKey
    /\ \/ /\ keys[k].state = "live" /\ UNCHANGED faults
          /\ wk' = [pc |-> IF wk.full THEN "meter" ELSE "cap", copy |-> wk.copy, credit |-> Credit, info |-> keys[k]]
       \/ wk' = Idle /\ IF keys[k].state = "deleted" THEN UNCHANGED faults ELSE Fault("get")
    /\ UNCHANGED <<granted, status, doomed, row, balance, bucket, keys, shown, charged, tick, api, requests>>

\* Mutants: the mark is committed by the pass and not with the charge; a charge
\* the ledger has refused moves the mark.
MeterSplit ==
    LET delta == wk.info.usage - wk.copy.mark IN
    /\ wk.pc = "meter"
    /\ IF delta <= 0 \/ bucket THEN wk' = [wk EXCEPT !.pc = "cap"] /\ UNCHANGED <<row, balance, bucket, charged>>
       ELSE /\ charged' = [charged EXCEPT ![wk.copy.key] = @ + delta]
            /\ balance' = balance - delta /\ bucket' = TRUE /\ UNCHANGED row
            /\ wk' = [wk EXCEPT !.pc = "cap", !.credit = balance']
    /\ UNCHANGED <<granted, status, doomed, keys, shown, tick, api, requests, faults>>

MeterRefused ==
    LET delta == wk.info.usage - wk.copy.mark IN
    /\ wk.pc = "meter" /\ row' = [row EXCEPT !.mark = wk.info.usage]
    /\ wk' = [wk EXCEPT !.pc = "cap", !.copy.mark = wk.info.usage]
    /\ IF delta <= 0 \/ bucket THEN UNCHANGED <<balance, bucket, charged>>
       ELSE /\ charged' = [charged EXCEPT ![wk.copy.key] = @ + delta]
            /\ balance' = balance - delta /\ bucket' = TRUE
    /\ UNCHANGED <<granted, status, doomed, keys, shown, tick, api, requests, faults>>

\* meter: what was used above the mark is charged and the mark moved, in one
\* commit.  A second charge in five minutes is refused, and rolls back: what the
\* session has loaded is read again.
Meter ==
    LET delta == wk.info.usage - wk.copy.mark IN
    /\ wk.pc = "meter"
    /\ IF delta <= 0 THEN wk' = [wk EXCEPT !.pc = "cap"] /\ UNCHANGED <<row, balance, bucket, charged>>
       ELSE IF bucket
       THEN wk' = [wk EXCEPT !.pc = "cap", !.copy = row, !.credit = balance] /\ UNCHANGED <<row, balance, bucket, charged>>
       ELSE /\ charged' = [charged EXCEPT ![wk.copy.key] = @ + delta]
            /\ balance' = balance - delta /\ bucket' = TRUE
            /\ row' = [row EXCEPT !.mark = wk.info.usage]
            /\ wk' = [wk EXCEPT !.pc = "cap", !.copy.mark = wk.info.usage, !.credit = balance']
    /\ UNCHANGED <<granted, status, doomed, keys, shown, tick, api, requests, faults>>

\* Mutant: a key whose cap is right is not looked at again.
RecapOnce ==
    LET k == wk.copy.key
        blocked == wk.credit <= 0
        cap == wk.info.usage + Affordable(wk.credit)
        done == [pc |-> "commit", copy |-> wk.copy, credit |-> wk.credit,
                 new |-> [wk.copy EXCEPT !.blocked = blocked, !.dirty = FALSE]] IN
    /\ wk.pc = "cap"
    /\ IF wk.info.limit = cap THEN wk' = done /\ UNCHANGED <<keys, faults>>
       ELSE Update("update", k, [keys[k] EXCEPT !.limit = cap, !.disabled = blocked], wk' = done, wk' = Idle)
    /\ UNCHANGED <<granted, status, doomed, row, balance, bucket, shown, charged, tick, api, requests>>

\* The cap is what was used plus what the balance covers; at zero the key is
\* disabled in the same call.
Recap ==
    LET k == wk.copy.key
        blocked == wk.credit <= 0
        cap == wk.info.usage + Affordable(wk.credit)
        done == [pc |-> "commit", copy |-> wk.copy, credit |-> wk.credit,
                 new |-> [wk.copy EXCEPT !.blocked = blocked, !.dirty = FALSE]] IN
    /\ wk.pc = "cap"
    /\ IF wk.info.limit = cap /\ wk.info.disabled = blocked THEN wk' = done /\ UNCHANGED <<keys, faults>>
       ELSE Update("update", k, [keys[k] EXCEPT !.limit = cap, !.disabled = blocked], wk' = done, wk' = Idle)
    /\ UNCHANGED <<granted, status, doomed, row, balance, bucket, shown, charged, tick, api, requests>>

\* The end of _openrouter_account.
Commit ==
    /\ wk.pc = "commit" /\ row' = Save(wk.copy, wk.new) /\ shown' = shown \cup {wk.new.key} /\ wk' = Idle
    /\ UNCHANGED <<granted, status, doomed, balance, bucket, keys, charged, tick, api, requests, faults>>

-----------------------------------------------------------------------------
(* The rest of the worker.                                                   *)

\* Machine time and other AI charges.
OtherCharge ==
    /\ wk = Idle /\ status = "approved" /\ Ask /\ balance' = balance - 1
    /\ UNCHANGED <<granted, status, doomed, row, bucket, keys, shown, charged, tick, wk, api, faults>>

\* Mutant: a deletion the supplier refused counts as done.
PurgeKeyAnyway ==
    /\ wk = Idle /\ doomed
    /\ IF row.key = NoKey THEN wk' = [pc |-> "purge"] /\ UNCHANGED <<keys, faults>>
       ELSE Update("delete", row.key, [keys[row.key] EXCEPT !.state = "deleted"],
                   wk' = [pc |-> "revoked", copy |-> row], wk' = [pc |-> "revoked", copy |-> row])
    /\ UNCHANGED <<granted, status, doomed, row, balance, bucket, shown, charged, tick, api, requests>>

\* _purge_account: the key goes first, and unless it is gone nothing else goes.
PurgeKey ==
    /\ wk = Idle /\ doomed
    /\ IF row.key = NoKey THEN wk' = [pc |-> "purge"] /\ UNCHANGED <<keys, faults>>
       ELSE Update("delete", row.key, [keys[row.key] EXCEPT !.state = "deleted"],
                   wk' = [pc |-> "revoked", copy |-> row], wk' = Idle)
    /\ UNCHANGED <<granted, status, doomed, row, balance, bucket, shown, charged, tick, api, requests>>

\* revoke_key clears the row.
Revoked ==
    /\ wk.pc = "revoked" /\ wk' = [pc |-> "purge"]
    /\ row' = Save(wk.copy, [wk.copy EXCEPT !.key = NoKey, !.blocked = TRUE, !.dirty = FALSE])
    /\ UNCHANGED <<granted, status, doomed, balance, bucket, keys, shown, charged, tick, api, requests, faults>>

\* The machine is destroyed and the account erased, or the operation is tried again.
Purge ==
    /\ wk.pc = "purge" /\ wk' = Idle
    /\ \/ status' = "erased" /\ doomed' = FALSE /\ row' = NewAccount /\ balance' = 0 /\ UNCHANGED faults
       \/ Fault("destroy") /\ UNCHANGED <<status, doomed, row, balance>>
    /\ UNCHANGED <<granted, bucket, keys, shown, charged, tick, api, requests>>

\* systemd starts the worker again, and with it the count of its ticks.
WorkerDies ==
    /\ wk # Idle /\ Fault("worker") /\ wk' = Idle /\ tick' = 0
    /\ UNCHANGED <<granted, status, doomed, row, balance, bucket, keys, shown, charged, api, requests>>

NextBucket ==
    /\ bucket /\ bucket' = FALSE
    /\ UNCHANGED <<granted, status, doomed, row, balance, keys, shown, charged, tick, wk, api, requests, faults>>

Work == Begin \/ Mint \/ BlockMinted \/ Read \/ Meter \/ Recap \/ Commit \/ PurgeKey \/ Revoked \/ Purge
Admin == Approve \/ Reject \/ Delete \/ Grant

Next ==
    \/ Admin \/ GrantLoads \/ GrantWakes \/ Work \/ OtherCharge \/ WorkerDies \/ NextBucket
    \/ \E k \in Keys : Spend(k)

Spec == Init /\ [][Next]_vars

\* The worker's loop goes on, an accepted grant is carried out, time passes.
Fairness == WF_vars(Work) /\ WF_vars(GrantLoads \/ GrantWakes) /\ WF_vars(NextBucket)
FairSpec == Spec /\ Fairness

-----------------------------------------------------------------------------
TypeOK ==
    /\ status \in {"pending", "approved", "rejected", "deleting", "erased"} /\ doomed \in BOOLEAN
    /\ row \in Account /\ balance \in Int /\ bucket \in BOOLEAN /\ keys \in [Keys -> Key]
    /\ shown \subseteq Keys /\ charged \in [Keys -> Nat] /\ tick \in 0 .. FullEvery - 1
    /\ wk.pc \in {"idle", "begin", "block", "meter", "cap", "commit", "revoked", "purge"}
    /\ api.pc \in {"idle", "load", "wake"}
    /\ requests \in 0 .. MaxRequests /\ faults \in 0 .. MaxFaults

Used == MapThenSumSet(LAMBDA k : keys[k].usage, Keys)

\* Whatever answers are lost and whenever the worker dies, no unit of spend is
\* charged twice (meter: "correct across restarts").
NeverOvercharged == \A k \in Keys : charged[k] <= keys[k].usage

\* A key whose secret the customer may hold and that still works is the one in
\* the account: none is left behind by a lost answer, a retry or an erasure
\* (_purge_account: "no spend-capable credential is left behind").
NoKeyLeftBehind == \A k \in shown : keys[k].state = "live" => status # "erased" /\ row.key = k

\* "unusable until funds arrive" (worker.py).
UnusableUntilFunded == granted = 0 => \A k \in shown : keys[k].state = "live" => keys[k].disabled

\* The cap is "what the customer can actually afford" (DECISIONS.md): nobody
\* spends more than was ever granted, but for the least cap.
SpendWithinMeans == Used <= granted + MinCap

\* In the end, while the account stays approved, the key is disabled just when
\* there is no credit, and capped at what is affordable: a wake-up that was lost,
\* a refused call or a death is made good (hermes_once: "Reconciliation").
KeyFollowsBalance ==
    <>[](status = "approved" /\ ~doomed =>
            /\ row.key # NoKey /\ keys[row.key].disabled = (balance <= 0)
            /\ keys[row.key].limit = keys[row.key].usage + Affordable(balance))

\* ... and all that was spent is charged, in a later bucket if one is taken.
SpendIsCharged == <>[](status = "approved" /\ ~doomed => row.key # NoKey /\ charged[row.key] = keys[row.key].usage)
=============================================================================
