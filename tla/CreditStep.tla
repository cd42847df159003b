----------------------------- MODULE CreditStep -----------------------------
(***************************************************************************)
(* The credit_step message: one customer's balance, moved by postings; the *)
(* worker's comparison of its band with the last one seen                  *)
(* (credit_step_once); and settings edits in threads of the API            *)
(* (sms_preferences_put).  Both lock the users row.  An edit works on the  *)
(* object current_user loaded before the lock, which a later SELECT does   *)
(* not refresh, and commits only the attributes that differ from it.       *)
(***************************************************************************)
EXTENDS Integers

CONSTANTS Editors,     \* settings edits in flight
          Steps,       \* the values of n
          MaxBalance,  \* bound: the balance
          MaxMoves,    \* bound: postings
          MaxEdits,    \* bound: settings edits
          NoBand,      \* sms_credit_band before the first sight
          Nobody       \* the users row is not locked

ASSUME StepsAssumption == Steps \subseteq Nat \ {0}
ASSUME BalanceAssumption == {MaxBalance, MaxMoves, MaxEdits} \subseteq Nat
ASSUME NoBandAssumption == NoBand \notin Int
ASSUME HolderAssumption == Nobody # "worker" /\ {Nobody, "worker"} \cap Editors = {}

VARIABLES balance,   \* credit_accounts.balance_micro, committed
          customer,  \* users: sms_credit_step_toman and sms_credit_band, committed
          holder,    \* who has the users row locked
          edit,      \* the edits in flight
          look,      \* the worker's comparison
          moves, edits,
          baseline,  \* history: the balance at the last message or baseline
          text,      \* history: the last message queued
          overtaken, \* history: an edit was overtaken between its load and its lock
          restarted  \* history: the worker died

creditVars == <<balance, customer, holder, edit, look, moves, edits, baseline,
                text, overtaken, restarted>>

Bands == 0 .. MaxBalance
Customer == [step : Steps, band : Bands \cup {NoBand}]
NoText == [was |-> 0, is |-> 0, step |-> 0, up |-> FALSE]
Band(b, n) == b \div n

\* pc of an edit: loaded, locked, read (the balance is read, the band is known).
\* pc of the worker: locked, read, kept (the pass has moved on).
Edit == [pc : {"idle", "loaded", "locked", "read"}, copy : Customer, step : Steps,
         seen : Bands]
NoEdit == [pc |-> "idle", copy |-> CHOOSE c \in Customer : c.band = NoBand,
           step |-> CHOOSE n \in Steps : TRUE, seen |-> 0]
Look == [pc : {"idle", "locked", "read", "kept"}, seen : Bands]
NoLook == [pc |-> "idle", seen |-> 0]

CreditInit ==
    /\ balance \in 0 .. MaxBalance
    /\ customer \in [step : Steps, band : {NoBand}]
    /\ holder = Nobody
    /\ edit = [e \in Editors |-> NoEdit]
    /\ look = NoLook
    /\ moves = 0 /\ edits = 0
    /\ baseline = balance
    /\ text = NoText
    /\ overtaken = FALSE /\ restarted = FALSE

-----------------------------------------------------------------------------
\* A posting commits.
Move(b) ==
    /\ moves < MaxMoves /\ b # balance
    /\ balance' = b
    /\ moves' = moves + 1
    /\ UNCHANGED <<customer, holder, edit, look, edits, baseline, text, overtaken, restarted>>

\* current_user loads the row.
LoadUser(e, n) ==
    /\ edit[e].pc = "idle" /\ edits < MaxEdits
    /\ edit' = [edit EXCEPT ![e] = [pc |-> "loaded", copy |-> customer,
                                    step |-> n, seen |-> 0]]
    /\ edits' = edits + 1
    /\ UNCHANGED <<balance, customer, holder, look, moves, baseline, text, overtaken, restarted>>

\* SELECT ... FOR UPDATE, whose row leaves the loaded object as it was.
LockUser(e) ==
    /\ edit[e].pc = "loaded" /\ holder = Nobody
    /\ holder' = e
    /\ edit' = [edit EXCEPT ![e].pc = "locked"]
    /\ overtaken' = (overtaken \/ edit[e].copy # customer)
    /\ UNCHANGED <<balance, customer, look, moves, edits, baseline, text, restarted>>

ReadBalance(e) ==
    /\ edit[e].pc = "locked"
    /\ edit' = [edit EXCEPT ![e].pc = "read", ![e].seen = balance]
    /\ UNCHANGED <<balance, customer, holder, look, moves, edits, baseline, text,
                   overtaken, restarted>>

\* Mutant: the edit leaves the band to the worker.
BaselineKept(e) == [customer EXCEPT !.step = edit[e].step]
\* The attributes written: those that differ from the loaded copy.
Baseline(e) ==
    LET copy == edit[e].copy
        band == Band(edit[e].seen, edit[e].step) IN
    [step |-> IF edit[e].step # copy.step THEN edit[e].step ELSE customer.step,
     band |-> IF band # copy.band THEN band ELSE customer.band]

\* The commit of sms_preferences_put.
SaveStep(e) ==
    /\ edit[e].pc = "read"
    /\ customer' = Baseline(e)
    /\ baseline' = edit[e].seen
    /\ holder' = IF holder = e THEN Nobody ELSE holder
    /\ edit' = [edit EXCEPT ![e] = NoEdit]
    /\ UNCHANGED <<balance, look, moves, edits, text, overtaken, restarted>>

-----------------------------------------------------------------------------
\* credit_step_once locks the row and loads it with that.
LookAt ==
    /\ look.pc = "idle" /\ holder = Nobody
    /\ holder' = "worker"
    /\ look' = [pc |-> "locked", seen |-> 0]
    /\ UNCHANGED <<balance, customer, edit, moves, edits, baseline, text, overtaken, restarted>>

\* Mutant: band zero counts as no band.
CompareNoZero ==
    /\ look.pc = "locked"
    /\ look' = IF Band(balance, customer.step) = 0 THEN [NoLook EXCEPT !.pc = "kept"]
               ELSE [pc |-> "read", seen |-> balance]
    /\ UNCHANGED <<balance, customer, holder, edit, moves, edits, baseline, text,
                   overtaken, restarted>>

Compare ==
    /\ look.pc = "locked"
    /\ look' = [pc |-> "read", seen |-> balance]
    /\ UNCHANGED <<balance, customer, holder, edit, moves, edits, baseline, text,
                   overtaken, restarted>>

\* First sight: a silent baseline.
FirstSight ==
    /\ look.pc = "read" /\ customer.band = NoBand
    /\ customer' = [customer EXCEPT !.band = Band(look.seen, customer.step)]
    /\ baseline' = look.seen
    /\ holder' = Nobody
    /\ look' = NoLook
    /\ UNCHANGED <<balance, edit, moves, edits, text, overtaken, restarted>>

\* The band is the one last seen: the pass goes on to other customers, and keeps the
\* lock until one of them makes it commit.
SameBand ==
    /\ look.pc = "read" /\ customer.band = Band(look.seen, customer.step)
    /\ look' = [NoLook EXCEPT !.pc = "kept"]
    /\ UNCHANGED <<balance, customer, holder, edit, moves, edits, baseline, text,
                   overtaken, restarted>>

Release ==
    /\ look.pc = "kept"
    /\ holder' = Nobody
    /\ look' = NoLook
    /\ UNCHANGED <<balance, customer, edit, moves, edits, baseline, text, overtaken, restarted>>

\* Another band: the watermark moves and the message is queued, in one commit.
Announce ==
    LET band == Band(look.seen, customer.step) IN
    /\ look.pc = "read" /\ customer.band \notin {NoBand, band}
    /\ customer' = [customer EXCEPT !.band = band]
    /\ text' = [was |-> baseline, is |-> look.seen, step |-> customer.step,
                up |-> band > customer.band]
    /\ baseline' = look.seen
    /\ holder' = Nobody
    /\ look' = NoLook
    /\ UNCHANGED <<balance, edit, moves, edits, overtaken, restarted>>

\* The worker dies and the lock goes with its connection.
WorkerRestarts ==
    /\ look.pc # "idle" /\ ~restarted
    /\ restarted' = TRUE
    /\ holder' = Nobody
    /\ look' = NoLook
    /\ UNCHANGED <<balance, customer, edit, moves, edits, baseline, text, overtaken>>

Edits(e) == LockUser(e) \/ ReadBalance(e) \/ SaveStep(e)
Looks == LookAt \/ Compare \/ FirstSight \/ SameBand \/ Release \/ Announce

CreditNext ==
    \/ \E b \in 0 .. MaxBalance : Move(b)
    \/ \E e \in Editors : Edits(e) \/ \E n \in Steps : LoadUser(e, n)
    \/ Looks
    \/ WorkerRestarts

\* The comparison runs every tick; the handlers are threads that run.
CreditFairness ==
    /\ WF_creditVars(Looks)
    /\ \A e \in Editors : WF_creditVars(Edits(e))
CreditSpec == CreditInit /\ [][CreditNext]_creditVars /\ CreditFairness

-----------------------------------------------------------------------------
\* The variables have their types.
CreditTypeOK ==
    /\ balance \in 0 .. MaxBalance /\ baseline \in 0 .. MaxBalance
    /\ customer \in Customer
    /\ holder \in Editors \cup {"worker", Nobody}
    /\ edit \in [Editors -> Edit] /\ look \in Look
    /\ moves \in 0 .. MaxMoves /\ edits \in 0 .. MaxEdits
    /\ overtaken \in BOOLEAN /\ restarted \in BOOLEAN

\* The last message is about money that moved across a band, in the direction it
\* says.
TextIsMoney ==
    text # NoText =>
        /\ Band(text.was, text.step) # Band(text.is, text.step)
        /\ text.up = (text.is > text.was)

\* So it is unless an edit was overtaken between the load of its user and its lock.
TextIsMoneyUnlessOvertaken == overtaken \/ TextIsMoney

\* Once the balance rests, the band last announced is the balance's, whatever edits
\* and restarts came between.
CrossingsAreTold == <>[](customer.band \in {NoBand, Band(balance, customer.step)})
=============================================================================
