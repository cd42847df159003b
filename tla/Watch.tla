-------------------------------- MODULE Watch --------------------------------
(***************************************************************************)
(* Who tells the operator: the worker's loop with its heartbeat, its       *)
(* alerts, its backup and its outbox (worker.py main), the watchdog on a   *)
(* timer of its own (watchdog.py), and backup.py, which an administrator   *)
(* runs too.  One administrator stands for all, and is linked to the bot.  *)
(* Alerts are rows of the outbox, one per kind and period of its dedupe    *)
(* key.                                                                    *)
(***************************************************************************)
EXTENDS Naturals, FiniteSets

CONSTANTS
    STALL,           \* worker_stall_minutes, in ticks
    INTERVAL,        \* interval_minutes of the backup, in ticks
    MaxWatchFaults   \* bound: what fails (ticks, uploads, deliveries), and deaths

ASSUME WatchAssumption == {STALL, INTERVAL} \subseteq Nat \ {0} /\ MaxWatchFaults \in Nat

VARIABLES
    loop,       \* the worker: where in its tick, and the rows sms_once has read
    beat,       \* age of worker_heartbeat, up to beyond STALL, or Never
    dog,        \* a run of the watchdog, and the problems it has yet to report
    pool,       \* whether the ZFS pool is ONLINE
    outbox,     \* this period's row of each kind
    older,      \* kinds with a queued row of an earlier period
    upload,     \* runs of backup.run_once, by the worker and by an administrator
    saved,      \* what the settings say of the backup
    heard,      \* whether the death of the worker was heard of
    twice,      \* a row was delivered twice
    watchFaults

watchVars == <<loop, beat, dog, pool, outbox, older, upload, saved, heard, twice, watchFaults>>
alerts == <<outbox, older, heard, twice>>
backup == <<upload, saved>>

WatchKinds == {"stall", "pooldown", "backupfail"}
Ages == 0..INTERVAL  \* the last means: at least that
Never == STALL + 2
Older(a, top) == IF a < top THEN a + 1 ELSE a
Uploaders == {"worker", "admin"}
NoUpload == [at |-> "none", age |-> 0]

WatchTypeOK ==
    /\ loop \in [at : {"sleep", "first", "backup", "beat", "after", "sms", "dead"},
                 due : SUBSET (WatchKinds \X {"now", "before"})]
    /\ beat \in 0..Never
    /\ dog \in [at : {"idle", "alert", "deliver"}, todo : SUBSET {"stall", "pooldown"},
                kind : {"stall", "pooldown"}]
    /\ pool \in BOOLEAN
    /\ outbox \in [WatchKinds -> {"none", "queued", "sent"}] /\ older \subseteq WatchKinds
    /\ upload \in [Uploaders -> [at : {"none", "dump", "result", "failed"}, age : Ages]]
    /\ saved \in [enabled : BOOLEAN, ok : Ages, error : BOOLEAN]
    /\ heard \in BOOLEAN
    /\ twice \in BOOLEAN /\ watchFaults \in 0..MaxWatchFaults

WatchInit ==
    /\ loop = [at |-> "dead", due |-> {}] /\ beat = Never
    /\ dog = [at |-> "idle", todo |-> {}, kind |-> "stall"] /\ pool = TRUE
    /\ outbox = [k \in WatchKinds |-> "none"] /\ older = {}
    /\ upload = [w \in Uploaders |-> NoUpload]
    /\ saved = [enabled |-> FALSE, ok |-> INTERVAL, error |-> FALSE]
    /\ heard = FALSE /\ twice = FALSE /\ watchFaults = 0

WatchFails == watchFaults < MaxWatchFaults /\ watchFaults' = watchFaults + 1

\* text_admins, and the row of alert(): once per dedupe key.
Queues(k) == outbox' = [outbox EXCEPT ![k] = IF @ = "none" THEN "queued" ELSE @]

-----------------------------------------------------------------------------
(* Time *)

Minute ==
    /\ beat' = IF beat = Never THEN beat ELSE Older(beat, STALL + 1)
    /\ saved' = [saved EXCEPT !.ok = Older(@, INTERVAL)]
    /\ upload' = [w \in Uploaders |-> IF upload[w].at \in {"none", "failed"} THEN upload[w]
                                      ELSE [upload[w] EXCEPT !.age = Older(@, INTERVAL)]]
    /\ UNCHANGED <<loop, dog, pool, alerts, watchFaults>>

\* The hour of some dedupe keys, now and then the day of the others; between
\* two runs of the watchdog, which are minutes apart.
HourPasses ==
    /\ dog.at = "idle" /\ loop.at # "sms"
    /\ \E ended \in {{"stall", "pooldown"}, WatchKinds} :
         /\ \E k \in ended : outbox[k] # "none"
         /\ older' = older \cup {k \in ended : outbox[k] = "queued"}
         /\ outbox' = [k \in WatchKinds |-> IF k \in ended THEN "none" ELSE outbox[k]]
    /\ UNCHANGED <<loop, beat, dog, pool, backup, heard, twice, watchFaults>>

PoolChanges ==
    /\ pool \/ watchFaults < MaxWatchFaults
    /\ watchFaults' = IF pool THEN watchFaults ELSE watchFaults + 1
    /\ pool' = ~pool
    /\ UNCHANGED <<loop, beat, dog, alerts, backup>>

-----------------------------------------------------------------------------
(* Deliveries: sms.deliver asks nothing of the row it was given *)

Delivered(k, when) ==
    /\ IF when = "now" THEN outbox' = [outbox EXCEPT ![k] = "sent"] /\ UNCHANGED older
                       ELSE older' = older \ {k} /\ UNCHANGED outbox
    /\ heard' = (heard \/ k = "stall")
    /\ twice' = (twice \/ (when = "now" /\ outbox[k] = "sent"))

-----------------------------------------------------------------------------
(* The watchdog *)

\* Mutant: a worker with a heartbeat in the table is taken for alive.
CheckEver == TRUE

check == beat = Never \/ beat <= STALL

Watches ==
    /\ dog.at = "idle"
    /\ dog' = [dog EXCEPT !.at = "alert",
         !.todo = {k \in {"stall", "pooldown"} : IF k = "stall" THEN ~check ELSE ~pool}]
    /\ UNCHANGED <<loop, beat, pool, alerts, backup, watchFaults>>

alert(k) ==
    /\ dog.at = "alert" /\ k \in dog.todo /\ (k = "pooldown" => "stall" \notin dog.todo)
    /\ Queues(k)
    /\ dog' = [dog EXCEPT !.todo = @ \ {k}, !.kind = k,
                          !.at = IF outbox[k] = "none" THEN "deliver" ELSE "alert"]
    /\ UNCHANGED <<loop, beat, pool, older, heard, twice, backup, watchFaults>>

DogDelivers ==
    /\ dog.at = "deliver" /\ dog' = [dog EXCEPT !.at = "alert"]
    /\ \/ Delivered(dog.kind, "now") /\ UNCHANGED watchFaults
       \/ WatchFails /\ UNCHANGED alerts
    /\ UNCHANGED <<loop, beat, pool, backup>>

DogRests ==
    /\ dog.at = "alert" /\ dog.todo = {} /\ dog' = [dog EXCEPT !.at = "idle"]
    /\ UNCHANGED <<loop, beat, pool, alerts, backup, watchFaults>>

-----------------------------------------------------------------------------
(* The backup *)

Sets(setting, value) == saved' = [saved EXCEPT ![setting] = value]

\* Mutant: a run that failed is not owed again.
DueUnlessFailed == saved.enabled /\ ~saved.error /\ saved.ok = INTERVAL

\* Since the last success, not the last attempt.
due == saved.enabled /\ saved.ok = INTERVAL

run_once(w) == upload' = [upload EXCEPT ![w] = [at |-> "dump", age |-> 0]]

\* The dump is made and sent, or an error is noted at once.
Sends(w) ==
    /\ upload[w].at = "dump"
    /\ \/ /\ upload' = [upload EXCEPT ![w].at = "result"]
          /\ UNCHANGED <<saved, watchFaults>>
       \/ /\ WatchFails /\ Sets("error", TRUE)
          /\ upload' = [upload EXCEPT ![w] = [at |-> "failed", age |-> 0]]
    /\ UNCHANGED <<loop, beat, dog, pool, alerts>>

\* last_ok_at is when the run began.
NotesSuccess(w) ==
    /\ upload[w].at = "result"
    /\ saved' = [saved EXCEPT !.ok = upload[w].age, !.error = FALSE]
    /\ upload' = [upload EXCEPT ![w] = NoUpload]
    /\ UNCHANGED <<loop, beat, dog, pool, alerts, watchFaults>>

admin_backup_run ==
    /\ upload["admin"].at \in {"none", "failed"} /\ run_once("admin")
    /\ UNCHANGED <<loop, beat, dog, pool, alerts, saved, watchFaults>>

admin_backup_put ==
    /\ saved' = [saved EXCEPT !.enabled = ~@, !.error = FALSE]
    /\ UNCHANGED <<loop, beat, dog, pool, alerts, upload, watchFaults>>

-----------------------------------------------------------------------------
(* The worker's loop: main *)

LoopAt(at) == loop' = [loop EXCEPT !.at = at]

Wakes ==
    /\ loop.at = "sleep" /\ LoopAt("first")
    /\ UNCHANGED <<beat, dog, pool, alerts, backup, watchFaults>>

\* A pass that raises ends the tick: no heartbeat, no alerts.  After the
\* heartbeat it may be the same pass every time.
Raises ==
    /\ \/ loop.at = "first" /\ WatchFails
       \/ loop.at = "after" /\ UNCHANGED watchFaults
    /\ LoopAt("sleep")
    /\ UNCHANGED <<beat, dog, pool, alerts, backup>>

\* operations_once to auto_stop_once; then backup_once looks whether it is due.
FirstPasses ==
    /\ loop.at = "first"
    /\ IF due THEN LoopAt("backup") /\ run_once("worker") ELSE LoopAt("beat") /\ UNCHANGED upload
    /\ UNCHANGED <<beat, dog, pool, alerts, saved, watchFaults>>

BackupEnds ==
    /\ loop.at = "backup" /\ upload["worker"].at \in {"none", "failed"}
    /\ IF upload["worker"].at = "failed" THEN Queues("backupfail") ELSE UNCHANGED outbox
    /\ upload' = [upload EXCEPT !["worker"] = NoUpload]
    /\ LoopAt("beat")
    /\ UNCHANGED <<beat, dog, pool, older, heard, twice, saved, watchFaults>>

heartbeat_once ==
    /\ loop.at = "beat" /\ LoopAt("after")
    /\ beat' = 0
    /\ UNCHANGED <<dog, pool, alerts, backup, watchFaults>>

\* disk_once to credit_step_once; then sms_once reads what is due.
LaterPasses ==
    /\ loop.at = "after"
    /\ loop' = [at |-> "sms",
                due |-> {<<k, "now">> : k \in {x \in WatchKinds : outbox[x] = "queued"}}
                        \cup {<<k, "before">> : k \in older}]
    /\ UNCHANGED <<beat, dog, pool, alerts, backup, watchFaults>>

sms_once(row) ==
    /\ loop.at = "sms" /\ row \in loop.due
    /\ loop' = [loop EXCEPT !.due = @ \ {row}]
    /\ \/ Delivered(row[1], row[2]) /\ UNCHANGED watchFaults
       \/ WatchFails /\ UNCHANGED alerts
    /\ UNCHANGED <<beat, dog, pool, backup>>

TickEnds ==
    /\ loop.at = "sms" /\ loop.due = {} /\ LoopAt("sleep")
    /\ UNCHANGED <<beat, dog, pool, alerts, backup, watchFaults>>

LoopDies ==
    /\ loop.at # "dead" /\ WatchFails
    /\ loop' = [at |-> "dead", due |-> {}]
    /\ upload' = [upload EXCEPT !["worker"] = NoUpload]
    /\ heard' = FALSE
    /\ UNCHANGED <<beat, dog, pool, outbox, older, twice, saved>>

LoopStarts ==
    /\ loop.at = "dead" /\ loop' = [at |-> "sleep", due |-> {}]
    /\ UNCHANGED <<beat, dog, pool, alerts, backup, watchFaults>>

-----------------------------------------------------------------------------
Dog == Watches \/ DogDelivers \/ DogRests \/ \E k \in WatchKinds : alert(k)
Uploads(w) == Sends(w) \/ NotesSuccess(w)
Loops == \/ Wakes \/ FirstPasses \/ BackupEnds \/ heartbeat_once \/ LaterPasses \/ TickEnds
         \/ \E row \in loop.due : sms_once(row)

WatchNext ==
    \/ Minute \/ HourPasses \/ PoolChanges
    \/ Dog \/ Loops \/ Raises \/ LoopDies \/ LoopStarts
    \/ \E w \in Uploaders : Uploads(w)
    \/ admin_backup_run \/ admin_backup_put

WatchSpec == WatchInit /\ [][WatchNext]_watchVars

-----------------------------------------------------------------------------
\* A worker that has worked and stays dead is reported to the operator, though
\* a delivery of the watchdog failed and only the worker would try it again.
DeadWorkerIsHeard ==
    [](loop.at = "dead" /\ beat # Never => <>(heard \/ loop.at # "dead"))

\* An enabled backup that is owed is sent again and again, one that failed
\* included, while the worker lives - though its ticks raise now and then, the
\* administrator runs it too, and one backup may take longer than its interval.
BackupGoesOn ==
    []<>(saved.enabled /\ loop.at # "dead"
           => saved.ok < INTERVAL \/ upload["worker"].at = "result")

\* Promise: a heartbeat older than its threshold "means the loop that bills,
\* reconciles and sends everything has stopped" (watchdog.py:10): a worker that
\* works does not make the watchdog speak.
AlarmMeansStopped == [][dog.at = "deliver" /\ dog.kind = "stall" => loop.at = "dead"]_dog

\* Promise: the other way round; a tick that never gets past its later passes
\* sends nothing, and its heartbeat is fresh.
SilentLoopIsHeard == []<>(loop.at \in {"sms", "dead"} \/ heard)

\* Promise: one message per administrator and hour (watchdog.py:119).
AlertHeardOnce == ~twice
=============================================================================
