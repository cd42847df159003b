------------------------------ MODULE Services ------------------------------
(***************************************************************************)
(* The AI services a customer switches on in a machine: Hermes, OpenClaw,  *)
(* OpenCode and Open WebUI.  A handler of app.py records what is asked;    *)
(* the passes of worker.py (hermes_once, openclaw_once, managed_web_once)  *)
(* install and remove, calling the provisioner for minutes with the copy   *)
(* of the row they began with; a factory reset clears everything.  The     *)
(* session writes only the columns a transaction changed in its copy.      *)
(***************************************************************************)
EXTENDS Naturals, FiniteSets

CONSTANTS
    Kinds,            \* services offered, of "hermes", "openclaw", "opencode", "openwebui"
    Desks,            \* API requests that may be under way at once
    MaxAsks,          \* bound: requests
    MaxPowerChanges,  \* bound: power-ons, power-offs, resizes and resets
    MaxCallFaults     \* bound: calls that fail, lose their answer, or worker deaths

ASSUME ServicesAssumption ==
    /\ Kinds \subseteq {"hermes", "openclaw", "opencode", "openwebui"}
    /\ MaxAsks \in Nat /\ MaxPowerChanges \in Nat /\ MaxCallFaults \in Nat

VARIABLES
    service,    \* the columns of workspaces that belong to each service
    disk,       \* what the machine holds and runs
    machine,    \* power and memory; and whether the OpenRouter key has come
    desk,       \* API requests
    worker,     \* the pass of the worker
    asked,      \* what the customer, or a reset, last put in the switch
    spent       \* counters of the bounds; whether a row was left wrong

serviceVars == <<service, disk, machine, desk, worker, asked, spent>>

Web == Kinds \cap {"opencode", "openwebui"}
Bots == Kinds \cap {"hermes", "openclaw"}
Secrets == 1..3
None == 0  \* no secret; and the process that does not run

ServiceRow == [enabled : BOOLEAN, installed : BOOLEAN, secret : Secrets \cup {None},
               error : BOOLEAN, tg : BOOLEAN, tgUp : BOOLEAN]
\* Credentials and configuration (with the password in them), the enabled
\* unit, and the password the running process was started with.
Disk == [secret : Secrets \cup {None}, tg : BOOLEAN, unit : BOOLEAN,
         runs : Secrets \cup {None}]

NoRow == [enabled |-> FALSE, installed |-> FALSE, secret |-> None,
          error |-> FALSE, tg |-> FALSE, tgUp |-> FALSE]
NoDisk == [secret |-> None, tg |-> FALSE, unit |-> FALSE, runs |-> None]
Away == [at |-> "idle", kind |-> CHOOSE k \in Kinds : TRUE, what |-> "", copy |-> NoRow]

ServicesTypeOK ==
    /\ service \in [Kinds -> ServiceRow] /\ disk \in [Kinds -> Disk]
    /\ machine \in [power : {"on", "off", "reset"}, roomy : BOOLEAN, key : BOOLEAN]
    /\ desk \in [Desks -> [at : {"idle", "loaded"}, kind : Kinds,
                           what : {"", "on", "off", "tgOn", "tgOff"}, copy : ServiceRow]]
    /\ worker \in [at : {"idle", "turn", "program", "secrets", "start", "remove",
                         "ok", "failed", "rebuild"}, kind : Kinds,
                   what : {"", "install", "disable", "lowmem"}, copy : ServiceRow]
    /\ asked \in [Kinds -> BOOLEAN]
    /\ spent \in [asks : 0..MaxAsks, power : 0..MaxPowerChanges,
                  faults : 0..(MaxCallFaults + MaxPowerChanges), misled : BOOLEAN]

ServicesInit ==
    /\ service = [k \in Kinds |-> NoRow] /\ disk = [k \in Kinds |-> NoDisk]
    /\ machine \in [power : {"on", "off"}, roomy : BOOLEAN, key : {FALSE}]
    /\ desk = [d \in Desks |-> Away] /\ worker = Away
    /\ asked = [k \in Kinds |-> FALSE]
    /\ spent = [asks |-> 0, power |-> 0, faults |-> 0, misled |-> FALSE]

On == machine.power = "on"

\* The row after a commit of new by a session that had loaded copy.
Commit(copy, new, k) ==
    [f \in DOMAIN new |-> IF new[f] # copy[f] THEN new[f] ELSE service[k][f]]

-----------------------------------------------------------------------------
(* The handlers: ai_hermes, ai_openclaw, ai_openclaw_telegram, ai_managed_web *)

Switched(k, what, copy) ==
    LET noError == [copy EXCEPT !.error = FALSE] IN
    CASE what = "on"   -> [noError EXCEPT !.enabled = TRUE]
      [] what = "off" /\ k = "hermes" -> [noError EXCEPT !.enabled = FALSE, !.tg = FALSE]
      [] what = "off"  -> [noError EXCEPT !.enabled = FALSE, !.secret = None]
      [] what \in {"tgOn", "tgOff"} ->
           [noError EXCEPT !.enabled = @ \/ k = "hermes", !.tg = (what = "tgOn")]

Ask(d, k, what) ==
    /\ desk[d].at = "idle" /\ spent.asks < MaxAsks
    /\ desk' = [desk EXCEPT ![d] =
         [at |-> "loaded", kind |-> k, what |-> what, copy |-> service[k]]]
    /\ spent' = [spent EXCEPT !.asks = @ + 1]
    /\ UNCHANGED <<service, disk, machine, worker, asked>>

\* One bot token cannot be polled by two agents.
BotIsFree(k) == \A other \in Bots \ {k} : ~service[other].tg

ai_hermes(d, what) ==
    /\ "hermes" \in Kinds /\ (what = "tgOn" => BotIsFree("hermes"))
    /\ Ask(d, "hermes", what)

ai_openclaw(d, what) ==
    /\ "openclaw" \in Kinds /\ what \in {"on", "off"} /\ (what = "on" => machine.key)
    /\ Ask(d, "openclaw", what)

ai_openclaw_telegram(d, what) ==
    /\ "openclaw" \in Kinds /\ what \in {"tgOn", "tgOff"}
    /\ what = "tgOn" => service["openclaw"].installed /\ BotIsFree("openclaw")
    /\ Ask(d, "openclaw", what)

ai_managed_web(d, k, what) ==
    /\ k \in Web /\ On /\ what \in {"on", "off"} /\ (what = "on" => machine.key)
    /\ Ask(d, k, what)

Record(d) ==
    /\ desk[d].at = "loaded"
    /\ LET k == desk[d].kind  copy == desk[d].copy IN
       /\ service' = [service EXCEPT ![k] = Commit(copy, Switched(k, desk[d].what, copy), k)]
       /\ asked' = [asked EXCEPT ![k] = service'[k].enabled]
    /\ desk' = [desk EXCEPT ![d] = Away]
    /\ UNCHANGED <<disk, machine, worker, spent>>

-----------------------------------------------------------------------------
(* The passes of the worker *)

\* Mutant: an installed gateway is taken for done whatever its password.
ConvergedByFlag(copy) == copy.installed /\ ~copy.error /\ copy.tgUp = copy.tg

\* Nothing is left to do for this gateway.
Converged(copy) ==
    copy.installed /\ copy.secret # None /\ ~copy.error /\ copy.tgUp = copy.tg

\* Hermes is reconciled on every pass, and forgotten on a stopped machine too.
hermes_due(copy) ==
    CASE copy.enabled   -> IF On /\ machine.key THEN "install" ELSE "nothing"
      [] copy.installed -> "disable"
      [] OTHER          -> "nothing"

openclaw_due(copy) ==
    CASE ~On \/ ~(copy.enabled \/ copy.installed) -> "nothing"
      [] ~copy.enabled                            -> "disable"
      [] Converged(copy) \/ ~machine.key          -> "nothing"
      [] OTHER                                    -> "install"

web_due(k, copy) ==
    CASE ~On \/ ~(copy.enabled \/ copy.installed)           -> "nothing"
      [] ~copy.enabled                                      -> "disable"
      [] k = "openwebui" /\ ~machine.roomy                  -> "lowmem"
      [] (copy.installed /\ ~copy.error) \/ ~machine.key    -> "nothing"
      [] OTHER                                              -> "install"

\* What the pass does with a row it has loaded.
Due(k, copy) ==
    CASE k = "hermes"   -> hermes_due(copy)
      [] k = "openclaw" -> openclaw_due(copy)
      [] OTHER          -> web_due(k, copy)

Pass(k) ==
    /\ worker.at = "idle" /\ machine.power # "reset"
    /\ Due(k, service[k]) # "nothing"
    /\ worker' = [at |-> "turn", kind |-> k, what |-> Due(k, service[k]), copy |-> service[k]]
    /\ UNCHANGED <<service, disk, machine, desk, asked, spent>>

\* A secret nobody else holds.
Fresh(k) == CHOOSE s \in Secrets : s \notin {service[k].secret, disk[k].secret}

\* _hermes_install of a switched-off row forgets without a call when the copy
\* says the machine is off; here the copy said so if the machine was off.
Turn ==
    /\ worker.at = "turn"
    /\ LET k == worker.kind  copy == worker.copy
           secret == IF copy.secret = None THEN Fresh(k) ELSE copy.secret
           new == [copy EXCEPT !.secret = secret] IN
       CASE worker.what = "install" ->
              /\ service' = [service EXCEPT ![k] = Commit(copy, new, k)]
              /\ worker' = [worker EXCEPT !.at = "program", !.copy = new]
         [] worker.what = "disable" /\ k = "hermes" /\ ~On ->
              worker' = [worker EXCEPT !.at = "ok"] /\ UNCHANGED service
         [] worker.what = "lowmem" /\ ~copy.installed ->
              worker' = [worker EXCEPT !.at = "failed"] /\ UNCHANGED service
         [] OTHER ->
              worker' = [worker EXCEPT !.at = "remove"] /\ UNCHANGED service
    /\ UNCHANGED <<disk, machine, desk, asked, spent>>

CallFaultKnown(known) ==
    /\ spent.faults < MaxCallFaults
    /\ spent' = [spent EXCEPT !.faults = @ + 1, !.misled = @ \/ ~known]
CallFault == CallFaultKnown(TRUE)
Cut == ~On /\ spent' = [spent EXCEPT !.faults = @ + 1]  \* nothing runs in a stopped machine
CallAnswers(at) == worker' = [worker EXCEPT !.at = at]

\* _verb_ai_openclaw, _verb_ai_managed_web and service_hermes: the program,
\* then credentials and configuration, then the unit.  A running web service
\* is not restarted by "enable --now"; the gateways reload or are restarted.
Program ==
    /\ worker.at = "program"
    /\ \/ On /\ CallAnswers("secrets") /\ UNCHANGED spent
       \/ (CallFault \/ Cut) /\ CallAnswers("failed")
    /\ UNCHANGED <<service, disk, machine, desk, asked>>

\* A running OpenClaw gateway reloads its configuration; a web service is
\* given the key, and its password only with the unit.
Configured(k, copy) ==
    IF k \in Web THEN disk[k]
    ELSE [disk[k] EXCEPT !.secret = copy.secret, !.tg = copy.tg,
             !.runs = IF @ # None /\ k = "openclaw" THEN copy.secret ELSE @]

WriteSecrets ==
    /\ worker.at = "secrets"
    /\ LET k == worker.kind IN
       \/ /\ On /\ CallAnswers("start") /\ UNCHANGED spent
          /\ disk' = [disk EXCEPT ![k] = Configured(k, worker.copy)]
       \/ (CallFault \/ Cut) /\ CallAnswers("failed") /\ UNCHANGED disk
    /\ UNCHANGED <<service, machine, desk, asked>>

\* The units of the service are written, enabled and started.
service_hermes == [disk["hermes"] EXCEPT !.unit = TRUE, !.runs = disk["hermes"].secret]
_verb_ai_openclaw == [disk["openclaw"] EXCEPT !.unit = TRUE, !.runs = disk["openclaw"].secret]
_verb_ai_managed_web(k) ==
    [disk[k] EXCEPT !.unit = TRUE, !.secret = worker.copy.secret,
                    !.runs = IF @ # None THEN @ ELSE worker.copy.secret]

Started(k) ==
    [disk EXCEPT ![k] = CASE k = "hermes"   -> service_hermes
                          [] k = "openclaw" -> _verb_ai_openclaw
                          [] OTHER          -> _verb_ai_managed_web(k)]

StartUnit ==
    /\ worker.at = "start"
    /\ \/ On /\ disk' = Started(worker.kind) /\ CallAnswers("ok") /\ UNCHANGED spent
       \/ On /\ disk' = Started(worker.kind) /\ CallFault /\ CallAnswers("failed")  \* not in time
       \/ (CallFault \/ Cut) /\ CallAnswers("failed") /\ UNCHANGED disk
    /\ UNCHANGED <<service, machine, desk, asked>>

RemoveService ==
    /\ worker.at = "remove"
    /\ LET gone == [disk EXCEPT ![worker.kind] = NoDisk] IN
       \/ On /\ disk' = gone /\ CallAnswers("ok") /\ UNCHANGED spent
       \/ On /\ disk' = gone /\ CallFaultKnown(FALSE) /\ CallAnswers("failed")
       \/ (CallFault \/ Cut) /\ CallAnswers("failed") /\ UNCHANGED disk
    /\ UNCHANGED <<service, machine, desk, asked>>

\* What the pass makes of the answer.
Outcome(k, what, copy, ok) ==
    CASE what = "install" /\ ok ->
           [copy EXCEPT !.installed = TRUE, !.error = FALSE, !.tgUp = copy.tg]
      [] what = "install" /\ k = "hermes" -> [copy EXCEPT !.error = TRUE]
      [] what = "install" -> [copy EXCEPT !.installed = FALSE, !.error = TRUE]
      [] what = "lowmem"  -> [copy EXCEPT !.installed = FALSE, !.error = TRUE]
      [] what = "disable" /\ ok /\ k = "hermes" ->
           [copy EXCEPT !.installed = FALSE, !.error = FALSE, !.tgUp = FALSE]
      [] what = "disable" /\ ok ->
           [copy EXCEPT !.installed = FALSE, !.secret = None, !.error = FALSE, !.tgUp = FALSE]
      [] what = "disable" /\ ~ok -> [copy EXCEPT !.error = @ \/ k = "hermes"]

WriteResult ==
    /\ worker.at \in {"ok", "failed"}
    /\ LET k == worker.kind
           new == Outcome(k, worker.what, worker.copy, worker.at = "ok") IN
       service' = [service EXCEPT ![k] = Commit(worker.copy, new, k)]
    /\ worker' = Away
    /\ UNCHANGED <<disk, machine, desk, asked, spent>>

\* The worker dies; the call it waited for ends before another begins.
WorkerDies ==
    /\ worker.at # "idle" /\ worker' = Away
    /\ CallFaultKnown(~worker.copy.installed \/ worker.at = "turn")
    /\ \/ UNCHANGED disk
       \/ On /\ worker.at = "start" /\ disk' = Started(worker.kind)
       \/ On /\ worker.at = "remove" /\ disk' = [disk EXCEPT ![worker.kind] = NoDisk]
    /\ UNCHANGED <<service, machine, desk, asked>>

\* _factory_reset: intent is cleared first, then the disk is rebuilt.
ResetClears ==
    /\ worker.at = "idle" /\ machine.power = "reset"
    /\ service' = [k \in Kinds |-> IF k = "hermes" THEN [service[k] EXCEPT !.enabled = FALSE]
                 ELSE [service[k] EXCEPT !.enabled = FALSE, !.installed = FALSE,
                                     !.secret = None, !.error = FALSE]]
    /\ asked' = [k \in Kinds |-> FALSE]
    /\ worker' = [Away EXCEPT !.at = "rebuild",
                   !.copy = IF "hermes" \in Kinds THEN service'["hermes"] ELSE NoRow]
    /\ UNCHANGED <<disk, machine, desk, spent>>

ResetRebuilds ==
    /\ worker.at = "rebuild"
    /\ disk' = [k \in Kinds |-> NoDisk] /\ machine' = [machine EXCEPT !.power = "off"]
    /\ service' = IF "hermes" \notin Kinds THEN service
              ELSE [service EXCEPT !["hermes"] = Commit(worker.copy,
                     [NoRow EXCEPT !.enabled = worker.copy.enabled], "hermes")]
    /\ worker' = Away
    /\ UNCHANGED <<desk, asked, spent>>

-----------------------------------------------------------------------------
(* The machine *)

ChangesMachine(field, value) ==
    /\ spent.power < MaxPowerChanges /\ spent' = [spent EXCEPT !.power = @ + 1]
    /\ machine' = [machine EXCEPT ![field] = value]
    /\ UNCHANGED <<service, desk, worker, asked>>

Boots(k) == IF disk[k].unit THEN disk[k].secret ELSE None

PowerOn ==
    /\ machine.power = "off" /\ ChangesMachine("power", "on")
    /\ disk' = [k \in Kinds |-> [disk[k] EXCEPT !.runs = Boots(k)]]

PowerOff ==
    /\ On /\ ChangesMachine("power", "off")
    /\ disk' = [k \in Kinds |-> [disk[k] EXCEPT !.runs = None]]

Resize ==
    /\ machine.power = "off" /\ ChangesMachine("roomy", ~machine.roomy)
    /\ UNCHANGED disk

workspace_reset ==
    /\ machine.power # "reset" /\ ChangesMachine("power", "reset")
    /\ disk' = [k \in Kinds |-> [disk[k] EXCEPT !.runs = None]]

KeyArrives ==
    /\ ~machine.key /\ machine' = [machine EXCEPT !.key = TRUE]
    /\ UNCHANGED <<service, disk, desk, worker, asked, spent>>

-----------------------------------------------------------------------------
Reconciles == \/ Turn \/ Program \/ WriteSecrets \/ StartUnit \/ RemoveService
              \/ WriteResult \/ ResetClears \/ ResetRebuilds

ServicesNext ==
    \/ \E d \in Desks : Record(d) \/ \E what \in {"on", "off", "tgOn", "tgOff"} :
         \/ ai_hermes(d, what) \/ ai_openclaw(d, what) \/ ai_openclaw_telegram(d, what)
         \/ \E k \in Kinds : ai_managed_web(d, k, what)
    \/ \E k \in Kinds : Pass(k)
    \/ Reconciles
    \/ WorkerDies
    \/ PowerOn \/ PowerOff \/ Resize \/ workspace_reset \/ KeyArrives

ServicesSpec == ServicesInit /\ [][ServicesNext]_serviceVars

-----------------------------------------------------------------------------
Wanted(k) == asked[k] /\ On /\ machine.key /\ (k = "openwebui" => machine.roomy)

Settled(k) ==
    /\ service[k].enabled /\ service[k].installed /\ disk[k].runs # None
    /\ k \in Bots => disk[k].runs = service[k].secret /\ disk[k].tg = service[k].tg

\* Whatever the customer switched while a pass was under way with its old
\* copy, whatever failed or died: in the end a service that is wanted runs,
\* its row says so, and a gateway lets the password of the row in and has the
\* bot that was asked for - unless the worker died in the middle of work on an
\* installed service, or a removal took place and was reported as failed.
SettlesAsAsked ==
    <>[](\A k \in Kinds : Wanted(k) /\ ~spent.misled => Settled(k))

\* Promise: the same with nothing excepted ("a failed install heals itself",
\* worker.py:679).
SettlesWhateverHappens == <>[](\A k \in Kinds : Wanted(k) => Settled(k))

\* A service switched off is stopped and its credentials are gone in the end,
\* if no call failed meanwhile; Hermes, if the machine was never off.
LeavesAsAsked ==
    <>[](\A k \in Kinds : ~asked[k] /\ On /\ spent.faults = 0
            /\ (k = "hermes" => spent.power = 0)
         => disk[k] = NoDisk)

\* Promise: "The credential goes with it" when a service is switched off
\* (provisioner.py:1099), a failed call or not.
SwitchedOffIsGone == <>[](\A k \in Kinds : ~asked[k] /\ On => disk[k] = NoDisk)

\* Promise: a row that has installed without a password "is not finished"
\* (worker.py:702, of OpenClaw); of the web services nothing finishes it.
WebShowsItsPassword ==
    <>[](\A k \in Web : Wanted(k) => service[k].secret = disk[k].runs)

\* Promise: one bot, one agent (app.py:2046).
OneBotOneAgent == Cardinality({k \in Bots : service[k].tg}) <= 1
=============================================================================
