----------------------------- MODULE Settlement -----------------------------
(***************************************************************************)
(* What one machine's time costs.  Time is counted in ticks of some minutes, *)
(* HourLen to the hour; the size of a machine is what a tick of it costs.   *)
(* settle_once charges whole hours in arrears, settle_elapsed the part of   *)
(* an hour that a stop, a new size or a reset ends; both write charges      *)
(* under the unique key (kind, period_start) of the ledger (module Ledger). *)
(* The price of a charge is linear in its ticks of disk and of reservation, *)
(* so those are what a charge holds; measured usage is left out.            *)
(*                                                                         *)
(* Of the races over the row (module Power) those are here that a stale     *)
(* period_start brings into the bill.                                       *)
(***************************************************************************)
EXTENDS Integers, FiniteSets, FiniteSetsExt

CONSTANTS HourLen,      \* ticks of an hour
          Lag,          \* ticks into the hour until settle_once has run
          MaxTime,      \* bound: the last tick
          Sizes,        \* what a tick of a machine costs
          MaxRequests,  \* bound: requests of the customer, and worker stops
          MaxFaults,    \* bound: faults that ever happen
          Failures,     \* which of Faults may happen
          Overlap       \* a size is chosen while another request is on its way

Faults == {"incus", "resize", "settle", "api", "worker", "credit", "reboot", "downtime"}

ASSUME SettlementAssumption ==
    /\ HourLen \in Nat \ {0} /\ Lag \in 0 .. HourLen - 1 /\ MaxTime \in Nat
    /\ Sizes \subseteq Nat \ {0} /\ MaxRequests \in Nat /\ MaxFaults \in Nat /\ Failures \subseteq Faults
    /\ Overlap \in BOOLEAN

VARIABLES now,       \* the time, in ticks since the hour the machine was created in
          row,       \* the columns of workspaces the bill is made from
          machine,   \* what Incus runs: a size, or 0
          ledger,    \* charges made
          paid,      \* what they took from the balance
          ran,       \* what the machine has cost while it ran: ticks by size
          ends,      \* what one tick of the runs and sizes ended so far has cost, in all
          api,       \* the handler in flight
          wk,        \* the row a pass of the worker has loaded
          mishaps,   \* faults that have happened, and what "lag", "overlap", "rewind" name (a history)
          requests, faults

vars == <<now, row, machine, ledger, paid, ran, ends, api, wk, mishaps, requests, faults>>

NoPeriod == -1
Idle == [pc |-> "idle"]
States == {"off", "starting", "on", "stopping", "error", "resetting"}
Row == [state : States, size : Sizes, period : {NoPeriod} \cup 0 .. MaxTime]
Charge == [kind : {"hour", "partial"}, key : 0 .. MaxTime, ticks : 1 .. HourLen, rate : {0} \cup Sizes]

\* A machine made during hour 0 (created_at), off, as _workspace_create leaves it.
Init ==
    /\ now = 0 /\ row \in [state : {"off"}, size : Sizes, period : {NoPeriod}]
    /\ machine = 0 /\ ledger = {} /\ paid = 0 /\ ran = 0 /\ ends = 0
    /\ api = Idle /\ wk = Idle /\ mishaps = {} /\ requests = 0 /\ faults = 0

Note(kinds) == mishaps' = mishaps \cup kinds
Fault(kind) == kind \in Failures /\ faults < MaxFaults /\ faults' = faults + 1 /\ Note({kind})
NoFault == UNCHANGED <<mishaps, faults>>
Ask == requests < MaxRequests /\ requests' = requests + 1

HourFloor(t) == t - (t % HourLen)

\* The commit of a changed copy: attributes equal to the copy are not written.
Save(copy, new) == row' = [f \in DOMAIN row |-> IF new[f] = copy[f] THEN row[f] ELSE new[f]]

\* ... of a period that begins: its instant is in no copy, so it is always written.
Begin(copy, new) ==
    row' = [f \in DOMAIN row |-> IF f # "period" /\ new[f] = copy[f] THEN row[f] ELSE new[f]]

\* post_transaction: a charge whose key the ledger holds is refused, and costs nothing.
Post(kind, key, ticks, rate) ==
    IF \E c \in ledger : c.kind = kind /\ c.key = key THEN UNCHANGED <<ledger, paid>>
    ELSE /\ ledger' = ledger \cup {[kind |-> kind, key |-> key, ticks |-> ticks, rate |-> rate]}
         /\ paid' = paid + ticks * rate

\* Mutant: every part-hour is charged at the smallest size.
SettleElapsedSmallest(ws) ==
    LET elapsed == IF ws.period = NoPeriod THEN 0 ELSE now - ws.period
        ticks == IF elapsed < HourLen THEN elapsed ELSE HourLen
    IN IF ticks = 0 THEN UNCHANGED <<ledger, paid>>
       ELSE Post(IF ticks = HourLen THEN "hour" ELSE "partial", ws.period, ticks, Min(Sizes))

\* The part-hour since period_start, an hour at most, at the copy's size.
SettleElapsed(ws) ==
    LET elapsed == IF ws.period = NoPeriod THEN 0 ELSE now - ws.period
        ticks == IF elapsed < HourLen THEN elapsed ELSE HourLen
    IN IF ticks = 0 THEN UNCHANGED <<ledger, paid>>
       ELSE Post(IF ticks = HourLen THEN "hour" ELSE "partial", ws.period, ticks, ws.size)

-----------------------------------------------------------------------------
(* The customer's requests: coroutines of the API, one at a time but for     *)
(* Overlap.                                                                  *)

\* POST /api/workspace/power on: STARTING is committed.
PowerOn ==
    /\ api = Idle /\ Ask /\ row.state \in {"off", "error"}
    /\ row' = [row EXCEPT !.state = "starting"]
    /\ api' = [pc |-> "on", ws |-> row']
    /\ UNCHANGED <<now, machine, ledger, paid, ran, ends, wk, mishaps, faults>>

\* ... the size is applied and the machine started; a new period begins.
PowerOnEnds ==
    /\ api.pc = "on" /\ api' = Idle
    /\ \/ /\ machine' = api.ws.size /\ NoFault
          /\ Begin(api.ws, [api.ws EXCEPT !.state = "on", !.period = now])
       \/ /\ Fault("incus") /\ machine' \in {machine, api.ws.size}
          /\ Save(api.ws, [api.ws EXCEPT !.state = "error"])
    /\ UNCHANGED <<now, ledger, paid, ran, ends, wk, requests>>

\* Power off: STOPPING is committed.
PowerOff ==
    /\ api = Idle /\ Ask /\ row.state # "off"
    /\ row' = [row EXCEPT !.state = "stopping"]
    /\ api' = [pc |-> "off", ws |-> row']
    /\ UNCHANGED <<now, machine, ledger, paid, ran, ends, wk, mishaps, faults>>

\* ... the machine is stopped, the part-hour settled, OFF committed; the API may
\* die between the last two, and Incus may fail.
PowerOffEnds ==
    /\ api.pc = "off" /\ api' = Idle
    /\ \/ /\ machine' = 0 /\ SettleElapsed(api.ws) /\ ends' = ends + machine
          /\ \/ Save(api.ws, [api.ws EXCEPT !.state = "off", !.period = NoPeriod]) /\ NoFault
             \/ Fault("api") /\ UNCHANGED row
       \/ /\ Fault("incus") /\ machine' \in {0, machine} /\ UNCHANGED <<ledger, paid, ends>>
          /\ Save(api.ws, [api.ws EXCEPT !.state = "error"])
    /\ UNCHANGED <<now, ran, wk, requests>>

\* A new size while the machine runs: the part-hour is settled at the old one.
Resize ==
    /\ api = Idle /\ Ask /\ row.state = "on"
    /\ \E size \in Sizes \ {row.size} :
         api' = [pc |-> "resize", ws |-> row, size |-> size, period |-> now]
    /\ SettleElapsed(row) /\ ends' = ends + machine
    /\ UNCHANGED <<now, row, machine, ran, wk, mishaps, faults>>

\* ... and when Incus has applied the new size it is committed with the new period.
ResizeEnds ==
    /\ api.pc = "resize" /\ api' = Idle
    /\ \/ /\ machine' = (IF machine = 0 THEN 0 ELSE api.size) /\ NoFault
          /\ Begin(api.ws, [api.ws EXCEPT !.size = api.size, !.period = api.period])
       \/ Fault("resize") /\ UNCHANGED <<row, machine>>
    /\ UNCHANGED <<now, ledger, paid, ran, ends, wk, requests>>

\* A new size for a machine that is not on, or not yet, is only written down.
ResizeStopped ==
    /\ api = Idle \/ (Overlap /\ api.pc \in {"on", "off"})
    /\ Ask /\ row.state # "on"
    /\ \E size \in Sizes \ {row.size} : row' = [row EXCEPT !.size = size]
    /\ Note(IF api = Idle THEN {} ELSE {"overlap"})
    /\ UNCHANGED <<now, machine, ledger, paid, ran, ends, api, wk, faults>>

\* A reset settles what has run first; the API may die before it says RESETTING.
Reset ==
    /\ api = Idle /\ Ask /\ row.state \in {"on", "off", "error"}
    /\ IF row.state = "on" THEN SettleElapsed(row) ELSE UNCHANGED <<ledger, paid>>
    /\ ends' = ends + machine
    /\ \/ row' = [row EXCEPT !.state = "resetting"] /\ NoFault
       \/ row.state = "on" /\ Fault("api") /\ UNCHANGED row
    /\ UNCHANGED <<now, machine, ran, api, wk>>

Handle == PowerOn \/ PowerOnEnds \/ PowerOff \/ PowerOffEnds \/ Resize \/ ResizeEnds
          \/ ResizeStopped \/ Reset

-----------------------------------------------------------------------------
(* The worker.                                                               *)

\* The first hour of the row that is not charged yet; a row without a period is
\* taken to be in the hour of its creation.
Start(ws) == IF ws.period = NoPeriod THEN 0 ELSE HourFloor(ws.period)

\* Mutant: an hour is due when an hour has gone by since the period began.
HourDueElapsed(ws) == ws.state \in {"on", "off"} /\ now - Start(ws) >= HourLen /\ now - ws.period >= HourLen

HourDue(ws) == ws.state \in {"on", "off"} /\ Start(ws) < HourFloor(now)

\* A pass loads its rows before it works on them one by one.
Load(pass) ==
    /\ wk = Idle
    /\ pass = "settle" => HourDue(row) /\ UNCHANGED requests
    /\ pass = "stop" => row.state = "on" /\ Ask
    /\ wk' = [pc |-> pass, ws |-> row]
    /\ UNCHANGED <<now, row, machine, ledger, paid, ran, ends, api, mishaps, faults>>

\* settle_once: one hour is charged, then the period moved to the present hour;
\* the worker may die in between.  Who cannot afford the next hour is stopped.
\* A run begun since a pass loaded the row without a period is moved back as well.
Settle ==
    LET ws == wk.ws
        settled == [ws EXCEPT !.period = HourFloor(now)] IN
    /\ wk.pc = "settle" /\ wk' = Idle
    /\ Post("hour", Start(ws), HourLen, IF ws.state = "on" THEN ws.size ELSE 0)
    /\ \/ /\ UNCHANGED faults /\ Note(IF ws.period = NoPeriod /\ row.period # NoPeriod THEN {"rewind"} ELSE {})
          /\ \/ Save(ws, settled) /\ UNCHANGED <<machine, ends>>
             \/ /\ ws.state = "on" /\ machine' = 0 /\ ends' = ends + machine
                /\ Save(ws, [settled EXCEPT !.state = "off"])
       \/ Fault("settle") /\ UNCHANGED <<row, machine, ends>>
    /\ UNCHANGED <<now, ran, api, requests>>

\* auto_stop_once and the pool guard: stopped, settled, recorded; or Incus fails.
StopRun ==
    LET ws == wk.ws IN
    /\ wk.pc = "stop" /\ wk' = Idle
    /\ \/ /\ machine' = 0 /\ SettleElapsed(ws) /\ ends' = ends + machine
          /\ \/ Save(ws, [ws EXCEPT !.state = "off", !.period = NoPeriod]) /\ NoFault
             \/ Fault("worker") /\ UNCHANGED row
       \/ Fault("incus") /\ UNCHANGED <<row, machine, ledger, paid, ends>>
    /\ UNCHANGED <<now, ran, api, requests>>

\* The end of a factory reset.
Rebuilt ==
    /\ wk = Idle /\ row.state = "resetting"
    /\ \/ /\ machine' = 0 /\ NoFault
          /\ row' = [row EXCEPT !.state = "off", !.period = NoPeriod]
       \/ Fault("incus") /\ machine' \in {0, machine, row.size} /\ row' = [row EXCEPT !.state = "error"]
    /\ UNCHANGED <<now, ledger, paid, ran, ends, api, wk, requests>>

\* lifecycle_once with no credit left: no archive can be made, and the row says OFF.
Archive ==
    /\ wk = Idle /\ row.state \in {"on", "off"} /\ Fault("credit")
    /\ row' = [row EXCEPT !.state = "off"]
    /\ UNCHANGED <<now, machine, ledger, paid, ran, ends, api, wk, requests>>

\* reconcile_once: a row in between takes over what Incus reports ...
Adopt ==
    /\ wk = Idle /\ row.state \in {"error", "starting", "stopping"}
    /\ row' = IF machine = 0 THEN [row EXCEPT !.state = "off", !.period = NoPeriod]
              ELSE [row EXCEPT !.state = "on", !.period = IF @ = NoPeriod THEN now ELSE @]
    /\ UNCHANGED <<now, machine, ledger, paid, ran, ends, api, wk, requests, mishaps, faults>>

\* ... a machine running against the row is stopped ...
StopStray ==
    /\ wk = Idle /\ row.state = "off" /\ machine # 0
    /\ machine' = 0 /\ row' = [row EXCEPT !.period = NoPeriod]
    /\ UNCHANGED <<now, ledger, paid, ran, ends, api, wk, requests, mishaps, faults>>

\* ... and one that should run is started again, or recorded as off.
Restore ==
    /\ wk = Idle /\ row.state = "on" /\ machine = 0
    /\ \/ machine' = row.size /\ UNCHANGED row
       \/ row' = [row EXCEPT !.state = "off"] /\ UNCHANGED machine
    /\ UNCHANGED <<now, ledger, paid, ran, ends, api, wk, requests, mishaps, faults>>

Work == Load("settle") \/ Load("stop") \/ Settle \/ StopRun \/ Rebuilt \/ Archive
        \/ Adopt \/ StopStray \/ Restore

-----------------------------------------------------------------------------
\* The machine goes down under its row: the guest's own shutdown, the host's.
Reboot ==
    /\ machine # 0 /\ Fault("reboot") /\ machine' = 0
    /\ UNCHANGED <<now, row, ledger, paid, ran, ends, api, wk, requests>>

\* The worker's passes are due: an hour to be settled Lag ticks into the next, a
\* row and a machine that disagree.
PassDue ==
    \/ HourDue(row) /\ now - HourFloor(now) >= Lag
    \/ row.state \in {"error", "starting", "stopping", "resetting"}
    \/ row.state = "off" /\ machine # 0
    \/ row.state = "on" /\ machine = 0

\* A request or a pass takes less than a tick; with the worker down time goes by.
Tick ==
    /\ now < MaxTime /\ wk = Idle /\ api = Idle
    /\ ~PassDue \/ "downtime" \in Failures
    /\ now' = now + 1 /\ ran' = ran + machine
    /\ Note(IF HourDue(row) THEN {"lag"} ELSE {})
    /\ UNCHANGED <<row, machine, ledger, paid, ends, api, wk, requests, faults>>

Next == Handle \/ Work \/ Reboot \/ Tick

Spec == Init /\ [][Next]_vars

-----------------------------------------------------------------------------
TypeOK ==
    /\ now \in 0 .. MaxTime /\ row \in Row /\ machine \in {0} \cup Sizes
    /\ ledger \subseteq Charge /\ paid \in Nat /\ ran \in Nat /\ ends \in Nat
    /\ api = Idle \/ api \in [pc : {"on", "off"}, ws : Row]
         \/ api \in [pc : {"resize"}, ws : Row, size : Sizes, period : 0 .. MaxTime]
    /\ wk = Idle \/ wk \in [pc : {"settle", "stop"}, ws : Row]
    /\ mishaps \subseteq Faults \cup {"lag", "overlap", "rewind"}
    /\ requests \in 0 .. MaxRequests /\ faults \in 0 .. MaxFaults

Ended == row.state = "off" /\ machine = 0 /\ api = Idle /\ wk = Idle

\* Once a machine is off, what has run has been charged at the size it ran at, but
\* for the lag of settlement at the end of each run or size (settle_elapsed;
\* workspace_tier's "the cheapest way").
RunsAreBilled == Ended => paid + ends * Lag >= ran

\* No use of the panel runs a machine for free, as long as Incus does what it is
\* asked, no two requests overlap and no period is moved back; settle_once may die
\* between its commits, and be late.
OrderlyRunsAreBilled == mishaps \subseteq {"settle", "lag"} => RunsAreBilled

\* No hour is charged as a whole hour twice.
HoursChargedOnce ==
    \A c, d \in ledger : c.kind = "hour" /\ d.kind = "hour" /\ HourFloor(c.key) = HourFloor(d.key) => c = d

\* ... however passes, handlers and a worker that dies between its two commits
\* interleave, if each hour is settled before time goes on.
PromptHoursChargedOnce == "lag" \notin mishaps => HoursChargedOnce

\* "CPU and memory bill only while on" (BILLING.md).
BilledOnlyWhileOn == Ended => paid <= ran

\* The disk of an hour is charged once: whole, or in parts.
DiskChargedOnce ==
    \A h \in {HourFloor(t) : t \in 0 .. MaxTime} :
        MapThenSumSet(LAMBDA c : c.ticks, {c \in ledger : HourFloor(c.key) = h}) <= HourLen

\* "Disk bills every hour, in every state" (BILLING.md): every hour up to the
\* period the row is in has a charge.
EveryHourBilled ==
    Ended /\ row.period # NoPeriod =>
        \A h \in {HourFloor(t) : t \in 0 .. row.period} :
            h < HourFloor(row.period) => \E c \in ledger : HourFloor(c.key) = h
=============================================================================
