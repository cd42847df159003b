-------------------------------- MODULE Power --------------------------------
(***************************************************************************)
(* One machine: its workspaces row, the Incus instance behind it, the API  *)
(* handlers that switch it on and off and the worker passes that stop,     *)
(* charge and reconcile it.  The API and the worker are two processes that *)
(* share only the row.  A handler or a pass loads the row once and keeps   *)
(* its ORM copy across every await; a commit writes back the attributes    *)
(* that differ from the copy, and nothing else (db.py: autoflush=False,    *)
(* expire_on_commit=False).                                                *)
(***************************************************************************)
EXTENDS Naturals

CONSTANTS Requests,     \* handler invocations that may be in flight together
          MaxArrivals,  \* bound: requests that ever arrive
          MaxFaults,    \* bound: lost answers of Incus and process deaths
          MaxCredit,    \* bound: balance changes
          Mortal        \* what may die, out of {"api", "worker", "host"}

ASSUME BoundsAssumption == MaxArrivals \in Nat /\ MaxFaults \in Nat /\ MaxCredit \in Nat
ASSUME MortalAssumption == Mortal \subseteq {"api", "worker", "host"}

VARIABLES row,       \* the committed row
          running,   \* what Incus runs
          late,      \* calls Incus answered with an error and will still carry out
          credit,    \* the balance: none is <= 0, low is below the hourly gate
          req,       \* API handlers
          wk,        \* the worker's pass
          told,      \* what the customer was last told, as far as it still stands
          waived,    \* the present run was taken off the clock by its owner
          died,      \* processes that ever died
          arrivals, faults, moves

vars == <<row, running, late, credit, req, wk, told, waived, died, arrivals, faults, moves>>
incus == <<running, late, waived>>
counters == <<died, arrivals, faults, moves>>

States == {"off", "starting", "on", "stopping", "archiving", "error"}
Row == [state : States, desired : BOOLEAN, period : {"none", "set"},
        deadline : {"none", "armed", "due"}]
Kinds == {"on", "off", "adminOff", "keep"}
Passes == {"auto", "pool", "settle", "lifecycle", "reconcile"}
Ops == {"start", "stop"}

Idle == [pc |-> "idle"]
Handlers == [pc : {"read", "start", "started", "stop", "stopped", "failed"},
             kind : Kinds, copy : Row]
Worker == [pc : {"loaded", "archive", "observed", "start", "started", "stop", "stopped", "failed"},
           pass : Passes, copy : Row, seen : BOOLEAN]

\* db.commit(): attributes of the copy that changed, and those set to a new
\* timestamp.
Save(copy, new, renewed) ==
    LET Kept(f) == IF new[f] # copy[f] \/ f \in renewed THEN new[f] ELSE row[f] IN
    row' = [state |-> Kept("state"), desired |-> Kept("desired"),
            period |-> Kept("period"), deadline |-> Kept("deadline")]

SwitchedOn == [state |-> "on", desired |-> TRUE, period |-> "set", deadline |-> "armed"]
SwitchedOff == [state |-> "off", desired |-> FALSE, period |-> "none", deadline |-> "none"]

Init ==
    /\ row \in {[SwitchedOff EXCEPT !.period = p] : p \in {"none", "set"}}
    /\ running = FALSE /\ late = {}
    /\ credit \in {"none", "low", "hour"}
    /\ req = [q \in Requests |-> Idle] /\ wk = Idle
    /\ told = "none" /\ waived = FALSE
    /\ died = {} /\ arrivals = 0 /\ faults = 0 /\ moves = 0

-----------------------------------------------------------------------------
(* Incus.  It refuses to start what runs, to stop what does not, and any     *)
(* call while an operation of that machine is still going on; an answer may  *)
(* be lost (a timeout, a transport error) with the operation completing      *)
(* later, or never.                                                          *)

Perform(op) ==
    /\ running' = (op = "start")
    /\ waived' = (waived /\ (running \/ op = "stop"))

Answers(op) ==
    /\ late = {} /\ running # (op = "start")
    /\ Perform(op)
    /\ UNCHANGED <<late, faults>>

Errors(op) ==
    /\ \/ (late # {} \/ running = (op = "start")) /\ UNCHANGED <<late, faults>>
       \/ /\ faults < MaxFaults /\ faults' = faults + 1
          /\ late' \in {late, late \cup {op}}
    /\ UNCHANGED <<running, waived>>

LateEffect(op) ==
    /\ op \in late
    /\ late' = late \ {op}
    /\ Perform(op)
    /\ UNCHANGED <<row, credit, req, wk, told, counters>>

-----------------------------------------------------------------------------
(* API handlers.                                                             *)

StartInFlight == \E q \in Requests : req[q].pc \in {"start", "started"}

\* Power requests are coroutines of one event loop: from its load to its first
\* commit, and in its last commit, a handler is not interrupted by another one.
\* keep_running is a plain function and runs in a thread.
LoopFree(k) ==
    k = "keep" \/ \A r \in Requests : req[r].pc = "read" => req[r].kind = "keep"

\* The handler starts and loads the row (my_workspace, db.get).
Arrive(q, k) ==
    /\ req[q] = Idle /\ arrivals < MaxArrivals
    /\ LoopFree(k)
    /\ arrivals' = arrivals + 1
    /\ req' = [req EXCEPT ![q] = [pc |-> "read", kind |-> k, copy |-> row]]
    /\ told' = IF k \in {"on", "off"} THEN "none" ELSE told
    /\ UNCHANGED <<row, credit, wk, incus, died, faults, moves>>

Acceptable(k, copy) ==
    \/ k = "on" /\ copy.state \in {"off", "error"}
    \/ k = "off" /\ copy.state # "off"
    \/ k = "adminOff" /\ copy.state = "on"
    \/ k = "keep" /\ copy.state = "on" /\ copy.deadline # "none"

\* An early return or a 4xx.  Starting is also refused without an hour's credit,
\* and whenever other machines hold the host.
Refuse(q) ==
    /\ req[q].pc = "read"
    /\ req[q].kind = "on" \/ ~Acceptable(req[q].kind, req[q].copy)
    /\ req' = [req EXCEPT ![q] = Idle]
    /\ UNCHANGED <<row, credit, wk, told, incus, counters>>

To(q, pc, copy) ==
    req' = [req EXCEPT ![q] = [pc |-> pc, kind |-> req[q].kind, copy |-> copy]]

\* The first commit of a power request: the transition is announced.
Begin(q, kinds, state, pc) ==
    LET new == [req[q].copy EXCEPT !.state = state] IN
    /\ req[q].pc = "read" /\ req[q].kind \in kinds
    /\ Acceptable(req[q].kind, req[q].copy)
    /\ Save(req[q].copy, new, {})
    /\ To(q, pc, new)
    /\ UNCHANGED <<credit, wk, told, incus, counters>>

BeginOn(q) == credit = "hour" /\ Begin(q, {"on"}, "starting", "start")
BeginOff(q) == Begin(q, {"off", "adminOff"}, "stopping", "stop")

KeepRunning(q) ==
    /\ req[q].pc = "read" /\ req[q].kind = "keep"
    /\ Acceptable("keep", req[q].copy)
    /\ Save(req[q].copy, [req[q].copy EXCEPT !.deadline = "none"], {})
    /\ waived' = TRUE
    /\ req' = [req EXCEPT ![q] = Idle]
    /\ UNCHANGED <<credit, wk, told, running, late, counters>>

\* await client.start, client.stop (and the client.patch_config before a start).
Call(q) ==
    /\ req[q].pc \in Ops
    /\ \/ /\ Answers(req[q].pc)
          /\ To(q, IF req[q].pc = "start" THEN "started" ELSE "stopped", req[q].copy)
       \/ Errors(req[q].pc) /\ To(q, "failed", req[q].copy)
    /\ UNCHANGED <<row, credit, wk, told, died, arrivals, moves>>

\* The last commit, and the answer to the customer.
End(q, new, renewed, answer) ==
    /\ LoopFree(req[q].kind)
    /\ Save(req[q].copy, new, renewed)
    /\ req' = [req EXCEPT ![q] = Idle]
    /\ told' = answer
    /\ UNCHANGED <<credit, wk, incus, counters>>

EndOn(q) ==
    /\ req[q].pc = "started"
    /\ End(q, SwitchedOn, {"period", "deadline"}, "on")

\* Mutant: the intent is not recorded.
EndOffDesired(q) ==
    /\ req[q].pc = "stopped"
    /\ End(q, [SwitchedOff EXCEPT !.desired = req[q].copy.desired], {},
           IF StartInFlight THEN "none" ELSE "off")

EndOff(q) ==
    /\ req[q].pc = "stopped"
    /\ End(q, SwitchedOff, {}, IF StartInFlight THEN "none" ELSE "off")

\* Mutant: the failure is reported, the row is not committed.
EndFailedUncommitted(q) ==
    /\ req[q].pc = "failed"
    /\ req' = [req EXCEPT ![q] = Idle]
    /\ UNCHANGED <<row, credit, wk, told, incus, counters>>

EndFailed(q) ==
    /\ req[q].pc = "failed"
    /\ End(q, [req[q].copy EXCEPT !.state = "error"], {},
           IF req[q].kind = "on" \/ StartInFlight THEN "none" ELSE "stopFailed")

Handle(q) == Refuse(q) \/ BeginOn(q) \/ BeginOff(q) \/ KeepRunning(q) \/ Call(q)
             \/ EndOn(q) \/ EndOff(q) \/ EndFailed(q)

-----------------------------------------------------------------------------
(* Worker passes, one at a time.                                             *)

\* Mutant: the reconciler examines ON and OFF only.
SelectsSettled(p) ==
    CASE p = "auto" -> row.state = "on" /\ row.deadline = "due"
      [] p = "pool" -> row.state = "on"
      [] p \in {"settle", "lifecycle", "reconcile"} -> row.state \in {"on", "off"}

\* The query a pass begins with.
Selects(p) ==
    CASE p = "auto" -> row.state = "on" /\ row.deadline = "due"
      [] p = "pool" -> row.state = "on"
      [] p \in {"settle", "lifecycle"} -> row.state \in {"on", "off"}
      [] p = "reconcile" -> row.state \in {"on", "off", "error", "starting", "stopping"}

Load(p) ==
    /\ wk = Idle /\ Selects(p)
    /\ wk' = [pc |-> "loaded", pass |-> p, copy |-> row, seen |-> FALSE]
    /\ UNCHANGED <<row, credit, req, told, incus, counters>>

Goto(pc, copy) == wk' = [pc |-> pc, pass |-> wk.pass, copy |-> copy, seen |-> wk.seen]
InPass(p, pc) == wk.pc = pc /\ wk.pass = p

\* auto_stop_once, and the pool guard of disk_once, reach this machine.
DecideStop ==
    /\ InPass("auto", "loaded") \/ InPass("pool", "loaded")
    /\ Goto("stop", wk.copy)
    /\ UNCHANGED <<row, credit, req, told, incus, counters>>

\* settle_once when the hour has turned: period_start moves, then the gate.  A
\* duplicate charge rolls the session back, which refreshes the copy.
SettleHour ==
    /\ InPass("settle", "loaded")
    /\ \E copy \in {wk.copy, row} :
        LET new == [copy EXCEPT !.period = "set"] IN
        /\ Save(copy, new, {"period"})
        /\ IF copy.state = "on" /\ credit # "hour" THEN Goto("stop", new) ELSE wk' = Idle
        /\ UNCHANGED <<credit, req, told, incus, counters>>

\* lifecycle_once at zero credit: ARCHIVING, then OFF since the provisioner
\* answers that archive is not implemented.
Archive ==
    LET new == [wk.copy EXCEPT !.state = "archiving"] IN
    /\ InPass("lifecycle", "loaded")
    /\ IF credit = "none"
       THEN Save(wk.copy, new, {}) /\ Goto("archive", new)
       ELSE wk' = Idle /\ UNCHANGED row
    /\ UNCHANGED <<credit, req, told, incus, counters>>

ArchiveFails ==
    /\ InPass("lifecycle", "archive")
    /\ Save(wk.copy, [wk.copy EXCEPT !.state = "off"], {})
    /\ wk' = Idle /\ told' = "none"
    /\ UNCHANGED <<credit, req, incus, counters>>

\* reconcile_once asks Incus; an error skips the machine.
Observe ==
    /\ InPass("reconcile", "loaded")
    /\ \/ /\ wk' = [pc |-> "observed", pass |-> wk.pass, copy |-> wk.copy, seen |-> running]
          /\ UNCHANGED faults
       \/ faults < MaxFaults /\ faults' = faults + 1 /\ wk' = Idle
    /\ UNCHANGED <<row, credit, req, told, incus, died, arrivals, moves>>

\* A machine parked in a transition takes the state Incus reports.
Adopted ==
    IF wk.copy.state \in {"error", "starting", "stopping"}
    THEN [wk.copy EXCEPT !.state = IF wk.seen THEN "on" ELSE "off",
                         !.period = IF wk.seen THEN "set" ELSE "none"]
    ELSE wk.copy

\* Mutant: only the intent is compared, not the row's state.
ReconcileIntent ==
    LET stray == wk.seen /\ ~Adopted.desired
        lost == ~wk.seen /\ Adopted.state = "on"
    IN
    /\ InPass("reconcile", "observed")
    /\ \/ stray /\ Save(wk.copy, Adopted, {}) /\ Goto("stop", Adopted) /\ UNCHANGED told
       \/ /\ lost /\ Adopted.desired /\ credit = "hour"
          /\ Goto("start", Adopted) /\ UNCHANGED <<row, told>>
       \/ lost /\ Save(wk.copy, [wk.copy EXCEPT !.state = "off"], {}) /\ wk' = Idle /\ told' = "none"
       \/ ~stray /\ ~lost /\ Save(wk.copy, Adopted, {}) /\ wk' = Idle /\ UNCHANGED told
    /\ UNCHANGED <<credit, req, incus, counters>>

\* Adopt, then stop what should not run, restore what should, or give it up.
Reconcile ==
    LET stray == wk.seen /\ (Adopted.state = "off" \/ ~Adopted.desired)
        lost == ~wk.seen /\ Adopted.state = "on"
    IN
    /\ InPass("reconcile", "observed")
    /\ \/ stray /\ Save(wk.copy, Adopted, {}) /\ Goto("stop", Adopted) /\ UNCHANGED told
       \/ /\ lost /\ Adopted.desired /\ credit = "hour"
          /\ Goto("start", Adopted) /\ UNCHANGED <<row, told>>
       \/ lost /\ Save(wk.copy, [wk.copy EXCEPT !.state = "off"], {}) /\ wk' = Idle /\ told' = "none"
       \/ ~stray /\ ~lost /\ Save(wk.copy, Adopted, {}) /\ wk' = Idle /\ UNCHANGED told
    /\ UNCHANGED <<credit, req, incus, counters>>

WorkerCall ==
    /\ wk.pc \in Ops
    /\ \/ Answers(wk.pc) /\ Goto(IF wk.pc = "start" THEN "started" ELSE "stopped", wk.copy)
       \/ Errors(wk.pc) /\ Goto("failed", wk.copy)
    /\ UNCHANGED <<row, credit, req, told, died, arrivals, moves>>

\* What a pass commits after its stop.  The gate leaves the period and the
\* deadline, the reconciler leaves desired_on.
StoppedBy(p) ==
    CASE p \in {"auto", "pool"} -> SwitchedOff
      [] p = "settle" -> [wk.copy EXCEPT !.state = "off", !.desired = FALSE]
      [] p = "reconcile" -> [SwitchedOff EXCEPT !.desired = wk.copy.desired]

WorkerStopped ==
    /\ wk.pc = "stopped"
    /\ Save(wk.copy, StoppedBy(wk.pass), {})
    /\ wk' = Idle
    /\ told' = IF wk.pass = "reconcile" THEN told ELSE "none"
    /\ UNCHANGED <<credit, req, incus, counters>>

\* The reconciler restored a machine: a new run, with a new deadline.
Restored ==
    /\ wk.pc = "started"
    /\ Save(wk.copy, [wk.copy EXCEPT !.deadline = "armed"], {"deadline"})
    /\ wk' = Idle
    /\ UNCHANGED <<credit, req, told, incus, counters>>

\* A pass that could not stop the machine leaves the row for the next one; a
\* restore that Incus refused gives the machine up, a transport error ends the
\* pass.
WorkerFailed ==
    /\ wk.pc = "failed"
    /\ \/ UNCHANGED <<row, told>>
       \/ /\ wk.pass = "reconcile" /\ ~wk.seen
          /\ Save(wk.copy, [wk.copy EXCEPT !.state = "off"], {})
          /\ told' = "none"
    /\ wk' = Idle
    /\ UNCHANGED <<credit, req, incus, counters>>

Work == DecideStop \/ SettleHour \/ Archive \/ ArchiveFails \/ Observe \/ Reconcile
        \/ WorkerCall \/ WorkerStopped \/ Restored \/ WorkerFailed

-----------------------------------------------------------------------------
(* The world around them.                                                    *)

\* Twelve hours have passed since the machine was started.
Due ==
    /\ row.deadline = "armed"
    /\ row' = [row EXCEPT !.deadline = "due"]
    /\ UNCHANGED <<credit, req, wk, told, incus, counters>>

\* A charge, or a grant.
MoveCredit ==
    /\ moves < MaxCredit /\ moves' = moves + 1
    /\ credit' \in {"none", "low", "hour"} \ {credit}
    /\ UNCHANGED <<row, req, wk, told, incus, died, arrivals, faults>>

\* A process dies; systemd restarts it.  What it had asked of Incus may still
\* happen.
Die(p) ==
    LET asked == IF p = "api" THEN {req[q].pc : q \in Requests} \cap Ops
                 ELSE IF p = "worker" THEN {wk.pc} \cap Ops ELSE {}
    IN
    /\ p \in Mortal /\ faults < MaxFaults /\ faults' = faults + 1
    /\ died' = died \cup (IF p = "host" THEN {"api", "worker"} ELSE {p})
    /\ req' = IF p = "worker" THEN req ELSE [q \in Requests |-> Idle]
    /\ wk' = IF p = "api" THEN wk ELSE Idle
    /\ IF p = "host" THEN running' = FALSE /\ late' = {}
       ELSE UNCHANGED running /\ late' \in {late, late \cup asked}
    /\ UNCHANGED <<row, credit, told, waived, arrivals, moves>>

Next ==
    \/ \E q \in Requests, k \in Kinds : Arrive(q, k)
    \/ \E q \in Requests : Handle(q)
    \/ \E p \in Passes : Load(p)
    \/ Work
    \/ \E op \in Ops : LateEffect(op)
    \/ Due
    \/ MoveCredit
    \/ \E p \in Mortal : Die(p)

Spec == Init /\ [][Next]_vars

\* Handlers and passes run to their end, the worker's loop comes back to every
\* pass that finds the machine, what Incus accepted it carries out, and time
\* passes.  Nothing obliges the pool to run low.
FairSpec ==
    /\ Spec
    /\ \A q \in Requests : WF_vars(Handle(q))
    /\ WF_vars(Work)
    /\ \A p \in Passes \ {"pool"} : SF_vars(Load(p))
    /\ \A op \in Ops : WF_vars(LateEffect(op))
    /\ WF_vars(Due)

-----------------------------------------------------------------------------
TypeOK ==
    /\ row \in Row
    /\ running \in BOOLEAN /\ late \subseteq Ops
    /\ credit \in {"none", "low", "hour"}
    /\ req \in [Requests -> {Idle} \cup Handlers]
    /\ wk \in {Idle} \cup Worker
    /\ told \in {"none", "on", "off", "stopFailed"}
    /\ waived \in BOOLEAN /\ died \subseteq {"api", "worker"}
    /\ arrivals \in 0 .. MaxArrivals /\ faults \in 0 .. MaxFaults /\ moves \in 0 .. MaxCredit

\* Handler q announced the transition the row is in and has not ended.
Owns(q) == req[q].pc \notin {"idle", "read"} /\ req[q].copy.state = row.state

\* A failure never parks a machine in a transition: STARTING, STOPPING and
\* ARCHIVING mean that somebody is at work on it, unless that process died.
TransitionsHaveOwners ==
    /\ row.state \in {"starting", "stopping"} => "api" \in died \/ \E q \in Requests : Owns(q)
    /\ row.state = "archiving" => "worker" \in died \/ InPass("lifecycle", "archive")

\* Nobody is at work on the machine.
Quiet == wk = Idle /\ late = {} /\ \A q \in Requests : req[q] = Idle

\* A run the worker will leave alone and that has no deadline was taken off the
\* clock by its owner in that very run (arm_auto_stop: every transition into ON).
UnboundedRunsWereChosen ==
    Quiet /\ running /\ row.state = "on" /\ row.desired /\ row.deadline = "none" => waived

\* A start is never issued while another one is in flight (test_power_recovery).
OneStartInFlight ==
    \A p, q \in Requests : req[p].pc \in {"start", "started"} /\ req[q].pc \in {"start", "started"}
        => p = q

\* The worker brings back only a machine whose row still says its customer
\* wants it on.
RestoresOnlyDesired ==
    [][~running /\ running' /\ wk.pc = "start" /\ wk'.pc = "started" => row.desired]_vars

\* Once its owner has taken a run off the clock, the scheduled stop leaves it
\* alone (keep_running: "until the customer stops it themselves").
NoAutoStopOnceWaived ==
    [][running /\ ~running' /\ InPass("auto", "stop") /\ wk'.pc = "stopped" => ~waived]_vars

Agreed == row.state \in {"on", "off"} /\ (running <=> row.state = "on")
\* Row and instance keep coming back to agreement, whatever failed or raced.
Heals == []<>Agreed

\* A machine past its deadline stops, unless the deadline is lifted.
DeadlineStops == (running /\ row.deadline = "due") ~> (~running \/ row.deadline # "due")

\* A machine whose balance is gone stops, or the balance comes back.
UnfundedStops == (running /\ credit = "none") ~> (~running \/ credit # "none")

\* A stop the customer was told of is final until the next start.
StopIsHonoured == <>[](told = "off") => <>[]~running

\* A stop that failed is carried out later (reconcile_once: "or a requested stop
\* failed").
FailedStopIsCarriedOut == (told = "stopFailed") ~> (~running \/ told # "stopFailed")

\* A start the customer was told of lasts while nobody stops the machine for its
\* deadline, its credit, the pool or the customer.
StartIsHonoured == <>[](told = "on" /\ credit = "hour") => <>[]running
=============================================================================
