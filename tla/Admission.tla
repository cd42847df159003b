----------------------------- MODULE Admission -----------------------------
(***************************************************************************)
(* Several machines on one host.  Memory is claimed when a machine is       *)
(* started and when it grows: check_admission adds up the rows in ON and    *)
(* STARTING and compares with what the host has.  The API's requests are    *)
(* coroutines, atomic between two awaits; the worker restores what should   *)
(* run, stops what should not and takes over what it finds, from rows it    *)
(* has loaded before.  One resource stands for memory; cores are counted    *)
(* alike.  What one row and its instance go through is module Power; here   *)
(* are the steps in which one machine's memory meets another's.             *)
(***************************************************************************)
EXTENDS Integers, FiniteSets, FiniteSetsExt

CONSTANTS Machines,
          Host,         \* schedulable_mem_gib
          Sizes,        \* memory of the plans
          MaxRequests,  \* bound: requests of customers, and scheduled stops
          MaxFaults,    \* bound: faults that ever happen
          Failures      \* which of Faults may happen

Faults == {"incus", "api", "credit", "reboot"}

ASSUME AdmissionAssumption ==
    /\ IsFiniteSet(Machines) /\ Host \in Nat /\ Sizes \subseteq Nat \ {0}
    /\ MaxRequests \in Nat /\ MaxFaults \in Nat /\ Failures \subseteq Faults

VARIABLES row,       \* state, size and desired_on of each workspaces row
          running,   \* the machines Incus runs
          limit,     \* the memory limit each instance is configured with
          api,       \* the request in flight for each machine
          wk,        \* where a pass of the reconciler is, with the rows it has loaded
          upset,     \* what has happened that admission does not see (a history)
          requests, faults

vars == <<row, running, limit, api, wk, upset, requests, faults>>

Idle == [pc |-> "idle"]
States == {"off", "starting", "on", "stopping", "error"}
Row == [state : States, size : Sizes, desired : BOOLEAN]

\* Machines as _workspace_create leaves them.
Init ==
    /\ row \in [Machines -> [state : {"off"}, size : Sizes, desired : {FALSE}]]
    /\ running = {} /\ limit = [m \in Machines |-> row[m].size]
    /\ api = [m \in Machines |-> Idle] /\ wk = Idle
    /\ upset = {} /\ requests = 0 /\ faults = 0

Upset(kinds) == upset' = upset \cup kinds
Fault(kind) == kind \in Failures /\ faults < MaxFaults /\ faults' = faults + 1 /\ Upset({kind})
NoFault == UNCHANGED <<faults, upset>>
Ask == requests < MaxRequests /\ requests' = requests + 1

\* Mutant: a machine that is starting does not count.
CountedOn == {m \in Machines : row[m].state = "on"}

\* running_tiers: which machines count.
Counted == {m \in Machines : row[m].state \in {"on", "starting"}}

\* The memory of these machines.
Total(size, machines) == MapThenSumSet(LAMBDA m : size[m], machines)
SizeIn(rows) == [m \in Machines |-> rows[m].size]

\* Mutant: check_admission counts m itself.
FitsItself(m, want, rows) == Total(SizeIn(rows), Counted) + want <= Host

\* check_admission for machine m, with the sizes the session holds.
Fits(m, want, rows) == Total(SizeIn(rows), Counted \ {m}) + want <= Host

To(m, request) == api' = [api EXCEPT ![m] = request]
Set(m, state) == row' = [row EXCEPT ![m].state = state]

\* A growth that is admitted but not yet in its row.
Growing == {m \in Machines : api[m].pc = "grow"}

-----------------------------------------------------------------------------
(* Requests of the customers.                                                *)

\* POST /api/workspace/power on, up to its first commit.
PowerOn(m) ==
    /\ api[m] = Idle /\ row[m].state \in {"off", "error"} /\ Ask
    /\ Fits(m, row[m].size, row)
    /\ Set(m, "starting") /\ To(m, [pc |-> "on", size |-> row[m].size])
    /\ Upset(IF Growing = {} THEN {} ELSE {"grow"})
    /\ UNCHANGED <<running, limit, wk, faults>>

\* ... patch_config with the size it has read, start, ON.
PowerOnEnds(m) ==
    LET patched == [limit EXCEPT ![m] = api[m].size] IN
    /\ api[m].pc = "on" /\ To(m, Idle)
    /\ \/ /\ limit' = patched /\ running' = running \cup {m} /\ NoFault
          /\ row' = [row EXCEPT ![m].state = "on", ![m].desired = TRUE]
       \/ /\ Fault("incus") /\ Set(m, "error")
          /\ \/ limit' \in {limit, patched} /\ UNCHANGED running
             \/ limit' = patched /\ running' = running \cup {m}
    /\ UNCHANGED <<wk, requests>>

PowerOff(m) ==
    /\ api[m] = Idle /\ row[m].state # "off" /\ Ask
    /\ Set(m, "stopping") /\ To(m, [pc |-> "off"])
    /\ Upset(IF wk.pc = "start" /\ wk.m = m THEN {"stale"} ELSE {})
    /\ UNCHANGED <<running, limit, wk, faults>>

PowerOffEnds(m) ==
    /\ api[m].pc = "off" /\ To(m, Idle)
    /\ \/ /\ running' = running \ {m} /\ NoFault
          /\ row' = [row EXCEPT ![m].state = "off", ![m].desired = FALSE]
       \/ Fault("incus") /\ Set(m, "error") /\ running' \in {running, running \ {m}}
    /\ UNCHANGED <<limit, wk, requests>>

\* POST /api/workspace/tier while ON: memory may only grow, and if it fits.
Grow(m) ==
    /\ api[m] = Idle /\ row[m].state = "on" /\ Ask
    /\ \E size \in {s \in Sizes : s > row[m].size} : Fits(m, size, row) /\ To(m, [pc |-> "grow", size |-> size])
    /\ Upset(IF Growing = {} THEN {} ELSE {"grow"})
    /\ UNCHANGED <<row, running, limit, wk, faults>>

\* ... and is committed when Incus has applied it.
GrowEnds(m) ==
    LET patched == [limit EXCEPT ![m] = api[m].size] IN
    /\ api[m].pc = "grow" /\ To(m, Idle)
    /\ \/ limit' = patched /\ row' = [row EXCEPT ![m].size = api[m].size] /\ NoFault
       \/ Fault("incus") /\ limit' \in {limit, patched} /\ UNCHANGED row
    /\ UNCHANGED <<running, wk, requests>>

\* In any other state the size is only written down, while starting as well.
Resize(m) ==
    /\ row[m].state # "on" /\ api[m].pc \in {"idle", "on", "off"} /\ Ask
    /\ \E size \in Sizes \ {row[m].size} : row' = [row EXCEPT ![m].size = size]
    /\ Upset(IF m \in running \/ row[m].state = "starting" \/ api[m].pc = "on" THEN {"resize"} ELSE {})
    /\ UNCHANGED <<running, limit, api, wk, faults>>

-----------------------------------------------------------------------------
(* The worker.                                                               *)

\* auto_stop_once, the pool guard, the hourly gate: stopped, then OFF.
StopRun(m) ==
    /\ wk = Idle /\ row[m].state = "on" /\ Ask
    /\ \/ /\ running' = running \ {m} /\ NoFault
          /\ row' = [row EXCEPT ![m].state = "off", ![m].desired = FALSE]
       \/ Fault("incus") /\ running' \in {running, running \ {m}} /\ UNCHANGED row
    /\ UNCHANGED <<limit, api, wk>>

\* lifecycle_once at zero credit: OFF, and the machine runs on.
Archive(m) ==
    /\ wk = Idle /\ row[m].state \in {"on", "off"} /\ Fault("credit") /\ Set(m, "off")
    /\ UNCHANGED <<running, limit, api, wk, requests>>

\* reconcile_once loads all rows ...
Begin ==
    /\ wk = Idle /\ wk' = [pc |-> "next", rows |-> row, todo |-> Machines]
    /\ UNCHANGED <<row, running, limit, api, upset, requests, faults>>

\* ... and asks Incus about each machine; an error skips it.
Observe(m) ==
    /\ wk.pc = "next" /\ m \in wk.todo
    /\ \/ wk' = [pc |-> "observed", rows |-> wk.rows, todo |-> wk.todo \ {m}, m |-> m, on |-> m \in running] /\ NoFault
       \/ Fault("incus") /\ wk' = IF wk.todo = {m} THEN Idle ELSE [wk EXCEPT !.todo = @ \ {m}]
    /\ UNCHANGED <<row, running, limit, api, requests>>

\* The commit of a changed copy: a state equal to the copy's is not written.
Save(state) == row' = [row EXCEPT ![wk.m].state = IF state = wk.rows[wk.m].state THEN @ ELSE state]

\* The pass goes on from machine m with its copy in this state.
Goto(pc, state) == wk' = [wk EXCEPT !.pc = pc, !.rows = [@ EXCEPT ![wk.m].state = state]]
GoOn(state) ==
    wk' = IF wk.todo = {} THEN Idle
          ELSE [pc |-> "next", rows |-> [wk.rows EXCEPT ![wk.m].state = state], todo |-> wk.todo]

\* The reconciler decides on a row that a request has changed since, or is changing,
\* or adds up sizes that are no longer those of the rows.  (PowerOff has the case of
\* a machine stopped while the reconciler is starting it.)
Stale ==
    \/ wk.rows[wk.m].state # row[wk.m].state \/ api[wk.m] # Idle
    \/ \E n \in Machines : wk.rows[n].size # row[n].size

\* Mutant: rows that were left in STARTING are not examined.
AdoptedErrors ==
    IF wk.rows[wk.m].state \notin {"error", "stopping"} THEN wk.rows[wk.m].state
    ELSE IF wk.on THEN "on" ELSE "off"

\* A row in between takes the state Incus reports, without admission.
Adopted ==
    IF wk.rows[wk.m].state \notin {"error", "starting", "stopping"} THEN wk.rows[wk.m].state
    ELSE IF wk.on THEN "on" ELSE "off"

\* A machine running against its row is stopped, one that is down against its row
\* started again if there is room (and credit, once a customer has run out of it).
Reconcile ==
    LET copy == wk.rows[wk.m]
        stray == wk.on /\ (Adopted = "off" \/ ~copy.desired)
        lost == ~wk.on /\ Adopted = "on"
        returns == copy.desired /\ Fits(wk.m, copy.size, wk.rows) IN
    /\ wk.pc = "observed"
    /\ Upset(IF Stale THEN {"stale"} ELSE {})
    /\ \/ stray /\ Save(Adopted) /\ Goto("stop", Adopted)
       \/ lost /\ returns /\ Goto("start", "on") /\ UNCHANGED row
       \/ lost /\ (~returns \/ "credit" \in upset) /\ Save("off") /\ GoOn("off")
       \/ ~stray /\ ~lost /\ Save(Adopted) /\ GoOn(Adopted)
    /\ UNCHANGED <<running, limit, api, requests, faults>>

ReconcileStops ==
    /\ wk.pc = "stop"
    /\ \/ running' = running \ {wk.m} /\ Save("off") /\ GoOn("off") /\ NoFault
       \/ Fault("incus") /\ running' \in {running, running \ {wk.m}} /\ GoOn(wk.rows[wk.m].state) /\ UNCHANGED row
    /\ UNCHANGED <<limit, api, requests>>

ReconcileStarts ==
    /\ wk.pc = "start"
    /\ \/ running' = running \cup {wk.m} /\ GoOn("on") /\ UNCHANGED row /\ NoFault
       \/ Fault("incus") /\ running' \in {running, running \cup {wk.m}} /\ Save("off") /\ GoOn("off")
    /\ UNCHANGED <<limit, api, requests>>

Work == Begin \/ Reconcile \/ ReconcileStops \/ ReconcileStarts \/ \E m \in Machines : Observe(m)

-----------------------------------------------------------------------------
\* The API dies with all requests in flight; their calls may have been carried out.
ApiDies ==
    /\ Fault("api") /\ api' = [m \in Machines |-> Idle]
    /\ \E done \in SUBSET {m \in Machines : api[m] # Idle} :
         /\ running' = (running \cup {m \in done : api[m].pc = "on"}) \ {m \in done : api[m].pc = "off"}
         /\ limit' = [m \in Machines |-> IF m \in done /\ api[m].pc # "off" THEN api[m].size ELSE limit[m]]
    /\ UNCHANGED <<row, wk, requests>>

\* The host goes down: nothing runs, and the rows stay.
Reboot ==
    /\ Fault("reboot") /\ running' = {} /\ api' = [m \in Machines |-> Idle] /\ wk' = Idle
    /\ UNCHANGED <<row, limit, requests>>

Ends(m) == PowerOnEnds(m) \/ PowerOffEnds(m) \/ GrowEnds(m)
Handle(m) == PowerOn(m) \/ PowerOff(m) \/ Grow(m) \/ Resize(m) \/ Ends(m)

Next ==
    \/ \E m \in Machines : Handle(m) \/ StopRun(m) \/ Archive(m)
    \/ Work \/ ApiDies \/ Reboot

Spec == Init /\ [][Next]_vars

\* The worker's loop runs, and handlers come to an end.
Fairness == WF_vars(Work) /\ \A m \in Machines : WF_vars(Ends(m))
FairSpec == Spec /\ Fairness

-----------------------------------------------------------------------------
TypeOK ==
    /\ row \in [Machines -> Row] /\ running \subseteq Machines /\ limit \in [Machines -> Sizes]
    /\ api \in [Machines -> {Idle, [pc |-> "off"]} \cup [pc : {"on", "grow"}, size : Sizes]]
    /\ \/ wk = Idle
       \/ wk \in [pc : {"next"}, rows : [Machines -> Row], todo : SUBSET Machines]
       \/ wk \in [pc : {"observed", "stop", "start"}, rows : [Machines -> Row], todo : SUBSET Machines, m : Machines, on : BOOLEAN]
    /\ upset \subseteq Faults \cup {"grow", "resize", "stale"}
    /\ requests \in 0 .. MaxRequests /\ faults \in 0 .. MaxFaults

\* A machine that is being stopped is not counted, though it runs until it is down.
InUse == Total(limit, {m \in running : api[m].pc # "off"})

\* Starts, growths, stops and restorations in any order take no more memory than
\* the host has, unless one of these has happened: a growth overlapped another
\* admission, a size was changed under a start, the reconciler acted on a row that
\* a request was changing, a call of Incus failed, a handler died, a row went OFF
\* unstopped.
AdmittedMemoryFits == upset \subseteq {"reboot"} => InUse <= Host

\* "Memory is never oversubscribed" (BILLING.md).
MemoryFits == InUse <= Host

\* After a reboot the reconciler finds room for every machine that was on,
\* whatever order it comes to them in and whatever is started meanwhile.
RebootForgetsNobody ==
    [][upset' \subseteq {"reboot"} /\ wk.pc = "observed" /\ wk' # wk /\ wk.rows[wk.m].state = "on" /\ wk.rows[wk.m].desired
         => row'[wk.m].state = row[wk.m].state]_vars

\* Failed or abandoned starts do not hold memory for ever: in the end what is
\* counted is what runs.
CapacityReturns == <>[](Counted = running)
=============================================================================
