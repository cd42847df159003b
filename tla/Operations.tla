----------------------------- MODULE Operations -----------------------------
(***************************************************************************)
(* Durable operations: the API records an intent in two commits (the state *)
(* of the workspaces row, then a row of the operations table), the worker  *)
(* carries one operation at a time out through the root provisioner, which *)
(* works on numbered slots (Incus projects ws-1, ws-2, ...).  The process  *)
(* that asked the provisioner may be gone when it acts: its calls run in   *)
(* threads of another process.                                             *)
(*                                                                         *)
(* READY stands for the states of module Power (OFF, ON and what its       *)
(* handlers pass through), as far as they end in OFF or ON.                *)
(***************************************************************************)
EXTENDS Naturals, FiniteSets

CONSTANTS Users,
          MaxSlot,      \* bound: slots 1 .. MaxSlot
          Sessions,     \* API handlers that may be in flight together
          MaxRequests,  \* bound: requests that ever arrive
          MaxFaults,    \* bound: faults that ever happen
          Failures      \* which faults, out of Faults

Faults == {"api", "worker", "timeout", "verb", "stop", "sync"}

ASSUME OperationsAssumption ==
    /\ MaxSlot \in Nat /\ MaxRequests \in Nat /\ MaxFaults \in Nat /\ Failures \subseteq Faults
    /\ IsFiniteSet(Sessions)

VARIABLES status,    \* users.status
          row,       \* the user's workspaces row
          life,      \* its id: rows of this user created so far
          ops,       \* the operations table, by id
          issued,    \* the last id given
          project,   \* what Incus holds in a slot: whose machine, whole or not
          api,       \* handlers in flight
          wk,        \* the worker's operation in hand
          calls,     \* verbs the provisioner is at work on
          promised,  \* users whose deletion request was answered with an operation
          joined,    \* user and kind of requests that were answered with an earlier operation
          lost,      \* user and kind of requests that died with the API, announced and not queued
          requests, faults

vars == <<status, row, life, ops, issued, project, api, wk, calls, promised, joined, lost, requests, faults>>
table == <<ops, issued>>
outside == <<project, calls>>
answers == <<promised, joined, lost>>
bounds == <<requests, faults>>

Slots == 1 .. MaxSlot
OpIds == 1 .. MaxRequests
Kinds == {"create", "reset", "delete", "purge"}
Cleanups == {"delete", "purge"}

NoRow == [state |-> "none"]
Row == [state : {"provisioning", "ready", "stopping", "error", "resetting", "deleting"}, slot : Slots]
NoOp == [status |-> "none"]
Op == [kind : Kinds, user : Users, attached : BOOLEAN,
       status : {"queued", "running", "failed", "succeeded"}]
Empty == [owner |-> "nobody"]
Machine == [owner : Users, whole : BOOLEAN]
Call == [verb : {"provision", "reset", "destroy"}, slot : Slots, user : Users,
         stage : {"begin", "build"}, heard : BOOLEAN]
Idle == [pc |-> "idle"]

Init ==
    /\ status = [u \in Users |-> "approved"]
    /\ row = [u \in Users |-> NoRow] /\ life = [u \in Users |-> 0]
    /\ ops = [o \in OpIds |-> NoOp] /\ issued = 0
    /\ project = [s \in Slots |-> Empty]
    /\ api = [h \in Sessions |-> Idle] /\ wk = Idle /\ calls = {}
    /\ promised = {} /\ joined = {} /\ lost = {} /\ requests = 0 /\ faults = 0

Fault(kind) == kind \in Failures /\ faults < MaxFaults /\ faults' = faults + 1

-----------------------------------------------------------------------------
(* The API.                                                                  *)

\* next_free_idx: free as far as the rows say; MaxSlot + 1 if the bound is met.
FreeSlot == CHOOSE s \in 1 .. MaxSlot + 1 :
              /\ \A u \in Users : row[u] = NoRow \/ row[u].slot # s
              /\ \A t \in 1 .. s - 1 : \E u \in Users : row[u] # NoRow /\ row[u].slot = t

\* Reset and power are coroutines of one event loop, the others run in threads.
LoopFree(kind) ==
    kind \in {"reset", "off"} =>
        \A h \in Sessions : /\ api[h] # Idle => api[h].kind # "reset"
                            /\ api[h].pc = "loaded" => api[h].kind # "off"

\* A signed-in customer's request, or an administrator's to delete the account,
\* loads the user and the row.
Request(h, u, kind) ==
    /\ api[h] = Idle /\ requests < MaxRequests
    /\ status[u] = "approved" \/ (kind = "purge" /\ status[u] = "deleting")
    /\ LoopFree(kind)
    /\ requests' = requests + 1
    /\ api' = [api EXCEPT ![h] = [pc |-> "loaded", kind |-> kind, user |-> u, ws |-> row[u],
                                  life |-> life[u], slot |-> FreeSlot, status |-> status[u]]]
    /\ UNCHANGED <<status, row, life, table, outside, wk, answers, faults>>

Acceptable(r) ==
    \/ r.kind = "create" /\ r.ws = NoRow /\ r.slot \in Slots
    \/ r.kind = "delete" /\ r.ws.state \notin {"none", "deleting", "resetting"}
    \/ r.kind = "reset" /\ r.ws.state \in {"ready", "error"}
    \/ r.kind = "off" /\ r.ws # NoRow
    \/ r.kind = "purge" /\ r.status = "approved"

Leave(h) == api' = [api EXCEPT ![h] = Idle]

Refuse(h) ==
    /\ api[h].pc = "loaded" /\ ~Acceptable(api[h])
    /\ Leave(h)
    /\ UNCHANGED <<status, row, life, table, outside, wk, answers, bounds>>

\* The row of the handler's copy is still there.
SameRow(r) == row[r.user] # NoRow /\ life[r.user] = r.life

\* What a commit does to the state: an unchanged attribute is not written.
Save(u, copy, new) ==
    row' = IF copy = new THEN row ELSE [row EXCEPT ![u].state = new]

\* The first commit of POST /api/workspace; idx and user_id are unique.
RecordCreate(h) ==
    LET r == api[h] IN
    /\ r.pc = "loaded" /\ r.kind = "create" /\ Acceptable(r)
    /\ IF status[r.user] # "gone" /\ row[r.user] = NoRow /\ \A u \in Users : row[u] = NoRow \/ row[u].slot # r.slot
       THEN /\ row' = [row EXCEPT ![r.user] = [state |-> "provisioning", slot |-> r.slot]]
            /\ life' = [life EXCEPT ![r.user] = @ + 1]
            /\ api' = [api EXCEPT ![h] = [r EXCEPT !.pc = "recorded", !.life = life'[r.user]]]
       ELSE Leave(h) /\ UNCHANGED <<row, life>>
    /\ UNCHANGED <<status, table, outside, wk, answers, bounds>>

Announced == [delete |-> "deleting", reset |-> "resetting", off |-> "stopping"]

\* The first commit of delete, reset and power off; a row that is gone is a 500.
RecordChange(h) ==
    LET r == api[h] IN
    /\ r.pc = "loaded" /\ r.kind \in {"delete", "reset", "off"} /\ Acceptable(r)
    /\ IF SameRow(r)
       THEN /\ Save(r.user, r.ws.state, Announced[r.kind])
            /\ api' = [api EXCEPT ![h].pc = "recorded"]
       ELSE Leave(h) /\ UNCHANGED row
    /\ UNCHANGED <<status, life, table, outside, wk, answers, bounds>>

RecordPurge(h) ==
    LET r == api[h] IN
    /\ r.pc = "loaded" /\ r.kind = "purge" /\ Acceptable(r)
    /\ IF status[r.user] = "gone" THEN Leave(h) /\ UNCHANGED status
       ELSE /\ status' = [status EXCEPT ![r.user] = "deleting"]
            /\ api' = [api EXCEPT ![h].pc = "recorded"]
    /\ UNCHANGED <<row, life, table, outside, wk, answers, bounds>>

\* The rest of power off: Incus is asked, OFF or ERROR is committed.
EndOff(h) ==
    LET r == api[h] IN
    /\ r.pc = "recorded" /\ r.kind = "off" /\ LoopFree("off")
    /\ IF SameRow(r)
       THEN \E state \in {"error", "ready"} :
              /\ state = "ready" => project[r.ws.slot] # Empty
              /\ Save(r.user, "stopping", state)
       ELSE UNCHANGED row
    /\ Leave(h)
    /\ UNCHANGED <<status, life, table, outside, wk, answers, bounds>>

Active(o) == ops[o].status \in {"queued", "running"}
OfRow(o, u) == ops[o].status # "none" /\ ops[o].user = u /\ ops[o].attached

\* The row shows what the handler is about to queue an operation for.
Announces(r) == r.pc \in {"recorded", "checked"} /\ r.kind \in {"create", "reset", "delete"} /\ SameRow(r)

HasRow(r) == r.kind # "purge" \/ r.ws # NoRow
Promise(r) == promised' = IF r.kind = "delete" THEN promised \cup {r.user} ELSE promised

\* operations.create, its SELECT: an active operation of the row is the answer.
Check(h) ==
    LET r == api[h] IN
    /\ r.pc = "recorded" /\ r.kind # "off"
    /\ IF HasRow(r) /\ SameRow(r) /\ \E o \in OpIds : Active(o) /\ OfRow(o, r.user)
       THEN Leave(h) /\ Promise(r) /\ joined' = joined \cup {<<r.user, r.kind>>} /\ UNCHANGED lost
       ELSE api' = [api EXCEPT ![h].pc = "checked"] /\ UNCHANGED answers
    /\ UNCHANGED <<status, row, life, table, outside, wk, bounds>>

\* Its INSERT; a foreign key to a row or a user that is gone is a 500.
Insert(h) ==
    LET r == api[h] IN
    /\ r.pc = "checked"
    /\ IF status[r.user] # "gone" /\ (HasRow(r) => SameRow(r))
       THEN /\ Promise(r)
            /\ issued' = issued + 1
            /\ ops' = [ops EXCEPT ![issued + 1] =
                  [kind |-> r.kind, user |-> r.user, attached |-> HasRow(r), status |-> "queued"]]
       ELSE UNCHANGED <<ops, issued, promised>>
    /\ Leave(h)
    /\ UNCHANGED <<status, row, life, outside, wk, joined, lost, bounds>>

Handle(h) == Refuse(h) \/ RecordCreate(h) \/ RecordChange(h) \/ RecordPurge(h)
             \/ EndOff(h) \/ Check(h) \/ Insert(h)

-----------------------------------------------------------------------------
(* The worker: operations_once.                                              *)

\* Mutant: failed cleanups are given up.
UnfinishedActive(o) == Active(o)

\* Queued and running operations, and failed cleanups.
Unfinished(o) == Active(o) \/ (ops[o].status = "failed" /\ ops[o].kind \in Cleanups)

\* The order of its query: failed last, then by id.
Before(o, p) ==
    \/ ops[o].status # "failed" /\ ops[p].status = "failed"
    \/ (ops[o].status = "failed" <=> ops[p].status = "failed") /\ o < p

Target(o) == IF ops[o].kind = "purge" \/ ops[o].attached THEN row[ops[o].user] ELSE NoRow
Mark(o, new) == ops' = [ops EXCEPT ![o].status = new]
Step(pc) == wk' = [wk EXCEPT !.pc = pc]
Verb(kind) == CASE kind = "create" -> "provision" [] kind = "reset" -> "reset"
                [] kind \in Cleanups -> "destroy"

\* The next operation is loaded with its row, and marked running.
Pick(o) ==
    LET ws == Target(o) kind == ops[o].kind IN
    /\ wk = Idle /\ Unfinished(o)
    /\ \A p \in OpIds \ {o} : Unfinished(p) => Before(o, p)
    /\ IF ws = NoRow /\ kind # "purge"
       THEN Mark(o, "failed") /\ UNCHANGED wk
       ELSE /\ Mark(o, "running")
            /\ wk' = [op |-> o, verb |-> Verb(kind), ws |-> ws,
                      pc |-> IF kind \in Cleanups THEN "withdraw" ELSE "send"]
    /\ UNCHANGED <<status, row, life, issued, outside, api, answers, bounds>>

\* Mutant: the account goes before its machine.
WithdrawErases ==
    /\ wk.pc = "withdraw"
    /\ Step(IF wk.ws = NoRow \/ ops[wk.op].kind = "purge" THEN "erase" ELSE "send")
    /\ UNCHANGED <<ops, faults>>
    /\ UNCHANGED <<status, row, life, issued, outside, api, answers, requests>>

\* Cleanups first take an account's supplier key and the public ports away.
Withdraw ==
    /\ wk.pc = "withdraw"
    /\ \/ Step(IF wk.ws = NoRow THEN "erase" ELSE "send") /\ UNCHANGED <<ops, faults>>
       \/ Fault("sync") /\ Mark(wk.op, "failed") /\ wk' = Idle
    /\ UNCHANGED <<status, row, life, issued, outside, api, answers, requests>>

\* call_provisioner.
Send ==
    /\ wk.pc = "send"
    /\ calls' = calls \cup {[verb |-> wk.verb, slot |-> wk.ws.slot, user |-> ops[wk.op].user,
                             stage |-> "begin", heard |-> TRUE]}
    /\ Step("wait")
    /\ UNCHANGED <<status, row, life, table, project, api, answers, bounds>>

\* The worker hears a failure and the provisioner goes on: the timeout.
Timeout ==
    /\ wk.pc = "wait" /\ Fault("timeout")
    /\ calls' = {[c EXCEPT !.heard = FALSE] : c \in calls}
    /\ Step("refused")
    /\ UNCHANGED <<status, row, life, table, project, api, answers, requests>>

\* The machine is built; it is stopped, and the row committed as OFF.
Deliver ==
    LET u == ops[wk.op].user IN
    /\ wk.pc = "done" /\ wk.verb \in {"provision", "reset"}
    /\ \/ Save(u, wk.ws.state, "ready") /\ Step("finish") /\ UNCHANGED <<ops, faults>>
       \/ /\ Fault("stop") /\ Save(u, wk.ws.state, "error")
          /\ Mark(wk.op, "failed") /\ wk' = Idle
    /\ UNCHANGED <<status, life, issued, outside, api, answers, requests>>

Finish ==
    /\ wk.pc = "finish"
    /\ Mark(wk.op, "succeeded") /\ wk' = Idle
    /\ UNCHANGED <<status, row, life, issued, outside, api, answers, bounds>>

\* A failed creation is recorded, then what it left behind is destroyed.
CreateFailed ==
    /\ wk.pc = "refused" /\ wk.verb = "provision"
    /\ Mark(wk.op, "failed")
    /\ wk' = [wk EXCEPT !.pc = "send", !.verb = "destroy"]
    /\ UNCHANGED <<status, row, life, issued, outside, api, answers, bounds>>

\* With the row go the answers about it.
Others(u) == (Users \ {u}) \X Kinds
Forget(u) == promised' = promised \ {u} /\ joined' = joined \cap Others(u) /\ lost' = lost \cap Others(u)

\* ... with or without success; the row goes, the operation stays.
RemoveEmptyRow ==
    LET u == ops[wk.op].user IN
    /\ wk.pc \in {"done", "refused"} /\ wk.verb = "destroy" /\ ops[wk.op].kind = "create"
    /\ row' = [row EXCEPT ![u] = NoRow] /\ Forget(u)
    /\ ops' = [o \in OpIds |-> IF OfRow(o, u) THEN [ops[o] EXCEPT !.attached = FALSE] ELSE ops[o]]
    /\ wk' = Idle
    /\ UNCHANGED <<status, life, issued, outside, api, bounds>>

\* Mutant: the row is left as announced.
ResetFailedSilently ==
    /\ wk.pc = "refused" /\ wk.verb = "reset"
    /\ Mark(wk.op, "failed") /\ wk' = Idle
    /\ UNCHANGED <<status, row, life, issued, outside, api, answers, bounds>>

ResetFailed ==
    /\ wk.pc = "refused" /\ wk.verb = "reset"
    /\ Save(ops[wk.op].user, wk.ws.state, "error")
    /\ Mark(wk.op, "failed") /\ wk' = Idle
    /\ UNCHANGED <<status, life, issued, outside, api, answers, bounds>>

\* Mutant: a failed cleanup is taken for a finished one.
CleanupSwallowed ==
    /\ wk.pc = "refused" /\ ops[wk.op].kind \in Cleanups
    /\ Mark(wk.op, "succeeded") /\ wk' = Idle
    /\ UNCHANGED <<status, row, life, issued, outside, api, answers, bounds>>

CleanupFailed ==
    /\ wk.pc = "refused" /\ ops[wk.op].kind \in Cleanups
    /\ Mark(wk.op, "failed") /\ wk' = Idle
    /\ UNCHANGED <<status, row, life, issued, outside, api, answers, bounds>>

\* The row goes, and with it the operations still attached to it.
Remove ==
    LET u == ops[wk.op].user IN
    /\ wk.pc = "done" /\ ops[wk.op].kind = "delete"
    /\ row' = [row EXCEPT ![u] = NoRow] /\ Forget(u)
    /\ ops' = [o \in OpIds |-> IF o = wk.op THEN [ops[o] EXCEPT !.attached = FALSE]
                              ELSE IF OfRow(o, u) THEN NoOp ELSE ops[o]]
    /\ Step("finish")
    /\ UNCHANGED <<status, life, issued, outside, api, bounds>>

\* The end of _purge_account: the account, its row and its operations go.
Erase ==
    LET u == ops[wk.op].user IN
    /\ \/ wk.pc = "erase"
       \/ wk.pc = "done" /\ ops[wk.op].kind = "purge"
    /\ status' = [status EXCEPT ![u] = "gone"]
    /\ row' = [row EXCEPT ![u] = NoRow] /\ Forget(u)
    /\ ops' = [o \in OpIds |-> IF ops[o].status # "none" /\ ops[o].user = u THEN NoOp ELSE ops[o]]
    /\ wk' = Idle
    /\ UNCHANGED <<life, issued, outside, api, bounds>>

\* reconcile_once finds the instance of a machine in ERROR or STOPPING.
Adopt(u) ==
    /\ wk = Idle /\ row[u].state \in {"error", "stopping"} /\ project[row[u].slot] # Empty
    /\ row' = [row EXCEPT ![u].state = "ready"]
    /\ UNCHANGED <<status, life, table, outside, api, wk, answers, bounds>>

Work == (\E o \in OpIds : Pick(o)) \/ Withdraw \/ Send \/ Deliver \/ Finish \/ CreateFailed
        \/ RemoveEmptyRow \/ ResetFailed \/ CleanupFailed \/ Remove \/ Erase
        \/ (\E u \in Users : Adopt(u))

-----------------------------------------------------------------------------
(* The provisioner: ws-create.sh, ws-reset.sh, ws-destroy.sh, by slot.       *)

Answer(c, result) ==
    /\ calls' = calls \ {c}
    /\ IF c.heard THEN Step(result) ELSE UNCHANGED wk

Hold(slot, content) == project' = [project EXCEPT ![slot] = content]

\* Mutant: a project that exists will do for a creation.
BeginBuildOver(c) ==
    /\ c.stage = "begin" /\ c.verb \in {"provision", "reset"}
    /\ IF (c.verb = "provision") <=> (project[c.slot] = Empty)
       THEN /\ Hold(c.slot, [owner |-> c.user, whole |-> FALSE])
            /\ calls' = (calls \ {c}) \cup {[c EXCEPT !.stage = "build"]}
            /\ UNCHANGED wk
       ELSE Answer(c, IF c.verb = "provision" THEN "done" ELSE "refused") /\ UNCHANGED project
    /\ UNCHANGED <<status, row, life, table, api, answers, bounds>>

\* Creation refuses a project that exists and puts a new one there; reset
\* refuses one that does not and removes its instance.
BeginBuild(c) ==
    /\ c.stage = "begin" /\ c.verb \in {"provision", "reset"}
    /\ IF (c.verb = "provision") <=> (project[c.slot] = Empty)
       THEN /\ Hold(c.slot, [owner |-> c.user, whole |-> FALSE])
            /\ calls' = (calls \ {c}) \cup {[c EXCEPT !.stage = "build"]}
            /\ UNCHANGED wk
       ELSE Answer(c, "refused") /\ UNCHANGED project
    /\ UNCHANGED <<status, row, life, table, api, answers, bounds>>

\* The instance is made, unless the project has gone meanwhile.
EndBuild(c) ==
    /\ c.stage = "build"
    /\ IF project[c.slot] = Empty THEN Answer(c, "refused") /\ UNCHANGED project
       ELSE Answer(c, "done") /\ Hold(c.slot, [project[c.slot] EXCEPT !.whole = TRUE])
    /\ UNCHANGED <<status, row, life, table, api, answers, bounds>>

\* An absent project is a success.
Destroy(c) ==
    /\ c.verb = "destroy"
    /\ Hold(c.slot, Empty) /\ Answer(c, "done")
    /\ UNCHANGED <<status, row, life, table, api, answers, bounds>>

\* A script dies where it stands.
VerbFails(c) ==
    /\ Fault("verb") /\ Answer(c, "refused")
    /\ UNCHANGED <<status, row, life, table, project, api, answers, requests>>

Provision(c) == BeginBuild(c) \/ EndBuild(c) \/ Destroy(c)

\* A process dies; systemd restarts it.  The provisioner goes on.
Die(p) ==
    /\ p \in {"api", "worker"} /\ Fault(p)
    /\ IF p = "api"
       THEN /\ api' = [h \in Sessions |-> Idle] /\ UNCHANGED <<wk, calls>>
            /\ lost' = lost \cup {<<api[h].user, api[h].kind>> : h \in {i \in Sessions : Announces(api[i])}}
       ELSE wk' = Idle /\ calls' = {[c EXCEPT !.heard = FALSE] : c \in calls} /\ UNCHANGED <<api, lost>>
    /\ UNCHANGED <<status, row, life, table, project, promised, joined, requests>>

Next ==
    \/ \E h \in Sessions, u \in Users, k \in Kinds \cup {"off"} : Request(h, u, k)
    \/ \E h \in Sessions : Handle(h)
    \/ Work \/ Timeout
    \/ \E c \in calls : Provision(c) \/ VerbFails(c)
    \/ \E p \in Faults : Die(p)

Spec == Init /\ [][Next]_vars

\* Handlers and the worker run on, and the provisioner's scripts end.
FairSpec ==
    /\ Spec
    /\ \A h \in Sessions : WF_vars(Handle(h))
    /\ WF_vars(Work)
    /\ WF_vars(\E c \in calls : Provision(c))

-----------------------------------------------------------------------------
Handler == [pc : {"loaded", "recorded", "checked"}, kind : Kinds \cup {"off"}, user : Users,
            ws : Row \cup {NoRow}, life : Nat, slot : 1 .. MaxSlot + 1, status : {"approved", "deleting"}]
InHand == [pc : {"withdraw", "send", "wait", "done", "refused", "finish", "erase"}, op : OpIds,
           verb : {"provision", "reset", "destroy"}, ws : Row \cup {NoRow}]

TypeOK ==
    /\ status \in [Users -> {"approved", "deleting", "gone"}]
    /\ row \in [Users -> Row \cup {NoRow}] /\ life \in [Users -> Nat]
    /\ ops \in [OpIds -> Op \cup {NoOp}] /\ issued \in 0 .. MaxRequests
    /\ project \in [Slots -> Machine \cup {Empty}]
    /\ api \in [Sessions -> Handler \cup {Idle}]
    /\ wk \in InHand \cup {Idle}
    /\ calls \subseteq Call
    /\ promised \subseteq Users /\ joined \subseteq Users \X Kinds /\ lost \subseteq Users \X Kinds
    /\ requests \in 0 .. MaxRequests /\ faults \in 0 .. MaxFaults

\* An operation that works on user u's row.
Concerns(o, u) == OfRow(o, u) \/ (ops[o].status # "none" /\ ops[o].kind = "purge" /\ ops[o].user = u)

\* Nobody is at work on user u's row, and no operation of it is left to do.
Settled(u) ==
    /\ wk = Idle \/ ~Concerns(wk.op, u)
    /\ \A o \in OpIds : Concerns(o, u) => ~Unfinished(o)
    /\ \A h \in Sessions : api[h] = Idle \/ api[h].user # u

\* A request of this kind got no operation of its own.
Unqueued(u, kind) == <<u, kind>> \in joined \cup lost

\* A machine the panel shows as usable exists, and holds nobody else's data, unless
\* its creation was never queued.
UsableMachineIsTheirs ==
    \A u \in Users : row[u].state = "ready" /\ Settled(u) /\ ~Unqueued(u, "create") =>
        project[row[u].slot] # Empty /\ project[row[u].slot].owner = u

\* Even if it was not.
UsableMachineIsAlwaysTheirs ==
    \A u \in Users : row[u].state = "ready" /\ Settled(u) =>
        project[row[u].slot] # Empty /\ project[row[u].slot].owner = u

Announcing == [provisioning |-> "create", resetting |-> "reset", deleting |-> "delete"]

\* Nothing strands a row in a transition: the operation that was announced and will
\* end it exists, a failed creation is being cleaned up, or the handler is about to
\* queue it, unless the API died before it could or the request was answered with an
\* operation queued before it.
TransitionsHaveOperations ==
    \A u \in Users : row[u].state \in DOMAIN Announcing =>
        LET kind == Announcing[row[u].state] IN
        \/ Unqueued(u, kind)
        \/ \E o \in OpIds : /\ OfRow(o, u) /\ ops[o].kind = kind
                            /\ Unfinished(o) \/ (kind = "create" /\ wk # Idle /\ wk.op = o)
        \/ \E h \in Sessions : Announces(api[h]) /\ api[h].user = u /\ api[h].kind = kind

\* An account is erased only after the machine its row names is gone.
ErasedAfterMachine ==
    [][\A u \in Users : status'[u] = "gone" /\ status[u] # "gone" /\ wk.ws # NoRow =>
         project[wk.ws.slot] = Empty]_vars

\* An account is erased only after every machine of its own is gone
\* (_purge_account: "only after every external resource is gone").
ErasedLast ==
    [][\A u \in Users : status'[u] = "gone" /\ status[u] # "gone" =>
         \A s \in Slots : project[s] = Empty \/ project[s].owner # u]_vars

\* A cleanup not done yet, and one whose row is gone: it fails on every pass.
Outstanding(o) == ops[o].status \notin {"none", "succeeded"} /\ ops[o].kind \in Cleanups
Hopeless(o) == Outstanding(o) /\ ops[o].kind = "delete" /\ ~ops[o].attached

\* Every operation the worker is given ends, and a cleanup that failed is retried
\* until it is done, whatever failed before, as long as no hopeless one is ahead of it.
OperationsEnd ==
    \A o \in OpIds :
        /\ Active(o) ~> ~Active(o)
        /\ Outstanding(o) ~> ~Outstanding(o) \/ \E p \in OpIds : Hopeless(p)

\* The deletion of an account is retried until it is done (DECISIONS.md: "a later
\* worker pass retries").
PurgesEnd == \A o \in OpIds : Outstanding(o) /\ ops[o].kind = "purge" ~> ~Outstanding(o)

\* Only one operation may be active for a workspace at a time (DECISIONS.md).
OneActivePerWorkspace ==
    \A o, p \in OpIds : \A u \in Users :
        Active(o) /\ Active(p) /\ OfRow(o, u) /\ OfRow(p, u) => o = p

\* A deletion the customer was given an operation for takes place, unless that
\* operation was an earlier one or a hopeless one is ahead of it.
DeletionsEnd ==
    \A u \in Users : u \in promised ~> u \notin promised \/ <<u, "delete">> \in joined \/ \E p \in OpIds : Hopeless(p)

\* A deletion the customer was given an operation for takes place.
DeletionHappens == \A u \in Users : u \in promised ~> u \notin promised

\* An account marked for deletion is deleted in the end.
AccountDeletionHappens == \A u \in Users : status[u] = "deleting" ~> status[u] = "gone"

\* A new machine gets a slot Incus has nothing in (_workspace_create: "the index
\* stays allocated" while an orphan remains).
NewSlotIsEmpty ==
    [][\A u \in Users : row[u] = NoRow /\ row'[u] # NoRow => project[row'[u].slot] = Empty]_vars

\* Running work is safe to retry (operations_once): what a first attempt built
\* is not destroyed by the second.
RetryKeepsMachine ==
    [][\A s \in Slots : project[s] # Empty /\ project[s].whole /\ project'[s] = Empty =>
         wk = Idle \/ ops[wk.op].kind \in Cleanups \/ project[s].owner # ops[wk.op].user]_vars
=============================================================================
