-------------------------------- MODULE Ports --------------------------------
(***************************************************************************)
(* Published ports (control/mmd/ports.py, the port handlers of app.py, the *)
(* worker's reconciliation) and the host firewall they are pushed to       *)
(* (provisioner.py, verb expose_port).  Everybody who changes a row pushes *)
(* the complete set as read after the change; nothing orders the pushes,   *)
(* and the provisioner serves each in a thread of its own, through one     *)
(* shared file.  Handlers run in threads of the API; the worker does one   *)
(* thing at a time.                                                        *)
(***************************************************************************)
EXTENDS Naturals, FiniteSets

CONSTANTS
    PortMachines,   \* rows of workspaces, each created at most once
    PortSlots,      \* idx of a workspace: gives its address, and is reused
    UserPorts,      \* internal ports customers publish
    ServicePorts,       \* internal ports reserved for a machine (ssh, rdp)
    Externals,      \* public ports, PORT_RANGE_START .. PORT_RANGE_END
    PortRequests,   \* API requests, one behaviour each
    MAX_PORTS,      \* ports.MAX_PORTS_PER_WORKSPACE
    MaxPortFaults   \* bound: pushes that fail or whose answer is lost

ASSUME PortsAssumption ==
    /\ MAX_PORTS \in Nat /\ MaxPortFaults \in Nat
    /\ UserPorts \cap ServicePorts = {}
    /\ "worker" \notin PortRequests /\ "late" \notin PortRequests
    /\ "none" \notin PortSlots /\ "gone" \notin PortSlots

VARIABLES
    published,   \* rows of exposed_ports
    slotOf,      \* slot of each workspace row
    push,        \* calls of expose_port under way
    rulesFile,   \* PORT_RULES_FILE
    rules,       \* what the kernel forwards
    request,     \* API requests
    keeper,      \* the worker
    portFaults

portVars == <<published, slotOf, push, rulesFile, rules, request, keeper, portFaults>>

Pushers == PortRequests \cup {"worker"}
Calls == Pushers \cup {"late"}  \* a caller gave up on the last; it is still served
Rows == [ws : PortMachines, port : UserPorts \cup ServicePorts, ext : Externals]
Rule == [ext : Externals, port : UserPorts \cup ServicePorts, slot : PortSlots]
Quiet == [at |-> "none", map |-> {}]
NewRequest == [at |-> "idle", ws |-> CHOOSE w \in PortMachines : TRUE,
               port |-> CHOOSE p \in UserPorts : TRUE, row |-> {}]

PortsTypeOK ==
    /\ published \subseteq Rows
    /\ slotOf \in [PortMachines -> PortSlots \cup {"none", "gone"}]
    /\ push \in [Calls -> [at : {"none", "sent", "written", "ok", "failed"}, map : SUBSET Rule]]
    /\ rulesFile \subseteq Rule /\ rules \subseteq Rule
    /\ request \in [PortRequests ->
         [at : {"idle", "insert", "publish", "wait", "again", "ignore", "removing", "done"},
          ws : PortMachines, port : UserPorts, row : SUBSET Rows]]
    /\ keeper \in [at : {"idle", "push", "pushing", "removing", "destroying"},
                   ws : PortMachines]
    /\ portFaults \in 0..MaxPortFaults

PortsInit ==
    /\ published = {} /\ rulesFile = {} /\ rules = {}
    /\ slotOf = [w \in PortMachines |-> "none"]
    /\ push = [c \in Calls |-> Quiet]
    /\ request = [r \in PortRequests |-> NewRequest]
    /\ keeper = [at |-> "idle", ws |-> CHOOSE w \in PortMachines : TRUE]
    /\ portFaults = 0

Lives(w) == slotOf[w] \in PortSlots
FreePorts == Externals \ {p.ext : p \in published}
Of(w) == {p \in published : p.ws = w}

-----------------------------------------------------------------------------
(* The firewall push: service.sync_published_ports, provisioner.expose_port *)

workspace_ip(w) == slotOf[w]

sync_published_ports(caller, rows) ==
    push' = [push EXCEPT ![caller] =
        [at |-> "sent",
         map |-> {[ext |-> p.ext, port |-> p.port, slot |-> workspace_ip(p.ws)] : p \in rows}]]

PushFault == portFaults < MaxPortFaults /\ portFaults' = portFaults + 1

\* A call the caller gave up on has nobody to answer to.
Answer(c, at) ==
    push' = [push EXCEPT ![c] = IF c = "late" THEN Quiet ELSE [at |-> at, map |-> {}]]

WriteRules(c) ==
    /\ push[c].at = "sent"
    /\ \/ /\ rulesFile' = push[c].map
          /\ push' = [push EXCEPT ![c] = [at |-> "written", map |-> {}]]
          /\ UNCHANGED portFaults
       \/ PushFault /\ Answer(c, "failed") /\ UNCHANGED rulesFile
    /\ UNCHANGED <<published, slotOf, rules, request, keeper>>

\* nft reads the file as it is now.  While another thread is between opening
\* and writing it, nft finds it empty (no error, no change) or cut off.
LoadRules(c) ==
    /\ push[c].at = "written"
    /\ \/ rules' = rulesFile /\ Answer(c, "ok") /\ UNCHANGED portFaults
       \/ PushFault /\ Answer(c, "failed") /\ UNCHANGED rules
       \/ /\ \E other \in Calls \ {c} : push[other].at = "sent"
          /\ PushFault /\ \E at \in {"ok", "failed"} : Answer(c, at)
          /\ UNCHANGED rules
    /\ UNCHANGED <<published, slotOf, rulesFile, request, keeper>>

\* The caller's timeout: a failure to it, nothing to the provisioner.
GiveUp(c) ==
    /\ c # "late" /\ push[c].at \in {"sent", "written"} /\ push["late"] = Quiet
    /\ PushFault
    /\ push' = [push EXCEPT !["late"] = push[c], ![c] = [at |-> "failed", map |-> {}]]
    /\ UNCHANGED <<published, slotOf, rulesFile, rules, request, keeper>>

Answered(c) == push[c].at \in {"ok", "failed"}
Returns(c) == push' = [push EXCEPT ![c] = Quiet]

-----------------------------------------------------------------------------
(* Reservations: ports.allocate, release, reserve_service_ports *)

\* Mutant: a number free when looked up is taken without the unique index.
FreeAsRead == Externals \ {p.ext : p \in {q \in published : q.port \in ServicePorts}}

\* What the unique indices and the foreign key of exposed_ports let in.  A
\* number lost to another request is tried again with another.
Insertable == FreePorts

MayInsert(w, port) == Lives(w) /\ \A p \in Of(w) : p.port # port

Missing == {d \in PortMachines \X ServicePorts : MayInsert(d[1], d[2])}

\* Both services of every machine in ws that lacks one.
reserve_service_ports(ws) ==
    \E number \in [{d \in Missing : d[1] \in ws} -> Insertable] :
        /\ \A c, d \in DOMAIN number : c # d => number[c] # number[d]
        /\ published' = published \cup
             {[ws |-> d[1], port |-> d[2], ext |-> number[d]] : d \in DOMAIN number}

RequestBecomes(r, at) == request' = [request EXCEPT ![r].at = at]
RequestEnds(r) == request' = [request EXCEPT ![r] = [NewRequest EXCEPT !.at = "done"]]

\* create_port up to the count of the machine's ports.
allocate(r, w, port) ==
    /\ request[r].at = "idle"
    /\ MayInsert(w, port)
    /\ Cardinality({p \in Of(w) : p.port \in UserPorts}) < MAX_PORTS
    /\ request' = [request EXCEPT ![r] = [@ EXCEPT !.at = "insert", !.ws = w, !.port = port]]
    /\ UNCHANGED <<published, slotOf, push, rulesFile, rules, keeper, portFaults>>

Insert(r) ==
    /\ request[r].at = "insert"
    /\ LET w == request[r].ws  port == request[r].port IN
       IF MayInsert(w, port) /\ Insertable # {}
       THEN \E e \in Insertable :
              LET row == [ws |-> w, port |-> port, ext |-> e] IN
              /\ published' = published \cup {row}
              /\ request' = [request EXCEPT ![r] =
                               [NewRequest EXCEPT !.at = "publish", !.row = {row}]]
       ELSE RequestEnds(r) /\ UNCHANGED published  \* port_exhausted
    /\ UNCHANGED <<slotOf, push, rulesFile, rules, keeper, portFaults>>

Publish(r) ==
    /\ request[r].at = "publish" /\ RequestBecomes(r, "wait")
    /\ sync_published_ports(r, published)
    /\ UNCHANGED <<published, slotOf, rulesFile, rules, keeper, portFaults>>

\* A release of a row that is gone raises, and no second push follows.
create_port(r) ==
    /\ request[r].at = "wait" /\ Answered(r) /\ Returns(r)
    /\ IF push[r].at = "ok" \/ ~request[r].row \subseteq published
       THEN RequestEnds(r) /\ UNCHANGED published
       ELSE /\ published' = published \ request[r].row
            /\ request' = [request EXCEPT ![r] = [NewRequest EXCEPT !.at = "again"]]
    /\ UNCHANGED <<slotOf, rulesFile, rules, keeper, portFaults>>

PushAgain(r) ==
    /\ request[r].at = "again" /\ RequestBecomes(r, "ignore")
    /\ sync_published_ports(r, published)
    /\ UNCHANGED <<published, slotOf, rulesFile, rules, keeper, portFaults>>

Ignore(r) ==
    /\ request[r].at = "ignore" /\ Answered(r) /\ Returns(r) /\ RequestEnds(r)
    /\ UNCHANGED <<published, slotOf, rulesFile, rules, keeper, portFaults>>

Unpublish(r, row) ==
    /\ request[r].at = "idle"
    /\ row \in published /\ row.port \in UserPorts
    /\ sync_published_ports(r, published \ {row})
    /\ request' = [request EXCEPT ![r] = [@ EXCEPT !.at = "removing", !.row = {row}]]
    /\ UNCHANGED <<published, slotOf, rulesFile, rules, keeper, portFaults>>

delete_port(r) ==
    /\ request[r].at = "removing" /\ Answered(r) /\ Returns(r) /\ RequestEnds(r)
    /\ published' = IF push[r].at = "ok" THEN published \ request[r].row ELSE published
    /\ UNCHANGED <<slotOf, rulesFile, rules, keeper, portFaults>>

\* services(): looking at the Connections page reserves what is missing.
service_ports(r, w) ==
    /\ request[r].at = "idle"
    /\ \E d \in Missing : d[1] = w
    /\ reserve_service_ports({w}) /\ RequestBecomes(r, "again")
    /\ UNCHANGED <<slotOf, push, rulesFile, rules, keeper, portFaults>>

-----------------------------------------------------------------------------
(* The worker *)

\* _workspace_create; the worker may die before it has reserved the ports.
Create(w, s) ==
    /\ keeper.at = "idle"
    /\ slotOf[w] = "none" /\ \A v \in PortMachines : slotOf[v] # s
    /\ slotOf' = [slotOf EXCEPT ![w] = s]
    /\ \/ \E number \in [ServicePorts -> Insertable] :
            /\ \A c, d \in ServicePorts : c # d => number[c] # number[d]
            /\ published' = published \cup
                 {[ws |-> w, port |-> p, ext |-> number[p]] : p \in ServicePorts}
       \/ UNCHANGED published
    /\ UNCHANGED <<push, rulesFile, rules, request, keeper, portFaults>>

reserve_service_ports_once ==
    /\ keeper.at = "idle"
    /\ reserve_service_ports(PortMachines)
    /\ keeper' = [keeper EXCEPT !.at = "push"]
    /\ UNCHANGED <<slotOf, push, rulesFile, rules, request, portFaults>>

\* Mutant: pushes only when a reservation was made.
PassPushesIfFixed ==
    /\ keeper.at = "push"
    /\ IF \A p \in published : \E x \in rules : x.ext = p.ext
       THEN keeper' = [keeper EXCEPT !.at = "idle"] /\ UNCHANGED push
       ELSE sync_published_ports("worker", published) /\ keeper' = [keeper EXCEPT !.at = "pushing"]
    /\ UNCHANGED <<published, slotOf, rulesFile, rules, request, portFaults>>

PassPushes ==
    /\ keeper.at = "push"
    /\ sync_published_ports("worker", published)
    /\ keeper' = [keeper EXCEPT !.at = "pushing"]
    /\ UNCHANGED <<published, slotOf, rulesFile, rules, request, portFaults>>

PassEnds ==
    /\ keeper.at = "pushing" /\ Answered("worker") /\ Returns("worker")
    /\ keeper' = [keeper EXCEPT !.at = "idle"]
    /\ UNCHANGED <<published, slotOf, rulesFile, rules, request, portFaults>>

Remove(w) ==
    /\ keeper.at = "idle" /\ Lives(w)
    /\ sync_published_ports("worker", published \ Of(w))
    /\ keeper' = [at |-> "removing", ws |-> w]
    /\ UNCHANGED <<published, slotOf, rulesFile, rules, request, portFaults>>

Destroy ==
    /\ keeper.at = "removing" /\ Answered("worker") /\ Returns("worker")
    /\ keeper' = [keeper EXCEPT !.at = IF push["worker"].at = "ok" THEN "destroying" ELSE "idle"]
    /\ UNCHANGED <<published, slotOf, rulesFile, rules, request, portFaults>>

workspace_delete ==
    /\ keeper.at = "destroying" /\ keeper' = [keeper EXCEPT !.at = "idle"]
    /\ \/ /\ published' = published \ Of(keeper.ws)
          /\ slotOf' = [slotOf EXCEPT ![keeper.ws] = "gone"]
          /\ UNCHANGED portFaults
       \/ PushFault /\ UNCHANGED <<published, slotOf>>
    /\ UNCHANGED <<push, rulesFile, rules, request>>

-----------------------------------------------------------------------------
Serves(c) == WriteRules(c) \/ LoadRules(c)
Handles(r) == \/ Insert(r) \/ Publish(r) \/ create_port(r) \/ PushAgain(r)
              \/ Ignore(r) \/ delete_port(r)
Works == \/ reserve_service_ports_once \/ PassPushes \/ PassEnds
         \/ Destroy \/ workspace_delete

PortsNext ==
    \/ \E c \in Calls : Serves(c) \/ GiveUp(c)
    \/ \E r \in PortRequests : Handles(r)
    \/ \E r \in PortRequests, w \in PortMachines :
         service_ports(r, w) \/ \E p \in UserPorts : allocate(r, w, p)
    \/ \E r \in PortRequests, row \in published : Unpublish(r, row)
    \/ Works
    \/ \E w \in PortMachines : Remove(w) \/ \E s \in PortSlots : Create(w, s)

PortsSpec == PortsInit /\ [][PortsNext]_portVars

-----------------------------------------------------------------------------
Leads(rows) == {[ext |-> p.ext, port |-> p.port, slot |-> workspace_ip(p.ws)] : p \in rows}

\* A public port leads to one place, in the table and in the rules of the
\* kernel, whoever allocates and whichever set arrives last.
OneOwnerPerPort ==
    /\ \A p, q \in published : p.ext = q.ext => p = q
    /\ \A x, y \in rules : x.ext = y.ext => x = y

\* The pushes of requests, of the worker and of calls nobody waits for any
\* more arrive in any order; in the end the kernel forwards what the table
\* says, and nothing else.
RulesFollowRows == <>[](rules = Leads(published))

\* Promise: reachability goes before the reservation (app.py:1459), so a port
\* no row holds any more is closed.
NoRuleWithoutRow ==
    \A x \in rules : \E p \in published : p.ext = x.ext

\* Promise: a machine's rules go before it is destroyed (worker.py:1151), so
\* that whoever is given its slot next starts with no door open.
NewMachineIsClosed ==
    [][\A w \in PortMachines, x \in rules :
         slotOf[w] = "none" => slotOf'[w] # x.slot]_portVars

\* Promise: at most MAX_PORTS_PER_WORKSPACE customer ports (ports.py:166).
LimitKept ==
    \A w \in PortMachines : Cardinality({p \in Of(w) : p.port \in UserPorts}) <= MAX_PORTS

\* Promise: "an address a customer has already written down is never moved"
\* (ports.py:212).
ServiceAddressStays ==
    [][\A p \in published : p.port \in ServicePorts /\ slotOf'[p.ws] \in PortSlots
         => p \in published']_portVars
=============================================================================
