-------------------------- MODULE OperationsProofs --------------------------
(***************************************************************************)
(* For any number of customers, slots, handlers, requests and faults, as   *)
(* long as the worker does not die and no call of the provisioner times    *)
(* out: whose machine a row names, and what ends a transition.             *)
(***************************************************************************)
EXTENDS Operations, FiniteSetTheorems, WellFoundedInduction, TLAPS

\* Every verb ends while the worker waits for it.
Orderly == Failures \cap {"worker", "timeout"} = {}

-----------------------------------------------------------------------------
(* The inductive invariant.                                                  *)

\* Rows have slots of their own, and accounts that are gone have none.
RowsApart == \A u, v \in Users : row[u] # NoRow /\ row[v] # NoRow /\ row[u].slot = row[v].slot => u = v
GoneHaveNoRow == \A u \in Users : status[u] = "gone" => row[u] = NoRow

\* There is an id left for every handler in flight.
InFlight == {h \in Sessions : api[h] # Idle}
IdsSuffice ==
    /\ Cardinality(InFlight) + issued <= requests
    /\ \A o \in OpIds : o > issued => ops[o] = NoOp

\* A handler's copy is of a row that was; if it is still there it has kept its slot.
HandlerAgrees(r) ==
    /\ r.life <= life[r.user]
    /\ r.ws # NoRow /\ SameRow(r) => row[r.user].slot = r.ws.slot
    /\ r.pc \in {"recorded", "checked"} /\ r.kind \notin {"create", "purge"} => r.ws # NoRow
    /\ r.pc = "checked" => r.kind # "off"
HandlersAgree == \A h \in Sessions : api[h] # Idle => HandlerAgrees(api[h])

\* What is attached has a row.
AttachedHaveRow == \A o \in OpIds : \A u \in Users : OfRow(o, u) => row[u] # NoRow

\* The worker's operation is there, with the row of its copy until it has removed that.
Hand == ops[wk.op]
Removed == wk.pc = "finish" /\ Hand.kind = "delete"
WorkerAgrees == wk # Idle =>
    /\ Hand # NoOp
    /\ Hand.status = "running" \/ (Hand.status = "failed" /\ Hand.kind = "create" /\ wk.verb = "destroy")
    /\ wk.verb = Verb(Hand.kind) \/ (Hand.kind = "create" /\ Hand.status = "failed")
    /\ wk.ws # NoRow /\ ~Removed => row[Hand.user] # NoRow /\ row[Hand.user].slot = wk.ws.slot
    /\ wk.ws = NoRow => Hand.kind = "purge" /\ wk.pc \in {"withdraw", "erase"}
    /\ wk.pc = "erase" => wk.ws = NoRow
    /\ wk.pc = "withdraw" => Hand.kind \in Cleanups
    /\ wk.pc = "finish" => Hand.kind # "purge" /\ Hand.status = "running"
    /\ Hand.kind # "purge" /\ ~Removed => Hand.attached

\* The provisioner works for the worker, which waits.
CallAgrees(c) ==
    /\ wk # Idle /\ wk.pc = "wait" /\ c.heard
    /\ c.verb = wk.verb /\ c.slot = wk.ws.slot /\ c.user = Hand.user
    /\ c.stage = "build" => /\ c.verb # "destroy"
                            /\ project[c.slot] # Empty /\ project[c.slot].owner = c.user
CallsAgree == (\A c \in calls : CallAgrees(c)) /\ \A c, d \in calls : c = d

\* What the worker has been told is so.
AnswersHold == wk # Idle =>
    /\ wk.pc \in {"done", "finish"} /\ wk.verb # "destroy" =>
         project[wk.ws.slot] # Empty /\ project[wk.ws.slot].owner = Hand.user
    /\ wk.pc = "done" /\ wk.verb = "destroy" => project[wk.ws.slot] = Empty

\* Somebody will end what a row announces, or has ended it.
Handles(h, u, kind) == Announces(api[h]) /\ api[h].user = u /\ api[h].kind = kind
Carries(o, u, kind) == OfRow(o, u) /\ ops[o].kind = kind
                       /\ (Unfinished(o) \/ (kind = "create" /\ wk # Idle /\ wk.op = o))
Building(u) ==
    \/ Unqueued(u, "create")
    \/ \E h \in Sessions : Handles(h, u, "create")
    \/ \E o \in OpIds : Carries(o, u, "create")

\* The slot of a row is empty, its customer's, or to be filled by a creation.
Fits(u) == row[u] # NoRow =>
    \/ project[row[u].slot] = Empty
    \/ project[row[u].slot].owner = u
    \/ Building(u)
Theirs == \A u \in Users : Fits(u)

\* A usable row has a machine until the worker has destroyed it.
Exists(u) == row[u].state = "ready" /\ project[row[u].slot] = Empty =>
    wk # Idle /\ wk.pc = "done" /\ wk.verb = "destroy" /\ Hand.user = u
UsableExists == \A u \in Users : Exists(u)

\* The operation in hand ends a transition only if it was announced when it was loaded:
\* what the worker writes back is what differs from its copy.
WillEnd(o) == wk # Idle /\ wk.op = o => wk.pc # "finish" /\ wk.ws.state \notin {"ready", "error"}
Tended(u, kind) ==
    \/ Unqueued(u, kind)
    \/ \E h \in Sessions : Handles(h, u, kind)
    \/ \E o \in OpIds : Carries(o, u, kind) /\ WillEnd(o)
Ended(u) == row[u].state \in DOMAIN Announcing => Tended(u, Announcing[row[u].state])
TransitionsEnd == \A u \in Users : Ended(u)

IInv == /\ TypeOK /\ RowsApart /\ GoneHaveNoRow /\ IdsSuffice /\ HandlersAgree /\ AttachedHaveRow
        /\ WorkerAgrees /\ CallsAgree /\ AnswersHold /\ Theirs /\ UsableExists /\ TransitionsEnd

USE OperationsAssumption DEF Slots, OpIds

-----------------------------------------------------------------------------
(* What the types say.                                                       *)

\* Every nonempty set of natural numbers has a least element.
LEMMA Least == ASSUME NEW A \in SUBSET Nat, A # {} PROVE \E n \in A : \A k \in A : n <= k
  <1>1. IsWellFoundedOn(OpToRel(<, Nat), Nat)
    BY NatLessThanWellFounded
  <1>2. PICK n \in A : \A k \in A : ~ (<<k, n>> \in OpToRel(<, Nat))
    BY <1>1, WFMin
  <1>3. \A k \in A : ~(k < n)
    BY <1>2 DEF OpToRel
  <1> QED
    BY <1>3

LEMMA Words ==
    /\ DOMAIN Announcing = {"provisioning", "resetting", "deleting"}
    /\ Announcing["provisioning"] = "create" /\ Announcing["resetting"] = "reset" /\ Announcing["deleting"] = "delete"
    /\ Announced["delete"] = "deleting" /\ Announced["reset"] = "resetting" /\ Announced["off"] = "stopping"
  BY DEF Announcing, Announced

LEMMA RowFields ==
    ASSUME NEW r \in Row \cup {NoRow}
    PROVE  /\ r = NoRow <=> r.state = "none"
           /\ r # NoRow => /\ r \in Row /\ r.slot \in Slots
                           /\ r.state \in {"provisioning", "ready", "stopping", "error", "resetting", "deleting"}
  BY DEF Row, NoRow

LEMMA OpFields ==
    ASSUME NEW o \in Op \cup {NoOp}
    PROVE  /\ o = NoOp <=> o.status = "none"
           /\ o # NoOp => /\ o \in Op /\ o.kind \in Kinds /\ o.user \in Users /\ o.attached \in BOOLEAN
                          /\ o.status \in {"queued", "running", "failed", "succeeded"}
  BY DEF Op, NoOp

LEMMA HandlerFields ==
    ASSUME NEW r \in Handler \cup {Idle}
    PROVE  /\ r = Idle <=> r.pc = "idle"
           /\ r # Idle => /\ r \in Handler /\ r.pc \in {"loaded", "recorded", "checked"}
                          /\ r.kind \in Kinds \cup {"off"} /\ r.user \in Users /\ r.ws \in Row \cup {NoRow}
                          /\ r.life \in Nat /\ r.slot \in 1 .. MaxSlot + 1 /\ r.status \in {"approved", "deleting"}
  BY DEF Handler, Idle

LEMMA HandFields ==
    ASSUME NEW w \in InHand \cup {Idle}
    PROVE  /\ w = Idle <=> w.pc = "idle"
           /\ w # Idle => /\ w \in InHand /\ w.op \in OpIds /\ w.ws \in Row \cup {NoRow}
                          /\ w.pc \in {"withdraw", "send", "wait", "done", "refused", "finish", "erase"}
                          /\ w.verb \in {"provision", "reset", "destroy"}
  BY DEF InHand, Idle

LEMMA MachineFields ==
    ASSUME NEW p \in Machine \cup {Empty}
    PROVE  p # Empty => p \in Machine /\ p.owner \in Users /\ p.whole \in BOOLEAN
  BY DEF Machine, Empty

LEMMA CallFields ==
    ASSUME NEW c \in Call
    PROVE  /\ c.verb \in {"provision", "reset", "destroy"} /\ c.slot \in Slots /\ c.user \in Users
           /\ c.stage \in {"begin", "build"} /\ c.heard \in BOOLEAN
  BY DEF Call

LEMMA Verbs ==
    ASSUME NEW kind \in Kinds
    PROVE  /\ Verb(kind) \in {"provision", "reset", "destroy"}
           /\ Verb(kind) = "provision" <=> kind = "create"
           /\ Verb(kind) = "reset" <=> kind = "reset"
           /\ Verb(kind) = "destroy" <=> kind \in Cleanups
  BY DEF Kinds, Verb, Cleanups

\* The rows take MaxSlot slots at most.
LEMMA FreeSlotType == ASSUME row \in [Users -> Row \cup {NoRow}] PROVE FreeSlot \in 1 .. MaxSlot + 1
  <1> DEFINE F == {s \in 1 .. MaxSlot + 1 : \A u \in Users : row[u] = NoRow \/ row[u].slot # s}
  <1>1. MaxSlot + 1 \in F
    BY RowFields
  <1>2. PICK s \in F : \A t \in F : s <= t
    <2> HIDE DEF F
    <2>1. F \in SUBSET Nat
      BY DEF F
    <2> QED
      BY <1>1, <2>1, Least
  <1>3. \A t \in 1 .. s - 1 : t \notin F /\ t \in 1 .. MaxSlot + 1
    BY <1>2
  <1>4. \A t \in 1 .. s - 1 : \E u \in Users : row[u] # NoRow /\ row[u].slot = t
    BY <1>3
  <1> QED
    BY <1>2, <1>4 DEF FreeSlot

-----------------------------------------------------------------------------
(* Type correctness.                                                         *)

\* The row of a handler's copy, if it is still there.
LEMMA SameRowType ==
    ASSUME TypeOK, NEW r \in Handler, SameRow(r)
    PROVE  r.user \in Users /\ row[r.user] \in Row
  BY HandlerFields, RowFields DEF TypeOK, SameRow, Handler, Idle

\* Writing one state of one row.
LEMMA SaveType ==
    ASSUME TypeOK, NEW u \in Users, row[u] # NoRow, NEW copy, NEW new, Save(u, copy, new),
           new \in {"provisioning", "ready", "stopping", "error", "resetting", "deleting"}
    PROVE  /\ row' \in [Users -> Row \cup {NoRow}]
           /\ \A v \in Users : (row'[v] = NoRow <=> row[v] = NoRow) /\ row'[v].slot = row[v].slot
           /\ \A v \in Users \ {u} : row'[v] = row[v]
           /\ row'[u].state = IF copy = new THEN row[u].state ELSE new
  <1>1. row[u] \in Row
    BY RowFields DEF TypeOK
  <1>2. [row[u] EXCEPT !.state = new] \in Row /\ [row[u] EXCEPT !.state = new].slot = row[u].slot
    BY <1>1 DEF Row
  <1>3. [row[u] EXCEPT !.state = new] # NoRow /\ [row[u] EXCEPT !.state = new].state = new
    BY <1>1, <1>2 DEF Row, NoRow
  <1> QED
    BY <1>1, <1>2, <1>3 DEF Save, TypeOK

\* Marking one operation.
LEMMA MarkType ==
    ASSUME TypeOK, NEW o \in OpIds, ops[o] # NoOp, NEW new, Mark(o, new),
           new \in {"queued", "running", "failed", "succeeded"}
    PROVE  /\ ops' \in [OpIds -> Op \cup {NoOp}]
           /\ \A p \in OpIds \ {o} : ops'[p] = ops[p]
           /\ ops'[o].kind = ops[o].kind /\ ops'[o].user = ops[o].user /\ ops'[o].attached = ops[o].attached
           /\ ops'[o].status = new /\ ops'[o] # NoOp
  <1>1. ops[o] \in Op
    BY OpFields DEF TypeOK
  <1>2. [ops[o] EXCEPT !.status = new] \in Op
    BY <1>1 DEF Op
  <1>3. /\ [ops[o] EXCEPT !.status = new].kind = ops[o].kind /\ [ops[o] EXCEPT !.status = new].user = ops[o].user
        /\ [ops[o] EXCEPT !.status = new].attached = ops[o].attached
        /\ [ops[o] EXCEPT !.status = new].status = new
    BY <1>1 DEF Op
  <1>4. [ops[o] EXCEPT !.status = new] # NoOp
    BY <1>2, <1>3 DEF NoOp
  <1> QED
    BY <1>2, <1>3, <1>4 DEF Mark, TypeOK

\* The next place of the worker.
LEMMA StepType ==
    ASSUME TypeOK, wk # Idle, NEW pc, Step(pc),
           pc \in {"withdraw", "send", "wait", "done", "refused", "finish", "erase"}
    PROVE  /\ wk' \in InHand \cup {Idle} /\ wk' # Idle
           /\ wk'.pc = pc /\ wk'.op = wk.op /\ wk'.verb = wk.verb /\ wk'.ws = wk.ws
  <1>1. wk \in InHand
    BY HandFields DEF TypeOK
  <1>2. wk' \in InHand /\ wk'.pc = pc /\ wk'.op = wk.op /\ wk'.verb = wk.verb /\ wk'.ws = wk.ws
    BY <1>1 DEF Step, InHand
  <1> QED
    BY <1>2 DEF Idle

\* A handler in flight has an id left.
LEMMA IdLeft ==
    ASSUME TypeOK, IdsSuffice, NEW h \in Sessions, api[h] # Idle
    PROVE  issued + 1 \in OpIds /\ issued + 1 \in 0 .. MaxRequests /\ ops[issued + 1] = NoOp
  <1>1. IsFiniteSet(InFlight) /\ Cardinality(InFlight) \in Nat
    BY FS_Subset, FS_CardinalityType DEF InFlight
  <1>2. Cardinality(InFlight) # 0
    BY <1>1, FS_EmptySet DEF InFlight
  <1> QED
    BY <1>1, <1>2 DEF IdsSuffice, TypeOK

\* What the provisioner works at, the worker waits for.
LEMMA CallType ==
    ASSUME TypeOK, WorkerAgrees, CallsAgree, NEW c \in calls
    PROVE  /\ c \in Call /\ c.slot \in Slots /\ c.user \in Users /\ c.heard = TRUE
           /\ wk # Idle /\ wk.pc = "wait" /\ wk.op \in OpIds /\ wk.ws # NoRow
           /\ c.verb = wk.verb /\ c.slot = wk.ws.slot /\ c.user = Hand.user
           /\ calls \ {c} = {}
  <1>1. CallAgrees(c) /\ \A d \in calls : d = c
    BY DEF CallsAgree
  <1>2. c \in Call /\ wk # Idle /\ wk.pc = "wait"
    BY <1>1 DEF TypeOK, CallAgrees
  <1>3. c.slot \in Slots /\ c.user \in Users /\ c.heard = TRUE
    BY <1>1, <1>2, CallFields DEF CallAgrees
  <1>4. wk.op \in OpIds /\ wk.ws # NoRow
    BY <1>2, HandFields DEF TypeOK, WorkerAgrees
  <1>5. calls \ {c} = {}
    BY <1>1
  <1> QED
    BY <1>1, <1>2, <1>3, <1>4, <1>5 DEF CallAgrees

\* The operation in hand.
LEMMA HandType ==
    ASSUME TypeOK, WorkerAgrees, wk # Idle
    PROVE  /\ wk.op \in OpIds /\ Hand # NoOp /\ Hand \in Op
           /\ Hand.user \in Users /\ Hand.kind \in Kinds /\ Hand.attached \in BOOLEAN
           /\ wk.ws \in Row \cup {NoRow}
           /\ wk.ws # NoRow => wk.ws.slot \in Slots
  <1>1. wk.op \in OpIds /\ Hand # NoOp
    BY HandFields DEF TypeOK, WorkerAgrees
  <1>2. ops[wk.op] \in Op \cup {NoOp}
    BY <1>1 DEF TypeOK
  <1>3. wk.ws \in Row \cup {NoRow}
    BY HandFields DEF TypeOK
  <1> QED
    BY <1>1, <1>2, <1>3, OpFields, RowFields DEF Hand

LEMMA RequestType ==
    ASSUME TypeOK, NEW h \in Sessions, NEW u \in Users, NEW k \in Kinds \cup {"off"}, Request(h, u, k)
    PROVE  TypeOK' /\ api'[h] \in Handler /\ api'[h] # Idle
           /\ \A g \in Sessions \ {h} : api'[g] = api[g]
  <1> DEFINE r == [pc |-> "loaded", kind |-> k, user |-> u, ws |-> row[u],
                   life |-> life[u], slot |-> FreeSlot, status |-> status[u]]
  <1>1. r \in Handler /\ r # Idle
    <2>1. FreeSlot \in 1 .. MaxSlot + 1
      BY FreeSlotType DEF TypeOK
    <2>2. status[u] \in {"approved", "deleting"} /\ row[u] \in Row \cup {NoRow} /\ life[u] \in Nat
      BY DEF TypeOK, Request
    <2> HIDE DEF Slots
    <2> QED
      BY <2>1, <2>2 DEF Handler, Idle
  <1>2. api' = [api EXCEPT ![h] = r]
    BY DEF Request
  <1>3. api' \in [Sessions -> Handler \cup {Idle}] /\ api'[h] = r /\ \A g \in Sessions \ {h} : api'[g] = api[g]
    <2> HIDE DEF r
    <2> QED
      BY <1>1, <1>2 DEF TypeOK
  <1>4. requests' \in 0 .. MaxRequests
    BY DEF Request, TypeOK
  <1> QED
    BY <1>1, <1>3, <1>4 DEF Request, TypeOK, table, outside, answers

\* A handler writes its own record.
LEMMA HandlerType ==
    ASSUME TypeOK, NEW h \in Sessions, NEW r, r \in Handler \cup {Idle}, api' = [api EXCEPT ![h] = r]
    PROVE  api' \in [Sessions -> Handler \cup {Idle}] /\ api'[h] = r /\ \A g \in Sessions \ {h} : api'[g] = api[g]
  BY DEF TypeOK

\* ... the next place of it.
LEMMA PlaceType ==
    ASSUME TypeOK, NEW h \in Sessions, api[h] # Idle, NEW pc \in {"loaded", "recorded", "checked"},
           api' = [api EXCEPT ![h].pc = pc]
    PROVE  /\ api' \in [Sessions -> Handler \cup {Idle}] /\ \A g \in Sessions \ {h} : api'[g] = api[g]
           /\ api'[h] \in Handler /\ api'[h].pc = pc /\ api'[h].kind = api[h].kind /\ api'[h].user = api[h].user
           /\ api'[h].ws = api[h].ws /\ api'[h].life = api[h].life
  <1>1. api[h] \in Handler
    BY HandlerFields DEF TypeOK
  <1>2. /\ [api[h] EXCEPT !.pc = pc] \in Handler /\ [api[h] EXCEPT !.pc = pc].pc = pc
        /\ [api[h] EXCEPT !.pc = pc].kind = api[h].kind /\ [api[h] EXCEPT !.pc = pc].user = api[h].user
        /\ [api[h] EXCEPT !.pc = pc].ws = api[h].ws /\ [api[h] EXCEPT !.pc = pc].life = api[h].life
    BY <1>1 DEF Handler
  <1> QED
    BY <1>1, <1>2 DEF TypeOK

-----------------------------------------------------------------------------
(* What a step leaves alone.                                                 *)

LEMMA RowsApartKept == ASSUME RowsApart, row' = row PROVE RowsApart'
  BY DEF RowsApart
LEMMA GoneKept == ASSUME GoneHaveNoRow, row' = row, status' = status PROVE GoneHaveNoRow'
  BY DEF GoneHaveNoRow
LEMMA AttachedKept == ASSUME AttachedHaveRow, row' = row, ops' = ops PROVE AttachedHaveRow'
  BY DEF AttachedHaveRow, OfRow
\* ... for what is about the worker, whatever happens to other operations and other rows.
LEMMA WorkerKept ==
    ASSUME TypeOK, WorkerAgrees, wk' = wk, wk # Idle => ops'[wk.op] = ops[wk.op],
           \A u \in Users : row[u] # NoRow => row'[u] # NoRow /\ row'[u].slot = row[u].slot
    PROVE  WorkerAgrees'
  BY HandType DEF WorkerAgrees, Hand, Removed
LEMMA CallsKept ==
    ASSUME CallsAgree, calls' = calls, wk' = wk, wk # Idle => ops'[wk.op] = ops[wk.op], project' = project
    PROVE  CallsAgree'
  BY DEF CallsAgree, CallAgrees, Hand
LEMMA AnswersKept ==
    ASSUME AnswersHold, wk' = wk, wk # Idle => ops'[wk.op] = ops[wk.op], project' = project PROVE AnswersHold'
  BY DEF AnswersHold, Hand
LEMMA ExistsKept ==
    ASSUME UsableExists, wk' = wk, wk # Idle => ops'[wk.op] = ops[wk.op], project' = project,
           \A u \in Users : row'[u].state = "ready" => row'[u] = row[u] \/ project[row'[u].slot] # Empty
    PROVE  UsableExists'
  BY DEF UsableExists, Exists, Hand
LEMMA HandlersKept ==
    ASSUME HandlersAgree, api' = api, row' = row, life' = life PROVE HandlersAgree'
  BY DEF HandlersAgree, HandlerAgrees, SameRow

\* A handler that announces something still does, if its row is there.
LEMMA HandlesKept ==
    ASSUME NEW g \in Sessions, NEW u \in Users, NEW k, api'[g] = api[g], life'[u] = life[u],
           row[u] # NoRow => row'[u] # NoRow, Handles(g, u, k)
    PROVE  Handles(g, u, k)'
  BY DEF Handles, Announces, SameRow

\* An operation still ends what it was to end, if it and the worker are as before.
LEMMA CarriesKept ==
    ASSUME NEW o \in OpIds, NEW u \in Users, NEW k, ops'[o] = ops[o], Carries(o, u, k),
           wk # Idle /\ wk.op = o => wk' # Idle /\ wk'.op = o
    PROVE  Carries(o, u, k)'
  BY DEF Carries, OfRow, Unfinished, Active

LEMMA FitsKept ==
    ASSUME NEW u \in Users, Fits(u), row'[u].slot = row[u].slot, row'[u] # NoRow => row[u] # NoRow,
           project' = project, Building(u) => Building(u)'
    PROVE  Fits(u)'
  BY DEF Fits

\* Somebody still builds u's machine.
LEMMA BuildingKept ==
    ASSUME NEW u \in Users, Building(u), Unqueued(u, "create") => Unqueued(u, "create")',
           \A g \in Sessions : Handles(g, u, "create") => Handles(g, u, "create")' \/ Building(u)',
           \A o \in OpIds : Carries(o, u, "create") => Carries(o, u, "create")'
    PROVE  Building(u)'
  BY DEF Building

\* Somebody still ends such a transition of u's row.
LEMMA TendedKept ==
    ASSUME NEW u \in Users, NEW k, Tended(u, k), Unqueued(u, k) => Unqueued(u, k)',
           \A g \in Sessions : Handles(g, u, k) => Handles(g, u, k)' \/ Tended(u, k)',
           \A o \in OpIds : Carries(o, u, k) /\ WillEnd(o) => Carries(o, u, k)' /\ WillEnd(o)'
    PROVE  Tended(u, k)'
  BY DEF Tended

LEMMA EndedKept ==
    ASSUME NEW u \in Users, Ended(u), row'[u].state = row[u].state,
           \A k \in Kinds : Tended(u, k) => Tended(u, k)'
    PROVE  Ended(u)'
  <1>1. CASE row[u].state \in DOMAIN Announcing
    <2>1. PICK k : k = Announcing[row[u].state]
      OBVIOUS
    <2>2. k \in Kinds
      BY <1>1, <2>1, Words DEF Kinds
    <2>3. Tended(u, k)
      BY <1>1, <2>1, Zenon DEF Ended
    <2>4. Tended(u, k)'
      BY <2>2, <2>3
    <2> QED
      BY <2>1, <2>4 DEF Ended
  <1>2. CASE row[u].state \notin DOMAIN Announcing
    BY <1>2 DEF Ended
  <1> QED
    BY <1>1, <1>2

\* Handlers in flight.
LEMMA InFlightNat == ASSUME TypeOK PROVE IsFiniteSet(InFlight) /\ Cardinality(InFlight) \in Nat
  BY FS_Subset, FS_CardinalityType DEF InFlight

LEMMA Fewer ==
    ASSUME TypeOK, NEW h \in Sessions, api[h] # Idle, \A g \in Sessions \ {h} : api'[g] = api[g]
    PROVE  /\ Cardinality(InFlight') \in Nat /\ Cardinality(InFlight') <= Cardinality(InFlight)
           /\ api'[h] = Idle => Cardinality(InFlight') = Cardinality(InFlight) - 1
  <1>1. InFlight' \subseteq InFlight /\ (api'[h] = Idle => InFlight' = InFlight \ {h}) /\ h \in InFlight
    BY DEF InFlight
  <1>2. IsFiniteSet(InFlight) /\ Cardinality(InFlight) \in Nat
    BY InFlightNat
  <1>3. IsFiniteSet(InFlight') /\ Cardinality(InFlight') \in Nat /\ Cardinality(InFlight') <= Cardinality(InFlight)
    BY <1>1, <1>2, FS_Subset, FS_CardinalityType
  <1>4. Cardinality(InFlight \ {h}) = Cardinality(InFlight) - 1
    BY <1>1, <1>2, FS_RemoveElement
  <1> QED
    BY <1>1, <1>3, <1>4

LEMMA StillSuffice ==
    ASSUME TypeOK, IdsSuffice, NEW h \in Sessions, api[h] # Idle, \A g \in Sessions \ {h} : api'[g] = api[g],
           UNCHANGED <<ops, issued, requests>>
    PROVE  IdsSuffice'
  <1>1. Cardinality(InFlight') \in Nat /\ Cardinality(InFlight') <= Cardinality(InFlight)
    BY Fewer
  <1>2. Cardinality(InFlight') + issued <= requests
    BY <1>1, InFlightNat DEF IdsSuffice, TypeOK
  <1> QED
    BY <1>2 DEF IdsSuffice

-----------------------------------------------------------------------------
(* The API.                                                                  *)

\* A handler moves on without touching the tables.
LEMMA HandlerMoves ==
    ASSUME IInv, NEW h \in Sessions,
           TypeOK', GoneHaveNoRow', Cardinality(InFlight') + issued <= requests',
           UNCHANGED <<row, life, ops, issued, project, wk, calls>>,
           \A g \in Sessions \ {h} : api'[g] = api[g],
           api'[h] # Idle => HandlerAgrees(api'[h]),
           joined \subseteq joined', lost \subseteq lost',
           \A u \in Users, k \in Kinds : Handles(h, u, k) => Handles(h, u, k)' \/ Unqueued(u, k)'
    PROVE  IInv'
  <1>1. RowsApart' /\ AttachedHaveRow' /\ WorkerAgrees' /\ CallsAgree' /\ AnswersHold' /\ UsableExists'
    BY RowsApartKept, AttachedKept, WorkerKept, CallsKept, AnswersKept, ExistsKept DEF IInv
  <1>2. IdsSuffice'
    BY DEF IInv, IdsSuffice
  <1>3. HandlersAgree'
    <2>1. ASSUME NEW g \in Sessions, api'[g] # Idle PROVE HandlerAgrees(api[g])'
      <3>1. HandlerAgrees(api'[g])
        BY <2>1 DEF IInv, HandlersAgree
      <3> QED
        BY <3>1 DEF HandlerAgrees, SameRow
    <2> QED
      BY <2>1 DEF HandlersAgree
  <1>4. ASSUME NEW u \in Users, NEW k \in Kinds
        PROVE  /\ Unqueued(u, k) => Unqueued(u, k)'
               /\ \A g \in Sessions : Handles(g, u, k) => Handles(g, u, k)' \/ Unqueued(u, k)'
               /\ \A o \in OpIds : /\ Carries(o, u, k) => Carries(o, u, k)'
                                   /\ WillEnd(o) => WillEnd(o)'
    <2>1. Unqueued(u, k) => Unqueued(u, k)'
      BY DEF Unqueued
    <2>2. ASSUME NEW g \in Sessions, Handles(g, u, k) PROVE Handles(g, u, k)' \/ Unqueued(u, k)'
      BY <2>2, HandlesKept
    <2>3. ASSUME NEW o \in OpIds, Carries(o, u, k) PROVE Carries(o, u, k)'
      BY <2>3, CarriesKept
    <2>4. ASSUME NEW o \in OpIds, WillEnd(o) PROVE WillEnd(o)'
      BY <2>4 DEF WillEnd
    <2> QED
      BY <2>1, <2>2, <2>3, <2>4
  <1>5. Theirs'
    <2>1. ASSUME NEW u \in Users PROVE Fits(u)'
      <3>1. Building(u) => Building(u)'
        <4>1. "create" \in Kinds
          BY DEF Kinds
        <4>2. ASSUME NEW g \in Sessions, Handles(g, u, "create") PROVE Handles(g, u, "create")' \/ Building(u)'
          BY <1>4, <4>1, <4>2 DEF Building
        <4> QED
          BY <1>4, <4>1, <4>2, BuildingKept
      <3> QED
        BY <3>1, FitsKept DEF IInv, Theirs
    <2> QED
      BY <2>1 DEF Theirs
  <1>6. TransitionsEnd'
    <2>1. ASSUME NEW u \in Users PROVE Ended(u)'
      <3>1. ASSUME NEW k \in Kinds, Tended(u, k) PROVE Tended(u, k)'
        <4>1. ASSUME NEW g \in Sessions, Handles(g, u, k) PROVE Handles(g, u, k)' \/ Tended(u, k)'
          BY <1>4, <4>1 DEF Tended
        <4> QED
          BY <1>4, <3>1, <4>1, TendedKept
      <3> QED
        BY <3>1, EndedKept DEF IInv, TransitionsEnd
    <2> QED
      BY <2>1 DEF TransitionsEnd
  <1> QED
    BY <1>1, <1>2, <1>3, <1>5, <1>6 DEF IInv

\* A handler that ends leaves no announcement untended.
LEMMA HandlerLeaves ==
    ASSUME IInv, NEW h \in Sessions, api[h] # Idle, Leave(h),
           UNCHANGED <<status, row, life, ops, issued, project, wk, calls, requests, faults>>,
           promised' \subseteq Users, joined' \subseteq Users \X Kinds,
           joined \subseteq joined', lost' = lost,
           \A u \in Users, k \in Kinds : Handles(h, u, k) => Unqueued(u, k)'
    PROVE  IInv'
  <1>1. /\ api' \in [Sessions -> Handler \cup {Idle}] /\ api'[h] = Idle
        /\ \A g \in Sessions \ {h} : api'[g] = api[g]
    <2>1. TypeOK /\ Idle \in Handler \cup {Idle}
      BY DEF IInv
    <2> QED
      BY <2>1, HandlerType DEF Leave
  <1>2. TypeOK'
    BY <1>1 DEF IInv, TypeOK
  <1>3. GoneHaveNoRow'
    BY GoneKept DEF IInv
  <1>4. Cardinality(InFlight') + issued <= requests'
    BY <1>1, Fewer, InFlightNat DEF IInv, IdsSuffice, TypeOK
  <1> QED
    BY <1>1, <1>2, <1>3, <1>4, HandlerMoves

LEMMA RequestInv ==
    ASSUME IInv, NEW h \in Sessions, NEW u \in Users, NEW k \in Kinds \cup {"off"}, Request(h, u, k)
    PROVE  IInv'
  <1> USE DEF Request
  <1>1. TypeOK' /\ api'[h] # Idle /\ \A g \in Sessions \ {h} : api'[g] = api[g]
    BY RequestType DEF IInv
  <1>2. UNCHANGED <<status, row, life, ops, issued, project, wk, calls, promised, joined, lost>>
    BY DEF table, outside, answers
  <1>3. GoneHaveNoRow'
    BY <1>2, GoneKept DEF IInv
  <1>4. Cardinality(InFlight') + issued <= requests'
    <2>1. InFlight' = InFlight \cup {h} /\ h \notin InFlight
      BY <1>1 DEF InFlight
    <2>2. Cardinality(InFlight') = Cardinality(InFlight) + 1
      BY <2>1, InFlightNat, FS_AddElement DEF IInv
    <2> QED
      BY <2>2, InFlightNat DEF IInv, IdsSuffice, TypeOK
  <1>5. HandlerAgrees(api'[h])
    <2>1. /\ api'[h].pc = "loaded" /\ api'[h].user = u /\ api'[h].ws = row[u] /\ api'[h].life = life[u]
          /\ life[u] \in Nat
      BY DEF IInv, TypeOK
    <2> QED
      BY <2>1 DEF HandlerAgrees, SameRow
  <1>6. \A v \in Users, kind \in Kinds : ~Handles(h, v, kind)
    BY DEF Handles, Announces, Idle
  <1> QED
    BY <1>1, <1>2, <1>3, <1>4, <1>5, <1>6, HandlerMoves

LEMMA RefuseInv == ASSUME IInv, NEW h \in Sessions, Refuse(h) PROVE IInv'
  <1>1. api[h] # Idle /\ \A u \in Users, k \in Kinds : ~Handles(h, u, k)
    BY DEF Refuse, Handles, Announces, Idle
  <1>2. /\ UNCHANGED <<status, row, life, ops, issued, project, wk, calls, requests, faults>>
        /\ UNCHANGED <<promised, joined, lost>> /\ Leave(h)
    BY DEF Refuse, table, outside, answers, bounds
  <1>3. promised' \subseteq Users /\ joined' \subseteq Users \X Kinds
    BY <1>2 DEF IInv, TypeOK
  <1> QED
    BY <1>1, <1>2, <1>3, HandlerLeaves

\* A handler goes to its next place.
LEMMA HandlerContinues ==
    ASSUME IInv, NEW h \in Sessions, api[h] # Idle,
           NEW pc \in {"recorded", "checked"}, api' = [api EXCEPT ![h].pc = pc],
           status' \in [Users -> {"approved", "deleting", "gone"}], GoneHaveNoRow',
           UNCHANGED <<row, life, ops, issued, project, wk, calls, requests, faults, promised, joined, lost>>,
           api[h].kind \notin {"create", "purge"} => api[h].ws # NoRow,
           pc = "checked" => api[h].kind # "off"
    PROVE  IInv'
  <1>1. /\ api' \in [Sessions -> Handler \cup {Idle}] /\ \A g \in Sessions \ {h} : api'[g] = api[g]
        /\ api'[h] \in Handler /\ api'[h].pc = pc /\ api'[h].kind = api[h].kind /\ api'[h].user = api[h].user
        /\ api'[h].ws = api[h].ws /\ api'[h].life = api[h].life
    BY PlaceType DEF IInv
  <1>2. TypeOK'
    BY <1>1 DEF IInv, TypeOK
  <1>3. Cardinality(InFlight') + issued <= requests'
    BY <1>1, Fewer, InFlightNat DEF IInv, IdsSuffice, TypeOK
  <1>4. HandlerAgrees(api'[h])
    <2>1. HandlerAgrees(api[h])
      BY DEF IInv, HandlersAgree
    <2> QED
      BY <1>1, <2>1 DEF HandlerAgrees, SameRow
  <1>5. \A u \in Users, k \in Kinds : Handles(h, u, k) => Handles(h, u, k)'
    BY <1>1 DEF Handles, Announces, SameRow
  <1> QED
    BY <1>1, <1>2, <1>3, <1>4, <1>5, HandlerMoves

LEMMA RecordPurgeInv == ASSUME IInv, NEW h \in Sessions, RecordPurge(h) PROVE IInv'
  <1>1. /\ api[h].pc = "loaded" /\ api[h] # Idle /\ api[h].kind = "purge"
        /\ UNCHANGED <<row, life, ops, issued, project, wk, calls, requests, faults, promised, joined, lost>>
    BY DEF RecordPurge, Idle, table, outside, answers, bounds
  <1>2. api[h].user \in Users
    BY <1>1, HandlerFields DEF IInv, TypeOK
  <1>3. CASE status[api[h].user] = "gone"
    <2>1. Leave(h) /\ status' = status /\ \A u \in Users, k \in Kinds : ~Handles(h, u, k)
      BY <1>1, <1>3 DEF RecordPurge, Handles, Announces
    <2>2. promised' \subseteq Users /\ joined' \subseteq Users \X Kinds
      BY <1>1 DEF IInv, TypeOK
    <2> QED
      BY <1>1, <2>1, <2>2, HandlerLeaves
  <1>4. CASE status[api[h].user] # "gone"
    <2>1. status' = [status EXCEPT ![api[h].user] = "deleting"] /\ api' = [api EXCEPT ![h].pc = "recorded"]
      BY <1>4 DEF RecordPurge
    <2>2. status' \in [Users -> {"approved", "deleting", "gone"}] /\ GoneHaveNoRow'
      BY <1>1, <1>2, <2>1 DEF IInv, TypeOK, GoneHaveNoRow
    <2> QED
      BY <1>1, <2>1, <2>2, HandlerContinues
  <1> QED
    BY <1>3, <1>4

LEMMA CheckInv == ASSUME IInv, NEW h \in Sessions, Check(h) PROVE IInv'
  <1>1. /\ api[h].pc = "recorded" /\ api[h] # Idle /\ api[h].kind # "off"
        /\ UNCHANGED <<status, row, life, ops, issued, project, wk, calls, requests, faults>>
    BY DEF Check, Idle, table, outside, answers, bounds
  <1>2. api[h].user \in Users /\ api[h].kind \in Kinds
    BY <1>1, HandlerFields DEF IInv, TypeOK
  <1>3. CASE Leave(h) /\ Promise(api[h]) /\ joined' = joined \cup {<<api[h].user, api[h].kind>>} /\ lost' = lost
    <2>1. \A u \in Users, k \in Kinds : Handles(h, u, k) => Unqueued(u, k)'
      BY <1>3 DEF Handles, Unqueued
    <2>2. promised' \subseteq Users /\ joined' \subseteq Users \X Kinds
      BY <1>2, <1>3 DEF IInv, TypeOK, Promise
    <2> QED
      BY <1>1, <1>3, <2>1, <2>2, HandlerLeaves
  <1>4. CASE api' = [api EXCEPT ![h].pc = "checked"] /\ UNCHANGED answers
    <2>1. UNCHANGED <<promised, joined, lost>>
      BY <1>4 DEF answers
    <2>2. status' \in [Users -> {"approved", "deleting", "gone"}] /\ GoneHaveNoRow'
      BY <1>1, GoneKept DEF IInv, TypeOK
    <2>3. api[h].kind \notin {"create", "purge"} => api[h].ws # NoRow
      BY <1>1 DEF IInv, HandlersAgree, HandlerAgrees
    <2> QED
      BY <1>1, <1>4, <2>1, <2>2, <2>3, HandlerContinues
  <1> QED
    BY <1>3, <1>4 DEF Check

LEMMA InsertInv == ASSUME IInv, NEW h \in Sessions, Insert(h) PROVE IInv'
  <1> DEFINE r == api[h]
             new == [kind |-> r.kind, user |-> r.user, attached |-> HasRow(r), status |-> "queued"]
  <1>1. /\ r.pc = "checked" /\ r # Idle /\ r.kind # "off" /\ Leave(h)
        /\ UNCHANGED <<status, row, life, project, wk, calls, joined, lost, requests, faults>>
    BY DEF Insert, Idle, outside, bounds, IInv, HandlersAgree, HandlerAgrees
  <1>2. r.user \in Users /\ r.kind \in Kinds /\ r.ws \in Row \cup {NoRow}
    BY <1>1, HandlerFields DEF IInv, TypeOK
  <1>3. CASE status[r.user] # "gone" /\ (HasRow(r) => SameRow(r))
    <2>1. /\ issued' = issued + 1 /\ ops' = [ops EXCEPT ![issued + 1] = new] /\ Promise(r)
      BY <1>3 DEF Insert
    <2>2. issued + 1 \in OpIds /\ issued + 1 \in 0 .. MaxRequests /\ ops[issued + 1] = NoOp
      BY <1>1, IdLeft DEF IInv
    <2>3. new \in Op /\ new # NoOp
      BY <1>2 DEF Op, NoOp, HasRow
    <2> PICK n \in OpIds : n = issued + 1
      BY <2>2
    <2>4. /\ ops' \in [OpIds -> Op \cup {NoOp}] /\ ops'[n] = new
          /\ \A o \in OpIds : o # n => ops'[o] = ops[o]
      <3> HIDE DEF new
      <3> QED
        BY <2>1, <2>2, <2>3 DEF IInv, TypeOK
    <2>5. /\ api' \in [Sessions -> Handler \cup {Idle}] /\ api'[h] = Idle
          /\ \A g \in Sessions \ {h} : api'[g] = api[g]
      <3>1. TypeOK /\ Idle \in Handler \cup {Idle}
        BY DEF IInv
      <3> QED
        BY <1>1, <3>1, HandlerType DEF Leave
    <2>6. TypeOK'
      BY <1>1, <1>2, <2>1, <2>2, <2>4, <2>5 DEF IInv, TypeOK, Promise
    <2>7. IdsSuffice'
      <3>1. Cardinality(InFlight') + issued' <= requests'
        <4>1. Cardinality(InFlight') = Cardinality(InFlight) - 1
          BY <1>1, <2>5, Fewer DEF IInv
        <4>2. Cardinality(InFlight) \in Nat /\ Cardinality(InFlight) + issued <= requests
          BY InFlightNat DEF IInv, IdsSuffice
        <4> QED
          BY <1>1, <2>1, <4>1, <4>2 DEF IInv, TypeOK
      <3>2. \A o \in OpIds : o > issued' => ops'[o] = NoOp
        BY <2>1, <2>2, <2>4 DEF IInv, IdsSuffice, TypeOK
      <3> QED
        BY <3>1, <3>2 DEF IdsSuffice
    <2>8. HandlersAgree'
      BY <1>1, <2>5 DEF IInv, HandlersAgree, HandlerAgrees, SameRow
    <2>9. AttachedHaveRow'
      <3>1. ASSUME NEW u \in Users, OfRow(n, u)' PROVE row'[u] # NoRow
        BY <3>1, <1>1, <1>3, <2>1, <2>4 DEF OfRow, SameRow, HasRow
      <3>2. ASSUME NEW u \in Users, NEW o \in OpIds, o # n, OfRow(o, u)' PROVE row'[u] # NoRow
        BY <3>2, <1>1, <2>4 DEF OfRow, IInv, AttachedHaveRow
      <3> QED
        BY <3>1, <3>2 DEF AttachedHaveRow
    <2>10. wk # Idle => wk.op # n /\ wk.op \in OpIds /\ ops'[wk.op] = ops[wk.op]
      <3>1. wk # Idle => wk.op \in OpIds /\ ops[wk.op] # NoOp
        BY HandType DEF IInv, Hand
      <3> QED
        BY <2>2, <2>4, <3>1
    <2>11. RowsApart' /\ GoneHaveNoRow' /\ WorkerAgrees' /\ CallsAgree' /\ AnswersHold' /\ UsableExists'
      BY <1>1, <2>10, RowsApartKept, GoneKept, WorkerKept, CallsKept, AnswersKept, ExistsKept DEF IInv
    <2>12. ASSUME NEW u \in Users, NEW k \in Kinds, NEW o \in OpIds, Carries(o, u, k)
           PROVE  /\ Carries(o, u, k)'
                  /\ WillEnd(o) => WillEnd(o)'
      <3>1. o # n /\ ops'[o] = ops[o]
        BY <2>2, <2>4, <2>12 DEF Carries, OfRow, NoOp
      <3>2. Carries(o, u, k)'
        BY <1>1, <2>12, <3>1, CarriesKept
      <3> QED
        BY <1>1, <3>2 DEF WillEnd
    <2>13. ASSUME NEW u \in Users, NEW k \in Kinds, NEW g \in Sessions, Handles(g, u, k)
           PROVE  Handles(g, u, k)' \/ \E o \in OpIds : Carries(o, u, k)' /\ WillEnd(o)'
      <3>1. CASE g # h
        BY <3>1, <1>1, <2>5, <2>13, HandlesKept
      <3>2. CASE g = h
        <4>1. r.user = u /\ r.kind = k /\ HasRow(r)
          BY <2>13, <3>2 DEF Handles, Announces, HasRow
        <4>2. Carries(n, u, k)'
          BY <2>1, <2>4, <4>1 DEF Carries, OfRow, Unfinished, Active
        <4>3. WillEnd(n)'
          BY <1>1, <2>1, <2>10 DEF WillEnd
        <4> QED
          BY <4>2, <4>3
      <3> QED
        BY <3>1, <3>2
    <2>14. \A u \in Users, k \in Kinds : Unqueued(u, k) => Unqueued(u, k)'
      BY <1>1 DEF Unqueued
    <2>15. Theirs'
      <3>1. ASSUME NEW u \in Users PROVE Fits(u)'
        <4>1. "create" \in Kinds
          BY DEF Kinds
        <4>2. ASSUME NEW g \in Sessions, Handles(g, u, "create") PROVE Handles(g, u, "create")' \/ Building(u)'
          BY <2>13, <4>1, <4>2 DEF Building
        <4>3. Building(u) => Building(u)'
          BY <2>12, <2>14, <4>1, <4>2, BuildingKept
        <4> QED
          BY <1>1, <4>3, FitsKept DEF IInv, Theirs
      <3> QED
        BY <3>1 DEF Theirs
    <2>16. TransitionsEnd'
      <3>1. ASSUME NEW u \in Users PROVE Ended(u)'
        <4>1. ASSUME NEW k \in Kinds, Tended(u, k) PROVE Tended(u, k)'
          <5>1. ASSUME NEW g \in Sessions, Handles(g, u, k) PROVE Handles(g, u, k)' \/ Tended(u, k)'
            BY <2>13, <5>1 DEF Tended
          <5> QED
            BY <2>12, <2>14, <4>1, <5>1, TendedKept
        <4> QED
          BY <1>1, <4>1, EndedKept DEF IInv, TransitionsEnd
      <3> QED
        BY <3>1 DEF TransitionsEnd
    <2> QED
      BY <2>6, <2>7, <2>8, <2>9, <2>11, <2>15, <2>16 DEF IInv
  <1>4. CASE ~(status[r.user] # "gone" /\ (HasRow(r) => SameRow(r)))
    <2>1. UNCHANGED <<ops, issued, promised>>
      BY <1>4 DEF Insert
    <2>2. \A u \in Users, k \in Kinds : ~Handles(h, u, k)
      <3>1. r.kind # "purge" /\ r.kind \in {"create", "reset", "delete"} /\ SameRow(r) => FALSE
        BY <1>2, <1>4 DEF IInv, GoneHaveNoRow, SameRow
      <3> QED
        BY <3>1 DEF Handles, Announces
    <2>3. promised' \subseteq Users /\ joined' \subseteq Users \X Kinds
      BY <1>1, <2>1 DEF IInv, TypeOK
    <2> QED
      BY <1>1, <2>1, <2>2, <2>3, HandlerLeaves
  <1> QED
    BY <1>3, <1>4

\* The state of one row is written.
LEMMA RowChanges ==
    ASSUME IInv, NEW v \in Users, TypeOK', IdsSuffice',
           UNCHANGED <<status, life, ops, project, wk, calls, promised, joined, lost>>,
           \A u \in Users : (row'[u] = NoRow <=> row[u] = NoRow) /\ row'[u].slot = row[u].slot,
           \A u \in Users \ {v} : row'[u] = row[u],
           row'[v].state = "ready" => row'[v] = row[v] \/ project[row[v].slot] # Empty,
           \A g \in Sessions : api'[g] # Idle => HandlerAgrees(api'[g]),
           \A g \in Sessions, u \in Users, k \in Kinds : Handles(g, u, k) => Handles(g, u, k)',
           Ended(v)'
    PROVE  IInv'
  <1>1. RowsApart'
    BY DEF IInv, RowsApart
  <1>2. GoneHaveNoRow' /\ AttachedHaveRow'
    BY DEF IInv, GoneHaveNoRow, AttachedHaveRow, OfRow
  <1>3. WorkerAgrees' /\ CallsAgree' /\ AnswersHold'
    BY WorkerKept, CallsKept, AnswersKept DEF IInv
  <1>4. UsableExists'
    BY ExistsKept DEF IInv
  <1>5. HandlersAgree'
    <2>1. ASSUME NEW g \in Sessions, api'[g] # Idle PROVE HandlerAgrees(api[g])'
      <3>1. HandlerAgrees(api'[g])
        BY <2>1
      <3>2. api'[g].user \in Users
        BY <2>1, HandlerFields DEF TypeOK
      <3> QED
        BY <3>1, <3>2 DEF HandlerAgrees, SameRow
    <2> QED
      BY <2>1 DEF HandlersAgree
  <1>6. ASSUME NEW u \in Users, NEW k \in Kinds
        PROVE  /\ Unqueued(u, k) => Unqueued(u, k)'
               /\ \A o \in OpIds : /\ Carries(o, u, k) => Carries(o, u, k)'
                                   /\ WillEnd(o) => WillEnd(o)'
    <2>1. ASSUME NEW o \in OpIds, Carries(o, u, k) PROVE Carries(o, u, k)'
      BY <2>1, CarriesKept
    <2> QED
      BY <2>1 DEF Unqueued, WillEnd
  <1>7. Theirs'
    <2>1. ASSUME NEW u \in Users PROVE Fits(u)'
      <3>1. "create" \in Kinds
        BY DEF Kinds
      <3>2. Building(u) => Building(u)'
        BY <1>6, <3>1, BuildingKept
      <3> QED
        BY <3>2, FitsKept DEF IInv, Theirs
    <2> QED
      BY <2>1 DEF Theirs
  <1>8. TransitionsEnd'
    <2>1. ASSUME NEW u \in Users \ {v} PROVE Ended(u)'
      <3>1. ASSUME NEW k \in Kinds, Tended(u, k) PROVE Tended(u, k)'
        BY <1>6, <3>1, TendedKept
      <3> QED
        BY <3>1, EndedKept DEF IInv, TransitionsEnd
    <2> QED
      BY <2>1 DEF TransitionsEnd
  <1> QED
    BY <1>1, <1>2, <1>3, <1>4, <1>5, <1>7, <1>8 DEF IInv

LEMMA RecordChangeInv == ASSUME IInv, NEW h \in Sessions, RecordChange(h) PROVE IInv'
  <1> DEFINE r == api[h]
             new == Announced[r.kind]
  <1>1. /\ r.pc = "loaded" /\ r # Idle /\ r.kind \in {"delete", "reset", "off"} /\ Acceptable(r)
        /\ UNCHANGED <<status, life, ops, issued, project, wk, calls, promised, joined, lost, requests, faults>>
        /\ \A u \in Users, k \in Kinds : ~Handles(h, u, k)
    BY DEF RecordChange, Idle, table, outside, answers, bounds, Handles, Announces
  <1>2. r.user \in Users /\ r.ws \in Row \cup {NoRow} /\ r \in Handler
    BY <1>1, HandlerFields DEF IInv, TypeOK
  <1>3. CASE SameRow(r)
    <2>1. Save(r.user, r.ws.state, new) /\ api' = [api EXCEPT ![h].pc = "recorded"]
      BY <1>3 DEF RecordChange
    <2>2. /\ new \in {"deleting", "resetting", "stopping"} /\ r.ws # NoRow
          /\ r.kind \in Kinds => Announcing[new] = r.kind /\ r.ws.state # new
      BY <1>1, Words DEF Acceptable, NoRow, Kinds
    <2>3. row[r.user] # NoRow
      BY <1>3 DEF SameRow
    <2>4. /\ row' \in [Users -> Row \cup {NoRow}]
          /\ \A v \in Users : (row'[v] = NoRow <=> row[v] = NoRow) /\ row'[v].slot = row[v].slot
          /\ \A v \in Users \ {r.user} : row'[v] = row[v]
          /\ row'[r.user].state = IF r.ws.state = new THEN row[r.user].state ELSE new
      <3> HIDE DEF r, new
      <3> QED
        BY <1>2, <2>1, <2>2, <2>3, SaveType DEF IInv
    <2>5. /\ api' \in [Sessions -> Handler \cup {Idle}] /\ \A g \in Sessions \ {h} : api'[g] = api[g]
          /\ api'[h] \in Handler /\ api'[h].pc = "recorded" /\ api'[h].kind = r.kind /\ api'[h].user = r.user
          /\ api'[h].ws = r.ws /\ api'[h].life = r.life
      BY <1>1, <2>1, PlaceType DEF IInv
    <2>6. TypeOK'
      BY <1>1, <2>4, <2>5 DEF IInv, TypeOK
    <2>7. IdsSuffice'
      BY <1>1, <2>5, StillSuffice DEF IInv
    <2>8. ASSUME NEW g \in Sessions, api'[g] # Idle PROVE HandlerAgrees(api'[g])
      <3>1. HandlerAgrees(r)
        BY <1>1 DEF IInv, HandlersAgree
      <3>2. CASE g = h
        BY <3>1, <3>2, <2>2, <2>5 DEF HandlerAgrees, SameRow
      <3>3. CASE g # h
        BY <3>3, <2>5, <2>8 DEF IInv, HandlersAgree
      <3> QED
        BY <3>2, <3>3
    <2>9. ASSUME NEW g \in Sessions, NEW u \in Users, NEW k \in Kinds, Handles(g, u, k) PROVE Handles(g, u, k)'
      BY <1>1, <2>4, <2>5, <2>9, HandlesKept
    <2>10. row'[r.user].state = "ready" => row'[r.user] = row[r.user]
      BY <1>2, <2>1, <2>2, <2>4 DEF Save
    <2>11. PICK u \in Users : u = r.user
      BY <1>2
    <2>12. Ended(u)'
      <3>1. CASE r.kind \in Kinds
        <4>1. PICK k \in Kinds : k = r.kind
          BY <3>1
        <4>2. row'[u].state = new /\ Announcing[new] = k
          BY <2>2, <2>4, <2>11, <3>1, <4>1
        <4>3. Handles(h, u, k)'
          <5>1. SameRow(api[h])'
            BY <1>1, <1>2, <1>3, <2>4, <2>5 DEF SameRow
          <5> QED
            BY <1>1, <2>5, <2>11, <4>1, <5>1 DEF Handles, Announces, Kinds
        <4>4. Announcing[row'[u].state] = k
          <5> HIDE DEF new
          <5> QED
            BY <4>2
        <4>5. Tended(u, k)'
          BY <4>3 DEF Tended
        <4> QED
          BY <4>4, <4>5, Zenon DEF Ended
      <3>2. CASE r.kind \notin Kinds
        <4>1. r.kind = "off" /\ new = "stopping"
          BY <1>1, <3>2, Words DEF Kinds
        <4>2. CASE r.ws.state = new
          <5>1. row' = row
            BY <2>1, <4>2 DEF Save
          <5>2. ASSUME NEW k \in Kinds, Tended(u, k) PROVE Tended(u, k)'
            <6>1. \A o \in OpIds : Carries(o, u, k) /\ WillEnd(o) => Carries(o, u, k)' /\ WillEnd(o)'
              <7>1. ASSUME NEW o \in OpIds, Carries(o, u, k) PROVE Carries(o, u, k)'
                BY <1>1, <7>1, CarriesKept
              <7> QED
                BY <1>1, <7>1 DEF WillEnd
            <6>2. Unqueued(u, k) => Unqueued(u, k)'
              BY <1>1 DEF Unqueued
            <6> QED
              BY <2>9, <5>2, <6>1, <6>2, TendedKept
          <5> QED
            BY <5>1, <5>2, EndedKept DEF IInv, TransitionsEnd
        <4>3. CASE r.ws.state # new
          <5>1. row'[u].state = "stopping"
            BY <2>4, <2>11, <4>1, <4>3
          <5> QED
            BY <5>1, Words DEF Ended
        <4> QED
          BY <4>2, <4>3
      <3> QED
        BY <3>1, <3>2
    <2> QED
      BY <1>1, <2>4, <2>6, <2>7, <2>8, <2>9, <2>10, <2>11, <2>12, RowChanges
  <1>4. CASE ~SameRow(r)
    <2>1. Leave(h) /\ row' = row
      BY <1>4 DEF RecordChange
    <2>2. promised' \subseteq Users /\ joined' \subseteq Users \X Kinds
      BY <1>1 DEF IInv, TypeOK
    <2> QED
      BY <1>1, <2>1, <2>2, HandlerLeaves
  <1> QED
    BY <1>3, <1>4

LEMMA EndOffInv == ASSUME IInv, NEW h \in Sessions, EndOff(h) PROVE IInv'
  <1> DEFINE r == api[h]
  <1>1. /\ r.pc = "recorded" /\ r # Idle /\ r.kind = "off" /\ Leave(h)
        /\ UNCHANGED <<status, life, ops, issued, project, wk, calls, promised, joined, lost, requests, faults>>
        /\ \A u \in Users, k \in Kinds : ~Handles(h, u, k)
    BY DEF EndOff, Idle, table, outside, answers, bounds, Handles, Announces
  <1>2. r.user \in Users /\ r.ws \in Row \cup {NoRow}
    BY <1>1, HandlerFields DEF IInv, TypeOK
  <1>3. CASE SameRow(r)
    <2>1. PICK state \in {"error", "ready"} : /\ state = "ready" => project[r.ws.slot] # Empty
                                              /\ Save(r.user, "stopping", state)
      BY <1>3 DEF EndOff
    <2>2. row[r.user] # NoRow /\ row[r.user].slot = r.ws.slot
      BY <1>1, <1>3 DEF SameRow, IInv, HandlersAgree, HandlerAgrees
    <2>3. /\ row' \in [Users -> Row \cup {NoRow}]
          /\ \A v \in Users : (row'[v] = NoRow <=> row[v] = NoRow) /\ row'[v].slot = row[v].slot
          /\ \A v \in Users \ {r.user} : row'[v] = row[v]
          /\ row'[r.user].state = state
      <3> HIDE DEF r
      <3> QED
        BY <1>2, <2>1, <2>2, SaveType DEF IInv
    <2>4. /\ api' \in [Sessions -> Handler \cup {Idle}] /\ api'[h] = Idle
          /\ \A g \in Sessions \ {h} : api'[g] = api[g]
      <3>1. TypeOK /\ Idle \in Handler \cup {Idle}
        BY DEF IInv
      <3> QED
        BY <1>1, <3>1, HandlerType DEF Leave
    <2>5. TypeOK'
      BY <1>1, <2>3, <2>4 DEF IInv, TypeOK
    <2>6. IdsSuffice'
      BY <1>1, <2>4, StillSuffice DEF IInv
    <2>7. \A g \in Sessions : api'[g] # Idle => HandlerAgrees(api'[g])
      BY <2>4 DEF IInv, HandlersAgree
    <2>8. ASSUME NEW g \in Sessions, NEW u \in Users, NEW k \in Kinds, Handles(g, u, k) PROVE Handles(g, u, k)'
      BY <1>1, <2>3, <2>4, <2>8, HandlesKept
    <2>9. PICK u \in Users : u = r.user
      BY <1>2
    <2>10. Ended(u)'
      BY <2>1, <2>3, <2>9, Words DEF Ended
    <2> QED
      BY <1>1, <2>1, <2>2, <2>3, <2>5, <2>6, <2>7, <2>8, <2>9, <2>10, RowChanges
  <1>4. CASE ~SameRow(r)
    <2>1. row' = row
      BY <1>4 DEF EndOff
    <2>2. promised' \subseteq Users /\ joined' \subseteq Users \X Kinds
      BY <1>1 DEF IInv, TypeOK
    <2> QED
      BY <1>1, <2>1, <2>2, HandlerLeaves
  <1> QED
    BY <1>3, <1>4

LEMMA AdoptInv == ASSUME IInv, NEW u \in Users, Adopt(u) PROVE IInv'
  <1>1. /\ row' = [row EXCEPT ![u].state = "ready"] /\ row[u].state \in {"error", "stopping"}
        /\ project[row[u].slot] # Empty
        /\ UNCHANGED <<status, life, ops, issued, project, api, wk, calls, promised, joined, lost, requests, faults>>
    BY DEF Adopt, table, outside, answers, bounds
  <1>2. row[u] # NoRow /\ Save(u, row[u].state, "ready")
    BY <1>1 DEF NoRow, Save
  <1>3. /\ row' \in [Users -> Row \cup {NoRow}]
        /\ \A v \in Users : (row'[v] = NoRow <=> row[v] = NoRow) /\ row'[v].slot = row[v].slot
        /\ \A v \in Users \ {u} : row'[v] = row[v]
        /\ row'[u].state = "ready"
    <2>1. PICK copy : copy = row[u].state
      OBVIOUS
    <2> QED
      BY <1>1, <1>2, <2>1, SaveType DEF IInv
  <1>4. TypeOK' /\ IdsSuffice'
    BY <1>1, <1>3 DEF IInv, TypeOK, IdsSuffice, InFlight
  <1>5. \A g \in Sessions : api'[g] # Idle => HandlerAgrees(api'[g])
    BY <1>1 DEF IInv, HandlersAgree
  <1>6. ASSUME NEW g \in Sessions, NEW v \in Users, NEW k \in Kinds, Handles(g, v, k) PROVE Handles(g, v, k)'
    BY <1>1, <1>3, <1>6, HandlesKept
  <1>7. Ended(u)'
    BY <1>3, Words DEF Ended
  <1> QED
    BY <1>1, <1>3, <1>4, <1>5, <1>6, <1>7, RowChanges

LEMMA RecordCreateInv == ASSUME IInv, NEW h \in Sessions, RecordCreate(h) PROVE IInv'
  <1> DEFINE r == api[h]
  <1>1. /\ r.pc = "loaded" /\ r # Idle /\ r.kind = "create" /\ r.ws = NoRow /\ r.slot \in Slots
        /\ UNCHANGED <<status, ops, issued, project, wk, calls, promised, joined, lost, requests, faults>>
    BY DEF RecordCreate, Acceptable, Idle, table, outside, answers, bounds
  <1>2. r.user \in Users /\ r \in Handler
    BY <1>1, HandlerFields DEF IInv, TypeOK
  <1>3. CASE ~(status[r.user] # "gone" /\ row[r.user] = NoRow
               /\ \A u \in Users : row[u] = NoRow \/ row[u].slot # r.slot)
    <2>1. Leave(h) /\ row' = row /\ life' = life
      BY <1>3 DEF RecordCreate
    <2>2. promised' \subseteq Users /\ joined' \subseteq Users \X Kinds
      BY <1>1 DEF IInv, TypeOK
    <2>3. \A u \in Users, k \in Kinds : ~Handles(h, u, k)
      BY <1>1 DEF Handles, Announces
    <2> QED
      BY <1>1, <2>1, <2>2, <2>3, HandlerLeaves
  <1>4. CASE status[r.user] # "gone" /\ row[r.user] = NoRow
             /\ \A u \in Users : row[u] = NoRow \/ row[u].slot # r.slot
    <2> PICK u \in Users : u = r.user
      BY <1>2
    <2> DEFINE new == [state |-> "provisioning", slot |-> r.slot]
    <2>1. /\ row' = [row EXCEPT ![u] = new] /\ life' = [life EXCEPT ![u] = @ + 1]
          /\ api' = [api EXCEPT ![h] = [r EXCEPT !.pc = "recorded", !.life = life'[u]]]
          /\ status[u] # "gone" /\ row[u] = NoRow /\ \A v \in Users : row[v] = NoRow \/ row[v].slot # r.slot
      BY <1>4 DEF RecordCreate
    <2>2. new \in Row /\ new # NoRow /\ new.state = "provisioning"
      BY <1>1 DEF Row, NoRow
    <2>3. /\ row' \in [Users -> Row \cup {NoRow}] /\ row'[u].state = "provisioning" /\ row'[u].slot = r.slot
          /\ row'[u] # NoRow
          /\ \A v \in Users \ {u} : row'[v] = row[v]
      <3>1. row' \in [Users -> Row \cup {NoRow}] /\ row'[u] = new /\ \A v \in Users \ {u} : row'[v] = row[v]
        <4> HIDE DEF new
        <4> QED
          BY <2>1, <2>2 DEF IInv, TypeOK
      <3> QED
        BY <2>2, <3>1
    <2>4. life' \in [Users -> Nat] /\ life'[u] = life[u] + 1 /\ \A v \in Users \ {u} : life'[v] = life[v]
      BY <2>1 DEF IInv, TypeOK
    <2> DEFINE next == [r EXCEPT !.pc = "recorded", !.life = life'[u]]
    <2>5. /\ next \in Handler /\ next.pc = "recorded" /\ next.kind = "create" /\ next.user = u
          /\ next.ws = NoRow /\ next.life = life'[u]
      <3>1. life'[u] \in Nat
        BY <2>4
      <3> QED
        BY <1>1, <1>2, <3>1 DEF Handler
    <2>6. /\ api' \in [Sessions -> Handler \cup {Idle}] /\ api'[h] = next /\ \A g \in Sessions \ {h} : api'[g] = api[g]
      <3> HIDE DEF next
      <3>1. api' = [api EXCEPT ![h] = next]
        BY <2>1 DEF next
      <3> QED
        BY <2>5, <3>1 DEF IInv, TypeOK
    <2>7. TypeOK'
      BY <1>1, <2>3, <2>4, <2>6 DEF IInv, TypeOK
    <2>8. IdsSuffice'
      BY <1>1, <2>6, StillSuffice DEF IInv
    <2>9. RowsApart' /\ GoneHaveNoRow' /\ AttachedHaveRow'
      <3>1. RowsApart'
        BY <2>1, <2>3 DEF IInv, RowsApart
      <3>2. GoneHaveNoRow'
        BY <1>1, <2>1, <2>3 DEF IInv, GoneHaveNoRow
      <3>3. AttachedHaveRow'
        BY <1>1, <2>3 DEF IInv, AttachedHaveRow, OfRow
      <3> QED
        BY <3>1, <3>2, <3>3
    <2>10. WorkerAgrees' /\ CallsAgree' /\ AnswersHold' /\ UsableExists'
      <3>1. \A v \in Users : row[v] # NoRow => row'[v] # NoRow /\ row'[v].slot = row[v].slot
        BY <2>1, <2>3
      <3>2. \A v \in Users : row'[v].state = "ready" => row'[v] = row[v]
        BY <2>3
      <3> QED
        BY <1>1, <3>1, <3>2, WorkerKept, CallsKept, AnswersKept, ExistsKept DEF IInv
    <2>11. HandlersAgree'
      <3>1. ASSUME NEW g \in Sessions, api'[g] # Idle PROVE HandlerAgrees(api[g])'
        <4>1. CASE g = h
          <5>1. life'[u] \in Nat
            BY <2>4
          <5> HIDE DEF next
          <5> QED
            BY <4>1, <2>5, <2>6, <5>1 DEF HandlerAgrees, SameRow
        <4>2. CASE g # h
          <5>1. api'[g] = api[g] /\ HandlerAgrees(api[g]) /\ api[g].user \in Users /\ api[g].life \in Nat
            <6>1. api'[g] = api[g] /\ HandlerAgrees(api[g])
              BY <3>1, <4>2, <2>6 DEF IInv, HandlersAgree
            <6> QED
              BY <3>1, <6>1, <2>6, HandlerFields
          <5>2. life[u] \in Nat
            BY DEF IInv, TypeOK
          <5>3. CASE api[g].user = u
            BY <5>1, <5>2, <5>3, <2>4 DEF HandlerAgrees, SameRow
          <5>4. CASE api[g].user # u
            BY <5>1, <5>4, <2>3, <2>4 DEF HandlerAgrees, SameRow
          <5> QED
            BY <5>3, <5>4
        <4> QED
          BY <4>1, <4>2
      <3> QED
        BY <3>1 DEF HandlersAgree
    <2>12. Handles(h, u, "create")'
      <3>1. row'[u] # NoRow
        BY <2>3
      <3> HIDE DEF next
      <3> QED
        BY <2>5, <2>6, <3>1 DEF Handles, Announces, SameRow
    <2>13. ASSUME NEW v \in Users \ {u}, NEW k \in Kinds
           PROVE  /\ Unqueued(v, k) => Unqueued(v, k)'
                  /\ \A g \in Sessions : Handles(g, v, k) => Handles(g, v, k)'
                  /\ \A o \in OpIds : /\ Carries(o, v, k) => Carries(o, v, k)'
                                      /\ WillEnd(o) => WillEnd(o)'
      <3>1. ASSUME NEW g \in Sessions, Handles(g, v, k) PROVE Handles(g, v, k)'
        <4>1. g # h
          BY <1>1, <3>1 DEF Handles, Announces
        <4> QED
          BY <3>1, <4>1, <2>3, <2>4, <2>6, HandlesKept
      <3>2. ASSUME NEW o \in OpIds, Carries(o, v, k) PROVE Carries(o, v, k)'
        BY <1>1, <3>2, CarriesKept
      <3> QED
        BY <1>1, <3>1, <3>2 DEF Unqueued, WillEnd
    <2>14. Theirs'
      <3>1. Fits(u)'
        BY <2>12 DEF Fits, Building
      <3>2. ASSUME NEW v \in Users \ {u} PROVE Fits(v)'
        <4>1. "create" \in Kinds
          BY DEF Kinds
        <4>2. Building(v) => Building(v)'
          BY <2>13, <4>1, BuildingKept
        <4> QED
          BY <1>1, <2>3, <4>2, FitsKept DEF IInv, Theirs
      <3> QED
        BY <3>1, <3>2 DEF Theirs
    <2>15. TransitionsEnd'
      <3>1. Ended(u)'
        <4>1. Tended(u, "create")'
          BY <2>12 DEF Tended
        <4>2. Announcing[row'[u].state] = "create"
          BY <2>3, Words
        <4> QED
          BY <4>1, <4>2, Zenon DEF Ended
      <3>2. ASSUME NEW v \in Users \ {u} PROVE Ended(v)'
        <4>1. ASSUME NEW k \in Kinds, Tended(v, k) PROVE Tended(v, k)'
          BY <2>13, <4>1, TendedKept
        <4> QED
          BY <2>3, <4>1, EndedKept DEF IInv, TransitionsEnd
      <3> QED
        BY <3>1, <3>2 DEF TransitionsEnd
    <2> QED
      BY <2>7, <2>8, <2>9, <2>10, <2>11, <2>14, <2>15 DEF IInv
  <1> QED
    BY <1>3, <1>4

-----------------------------------------------------------------------------
(* The worker and the provisioner.                                           *)

\* What an operation and a worker keep of their own.
SameOp(o) == ops'[o] # NoOp /\ ops'[o].kind = ops[o].kind /\ ops'[o].user = ops[o].user /\ ops'[o].attached = ops[o].attached
SameSlots == \A v \in Users : (row'[v] = NoRow <=> row[v] = NoRow) /\ row'[v].slot = row[v].slot

\* An operation that is not in hand.
LEMMA OthersCarry ==
    ASSUME wk # Idle, NEW o \in OpIds, o # wk.op, ops'[o] = ops[o], wk' = Idle \/ wk'.op = wk.op,
           NEW u \in Users, NEW k, Carries(o, u, k)
    PROVE  Carries(o, u, k)' /\ WillEnd(o)'
  BY DEF Carries, OfRow, Unfinished, Active, WillEnd

\* The operation in hand goes on as it was, or in another state.
LEMMA HandTends ==
    ASSUME wk # Idle, SameSlots, UNCHANGED <<life, api, joined, lost>>, wk' = Idle \/ wk'.op = wk.op,
           NEW n \in OpIds, n = wk.op, \A o \in OpIds \ {n} : ops'[o] = ops[o],
           NEW u \in Users, NEW k \in Kinds
    PROVE  /\ k = "create" /\ Building(u) /\ (Carries(n, u, k) => Carries(n, u, k)') => Building(u)'
           /\ Tended(u, k) /\ (Carries(n, u, k) /\ WillEnd(n) => Carries(n, u, k)' /\ WillEnd(n)') => Tended(u, k)'
  <1>1. \A g \in Sessions : Handles(g, u, k) => Handles(g, u, k)'
    BY HandlesKept DEF SameSlots
  <1>2. ASSUME NEW o \in OpIds, o # n, Carries(o, u, k) PROVE Carries(o, u, k)' /\ WillEnd(o)'
    BY <1>2, OthersCarry
  <1>3. Unqueued(u, k) => Unqueued(u, k)'
    BY DEF Unqueued
  <1>4. ASSUME k = "create", Building(u), Carries(n, u, k) => Carries(n, u, k)' PROVE Building(u)'
    <2>1. \A o \in OpIds : Carries(o, u, k) => Carries(o, u, k)'
      BY <1>2, <1>4
    <2> QED
      BY <1>1, <1>3, <1>4, <2>1, BuildingKept
  <1>5. ASSUME Tended(u, k), Carries(n, u, k) /\ WillEnd(n) => Carries(n, u, k)' /\ WillEnd(n)' PROVE Tended(u, k)'
    <2>1. \A o \in OpIds : Carries(o, u, k) /\ WillEnd(o) => Carries(o, u, k)' /\ WillEnd(o)'
      BY <1>2, <1>5
    <2> QED
      BY <1>1, <1>3, <1>5, <2>1, TendedKept
  <1> QED
    BY <1>4, <1>5

\* The worker works on for one customer.
LEMMA WorkerMoves ==
    ASSUME IInv, wk # Idle, NEW n \in OpIds, n = wk.op, NEW u \in Users, u = Hand.user,
           TypeOK', UNCHANGED <<status, life, issued, api, promised, joined, lost, requests>>,
           wk' = Idle \/ wk'.op = wk.op,
           \A o \in OpIds \ {n} : ops'[o] = ops[o], SameOp(n),
           SameSlots, \A v \in Users \ {u} : row'[v] = row[v],
           \A v \in Users \ {u} : row[v] # NoRow => project'[row[v].slot] = project[row[v].slot],
           WorkerAgrees', CallsAgree', AnswersHold', UsableExists', Fits(u)', Ended(u)'
    PROVE  IInv'
  <1>1. RowsApart' /\ GoneHaveNoRow'
    BY DEF IInv, RowsApart, GoneHaveNoRow, SameSlots
  <1>2. Hand # NoOp /\ Hand = ops[n]
    BY HandType DEF IInv, Hand
  <1>3. IdsSuffice'
    BY <1>2 DEF IInv, IdsSuffice, InFlight
  <1>4. HandlersAgree'
    <2>1. ASSUME NEW h \in Sessions, api'[h] # Idle PROVE HandlerAgrees(api[h])'
      <3>1. HandlerAgrees(api[h]) /\ api[h].user \in Users
        BY <2>1, HandlerFields DEF IInv, TypeOK, HandlersAgree
      <3> QED
        BY <2>1, <3>1 DEF HandlerAgrees, SameRow, SameSlots
    <2> QED
      BY <2>1 DEF HandlersAgree
  <1>5. AttachedHaveRow'
    <2>1. ASSUME NEW o \in OpIds, NEW v \in Users, OfRow(o, v)' PROVE OfRow(o, v)
      <3>1. CASE o = n
        BY <2>1, <3>1, <1>2, OpFields DEF OfRow, SameOp, IInv, TypeOK
      <3>2. CASE o # n
        BY <2>1, <3>2 DEF OfRow
      <3> QED
        BY <3>1, <3>2
    <2> QED
      BY <2>1 DEF IInv, AttachedHaveRow, SameSlots
  <1>6. ASSUME NEW v \in Users \ {u}, NEW k \in Kinds
        PROVE  /\ k = "create" /\ Building(v) => Building(v)'
               /\ Tended(v, k) => Tended(v, k)'
    <2>1. ~Carries(n, v, k)
      BY <1>2 DEF Carries, OfRow
    <2> QED
      BY <2>1, HandTends
  <1>7. Theirs'
    <2>1. ASSUME NEW v \in Users \ {u} PROVE Fits(v)'
      <3>1. "create" \in Kinds
        BY DEF Kinds
      <3>2. Building(v) => Building(v)'
        BY <1>6, <3>1
      <3>3. Fits(v)
        BY DEF IInv, Theirs
      <3> QED
        BY <3>2, <3>3 DEF Fits
    <2> QED
      BY <2>1 DEF Theirs
  <1>8. TransitionsEnd'
    <2>1. ASSUME NEW v \in Users \ {u} PROVE Ended(v)'
      BY <1>6, EndedKept DEF IInv, TransitionsEnd
    <2> QED
      BY <2>1 DEF TransitionsEnd
  <1> QED
    BY <1>1, <1>3, <1>4, <1>5, <1>7, <1>8 DEF IInv

\* ... and has not done with the operation yet.
LEMMA HandGoesOn ==
    ASSUME IInv, wk # Idle, NEW n \in OpIds, n = wk.op, NEW u \in Users, u = Hand.user,
           TypeOK', UNCHANGED <<status, row, life, issued, api, promised, joined, lost, requests>>,
           wk' # Idle, wk'.op = wk.op, wk'.ws = wk.ws, wk'.pc # "finish",
           \A o \in OpIds \ {n} : ops'[o] = ops[o], SameOp(n),
           \A k \in Kinds : Carries(n, u, k) => Carries(n, u, k)',
           \A v \in Users \ {u} : row[v] # NoRow => project'[row[v].slot] = project[row[v].slot],
           row[u] # NoRow => \/ project'[row[u].slot] = project[row[u].slot]
                             \/ project'[row[u].slot] = Empty \/ project'[row[u].slot].owner = u,
           WorkerAgrees', CallsAgree', AnswersHold', UsableExists'
    PROVE  IInv'
  <1>1. SameSlots
    BY DEF SameSlots
  <1>2. WillEnd(n) => WillEnd(n)'
    BY DEF WillEnd
  <1>3. \A k \in Kinds : /\ k = "create" /\ Building(u) => Building(u)'
                         /\ Tended(u, k) => Tended(u, k)'
    BY <1>1, <1>2, HandTends
  <1>4. Fits(u)'
    <2>1. Building(u) => Building(u)'
      BY <1>3 DEF Kinds
    <2>2. Fits(u)
      BY DEF IInv, Theirs
    <2> QED
      BY <2>1, <2>2 DEF Fits
  <1>5. Ended(u)'
    BY <1>3, EndedKept DEF IInv, TransitionsEnd
  <1> QED
    BY <1>1, <1>4, <1>5, WorkerMoves

\* Only the worker's place changes, and perhaps the provisioner's call.
LEMMA PlaceChanges ==
    ASSUME IInv, wk # Idle,
           UNCHANGED <<status, row, life, ops, issued, project, api, promised, joined, lost, requests>>,
           faults' \in 0 .. MaxFaults,
           wk' \in InHand \cup {Idle}, wk' # Idle, wk'.op = wk.op, wk'.ws = wk.ws, wk'.pc # "finish",
           calls' \subseteq Call, WorkerAgrees', CallsAgree', AnswersHold',
           wk.pc # "done"
    PROVE  IInv'
  <1> PICK n \in OpIds : n = wk.op
    BY HandType DEF IInv
  <1> PICK u \in Users : u = Hand.user
    BY HandType DEF IInv
  <1>1. TypeOK'
    BY DEF IInv, TypeOK
  <1>2. SameOp(n)
    BY HandType DEF IInv, SameOp, Hand
  <1>3. UsableExists'
    BY DEF IInv, UsableExists, Exists
  <1>4. \A k \in Kinds : Carries(n, u, k) => Carries(n, u, k)'
    BY CarriesKept
  <1> QED
    BY <1>1, <1>2, <1>3, <1>4, HandGoesOn DEF IInv

LEMMA SendInv == ASSUME IInv, Send PROVE IInv'
  <1> DEFINE c == [verb |-> wk.verb, slot |-> wk.ws.slot, user |-> ops[wk.op].user, stage |-> "begin", heard |-> TRUE]
  <1>1. /\ wk # Idle /\ wk.pc = "send" /\ Step("wait") /\ calls' = calls \cup {c}
        /\ UNCHANGED <<status, row, life, ops, issued, project, api, promised, joined, lost, requests, faults>>
    BY DEF Send, Idle, table, answers, bounds
  <1>2. /\ wk' \in InHand \cup {Idle} /\ wk' # Idle
        /\ wk'.pc = "wait" /\ wk'.op = wk.op /\ wk'.verb = wk.verb /\ wk'.ws = wk.ws
    BY <1>1, StepType DEF IInv
  <1>3. wk.ws # NoRow
    BY <1>1 DEF IInv, WorkerAgrees
  <1>4. calls = {}
    BY <1>1 DEF IInv, CallsAgree, CallAgrees
  <1>5. c \in Call
    BY <1>1, <1>3, HandType, HandFields DEF IInv, TypeOK, Call, Hand
  <1>6. calls' = {c} /\ calls' \subseteq Call
    <2> HIDE DEF c
    <2> QED
      BY <1>1, <1>4, <1>5
  <1>7. WorkerAgrees'
    BY <1>1, <1>2, <1>3 DEF IInv, WorkerAgrees, Hand, Removed
  <1>8. CallsAgree'
    <2>1. c.verb = wk.verb /\ c.slot = wk.ws.slot /\ c.user = ops[wk.op].user /\ c.stage = "begin" /\ c.heard
      OBVIOUS
    <2> HIDE DEF c
    <2>2. PICK d : d = c
      OBVIOUS
    <2>3. calls' = {d} /\ CallAgrees(d)'
      BY <1>1, <1>2, <1>6, <2>1, <2>2 DEF CallAgrees, Hand
    <2> QED
      BY <2>3 DEF CallsAgree
  <1>9. AnswersHold'
    BY <1>2 DEF AnswersHold
  <1>10. faults' \in 0 .. MaxFaults
    BY <1>1 DEF IInv, TypeOK
  <1> QED
    BY <1>1, <1>2, <1>6, <1>7, <1>8, <1>9, <1>10, PlaceChanges

\* The provisioner answers.
LEMMA AnswerTells ==
    ASSUME IInv, NEW c \in calls, NEW result \in {"done", "refused"}, Answer(c, result), ops' = ops, row' = row
    PROVE  /\ wk # Idle /\ wk.pc = "wait" /\ calls' = {}
           /\ wk' \in InHand \cup {Idle} /\ wk' # Idle
           /\ wk'.pc = result /\ wk'.op = wk.op /\ wk'.verb = wk.verb /\ wk'.ws = wk.ws
           /\ WorkerAgrees' /\ CallsAgree'
  <1>1. wk # Idle /\ wk.pc = "wait" /\ c.heard = TRUE /\ calls \ {c} = {} /\ wk.ws # NoRow
    BY CallType DEF IInv
  <1>2. calls' = {} /\ Step(result)
    BY <1>1 DEF Answer
  <1>3. /\ wk' \in InHand \cup {Idle} /\ wk' # Idle
        /\ wk'.pc = result /\ wk'.op = wk.op /\ wk'.verb = wk.verb /\ wk'.ws = wk.ws
    BY <1>1, <1>2, StepType DEF IInv
  <1>4. WorkerAgrees'
    BY <1>1, <1>3 DEF IInv, WorkerAgrees, Hand, Removed
  <1>5. CallsAgree'
    BY <1>2 DEF CallsAgree
  <1> QED
    BY <1>1, <1>2, <1>3, <1>4, <1>5

\* ... a failure, and nothing has changed.
LEMMA RefusedInv ==
    ASSUME IInv, NEW c \in calls, Answer(c, "refused"), faults' \in 0 .. MaxFaults,
           UNCHANGED <<status, row, life, ops, issued, project, api, promised, joined, lost, requests>>
    PROVE  IInv'
  <1>1. /\ wk # Idle /\ wk.pc = "wait" /\ calls' = {}
        /\ wk' \in InHand \cup {Idle} /\ wk' # Idle
        /\ wk'.pc = "refused" /\ wk'.op = wk.op /\ wk'.verb = wk.verb /\ wk'.ws = wk.ws
        /\ WorkerAgrees' /\ CallsAgree'
    BY AnswerTells
  <1>2. AnswersHold'
    BY <1>1 DEF AnswersHold
  <1> QED
    BY <1>1, <1>2, PlaceChanges

LEMMA VerbFailsInv == ASSUME IInv, NEW c \in calls, VerbFails(c) PROVE IInv'
  <1>1. faults' \in 0 .. MaxFaults
    BY DEF VerbFails, Fault, IInv, TypeOK
  <1>2. Answer(c, "refused")
    BY DEF VerbFails
  <1>3. UNCHANGED <<status, row, life, ops, issued, project, api, promised, joined, lost, requests>>
    BY DEF VerbFails, table, answers
  <1> QED
    BY <1>1, <1>2, <1>3, RefusedInv

\* The provisioner changes what the slot holds.
LEMMA SlotChanges ==
    ASSUME IInv, NEW c \in calls, NEW content \in Machine \cup {Empty}, Hold(c.slot, content),
           content # Empty => content.owner = c.user,
           UNCHANGED <<status, row, life, ops, issued, api, promised, joined, lost, requests, faults>>,
           wk' \in InHand \cup {Idle}, wk' # Idle, wk'.op = wk.op, wk'.ws = wk.ws, wk'.pc # "finish",
           calls' \subseteq Call, WorkerAgrees', CallsAgree', AnswersHold',
           content = Empty => wk'.pc = "done" /\ wk'.verb = "destroy"
    PROVE  IInv'
  <1>1. /\ c.slot \in Slots /\ wk # Idle /\ wk.pc = "wait" /\ wk.op \in OpIds /\ wk.ws # NoRow
        /\ c.slot = wk.ws.slot /\ c.user = Hand.user
    BY CallType DEF IInv
  <1> PICK n \in OpIds : n = wk.op
    BY <1>1
  <1> PICK u \in Users : u = Hand.user
    BY HandType, <1>1 DEF IInv
  <1> PICK s \in Slots : s = c.slot
    BY <1>1
  <1>2. /\ project' \in [Slots -> Machine \cup {Empty}] /\ project'[s] = content
        /\ \A t \in Slots \ {s} : project'[t] = project[t]
    BY DEF Hold, IInv, TypeOK
  <1>3. TypeOK'
    BY <1>2 DEF IInv, TypeOK
  <1>4. row[u] # NoRow /\ row[u].slot = s
    BY <1>1 DEF IInv, WorkerAgrees, Removed
  <1>5. ASSUME NEW v \in Users \ {u}, row[v] # NoRow PROVE project'[row[v].slot] = project[row[v].slot]
    <2>1. row[v].slot \in Slots
      BY <1>5, RowFields DEF IInv, TypeOK
    <2>2. row[v].slot # s
      BY <1>4, <1>5 DEF IInv, RowsApart
    <2> QED
      BY <1>2, <2>1, <2>2
  <1>6. UsableExists'
    <2>1. ASSUME NEW v \in Users \ {u} PROVE Exists(v)'
      <3>1. row[v].state = "ready" => row[v] # NoRow
        BY DEF NoRow
      <3> QED
        BY <1>1, <1>5, <3>1 DEF IInv, UsableExists, Exists
    <2>2. Exists(u)'
      BY <1>1, <1>2, <1>4 DEF Exists, Hand
    <2> QED
      BY <2>1, <2>2 DEF UsableExists
  <1>7. \A k \in Kinds : Carries(n, u, k) => Carries(n, u, k)'
    BY <1>1, CarriesKept
  <1>8. SameOp(n)
    BY <1>1, HandType DEF IInv, SameOp, Hand
  <1>9. project'[row[u].slot] = Empty \/ project'[row[u].slot].owner = u
    BY <1>1, <1>2, <1>4
  <1> QED
    BY <1>1, <1>3, <1>5, <1>6, <1>7, <1>8, <1>9, HandGoesOn

LEMMA BeginBuildInv == ASSUME IInv, NEW c \in calls, BeginBuild(c) PROVE IInv'
  <1>1. /\ c \in Call /\ c.slot \in Slots /\ c.user \in Users /\ c.heard = TRUE
        /\ wk # Idle /\ wk.pc = "wait" /\ c.verb = wk.verb /\ c.slot = wk.ws.slot /\ c.user = Hand.user
        /\ calls \ {c} = {}
    BY CallType DEF IInv
  <1>2. /\ UNCHANGED <<status, row, life, ops, issued, api, promised, joined, lost, requests, faults>>
        /\ c.stage = "begin" /\ c.verb \in {"provision", "reset"}
    BY DEF BeginBuild, table, answers, bounds
  <1>3. CASE (c.verb = "provision") <=> (project[c.slot] = Empty)
    <2> DEFINE content == [owner |-> c.user, whole |-> FALSE]
               next == [c EXCEPT !.stage = "build"]
    <2>1. Hold(c.slot, content) /\ calls' = (calls \ {c}) \cup {next} /\ wk' = wk
      BY <1>3 DEF BeginBuild
    <2>2. content \in Machine /\ content # Empty /\ content.owner = c.user
      BY <1>1 DEF Machine, Empty
    <2>3. /\ next \in Call /\ next.verb = c.verb /\ next.slot = c.slot /\ next.user = c.user
          /\ next.heard = TRUE /\ next.stage = "build"
      BY <1>1 DEF Call
    <2>4. project'[c.slot] = content
      <3> HIDE DEF content
      <3> QED
        BY <1>1, <2>1 DEF Hold, IInv, TypeOK
    <2>5. WorkerAgrees'
      BY <1>2, <2>1, WorkerKept DEF IInv
    <2>6. calls' \subseteq Call /\ CallsAgree'
      <3> HIDE DEF next, content
      <3> PICK d : d = next
        OBVIOUS
      <3>1. calls' = {d}
        BY <1>1, <2>1
      <3>2. project'[d.slot] # Empty /\ project'[d.slot].owner = d.user
        BY <2>2, <2>3, <2>4
      <3>3. CallAgrees(d)'
        BY <1>1, <1>2, <2>1, <2>3, <3>2 DEF CallAgrees, Hand
      <3> QED
        BY <2>3, <3>1, <3>3 DEF CallsAgree
    <2>7. AnswersHold'
      BY <1>1, <2>1 DEF AnswersHold
    <2>8. wk' \in InHand \cup {Idle} /\ wk' # Idle /\ wk'.op = wk.op /\ wk'.ws = wk.ws /\ wk'.pc # "finish"
      BY <1>1, <2>1 DEF IInv, TypeOK
    <2> PICK m \in Machine : m = content
      BY <2>2
    <2> HIDE DEF content, next
    <2> QED
      BY <1>2, <2>1, <2>2, <2>5, <2>6, <2>7, <2>8, SlotChanges
  <1>4. CASE ~((c.verb = "provision") <=> (project[c.slot] = Empty))
    <2>1. Answer(c, "refused") /\ project' = project
      BY <1>4 DEF BeginBuild
    <2>2. faults' \in 0 .. MaxFaults
      BY <1>2 DEF IInv, TypeOK
    <2> QED
      BY <1>2, <2>1, <2>2, RefusedInv
  <1> QED
    BY <1>3, <1>4

LEMMA EndBuildInv == ASSUME IInv, NEW c \in calls, EndBuild(c) PROVE IInv'
  <1>1. /\ c \in Call /\ c.slot \in Slots /\ c.user \in Users /\ wk # Idle /\ wk.pc = "wait"
        /\ c.verb = wk.verb /\ c.slot = wk.ws.slot /\ c.user = Hand.user
    BY CallType DEF IInv
  <1>2. /\ UNCHANGED <<status, row, life, ops, issued, api, promised, joined, lost, requests, faults>>
        /\ c.stage = "build"
    BY DEF EndBuild, table, answers, bounds
  <1>3. c.verb # "destroy" /\ project[c.slot] # Empty /\ project[c.slot].owner = c.user
    BY <1>2 DEF IInv, CallsAgree, CallAgrees
  <1> DEFINE content == [project[c.slot] EXCEPT !.whole = TRUE]
  <1>4. Answer(c, "done") /\ Hold(c.slot, content)
    BY <1>3 DEF EndBuild
  <1>5. content \in Machine /\ content # Empty /\ content.owner = c.user
    <2>1. project[c.slot] \in Machine
      BY <1>1, <1>3 DEF IInv, TypeOK
    <2> QED
      BY <1>3, <2>1 DEF Machine, Empty
  <1>6. project'[c.slot] = content
    <2> HIDE DEF content
    <2> QED
      BY <1>1, <1>4 DEF Hold, IInv, TypeOK
  <1>7. /\ wk' \in InHand \cup {Idle} /\ wk' # Idle /\ calls' = {}
        /\ wk'.pc = "done" /\ wk'.op = wk.op /\ wk'.verb = wk.verb /\ wk'.ws = wk.ws
        /\ WorkerAgrees' /\ CallsAgree'
    BY <1>2, <1>4, AnswerTells
  <1>8. AnswersHold'
    <2> HIDE DEF content
    <2> QED
      BY <1>1, <1>2, <1>3, <1>5, <1>6, <1>7 DEF AnswersHold, Hand
  <1> PICK m \in Machine : m = content
    BY <1>5
  <1> HIDE DEF content
  <1> QED
    BY <1>2, <1>4, <1>5, <1>7, <1>8, SlotChanges

LEMMA DestroyInv == ASSUME IInv, NEW c \in calls, Destroy(c) PROVE IInv'
  <1>1. /\ c.slot \in Slots /\ wk # Idle /\ c.verb = wk.verb /\ c.slot = wk.ws.slot /\ c.user = Hand.user
    BY CallType DEF IInv
  <1>2. /\ UNCHANGED <<status, row, life, ops, issued, api, promised, joined, lost, requests, faults>>
        /\ c.verb = "destroy" /\ Answer(c, "done") /\ Hold(c.slot, Empty)
    BY DEF Destroy, table, answers, bounds
  <1>3. project'[c.slot] = Empty
    BY <1>1, <1>2 DEF Hold, IInv, TypeOK
  <1>4. /\ wk' \in InHand \cup {Idle} /\ wk' # Idle /\ calls' = {}
        /\ wk'.pc = "done" /\ wk'.op = wk.op /\ wk'.verb = wk.verb /\ wk'.ws = wk.ws
        /\ WorkerAgrees' /\ CallsAgree'
    BY <1>2, AnswerTells
  <1>5. AnswersHold'
    BY <1>1, <1>2, <1>3, <1>4 DEF AnswersHold, Hand
  <1>6. Empty \in Machine \cup {Empty}
    OBVIOUS
  <1> QED
    BY <1>1, <1>2, <1>4, <1>5, <1>6, SlotChanges

LEMMA CreateFailedInv == ASSUME IInv, CreateFailed PROVE IInv'
  <1>1. /\ wk # Idle /\ wk.pc = "refused" /\ wk.verb = "provision" /\ Mark(wk.op, "failed")
        /\ wk' = [wk EXCEPT !.pc = "send", !.verb = "destroy"]
        /\ UNCHANGED <<status, row, life, issued, project, calls, api, promised, joined, lost, requests, faults>>
    BY DEF CreateFailed, Idle, outside, answers, bounds
  <1>2. wk \in InHand /\ wk.op \in OpIds /\ Hand # NoOp /\ Hand.user \in Users /\ Hand.kind \in Kinds /\ wk.ws # NoRow
    BY <1>1, HandType, HandFields DEF IInv, TypeOK, WorkerAgrees
  <1> PICK n \in OpIds : n = wk.op
    BY <1>2
  <1> PICK u \in Users : u = Hand.user
    BY <1>2
  <1>3. /\ wk' \in InHand /\ wk' # Idle /\ wk'.op = wk.op /\ wk'.ws = wk.ws /\ wk'.pc = "send" /\ wk'.verb = "destroy"
    BY <1>1, <1>2 DEF InHand, Idle
  <1>4. /\ ops' \in [OpIds -> Op \cup {NoOp}]
        /\ \A p \in OpIds \ {n} : ops'[p] = ops[p]
        /\ SameOp(n) /\ ops'[n].status = "failed"
    BY <1>1, <1>2, MarkType DEF IInv, Hand, SameOp
  <1>5. Hand.kind = "create"
    BY <1>1, <1>2, Verbs DEF IInv, WorkerAgrees
  <1>6. TypeOK'
    BY <1>1, <1>3, <1>4 DEF IInv, TypeOK
  <1>7. WorkerAgrees'
    BY <1>1, <1>2, <1>3, <1>4, <1>5 DEF IInv, WorkerAgrees, Hand, Removed, SameOp, Cleanups
  <1>8. CallsAgree' /\ AnswersHold' /\ UsableExists'
    <2>1. calls = {}
      BY <1>1 DEF IInv, CallsAgree, CallAgrees
    <2>2. CallsAgree' /\ AnswersHold'
      BY <1>1, <1>3, <2>1 DEF CallsAgree, AnswersHold
    <2>3. UsableExists'
      BY <1>1 DEF IInv, UsableExists, Exists
    <2> QED
      BY <2>2, <2>3
  <1>9. ASSUME NEW k \in Kinds, Carries(n, u, k) PROVE Carries(n, u, k)'
    BY <1>3, <1>4, <1>5, <1>9 DEF Carries, OfRow, SameOp, Hand
  <1> QED
    BY <1>1, <1>3, <1>4, <1>6, <1>7, <1>8, <1>9, HandGoesOn

\* The worker has done with an operation.
LEMMA HandIsDone ==
    ASSUME IInv, wk # Idle, NEW n \in OpIds, n = wk.op, NEW u \in Users, u = Hand.user,
           wk' = Idle, NEW s \in {"failed", "succeeded"}, Mark(n, s), faults' \in 0 .. MaxFaults,
           UNCHANGED <<status, life, issued, project, calls, api, promised, joined, lost, requests>>,
           row' \in [Users -> Row \cup {NoRow}], SameSlots, \A v \in Users \ {u} : row'[v] = row[v],
           wk.pc # "wait", ~(wk.pc = "done" /\ wk.verb = "destroy"),
           row'[u].state = "ready" => row'[u] = row[u],
           ops[n].kind = "create" => (row[u] # NoRow => project[row[u].slot].owner = u),
           \/ row'[u].state \notin DOMAIN Announcing
           \/ row'[u] = row[u] /\ (~WillEnd(n) \/ \A k \in Kinds : Carries(n, u, k) => Carries(n, u, k)')
    PROVE  IInv'
  <1>1. Hand = ops[n] /\ ops[n] # NoOp
    BY HandType DEF IInv, Hand
  <1>2. /\ ops' \in [OpIds -> Op \cup {NoOp}]
        /\ \A p \in OpIds \ {n} : ops'[p] = ops[p]
        /\ SameOp(n)
    BY <1>1, MarkType DEF IInv, SameOp
  <1>3. TypeOK'
    BY <1>2 DEF IInv, TypeOK
  <1>4. WorkerAgrees' /\ CallsAgree' /\ AnswersHold'
    <2>1. calls = {}
      BY DEF IInv, CallsAgree, CallAgrees
    <2> QED
      BY <2>1 DEF WorkerAgrees, CallsAgree, AnswersHold
  <1>5. UsableExists'
    <2>1. ASSUME NEW v \in Users PROVE Exists(v)'
      <3>1. row'[v].state = "ready" => row'[v] = row[v]
        OBVIOUS
      <3> QED
        BY <3>1 DEF IInv, UsableExists, Exists
    <2> QED
      BY <2>1 DEF UsableExists
  <1>6. Fits(u)'
    <2>1. Fits(u)
      BY DEF IInv, Theirs
    <2>2. CASE ops[n].kind = "create"
      BY <2>2 DEF Fits, SameSlots
    <2>3. CASE ops[n].kind # "create"
      <3>1. "create" \in Kinds /\ ~Carries(n, u, "create")
        BY <2>3 DEF Kinds, Carries
      <3>2. Building(u) => Building(u)'
        BY <1>2, <3>1, HandTends
      <3> QED
        BY <2>1, <3>2 DEF Fits, SameSlots
    <2> QED
      BY <2>2, <2>3
  <1>7. Ended(u)'
    <2>1. CASE row'[u].state \notin DOMAIN Announcing
      BY <2>1, Words DEF Ended
    <2>2. CASE row'[u] = row[u] /\ (~WillEnd(n) \/ \A k \in Kinds : Carries(n, u, k) => Carries(n, u, k)')
      <3>1. WillEnd(n)'
        BY DEF WillEnd
      <3>2. ASSUME NEW k \in Kinds, Tended(u, k) PROVE Tended(u, k)'
        BY <1>2, <2>2, <3>1, <3>2, HandTends
      <3> QED
        BY <2>2, <3>2, EndedKept DEF IInv, TransitionsEnd
    <2> QED
      BY <2>1, <2>2
  <1> QED
    BY <1>2, <1>3, <1>4, <1>5, <1>6, <1>7, WorkerMoves

\* ... and what that is the worker's operation, and its row.
LEMMA HandFacts ==
    ASSUME IInv, wk # Idle
    PROVE  /\ wk.op \in OpIds /\ Hand \in Op /\ Hand # NoOp /\ Hand.user \in Users /\ Hand.kind \in Kinds
           /\ wk \in InHand /\ wk.ws \in Row \cup {NoRow}
           /\ wk.verb \in {"provision", "reset"} => Hand.status = "running" /\ Verb(Hand.kind) = wk.verb
           /\ wk.verb = "provision" => Hand.kind = "create"
           /\ wk.verb = "reset" => Hand.kind = "reset"
           /\ Hand.kind \in Cleanups => wk.verb = "destroy"
           /\ wk.ws # NoRow /\ ~Removed => row[Hand.user] # NoRow /\ row[Hand.user].slot = wk.ws.slot
  <1>1. /\ wk.op \in OpIds /\ Hand \in Op /\ Hand # NoOp /\ Hand.user \in Users /\ Hand.kind \in Kinds
        /\ wk \in InHand /\ wk.ws \in Row \cup {NoRow}
    BY HandType, HandFields DEF IInv, TypeOK
  <1>2. /\ Hand.status = "running" \/ (Hand.status = "failed" /\ Hand.kind = "create" /\ wk.verb = "destroy")
        /\ wk.verb = Verb(Hand.kind) \/ (Hand.kind = "create" /\ Hand.status = "failed")
        /\ wk.ws # NoRow /\ ~Removed => row[Hand.user] # NoRow /\ row[Hand.user].slot = wk.ws.slot
    BY DEF IInv, WorkerAgrees
  <1> QED
    BY <1>1, <1>2, Verbs DEF Cleanups

LEMMA WithdrawInv == ASSUME IInv, Withdraw PROVE IInv'
  <1>1. /\ wk # Idle /\ wk.pc = "withdraw"
        /\ UNCHANGED <<status, row, life, issued, project, calls, api, promised, joined, lost, requests>>
    BY DEF Withdraw, Idle, outside, answers
  <1>2. wk.op \in OpIds /\ Hand.user \in Users /\ Hand.kind \in Cleanups
    BY <1>1, HandFacts DEF IInv, WorkerAgrees
  <1>3. CASE Step(IF wk.ws = NoRow THEN "erase" ELSE "send") /\ UNCHANGED <<ops, faults>>
    <2>1. PICK pc \in {"erase", "send"} : Step(pc) /\ (pc = "erase" <=> wk.ws = NoRow)
      BY <1>3
    <2>2. /\ wk' \in InHand \cup {Idle} /\ wk' # Idle
          /\ wk'.pc = pc /\ wk'.op = wk.op /\ wk'.verb = wk.verb /\ wk'.ws = wk.ws
      BY <1>1, <2>1, StepType DEF IInv
    <2>3. WorkerAgrees'
      BY <1>1, <1>3, <2>1, <2>2 DEF IInv, WorkerAgrees, Hand, Removed
    <2>4. calls' = {} /\ calls' \subseteq Call
      BY <1>1 DEF IInv, CallsAgree, CallAgrees
    <2>5. CallsAgree' /\ AnswersHold'
      BY <2>1, <2>2, <2>4 DEF CallsAgree, AnswersHold
    <2>6. faults' \in 0 .. MaxFaults
      BY <1>3 DEF IInv, TypeOK
    <2> QED
      BY <1>1, <1>3, <2>1, <2>2, <2>3, <2>4, <2>5, <2>6, PlaceChanges
  <1>4. CASE Fault("sync") /\ Mark(wk.op, "failed") /\ wk' = Idle
    <2> PICK n \in OpIds : n = wk.op
      BY <1>2
    <2> PICK u \in Users : u = Hand.user
      BY <1>2
    <2>1. faults' \in 0 .. MaxFaults
      BY <1>4 DEF Fault, IInv, TypeOK
    <2>2. row' \in [Users -> Row \cup {NoRow}] /\ SameSlots
      BY <1>1 DEF SameSlots, IInv, TypeOK
    <2>3. /\ ops'[n].kind = ops[n].kind /\ ops'[n].user = ops[n].user /\ ops'[n].attached = ops[n].attached
          /\ ops'[n].status = "failed"
      BY <1>1, <1>4, HandFacts, MarkType DEF IInv, Hand
    <2>4. ASSUME NEW k \in Kinds, Carries(n, u, k) PROVE Carries(n, u, k)'
      BY <1>2, <2>3, <2>4 DEF Carries, OfRow, Unfinished, Hand
    <2>5. ops[n].kind # "create"
      BY <1>2 DEF Hand, Cleanups
    <2> QED
      BY <1>1, <1>4, <2>1, <2>2, <2>4, <2>5, HandIsDone
  <1> QED
    BY <1>3, <1>4 DEF Withdraw

LEMMA CleanupFailedInv == ASSUME IInv, CleanupFailed PROVE IInv'
  <1>1. /\ wk # Idle /\ wk.pc = "refused" /\ Hand.kind \in Cleanups /\ Mark(wk.op, "failed") /\ wk' = Idle
        /\ UNCHANGED <<status, row, life, issued, project, calls, api, promised, joined, lost, requests, faults>>
    BY DEF CleanupFailed, Idle, outside, answers, bounds, Hand
  <1> PICK n \in OpIds : n = wk.op
    BY <1>1, HandFacts
  <1> PICK u \in Users : u = Hand.user
    BY <1>1, HandFacts
  <1>2. row' \in [Users -> Row \cup {NoRow}] /\ SameSlots /\ faults' \in 0 .. MaxFaults
    BY <1>1 DEF SameSlots, IInv, TypeOK
  <1>3. /\ ops'[n].kind = ops[n].kind /\ ops'[n].user = ops[n].user /\ ops'[n].attached = ops[n].attached
        /\ ops'[n].status = "failed"
    BY <1>1, HandFacts, MarkType DEF IInv, Hand
  <1>4. ASSUME NEW k \in Kinds, Carries(n, u, k) PROVE Carries(n, u, k)'
    BY <1>1, <1>3, <1>4 DEF Carries, OfRow, Unfinished, Hand
  <1>5. ops[n].kind # "create"
    BY <1>1 DEF Hand, Cleanups
  <1> QED
    BY <1>1, <1>2, <1>4, <1>5, HandIsDone

\* What is written over a row that the worker's copy announced ends the announcement.
LEMMA WrittenBack ==
    ASSUME IInv, wk # Idle, NEW n \in OpIds, n = wk.op, NEW u \in Users, row[u] # NoRow,
           NEW state \in {"ready", "error"}, Save(u, wk.ws.state, state)
    PROVE  /\ row' \in [Users -> Row \cup {NoRow}] /\ SameSlots /\ \A v \in Users \ {u} : row'[v] = row[v]
           /\ \/ row'[u].state = state /\ row'[u].state \notin DOMAIN Announcing
              \/ row'[u] = row[u] /\ ~WillEnd(n)
  <1>1. PICK copy : copy = wk.ws.state
    OBVIOUS
  <1>2. /\ row' \in [Users -> Row \cup {NoRow}]
        /\ \A v \in Users : (row'[v] = NoRow <=> row[v] = NoRow) /\ row'[v].slot = row[v].slot
        /\ \A v \in Users \ {u} : row'[v] = row[v]
        /\ row'[u].state = IF copy = state THEN row[u].state ELSE state
    BY <1>1, SaveType DEF IInv
  <1>3. CASE copy = state
    <2>1. row' = row /\ ~WillEnd(n)
      BY <1>1, <1>3 DEF Save, WillEnd
    <2> QED
      BY <1>2, <2>1 DEF SameSlots
  <1>4. CASE copy # state
    BY <1>2, <1>4, Words DEF SameSlots
  <1> QED
    BY <1>3, <1>4

LEMMA ResetFailedInv == ASSUME IInv, ResetFailed PROVE IInv'
  <1>1. /\ wk # Idle /\ wk.pc = "refused" /\ wk.verb = "reset" /\ Mark(wk.op, "failed") /\ wk' = Idle
        /\ Save(Hand.user, wk.ws.state, "error")
        /\ UNCHANGED <<status, life, issued, project, calls, api, promised, joined, lost, requests, faults>>
    BY DEF ResetFailed, Idle, outside, answers, bounds, Hand
  <1> PICK n \in OpIds : n = wk.op
    BY <1>1, HandFacts
  <1> PICK u \in Users : u = Hand.user
    BY <1>1, HandFacts
  <1>2. row[u] # NoRow /\ ops[n].kind = "reset"
    <2>1. wk.ws # NoRow /\ ~Removed
      BY <1>1 DEF IInv, WorkerAgrees, Removed
    <2> QED
      BY <1>1, <2>1, HandFacts DEF Hand
  <1>3. /\ row' \in [Users -> Row \cup {NoRow}] /\ SameSlots /\ \A v \in Users \ {u} : row'[v] = row[v]
        /\ \/ row'[u].state = "error" /\ row'[u].state \notin DOMAIN Announcing
           \/ row'[u] = row[u] /\ ~WillEnd(n)
    BY <1>1, <1>2, WrittenBack
  <1>4. faults' \in 0 .. MaxFaults
    BY <1>1 DEF IInv, TypeOK
  <1> QED
    BY <1>1, <1>2, <1>3, <1>4, HandIsDone

LEMMA FinishInv == ASSUME IInv, Finish PROVE IInv'
  <1>1. /\ wk # Idle /\ wk.pc = "finish" /\ Mark(wk.op, "succeeded") /\ wk' = Idle
        /\ UNCHANGED <<status, row, life, issued, project, calls, api, promised, joined, lost, requests, faults>>
    BY DEF Finish, Idle, outside, answers, bounds
  <1> PICK n \in OpIds : n = wk.op
    BY <1>1, HandFacts
  <1> PICK u \in Users : u = Hand.user
    BY <1>1, HandFacts
  <1>2. row' \in [Users -> Row \cup {NoRow}] /\ SameSlots /\ faults' \in 0 .. MaxFaults
    BY <1>1 DEF SameSlots, IInv, TypeOK
  <1>3. ~WillEnd(n)
    BY <1>1 DEF WillEnd
  <1>4. ops[n].kind = "create" => (row[u] # NoRow => project[row[u].slot].owner = u)
    <2>1. SUFFICES ASSUME Hand.kind = "create", row[u] # NoRow PROVE project[row[u].slot].owner = u
      BY DEF Hand
    <2>2. wk.verb = "provision" /\ wk.ws # NoRow /\ ~Removed
      <3>1. Hand.status = "running" /\ wk.ws # NoRow /\ (wk.verb = Verb(Hand.kind) \/ Hand.status = "failed")
        BY <1>1, <2>1 DEF IInv, WorkerAgrees
      <3> QED
        BY <2>1, <3>1, HandFacts, <1>1, Verbs DEF Removed
    <2>3. project[wk.ws.slot].owner = u /\ row[u].slot = wk.ws.slot
      BY <1>1, <2>2, HandFacts DEF IInv, AnswersHold
    <2> QED
      BY <2>3
  <1> QED
    BY <1>1, <1>2, <1>3, <1>4, HandIsDone

LEMMA DeliverInv == ASSUME IInv, Deliver PROVE IInv'
  <1>1. /\ wk # Idle /\ wk.pc = "done" /\ wk.verb \in {"provision", "reset"}
        /\ UNCHANGED <<status, life, issued, project, calls, api, promised, joined, lost, requests>>
    BY DEF Deliver, Idle, outside, answers
  <1> PICK n \in OpIds : n = wk.op
    BY <1>1, HandFacts
  <1> PICK u \in Users : u = Hand.user
    BY <1>1, HandFacts
  <1>2. row[u] # NoRow /\ row[u].slot = wk.ws.slot /\ wk.ws # NoRow
    <2>1. wk.ws # NoRow /\ ~Removed
      BY <1>1 DEF IInv, WorkerAgrees, Removed
    <2> QED
      BY <1>1, <2>1, HandFacts
  <1>3. project[row[u].slot] # Empty /\ project[row[u].slot].owner = u
    BY <1>1, <1>2 DEF IInv, AnswersHold
  <1>4. CASE Fault("stop") /\ Save(Hand.user, wk.ws.state, "error") /\ Mark(wk.op, "failed") /\ wk' = Idle
    <2>1. /\ row' \in [Users -> Row \cup {NoRow}] /\ SameSlots /\ \A v \in Users \ {u} : row'[v] = row[v]
          /\ \/ row'[u].state = "error" /\ row'[u].state \notin DOMAIN Announcing
             \/ row'[u] = row[u] /\ ~WillEnd(n)
      BY <1>1, <1>2, <1>4, WrittenBack
    <2>2. faults' \in 0 .. MaxFaults
      BY <1>4 DEF Fault, IInv, TypeOK
    <2> QED
      BY <1>1, <1>3, <1>4, <2>1, <2>2, HandIsDone
  <1>5. CASE Save(Hand.user, wk.ws.state, "ready") /\ Step("finish") /\ UNCHANGED <<ops, faults>>
    <2>1. /\ row' \in [Users -> Row \cup {NoRow}] /\ SameSlots /\ \A v \in Users \ {u} : row'[v] = row[v]
          /\ \/ row'[u].state = "ready" /\ row'[u].state \notin DOMAIN Announcing
             \/ row'[u] = row[u] /\ ~WillEnd(n)
      BY <1>1, <1>2, <1>5, WrittenBack
    <2>2. /\ wk' \in InHand \cup {Idle} /\ wk' # Idle
          /\ wk'.pc = "finish" /\ wk'.op = wk.op /\ wk'.verb = wk.verb /\ wk'.ws = wk.ws
      BY <1>1, <1>5, StepType DEF IInv
    <2>3. TypeOK'
      BY <1>1, <1>5, <2>1, <2>2 DEF IInv, TypeOK
    <2>4. WorkerAgrees'
      <3>1. Hand.status = "running" /\ Hand.kind \in {"create", "reset"} /\ wk.verb = Verb(Hand.kind)
        BY <1>1, HandFacts
      <3>2. Hand.attached
        BY <1>1, <3>1 DEF IInv, WorkerAgrees, Removed
      <3>3. row'[u] # NoRow /\ row'[u].slot = wk.ws.slot
        BY <1>2, <2>1 DEF SameSlots
      <3>4. ops' = ops /\ Hand # NoOp
        BY <1>5, <1>1, HandFacts
      <3> QED
        BY <1>2, <2>2, <3>1, <3>2, <3>3, <3>4 DEF WorkerAgrees, Hand, Removed
    <2>5. CallsAgree' /\ AnswersHold'
      <3>1. calls = {}
        BY <1>1 DEF IInv, CallsAgree, CallAgrees
      <3>2. ops' = ops
        BY <1>5
      <3> QED
        BY <1>1, <1>2, <1>3, <2>2, <3>1, <3>2 DEF CallsAgree, AnswersHold, Hand
    <2>6. UsableExists'
      <3>1. Exists(u)'
        BY <1>1, <1>3, <2>1 DEF Exists, SameSlots
      <3>2. ASSUME NEW v \in Users \ {u} PROVE Exists(v)'
        BY <1>1, <2>1 DEF IInv, UsableExists, Exists
      <3> QED
        BY <3>1, <3>2 DEF UsableExists
    <2>7. Fits(u)'
      BY <1>1, <1>3, <2>1 DEF Fits, SameSlots
    <2>8. Ended(u)'
      <3>1. CASE row'[u].state \notin DOMAIN Announcing
        BY <3>1, Words DEF Ended
      <3>2. CASE row'[u] = row[u] /\ ~WillEnd(n)
        <4>1. ASSUME NEW k \in Kinds, Tended(u, k) PROVE Tended(u, k)'
          BY <1>1, <1>5, <2>1, <2>2, <3>2, <4>1, HandTends
        <4> QED
          BY <3>2, <4>1, EndedKept DEF IInv, TransitionsEnd
      <3> QED
        BY <2>1, <3>1, <3>2
    <2>9. SameOp(n)
      BY <1>1, <1>5, HandFacts DEF SameOp, Hand
    <2> QED
      BY <1>1, <1>5, <2>1, <2>2, <2>3, <2>4, <2>5, <2>6, <2>7, <2>8, <2>9, WorkerMoves
  <1> QED
    BY <1>4, <1>5 DEF Deliver, Hand

\* The row of the worker's customer goes.
LEMMA RowGoes ==
    ASSUME IInv, wk # Idle, NEW u \in Users, u = Hand.user, wk.pc # "wait",
           row' = [row EXCEPT ![u] = NoRow], Forget(u),
           UNCHANGED <<life, issued, project, calls, api, requests, faults>>,
           status' \in [Users -> {"approved", "deleting", "gone"}], \A v \in Users \ {u} : status'[v] = status[v],
           ops' \in [OpIds -> Op \cup {NoOp}],
           \A o \in OpIds : ops[o] = NoOp \/ ops[o].user # u => ops'[o] = ops[o],
           \A o \in OpIds : ops'[o] # NoOp => ops'[o].user = ops[o].user,
           \A o \in OpIds : ~OfRow(o, u)',
           wk' \in InHand \cup {Idle}, wk' = Idle \/ wk'.op = wk.op, WorkerAgrees', AnswersHold'
    PROVE  IInv'
  <1>1. wk.op \in OpIds /\ Hand = ops[wk.op] /\ ops[wk.op] # NoOp
    BY HandFacts DEF Hand
  <1>2. row' \in [Users -> Row \cup {NoRow}] /\ row'[u] = NoRow /\ \A v \in Users \ {u} : row'[v] = row[v]
    BY DEF IInv, TypeOK
  <1>3. TypeOK'
    BY <1>2 DEF IInv, TypeOK, Forget
  <1>4. RowsApart' /\ GoneHaveNoRow'
    BY <1>2 DEF IInv, RowsApart, GoneHaveNoRow
  <1>5. IdsSuffice'
    BY DEF IInv, IdsSuffice, InFlight
  <1>6. HandlersAgree'
    <2>1. ASSUME NEW h \in Sessions, api'[h] # Idle PROVE HandlerAgrees(api[h])'
      <3>1. HandlerAgrees(api[h]) /\ api[h].user \in Users
        BY <2>1, HandlerFields DEF IInv, TypeOK, HandlersAgree
      <3> QED
        BY <2>1, <3>1, <1>2 DEF HandlerAgrees, SameRow
    <2> QED
      BY <2>1 DEF HandlersAgree
  <1>7. AttachedHaveRow'
    <2>1. ASSUME NEW o \in OpIds, NEW v \in Users, OfRow(o, v)' PROVE row'[v] # NoRow
      <3>1. v # u
        BY <2>1
      <3>2. ops'[o] # NoOp
        BY <2>1 DEF OfRow, NoOp
      <3>3. ops'[o].user = v /\ ops[o].user = v
        BY <2>1, <3>2 DEF OfRow
      <3>4. ops'[o] = ops[o]
        BY <3>1, <3>3
      <3>5. OfRow(o, v)
        BY <2>1, <3>4 DEF OfRow
      <3> QED
        BY <1>2, <3>1, <3>5 DEF IInv, AttachedHaveRow
    <2> QED
      BY <2>1 DEF AttachedHaveRow
  <1>8. CallsAgree'
    <2>1. calls = {}
      BY DEF IInv, CallsAgree, CallAgrees
    <2> QED
      BY <2>1 DEF CallsAgree
  <1>9. UsableExists'
    <2>1. Exists(u)'
      BY <1>2 DEF Exists, NoRow
    <2>2. ASSUME NEW v \in Users \ {u} PROVE Exists(v)'
      BY <1>2 DEF IInv, UsableExists, Exists
    <2> QED
      BY <2>1, <2>2 DEF UsableExists
  <1>10. ASSUME NEW v \in Users \ {u}, NEW k \in Kinds
         PROVE  /\ Unqueued(v, k) => Unqueued(v, k)'
                /\ \A g \in Sessions : Handles(g, v, k) => Handles(g, v, k)'
                /\ \A o \in OpIds : Carries(o, v, k) => Carries(o, v, k)' /\ WillEnd(o)'
    <2>1. Unqueued(v, k) => Unqueued(v, k)'
      BY DEF Unqueued, Forget, Others
    <2>2. \A g \in Sessions : Handles(g, v, k) => Handles(g, v, k)'
      BY <1>2, HandlesKept
    <2>3. ASSUME NEW o \in OpIds, Carries(o, v, k) PROVE Carries(o, v, k)' /\ WillEnd(o)'
      <3>1. ops[o].user = v
        BY <2>3 DEF Carries, OfRow
      <3>2. o # wk.op /\ ops'[o] = ops[o]
        BY <1>1, <3>1
      <3> QED
        BY <2>3, <3>2, OthersCarry
    <2> QED
      BY <2>1, <2>2, <2>3
  <1>11. Theirs'
    <2>1. Fits(u)'
      BY <1>2 DEF Fits
    <2>2. ASSUME NEW v \in Users \ {u} PROVE Fits(v)'
      <3>1. "create" \in Kinds
        BY DEF Kinds
      <3>2. Building(v) => Building(v)'
        BY <1>10, <3>1, BuildingKept
      <3> QED
        BY <1>2, <3>2, FitsKept DEF IInv, Theirs
    <2> QED
      BY <2>1, <2>2 DEF Theirs
  <1>12. TransitionsEnd'
    <2>1. Ended(u)'
      BY <1>2, Words DEF Ended, NoRow
    <2>2. ASSUME NEW v \in Users \ {u} PROVE Ended(v)'
      <3>1. ASSUME NEW k \in Kinds, Tended(v, k) PROVE Tended(v, k)'
        BY <1>10, <3>1, TendedKept
      <3> QED
        BY <1>2, <3>1, EndedKept DEF IInv, TransitionsEnd
    <2> QED
      BY <2>1, <2>2 DEF TransitionsEnd
  <1> QED
    BY <1>3, <1>4, <1>5, <1>6, <1>7, <1>8, <1>9, <1>11, <1>12 DEF IInv

\* Without the worker there is nothing to agree on.
LEMMA IdleAgrees == ASSUME wk' = Idle PROVE WorkerAgrees' /\ AnswersHold' /\ wk' \in InHand \cup {Idle}
  BY DEF WorkerAgrees, AnswersHold

\* An operation is detached from its row.
LEMMA Detached ==
    ASSUME NEW o \in Op
    PROVE  /\ [o EXCEPT !.attached = FALSE] \in Op /\ [o EXCEPT !.attached = FALSE] # NoOp
           /\ [o EXCEPT !.attached = FALSE].user = o.user /\ [o EXCEPT !.attached = FALSE].attached = FALSE
           /\ [o EXCEPT !.attached = FALSE].kind = o.kind /\ [o EXCEPT !.attached = FALSE].status = o.status
  BY DEF Op, NoOp

LEMMA RemoveEmptyRowInv == ASSUME IInv, RemoveEmptyRow PROVE IInv'
  <1>1. wk # Idle /\ wk.pc # "wait" /\ wk' = Idle
    BY DEF RemoveEmptyRow, Idle
  <1> PICK u \in Users : u = Hand.user
    BY <1>1, HandFacts
  <1>2. /\ row' = [row EXCEPT ![u] = NoRow] /\ Forget(u)
        /\ UNCHANGED <<status, life, issued, project, calls, api, requests, faults>>
        /\ ops' = [o \in OpIds |-> IF OfRow(o, u) THEN [ops[o] EXCEPT !.attached = FALSE] ELSE ops[o]]
    BY DEF RemoveEmptyRow, Hand, outside, bounds
  <1>3. \A o \in OpIds : OfRow(o, u) => ops[o] \in Op /\ ops[o].user = u
    BY OpFields DEF OfRow, NoOp, IInv, TypeOK
  <1>4. /\ ops' \in [OpIds -> Op \cup {NoOp}]
        /\ \A o \in OpIds : ops'[o] # NoOp => ops'[o].user = ops[o].user
    BY <1>2, <1>3, Detached DEF IInv, TypeOK
  <1>5. \A o \in OpIds : ops[o] = NoOp \/ ops[o].user # u => ops'[o] = ops[o]
    BY <1>2 DEF OfRow, NoOp
  <1>6. ASSUME NEW o \in OpIds PROVE ~OfRow(o, u)'
    BY <1>2, <1>3, Detached DEF OfRow
  <1>7. status' \in [Users -> {"approved", "deleting", "gone"}]
    BY <1>2 DEF IInv, TypeOK
  <1> QED
    BY <1>1, <1>2, <1>4, <1>5, <1>6, <1>7, IdleAgrees, RowGoes

LEMMA RemoveInv == ASSUME IInv, Remove PROVE IInv'
  <1>1. wk # Idle /\ wk.pc = "done" /\ Hand.kind = "delete" /\ Step("finish")
    BY DEF Remove, Idle, Hand
  <1> PICK u \in Users : u = Hand.user
    BY <1>1, HandFacts
  <1> PICK n \in OpIds : n = wk.op
    BY <1>1, HandFacts
  <1>2. /\ row' = [row EXCEPT ![u] = NoRow] /\ Forget(u)
        /\ UNCHANGED <<status, life, issued, project, calls, api, requests, faults>>
        /\ ops' = [o \in OpIds |-> IF o = n THEN [ops[o] EXCEPT !.attached = FALSE]
                                  ELSE IF OfRow(o, u) THEN NoOp ELSE ops[o]]
    BY DEF Remove, Hand, outside, bounds
  <1>3. ops[n] \in Op /\ ops[n].user = u /\ ops[n].kind = "delete" /\ ops[n].status = "running"
    BY <1>1, HandFacts DEF IInv, WorkerAgrees, Hand
  <1>4. /\ ops' \in [OpIds -> Op \cup {NoOp}]
        /\ \A o \in OpIds : ops'[o] # NoOp => ops'[o].user = ops[o].user
    BY <1>2, <1>3, Detached DEF IInv, TypeOK
  <1>5. \A o \in OpIds : ops[o] = NoOp \/ ops[o].user # u => ops'[o] = ops[o]
    <2>1. ops[n] # NoOp
      BY <1>1, HandFacts DEF Hand
    <2> QED
      BY <1>2, <1>3, <2>1 DEF OfRow, NoOp
  <1>6. ASSUME NEW o \in OpIds PROVE ~OfRow(o, u)'
    BY <1>2, <1>3, Detached DEF OfRow, NoOp
  <1>7. /\ wk' \in InHand \cup {Idle} /\ wk' # Idle
        /\ wk'.pc = "finish" /\ wk'.op = wk.op /\ wk'.verb = wk.verb /\ wk'.ws = wk.ws
    BY <1>1, StepType DEF IInv
  <1>8. /\ ops'[n] # NoOp /\ ops'[n].kind = "delete" /\ ops'[n].status = "running"
        /\ wk.verb = "destroy" /\ Verb("delete") = "destroy" /\ wk.ws # NoRow
    <2>1. ops'[n] = [ops[n] EXCEPT !.attached = FALSE]
      BY <1>2
    <2>2. wk.verb = "destroy" /\ wk.ws # NoRow
      BY <1>1, HandFacts DEF IInv, WorkerAgrees, Cleanups
    <2>3. Verb("delete") = "destroy"
      BY Verbs DEF Kinds, Cleanups
    <2> QED
      BY <1>3, <2>1, <2>2, <2>3, Detached
  <1>9. WorkerAgrees' /\ AnswersHold'
    BY <1>7, <1>8 DEF WorkerAgrees, AnswersHold, Hand, Removed
  <1>10. status' \in [Users -> {"approved", "deleting", "gone"}]
    BY <1>2 DEF IInv, TypeOK
  <1> QED
    BY <1>1, <1>2, <1>4, <1>5, <1>6, <1>7, <1>9, <1>10, RowGoes

LEMMA EraseInv == ASSUME IInv, Erase PROVE IInv'
  <1>1. wk # Idle /\ wk.pc # "wait" /\ wk' = Idle
    BY DEF Erase, Idle
  <1> PICK u \in Users : u = Hand.user
    BY <1>1, HandFacts
  <1>2. /\ row' = [row EXCEPT ![u] = NoRow] /\ Forget(u) /\ status' = [status EXCEPT ![u] = "gone"]
        /\ UNCHANGED <<life, issued, project, calls, api, requests, faults>>
        /\ ops' = [o \in OpIds |-> IF ops[o].status # "none" /\ ops[o].user = u THEN NoOp ELSE ops[o]]
    BY DEF Erase, Hand, outside, bounds
  <1>3. /\ ops' \in [OpIds -> Op \cup {NoOp}]
        /\ \A o \in OpIds : ops'[o] # NoOp => ops'[o].user = ops[o].user
    BY <1>2 DEF IInv, TypeOK
  <1>4. \A o \in OpIds : ops[o] = NoOp \/ ops[o].user # u => ops'[o] = ops[o]
    BY <1>2 DEF NoOp
  <1>5. ASSUME NEW o \in OpIds PROVE ~OfRow(o, u)'
    BY <1>2 DEF OfRow, NoOp
  <1>6. status' \in [Users -> {"approved", "deleting", "gone"}] /\ \A v \in Users \ {u} : status'[v] = status[v]
    BY <1>2 DEF IInv, TypeOK
  <1> QED
    BY <1>1, <1>2, <1>3, <1>4, <1>5, <1>6, IdleAgrees, RowGoes

\* The worker loads its next operation, or gives it up.
LEMMA PickInv == ASSUME IInv, NEW n \in OpIds, Pick(n) PROVE IInv'
  <1> DEFINE ws == Target(n)
             kind == ops[n].kind
  <1>1. /\ wk = Idle /\ Unfinished(n)
        /\ UNCHANGED <<status, row, life, issued, project, calls, api, promised, joined, lost, requests, faults>>
    BY DEF Pick, outside, answers, bounds
  <1>2. /\ ops[n] # NoOp /\ ops[n] \in Op /\ kind \in Kinds /\ ops[n].user \in Users /\ ops[n].attached \in BOOLEAN
    <2>1. ops[n] # NoOp
      BY <1>1 DEF Unfinished, Active, NoOp
    <2> QED
      BY <2>1, OpFields DEF IInv, TypeOK
  <1> PICK u \in Users : u = ops[n].user
    BY <1>2
  <1>3. calls = {}
    BY <1>1 DEF IInv, CallsAgree, CallAgrees
  <1>4. PICK s \in {"failed", "running"} : /\ Mark(n, s)
                                           /\ s = "failed" <=> (ws = NoRow /\ kind # "purge")
                                           /\ s = "failed" => wk' = wk
    BY DEF Pick
  <1>5. /\ ops' \in [OpIds -> Op \cup {NoOp}]
        /\ \A o \in OpIds \ {n} : ops'[o] = ops[o]
        /\ ops'[n] # NoOp /\ ops'[n].kind = kind /\ ops'[n].user = u /\ ops'[n].attached = ops[n].attached
        /\ ops'[n].status = s
    BY <1>2, <1>4, MarkType DEF IInv
  <1>6. /\ ws \in Row \cup {NoRow}
        /\ ws # NoRow => ws = row[u]
        /\ kind = "purge" \/ ops[n].attached => ws = row[u]
        /\ kind # "purge" /\ ws # NoRow => ops[n].attached
    BY <1>2 DEF Target, IInv, TypeOK
  <1>7. OfRow(n, u) => s = "running"
    <2>1. OfRow(n, u) => row[u] # NoRow /\ ops[n].attached
      BY DEF IInv, AttachedHaveRow, OfRow
    <2> QED
      BY <1>4, <1>6, <2>1
  <1>8. s = "running" => /\ wk' \in InHand /\ wk' # Idle /\ wk'.op = n /\ wk'.verb = Verb(kind) /\ wk'.ws = ws
                         /\ wk'.pc = IF kind \in Cleanups THEN "withdraw" ELSE "send"
    <2>1. SUFFICES ASSUME s = "running"
                   PROVE  /\ wk' \in InHand /\ wk' # Idle /\ wk'.op = n /\ wk'.verb = Verb(kind) /\ wk'.ws = ws
                          /\ wk'.pc = IF kind \in Cleanups THEN "withdraw" ELSE "send"
      OBVIOUS
    <2>2. wk' = [op |-> n, verb |-> Verb(kind), ws |-> ws, pc |-> IF kind \in Cleanups THEN "withdraw" ELSE "send"]
      BY <1>4, <2>1 DEF Pick
    <2>3. Verb(kind) \in {"provision", "reset", "destroy"}
      BY <1>2, Verbs
    <2>4. PICK pc \in {"withdraw", "send"} : pc = IF kind \in Cleanups THEN "withdraw" ELSE "send"
      OBVIOUS
    <2>5. PICK verb \in {"provision", "reset", "destroy"} : verb = Verb(kind)
      BY <2>3
    <2>6. wk' = [op |-> n, verb |-> verb, ws |-> ws, pc |-> pc] /\ ws \in Row \cup {NoRow}
      BY <1>6, <2>2, <2>4, <2>5
    <2> HIDE DEF ws
    <2>7. wk' \in InHand /\ wk' # Idle /\ wk'.op = n /\ wk'.verb = verb /\ wk'.ws = ws /\ wk'.pc = pc
      BY <2>6 DEF InHand, Idle
    <2> QED
      BY <2>4, <2>5, <2>7
  <1>9. s = "failed" => wk' = Idle
    BY <1>1, <1>4
  <1>10. TypeOK'
    BY <1>1, <1>5, <1>8, <1>9 DEF IInv, TypeOK
  <1>11. RowsApart' /\ GoneHaveNoRow' /\ HandlersAgree'
    BY <1>1, RowsApartKept, GoneKept, HandlersKept DEF IInv
  <1>12. IdsSuffice'
    BY <1>1, <1>2, <1>5 DEF IInv, IdsSuffice, InFlight
  <1>13. AttachedHaveRow'
    <2>1. ASSUME NEW o \in OpIds, NEW v \in Users, OfRow(o, v)' PROVE OfRow(o, v)
      <3>1. CASE o = n
        BY <2>1, <3>1, <1>1, <1>5 DEF OfRow, Unfinished, Active
      <3>2. CASE o # n
        BY <2>1, <3>2, <1>5 DEF OfRow
      <3> QED
        BY <3>1, <3>2
    <2> QED
      BY <1>1, <2>1 DEF IInv, AttachedHaveRow
  <1>14. WorkerAgrees' /\ CallsAgree' /\ AnswersHold'
    <2>1. CallsAgree'
      BY <1>1, <1>3 DEF CallsAgree
    <2>2. CASE s = "failed"
      BY <2>1, <2>2, <1>9, IdleAgrees
    <2>3. CASE s = "running"
      <3>1. AnswersHold'
        BY <1>8, <2>3 DEF AnswersHold
      <3>2. ws = NoRow => kind = "purge" /\ wk'.pc = "withdraw"
        BY <1>4, <1>8, <2>3 DEF Cleanups
      <3>3. WorkerAgrees'
        <4> HIDE DEF ws, kind
        <4> QED
          BY <1>1, <1>5, <1>6, <1>8, <2>3, <3>2 DEF WorkerAgrees, Hand, Removed, Cleanups
      <3> QED
        BY <2>1, <3>1, <3>3
    <2> QED
      BY <2>2, <2>3
  <1>15. UsableExists'
    BY <1>1 DEF IInv, UsableExists, Exists
  <1>16. ASSUME NEW v \in Users, NEW k \in Kinds, NEW o \in OpIds, Carries(o, v, k) PROVE Carries(o, v, k)'
    <2>1. CASE o # n
      BY <1>1, <1>5, <1>16, <2>1, CarriesKept
    <2>2. CASE o = n
      <3>1. v = u /\ s = "running"
        BY <1>7, <1>16, <2>2 DEF Carries, OfRow
      <3> QED
        BY <1>5, <1>16, <2>2, <3>1 DEF Carries, OfRow, Unfinished, Active
    <2> QED
      BY <2>1, <2>2
  <1>17. ASSUME NEW v \in Users, NEW k \in Kinds
         PROVE  /\ Unqueued(v, k) => Unqueued(v, k)'
                /\ \A g \in Sessions : Handles(g, v, k) => Handles(g, v, k)'
    <2>1. \A g \in Sessions : Handles(g, v, k) => Handles(g, v, k)'
      BY <1>1, HandlesKept
    <2> QED
      BY <1>1, <2>1 DEF Unqueued
  <1>18. Theirs'
    <2>1. ASSUME NEW v \in Users PROVE Fits(v)'
      <3>1. "create" \in Kinds
        BY DEF Kinds
      <3>2. Building(v) => Building(v)'
        BY <1>16, <1>17, <3>1, BuildingKept
      <3> QED
        BY <1>1, <3>2, FitsKept DEF IInv, Theirs
    <2> QED
      BY <2>1 DEF Theirs
  <1>19. TransitionsEnd'
    <2>1. ASSUME NEW v \in Users PROVE Ended(v)'
      <3>1. CASE row[v].state \notin DOMAIN Announcing
        BY <1>1, <3>1, Words DEF Ended
      <3>2. CASE row[v].state \in DOMAIN Announcing
        <4>1. ASSUME NEW k \in Kinds, NEW o \in OpIds, Carries(o, v, k) PROVE WillEnd(o)'
          <5>1. CASE s = "failed" \/ o # n
            BY <1>8, <1>9, <5>1 DEF WillEnd
          <5>2. CASE s = "running" /\ o = n
            <6>1. v = u /\ ws = row[v]
              BY <1>6, <4>1, <5>2 DEF Carries, OfRow
            <6>2. row[v].state \notin {"ready", "error"}
              BY <3>2, Words
            <6> HIDE DEF ws
            <6> QED
              BY <1>8, <5>2, <6>1, <6>2 DEF WillEnd
          <5> QED
            BY <5>1, <5>2
        <4>2. ASSUME NEW k \in Kinds, Tended(v, k) PROVE Tended(v, k)'
          BY <1>16, <1>17, <4>1, <4>2, TendedKept
        <4> QED
          BY <1>1, <4>2, EndedKept DEF IInv, TransitionsEnd
      <3> QED
        BY <3>1, <3>2
    <2> QED
      BY <2>1 DEF TransitionsEnd
  <1> QED
    BY <1>10, <1>11, <1>12, <1>13, <1>14, <1>15, <1>18, <1>19 DEF IInv

\* The API dies with its handlers.
LEMMA DieInv == ASSUME Orderly, IInv, NEW p \in Faults, Die(p) PROVE IInv'
  <1>1. p = "api"
    BY DEF Die, Fault, Orderly
  <1>2. /\ api' = [h \in Sessions |-> Idle] /\ Fault("api")
        /\ lost' = lost \cup {<<api[h].user, api[h].kind>> : h \in {i \in Sessions : Announces(api[i])}}
        /\ UNCHANGED <<status, row, life, ops, issued, project, wk, calls, promised, joined, requests>>
    BY <1>1 DEF Die, table
  <1>3. lost' \subseteq Users \X Kinds
    <2>1. ASSUME NEW h \in Sessions, Announces(api[h]) PROVE api[h].user \in Users /\ api[h].kind \in Kinds
      <3>1. api[h] # Idle
        BY <2>1 DEF Announces, Idle
      <3> QED
        BY <2>1, <3>1, HandlerFields DEF Announces, IInv, TypeOK, Kinds
    <2> QED
      BY <1>2, <2>1 DEF IInv, TypeOK
  <1>4. TypeOK'
    BY <1>2, <1>3 DEF IInv, TypeOK, Fault
  <1>5. RowsApart' /\ GoneHaveNoRow' /\ AttachedHaveRow' /\ WorkerAgrees' /\ CallsAgree' /\ AnswersHold' /\ UsableExists'
    BY <1>2, RowsApartKept, GoneKept, AttachedKept, WorkerKept, CallsKept, AnswersKept, ExistsKept DEF IInv
  <1>6. HandlersAgree'
    BY <1>2 DEF HandlersAgree
  <1>7. IdsSuffice'
    <2>1. InFlight' = {}
      BY <1>2 DEF InFlight
    <2>2. Cardinality(InFlight') = 0
      BY <2>1, FS_EmptySet
    <2>3. issued <= requests
      BY InFlightNat DEF IInv, IdsSuffice, TypeOK
    <2> QED
      BY <1>2, <2>2, <2>3 DEF IInv, IdsSuffice, TypeOK
  <1>8. ASSUME NEW v \in Users, NEW k \in Kinds
        PROVE  /\ Unqueued(v, k) => Unqueued(v, k)'
               /\ \A g \in Sessions : Handles(g, v, k) => Unqueued(v, k)'
               /\ \A o \in OpIds : /\ Carries(o, v, k) => Carries(o, v, k)'
                                   /\ WillEnd(o) => WillEnd(o)'
    <2>1. Unqueued(v, k) => Unqueued(v, k)'
      BY <1>2 DEF Unqueued
    <2>2. ASSUME NEW g \in Sessions, Handles(g, v, k) PROVE Unqueued(v, k)'
      <3>1. Announces(api[g]) /\ api[g].user = v /\ api[g].kind = k
        BY <2>2 DEF Handles
      <3>2. <<v, k>> \in lost'
        BY <1>2, <3>1
      <3> QED
        BY <3>2 DEF Unqueued
    <2>3. ASSUME NEW o \in OpIds, Carries(o, v, k) PROVE Carries(o, v, k)'
      BY <1>2, <2>3, CarriesKept
    <2>4. \A o \in OpIds : WillEnd(o) => WillEnd(o)'
      BY <1>2 DEF WillEnd
    <2> QED
      BY <2>1, <2>2, <2>3, <2>4
  <1>9. Theirs'
    <2>1. ASSUME NEW v \in Users PROVE Fits(v)'
      <3>1. "create" \in Kinds
        BY DEF Kinds
      <3>2. \A g \in Sessions : Handles(g, v, "create") => Building(v)'
        BY <1>8, <3>1 DEF Building
      <3>3. Building(v) => Building(v)'
        BY <1>8, <3>1, <3>2, BuildingKept
      <3> QED
        BY <1>2, <3>3, FitsKept DEF IInv, Theirs
    <2> QED
      BY <2>1 DEF Theirs
  <1>10. TransitionsEnd'
    <2>1. ASSUME NEW v \in Users PROVE Ended(v)'
      <3>1. ASSUME NEW k \in Kinds, Tended(v, k) PROVE Tended(v, k)'
        <4>1. \A g \in Sessions : Handles(g, v, k) => Tended(v, k)'
          BY <1>8 DEF Tended
        <4> QED
          BY <1>8, <3>1, <4>1, TendedKept
      <3> QED
        BY <1>2, <3>1, EndedKept DEF IInv, TransitionsEnd
    <2> QED
      BY <2>1 DEF TransitionsEnd
  <1> QED
    BY <1>4, <1>5, <1>6, <1>7, <1>9, <1>10 DEF IInv

-----------------------------------------------------------------------------
(* The theorems.                                                             *)

LEMMA InitInv == ASSUME Init PROVE IInv
  <1> USE DEF Init
  <1>1. TypeOK
    BY DEF TypeOK, NoRow, NoOp, Empty, Idle
  <1>2. \A u \in Users : row[u] = NoRow /\ row[u].state = "none"
    BY DEF NoRow
  <1>3. \A o \in OpIds : ops[o] = NoOp /\ ops[o].status = "none"
    BY DEF NoOp
  <1>4. RowsApart /\ GoneHaveNoRow /\ AttachedHaveRow
    BY <1>2, <1>3 DEF RowsApart, GoneHaveNoRow, AttachedHaveRow, OfRow
  <1>5. IdsSuffice
    <2>1. InFlight = {}
      BY DEF InFlight
    <2>2. Cardinality(InFlight) = 0
      BY <2>1, FS_EmptySet
    <2> QED
      BY <1>3, <2>2 DEF IdsSuffice
  <1>6. HandlersAgree
    BY DEF HandlersAgree
  <1>7. WorkerAgrees /\ CallsAgree /\ AnswersHold
    BY DEF WorkerAgrees, CallsAgree, AnswersHold
  <1>8. Theirs /\ UsableExists /\ TransitionsEnd
    BY <1>2, Words DEF Theirs, Fits, UsableExists, Exists, TransitionsEnd, Ended
  <1> QED
    BY <1>1, <1>4, <1>5, <1>6, <1>7, <1>8 DEF IInv

LEMMA StutterInv == ASSUME IInv, UNCHANGED vars PROVE IInv'
  <1>1. UNCHANGED <<status, row, life, ops, issued, project, calls, api, wk, promised, joined, lost, requests, faults>>
    BY DEF vars
  <1>2. TypeOK'
    BY <1>1 DEF IInv, TypeOK
  <1>3. RowsApart' /\ GoneHaveNoRow' /\ AttachedHaveRow' /\ WorkerAgrees' /\ CallsAgree' /\ AnswersHold' /\ UsableExists'
        /\ HandlersAgree'
    BY <1>1, RowsApartKept, GoneKept, AttachedKept, WorkerKept, CallsKept, AnswersKept, ExistsKept, HandlersKept
       DEF IInv
  <1>4. IdsSuffice'
    BY <1>1 DEF IInv, IdsSuffice, InFlight
  <1>5. Theirs'
    BY <1>1 DEF IInv, Theirs, Fits, Building, Unqueued, Handles, Announces, SameRow, Carries, OfRow, Unfinished, Active
  <1>6. TransitionsEnd'
    BY <1>1 DEF IInv, TransitionsEnd, Ended, Tended, WillEnd, Unqueued, Handles, Announces, SameRow, Carries, OfRow,
                Unfinished, Active
  <1> QED
    BY <1>2, <1>3, <1>4, <1>5, <1>6 DEF IInv

LEMMA HandleInv == ASSUME IInv, NEW h \in Sessions, Handle(h) PROVE IInv'
  BY RefuseInv, RecordCreateInv, RecordChangeInv, RecordPurgeInv, EndOffInv, CheckInv, InsertInv DEF Handle

LEMMA WorkInv == ASSUME IInv, Work PROVE IInv'
  BY PickInv, WithdrawInv, SendInv, DeliverInv, FinishInv, CreateFailedInv, RemoveEmptyRowInv, ResetFailedInv,
     CleanupFailedInv, RemoveInv, EraseInv, AdoptInv DEF Work

LEMMA NextInv == ASSUME Orderly, IInv, [Next]_vars PROVE IInv'
  <1>1. CASE \E h \in Sessions, u \in Users, k \in Kinds \cup {"off"} : Request(h, u, k)
    BY <1>1, RequestInv
  <1>2. CASE \E h \in Sessions : Handle(h)
    BY <1>2, HandleInv
  <1>3. CASE Work
    BY <1>3, WorkInv
  <1>4. CASE Timeout
    BY <1>4 DEF Timeout, Fault, Orderly
  <1>5. CASE \E c \in calls : Provision(c) \/ VerbFails(c)
    BY <1>5, BeginBuildInv, EndBuildInv, DestroyInv, VerbFailsInv DEF Provision
  <1>6. CASE \E p \in Faults : Die(p)
    BY <1>6, DieInv
  <1>7. CASE UNCHANGED vars
    BY <1>7, StutterInv
  <1> QED
    BY <1>1, <1>2, <1>3, <1>4, <1>5, <1>6, <1>7 DEF Next

LEMMA Invariance == Orderly => (Spec => []IInv)
  <1> SUFFICES ASSUME Orderly PROVE Spec => []IInv
    OBVIOUS
  <1>1. IInv /\ [Next]_vars => IInv'
    BY NextInv
  <1> QED
    BY InitInv, <1>1, PTL DEF Spec

LEMMA UsableFromInv == ASSUME IInv PROVE UsableMachineIsTheirs
  <1> SUFFICES ASSUME NEW u \in Users, row[u].state = "ready", Settled(u), ~Unqueued(u, "create")
               PROVE  project[row[u].slot] # Empty /\ project[row[u].slot].owner = u
    BY DEF UsableMachineIsTheirs
  <1>1. \A o \in OpIds : Carries(o, u, "create") => FALSE
    BY DEF Settled, Carries, Concerns
  <1>2. ~Building(u)
    BY <1>1 DEF Building, Handles, Announces, Settled, Idle
  <1>3. project[row[u].slot] # Empty
    <2>1. SUFFICES ASSUME project[row[u].slot] = Empty PROVE FALSE
      OBVIOUS
    <2>2. wk # Idle /\ wk.pc = "done" /\ Hand.user = u
      BY <2>1 DEF IInv, UsableExists, Exists
    <2>3. Concerns(wk.op, u)
      BY <2>2 DEF IInv, WorkerAgrees, Removed, Hand, Concerns, OfRow
    <2> QED
      BY <2>2, <2>3 DEF Settled
  <1>4. row[u] # NoRow
    BY DEF NoRow
  <1> QED
    BY <1>2, <1>3, <1>4 DEF IInv, Theirs, Fits

\* Whatever customers, administrators, faulty scripts and a dying API do, a machine the
\* panel shows as usable, with nobody at work on it, exists and is its customer's.
THEOREM MachinesAreTheirs == Orderly => (Spec => []UsableMachineIsTheirs)
  <1> SUFFICES ASSUME Orderly PROVE Spec => []UsableMachineIsTheirs
    OBVIOUS
  <1>1. Spec => []IInv
    BY Invariance
  <1>2. IInv => UsableMachineIsTheirs
    BY UsableFromInv
  <1> QED
    BY <1>1, <1>2, PTL

LEMMA TransitionsFromInv == ASSUME IInv PROVE TransitionsHaveOperations
  <1>1. ASSUME NEW u \in Users, NEW kind, Tended(u, kind)
        PROVE  \/ Unqueued(u, kind)
               \/ \E o \in OpIds : /\ OfRow(o, u) /\ ops[o].kind = kind
                                   /\ Unfinished(o) \/ (kind = "create" /\ wk # Idle /\ wk.op = o)
               \/ \E h \in Sessions : Announces(api[h]) /\ api[h].user = u /\ api[h].kind = kind
    BY <1>1 DEF Tended, Handles, Carries
  <1>2. \A u \in Users : row[u].state \in DOMAIN Announcing => Tended(u, Announcing[row[u].state])
    BY DEF IInv, TransitionsEnd, Ended
  <1>3. ASSUME NEW u \in Users, row[u].state \in DOMAIN Announcing
        PROVE  \/ Unqueued(u, Announcing[row[u].state])
               \/ \E o \in OpIds : /\ OfRow(o, u) /\ ops[o].kind = Announcing[row[u].state]
                                   /\ \/ Unfinished(o)
                                      \/ Announcing[row[u].state] = "create" /\ wk # Idle /\ wk.op = o
               \/ \E h \in Sessions : /\ Announces(api[h]) /\ api[h].user = u
                                      /\ api[h].kind = Announcing[row[u].state]
    <2>1. PICK kind : kind = Announcing[row[u].state]
      OBVIOUS
    <2>2. Tended(u, kind)
      BY <1>2, <1>3, <2>1
    <2> QED
      BY <1>1, <2>1, <2>2
  <1> QED
    BY <1>3 DEF TransitionsHaveOperations

\* No row is left provisioning, resetting or deleting with nothing to end it.
THEOREM NothingStrands == Orderly => (Spec => []TransitionsHaveOperations)
  <1> SUFFICES ASSUME Orderly PROVE Spec => []TransitionsHaveOperations
    OBVIOUS
  <1>1. Spec => []IInv
    BY Invariance
  <1>2. IInv => TransitionsHaveOperations
    BY TransitionsFromInv
  <1> QED
    BY <1>1, <1>2, PTL

\* Only the worker erases an account, and what it erases after is a destroyed machine.
LEMMA OnlyErase ==
    ASSUME IInv, Next, NEW u \in Users, status'[u] = "gone", status[u] # "gone" PROVE Erase
  <1>1. status' # status
    OBVIOUS
  <1>2. ASSUME NEW h \in Sessions, RecordPurge(h) PROVE FALSE
    <2>1. status' = [status EXCEPT ![api[h].user] = "deleting"]
      BY <1>1, <1>2 DEF RecordPurge
    <2> QED
      BY <2>1 DEF IInv, TypeOK
  <1>3. ASSUME NEW h \in Sessions, Handle(h) PROVE FALSE
    BY <1>1, <1>2, <1>3 DEF Handle, Refuse, RecordCreate, RecordChange, EndOff, Check, Insert
  <1>4. ASSUME Work PROVE Erase
    BY <1>1, <1>4 DEF Work, Pick, Withdraw, Send, Deliver, Finish, CreateFailed, RemoveEmptyRow, ResetFailed,
                      CleanupFailed, Remove, Adopt
  <1>5. ASSUME NEW c \in calls, Provision(c) \/ VerbFails(c) PROVE FALSE
    BY <1>1, <1>5 DEF Provision, BeginBuild, EndBuild, Destroy, VerbFails
  <1> QED
    BY <1>1, <1>3, <1>4, <1>5 DEF Next, Request, Timeout, Die

\* An account is erased only after the machine its row names was destroyed.
THEOREM MachineGoesFirst == Orderly => (Spec => ErasedAfterMachine)
  <1> SUFFICES ASSUME Orderly PROVE Spec => ErasedAfterMachine
    OBVIOUS
  <1>1. Spec => []IInv
    BY Invariance
  <1>2. ASSUME IInv, [Next]_vars, NEW u \in Users, status'[u] = "gone", status[u] # "gone", wk.ws # NoRow
        PROVE  project[wk.ws.slot] = Empty
    <2>1. Next
      BY <1>2 DEF vars
    <2>2. Erase
      BY <1>2, <2>1, OnlyErase
    <2>3. wk # Idle
      BY <2>2 DEF Erase, Idle
    <2>4. wk.pc = "done" /\ Hand.kind = "purge"
      BY <1>2, <2>2, <2>3 DEF Erase, IInv, WorkerAgrees, Hand
    <2>5. wk.verb = "destroy"
      BY <1>2, <2>3, <2>4, HandFacts DEF Cleanups
    <2> QED
      BY <1>2, <2>3, <2>4, <2>5 DEF IInv, AnswersHold
  <1>3. IInv /\ [Next]_vars =>
          [\A u \in Users : status'[u] = "gone" /\ status[u] # "gone" /\ wk.ws # NoRow =>
             project[wk.ws.slot] = Empty]_vars
    BY <1>2
  <1> QED
    BY <1>1, <1>3, PTL DEF Spec, ErasedAfterMachine

\* Every variable keeps its type.
THEOREM Typing == Orderly => (Spec => []TypeOK)
  <1> SUFFICES ASSUME Orderly PROVE Spec => []TypeOK
    OBVIOUS
  <1>1. Spec => []IInv
    BY Invariance
  <1>2. IInv => TypeOK
    BY DEF IInv
  <1> QED
    BY <1>1, <1>2, PTL

=============================================================================
