----------------------------- MODULE PowerProofs -----------------------------
(***************************************************************************)
(* For any number of requests, faults and balance changes: Power is well   *)
(* typed and a transition state always has somebody at work on it.  The    *)
(* strengthening says what a handler's copy must hold for its last commit  *)
(* to overwrite the transition: the copy carries the very transition the   *)
(* handler announced, so the final state differs from it and is written.   *)
(***************************************************************************)
EXTENDS Power, TLAPS

InFlight(q) == req[q].pc \notin {"idle", "read"}

CopiesCarryTransitions ==
    \A q \in Requests : InFlight(q) => req[q].copy.state \in {"starting", "stopping"}

PassesMatch ==
    /\ wk.pc = "archive" => wk.pass = "lifecycle" /\ wk.copy.state = "archiving"
    /\ wk.pc \in {"stop", "stopped"} => wk.pass # "lifecycle"

IInv == TypeOK /\ CopiesCarryTransitions /\ PassesMatch /\ TransitionsHaveOwners

\* What a commit leaves in the row: each attribute is the new one or the old one.
LEMMA SaveRow ==
    ASSUME row \in Row, NEW copy \in Row, NEW new \in Row, NEW renewed,
           Save(copy, new, renewed)
    PROVE  /\ row' \in Row
           /\ row'.state \in {row.state, new.state}
           /\ new.state = copy.state /\ "state" \notin renewed => row'.state = row.state
           /\ new.state # copy.state => row'.state = new.state
  BY DEF Save, Row

\* A step that leaves handlers and deaths alone and moves the row to ON, OFF or
\* nowhere keeps owners, unless it is the end of an archive.
LEMMA QuietRow ==
    ASSUME IInv, req' = req, died' = died, wk.pc # "archive",
           row'.state \in {row.state, "on", "off"}
    PROVE  TransitionsHaveOwners' /\ CopiesCarryTransitions'
  <1>1. CopiesCarryTransitions'
    BY DEF IInv, CopiesCarryTransitions, InFlight
  <1>2. ASSUME row'.state \in {"starting", "stopping"}
        PROVE  "api" \in died' \/ \E q \in Requests : Owns(q)'
    <2>1. row'.state = row.state
      BY <1>2
    <2>2. "api" \in died \/ \E q \in Requests : Owns(q)
      BY <1>2, <2>1 DEF IInv, TransitionsHaveOwners
    <2> QED
      BY <2>1, <2>2 DEF Owns
  <1>3. row'.state = "archiving" => "worker" \in died'
    BY DEF IInv, TransitionsHaveOwners, InPass
  <1> QED
    BY <1>1, <1>2, <1>3 DEF TransitionsHaveOwners

LEMMA InitInv == ASSUME Init PROVE IInv
  <1>1. row \in Row /\ row.state = "off"
    BY DEF Init, SwitchedOff, Row, States
  <1>2. \A q \in Requests : req[q] = Idle
    BY DEF Init
  <1>3. TypeOK
    <2>1. req \in [Requests -> {Idle} \cup Handlers] /\ wk \in {Idle} \cup Worker
      BY DEF Init
    <2>2. arrivals \in 0 .. MaxArrivals /\ faults \in 0 .. MaxFaults /\ moves \in 0 .. MaxCredit
      BY BoundsAssumption DEF Init
    <2> QED
      BY <1>1, <2>1, <2>2 DEF Init, TypeOK
  <1>4. CopiesCarryTransitions
    BY <1>2 DEF CopiesCarryTransitions, InFlight, Idle
  <1>5. TransitionsHaveOwners
    BY <1>1 DEF TransitionsHaveOwners
  <1> QED
    BY <1>3, <1>4, <1>5 DEF Init, IInv, PassesMatch, Idle

-----------------------------------------------------------------------------
(* Handlers.                                                                 *)

\* A handler q that has not announced anything ends or reads: nobody's ownership
\* changes.
LEMMA NoOwnerLost ==
    ASSUME IInv, NEW q \in Requests, req[q].pc \in {"idle", "read"},
           row'.state = row.state, wk' = wk, died' = died,
           \A r \in Requests : r # q => req'[r] = req[r],
           req'[q].pc \in {"idle", "read"}
    PROVE  TransitionsHaveOwners' /\ CopiesCarryTransitions' /\ PassesMatch'
  <1>1. \A r \in Requests : Owns(r) => r # q
    BY DEF Owns
  <1>2. \A r \in Requests : Owns(r) => Owns(r)'
    BY <1>1 DEF Owns
  <1>3. TransitionsHaveOwners'
    BY <1>2 DEF IInv, TransitionsHaveOwners, InPass
  <1>4. CopiesCarryTransitions'
    BY DEF IInv, CopiesCarryTransitions, InFlight
  <1> QED
    BY <1>3, <1>4 DEF IInv, PassesMatch

LEMMA ArriveInv == ASSUME IInv, NEW q \in Requests, NEW k \in Kinds, Arrive(q, k) PROVE IInv'
  <1> DEFINE h == [pc |-> "read", kind |-> k, copy |-> row]
  <1>1. h \in Handlers
    BY DEF IInv, TypeOK, Handlers
  <1>2. TypeOK'
    BY <1>1, BoundsAssumption DEF IInv, TypeOK, Arrive, incus, Idle
  <1>3. TransitionsHaveOwners' /\ CopiesCarryTransitions' /\ PassesMatch'
    <2>1. /\ \A r \in Requests : r # q => req'[r] = req[r]
          /\ req'[q].pc = "read" /\ row'.state = row.state
      BY DEF IInv, TypeOK, Arrive
    <2>2. req[q].pc \in {"idle", "read"} /\ wk' = wk /\ died' = died
      BY DEF Arrive, InFlight, Idle
    <2> QED
      BY <2>1, <2>2, NoOwnerLost
  <1> QED
    BY <1>2, <1>3 DEF IInv

LEMMA RefuseInv == ASSUME IInv, NEW q \in Requests, Refuse(q) PROVE IInv'
  <1>1. TypeOK'
    BY DEF IInv, TypeOK, Refuse, incus, counters, Idle
  <1>2. TransitionsHaveOwners' /\ CopiesCarryTransitions' /\ PassesMatch'
    <2>1. /\ \A r \in Requests : r # q => req'[r] = req[r]
          /\ req'[q].pc = "idle" /\ row'.state = row.state
      BY DEF IInv, TypeOK, Refuse, Idle
    <2>2. req[q].pc \in {"idle", "read"} /\ wk' = wk /\ died' = died
      BY DEF Refuse, InFlight, counters
    <2> QED
      BY <2>1, <2>2, NoOwnerLost
  <1> QED
    BY <1>1, <1>2 DEF IInv

\* A handler that loaded the row, or is past that, has a copy.
LEMMA HandlerType ==
    ASSUME TypeOK, NEW q \in Requests, req[q].pc # "idle"
    PROVE  /\ req[q] \in Handlers /\ req[q].copy \in Row /\ req[q].kind \in Kinds
           /\ req[q].pc \in {"read", "start", "started", "stop", "stopped", "failed"}
  <1>1. req[q] \in {Idle} \cup Handlers
    BY DEF TypeOK
  <1> QED
    BY <1>1 DEF Idle, Handlers

LEMMA KeepRunningInv == ASSUME IInv, NEW q \in Requests, KeepRunning(q) PROVE IInv'
  <1> DEFINE new == [req[q].copy EXCEPT !.deadline = "none"]
  <1>1. req[q].copy \in Row
    BY HandlerType DEF IInv, KeepRunning
  <1>2. new \in Row /\ new.state = req[q].copy.state
    BY <1>1 DEF Row
  <1>3. Save(req[q].copy, new, {})
    BY DEF KeepRunning
  <1>4. row' \in Row /\ row'.state = row.state
    <2>1. row \in Row
      BY DEF IInv, TypeOK
    <2> QED
      BY <1>1, <1>2, <1>3, <2>1, SaveRow, "state" \notin {}
  <1>5. TypeOK'
    BY <1>4 DEF IInv, TypeOK, KeepRunning, counters, Idle
  <1>6. TransitionsHaveOwners' /\ CopiesCarryTransitions' /\ PassesMatch'
    <2>1. (\A r \in Requests : r # q => req'[r] = req[r]) /\ req'[q].pc = "idle"
      BY DEF IInv, TypeOK, KeepRunning, Idle
    <2>2. req[q].pc \in {"idle", "read"} /\ wk' = wk /\ died' = died
      BY DEF KeepRunning, InFlight, counters
    <2> QED
      BY <1>4, <2>1, <2>2, NoOwnerLost
  <1> QED
    BY <1>5, <1>6 DEF IInv

\* A request announces its transition and becomes its owner; a stop over a row
\* that already says STOPPING writes nothing.
LEMMA BeginInv ==
    ASSUME IInv, NEW q \in Requests, NEW kinds,
           NEW state \in {"starting", "stopping"}, NEW pc \in {"start", "stop"},
           Begin(q, kinds, state, pc)
    PROVE  IInv'
  <1> DEFINE new == [req[q].copy EXCEPT !.state = state]
             h == [pc |-> pc, kind |-> req[q].kind, copy |-> new]
  <1>1. req[q].copy \in Row /\ req[q].kind \in Kinds /\ ~InFlight(q)
    BY HandlerType DEF IInv, Begin, InFlight
  <1>2. new \in Row /\ new.state = state /\ h \in Handlers /\ h.pc = pc /\ h.copy = new
    BY <1>1 DEF Row, States, Handlers
  <1>3. row' \in Row /\ row'.state \in {row.state, state}
    <2>1. row \in Row /\ Save(req[q].copy, new, {})
      BY DEF IInv, TypeOK, Begin
    <2> QED
      BY <1>1, <1>2, <2>1, SaveRow
  <1>4. req' = [req EXCEPT ![q] = h]
    BY DEF Begin, To
  <1>5. (\A r \in Requests : r # q => req'[r] = req[r]) /\ req'[q] = h
    BY <1>4 DEF IInv, TypeOK
  <1>6. TypeOK'
    BY <1>2, <1>3, <1>4 DEF IInv, TypeOK, Begin, incus, counters
  <1>7. CopiesCarryTransitions'
    BY <1>2, <1>5 DEF IInv, CopiesCarryTransitions, InFlight
  <1>8. row'.state = state => Owns(q)'
    BY <1>2, <1>5 DEF Owns
  <1>9. ASSUME row'.state = row.state, NEW r \in Requests, Owns(r) PROVE Owns(r)'
    BY <1>1, <1>5, <1>9 DEF Owns, InFlight
  <1>10. (row'.state \in {"starting", "stopping"})
           => ("api" \in died' \/ \E r \in Requests : Owns(r)')
    BY <1>3, <1>8, <1>9 DEF IInv, TransitionsHaveOwners, Begin, counters
  <1>11. row'.state = "archiving" => "worker" \in died' \/ InPass("lifecycle", "archive")'
    BY <1>3 DEF IInv, TransitionsHaveOwners, Begin, counters, InPass
  <1>12. TransitionsHaveOwners'
    BY <1>10, <1>11 DEF TransitionsHaveOwners
  <1> QED
    BY <1>6, <1>7, <1>12 DEF IInv, PassesMatch, Begin

\* Incus answers, or does not.
LEMMA IncusType ==
    ASSUME TypeOK, NEW op \in Ops, Answers(op) \/ Errors(op)
    PROVE  /\ running' \in BOOLEAN /\ waived' \in BOOLEAN /\ late' \subseteq Ops
           /\ faults' \in 0 .. MaxFaults
  <1>1. faults' \in 0 .. MaxFaults
    BY BoundsAssumption DEF TypeOK, Answers, Errors
  <1>2. late' \subseteq Ops
    BY DEF TypeOK, Answers, Errors
  <1>3. running' \in BOOLEAN
    BY DEF TypeOK, Answers, Errors, Perform
  <1>4. waived' \in BOOLEAN
    BY DEF TypeOK, Answers, Errors, Perform
  <1> QED
    BY <1>1, <1>2, <1>3, <1>4

\* Incus answers a handler: it stays in flight with its copy.
LEMMA CallInv == ASSUME IInv, NEW q \in Requests, Call(q) PROVE IInv'
  <1>1. req[q].pc \in Ops /\ req[q] \in Handlers /\ req[q].copy \in Row /\ req[q].kind \in Kinds
    BY HandlerType DEF IInv, Call, Ops
  <1>2. PICK pc \in {"started", "stopped", "failed"} : To(q, pc, req[q].copy)
    BY DEF Call
  <1> DEFINE h == [pc |-> pc, kind |-> req[q].kind, copy |-> req[q].copy]
  <1>3. h \in Handlers /\ h.pc = pc /\ h.copy = req[q].copy
    BY <1>1 DEF Handlers
  <1>4. req' = [req EXCEPT ![q] = h]
    BY <1>2 DEF To
  <1>5. (\A r \in Requests : r # q => req'[r] = req[r]) /\ req'[q] = h
    BY <1>4 DEF IInv, TypeOK
  <1>6. running' \in BOOLEAN /\ waived' \in BOOLEAN /\ late' \subseteq Ops /\ faults' \in 0 .. MaxFaults
    <2>1. Answers(req[q].pc) \/ Errors(req[q].pc)
      BY DEF Call
    <2> QED
      BY <1>1, <2>1, IncusType DEF IInv
  <1>7. TypeOK'
    BY <1>3, <1>4, <1>6 DEF IInv, TypeOK, Call
  <1>8. CopiesCarryTransitions'
    BY <1>1, <1>3, <1>5 DEF IInv, CopiesCarryTransitions, InFlight, Ops
  <1>9. ASSUME NEW r \in Requests, Owns(r) PROVE Owns(r)'
    BY <1>3, <1>5, <1>9 DEF Owns, Call
  <1>10. TransitionsHaveOwners'
    BY <1>9 DEF IInv, TransitionsHaveOwners, Call, InPass
  <1> QED
    BY <1>7, <1>8, <1>10 DEF IInv, PassesMatch, Call

\* The last commit: the copy still says STARTING or STOPPING, so the final state
\* differs from it and reaches the row.
LEMMA EndInv ==
    ASSUME IInv, NEW q \in Requests, InFlight(q),
           NEW new \in Row, new.state \in {"on", "off", "error"},
           NEW renewed, "state" \notin renewed,
           NEW answer \in {"none", "on", "off", "stopFailed"},
           End(q, new, renewed, answer)
    PROVE  IInv'
  <1>1. req[q].copy \in Row
    BY HandlerType DEF IInv, InFlight
  <1>2. new.state # req[q].copy.state
    BY DEF IInv, CopiesCarryTransitions
  <1>3. row' \in Row /\ row'.state = new.state
    <2>1. row \in Row /\ Save(req[q].copy, new, renewed)
      BY DEF IInv, TypeOK, End
    <2> QED
      BY <1>1, <1>2, <2>1, SaveRow
  <1>4. TypeOK'
    BY <1>3 DEF IInv, TypeOK, End, incus, counters
  <1>5. (\A r \in Requests : r # q => req'[r] = req[r]) /\ req'[q].pc = "idle"
    BY DEF IInv, TypeOK, End, Idle
  <1>6. CopiesCarryTransitions'
    BY <1>5 DEF IInv, CopiesCarryTransitions, InFlight
  <1>7. TransitionsHaveOwners'
    BY <1>3 DEF TransitionsHaveOwners
  <1> QED
    BY <1>4, <1>6, <1>7 DEF IInv, PassesMatch, End

LEMMA EndOnInv == ASSUME IInv, NEW q \in Requests, EndOn(q) PROVE IInv'
  <1>1. SwitchedOn \in Row /\ SwitchedOn.state = "on"
    BY DEF SwitchedOn, Row, States
  <1>2. InFlight(q) /\ End(q, SwitchedOn, {"period", "deadline"}, "on")
    BY DEF EndOn, InFlight
  <1>3. "state" \notin {"period", "deadline"}
    OBVIOUS
  <1> QED
    BY <1>1, <1>2, <1>3, EndInv

LEMMA EndOffInv == ASSUME IInv, NEW q \in Requests, EndOff(q) PROVE IInv'
  <1>1. SwitchedOff \in Row /\ SwitchedOff.state = "off"
    BY DEF SwitchedOff, Row, States
  <1>2. InFlight(q) /\ \E answer \in {"none", "off"} : End(q, SwitchedOff, {}, answer)
    BY DEF EndOff, InFlight
  <1>3. "state" \notin {}
    OBVIOUS
  <1> QED
    BY <1>1, <1>2, <1>3, EndInv

LEMMA EndFailedInv == ASSUME IInv, NEW q \in Requests, EndFailed(q) PROVE IInv'
  <1> DEFINE new == [req[q].copy EXCEPT !.state = "error"]
  <1>1. InFlight(q) /\ \E answer \in {"none", "stopFailed"} : End(q, new, {}, answer)
    BY DEF EndFailed, InFlight
  <1>2. new \in Row /\ new.state = "error"
    BY <1>1, HandlerType DEF IInv, InFlight, Row, States
  <1>3. "state" \notin {}
    OBVIOUS
  <1> QED
    BY <1>1, <1>2, <1>3, EndInv

LEMMA HandleInv == ASSUME IInv, NEW q \in Requests, Handle(q) PROVE IInv'
  <1>1. CASE BeginOn(q)
    BY <1>1, BeginInv DEF BeginOn
  <1>2. CASE BeginOff(q)
    BY <1>2, BeginInv DEF BeginOff
  <1> QED
    BY <1>1, <1>2, RefuseInv, KeepRunningInv, CallInv, EndOnInv, EndOffInv, EndFailedInv
       DEF Handle

-----------------------------------------------------------------------------
(* The worker, and the world.                                                *)

LEMMA LoadInv == ASSUME IInv, NEW p \in Passes, Load(p) PROVE IInv'
  <1> DEFINE w == [pc |-> "loaded", pass |-> p, copy |-> row, seen |-> FALSE]
  <1>1. w \in Worker /\ w.pc = "loaded"
    BY DEF IInv, TypeOK, Worker
  <1>2. TypeOK'
    BY <1>1 DEF IInv, TypeOK, Load, incus, counters
  <1>3. wk.pc # "archive" /\ row' = row /\ req' = req /\ died' = died
    BY DEF Load, Idle, counters
  <1>4. TransitionsHaveOwners' /\ CopiesCarryTransitions'
    BY <1>3, QuietRow
  <1> QED
    BY <1>2, <1>4 DEF IInv, PassesMatch, Load

\* A worker past its load has a copy.
LEMMA WorkerType ==
    ASSUME TypeOK, wk.pc # "idle"
    PROVE  /\ wk \in Worker /\ wk.copy \in Row /\ wk.pass \in Passes /\ wk.seen \in BOOLEAN
           /\ row \in Row
  <1>1. wk \in {Idle} \cup Worker /\ row \in Row
    BY DEF TypeOK
  <1> QED
    BY <1>1 DEF Idle, Worker

\* What Goto leaves.
LEMMA GotoType ==
    ASSUME wk \in Worker, NEW copy \in Row,
           NEW pc \in {"archive", "start", "started", "stop", "stopped", "failed"}, Goto(pc, copy)
    PROVE  wk' \in Worker /\ wk'.pc = pc /\ wk'.pass = wk.pass /\ wk'.copy = copy
  BY DEF Goto, Worker

\* A pass ends or goes on, with the row committed to ON, OFF or left alone.
LEMMA PassStep ==
    ASSUME IInv, wk.pc # "archive",
           row' \in Row, row'.state \in {row.state, "on", "off"},
           wk' \in {Idle} \cup Worker, wk'.pc # "archive",
           wk'.pc \in {"stop", "stopped"} => wk'.pass # "lifecycle",
           told' \in {"none", "on", "off", "stopFailed"},
           running' \in BOOLEAN, waived' \in BOOLEAN, late' \subseteq Ops,
           faults' \in 0 .. MaxFaults,
           UNCHANGED <<credit, req, died, arrivals, moves>>
    PROVE  IInv'
  <1>1. TypeOK'
    <2>1. req' \in [Requests -> {Idle} \cup Handlers]
      BY DEF IInv, TypeOK
    <2>2. credit' \in {"none", "low", "hour"} /\ died' \subseteq {"api", "worker"}
      BY DEF IInv, TypeOK
    <2>3. arrivals' \in 0 .. MaxArrivals /\ moves' \in 0 .. MaxCredit
      BY DEF IInv, TypeOK
    <2> QED
      BY <2>1, <2>2, <2>3 DEF TypeOK
  <1>2. TransitionsHaveOwners' /\ CopiesCarryTransitions'
    BY QuietRow
  <1>3. PassesMatch'
    BY DEF PassesMatch
  <1> QED
    BY <1>1, <1>2, <1>3 DEF IInv

\* The variables a pass that only commits leaves alone.
LEMMA OnlyCommits ==
    ASSUME IInv, UNCHANGED <<credit, req, incus, counters>>
    PROVE  /\ running' \in BOOLEAN /\ waived' \in BOOLEAN /\ late' \subseteq Ops
           /\ faults' \in 0 .. MaxFaults
           /\ UNCHANGED <<credit, req, died, arrivals, moves>>
  BY DEF IInv, TypeOK, incus, counters

LEMMA DecideStopInv == ASSUME IInv, DecideStop PROVE IInv'
  <1>1. wk \in Worker /\ wk.copy \in Row /\ row \in Row /\ wk.pc = "loaded" /\ wk.pass # "lifecycle"
    BY WorkerType DEF IInv, DecideStop, InPass
  <1>2. wk' \in {Idle} \cup Worker /\ wk'.pc = "stop" /\ wk'.pass # "lifecycle"
    BY <1>1, GotoType DEF DecideStop
  <1>3. told' \in {"none", "on", "off", "stopFailed"} /\ row' = row
    BY DEF IInv, TypeOK, DecideStop
  <1>4. UNCHANGED <<credit, req, incus, counters>>
    BY DEF DecideStop
  <1> QED
    BY <1>1, <1>2, <1>3, <1>4, OnlyCommits, PassStep

LEMMA SettleHourInv == ASSUME IInv, SettleHour PROVE IInv'
  <1>1. /\ wk \in Worker /\ wk.copy \in Row /\ row \in Row
        /\ wk.pc = "loaded" /\ wk.pass = "settle"
    BY WorkerType DEF IInv, SettleHour, InPass
  <1>2. PICK copy \in {wk.copy, row} :
          LET new == [copy EXCEPT !.period = "set"] IN
          /\ Save(copy, new, {"period"})
          /\ IF copy.state = "on" /\ credit # "hour" THEN Goto("stop", new) ELSE wk' = Idle
    BY DEF SettleHour
  <1> DEFINE new == [copy EXCEPT !.period = "set"]
  <1>3. copy \in Row /\ new \in Row /\ new.state = copy.state
    BY <1>1 DEF Row
  <1>4. "state" \notin {"period"}
    OBVIOUS
  <1>5. row' \in Row /\ row'.state = row.state
    BY <1>1, <1>2, <1>3, <1>4, SaveRow
  <1>6. Goto("stop", new) \/ wk' = Idle
    BY <1>2
  <1>7. /\ wk' \in {Idle} \cup Worker /\ wk'.pc \in {"idle", "stop"}
        /\ wk'.pc = "stop" => wk'.pass # "lifecycle"
    <2>1. CASE wk' = Idle
      BY <2>1 DEF Idle
    <2>2. CASE Goto("stop", new)
      BY <1>1, <1>3, <2>2, GotoType
    <2> QED
      BY <1>6, <2>1, <2>2
  <1>8. told' \in {"none", "on", "off", "stopFailed"}
    BY DEF IInv, TypeOK, SettleHour
  <1>9. UNCHANGED <<credit, req, incus, counters>>
    BY DEF SettleHour
  <1> QED
    BY <1>1, <1>5, <1>7, <1>8, <1>9, OnlyCommits, PassStep

LEMMA ArchiveInv == ASSUME IInv, Archive PROVE IInv'
  <1>1. /\ wk \in Worker /\ wk.copy \in Row /\ row \in Row
        /\ wk.pc = "loaded" /\ wk.pass = "lifecycle"
    BY WorkerType DEF IInv, Archive, InPass
  <1>2. UNCHANGED <<credit, req, incus, counters>> /\ told' = told
    BY DEF Archive
  <1>3. told' \in {"none", "on", "off", "stopFailed"}
    BY <1>2 DEF IInv, TypeOK
  <1>4. CASE credit = "none"
    <2> DEFINE new == [wk.copy EXCEPT !.state = "archiving"]
    <2>1. new \in Row /\ new.state = "archiving"
      BY <1>1 DEF Row, States
    <2>2. Save(wk.copy, new, {}) /\ Goto("archive", new)
      BY <1>4 DEF Archive
    <2>3. row' \in Row
      BY <1>1, <2>1, <2>2, SaveRow
    <2>4. row'.state \in {row.state, "archiving"}
      BY <1>1, <2>1, <2>2, SaveRow
    <2>5. wk' \in Worker /\ wk'.pc = "archive" /\ wk'.pass = "lifecycle" /\ wk'.copy = new
      BY <1>1, <2>1, <2>2, GotoType
    <2>6. TypeOK'
      BY <1>2, <1>3, <2>3, <2>5 DEF IInv, TypeOK, incus, counters
    <2>7. CopiesCarryTransitions'
      BY <1>2 DEF IInv, CopiesCarryTransitions, InFlight
    <2>8. PassesMatch'
      BY <2>1, <2>5 DEF PassesMatch
    <2>9. ASSUME row'.state \in {"starting", "stopping"}
          PROVE  "api" \in died' \/ \E q \in Requests : Owns(q)'
      <3>1. row'.state = row.state /\ died' = died /\ req' = req
        BY <1>2, <2>4, <2>9 DEF counters
      <3>2. "api" \in died \/ \E q \in Requests : Owns(q)
        BY <2>9, <3>1 DEF IInv, TransitionsHaveOwners
      <3> QED
        BY <3>1, <3>2 DEF Owns
    <2>10. InPass("lifecycle", "archive")'
      BY <2>5 DEF InPass
    <2>11. TransitionsHaveOwners'
      BY <2>9, <2>10 DEF TransitionsHaveOwners
    <2> QED
      BY <2>6, <2>7, <2>8, <2>11 DEF IInv
  <1>5. CASE credit # "none"
    <2>1. wk' = Idle /\ row' = row
      BY <1>5 DEF Archive
    <2>2. wk' \in {Idle} \cup Worker /\ wk'.pc = "idle"
      BY <2>1 DEF Idle
    <2> QED
      BY <1>1, <1>2, <1>3, <2>1, <2>2, OnlyCommits, PassStep
  <1> QED
    BY <1>4, <1>5

\* The archive ends OFF: its copy says ARCHIVING, so OFF is written.
LEMMA ArchiveFailsInv == ASSUME IInv, ArchiveFails PROVE IInv'
  <1> DEFINE new == [wk.copy EXCEPT !.state = "off"]
  <1>1. wk.copy \in Row /\ row \in Row /\ wk.copy.state = "archiving"
    BY WorkerType DEF IInv, ArchiveFails, InPass, PassesMatch
  <1>2. new \in Row /\ new.state = "off"
    BY <1>1 DEF Row, States
  <1>3. Save(wk.copy, new, {}) /\ wk' = Idle
    BY DEF ArchiveFails
  <1>4. row' \in Row /\ row'.state = "off"
    BY <1>1, <1>2, <1>3, SaveRow
  <1>5. TypeOK'
    BY <1>3, <1>4 DEF IInv, TypeOK, ArchiveFails, incus, counters
  <1>6. TransitionsHaveOwners'
    BY <1>4 DEF TransitionsHaveOwners
  <1>7. CopiesCarryTransitions'
    BY DEF IInv, CopiesCarryTransitions, InFlight, ArchiveFails
  <1> QED
    BY <1>3, <1>5, <1>6, <1>7 DEF IInv, PassesMatch, Idle

LEMMA ObserveInv == ASSUME IInv, Observe PROVE IInv'
  <1>1. /\ wk \in Worker /\ wk.copy \in Row /\ wk.pass \in Passes /\ row \in Row
        /\ wk.pc = "loaded" /\ wk.pass = "reconcile"
    BY WorkerType DEF IInv, Observe, InPass
  <1>2. wk' \in {Idle} \cup Worker /\ wk'.pc \in {"idle", "observed"}
    <2>1. CASE wk' = Idle
      BY <2>1 DEF Idle
    <2>2. CASE wk' = [pc |-> "observed", pass |-> wk.pass, copy |-> wk.copy, seen |-> running]
      BY <1>1, <2>2 DEF Worker, IInv, TypeOK
    <2> QED
      BY <2>1, <2>2 DEF Observe
  <1>3. faults' \in 0 .. MaxFaults
    BY BoundsAssumption DEF IInv, TypeOK, Observe
  <1>4. /\ running' \in BOOLEAN /\ waived' \in BOOLEAN /\ late' \subseteq Ops
        /\ told' \in {"none", "on", "off", "stopFailed"} /\ row' = row
    BY DEF IInv, TypeOK, Observe, incus
  <1>5. UNCHANGED <<credit, req, died, arrivals, moves>>
    BY DEF Observe
  <1> QED
    BY <1>1, <1>2, <1>3, <1>4, <1>5, PassStep

\* A commit whose new state is the copy's, ON or OFF.
LEMMA SaveQuiet ==
    ASSUME row \in Row, NEW copy \in Row, NEW new \in Row, NEW renewed,
           "state" \notin renewed, new.state \in {copy.state, "on", "off"},
           Save(copy, new, renewed)
    PROVE  row' \in Row /\ row'.state \in {row.state, "on", "off"}
  <1>1. row' \in Row
    BY SaveRow
  <1>2. CASE new.state = copy.state
    <2>1. row'.state = row.state
      BY <1>2, SaveRow
    <2> QED
      BY <1>1, <2>1
  <1>3. CASE new.state # copy.state
    <2>1. row'.state = new.state
      BY <1>3, SaveRow
    <2> QED
      BY <1>1, <1>3, <2>1
  <1> QED
    BY <1>2, <1>3

LEMMA AdoptedType ==
    ASSUME wk.copy \in Row
    PROVE  Adopted \in Row /\ Adopted.state \in {wk.copy.state, "on", "off"}
  <1>1. CASE wk.copy.state \in {"error", "starting", "stopping"}
    BY <1>1 DEF Adopted, Row, States
  <1>2. CASE wk.copy.state \notin {"error", "starting", "stopping"}
    BY <1>2 DEF Adopted
  <1> QED
    BY <1>1, <1>2

LEMMA ReconcileInv == ASSUME IInv, Reconcile PROVE IInv'
  <1> DEFINE off == [wk.copy EXCEPT !.state = "off"]
  <1>1. /\ wk \in Worker /\ wk.copy \in Row /\ row \in Row
        /\ wk.pc = "observed" /\ wk.pass = "reconcile"
    BY WorkerType DEF IInv, Reconcile, InPass
  <1>2. Adopted \in Row /\ Adopted.state \in {wk.copy.state, "on", "off"}
    BY <1>1, AdoptedType
  <1>3. off \in Row /\ off.state = "off"
    BY <1>1 DEF Row, States
  <1>4. "state" \notin {}
    OBVIOUS
  <1>5. \/ Save(wk.copy, Adopted, {}) \/ Save(wk.copy, off, {}) \/ row' = row
    BY DEF Reconcile
  <1>6. row' \in Row /\ row'.state \in {row.state, "on", "off"}
    BY <1>1, <1>2, <1>3, <1>4, <1>5, SaveQuiet
  <1>7. Goto("stop", Adopted) \/ Goto("start", Adopted) \/ wk' = Idle
    BY DEF Reconcile
  <1>8. /\ wk' \in {Idle} \cup Worker /\ wk'.pc \in {"idle", "start", "stop"}
        /\ wk'.pc = "stop" => wk'.pass # "lifecycle"
    <2>1. CASE wk' = Idle
      BY <2>1 DEF Idle
    <2>2. CASE Goto("stop", Adopted)
      BY <1>1, <1>2, <2>2, GotoType
    <2>3. CASE Goto("start", Adopted)
      BY <1>1, <1>2, <2>3, GotoType
    <2> QED
      BY <1>7, <2>1, <2>2, <2>3
  <1>9. told' \in {"none", "on", "off", "stopFailed"}
    BY DEF IInv, TypeOK, Reconcile
  <1>10. UNCHANGED <<credit, req, incus, counters>>
    BY DEF Reconcile
  <1> QED
    BY <1>1, <1>6, <1>8, <1>9, <1>10, OnlyCommits, PassStep

LEMMA WorkerCallInv == ASSUME IInv, WorkerCall PROVE IInv'
  <1>1. wk \in Worker /\ wk.copy \in Row /\ row \in Row /\ wk.pc \in Ops /\ wk.pc \in {"start", "stop"}
    BY WorkerType DEF IInv, WorkerCall, Ops
  <1>2. PICK pc \in {"started", "stopped", "failed"} :
          Goto(pc, wk.copy) /\ (pc = "stopped" => wk.pc = "stop")
    BY <1>1 DEF WorkerCall
  <1>3. wk' \in Worker /\ wk'.pc = pc /\ wk'.pass = wk.pass
    BY <1>1, <1>2, GotoType
  <1>4. wk'.pc \in {"stop", "stopped"} => wk'.pass # "lifecycle"
    BY <1>2, <1>3 DEF IInv, PassesMatch
  <1>5. /\ running' \in BOOLEAN /\ waived' \in BOOLEAN /\ late' \subseteq Ops
        /\ faults' \in 0 .. MaxFaults
    <2>1. Answers(wk.pc) \/ Errors(wk.pc)
      BY DEF WorkerCall
    <2> QED
      BY <1>1, <2>1, IncusType DEF IInv
  <1>6. told' \in {"none", "on", "off", "stopFailed"} /\ row' = row
    BY DEF IInv, TypeOK, WorkerCall
  <1>7. UNCHANGED <<credit, req, died, arrivals, moves>>
    BY DEF WorkerCall
  <1> QED
    BY <1>1, <1>3, <1>4, <1>5, <1>6, <1>7, PassStep

LEMMA WorkerStoppedInv == ASSUME IInv, WorkerStopped PROVE IInv'
  <1>1. /\ wk.copy \in Row /\ row \in Row /\ wk.pc = "stopped"
        /\ wk.pass \in Passes \ {"lifecycle"}
    BY WorkerType DEF IInv, WorkerStopped, PassesMatch
  <1> DEFINE new == StoppedBy(wk.pass)
  <1>2. new \in Row /\ new.state = "off"
    <2>1. CASE wk.pass \in {"auto", "pool"}
      BY <2>1 DEF StoppedBy, SwitchedOff, Row, States
    <2>2. CASE wk.pass = "settle"
      BY <1>1, <2>2 DEF StoppedBy, Row, States
    <2>3. CASE wk.pass = "reconcile"
      BY <1>1, <2>3 DEF StoppedBy, SwitchedOff, Row, States
    <2> QED
      BY <1>1, <2>1, <2>2, <2>3 DEF Passes
  <1>3. Save(wk.copy, new, {}) /\ wk' = Idle
    BY DEF WorkerStopped
  <1>4. "state" \notin {}
    OBVIOUS
  <1>5. row' \in Row /\ row'.state \in {row.state, "on", "off"}
    <2> HIDE DEF new
    <2> QED
      BY <1>1, <1>2, <1>3, <1>4, SaveQuiet
  <1>6. wk' \in {Idle} \cup Worker /\ wk'.pc = "idle"
    BY <1>3 DEF Idle
  <1>7. told' \in {"none", "on", "off", "stopFailed"}
    BY DEF IInv, TypeOK, WorkerStopped
  <1>8. UNCHANGED <<credit, req, incus, counters>>
    BY DEF WorkerStopped
  <1> QED
    BY <1>1, <1>5, <1>6, <1>7, <1>8, OnlyCommits, PassStep

LEMMA RestoredInv == ASSUME IInv, Restored PROVE IInv'
  <1> DEFINE new == [wk.copy EXCEPT !.deadline = "armed"]
  <1>1. wk.copy \in Row /\ row \in Row /\ wk.pc = "started"
    BY WorkerType DEF IInv, Restored
  <1>2. new \in Row /\ new.state = wk.copy.state
    BY <1>1 DEF Row
  <1>3. Save(wk.copy, new, {"deadline"}) /\ wk' = Idle
    BY DEF Restored
  <1>4. "state" \notin {"deadline"}
    OBVIOUS
  <1>5. row' \in Row /\ row'.state \in {row.state, "on", "off"}
    BY <1>1, <1>2, <1>3, <1>4, SaveQuiet
  <1>6. wk' \in {Idle} \cup Worker /\ wk'.pc = "idle"
    BY <1>3 DEF Idle
  <1>7. told' \in {"none", "on", "off", "stopFailed"}
    BY DEF IInv, TypeOK, Restored
  <1>8. UNCHANGED <<credit, req, incus, counters>>
    BY DEF Restored
  <1> QED
    BY <1>1, <1>5, <1>6, <1>7, <1>8, OnlyCommits, PassStep

LEMMA WorkerFailedInv == ASSUME IInv, WorkerFailed PROVE IInv'
  <1> DEFINE new == [wk.copy EXCEPT !.state = "off"]
  <1>1. wk.copy \in Row /\ row \in Row /\ wk.pc = "failed"
    BY WorkerType DEF IInv, WorkerFailed
  <1>2. new \in Row /\ new.state = "off"
    BY <1>1 DEF Row, States
  <1>3. Save(wk.copy, new, {}) \/ row' = row
    BY DEF WorkerFailed
  <1>4. "state" \notin {}
    OBVIOUS
  <1>5. row' \in Row /\ row'.state \in {row.state, "on", "off"}
    BY <1>1, <1>2, <1>3, <1>4, SaveQuiet
  <1>6. wk' \in {Idle} \cup Worker /\ wk'.pc = "idle"
    BY DEF WorkerFailed, Idle
  <1>7. told' \in {"none", "on", "off", "stopFailed"}
    BY DEF IInv, TypeOK, WorkerFailed
  <1>8. UNCHANGED <<credit, req, incus, counters>>
    BY DEF WorkerFailed
  <1> QED
    BY <1>1, <1>5, <1>6, <1>7, <1>8, OnlyCommits, PassStep

LEMMA LateEffectInv == ASSUME IInv, NEW op \in Ops, LateEffect(op) PROVE IInv'
  <1>1. TypeOK'
    <2>1. running' \in BOOLEAN /\ waived' \in BOOLEAN
      BY DEF IInv, TypeOK, LateEffect, Perform
    <2> QED
      BY <2>1 DEF IInv, TypeOK, LateEffect, counters
  <1>2. row' = row /\ req' = req /\ wk' = wk /\ died' = died
    BY DEF LateEffect, counters
  <1> QED
    BY <1>1, <1>2
       DEF IInv, CopiesCarryTransitions, InFlight, PassesMatch, TransitionsHaveOwners, Owns, InPass

LEMMA DueInv == ASSUME IInv, Due PROVE IInv'
  <1>1. row' \in Row /\ row'.state = row.state
    BY DEF IInv, TypeOK, Due, Row
  <1>2. TypeOK'
    BY <1>1 DEF IInv, TypeOK, Due, incus, counters
  <1>3. req' = req /\ wk' = wk /\ died' = died
    BY DEF Due, counters
  <1> QED
    BY <1>1, <1>2, <1>3
       DEF IInv, CopiesCarryTransitions, InFlight, PassesMatch, TransitionsHaveOwners, Owns, InPass

LEMMA MoveCreditInv == ASSUME IInv, MoveCredit PROVE IInv'
  <1>1. TypeOK'
    <2>1. credit' \in {"none", "low", "hour"} /\ moves' \in 0 .. MaxCredit
      BY BoundsAssumption DEF IInv, TypeOK, MoveCredit
    <2> QED
      BY <2>1 DEF IInv, TypeOK, MoveCredit, incus
  <1>2. row' = row /\ req' = req /\ wk' = wk /\ died' = died
    BY DEF MoveCredit
  <1> QED
    BY <1>1, <1>2
       DEF IInv, CopiesCarryTransitions, InFlight, PassesMatch, TransitionsHaveOwners, Owns, InPass

\* A death ends handlers or the pass, and says so.
LEMMA DieInv == ASSUME IInv, NEW p \in Mortal, Die(p) PROVE IInv'
  <1>1. p \in {"api", "worker", "host"}
    BY MortalAssumption
  <1>2. row' = row /\ died' = died \cup (IF p = "host" THEN {"api", "worker"} ELSE {p})
    BY DEF Die
  <1>3. req' = req \/ ("api" \in died' /\ req' = [q \in Requests |-> Idle])
    BY <1>1, <1>2 DEF Die
  <1>4. wk' = wk \/ ("worker" \in died' /\ wk' = Idle)
    BY <1>1, <1>2 DEF Die
  <1>5. TypeOK'
    <2>1. died' \subseteq {"api", "worker"}
      BY <1>1, <1>2 DEF IInv, TypeOK
    <2>2. req' \in [Requests -> {Idle} \cup Handlers] /\ wk' \in {Idle} \cup Worker
      BY <1>3, <1>4 DEF IInv, TypeOK
    <2>3. faults' \in 0 .. MaxFaults
      BY BoundsAssumption DEF IInv, TypeOK, Die
    <2>4. running' \in BOOLEAN /\ late' \subseteq Ops
      <3>1. CASE p = "host"
        BY <3>1 DEF Die
      <3>2. CASE p # "host"
        BY <1>1, <3>2 DEF Die, IInv, TypeOK
      <3> QED
        BY <3>1, <3>2
    <2> QED
      BY <2>1, <2>2, <2>3, <2>4 DEF IInv, TypeOK, Die
  <1>6. CopiesCarryTransitions'
    BY <1>3 DEF IInv, CopiesCarryTransitions, InFlight, Idle
  <1>7. PassesMatch'
    BY <1>4 DEF IInv, PassesMatch, Idle
  <1>8. ASSUME row'.state \in {"starting", "stopping"}
        PROVE  "api" \in died' \/ \E q \in Requests : Owns(q)'
    <2>1. "api" \in died \/ \E q \in Requests : Owns(q)
      BY <1>2, <1>8 DEF IInv, TransitionsHaveOwners
    <2> QED
      BY <1>2, <1>3, <2>1 DEF Owns
  <1>9. row'.state = "archiving" => "worker" \in died' \/ InPass("lifecycle", "archive")'
    BY <1>2, <1>4 DEF IInv, TransitionsHaveOwners, InPass
  <1>10. TransitionsHaveOwners'
    BY <1>8, <1>9 DEF TransitionsHaveOwners
  <1> QED
    BY <1>5, <1>6, <1>7, <1>10 DEF IInv

-----------------------------------------------------------------------------
LEMMA NextInv == ASSUME IInv, [Next]_vars PROVE IInv'
  <1>1. CASE Work
    BY <1>1, DecideStopInv, SettleHourInv, ArchiveInv, ArchiveFailsInv, ObserveInv, ReconcileInv,
       WorkerCallInv, WorkerStoppedInv, RestoredInv, WorkerFailedInv DEF Work
  <1>2. CASE UNCHANGED vars
    BY <1>2 DEF vars, incus, counters, IInv, TypeOK, CopiesCarryTransitions, InFlight, PassesMatch,
                TransitionsHaveOwners, Owns, InPass
  <1> QED
    BY <1>1, <1>2, ArriveInv, HandleInv, LoadInv, LateEffectInv, DueInv, MoveCreditInv, DieInv
       DEF Next

THEOREM Invariance == Spec => []IInv
  <1>1. Init => IInv
    BY InitInv
  <1>2. IInv /\ [Next]_vars => IInv'
    BY NextInv
  <1> QED
    BY <1>1, <1>2, PTL DEF Spec

\* The row, the handlers' copies and the worker's copy stay well formed, for any
\* number of requests.
THEOREM Typing == Spec => []TypeOK
  <1>1. IInv => TypeOK
    BY DEF IInv
  <1> QED
    BY <1>1, Invariance, PTL

\* STARTING, STOPPING and ARCHIVING always have somebody at work on the machine
\* who will overwrite them, unless that process died: however many requests and
\* passes overlap, no failure of theirs parks the row.
THEOREM NoParkedTransition == Spec => []TransitionsHaveOwners
  <1>1. IInv => TransitionsHaveOwners
    BY DEF IInv
  <1> QED
    BY <1>1, Invariance, PTL
=============================================================================
