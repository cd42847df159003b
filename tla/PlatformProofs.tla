--------------------------- MODULE PlatformProofs ----------------------------
(***************************************************************************)
(* Theorems of Ports, Vhosts, Accounts, Remote and AiMeter, a section      *)
(* each: what is true of ports, names, sessions, switches and meters for   *)
(* every value of the constants.                                           *)
(***************************************************************************)
EXTENDS Ports, Vhosts, Accounts, Remote, AiMeter, FiniteSetTheorems, TLAPS

-----------------------------------------------------------------------------
(***************************************************************************)
(* A public port has one owner, for any number of machines, ports,         *)
(* requests and faults.  What the kernel forwards was a set some caller    *)
(* read once, and may be old: so the property is carried by every set on   *)
(* its way, in a call or in the rules file, and each of them was the table *)
(* of some moment less one row or one machine.                             *)
(***************************************************************************)
\* At most one row, or rule, for a public port.
OneEach(rows) == \A x, y \in rows : x.ext = y.ext => x = y

\* There is one call per caller; the domain of a function is all its typing
\* the argument needs.
Callers == push = [c \in Calls |-> push[c]]

PortsIInv ==
    /\ Callers
    /\ OneEach(published) /\ OneEach(rulesFile) /\ OneEach(rules)
    /\ \A c \in Calls : OneEach(push[c].map)

-----------------------------------------------------------------------------
LEMMA PortsInitInv == ASSUME PortsInit PROVE PortsIInv
  BY DEF PortsInit, PortsIInv, Callers, OneEach, Quiet

\* A set that is pushed is read from rows of one owner each.
LEMMA LedOneEach == ASSUME NEW rows, OneEach(rows) PROVE OneEach(Leads(rows))
  <1> SUFFICES ASSUME NEW x \in Leads(rows), NEW y \in Leads(rows), x.ext = y.ext PROVE x = y
    BY DEF OneEach
  <1>1. PICK p \in rows : x = [ext |-> p.ext, port |-> p.port, slot |-> workspace_ip(p.ws)]
    BY DEF Leads
  <1>2. PICK q \in rows : y = [ext |-> q.ext, port |-> q.port, slot |-> workspace_ip(q.ws)]
    BY DEF Leads
  <1>3. p.ext = q.ext
    BY <1>1, <1>2
  <1> QED
    BY <1>1, <1>2, <1>3 DEF OneEach

LEMMA LessOneEach == ASSUME NEW rows, NEW less, OneEach(rows), less \subseteq rows
                     PROVE  OneEach(less)
  BY DEF OneEach

\* One call changes: what it carries is still one owner each.
LEMMA OneCall ==
    ASSUME PortsIInv, NEW c \in Calls, NEW call, OneEach(call.map), push' = [push EXCEPT ![c] = call]
    PROVE  Callers' /\ \A d \in Calls : OneEach(push'[d].map)
  <1>1. \A d \in Calls : push'[d] = IF d = c THEN call ELSE push[d]
    BY DEF PortsIInv, Callers
  <1>2. Callers'
    BY DEF PortsIInv, Callers
  <1> QED
    BY <1>1, <1>2 DEF PortsIInv

LEMMA Pushed ==
    ASSUME PortsIInv, NEW c \in Pushers, NEW rows, OneEach(rows), sync_published_ports(c, rows)
    PROVE  Callers' /\ \A d \in Calls : OneEach(push'[d].map)
  <1>1. OneEach([at |-> "sent", map |-> Leads(rows)].map)
    BY LedOneEach
  <1>2. push' = [push EXCEPT ![c] = [at |-> "sent", map |-> Leads(rows)]]
    BY DEF sync_published_ports, Leads
  <1> QED
    BY <1>1, <1>2, OneCall DEF Calls

LEMMA Emptied ==
    ASSUME PortsIInv, NEW c \in Calls, NEW at,
           push' = [push EXCEPT ![c] = [at |-> at, map |-> {}]]
    PROVE  Callers' /\ \A d \in Calls : OneEach(push'[d].map)
  <1>1. OneEach([at |-> at, map |-> {}].map)
    BY DEF OneEach
  <1> QED
    BY <1>1, OneCall

-----------------------------------------------------------------------------
(* Reservations *)

\* Numbers nobody holds, each given to one, keep one owner each.
LEMMA GivenOneEach ==
    ASSUME PortsIInv, NEW S, NEW number \in [S -> Insertable], NEW rows,
           \A c, d \in S : c # d => number[c] # number[d],
           \A r \in rows : \E d \in S : r.ext = number[d],
           \A r, s \in rows, d \in S : r.ext = number[d] /\ s.ext = number[d] => r = s
    PROVE  OneEach(published \cup rows)
  <1>1. \A r \in rows, p \in published : r.ext # p.ext
    BY DEF Insertable, FreePorts
  <1>2. \A r, s \in rows : r.ext = s.ext => r = s
    OBVIOUS
  <1> QED
    BY <1>1, <1>2 DEF OneEach, PortsIInv

LEMMA Reserved ==
    ASSUME PortsIInv, NEW ws, reserve_service_ports(ws) PROVE OneEach(published')
  <1> DEFINE S == {d \in Missing : d[1] \in ws}
  <1>1. PICK number \in [S -> Insertable] :
           /\ \A c, d \in S : c # d => number[c] # number[d]
           /\ published' = published \cup
                {[ws |-> d[1], port |-> d[2], ext |-> number[d]] : d \in S}
    BY DEF reserve_service_ports
  <1> DEFINE rows == {[ws |-> d[1], port |-> d[2], ext |-> number[d]] : d \in S}
  <1>2. \A r \in rows : \E d \in S : r = [ws |-> d[1], port |-> d[2], ext |-> number[d]]
    OBVIOUS
  <1>3. \A r \in rows : \E d \in S : r.ext = number[d]
    BY <1>2
  <1>4. \A r, s \in rows, d \in S : r.ext = number[d] /\ s.ext = number[d] => r = s
    <2> SUFFICES ASSUME NEW r \in rows, NEW s \in rows, NEW d \in S,
                        r.ext = number[d], s.ext = number[d]
                 PROVE  r = s
      OBVIOUS
    <2>1. PICK c \in S : r = [ws |-> c[1], port |-> c[2], ext |-> number[c]]
      BY <1>2
    <2>2. PICK e \in S : s = [ws |-> e[1], port |-> e[2], ext |-> number[e]]
      BY <1>2
    <2>3. c = d /\ e = d
      BY <2>1, <2>2, <1>1
    <2> QED
      BY <2>1, <2>2, <2>3
  <1> QED
    BY <1>1, <1>3, <1>4, GivenOneEach

-----------------------------------------------------------------------------
(* The steps *)

LEMMA ProvisionerInv ==
    ASSUME PortsIInv, NEW c \in Calls, Serves(c) \/ GiveUp(c) PROVE PortsIInv'
  <1>1. CASE WriteRules(c)
    <2>1. OneEach(rulesFile')
      BY <1>1 DEF WriteRules, PortsIInv
    <2>2. \E d \in Calls, at \in {"written", "failed", "none"} :
             push' = [push EXCEPT ![d] = [at |-> at, map |-> {}]]
      BY <1>1 DEF WriteRules, Answer, Quiet
    <2> QED
      BY <1>1, <2>1, <2>2, Emptied DEF WriteRules, PortsIInv
  <1>2. CASE LoadRules(c)
    <2>1. OneEach(rules')
      BY <1>2 DEF LoadRules, PortsIInv
    <2>2. \E at \in {"ok", "failed", "none"} : push' = [push EXCEPT ![c] = [at |-> at, map |-> {}]]
      BY <1>2 DEF LoadRules, Answer, Quiet
    <2> QED
      BY <1>2, <2>1, <2>2, Emptied DEF LoadRules, PortsIInv
  <1>3. CASE GiveUp(c)
    <2>1. "late" \in Calls /\ c # "late"
      BY <1>3 DEF GiveUp, Calls
    <2>2. push' = [push EXCEPT !["late"] = push[c], ![c] = [at |-> "failed", map |-> {}]]
      BY <1>3 DEF GiveUp
    <2>3. /\ Callers'
          /\ \A d \in Calls : push'[d] = IF d = c THEN [at |-> "failed", map |-> {}]
                                       ELSE IF d = "late" THEN push[c] ELSE push[d]
      BY <2>1, <2>2 DEF PortsIInv, Callers
    <2>4. \A d \in Calls : OneEach(push'[d].map)
      BY <2>1, <2>3 DEF PortsIInv, OneEach
    <2> QED
      BY <1>3, <2>3, <2>4 DEF GiveUp, PortsIInv
  <1> QED
    BY <1>1, <1>2, <1>3 DEF Serves

LEMMA RequestInv ==
    ASSUME PortsIInv, NEW r \in PortRequests,
           \/ Handles(r)
           \/ \E w \in PortMachines : service_ports(r, w) \/ \E p \in UserPorts : allocate(r, w, p)
           \/ \E row \in published : Unpublish(r, row)
    PROVE  PortsIInv'
  <1> USE DEF Pushers, Calls
  <1>1. CASE Insert(r)
    <2>1. OneEach(published')
      <3>1. CASE published' = published
        BY <3>1 DEF PortsIInv
      <3>2. CASE published' # published
        <4>1. PICK e \in FreePorts :
                 published' = published \cup {[ws |-> request[r].ws, port |-> request[r].port,
                                               ext |-> e]}
          BY <1>1, <3>2 DEF Insert, Insertable
        <4> QED
          BY <4>1 DEF PortsIInv, OneEach, FreePorts
      <3> QED
        BY <3>1, <3>2
    <2> QED
      BY <1>1, <2>1 DEF Insert, PortsIInv, Callers
  <1>2. CASE Publish(r) \/ PushAgain(r)
    <2>1. sync_published_ports(r, published)
      BY <1>2 DEF Publish, PushAgain
    <2> QED
      BY <1>2, <2>1, Pushed DEF Publish, PushAgain, PortsIInv
  <1>3. CASE create_port(r) \/ Ignore(r) \/ delete_port(r)
    <2>1. push' = [push EXCEPT ![r] = [at |-> "none", map |-> {}]]
      BY <1>3 DEF create_port, Ignore, delete_port, Returns, Quiet
    <2>2. published' \subseteq published
      BY <1>3 DEF create_port, Ignore, delete_port
    <2> QED
      BY <1>3, <2>1, <2>2, Emptied, LessOneEach DEF create_port, Ignore, delete_port, PortsIInv
  <1>4. CASE \E w \in PortMachines : service_ports(r, w)
    BY <1>4, Reserved DEF service_ports, PortsIInv, Callers
  <1>5. CASE \E w \in PortMachines, p \in UserPorts : allocate(r, w, p)
    BY <1>5 DEF allocate, PortsIInv, Callers
  <1>6. CASE \E row \in published : Unpublish(r, row)
    <2> PICK row \in published : Unpublish(r, row)
      BY <1>6
    <2>1. sync_published_ports(r, published \ {row}) /\ OneEach(published \ {row})
      BY DEF Unpublish, PortsIInv, OneEach
    <2> QED
      BY <2>1, Pushed DEF Unpublish, PortsIInv
  <1> QED
    BY <1>1, <1>2, <1>3, <1>4, <1>5, <1>6 DEF Handles

LEMMA WorkerInv ==
    ASSUME PortsIInv,
           \/ Works
           \/ \E w \in PortMachines : Remove(w) \/ \E s \in PortSlots : Create(w, s)
    PROVE  PortsIInv'
  <1> USE DEF Pushers, Calls
  <1>1. CASE reserve_service_ports_once
    BY <1>1, Reserved DEF reserve_service_ports_once, PortsIInv, Callers
  <1>2. CASE PassPushes
    BY <1>2, Pushed DEF PassPushes, PortsIInv
  <1>3. CASE PassEnds \/ Destroy
    <2>1. push' = [push EXCEPT !["worker"] = [at |-> "none", map |-> {}]]
      BY <1>3 DEF PassEnds, Destroy, Returns, Quiet
    <2> QED
      BY <1>3, <2>1, Emptied DEF PassEnds, Destroy, PortsIInv
  <1>4. CASE workspace_delete
    <2>1. published' \subseteq published
      BY <1>4 DEF workspace_delete
    <2> QED
      BY <1>4, <2>1, LessOneEach DEF workspace_delete, PortsIInv, Callers
  <1>5. CASE \E w \in PortMachines : Remove(w)
    <2> PICK w \in PortMachines : Remove(w)
      BY <1>5
    <2>1. sync_published_ports("worker", published \ Of(w)) /\ OneEach(published \ Of(w))
      BY LessOneEach DEF Remove, PortsIInv
    <2> QED
      BY <2>1, Pushed DEF Remove, PortsIInv
  <1>6. CASE \E w \in PortMachines, s \in PortSlots : Create(w, s)
    <2> PICK w \in PortMachines, s \in PortSlots : Create(w, s)
      BY <1>6
    <2>1. OneEach(published')
      <3>1. CASE published' = published
        BY <3>1 DEF PortsIInv
      <3>2. CASE published' # published
        <4>1. PICK number \in [ServicePorts -> Insertable] :
                 /\ \A c, d \in ServicePorts : c # d => number[c] # number[d]
                 /\ published' = published \cup
                      {[ws |-> w, port |-> p, ext |-> number[p]] : p \in ServicePorts}
          BY <3>2 DEF Create
        <4> DEFINE rows == {[ws |-> w, port |-> p, ext |-> number[p]] : p \in ServicePorts}
        <4>2. \A x \in rows : \E d \in ServicePorts : x.ext = number[d]
          OBVIOUS
        <4>3. \A x, y \in rows, d \in ServicePorts :
                 x.ext = number[d] /\ y.ext = number[d] => x = y
          BY <4>1
        <4> QED
          BY <4>1, <4>2, <4>3, GivenOneEach
      <3> QED
        BY <3>1, <3>2
    <2> QED
      BY <2>1 DEF Create, PortsIInv, Callers
  <1> QED
    BY <1>1, <1>2, <1>3, <1>4, <1>5, <1>6 DEF Works

\* A public port leads to one place, in the table and in the kernel, whoever
\* allocates, pushes, gives up and is deleted at once.  (ports.allocate,
\* reserve_service_ports, sync_published_ports, _sync_port_rules.)
THEOREM OneOwner == PortsSpec => []OneOwnerPerPort
  <1>1. PortsInit => PortsIInv
    BY PortsInitInv
  <1>2. PortsIInv /\ [PortsNext]_portVars => PortsIInv'
    <2>1. PortsIInv /\ UNCHANGED portVars => PortsIInv'
      BY DEF portVars, PortsIInv, Callers
    <2>2. PortsIInv /\ PortsNext => PortsIInv'
      BY ProvisionerInv, RequestInv, WorkerInv DEF PortsNext
    <2> QED
      BY <2>1, <2>2
  <1>3. PortsIInv => OneOwnerPerPort
    BY DEF PortsIInv, OneEach, OneOwnerPerPort
  <1> QED
    BY <1>1, <1>2, <1>3, PTL DEF PortsSpec

-----------------------------------------------------------------------------
(***************************************************************************)
(* The budget of certificates of Vhosts is kept over every number of       *)
(* customers, every week and every budget.  The invariant says that what   *)
(* was tried within the week is noted, and that what is noted is within    *)
(* the budget; a pass without a DNS plugin has only single names to do.    *)
(***************************************************************************)
NoMishap == ~Wildcards /\ vhostFaults = 0

\* What a log holds: finitely many issuances, each with its time.
Log(log) == IsFiniteSet(log) /\ log \subseteq Nat \X CertNames

TriedAreNoted == NoMishap => InWeek(tried) \subseteq InWeek(issueLog)
NotedAreFew == NoMishap => Cardinality(InWeek(issueLog)) <= ISSUE_BUDGET
SingleNames ==
    job.todo \subseteq CertNames /\ (~Wildcards => \A c \in job.todo : c[2] = "single")

BudgetIInv ==
    /\ now \in Nat /\ vhostFaults \in Nat
    /\ Log(tried) /\ Log(issueLog)
    /\ TriedAreNoted /\ NotedAreFew /\ SingleNames

-----------------------------------------------------------------------------
\* What is within the week is a finite part of a log.
LEMMA InWeekIsALog ==
    ASSUME NEW log, Log(log)
    PROVE  /\ InWeek(log) \subseteq log /\ Log(InWeek(log))
           /\ Cardinality(InWeek(log)) \in Nat
  <1>1. InWeek(log) \subseteq log
    BY DEF InWeek
  <1>2. IsFiniteSet(InWeek(log))
    BY <1>1, FS_Subset DEF Log
  <1> QED
    BY <1>1, <1>2, FS_CardinalityType DEF Log

\* Noting one issuance makes a log of at most one more.
LEMMA NotedLog ==
    ASSUME NEW log, Log(log), NEW c \in CertNames, now \in Nat
    PROVE  /\ Log(InWeek(log) \cup {<<now, c>>})
           /\ Cardinality(InWeek(log) \cup {<<now, c>>}) <= Cardinality(InWeek(log)) + 1
  <1>1. Log(InWeek(log)) /\ Cardinality(InWeek(log)) \in Nat
    BY InWeekIsALog
  <1>2. /\ IsFiniteSet(InWeek(log) \cup {<<now, c>>})
        /\ Cardinality(InWeek(log) \cup {<<now, c>>}) =
             IF <<now, c>> \in InWeek(log) THEN Cardinality(InWeek(log))
             ELSE Cardinality(InWeek(log)) + 1
    BY <1>1, FS_AddElement DEF Log
  <1>3. <<now, c>> \in Nat \X CertNames
    OBVIOUS
  <1> QED
    BY <1>1, <1>2, <1>3 DEF Log

-----------------------------------------------------------------------------
\* Initially nothing was issued.
LEMMA BudgetInit == VhostsInit => BudgetIInv
  <1> SUFFICES ASSUME VhostsInit PROVE BudgetIInv
    OBVIOUS
  <1>1. tried = {} /\ issueLog = {} /\ now = 0 /\ vhostFaults = 0 /\ job = NoJob
    BY DEF VhostsInit
  <1>2. Log({}) /\ InWeek({}) = {} /\ Cardinality({}) = 0
    BY FS_EmptySet DEF Log, InWeek
  <1>3. ISSUE_BUDGET \in Nat
    BY VhostsAssumption
  <1> QED
    BY <1>1, <1>2, <1>3 DEF BudgetIInv, TriedAreNoted, NotedAreFew, SingleNames, NoJob

\* A step that issues nothing, whatever else it does, keeps the invariant.
LEMMA NothingIssued ==
    ASSUME BudgetIInv, UNCHANGED <<tried, issueLog, now>>,
           vhostFaults' \in {vhostFaults, vhostFaults + 1},
           SingleNames'
    PROVE  BudgetIInv'
  <1>1. InWeek(tried)' = InWeek(tried) /\ InWeek(issueLog)' = InWeek(issueLog)
    BY DEF InWeek
  <1>2. NoMishap' => NoMishap
    BY DEF BudgetIInv, NoMishap
  <1> QED
    BY <1>1, <1>2 DEF BudgetIInv, TriedAreNoted, NotedAreFew, SingleNames, Log, NoMishap, CertNames

\* Time passing takes issuances out of the week.
LEMMA TickKeepsBudget == BudgetIInv /\ Tick => BudgetIInv'
  <1> SUFFICES ASSUME BudgetIInv, Tick PROVE BudgetIInv'
    OBVIOUS
  <1>1. now' = now + 1 /\ now \in Nat /\ Week \in Nat
        /\ UNCHANGED <<tried, issueLog, job, vhostFaults>>
    BY VhostsAssumption DEF Tick, BudgetIInv, certificates
  <1>2. ASSUME NEW log, Log(log), log' = log
        PROVE  InWeek(log)' = {i \in InWeek(log) : i[1] + Week >= now + 1}
    <2>1. \A i \in log : i[1] \in Nat
      BY <1>2 DEF Log
    <2> QED
      BY <1>1, <1>2, <2>1 DEF InWeek
  <1>3. Log(tried) /\ Log(issueLog)
    BY DEF BudgetIInv
  <1>4. TriedAreNoted'
    BY <1>1, <1>2, <1>3 DEF BudgetIInv, TriedAreNoted, NoMishap
  <1>5. NotedAreFew'
    <2>1. InWeek(issueLog)' \subseteq InWeek(issueLog)
      BY <1>1, <1>2, <1>3
    <2>2. Cardinality(InWeek(issueLog)') <= Cardinality(InWeek(issueLog))
      BY <2>1, <1>3, InWeekIsALog, FS_Subset DEF Log
    <2>3. Cardinality(InWeek(issueLog)') \in Nat /\ Cardinality(InWeek(issueLog)) \in Nat
      BY <2>1, <1>3, InWeekIsALog, FS_Subset, FS_CardinalityType DEF Log
    <2> QED
      BY <1>1, <2>2, <2>3, VhostsAssumption DEF BudgetIInv, NotedAreFew, NoMishap
  <1> QED
    BY <1>1, <1>3, <1>4, <1>5 DEF BudgetIInv, SingleNames, Log, CertNames

\* An issuance is noted whatever came of it, and only begun within the budget.
LEMMA ObtainsKeepsBudget ==
    ASSUME BudgetIInv, NEW c \in CertNames, Obtains(c)
    PROVE  BudgetIInv'
  <1>1. /\ c \in job.todo /\ MayIssue(c) /\ now' = now /\ vhostFaults' = vhostFaults
        /\ tried' = InWeek(tried) \cup {<<now, c>>}
        /\ issueLog' = InWeek(issueLog) \cup {<<now, c>>}
    BY DEF Obtains, note_issue
  <1>2. now \in Nat /\ Log(tried) /\ Log(issueLog)
    BY DEF BudgetIInv
  <1>3. Log(tried') /\ Log(issueLog')
        /\ Cardinality(issueLog') <= Cardinality(InWeek(issueLog)) + 1
    BY <1>1, <1>2, NotedLog
  <1>4. TriedAreNoted'
    <2>1. NoMishap' => InWeek(tried) \subseteq InWeek(issueLog)
      BY <1>1 DEF BudgetIInv, TriedAreNoted, NoMishap
    <2>2. /\ InWeek(tried)' = {i \in tried' : i[1] + Week >= now}
          /\ InWeek(issueLog)' = {i \in issueLog' : i[1] + Week >= now}
      BY <1>1 DEF InWeek
    <2>3. InWeek(tried) \subseteq InWeek(issueLog)
            => InWeek(tried)' \subseteq InWeek(issueLog)'
      BY <1>1, <2>2
    <2> QED
      BY <2>1, <2>3 DEF TriedAreNoted
  <1>5. NotedAreFew'
    <2> SUFFICES ASSUME NoMishap' PROVE Cardinality(InWeek(issueLog)') <= ISSUE_BUDGET
      BY DEF NotedAreFew
    <2>1. NoMishap
      BY <1>1 DEF NoMishap
    <2>2. c[2] = "single"
      BY <1>1, <2>1 DEF BudgetIInv, SingleNames, NoMishap
    <2>3. Cardinality(InWeek(issueLog)) < ISSUE_BUDGET
      BY <1>1, <1>2, <2>2, InWeekIsALog, VhostsAssumption DEF MayIssue, budget_left
    <2>4. InWeek(issueLog)' \subseteq issueLog'
      BY DEF InWeek
    <2>5. Cardinality(InWeek(issueLog)') <= Cardinality(issueLog')
      BY <1>3, <2>4, FS_Subset DEF Log
    <2>6. /\ Cardinality(InWeek(issueLog)') \in Nat /\ Cardinality(issueLog') \in Nat
          /\ Cardinality(InWeek(issueLog)) \in Nat
      BY <1>2, <1>3, <2>4, FS_Subset, FS_CardinalityType, InWeekIsALog DEF Log
    <2> QED
      BY <1>3, <2>3, <2>5, <2>6, VhostsAssumption
  <1>6. SingleNames'
    BY DEF Obtains, Publishes, BudgetIInv, SingleNames, CertNames
  <1> QED
    BY <1>1, <1>2, <1>3, <1>4, <1>5, <1>6 DEF BudgetIInv, Log, CertNames

\* A death of the job is a fault, and ends what the budget is claimed for.
LEMMA JobDiesKeepsBudget == BudgetIInv /\ JobDies => BudgetIInv'
  <1> SUFFICES ASSUME BudgetIInv, JobDies PROVE BudgetIInv'
    OBVIOUS
  <1>1. /\ vhostFaults' = vhostFaults + 1 /\ now' = now /\ job' = NoJob /\ issueLog' = issueLog
        /\ vhostFaults \in Nat /\ now \in Nat /\ Log(tried) /\ Log(issueLog)
        /\ job.todo \subseteq CertNames
    BY DEF JobDies, JobFault, BudgetIInv, SingleNames, certificates
  <1>2. Log(tried')
    <2>1. CASE tried' = tried
      BY <1>1, <2>1
    <2>2. CASE \E c \in job.todo \ cert : tried' = InWeek(tried) \cup {<<now, c>>}
      BY <1>1, <2>2, NotedLog
    <2> QED
      BY <2>1, <2>2 DEF JobDies, certificates
  <1>3. ~NoMishap'
    BY <1>1 DEF NoMishap
  <1>4. SingleNames'
    BY <1>1 DEF SingleNames, NoJob
  <1> QED
    BY <1>1, <1>2, <1>3, <1>4 DEF BudgetIInv, TriedAreNoted, NotedAreFew, Log, CertNames

\* The steps of a pass that issue nothing.
LEMMA PassKeepsBudget ==
    ASSUME BudgetIInv,
           \/ PassStarts \/ CertsDone \/ WritesFiles \/ Tests \/ Reloads \/ mark_readiness
           \/ \E c \in CertNames : Has(c) \/ Defers(c)
    PROVE  BudgetIInv'
  <1>0. SingleNames
    BY DEF BudgetIInv
  <1> USE DEF certificates, SingleNames, CertNames
  <1>1. CASE PassStarts
    BY <1>1, NothingIssued DEF PassStarts, NoJob
  <1>2. CASE CertsDone
    BY <1>0, <1>2, NothingIssued DEF CertsDone, Step
  <1>3. CASE WritesFiles
    BY <1>0, <1>3, NothingIssued DEF WritesFiles
  <1>4. CASE Tests
    <2>1. UNCHANGED <<tried, issueLog, now>>
      BY <1>4 DEF Tests
    <2>2. vhostFaults' \in {vhostFaults, vhostFaults + 1}
      BY <1>4 DEF Tests, JobFault
    <2>3. job' = [job EXCEPT !.at = "reload"] \/ job' = NoJob
      BY <1>4 DEF Tests, Step
    <2>4. CASE job' = [job EXCEPT !.at = "reload"]
      BY <1>0, <2>1, <2>2, <2>4, NothingIssued
    <2>5. CASE job' = NoJob
      BY <2>1, <2>2, <2>5, NothingIssued DEF NoJob
    <2> QED
      BY <2>3, <2>4, <2>5
  <1>5. CASE Reloads
    <2>1. UNCHANGED <<tried, issueLog, now>>
      BY <1>5 DEF Reloads
    <2>2. vhostFaults' \in {vhostFaults, vhostFaults + 1}
      BY <1>5 DEF Reloads
    <2>3. job' = [job EXCEPT !.at = "mark"] \/ job' = NoJob
      BY <1>5 DEF Reloads, Step
    <2>4. CASE job' = [job EXCEPT !.at = "mark"]
      BY <1>0, <2>1, <2>2, <2>4, NothingIssued
    <2>5. CASE job' = NoJob
      BY <2>1, <2>2, <2>5, NothingIssued DEF NoJob
    <2> QED
      BY <2>3, <2>4, <2>5
  <1>6. CASE mark_readiness
    BY <1>6, NothingIssued DEF mark_readiness, NoJob
  <1>7. ASSUME NEW c \in CertNames, Has(c) \/ Defers(c) PROVE BudgetIInv'
    <2>1. UNCHANGED <<tried, issueLog, now, vhostFaults>>
      BY <1>7 DEF Has, Defers
    <2>2. PICK got \in BOOLEAN : Publishes(c, got)
      BY <1>7 DEF Has, Defers
    <2>3. job'.todo \subseteq job.todo \cup {<<c[1], "single">>}
      BY <2>2 DEF Publishes
    <2>4. <<c[1], "single">> \in CertNames
      OBVIOUS
    <2> QED
      BY <1>0, <2>1, <2>3, <2>4, NothingIssued
  <1> QED
    BY <1>1, <1>2, <1>3, <1>4, <1>5, <1>6, <1>7

\* Every step keeps the invariant.
LEMMA BudgetStep == BudgetIInv /\ [VhostsNext]_vhostVars => BudgetIInv'
  <1> SUFFICES ASSUME BudgetIInv, [VhostsNext]_vhostVars PROVE BudgetIInv'
    OBVIOUS
  <1>0. SingleNames
    BY DEF BudgetIInv
  <1>1. ASSUME NEW c \in Owners, Changes(c) \/ PortTaken(c) PROVE BudgetIInv'
    BY <1>0, <1>1, NothingIssued DEF Changes, PortTaken, certificates, SingleNames, CertNames
  <1>2. CASE Passes
    BY <1>2, PassKeepsBudget, ObtainsKeepsBudget DEF Passes
  <1>3. CASE UNCHANGED vhostVars
    BY <1>0, <1>3, NothingIssued DEF vhostVars, SingleNames, CertNames
  <1> QED
    BY <1>1, <1>2, <1>3, TickKeepsBudget, JobDiesKeepsBudget DEF VhostsNext

\* Without a DNS plugin, and if the job never dies between an issuance and its
\* note, no more than ISSUE_BUDGET certificates are asked for within any Week.
THEOREM WithinBudget == VhostsSpec => []BudgetKept
  <1>1. BudgetIInv => BudgetKept
    <2> SUFFICES ASSUME BudgetIInv, NoMishap PROVE Cardinality(InWeek(tried)) <= ISSUE_BUDGET
      BY DEF BudgetKept, NoMishap
    <2>1. InWeek(tried) \subseteq InWeek(issueLog)
          /\ Cardinality(InWeek(issueLog)) <= ISSUE_BUDGET /\ Log(issueLog)
      BY DEF BudgetIInv, TriedAreNoted, NotedAreFew
    <2>2. Log(InWeek(issueLog)) /\ Cardinality(InWeek(issueLog)) \in Nat
      BY <2>1, InWeekIsALog
    <2>3. /\ Cardinality(InWeek(tried)) <= Cardinality(InWeek(issueLog))
          /\ Cardinality(InWeek(tried)) \in Nat
      BY <2>1, <2>2, FS_Subset, FS_CardinalityType DEF Log
    <2> QED
      BY <2>1, <2>2, <2>3, VhostsAssumption
  <1> QED
    BY <1>1, BudgetInit, BudgetStep, PTL DEF VhostsSpec

-----------------------------------------------------------------------------
(***************************************************************************)
(* What the version in a session is worth, for any number of users,        *)
(* handlers and requests.  The comparison of two versions stands for the   *)
(* order of two loads as long as every revocation of an account began from *)
(* its latest version: whatever remembers a version, a cookie or a request *)
(* that may yet issue one, is never ahead of the row, and is behind it if  *)
(* a revocation has been committed since it was loaded.                    *)
(***************************************************************************)
AccountRow == [status : {"none", "pending", "approved", "rejected", "deleting", "gone"},
        admin : BOOLEAN, version : Nat, credit : BOOLEAN, key : BOOLEAN]
Cookie == [user : Users, version : Nat, era : Nat]
Task == [at : {"idle", "loaded", "accounts", "cookie", "queue"},
         what : Tasks, user : Users, copy : AccountRow, era : Nat]

\* The types, without the bounds of the model.
AccountsTyped ==
    /\ account \in [Users -> AccountRow]
    /\ cookies \subseteq Cookie
    /\ handler \in [Handlers -> Task]
    /\ clashed \subseteq Users
    /\ era \in [Users -> Nat]

\* A request whose copy may yet become a session.
Remembers(t) == t.at = "cookie" \/ (t.at = "loaded" /\ t.what # "register")

\* A version and its era, as remembered of u.
InOrder(version, e, u) ==
    /\ version <= account[u].version /\ e <= era[u]
    /\ e < era[u] => version < account[u].version

CookiesInOrder ==
    \A c \in cookies : Registered(c.user) /\ c.user \notin clashed
        => InOrder(c.version, c.era, c.user)

TasksInOrder ==
    \A h \in Handlers : Remembers(handler[h]) /\ Registered(handler[h].user)
                        /\ handler[h].user \notin clashed
        => InOrder(handler[h].copy.version, handler[h].era, handler[h].user)

\* Nothing is remembered of a user who has yet to register.
NoneRemembered ==
    /\ \A c \in cookies : account[c.user].status # "none"
    /\ \A h \in Handlers : Remembers(handler[h]) => account[handler[h].user].status # "none"

AccountsIInv == AccountsTyped /\ CookiesInOrder /\ TasksInOrder /\ NoneRemembered

-----------------------------------------------------------------------------
LEMMA NoTaskTyped == NoAccount \in AccountRow /\ NoTask \in Task /\ ~Remembers(NoTask)
  <1>1. NoAccount \in AccountRow
    BY DEF NoAccount, AccountRow
  <1>2. (CHOOSE u \in Users : TRUE) \in Users
    BY AccountsAssumption
  <1>3. NoTask \in Task /\ ~Remembers(NoTask)
    BY <1>1, <1>2 DEF NoTask, Task, Tasks, Remembers
  <1> QED
    BY <1>1, <1>3

LEMMA AccountsInitInv == ASSUME AccountsInit PROVE AccountsIInv
  <1>1. AccountsTyped
    BY NoTaskTyped DEF AccountsInit, AccountsTyped
  <1>2. CookiesInOrder /\ \A c \in cookies : account[c.user].status # "none"
    BY DEF AccountsInit, CookiesInOrder
  <1>3. \A h \in Handlers : ~Remembers(handler[h])
    BY NoTaskTyped DEF AccountsInit
  <1> QED
    BY <1>1, <1>2, <1>3 DEF AccountsIInv, TasksInOrder, NoneRemembered

\* A step that issues no session, loads no row and revokes nothing: the version
\* of every row that stays is what it was, and what still remembers one is old.
LEMMA Untouched ==
    ASSUME AccountsIInv, AccountsTyped',
           cookies' = cookies, era' = era, clashed' = clashed,
           \A u \in Users : account'[u].status \notin {"none", "gone"} =>
               \/ account[u].status = "none"
               \/ Registered(u) /\ account'[u].version = account[u].version,
           \A u \in Users : account'[u].status = "none" => account[u].status = "none",
           \A h \in Handlers : Remembers(handler'[h]) => handler'[h] = handler[h]
    PROVE  AccountsIInv'
  <1>1. CookiesInOrder'
    BY DEF AccountsIInv, AccountsTyped, CookiesInOrder, NoneRemembered, Registered, InOrder, Cookie
  <1>2. TasksInOrder'
    <2> SUFFICES ASSUME NEW h \in Handlers, Remembers(handler'[h]),
                        Registered(handler[h].user)', handler'[h].user \notin clashed'
                 PROVE  InOrder(handler[h].copy.version, handler[h].era, handler[h].user)'
      BY DEF TasksInOrder
    <2>1. Remembers(handler[h]) /\ handler[h].user \in Users /\ handler'[h] = handler[h]
      BY DEF AccountsIInv, AccountsTyped, Task
    <2>2. InOrder(handler[h].copy.version, handler[h].era, handler[h].user)
      BY <2>1 DEF AccountsIInv, TasksInOrder, NoneRemembered, Registered
    <2> QED
      BY <2>1, <2>2 DEF InOrder, AccountsIInv, NoneRemembered, Registered
  <1>3. NoneRemembered'
    BY DEF AccountsIInv, AccountsTyped, NoneRemembered, Cookie, Task
  <1> QED
    BY <1>1, <1>2, <1>3 DEF AccountsIInv

\* A request loads a row: its copy is the latest.
LEMMA LoadInv ==
    ASSUME AccountsIInv, NEW h \in Handlers, NEW what \in Tasks, NEW u \in Users,
           Registered(u), LoadsRow(h, what, u)
    PROVE  AccountsIInv'
  <1> DEFINE t == [at |-> "loaded", what |-> what, user |-> u, copy |-> account[u],
                   era |-> era[u]]
  <1>1. t \in Task /\ handler' = [handler EXCEPT ![h] = t]
    BY DEF LoadsRow, AccountsIInv, AccountsTyped, Task
  <1>2. UNCHANGED <<account, cookies, clashed, era>>
    BY DEF LoadsRow
  <1>3. AccountsTyped'
    BY <1>1, <1>2 DEF AccountsIInv, AccountsTyped
  <1>4. \A g \in Handlers : handler'[g] = IF g = h THEN t ELSE handler[g]
    BY <1>1 DEF AccountsIInv, AccountsTyped
  <1>5. InOrder(t.copy.version, t.era, t.user) /\ account[t.user].status # "none"
    BY DEF InOrder, Registered, AccountsIInv, AccountsTyped, AccountRow
  <1>6. TasksInOrder'
    BY <1>2, <1>4, <1>5 DEF AccountsIInv, TasksInOrder, InOrder, Registered
  <1>7. CookiesInOrder'
    BY <1>2 DEF AccountsIInv, CookiesInOrder, InOrder, Registered
  <1>8. NoneRemembered'
    BY <1>2, <1>4, <1>5 DEF AccountsIInv, NoneRemembered
  <1> QED
    BY <1>3, <1>6, <1>7, <1>8 DEF AccountsIInv

\* A session issued is as old as the copy it was made from.
LEMMA SignedInInv == ASSUME AccountsIInv, NEW h \in Handlers, SignedIn(h) PROVE AccountsIInv'
  <1> DEFINE t == handler[h]
             c == [user |-> t.user, version |-> t.copy.version, era |-> t.era]
  <1>1. t \in Task /\ Remembers(t) /\ c \in Cookie
    BY DEF SignedIn, Remembers, AccountsIInv, AccountsTyped, Task, AccountRow, Cookie
  <1>2. cookies' = cookies \cup {c} /\ handler' = [handler EXCEPT ![h] = NoTask]
    BY DEF SignedIn, _issue_session, HandlerEnds
  <1>3. UNCHANGED <<account, clashed, era>>
    BY DEF SignedIn
  <1>4. AccountsTyped'
    BY <1>1, <1>2, <1>3, NoTaskTyped DEF AccountsIInv, AccountsTyped
  <1>5. \A g \in Handlers : handler'[g] = IF g = h THEN NoTask ELSE handler[g]
    BY <1>2 DEF AccountsIInv, AccountsTyped
  <1>6. TasksInOrder'
    BY <1>3, <1>5, NoTaskTyped DEF AccountsIInv, TasksInOrder, InOrder, Registered
  <1>7. Registered(c.user) /\ c.user \notin clashed => InOrder(c.version, c.era, c.user)
    BY <1>1 DEF AccountsIInv, TasksInOrder
  <1>8. CookiesInOrder'
    BY <1>2, <1>3, <1>7 DEF AccountsIInv, CookiesInOrder, InOrder, Registered
  <1>9. NoneRemembered'
    BY <1>1, <1>2, <1>3, <1>5, NoTaskTyped DEF AccountsIInv, NoneRemembered
  <1> QED
    BY <1>4, <1>6, <1>8, <1>9 DEF AccountsIInv

\* A revocation that began from the latest version leaves every version
\* remembered behind; one that did not is a clash.
LEMMA RevokesInv ==
    ASSUME AccountsIInv, NEW h \in Handlers, NEW row \in AccountRow,
           Remembers(handler[h]), Registered(handler[h].user),
           row.status # "none", row.status # "gone",
           Revokes(h, row), cookies' = cookies
    PROVE  AccountsIInv'
  <1> DEFINE t == handler[h]
             u == t.user
             next == t.copy.version + 1
             new == CASE t.what \in {"password", "phone"} ->
                           [t EXCEPT !.at = "cookie", !.copy.version = next, !.era = era[u] + 1]
                      [] t.what = "delete" -> [t EXCEPT !.at = "queue"]
                      [] OTHER -> NoTask
  <1>1. t \in Task /\ u \in Users /\ next \in Nat /\ t.copy.version \in Nat
    BY DEF AccountsIInv, AccountsTyped, Task, AccountRow
  <1>2. /\ account' = [account EXCEPT ![u] = [row EXCEPT !.version = next]]
        /\ era' = [era EXCEPT ![u] = @ + 1]
        /\ clashed' = IF account[u].version = t.copy.version THEN clashed ELSE clashed \cup {u}
        /\ handler' = [handler EXCEPT ![h] = new]
    BY DEF Revokes
  <1>3. (new \in Task /\ new.user = u) \/ new = NoTask
    <2>1. CASE t.what \in {"password", "phone"}
      <3>1. [t.copy EXCEPT !.version = next] \in AccountRow /\ era[u] + 1 \in Nat
        BY <1>1 DEF AccountsIInv, AccountsTyped, Task, AccountRow
      <3>2. new = [t EXCEPT !.at = "cookie", !.copy = [t.copy EXCEPT !.version = next],
                            !.era = era[u] + 1]
        BY <2>1, <1>1 DEF Task
      <3> QED
        BY <3>1, <3>2, <1>1 DEF Task
    <2>2. CASE t.what \notin {"password", "phone"}
      BY <2>2, <1>1 DEF Task
    <2> QED
      BY <2>1, <2>2
  <1>4. Remembers(new) => new.at = "cookie" /\ new.copy.version = next /\ new.era = era[u] + 1
                          /\ new.user = u
    BY <1>1, NoTaskTyped DEF Remembers, Task
  <1>5. [row EXCEPT !.version = next] \in AccountRow
    BY <1>1 DEF AccountRow
  <1>6. AccountsTyped'
    BY <1>1, <1>2, <1>3, <1>5, NoTaskTyped DEF AccountsIInv, AccountsTyped
  <1>7. \A v \in Users : /\ account'[v] = IF v = u THEN [row EXCEPT !.version = next]
                                          ELSE account[v]
                         /\ era'[v] = IF v = u THEN era[u] + 1 ELSE era[v]
    BY <1>1, <1>2 DEF AccountsIInv, AccountsTyped
  <1>8. account'[u].version = next /\ account'[u].status = row.status /\ era'[u] = era[u] + 1
    BY <1>1, <1>7 DEF AccountRow
  <1>9. u \notin clashed' => u \notin clashed /\ account[u].version = t.copy.version
    BY <1>2
  <1>10. \A g \in Handlers : handler'[g] = IF g = h THEN new ELSE handler[g]
    BY <1>2 DEF AccountsIInv, AccountsTyped
  <1>11. CookiesInOrder'
    <2> SUFFICES ASSUME NEW c \in cookies, Registered(c.user)', c.user \notin clashed'
                 PROVE  InOrder(c.version, c.era, c.user)'
      BY DEF CookiesInOrder
    <2>1. c \in Cookie /\ c.version \in Nat /\ c.era \in Nat /\ c.user \in Users
      BY DEF AccountsIInv, AccountsTyped, Cookie
    <2>2. CASE c.user = u
      <3>1. c.version <= account[u].version /\ c.era <= era[u]
        BY <2>2, <1>9 DEF AccountsIInv, CookiesInOrder, InOrder
      <3> QED
        BY <3>1, <2>1, <2>2, <1>1, <1>8, <1>9 DEF InOrder, AccountsIInv, AccountsTyped
    <2>3. CASE c.user # u
      <3>1. InOrder(c.version, c.era, c.user)
        BY <2>1, <2>3, <1>2, <1>7 DEF AccountsIInv, CookiesInOrder, Registered
      <3> QED
        BY <3>1, <2>1, <2>3, <1>7 DEF InOrder
    <2> QED
      BY <2>2, <2>3
  <1>12. TasksInOrder'
    <2> SUFFICES ASSUME NEW g \in Handlers, Remembers(handler'[g]),
                        Registered(handler[g].user)', handler'[g].user \notin clashed'
                 PROVE  InOrder(handler[g].copy.version, handler[g].era, handler[g].user)'
      BY DEF TasksInOrder
    <2>1. CASE g = h
      <3>1. /\ handler'[g].copy.version = next /\ handler'[g].era = era[u] + 1
            /\ handler'[g].user = u
        <4> HIDE DEF new
        <4> QED
          BY <2>1, <1>4, <1>10
      <3>2. era[u] \in Nat
        BY <1>1 DEF AccountsIInv, AccountsTyped
      <3> QED
        BY <3>1, <3>2, <1>1, <1>8 DEF InOrder
    <2>2. CASE g # h
      <3> DEFINE s == handler[g]
      <3>1. /\ handler'[g] = s /\ s \in Task /\ s.user \in Users
            /\ s.copy.version \in Nat /\ s.era \in Nat
        BY <2>2, <1>10 DEF AccountsIInv, AccountsTyped, Task, AccountRow
      <3>2. CASE s.user = u
        <4>1. s.copy.version <= account[u].version /\ s.era <= era[u]
          BY <3>1, <3>2, <1>9 DEF AccountsIInv, TasksInOrder, InOrder
        <4> QED
          BY <4>1, <3>1, <3>2, <1>1, <1>8, <1>9 DEF InOrder, AccountsIInv, AccountsTyped
      <3>3. CASE s.user # u
        <4>1. InOrder(s.copy.version, s.era, s.user)
          BY <3>1, <3>3, <1>2, <1>7 DEF AccountsIInv, TasksInOrder, Registered
        <4> QED
          BY <4>1, <3>1, <3>3, <1>7 DEF InOrder
      <3> QED
        BY <3>2, <3>3
    <2> QED
      BY <2>1, <2>2
  <1>13. NoneRemembered'
    <2>1. \A v \in Users : account'[v].status = "none" => account[v].status = "none"
      BY <1>7, <1>8
    <2>2. \A c \in cookies : c.user \in Users
      BY DEF AccountsIInv, AccountsTyped, Cookie
    <2>3. \A g \in Handlers : Remembers(handler'[g]) =>
             \/ handler'[g].user = u
             \/ Remembers(handler[g]) /\ handler'[g] = handler[g] /\ handler[g].user \in Users
      BY <1>4, <1>10 DEF AccountsIInv, AccountsTyped, Task
    <2> QED
      BY <2>1, <2>2, <2>3, <1>8 DEF AccountsIInv, NoneRemembered
  <1> QED
    BY <1>6, <1>11, <1>12, <1>13 DEF AccountsIInv

-----------------------------------------------------------------------------
LEMMA RevocationInv == ASSUME AccountsIInv, NEW h \in Handlers, CommitsRevocation(h) PROVE AccountsIInv'
  <1> DEFINE t == handler[h]
             row == account[t.user]
  <1>1. t \in Task /\ t.user \in Users /\ row \in AccountRow /\ t.at = "loaded" /\ t.what \in Revoking
        /\ cookies' = cookies
    BY DEF CommitsRevocation, AccountsIInv, AccountsTyped, Task
  <1>2. CASE ~Registered(t.user)
    <2>1. UNCHANGED <<account, era, clashed>> /\ handler' = [handler EXCEPT ![h] = NoTask]
      BY <1>2 DEF CommitsRevocation, HandlerEnds
    <2>2. AccountsTyped'
      BY <1>1, <2>1, NoTaskTyped DEF AccountsIInv, AccountsTyped
    <2>3. \A g \in Handlers : Remembers(handler'[g]) => handler'[g] = handler[g]
      BY <2>1, NoTaskTyped DEF AccountsIInv, AccountsTyped
    <2> QED
      BY <1>1, <2>1, <2>2, <2>3, Untouched DEF Registered
  <1>3. CASE Registered(t.user)
    <2>1. PICK new \in {row, [row EXCEPT !.status = "rejected"], [row EXCEPT !.status = "deleting"]} :
                 Revokes(h, new)
      BY <1>1, <1>3 DEF CommitsRevocation
    <2>2. new \in AccountRow /\ new.status # "none" /\ new.status # "gone"
      BY <1>1, <1>3 DEF AccountRow, Registered
    <2>3. Remembers(t)
      BY <1>1 DEF Remembers, Revoking
    <2> QED
      BY <1>1, <1>3, <2>1, <2>2, <2>3, RevokesInv
  <1> QED
    BY <1>2, <1>3

\* The steps that end a request, or change a row but not its version.
LEMMA AccountsQuietInv ==
    ASSUME AccountsIInv,
           \/ \E h \in Handlers : \/ SaveUser(h) \/ SaveAccounts(h) \/ CommitsGrant(h)
                                  \/ QueuesDeletion(h) \/ HandlerDies(h)
                                  \/ \E u \in Users : register(h, u)
           \/ \E u \in Users : _purge_account(u)
    PROVE  AccountsIInv'
  <1>1. CASE \E h \in Handlers, u \in Users : register(h, u)
    <2> PICK h \in Handlers, u \in Users : register(h, u)
      BY <1>1
    <2>1. PICK t \in Task : handler' = [handler EXCEPT ![h] = t] /\ ~Remembers(t)
      <3> DEFINE first == \A v \in Users : ~Registered(v)
                 copy == [NoAccount EXCEPT
                            !.status = IF first THEN "approved" ELSE "pending", !.admin = first]
                 t == [NoTask EXCEPT !.at = "loaded", !.what = "register", !.user = u,
                                     !.copy = copy]
      <3>1. copy \in AccountRow
        BY NoTaskTyped DEF AccountRow
      <3>2. t \in Task /\ ~Remembers(t)
        BY <3>1, NoTaskTyped DEF Task, Tasks, Remembers
      <3>3. handler' = [handler EXCEPT ![h] = t]
        BY DEF register
      <3> QED
        BY <3>2, <3>3
    <2>2. UNCHANGED <<account, cookies, era, clashed>>
      BY DEF register
    <2>3. AccountsTyped'
      BY <2>1, <2>2 DEF AccountsIInv, AccountsTyped
    <2>4. \A g \in Handlers : Remembers(handler'[g]) => handler'[g] = handler[g]
      BY <2>1 DEF AccountsIInv, AccountsTyped
    <2> QED
      BY <2>2, <2>3, <2>4, Untouched DEF Registered
  <1>2. CASE \E u \in Users : _purge_account(u)
    <2> PICK u \in Users : _purge_account(u)
      BY <1>2
    <2>1. /\ account' = [account EXCEPT ![u] = [NoAccount EXCEPT !.status = "gone"]]
          /\ UNCHANGED <<handler, cookies, era, clashed>>
      BY DEF _purge_account
    <2>2. [NoAccount EXCEPT !.status = "gone"] \in AccountRow
          /\ [NoAccount EXCEPT !.status = "gone"].status = "gone"
      BY NoTaskTyped DEF AccountRow
    <2>3. AccountsTyped'
      BY <2>1, <2>2 DEF AccountsIInv, AccountsTyped
    <2> QED
      BY <2>1, <2>2, <2>3, Untouched DEF Registered, AccountsIInv, AccountsTyped
  <1>3. CASE \E h \in Handlers : QueuesDeletion(h) \/ HandlerDies(h)
    <2> PICK h \in Handlers : QueuesDeletion(h) \/ HandlerDies(h)
      BY <1>3
    <2>1. UNCHANGED <<account, cookies, era, clashed>> /\ handler' = [handler EXCEPT ![h] = NoTask]
      BY DEF QueuesDeletion, HandlerDies, HandlerEnds
    <2>2. AccountsTyped'
      BY <2>1, NoTaskTyped DEF AccountsIInv, AccountsTyped
    <2>3. \A g \in Handlers : Remembers(handler'[g]) => handler'[g] = handler[g]
      BY <2>1, NoTaskTyped DEF AccountsIInv, AccountsTyped
    <2> QED
      BY <2>1, <2>2, <2>3, Untouched DEF Registered
  <1>4. CASE \E h \in Handlers : SaveUser(h)
    <2> PICK h \in Handlers : SaveUser(h)
      BY <1>4
    <2> DEFINE t == handler[h]
    <2>1. t \in Task /\ t.user \in Users /\ t.copy \in AccountRow
      BY DEF AccountsIInv, AccountsTyped, Task
    <2>2. UNCHANGED <<cookies, era, clashed>>
      BY DEF SaveUser
    <2>3. \/ account' = account /\ handler' = [handler EXCEPT ![h] = NoTask]
          \/ /\ account[t.user].status = "none"
             /\ account' = [account EXCEPT ![t.user] = t.copy]
             /\ handler' = [handler EXCEPT ![h].at = "accounts"]
      BY DEF SaveUser, HandlerEnds, Goes
    <2>4. [t EXCEPT !.at = "accounts"] \in Task /\ ~Remembers([t EXCEPT !.at = "accounts"])
      BY <2>1 DEF Task, Remembers
    <2>5. AccountsTyped'
      BY <2>1, <2>2, <2>3, <2>4, NoTaskTyped DEF AccountsIInv, AccountsTyped
    <2>6. \A g \in Handlers : Remembers(handler'[g]) => handler'[g] = handler[g]
      BY <2>3, <2>4, NoTaskTyped DEF AccountsIInv, AccountsTyped
    <2>7. \A u \in Users : account[u].status # "none" => account'[u] = account[u]
      BY <2>1, <2>3 DEF AccountsIInv, AccountsTyped
    <2>8. \A u \in Users : account'[u].status = "none" => account[u].status = "none"
      BY <2>7
    <2> QED
      BY <2>2, <2>5, <2>6, <2>7, <2>8, Untouched DEF Registered
  <1>5. CASE \E h \in Handlers : SaveAccounts(h) \/ CommitsGrant(h)
    <2> PICK h \in Handlers : SaveAccounts(h) \/ CommitsGrant(h)
      BY <1>5
    <2> DEFINE u == handler[h].user
    <2>1. u \in Users /\ account[u] \in AccountRow /\ handler[h].copy \in AccountRow
      BY DEF AccountsIInv, AccountsTyped, Task
    <2>2. UNCHANGED <<cookies, era, clashed>> /\ handler' = [handler EXCEPT ![h] = NoTask]
      BY DEF SaveAccounts, CommitsGrant, HandlerEnds
    <2>3. PICK new \in AccountRow :
             /\ account' = [account EXCEPT ![u] = new] /\ new.version = account[u].version
             /\ Registered(u) => new.status \notin {"none", "gone"}
             /\ ~Registered(u) => new = account[u]
      <3>1. CASE ~Registered(u)
        <4>1. account' = account
          BY <3>1 DEF SaveAccounts, CommitsGrant
        <4> QED
          BY <4>1, <3>1, <2>1 DEF AccountsIInv, AccountsTyped
      <3>2. CASE SaveAccounts(h) /\ Registered(u)
        <4> DEFINE new == [account[u] EXCEPT !.credit = TRUE,
                             !.key = @ \/ handler[h].copy.status = "approved"]
        <4>1. account' = [account EXCEPT ![u] = new]
          BY <3>2, <2>1 DEF SaveAccounts, AccountRow, AccountsIInv, AccountsTyped
        <4>2. new \in AccountRow /\ new.version = account[u].version /\ new.status = account[u].status
          BY <2>1 DEF AccountRow
        <4> QED
          BY <4>1, <4>2, <3>2 DEF Registered
      <3>3. CASE CommitsGrant(h) /\ Registered(u)
        <4> DEFINE t == handler[h]
                   approves == t.what # "demote" /\ t.copy.status # "approved"
                   new == [account[u] EXCEPT !.status = IF approves THEN "approved" ELSE @,
                     !.key = @ \/ approves \/ t.what = "approve",
                     !.admin = IF t.what = "approve" \/ t.copy.admin = (t.what = "promote") THEN @
                               ELSE t.what = "promote"]
        <4>1. account' = [account EXCEPT ![u] = new]
          BY <3>3 DEF CommitsGrant
        <4>2. new \in AccountRow /\ new.version = account[u].version
              /\ new.status \in {account[u].status, "approved"}
          BY <2>1 DEF AccountRow
        <4> QED
          BY <4>1, <4>2, <3>3 DEF Registered
      <3> QED
        BY <3>1, <3>2, <3>3
    <2>4. AccountsTyped'
      BY <2>1, <2>2, <2>3, NoTaskTyped DEF AccountsIInv, AccountsTyped
    <2>5. \A g \in Handlers : Remembers(handler'[g]) => handler'[g] = handler[g]
      BY <2>2, NoTaskTyped DEF AccountsIInv, AccountsTyped
    <2>6. \A v \in Users : account'[v] = IF v = u THEN new ELSE account[v]
      BY <2>1, <2>3 DEF AccountsIInv, AccountsTyped
    <2>7. \A v \in Users : account'[v].status = "none" => account[v].status = "none"
      BY <2>3, <2>6 DEF Registered
    <2>8. \A v \in Users : account'[v].status \notin {"none", "gone"} =>
             Registered(v) /\ account'[v].version = account[v].version
      BY <2>3, <2>6 DEF Registered
    <2> QED
      BY <2>2, <2>4, <2>5, <2>7, <2>8, Untouched
  <1> QED
    BY <1>1, <1>2, <1>3, <1>4, <1>5

LEMMA AccountsNextInv == ASSUME AccountsIInv, [AccountsNext]_accountVars PROVE AccountsIInv'
  <1>1. CASE UNCHANGED accountVars
    BY <1>1 DEF accountVars, AccountsIInv, AccountsTyped, CookiesInOrder, TasksInOrder, NoneRemembered,
                InOrder, Registered
  <1>2. ASSUME NEW h \in Handlers, NEW u \in Users, SignsIn(h, u) \/ reset_password(h, u)
        PROVE  AccountsIInv'
    <2>1. Registered(u) /\ \E what \in {"login", "reset"} : LoadsRow(h, what, u)
      BY <1>2 DEF SignsIn, reset_password, LoginAllowed, Registered
    <2> QED
      BY <2>1, LoadInv DEF Tasks
  <1>3. ASSUME NEW h \in Handlers, NEW c \in cookies, NEW what \in Tasks,
               OwnChange(h, c, what) \/ \E u \in Users : Administers(h, c, what, u)
        PROVE  AccountsIInv'
    <2>1. c.user \in Users
      BY DEF AccountsIInv, AccountsTyped, Cookie
    <2>2. \E u \in Users : Registered(u) /\ LoadsRow(h, what, u)
      BY <1>3, <2>1 DEF OwnChange, Administers, current_user, LoginAllowed, Registered
    <2> QED
      BY <2>2, LoadInv
  <1>4. ASSUME NEW h \in Handlers, SignedIn(h) PROVE AccountsIInv'
    BY <1>4, SignedInInv
  <1>5. ASSUME NEW h \in Handlers, CommitsRevocation(h) PROVE AccountsIInv'
    BY <1>5, RevocationInv
  <1> QED
    BY <1>1, <1>2, <1>3, <1>4, <1>5, AccountsQuietInv DEF AccountsNext

\* Whatever a session remembers, it is let in only if it was made from a row
\* loaded after the last revocation, for any number of users, requests and
\* revocations; the exception is an account of which one revocation overwrote
\* another.  (current_user, _issue_session and session_version of app.py.)
THEOREM SessionsEnd == AccountsSpec => []RevokedStayOut
  <1>1. AccountsInit => AccountsIInv
    BY AccountsInitInv
  <1>2. AccountsIInv /\ [AccountsNext]_accountVars => AccountsIInv'
    BY AccountsNextInv
  <1>3. AccountsIInv => RevokedStayOut
    <2> SUFFICES ASSUME AccountsIInv, NEW c \in cookies, current_user(c), c.user \notin clashed
                 PROVE  c.era = era[c.user]
      BY DEF RevokedStayOut
    <2>1. c.user \in Users /\ c.version \in Nat /\ c.era \in Nat
          /\ account[c.user].version \in Nat /\ era[c.user] \in Nat
      BY DEF AccountsIInv, AccountsTyped, Cookie, AccountRow
    <2>2. InOrder(c.version, c.era, c.user) /\ c.version = account[c.user].version
      BY DEF AccountsIInv, CookiesInOrder, current_user, LoginAllowed, Registered
    <2> QED
      BY <2>1, <2>2 DEF InOrder
  <1> QED
    BY <1>1, <1>2, <1>3, PTL DEF AccountsSpec

-----------------------------------------------------------------------------
(***************************************************************************)
(* The switches of remote access tell the truth to a customer who asks for *)
(* one thing at a time, for any number of keys, requests, faults and       *)
(* upheavals.  In between they do not: what holds at every moment is what  *)
(* the one request under way still owes, to the flag, to the listeners and *)
(* to authorized_keys.                                                     *)
(***************************************************************************)
OneAtATime == \A d, e \in Doors : door[d].at # "idle" /\ door[e].at # "idle" => d = e

OfAKey(wish) == wish.what \in {"add", "remove"}
\* Calls that write authorized_keys.
Authorizes(wish) == OfAKey(wish) \/ (wish.what = "on" /\ wish.on = "ssh")

\* Where a request can be, by what it is for.
OnItsWay(d) ==
    /\ door[d].at \in {"asked", "push"} => OfAKey(door[d].wish)
    /\ door[d].at = "listen" => Authorizes(door[d].wish)
    /\ door[d].at \in {"call", "listen"} /\ OfAKey(door[d].wish) => door[d].copy["ssh"]

\* The listener a request has switched and not yet noted; the others are as noted.
Switched(d, s) == door[d].at = "ok" /\ door[d].wish.on = s
ListenersAreNoted ==
    \A s \in Listeners :
        /\ \A d \in Doors :
               Switched(d, s) => (s \in inside.listens <=> door[d].wish.what = "on")
        /\ (\A d \in Doors : ~Switched(d, s)) => (flag[s] <=> s \in inside.listens)

\* What a request owes to authorized_keys.
Owes(d) == door[d].at = "push" \/ (door[d].at = "call" /\ OfAKey(door[d].wish))
KeysAreWritten ==
    /\ up
    /\ (\A d \in Doors : ~Owes(d)) /\ flag["ssh"] => inside.authorized = sshKeys
    /\ \A d \in Doors :
        /\ door[d].at # "failed"
        /\ door[d].at \in {"listen", "ok"} /\ Authorizes(door[d].wish) =>
               inside.authorized = sshKeys
        /\ door[d].at = "call" /\ Authorizes(door[d].wish) => door[d].body = sshKeys
        /\ door[d].at = "push" /\ flag["ssh"] => sshKeys # {}
        /\ door[d].at = "asked" /\ flag["ssh"] /\ door[d].wish.what = "remove" =>
               sshKeys \ {door[d].wish.on} # {}

CopiesAreFlags == \A d \in Doors : door[d].at # "idle" => door[d].copy = flag

RemoteIInv ==
    /\ RemoteTypeOK
    /\ \A d \in Doors : OnItsWay(d)
    /\ calm => /\ OneAtATime /\ CopiesAreFlags /\ ListenersAreNoted
               /\ counts.faults = 0 /\ counts.upheavals = 0 => KeysAreWritten

-----------------------------------------------------------------------------
Door == [at : {"idle", "asked", "push", "call", "listen", "ok", "failed"},
         wish : Wishes, copy : [Listeners -> BOOLEAN], body : SUBSET PublicKeys]

\* What is asked of a listener, a key and an agent differ.
LEMMA WishShapes ==
    ASSUME NEW wish \in Wishes
    PROVE  /\ OfAKey(wish) => wish.on \in PublicKeys
           /\ OfAKey(wish) <=> wish.on \in PublicKeys
           /\ wish.on \in Listeners <=> wish.what \in {"on", "off"}
           /\ wish.on \in {"codex", "claude"} => wish.what \notin {"on", "off", "add", "remove"}
  BY RemoteAssumption DEF Wishes, OfAKey, Listeners

LEMMA FreeTyped == Free \in Door
  BY DEF Free, Door, NoWish, NoFlags, Wishes, Listeners

LEMMA RemoteInitInv == ASSUME RemoteInit PROVE RemoteIInv
  <1>1. \A d \in Doors : door[d] = Free /\ Free \in Door /\ Free.at = "idle"
    BY FreeTyped DEF RemoteInit, Free
  <1>2. RemoteTypeOK
    BY <1>1, RemoteAssumption
    DEF RemoteInit, RemoteTypeOK, NoFlags, Empty, Door, Listeners
  <1>3. \A d \in Doors : OnItsWay(d)
    BY <1>1 DEF OnItsWay
  <1>4. OneAtATime /\ CopiesAreFlags /\ ListenersAreNoted /\ KeysAreWritten
    BY <1>1 DEF RemoteInit, OneAtATime, CopiesAreFlags, ListenersAreNoted, KeysAreWritten,
                Switched, Owes, NoFlags, Empty, Listeners
  <1> QED
    BY <1>2, <1>3, <1>4 DEF RemoteIInv

\* One request moves, and no other is under way while all is calm.
LEMMA OneDoor ==
    ASSUME RemoteIInv, NEW d \in Doors, NEW new, Becomes(d, new)
    PROVE  /\ \A e \in Doors : door'[e] = IF e = d THEN new ELSE door[e]
           /\ new \in Door => door' \in [Doors -> Door]
           /\ calm /\ (door[d].at # "idle" \/ Quietness) =>
                  /\ OneAtATime' /\ \A e \in Doors \ {d} : door[e].at = "idle"
  <1>1. door \in [Doors -> Door]
    BY DEF RemoteIInv, RemoteTypeOK, Door
  <1>2. \A e \in Doors : door'[e] = IF e = d THEN new ELSE door[e]
    BY <1>1 DEF Becomes
  <1>3. new \in Door => door' \in [Doors -> Door]
    BY <1>1 DEF Becomes
  <1>4. ASSUME calm, door[d].at # "idle" \/ Quietness
        PROVE  OneAtATime' /\ \A e \in Doors \ {d} : door[e].at = "idle"
    BY <1>2, <1>4 DEF RemoteIInv, OneAtATime, Quietness
  <1> QED
    BY <1>2, <1>3, <1>4

-----------------------------------------------------------------------------
\* A request begins, with the row and the keys as they are.
LEMMA AsksInv ==
    ASSUME RemoteIInv, NEW d \in Doors, NEW what, NEW thing, NEW at \in {"asked", "call"},
           [what |-> what, on |-> thing] \in Wishes, Asks(d, what, thing, at),
           at = "asked" <=> OfAKey([what |-> what, on |-> thing]),
           what = "remove" /\ flag["ssh"] => sshKeys \ {thing} # {}
    PROVE  RemoteIInv'
  <1> DEFINE new == [at |-> at, wish |-> [what |-> what, on |-> thing], copy |-> flag, body |-> sshKeys]
  <1>1. new \in Door
    BY DEF RemoteIInv, RemoteTypeOK, Door
  <1>2. Becomes(d, new) /\ UNCHANGED <<flag, sshKeys, inside, up>> /\ calm' = (calm /\ Quietness)
        /\ counts.calls < MaxDoorCalls /\ counts' = [counts EXCEPT !.calls = @ + 1] /\ door[d].at = "idle"
    BY DEF Asks
  <1>3. /\ \A e \in Doors : door'[e] = IF e = d THEN new ELSE door[e]
        /\ door' \in [Doors -> Door]
        /\ calm /\ Quietness => OneAtATime' /\ \A e \in Doors \ {d} : door[e].at = "idle"
    BY <1>1, <1>2, OneDoor
  <1>4. RemoteTypeOK'
    BY <1>2, <1>3, RemoteAssumption DEF RemoteIInv, RemoteTypeOK, Door
  <1>5. \A e \in Doors : OnItsWay(e)'
    BY <1>2, <1>3 DEF RemoteIInv, OnItsWay
  <1>6. ASSUME calm' PROVE OneAtATime' /\ CopiesAreFlags' /\ ListenersAreNoted'
    <2>1. calm /\ Quietness
      BY <1>2, <1>6 DEF RemoteIInv, RemoteTypeOK
    <2>2. CopiesAreFlags'
      BY <2>1, <1>2, <1>3 DEF CopiesAreFlags
    <2>3. \A e \in Doors, s \in Listeners : ~Switched(e, s)' /\ ~Switched(e, s)
      BY <2>1, <1>2, <1>3 DEF Switched, Quietness
    <2>4. ListenersAreNoted'
      BY <2>1, <2>3, <1>2 DEF RemoteIInv, ListenersAreNoted
    <2> QED
      BY <2>1, <2>2, <2>4, <1>3
  <1>7. ASSUME calm', counts'.faults = 0, counts'.upheavals = 0 PROVE KeysAreWritten'
    <2>1. calm /\ Quietness /\ counts.faults = 0 /\ counts.upheavals = 0
      BY <1>2, <1>7 DEF RemoteIInv, RemoteTypeOK
    <2>2. KeysAreWritten /\ \A e \in Doors : ~Owes(e)
      BY <2>1 DEF RemoteIInv, Quietness, Owes
    <2> QED
      BY <2>1, <2>2, <1>2, <1>3 DEF KeysAreWritten, Owes
  <1> QED
    BY <1>4, <1>5, <1>6, <1>7 DEF RemoteIInv

LEMMA HandlersAskInv ==
    ASSUME RemoteIInv, NEW d \in Doors,
           \/ \E what \in {"on", "off"} : set_ssh(d, what) \/ set_rdp(d, what)
           \/ \E what \in {"install", "unlink"} : ai_codex(d, what) \/ ai_claude(d, what)
           \/ \E k \in PublicKeys : add_ssh_key(d, k) \/ remove_ssh_key(d, k)
    PROVE  RemoteIInv'
  <1>1. ASSUME NEW what \in {"on", "off"}, NEW s \in Listeners, Asks(d, what, s, "call")
        PROVE  RemoteIInv'
    <2>1. [what |-> what, on |-> s] \in Wishes
      BY DEF Wishes
    <2> QED
      BY <1>1, <2>1, AsksInv DEF OfAKey
  <1>2. ASSUME NEW what \in {"install", "unlink"}, NEW c \in Clients, Asks(d, what, c, "call")
        PROVE  RemoteIInv'
    <2>1. [what |-> what, on |-> c] \in Wishes
      BY DEF Wishes
    <2> QED
      BY <1>2, <2>1, AsksInv DEF OfAKey
  <1>3. ASSUME NEW k \in PublicKeys, add_ssh_key(d, k) \/ remove_ssh_key(d, k)
        PROVE  RemoteIInv'
    <2>1. PICK what \in {"add", "remove"} :
              Asks(d, what, k, "asked") /\ (what = "remove" /\ flag["ssh"] => sshKeys \ {k} # {})
      <3>1. CASE add_ssh_key(d, k)
        BY <3>1 DEF add_ssh_key
      <3>2. CASE remove_ssh_key(d, k)
        BY <3>2 DEF remove_ssh_key
      <3> QED
        BY <1>3, <3>1, <3>2
    <2>2. [what |-> what, on |-> k] \in Wishes
      BY DEF Wishes
    <2> QED
      BY <2>1, <2>2, AsksInv DEF OfAKey
  <1> QED
    BY <1>1, <1>2, <1>3 DEF set_ssh, set_rdp, ai_codex, ai_claude, Listeners

\* The row of a key is written: from here on the machine is owed a push.
LEMMA StoresKeyInv == ASSUME RemoteIInv, NEW d \in Doors, StoresKey(d) PROVE RemoteIInv'
  <1> DEFINE new == [door[d] EXCEPT !.at = "push"]
  <1>1. door[d] \in Door /\ new \in Door /\ door[d].wish \in Wishes /\ door[d].at = "asked"
    BY DEF RemoteIInv, RemoteTypeOK, Door, StoresKey
  <1>2. /\ Becomes(d, new) /\ UNCHANGED <<flag, inside, up, calm, counts>>
        /\ sshKeys' = IF door[d].wish.what = "add" THEN sshKeys \cup {door[d].wish.on}
                      ELSE sshKeys \ {door[d].wish.on}
    BY DEF StoresKey, At
  <1>3. /\ \A e \in Doors : door'[e] = IF e = d THEN new ELSE door[e]
        /\ door' \in [Doors -> Door]
        /\ calm => OneAtATime' /\ \A e \in Doors \ {d} : door[e].at = "idle"
    BY <1>1, <1>2, OneDoor
  <1>4. new.at = "push" /\ new.wish = door[d].wish /\ new.copy = door[d].copy
    BY <1>1 DEF Door
  <1>5. OfAKey(door[d].wish) /\ door[d].wish.on \in PublicKeys
    BY <1>1, WishShapes DEF RemoteIInv, OnItsWay
  <1>6. RemoteTypeOK'
    BY <1>2, <1>3, <1>5 DEF RemoteIInv, RemoteTypeOK, Door
  <1>7. \A e \in Doors : OnItsWay(e)'
    BY <1>3, <1>4, <1>5 DEF RemoteIInv, OnItsWay
  <1>8. ASSUME calm' PROVE OneAtATime' /\ CopiesAreFlags' /\ ListenersAreNoted'
    <2>1. calm /\ CopiesAreFlags /\ ListenersAreNoted
      BY <1>2, <1>8 DEF RemoteIInv
    <2>2. CopiesAreFlags'
      BY <2>1, <1>1, <1>2, <1>3, <1>4 DEF CopiesAreFlags
    <2>3. \A e \in Doors, s \in Listeners : ~Switched(e, s)' /\ ~Switched(e, s)
      BY <2>1, <1>1, <1>3, <1>4 DEF Switched
    <2>4. ListenersAreNoted'
      BY <2>1, <2>3, <1>2 DEF ListenersAreNoted
    <2> QED
      BY <2>1, <2>2, <2>4, <1>3
  <1>9. ASSUME calm', counts'.faults = 0, counts'.upheavals = 0 PROVE KeysAreWritten'
    <2>1. calm /\ KeysAreWritten
      BY <1>2, <1>9 DEF RemoteIInv
    <2>2. flag["ssh"] => sshKeys' # {}
      BY <2>1, <1>1, <1>2, <1>5 DEF KeysAreWritten, OfAKey
    <2> QED
      BY <2>1, <2>2, <1>2, <1>3, <1>4 DEF KeysAreWritten, Owes
  <1> QED
    BY <1>6, <1>7, <1>8, <1>9 DEF RemoteIInv

\* _push_keys: the keys as they are now, and the machine listens if the flag says so.
LEMMA PushesKeysInv == ASSUME RemoteIInv, NEW d \in Doors, PushesKeys(d) PROVE RemoteIInv'
  <1> DEFINE new == IF door[d].copy["ssh"] /\ sshKeys # {}
                    THEN [door[d] EXCEPT !.at = "call", !.body = sshKeys] ELSE Free
  <1>1. /\ door[d] \in Door /\ new \in Door /\ door[d].wish \in Wishes /\ door[d].at = "push"
        /\ OfAKey(door[d].wish)
    BY FreeTyped DEF RemoteIInv, RemoteTypeOK, Door, PushesKeys, OnItsWay
  <1>2. Becomes(d, new) /\ UNCHANGED <<flag, sshKeys, inside, up, calm, counts>>
    BY DEF PushesKeys
  <1>3. /\ \A e \in Doors : door'[e] = IF e = d THEN new ELSE door[e]
        /\ door' \in [Doors -> Door]
        /\ calm => OneAtATime' /\ \A e \in Doors \ {d} : door[e].at = "idle"
    BY <1>1, <1>2, OneDoor
  <1>4. \/ /\ door[d].copy["ssh"] /\ new.at = "call" /\ new.body = sshKeys
           /\ new.wish = door[d].wish /\ new.copy = door[d].copy
        \/ new.at = "idle" /\ ~(door[d].copy["ssh"] /\ sshKeys # {})
    BY <1>1 DEF Door, Free
  <1> HIDE DEF new
  <1>5. RemoteTypeOK'
    BY <1>2, <1>3 DEF RemoteIInv, RemoteTypeOK, Door
  <1>6. \A e \in Doors : OnItsWay(e)'
    BY <1>3, <1>4 DEF RemoteIInv, OnItsWay
  <1>7. ASSUME calm' PROVE OneAtATime' /\ CopiesAreFlags' /\ ListenersAreNoted'
    <2>1. calm /\ CopiesAreFlags /\ ListenersAreNoted
      BY <1>2, <1>7 DEF RemoteIInv
    <2>2. CopiesAreFlags'
      BY <2>1, <1>1, <1>2, <1>3, <1>4 DEF CopiesAreFlags
    <2>3. \A e \in Doors, s \in Listeners : ~Switched(e, s)' /\ ~Switched(e, s)
      BY <2>1, <1>1, <1>3, <1>4 DEF Switched
    <2>4. ListenersAreNoted'
      BY <2>1, <2>3, <1>2 DEF ListenersAreNoted
    <2> QED
      BY <2>1, <2>2, <2>4, <1>3
  <1>8. ASSUME calm', counts'.faults = 0, counts'.upheavals = 0 PROVE KeysAreWritten'
    <2>1. calm /\ KeysAreWritten /\ CopiesAreFlags
      BY <1>2, <1>8 DEF RemoteIInv
    <2>2. door[d].copy = flag /\ (flag["ssh"] => sshKeys # {})
      BY <2>1, <1>1 DEF CopiesAreFlags, KeysAreWritten
    <2>3. CASE flag["ssh"]
      BY <2>1, <2>2, <2>3, <1>1, <1>2, <1>3, <1>4 DEF KeysAreWritten, Owes
    <2>4. CASE ~flag["ssh"]
      BY <2>1, <2>2, <2>4, <1>1, <1>2, <1>3, <1>4 DEF KeysAreWritten, Owes
    <2> QED
      BY <2>3, <2>4
  <1> QED
    BY <1>5, <1>6, <1>7, <1>8 DEF RemoteIInv

\* The answer is written down, and nothing is under way any more.
LEMMA WritesFlagInv == ASSUME RemoteIInv, NEW d \in Doors, WritesFlag(d) PROVE RemoteIInv'
  <1> DEFINE wish == door[d].wish
  <1>1. /\ door[d] \in Door /\ wish \in Wishes /\ door[d].at \in {"ok", "failed"}
        /\ Free.at = "idle" /\ Free \in Door
    BY FreeTyped DEF RemoteIInv, RemoteTypeOK, Door, WritesFlag, Free
  <1>2. /\ Becomes(d, Free) /\ UNCHANGED <<sshKeys, inside, up, calm, counts>>
        /\ flag' = IF /\ door[d].at = "ok" /\ wish.on \in Listeners
                      /\ door[d].copy[wish.on] # (wish.what = "on")
                   THEN [flag EXCEPT ![wish.on] = (wish.what = "on")] ELSE flag
    BY DEF WritesFlag
  <1>3. /\ \A e \in Doors : door'[e] = IF e = d THEN Free ELSE door[e]
        /\ door' \in [Doors -> Door]
        /\ calm => OneAtATime' /\ \A e \in Doors \ {d} : door[e].at = "idle"
    BY <1>1, <1>2, OneDoor
  <1>4. RemoteTypeOK'
    BY <1>2, <1>3 DEF RemoteIInv, RemoteTypeOK, Door
  <1>5. \A e \in Doors : OnItsWay(e)'
    BY <1>1, <1>3 DEF RemoteIInv, OnItsWay
  <1>6. ASSUME calm
        PROVE  /\ \A e \in Doors : door'[e].at = "idle"
               /\ \A s \in Listeners :
                      flag'[s] = IF Switched(d, s) THEN wish.what = "on" ELSE flag[s]
    <2>1. \A e \in Doors : door'[e].at = "idle"
      BY <1>1, <1>3, <1>6
    <2>2. door[d].copy = flag /\ flag \in [Listeners -> BOOLEAN]
      BY <1>1, <1>6 DEF RemoteIInv, RemoteTypeOK, CopiesAreFlags
    <2>3. ASSUME NEW s \in Listeners, Switched(d, s) PROVE flag'[s] = (wish.what = "on")
      <3>1. door[d].at = "ok" /\ wish.on = s
        BY <2>3 DEF Switched
      <3>2. CASE flag[s] # (wish.what = "on")
        BY <3>1, <3>2, <2>2, <1>2
      <3>3. CASE flag[s] = (wish.what = "on")
        BY <3>1, <3>3, <2>2, <1>2
      <3> QED
        BY <3>2, <3>3
    <2>4. ASSUME NEW s \in Listeners, ~Switched(d, s) PROVE flag'[s] = flag[s]
      BY <2>2, <2>4, <1>2 DEF Switched
    <2> QED
      BY <2>1, <2>3, <2>4
  <1>7. ASSUME calm PROVE OneAtATime' /\ CopiesAreFlags' /\ ListenersAreNoted'
    <2>1. \A e \in Doors, s \in Listeners : ~Switched(e, s)' /\ (Switched(e, s) => e = d)
      BY <1>1, <1>3, <1>6, <1>7 DEF Switched
    <2>2. ListenersAreNoted'
      BY <2>1, <1>2, <1>6, <1>7 DEF RemoteIInv, ListenersAreNoted
    <2> QED
      BY <2>2, <1>3, <1>6, <1>7 DEF CopiesAreFlags
  <1>8. ASSUME calm', counts'.faults = 0, counts'.upheavals = 0 PROVE KeysAreWritten'
    <2>1. calm /\ KeysAreWritten
      BY <1>2, <1>8 DEF RemoteIInv
    <2>2. door[d].at = "ok" /\ \A e \in Doors : ~Owes(e) /\ ~Owes(e)'
      BY <2>1, <1>1, <1>3 DEF KeysAreWritten, Owes
    <2>3. flag'["ssh"] => inside.authorized = sshKeys
      <3>1. flag["ssh"] => inside.authorized = sshKeys
        BY <2>1, <2>2 DEF KeysAreWritten
      <3>2. wish.what = "on" /\ wish.on = "ssh" => inside.authorized = sshKeys
        BY <2>1, <2>2 DEF KeysAreWritten, Authorizes
      <3>3. "ssh" \in Listeners
        BY DEF Listeners
      <3> QED
        BY <3>1, <3>2, <3>3, <2>1, <1>6 DEF Switched
    <2> QED
      BY <2>1, <2>2, <2>3, <1>2, <1>6 DEF KeysAreWritten
  <1> QED
    BY <1>2, <1>4, <1>5, <1>7, <1>8 DEF RemoteIInv

-----------------------------------------------------------------------------
\* A call that fails half-way or loses its answer ends the calm, or is a fault, or finds
\* the machine off; the flags and the listeners are as they were.
LEMMA FailureInv ==
    ASSUME RemoteIInv, NEW d \in Doors, door[d].at \in {"call", "listen"},
           UNCHANGED <<flag, sshKeys, up>>,
           \/ Fails(d) /\ UNCHANGED inside
           \/ FailsAfterAll(d) /\ inside' \in [listens : SUBSET Listeners,
                                                authorized : SUBSET PublicKeys,
                                                linked : SUBSET Clients]
    PROVE  RemoteIInv'
  <1> DEFINE new == [door[d] EXCEPT !.at = "failed"]
  <1>1. door[d] \in Door /\ new \in Door /\ new.at = "failed" /\ new.copy = door[d].copy
    BY DEF RemoteIInv, RemoteTypeOK, Door
  <1>2. Becomes(d, new)
    BY DEF Fails, FailsAfterAll, At
  <1>3. /\ \A e \in Doors : door'[e] = IF e = d THEN new ELSE door[e]
        /\ door' \in [Doors -> Door]
        /\ calm => OneAtATime' /\ \A e \in Doors \ {d} : door[e].at = "idle"
    BY <1>1, <1>2, OneDoor
  <1>4. /\ calm' => calm /\ UNCHANGED inside
        /\ calm' /\ counts'.faults = 0 => ~up /\ counts' = counts
        /\ calm' \in BOOLEAN
    <2>1. counts \in [calls : 0..MaxDoorCalls, upheavals : 0..MaxUpheavals, faults : 0..MaxDoorFaults]
          /\ calm \in BOOLEAN
      BY DEF RemoteIInv, RemoteTypeOK
    <2>2. CASE Fails(d) /\ UNCHANGED inside
      BY <2>1, <2>2, RemoteAssumption DEF Fails
    <2>3. CASE FailsAfterAll(d)
      BY <2>3 DEF FailsAfterAll
    <2> QED
      BY <2>2, <2>3
  <1>5. counts' \in [calls : 0..MaxDoorCalls, upheavals : 0..MaxUpheavals, faults : 0..MaxDoorFaults]
    BY RemoteAssumption DEF Fails, FailsAfterAll, RemoteIInv, RemoteTypeOK
  <1>6. RemoteTypeOK'
    BY <1>3, <1>4, <1>5 DEF RemoteIInv, RemoteTypeOK, Door, Fails
  <1>7. \A e \in Doors : OnItsWay(e)'
    BY <1>1, <1>3 DEF RemoteIInv, OnItsWay
  <1>8. ASSUME calm' PROVE CopiesAreFlags' /\ ListenersAreNoted'
    <2>1. CopiesAreFlags'
      BY <1>1, <1>3, <1>4, <1>8 DEF RemoteIInv, CopiesAreFlags
    <2>2. \A e \in Doors, s \in Listeners : ~Switched(e, s)' /\ ~Switched(e, s)
      BY <1>1, <1>3, <1>4, <1>8 DEF Switched
    <2>3. ListenersAreNoted'
      BY <2>2, <1>4, <1>8 DEF RemoteIInv, ListenersAreNoted
    <2> QED
      BY <2>1, <2>3
  <1>9. ~(calm' /\ counts'.faults = 0 /\ counts'.upheavals = 0)
    BY <1>4 DEF RemoteIInv, KeysAreWritten
  <1> QED
    BY <1>3, <1>4, <1>6, <1>7, <1>8, <1>9 DEF RemoteIInv

\* A call that is served, as its own request sees it.
LEMMA ServedInv ==
    ASSUME RemoteIInv, NEW d \in Doors, door[d].at \in {"call", "listen"}, NEW effect, NEW at,
           UNCHANGED <<flag, sshKeys, up>>, Does(d, effect, at),
           effect \in [listens : SUBSET Listeners, authorized : SUBSET PublicKeys,
                       linked : SUBSET Clients],
           at \in {"listen", "ok"}, at = "listen" => door[d].at = "call" /\ Authorizes(door[d].wish),
           \A s \in Listeners :
               IF at = "ok" /\ door[d].wish.on = s
               THEN s \in effect.listens <=> door[d].wish.what = "on"
               ELSE /\ s \in inside.listens => s \in effect.listens
                    /\ s \in effect.listens =>
                           s \in inside.listens \/ (OfAKey(door[d].wish) /\ s = "ssh" /\ door[d].at = "listen"),
           effect.authorized = IF door[d].at = "call" /\ Authorizes(door[d].wish)
                               THEN door[d].body ELSE inside.authorized
    PROVE  RemoteIInv'
  <1> DEFINE new == [door[d] EXCEPT !.at = at]
  <1>1. CASE \/ Fails(d) /\ UNCHANGED inside
             \/ FailsAfterAll(d) /\ inside' = effect
    BY <1>1, FailureInv
  <1>2. CASE up /\ inside' = effect /\ At(d, at) /\ UNCHANGED <<calm, counts>>
    <2>1. /\ door[d] \in Door /\ new \in Door /\ Becomes(d, new) /\ new.at = at
          /\ new.wish = door[d].wish /\ new.copy = door[d].copy /\ door[d].wish \in Wishes
      BY <1>2 DEF RemoteIInv, RemoteTypeOK, Door, At
    <2>2. /\ \A e \in Doors : door'[e] = IF e = d THEN new ELSE door[e]
          /\ door' \in [Doors -> Door]
          /\ calm => OneAtATime' /\ \A e \in Doors \ {d} : door[e].at = "idle"
      BY <2>1, OneDoor
    <2>3. RemoteTypeOK'
      BY <1>2, <2>2 DEF RemoteIInv, RemoteTypeOK, Door
    <2>4. \A e \in Doors : OnItsWay(e)'
      BY <2>1, <2>2 DEF RemoteIInv, OnItsWay
    <2>5. ASSUME calm PROVE CopiesAreFlags' /\ ListenersAreNoted'
      <3>1. CopiesAreFlags'
        BY <1>2, <2>1, <2>2, <2>5 DEF RemoteIInv, CopiesAreFlags
      <3>2. \A e \in Doors, s \in Listeners :
                ~Switched(e, s) /\ (Switched(e, s)' <=> e = d /\ at = "ok" /\ door[d].wish.on = s)
        BY <2>1, <2>2, <2>5 DEF Switched
      <3>3. \A s \in Listeners : flag[s] <=> s \in inside.listens
        BY <3>2, <2>5 DEF RemoteIInv, ListenersAreNoted
      <3>4. OfAKey(door[d].wish) /\ door[d].at = "listen" => flag["ssh"]
        BY <2>5 DEF RemoteIInv, OnItsWay, CopiesAreFlags
      <3>5. ASSUME NEW s \in Listeners, at = "ok", door[d].wish.on = s
            PROVE  s \in inside'.listens <=> door[d].wish.what = "on"
        BY <3>5, <1>2
      <3>6. ASSUME NEW s \in Listeners, ~(at = "ok" /\ door[d].wish.on = s)
            PROVE  flag[s] <=> s \in inside'.listens
        BY <3>6, <3>3, <3>4, <1>2
      <3>7. door'[d].wish = door[d].wish
        BY <2>1, <2>2
      <3>8. ListenersAreNoted'
        BY <3>2, <3>5, <3>6, <3>7 DEF ListenersAreNoted
      <3> QED
        BY <3>1, <3>8
    <2>6. ASSUME calm, counts.faults = 0, counts.upheavals = 0 PROVE KeysAreWritten'
      <3>1. KeysAreWritten
        BY <2>6 DEF RemoteIInv
      <3>2. \A e \in Doors \ {d} : door[e].at = "idle" /\ door'[e].at = "idle"
        BY <2>2, <2>6
      <3>3. /\ door'[d].at = at /\ door'[d].wish = door[d].wish
            /\ \A e \in Doors : ~Owes(e)'
        BY <3>2, <2>1, <2>2 DEF Owes
      <3>4. CASE Authorizes(door[d].wish)
        <4>1. inside'.authorized = sshKeys
          BY <3>1, <3>4, <1>2 DEF KeysAreWritten
        <4> QED
          BY <3>1, <3>2, <3>3, <4>1, <1>2 DEF KeysAreWritten
      <3>5. CASE ~Authorizes(door[d].wish)
        <4>1. inside'.authorized = inside.authorized
          BY <3>5, <1>2
        <4>2. \A e \in Doors : ~Owes(e)
          BY <3>2, <3>5 DEF Owes, Authorizes
        <4>3. flag["ssh"] => inside.authorized = sshKeys
          BY <4>2, <3>1 DEF KeysAreWritten
        <4> QED
          BY <3>1, <3>2, <3>3, <3>5, <4>1, <4>3, <1>2 DEF KeysAreWritten
      <3> QED
        BY <3>4, <3>5
    <2> QED
      BY <1>2, <2>2, <2>3, <2>4, <2>5, <2>6 DEF RemoteIInv
  <1> QED
    BY <1>1, <1>2 DEF Does

LEMMA CallsInv ==
    ASSUME RemoteIInv, NEW d \in Doors,
           service_ssh(d) \/ service_rdp(d) \/ _verb_ai_codex(d) \/ _verb_ai_claude(d)
    PROVE  RemoteIInv'
  <1> DEFINE wish == door[d].wish
             Inside == [listens : SUBSET Listeners, authorized : SUBSET PublicKeys,
                        linked : SUBSET Clients]
  <1>1. wish \in Wishes /\ inside \in Inside /\ door[d].body \subseteq PublicKeys
    BY DEF RemoteIInv, RemoteTypeOK
  <1>2. /\ OfAKey(wish) <=> wish.on \in PublicKeys
        /\ wish.on \in Listeners <=> wish.what \in {"on", "off"}
        /\ wish.on \in {"codex", "claude"} => wish.what \notin {"on", "off", "add", "remove"}
        /\ "ssh" \in Listeners /\ "rdp" \in Listeners
        /\ PublicKeys \cap {"ssh", "rdp", "codex", "claude"} = {}
    BY <1>1, WishShapes, RemoteAssumption DEF Listeners
  <1>3. CASE service_ssh(d)
    <2>0. UNCHANGED <<flag, sshKeys, up>> /\ (OfAKey(wish) \/ wish.on = "ssh")
      BY <1>3 DEF service_ssh, OfAKey
    <2>1. CASE door[d].at = "call" /\ wish.what # "off"
               /\ Does(d, [inside EXCEPT !.authorized = door[d].body], "listen")
      <3>1. Authorizes(wish)
        BY <2>0, <2>1, <1>2 DEF Authorizes
      <3>2. [inside EXCEPT !.authorized = door[d].body] \in Inside
        BY <1>1
      <3>3. /\ [inside EXCEPT !.authorized = door[d].body].authorized = door[d].body
            /\ [inside EXCEPT !.authorized = door[d].body].listens = inside.listens
        BY <1>1
      <3> QED
        BY <2>0, <2>1, <3>1, <3>2, <3>3, ServedInv
    <2>2. CASE door[d].at = "listen" /\ Does(d, [inside EXCEPT !.listens = @ \cup {"ssh"}], "ok")
      <3> DEFINE effect == [inside EXCEPT !.listens = @ \cup {"ssh"}]
      <3>1. Authorizes(wish)
        BY <2>2 DEF RemoteIInv, OnItsWay
      <3>2. /\ effect \in Inside /\ effect.authorized = inside.authorized
            /\ effect.listens = inside.listens \cup {"ssh"}
        BY <1>1, <1>2
      <3>3. wish.on = "ssh" => wish.what = "on"
        BY <3>1, <1>2 DEF Authorizes
      <3>4. wish.on # "rdp"
        BY <2>0, <1>2
      <3>5. wish.on = "ssh" \/ OfAKey(wish)
        BY <2>0
      <3>6. ASSUME NEW s \in Listeners
            PROVE  IF wish.on = s
                   THEN s \in effect.listens <=> wish.what = "on"
                   ELSE /\ s \in inside.listens => s \in effect.listens
                        /\ s \in effect.listens =>
                               s \in inside.listens \/ (OfAKey(wish) /\ s = "ssh")
        BY <3>2, <3>3, <3>4, <3>5 DEF Listeners
      <3> HIDE DEF effect
      <3>7. Does(d, effect, "ok")
        BY <2>2 DEF effect
      <3> QED
        BY <2>0, <2>2, <3>1, <3>2, <3>6, <3>7, ServedInv
    <2>3. CASE door[d].at = "call" /\ wish.what = "off"
               /\ Does(d, [inside EXCEPT !.listens = @ \ {"ssh"}], "ok")
      <3> DEFINE effect == [inside EXCEPT !.listens = @ \ {"ssh"}]
      <3>1. ~OfAKey(wish) /\ wish.on = "ssh" /\ ~Authorizes(wish)
        BY <2>0, <2>3 DEF OfAKey, Authorizes
      <3>2. /\ effect \in Inside /\ effect.authorized = inside.authorized
            /\ effect.listens = inside.listens \ {"ssh"}
        BY <1>1, <1>2
      <3> HIDE DEF effect
      <3>3. Does(d, effect, "ok")
        BY <2>3 DEF effect
      <3> QED
        BY <2>0, <2>3, <3>1, <3>2, <3>3, ServedInv
    <2> QED
      BY <1>3, <2>1, <2>2, <2>3 DEF service_ssh
  <1>4. CASE service_rdp(d)
    <2> DEFINE effect == [inside EXCEPT !.listens =
                             IF wish.what = "on" THEN @ \cup {"rdp"} ELSE @ \ {"rdp"}]
    <2>1. /\ UNCHANGED <<flag, sshKeys, up>> /\ door[d].at = "call" /\ wish.on = "rdp"
          /\ Does(d, effect, "ok")
      BY <1>4 DEF service_rdp
    <2>2. /\ effect \in Inside /\ effect.authorized = inside.authorized
          /\ \A s \in Listeners :
                 IF s = "rdp" THEN s \in effect.listens <=> wish.what = "on"
                 ELSE s \in effect.listens <=> s \in inside.listens
      BY <1>1, <1>2
    <2>3. ~Authorizes(wish)
      BY <2>1, <1>2 DEF Authorizes
    <2> HIDE DEF effect
    <2> QED
      BY <2>1, <2>2, <2>3, ServedInv
  <1>5. CASE _verb_ai_codex(d) \/ _verb_ai_claude(d)
    <2> PICK client \in {"codex", "claude"} : Links(d, client)
      BY <1>5 DEF _verb_ai_codex, _verb_ai_claude
    <2> DEFINE effect == [inside EXCEPT !.linked =
                             IF wish.what = "install" THEN @ \cup {client} ELSE @ \ {client}]
    <2>1. /\ UNCHANGED <<flag, sshKeys, up>> /\ door[d].at = "call" /\ wish.on = client
          /\ Does(d, effect, "ok")
      BY DEF Links
    <2>2. /\ effect.authorized = inside.authorized /\ effect.listens = inside.listens
          /\ effect \in Inside
      BY <1>1, <2>1 DEF Wishes
    <2>3. ~Authorizes(wish) /\ wish.on \notin Listeners
      BY <2>1, <1>2 DEF Authorizes, OfAKey, Listeners
    <2> HIDE DEF effect
    <2> QED
      BY <2>1, <2>2, <2>3, ServedInv
  <1> QED
    BY <1>3, <1>4, <1>5

\* The machine changes under nobody's request, or the calm is over.
LEMMA UpheavalInv == ASSUME RemoteIInv, PowerCycles \/ Resets PROVE RemoteIInv'
  <1>1. /\ counts' = [counts EXCEPT !.upheavals = @ + 1] /\ counts.upheavals < MaxUpheavals
        /\ calm' = (calm /\ Quietness) /\ UNCHANGED <<sshKeys, door>>
    BY DEF PowerCycles, Resets, Upheaval
  <1>2. /\ up' \in BOOLEAN
        /\ \/ UNCHANGED <<flag, inside>>
           \/ flag' = NoFlags /\ inside' = Empty
    BY DEF PowerCycles, Resets, RemoteIInv, RemoteTypeOK
  <1>3. RemoteTypeOK'
    <2>1. /\ counts' \in [calls : 0..MaxDoorCalls, upheavals : 0..MaxUpheavals, faults : 0..MaxDoorFaults]
          /\ calm' \in BOOLEAN
      BY <1>1, RemoteAssumption DEF RemoteIInv, RemoteTypeOK, Quietness
    <2>2. /\ flag' \in [Listeners -> BOOLEAN]
          /\ inside' \in [listens : SUBSET Listeners, authorized : SUBSET PublicKeys,
                         linked : SUBSET Clients]
      <3>1. NoFlags \in [Listeners -> BOOLEAN]
        BY DEF NoFlags
      <3>2. Empty \in [listens : SUBSET Listeners, authorized : SUBSET PublicKeys,
                       linked : SUBSET Clients]
        BY DEF Empty
      <3> QED
        BY <3>1, <3>2, <1>2 DEF RemoteIInv, RemoteTypeOK
    <2> QED
      BY <1>1, <1>2, <2>1, <2>2 DEF RemoteIInv, RemoteTypeOK
  <1>4. \A d \in Doors : OnItsWay(d)'
    BY <1>1 DEF RemoteIInv, OnItsWay
  <1>5. ASSUME calm' PROVE OneAtATime' /\ CopiesAreFlags' /\ ListenersAreNoted'
    <2>1. calm /\ \A d \in Doors : door[d].at = "idle" /\ door'[d].at = "idle"
      BY <1>1, <1>5 DEF RemoteIInv, RemoteTypeOK, Quietness
    <2>2. \A d \in Doors, s \in Listeners : ~Switched(d, s) /\ ~Switched(d, s)'
      BY <2>1 DEF Switched
    <2>3. ListenersAreNoted'
      BY <2>1, <2>2, <1>2 DEF RemoteIInv, ListenersAreNoted, NoFlags, Empty
    <2> QED
      BY <2>1, <2>3 DEF OneAtATime, CopiesAreFlags
  <1>6. counts'.upheavals # 0
    BY <1>1, RemoteAssumption DEF RemoteIInv, RemoteTypeOK
  <1> QED
    BY <1>3, <1>4, <1>5, <1>6 DEF RemoteIInv

LEMMA RemoteNextInv == ASSUME RemoteIInv, [RemoteNext]_remoteVars PROVE RemoteIInv'
  <1>1. CASE UNCHANGED remoteVars
    BY <1>1 DEF remoteVars, RemoteIInv, RemoteTypeOK, OnItsWay, OneAtATime, CopiesAreFlags,
                ListenersAreNoted, Switched, KeysAreWritten, Owes
  <1>2. CASE PowerCycles \/ Resets
    BY <1>2, UpheavalInv
  <1>3. ASSUME NEW d \in Doors,
               \/ \E what \in {"on", "off"} : set_ssh(d, what) \/ set_rdp(d, what)
               \/ \E what \in {"install", "unlink"} : ai_codex(d, what) \/ ai_claude(d, what)
               \/ \E k \in PublicKeys : add_ssh_key(d, k) \/ remove_ssh_key(d, k)
               \/ StoresKey(d) \/ PushesKeys(d) \/ WritesFlag(d)
               \/ service_ssh(d) \/ service_rdp(d)
               \/ _verb_ai_codex(d) \/ _verb_ai_claude(d)
        PROVE  RemoteIInv'
    <2>1. CASE StoresKey(d) \/ PushesKeys(d) \/ WritesFlag(d)
      BY <2>1, StoresKeyInv, PushesKeysInv, WritesFlagInv
    <2>2. CASE service_ssh(d) \/ service_rdp(d) \/ _verb_ai_codex(d) \/ _verb_ai_claude(d)
      BY <2>2, CallsInv
    <2> QED
      BY <1>3, <2>1, <2>2, HandlersAskInv
  <1> QED
    BY <1>1, <1>2, <1>3 DEF RemoteNext

LEMMA TruthAtRest == ASSUME RemoteIInv PROVE SwitchesTellTheTruth
  <1> SUFFICES ASSUME calm, Quietness
               PROVE  /\ \A s \in Listeners : flag[s] <=> s \in inside.listens
                      /\ flag["ssh"] /\ counts.faults = 0 /\ counts.upheavals = 0 =>
                             inside.authorized = sshKeys
    BY DEF SwitchesTellTheTruth
  <1>1. \A d \in Doors : ~Owes(d) /\ \A s \in Listeners : ~Switched(d, s)
    BY DEF Quietness, Owes, Switched
  <1> QED
    BY <1>1 DEF RemoteIInv, ListenersAreNoted, KeysAreWritten

\* Whatever the keys, requests, failing calls, power cycles and resets: a customer who
\* asks for one thing at a time sees the switches of the dashboard show the listeners of
\* the machine, and, as long as no push failed, a list of keys that is what opens it
\* (set_ssh, set_rdp, add_ssh_key, remove_ssh_key and the provisioner's service_ssh).
THEOREM SwitchesAreTrue == RemoteSpec => []SwitchesTellTheTruth
  <1>1. RemoteInit => RemoteIInv
    BY RemoteInitInv
  <1>2. RemoteIInv /\ [RemoteNext]_remoteVars => RemoteIInv'
    BY RemoteNextInv
  <1>3. RemoteIInv => SwitchesTellTheTruth
    BY TruthAtRest
  <1> QED
    BY <1>1, <1>2, <1>3, PTL DEF RemoteSpec
-----------------------------------------------------------------------------
(***************************************************************************)
(* No token of a coding agent is charged twice: for every number of        *)
(* sessions and models and every price list, as long as Codex keeps to one *)
(* model in a session and a deleted machine's files are not carried over.  *)
(* The invariant: what is charged beyond a mark, and any count of the same *)
(* tokens that is still about - in the machine, saved by the customer, or  *)
(* read by a pass - make no more than what was used.                       *)
(***************************************************************************)

Marks == [Services -> [Sessions -> [Models -> Nat \cup {NoMark}]]]
Kept == [Services -> [Sessions -> File]]

MeterType ==
    /\ files \in Kept /\ saved \in Kept
    /\ used \in Tokens /\ charged \in Tokens /\ marks \in Marks
    /\ \/ wk = Idle \/ wk \in [pc : {"scan"}, v : Services]
       \/ wk \in [pc : {"meter"}, v : Services, report : [Sessions -> [Models -> Nat]]]

\* x more tokens than are marked could be charged of this key.
Fits(v, s, m, x) == charged[v][s][m] - Marked(v, s, m) + x <= used[v][s][m]

FilesFit(kept) ==
    \A v \in Services, s \in Sessions, m \in Models : Fits(v, s, m, kept[v][s].tokens[m])

\* The running total of a Codex session is that of its one model.
OneModel(kept) ==
    \A s \in Sessions : LET f == kept["codex"][s] IN
        /\ f.last = NoModel => f.total = 0
        /\ \A m \in Models : f.last = m => f.total <= f.tokens[m]

ReportFits ==
    wk.pc = "meter" => \A s \in Sessions, m \in Models : Fits(wk.v, s, m, wk.report[s][m])

PaidOnce == \A v \in Services, s \in Sessions, m \in Models : charged[v][s][m] <= used[v][s][m]

MeterIInv ==
    /\ MeterType
    /\ FilesFit(files) /\ FilesFit(saved)
    /\ OneModel(files) /\ OneModel(saved)
    /\ ReportFits /\ PaidOnce

\* A Codex session keeps its model; a new machine starts with no old files.
Steady == Switchers \subseteq {"claude"} /\ ~CarryOver

-----------------------------------------------------------------------------
\* The greatest of two numbers.
LEMMA MaxOfTwo ==
    ASSUME NEW a \in Int, NEW b \in Int
    PROVE  Max({a, b}) = IF a >= b THEN a ELSE b
  <1>1. \E x \in {a, b} : \A y \in {a, b} : x >= y
    OBVIOUS
  <1>2. /\ Max({a, b}) \in {a, b}
        /\ \A y \in {a, b} : Max({a, b}) >= y
    BY <1>1 DEF Max
  <1> QED
    BY <1>2

\* No files hold no tokens.
LEMMA NoFilesHoldNothing ==
    /\ NoFiles \in Kept /\ OneModel(NoFiles)
    /\ \A v \in Services, s \in Sessions, m \in Models : NoFiles[v][s].tokens[m] = 0
  <1>1. NoModel \notin Models
    BY AiMeterAssumption
  <1> QED
    BY <1>1 DEF NoFiles, Kept, File, NoTokens, OneModel, Services

\* The types of one key's counts.
LEMMA KeyTypes ==
    ASSUME MeterType, NEW v \in Services, NEW s \in Sessions, NEW m \in Models
    PROVE  /\ charged[v][s][m] \in Nat /\ used[v][s][m] \in Nat
           /\ marks[v][s][m] \in Nat \cup {NoMark} /\ Marked(v, s, m) \in Nat
           /\ files[v][s].tokens[m] \in Nat /\ saved[v][s].tokens[m] \in Nat
           /\ files[v][s].total \in Nat
  BY DEF MeterType, Tokens, Marks, Kept, File, Marked, NoMark

\* A key of which nothing is charged beyond its mark, or little enough, fits none.
LEMMA FitsNothing ==
    ASSUME MeterIInv, NEW v \in Services, NEW s \in Sessions, NEW m \in Models
    PROVE  Fits(v, s, m, 0)
  <1>1. Fits(v, s, m, files[v][s].tokens[m])
    BY DEF MeterIInv, FilesFit
  <1> QED
    BY <1>1, KeyTypes DEF MeterIInv, Fits

-----------------------------------------------------------------------------
\* Initially nothing is used and nothing charged.
LEMMA MeterInit == Init => MeterIInv
  <1> SUFFICES ASSUME Init PROVE MeterIInv
    OBVIOUS
  <1>1. /\ files = NoFiles /\ saved = NoFiles /\ charged = used /\ wk = Idle
        /\ used = [v \in Services |-> [s \in Sessions |-> NoTokens]]
        /\ marks = [v \in Services |-> [s \in Sessions |-> [m \in Models |-> NoMark]]]
    BY DEF Init
  <1>2. MeterType
    BY <1>1, NoFilesHoldNothing DEF MeterType, Tokens, Marks, NoTokens
  <1>3. \A v \in Services, s \in Sessions, m \in Models :
          charged[v][s][m] = 0 /\ used[v][s][m] = 0 /\ Marked(v, s, m) = 0
    BY <1>1 DEF NoTokens, Marked
  <1>4. FilesFit(files) /\ FilesFit(saved) /\ PaidOnce
    BY <1>1, <1>3, NoFilesHoldNothing DEF FilesFit, Fits, PaidOnce
  <1> QED
    BY <1>1, <1>2, <1>4, NoFilesHoldNothing DEF MeterIInv, ReportFits, Idle

\* A step that counts, charges and marks nothing, and keeps or drops counts.
LEMMA CountsStay ==
    ASSUME MeterIInv, UNCHANGED <<used, charged, marks>>,
           files' \in {files, saved, NoFiles}, saved' \in {files, saved, NoFiles},
           wk' = wk \/ wk' = Idle \/ wk' \in [pc : {"scan"}, v : Services]
    PROVE  MeterIInv'
  <1>1. \A kept \in {files, saved, NoFiles} :
          /\ kept \in Kept /\ OneModel(kept)
          /\ \A v \in Services, s \in Sessions, m \in Models :
               Fits(v, s, m, kept[v][s].tokens[m])
    BY FitsNothing, NoFilesHoldNothing DEF MeterIInv, MeterType, FilesFit
  <1>2. MeterType'
    BY <1>1 DEF MeterIInv, MeterType
  <1>3. FilesFit(files)' /\ FilesFit(saved)'
    BY <1>1 DEF FilesFit, Fits, Marked
  <1>4. OneModel(files)' /\ OneModel(saved)'
    BY <1>1 DEF OneModel
  <1>5. ReportFits'
    BY DEF MeterIInv, ReportFits, Fits, Marked, Idle
  <1>6. PaidOnce'
    BY DEF MeterIInv, PaidOnce
  <1> QED
    BY <1>2, <1>3, <1>4, <1>5, <1>6 DEF MeterIInv

\* A response adds one token to what is used, and to one count of it.
LEMMA UseKeepsMeter ==
    ASSUME Steady, MeterIInv, NEW v \in Services, NEW s \in Sessions, NEW m \in Models, Use(v, s, m)
    PROVE  MeterIInv'
  <1> DEFINE old == files[v][s]
             new == Longer(old, m)
  <1>1. /\ files' = [files EXCEPT ![v][s] = new]
        /\ used' = [used EXCEPT ![v][s][m] = @ + 1]
        /\ UNCHANGED <<saved, marks, charged, wk>>
        /\ v = "codex" => files[v][s].last \in {NoModel, m}
    <2>1. files' = [files EXCEPT ![v][s] = new]
      BY DEF Use
    <2>2. v = "codex" => files[v][s].last \in {NoModel, m}
      BY DEF Use, Steady
    <2>3. used' = [used EXCEPT ![v][s][m] = @ + 1] /\ UNCHANGED <<saved, marks, charged, wk>>
      BY DEF Use
    <2> QED
      BY <2>1, <2>2, <2>3
  <1>2. MeterType
    BY DEF MeterIInv
  <1>new. /\ new \in File /\ new.last = m
        /\ old.total \in Nat /\ new.total = old.total + 1
        /\ \A n \in Models : /\ old.tokens[n] \in Nat
                             /\ new.tokens[n] = old.tokens[n] + (IF n = m THEN 1 ELSE 0)
    <2>1. old.tokens \in [Models -> Nat] /\ old.total \in Nat
      BY <1>2 DEF MeterType, Kept, File
    <2>2. [old.tokens EXCEPT ![m] = @ + 1] \in [Models -> Nat]
      BY <2>1
    <2> QED
      BY <2>1, <2>2 DEF File, Longer
  <1> HIDE DEF new
  <1>rest. ASSUME NEW w \in Services, NEW r \in Sessions
        PROVE  files'[w][r] = IF w = v /\ r = s THEN new ELSE files[w][r]
    BY <1>1, <1>2 DEF MeterType, Kept
  <1>3. MeterType'
    <2>1. files' \in Kept
      BY <1>1, <1>2, <1>new DEF MeterType, Kept
    <2>2. used' \in Tokens
      BY <1>1, <1>2 DEF MeterType, Tokens
    <2> QED
      BY <1>1, <1>2, <2>1, <2>2 DEF MeterType
  <1>4. ASSUME NEW w \in Services, NEW r \in Sessions, NEW n \in Models
        PROVE  /\ used'[w][r][n] = used[w][r][n] + (IF <<w, r, n>> = <<v, s, m>> THEN 1 ELSE 0)
               /\ files'[w][r].tokens[n] = files[w][r].tokens[n]
                                           + (IF <<w, r, n>> = <<v, s, m>> THEN 1 ELSE 0)
               /\ Marked(w, r, n)' = Marked(w, r, n) /\ charged'[w][r][n] = charged[w][r][n]
    <2>1. used[w][r][n] \in Nat /\ files[w][r].tokens[n] \in Nat
      BY <1>2, KeyTypes
    <2>2. used'[w][r][n] = used[w][r][n] + (IF <<w, r, n>> = <<v, s, m>> THEN 1 ELSE 0)
      BY <1>1, <1>2, <2>1 DEF MeterType, Tokens
    <2>3. files'[w][r].tokens[n] = files[w][r].tokens[n]
                                   + (IF <<w, r, n>> = <<v, s, m>> THEN 1 ELSE 0)
      BY <1>new, <1>rest, <2>1
    <2> QED
      BY <1>1, <2>2, <2>3 DEF Marked
  <1>5. FilesFit(files)'
    BY <1>2, <1>4, KeyTypes DEF MeterIInv, FilesFit, Fits
  <1>6. FilesFit(saved)'
    BY <1>1, <1>2, <1>4, KeyTypes DEF MeterIInv, FilesFit, Fits
  <1>7. OneModel(files)'
    <2>0. NoModel \notin Models
      BY AiMeterAssumption
    <2>1. CASE v = "codex"
      <3>1. old.total <= old.tokens[m]
        BY <1>1, <1>new, <2>1 DEF MeterIInv, OneModel
      <3>2. new.last = m /\ new.total <= new.tokens[m]
        BY <1>new, <3>1
      <3> QED
        BY <1>rest, <2>0, <2>1, <3>2 DEF MeterIInv, OneModel, Services
    <2>2. CASE v # "codex"
      <3>1. files'["codex"] = files["codex"]
        BY <1>1, <1>2, <2>2 DEF MeterType, Kept, Services
      <3> QED
        BY <3>1 DEF MeterIInv, OneModel
    <2> QED
      BY <2>1, <2>2
  <1>8. OneModel(saved)'
    BY <1>1 DEF MeterIInv, OneModel
  <1>9. ReportFits'
    <2> SUFFICES ASSUME wk.pc = "meter", NEW r \in Sessions, NEW n \in Models
                 PROVE  Fits(wk.v, r, n, wk.report[r][n])'
      BY <1>1 DEF ReportFits
    <2>1. wk.v \in Services /\ wk.report[r][n] \in Nat
      BY <1>2 DEF MeterType, Idle
    <2>2. Fits(wk.v, r, n, wk.report[r][n])
      BY DEF MeterIInv, ReportFits
    <2> QED
      BY <1>1, <1>2, <1>4, <2>1, <2>2, KeyTypes DEF Fits
  <1>10. PaidOnce'
    BY <1>2, <1>4, KeyTypes DEF MeterIInv, PaidOnce
  <1> QED
    BY <1>3, <1>5, <1>6, <1>7, <1>8, <1>9, <1>10 DEF MeterIInv

\* What the scanner reports of a service is no more than its files hold.
LEMMA ReportIsHeld ==
    ASSUME MeterIInv, NEW v \in Services, NEW s \in Sessions, NEW m \in Models
    PROVE  Report(v)[s][m] \in Nat /\ Report(v)[s][m] <= files[v][s].tokens[m]
  <1>1. MeterType /\ OneModel(files)
    BY DEF MeterIInv
  <1>2. CASE v = "claude"
    BY <1>1, <1>2, KeyTypes DEF Report
  <1>3. CASE v = "codex"
    BY <1>1, <1>3, KeyTypes DEF Report, OneModel
  <1> QED
    BY <1>2, <1>3 DEF Services

\* A scan reports counts that fit.
LEMMA ScanKeepsMeter == MeterIInv /\ Scan => MeterIInv'
  <1> SUFFICES ASSUME MeterIInv, Scan PROVE MeterIInv'
    OBVIOUS
  <1>1. wk.pc = "scan" /\ UNCHANGED <<files, saved, used, marks, charged>> /\ MeterType
    BY DEF Scan, MeterIInv
  <1>2. wk.v \in Services
    BY <1>1 DEF MeterType, Idle
  <1>3. CASE wk' = [pc |-> "meter", v |-> wk.v, report |-> Report(wk.v)]
    <2>1. Report(wk.v) \in [Sessions -> [Models -> Nat]]
      <3>1. Report(wk.v) = [s \in Sessions |-> [m \in Models |-> Report(wk.v)[s][m]]]
        BY <1>1, <1>2 DEF Report, MeterType, Kept, File
      <3> QED
        BY <1>2, <3>1, ReportIsHeld
    <2>2. MeterType'
      BY <1>1, <1>2, <1>3, <2>1 DEF MeterType
    <2>3. ReportFits'
      BY <1>1, <1>2, <1>3, ReportIsHeld, KeyTypes DEF MeterIInv, FilesFit, Fits, Marked, ReportFits
    <2> QED
      BY <1>1, <2>2, <2>3 DEF MeterIInv, FilesFit, Fits, Marked, OneModel, PaidOnce
  <1>4. CASE GoOn(wk.v)
    BY <1>1, <1>4, CountsStay DEF GoOn, Services
  <1> QED
    BY <1>3, <1>4 DEF Scan

\* A charge is what the mark moves by.
LEMMA ChargeMovesMark ==
    ASSUME MeterType, NEW v \in Services, NEW s \in Sessions, NEW m \in Models, NEW report,
           report[s][m] \in Nat
    PROVE  LET d == Delta(v, s, m, report)
               raised == Raised(v, s, m, report) IN
           /\ d \in Nat /\ raised \in Nat \cup {NoMark}
           /\ (IF raised = NoMark THEN 0 ELSE raised) = Marked(v, s, m) + d
           /\ d # 0 => Marked(v, s, m) + d = report[s][m]
  <1>1. Marked(v, s, m) \in Nat /\ marks[v][s][m] \in Nat \cup {NoMark}
    BY KeyTypes
  <1>2. /\ Max({0, report[s][m] - Marked(v, s, m)}) =
             IF 0 >= report[s][m] - Marked(v, s, m) THEN 0 ELSE report[s][m] - Marked(v, s, m)
        /\ Max({report[s][m], Marked(v, s, m)}) =
             IF report[s][m] >= Marked(v, s, m) THEN report[s][m] ELSE Marked(v, s, m)
    BY <1>1, MaxOfTwo
  <1>3. CASE Delta(v, s, m, report) = 0
    BY <1>1, <1>3 DEF Raised, Marked
  <1>4. CASE Delta(v, s, m, report) # 0
    <2>1. /\ report[s][m] > Marked(v, s, m)
          /\ Delta(v, s, m, report) = report[s][m] - Marked(v, s, m)
      BY <1>1, <1>2, <1>4 DEF Delta
    <2>2. Raised(v, s, m, report) = report[s][m]
      BY <1>1, <1>2, <1>4, <2>1 DEF Raised
    <2> QED
      BY <1>1, <2>1, <2>2 DEF NoMark
  <1> QED
    BY <1>3, <1>4

\* A pass charges what fits, and its marks leave room for what fitted before.
LEMMA MeterKeepsMeter == MeterIInv /\ Meter => MeterIInv'
  <1> SUFFICES ASSUME MeterIInv, Meter PROVE MeterIInv'
    OBVIOUS
  <1>1. /\ wk.pc = "meter" /\ GoOn(wk.v) /\ UNCHANGED <<files, saved, used>>
        /\ \/ RaiseMarks(wk.v, wk.report) /\ Charge(wk.v, wk.report)
           \/ UNCHANGED <<marks, charged>>
    BY DEF Meter
  <1>2. MeterType /\ wk.v \in Services /\ wk.report \in [Sessions -> [Models -> Nat]]
    BY <1>1 DEF MeterIInv, MeterType, Idle
  <1>3. wk' = Idle \/ wk' \in [pc : {"scan"}, v : Services]
    BY <1>1 DEF GoOn, Services
  <1>4. CASE UNCHANGED <<marks, charged>>
    BY <1>1, <1>3, <1>4, CountsStay
  <1>5. CASE RaiseMarks(wk.v, wk.report) /\ Charge(wk.v, wk.report)
    <2> DEFINE d(s, m) == Delta(wk.v, s, m, wk.report)
               raised(s, m) == Raised(wk.v, s, m, wk.report)
    <2>1. ASSUME NEW s \in Sessions, NEW m \in Models
          PROVE  /\ d(s, m) \in Nat /\ raised(s, m) \in Nat \cup {NoMark}
                 /\ (IF raised(s, m) = NoMark THEN 0 ELSE raised(s, m)) = Marked(wk.v, s, m) + d(s, m)
                 /\ d(s, m) # 0 => Marked(wk.v, s, m) + d(s, m) = wk.report[s][m]
      BY <1>2, ChargeMovesMark
    <2>2. /\ marks' = [marks EXCEPT ![wk.v] = [s \in Sessions |-> [m \in Models |-> raised(s, m)]]]
          /\ charged' = [charged EXCEPT ![wk.v] =
               [s \in Sessions |-> [m \in Models |-> charged[wk.v][s][m] + d(s, m)]]]
      BY <1>5 DEF RaiseMarks, Charge
    <2> HIDE DEF d, raised
    <2>3. ASSUME NEW v \in Services, NEW s \in Sessions, NEW m \in Models
          PROVE  IF v = wk.v
                 THEN marks'[v][s][m] = raised(s, m) /\ charged'[v][s][m] = charged[v][s][m] + d(s, m)
                 ELSE marks'[v][s][m] = marks[v][s][m] /\ charged'[v][s][m] = charged[v][s][m]
      BY <1>2, <2>2 DEF MeterType, Marks, Tokens
    <2>4. ASSUME NEW v \in Services, NEW s \in Sessions, NEW m \in Models
          PROVE  charged'[v][s][m] - Marked(v, s, m)' = charged[v][s][m] - Marked(v, s, m)
      <3>1. charged[v][s][m] \in Nat /\ Marked(v, s, m) \in Nat
        BY <1>2, KeyTypes
      <3>2. CASE v = wk.v
        BY <2>1, <2>3, <3>1, <3>2 DEF Marked
      <3>3. CASE v # wk.v
        BY <2>3, <3>3 DEF Marked
      <3> QED
        BY <3>2, <3>3
    <2>5. MeterType'
      <3>1. charged' \in Tokens
        <4>1. [s \in Sessions |-> [m \in Models |-> charged[wk.v][s][m] + d(s, m)]]
                \in [Sessions -> [Models -> Nat]]
          BY <1>2, <2>1, KeyTypes
        <4> QED
          BY <1>2, <2>2, <4>1 DEF MeterType, Tokens
      <3>2. marks' \in Marks
        <4>1. [s \in Sessions |-> [m \in Models |-> raised(s, m)]]
                \in [Sessions -> [Models -> Nat \cup {NoMark}]]
          BY <2>1
        <4> QED
          BY <1>2, <2>2, <4>1 DEF MeterType, Marks
      <3> QED
        BY <1>1, <1>2, <1>3, <3>1, <3>2 DEF MeterType
    <2>6. FilesFit(files)' /\ FilesFit(saved)'
      BY <1>1, <2>4 DEF MeterIInv, FilesFit, Fits
    <2>7. PaidOnce'
      <3> SUFFICES ASSUME NEW v \in Services, NEW s \in Sessions, NEW m \in Models
                   PROVE  charged'[v][s][m] <= used[v][s][m]
        BY <1>1 DEF PaidOnce
      <3>1. /\ charged[v][s][m] \in Nat /\ Marked(v, s, m) \in Nat /\ used[v][s][m] \in Nat
            /\ charged[v][s][m] <= used[v][s][m]
        BY <1>2, KeyTypes DEF MeterIInv, PaidOnce
      <3>2. CASE v = wk.v /\ d(s, m) # 0
        <4>1. Fits(v, s, m, wk.report[s][m])
          BY <1>1, <3>2 DEF MeterIInv, ReportFits
        <4> QED
          BY <2>1, <2>3, <3>1, <3>2, <4>1 DEF Fits
      <3>3. CASE ~(v = wk.v /\ d(s, m) # 0)
        BY <2>3, <3>1, <3>3
      <3> QED
        BY <3>2, <3>3
    <2>8. ReportFits'
      BY <1>3 DEF ReportFits, Idle
    <2>9. OneModel(files)' /\ OneModel(saved)'
      BY <1>1 DEF MeterIInv, OneModel
    <2> QED
      BY <2>5, <2>6, <2>7, <2>8, <2>9 DEF MeterIInv
  <1> QED
    BY <1>1, <1>4, <1>5

\* A machine is deleted with its marks and its files: nothing is left to count.
LEMMA DeleteKeepsMeter == Steady /\ MeterIInv /\ Delete => MeterIInv'
  <1> SUFFICES ASSUME Steady, MeterIInv, Delete PROVE MeterIInv'
    OBVIOUS
  <1>1. /\ files' = NoFiles /\ saved' = NoFiles /\ wk = Idle /\ UNCHANGED <<used, charged, wk>>
        /\ marks' = [v \in Services |-> [s \in Sessions |-> [m \in Models |-> NoMark]]]
    BY DEF Delete, Steady
  <1>2. MeterType'
    BY <1>1, NoFilesHoldNothing DEF MeterIInv, MeterType, Marks
  <1>3. \A v \in Services, s \in Sessions, m \in Models : Marked(v, s, m)' = 0
    BY <1>1 DEF Marked
  <1>4. FilesFit(files)' /\ FilesFit(saved)'
    BY <1>1, <1>3, NoFilesHoldNothing, KeyTypes DEF FilesFit, Fits, MeterIInv, PaidOnce
  <1>5. OneModel(files)' /\ OneModel(saved)'
    BY <1>1, NoFilesHoldNothing DEF OneModel
  <1> QED
    BY <1>1, <1>2, <1>4, <1>5 DEF MeterIInv, ReportFits, PaidOnce, Idle

\* Every step keeps the invariant.
LEMMA MeterStep == Steady /\ MeterIInv /\ [Next]_vars => MeterIInv'
  <1> SUFFICES ASSUME Steady, MeterIInv, [Next]_vars PROVE MeterIInv'
    OBVIOUS
  <1>1. CASE \E v \in Services, m \in Models : SetPrice(v, m)
    BY <1>1, CountsStay DEF SetPrice
  <1>2. CASE Power \/ Reset \/ PutBack \/ Begin \/ WorkerDies \/ NextBucket \/ UNCHANGED vars
    <2>1. Begin => wk' \in [pc : {"scan"}, v : Services]
      BY DEF Begin, Services
    <2> QED
      BY <1>2, <2>1, CountsStay DEF Power, Reset, PutBack, Begin, WorkerDies, NextBucket, vars
  <1> QED
    BY <1>1, <1>2, UseKeepsMeter, ScanKeepsMeter, MeterKeepsMeter, DeleteKeepsMeter DEF Next, Work

\* Nobody pays for a token twice (NeverOvercharged), whatever is reset, put back or
\* priced again, and wherever the worker dies.
THEOREM NoTokenTwice == ASSUME Steady PROVE Spec => []NeverOvercharged
  <1>1. MeterIInv => NeverOvercharged
    BY DEF MeterIInv, PaidOnce, NeverOvercharged, EachKey
  <1>2. MeterIInv /\ [Next]_vars => MeterIInv'
    BY MeterStep
  <1> QED
    BY <1>1, <1>2, MeterInit, PTL DEF Spec
=============================================================================
