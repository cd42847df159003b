------------------------------- MODULE Vhosts -------------------------------
(***************************************************************************)
(* The timer job that publishes customers' names through nginx             *)
(* (host/mmd-vhosts.py).  A pass reads what should exist, obtains          *)
(* certificates for minutes, writes one file per customer, tests, reloads, *)
(* and marks in the database what may be shown as ready.                   *)
(***************************************************************************)
EXTENDS Naturals, FiniteSets

CONSTANTS
    Owners,           \* customers, with at most one machine each
    Addresses,        \* machine addresses; a freed one is given out again
    Wildcards,        \* whether a DNS plugin is configured
    ISSUE_BUDGET,     \* new certificates in a trailing Week
    Week, MaxTime,    \* bound: time, in ticks
    MaxChanges,       \* bound: changes of what should exist
    MaxVhostFaults    \* bound: failed tests and reloads, deaths of the job

ASSUME VhostsAssumption ==
    /\ Wildcards \in BOOLEAN
    /\ {ISSUE_BUDGET, Week, MaxTime, MaxChanges, MaxVhostFaults} \subseteq Nat

VARIABLES
    owned,      \* per customer: the machine's address, tool installed, port published
    taken,      \* customers whose published port something other than nginx holds
    file,       \* NGINX_DIR, one file per customer
    live,       \* what nginx serves
    ready,      \* *_vhost_ready and web_ready
    cert,       \* certificates there are: a customer's wildcard, or its single name's
    issueLog,   \* ISSUE_LOG: when, and for whom
    tried,      \* the issuances there really were
    failure,    \* {key}.fail per certificate: how often, and when last
    job, now, changes, vhostFaults,
    spoilt      \* a reload failed or the job died: its files are taken for done

vhostVars == <<owned, taken, file, live, ready, cert, issueLog, tried, failure, job,
               now, changes, vhostFaults, spoilt>>
world == <<owned, taken, changes>>
certificates == <<cert, issueLog, tried, failure>>
nginx == <<file, live, ready>>

\* A dashboard's name behind a certificate; a published port's, plain HTTP.
Hosts == Owners \X {"tool", "app"}
CertNames == Owners \X {"wildcard", "single"}
Routes == Hosts \X Addresses
Times == 0..MaxTime
BACKOFF == <<1, 2, 3>>  \* in ticks; Python counts the list from 0
Least(a, b) == IF a < b THEN a ELSE b
NothingOwned == [at |-> "none", tool |-> FALSE, app |-> FALSE]
NoJob == [at |-> "idle", wanted |-> {}, todo |-> {}, published |-> {},
          before |-> [c \in Owners |-> {}]]

VhostsTypeOK ==
    /\ owned \in [Owners -> [at : Addresses \cup {"none"}, tool : BOOLEAN, app : BOOLEAN]]
    /\ taken \subseteq Owners /\ file \in [Owners -> SUBSET Routes]
    /\ live \subseteq Routes /\ ready \subseteq Hosts /\ cert \subseteq CertNames
    /\ issueLog \subseteq Times \X CertNames /\ tried \subseteq Times \X CertNames
    /\ failure \in [CertNames -> [n : 0..2, last : Times]]
    /\ job \in [at : {"idle", "certs", "write", "test", "reload", "mark"},
                wanted : SUBSET Routes, todo : SUBSET CertNames, published : SUBSET Hosts,
                before : [Owners -> SUBSET Routes]]
    /\ now \in Times /\ changes \in 0..MaxChanges /\ vhostFaults \in 0..MaxVhostFaults
    /\ spoilt \in BOOLEAN

VhostsInit ==
    /\ owned = [c \in Owners |-> NothingOwned] /\ taken = {}
    /\ file = [c \in Owners |-> {}] /\ live = {} /\ ready = {} /\ cert = {}
    /\ issueLog = {} /\ tried = {}
    /\ failure = [c \in CertNames |-> [n |-> 0, last |-> 0]]
    /\ job = NoJob /\ now = 0 /\ changes = 0 /\ vhostFaults = 0 /\ spoilt = FALSE

-----------------------------------------------------------------------------
(* What customers, the worker and the host do meanwhile *)

\* A machine at a free address, or gone with its ports and services; a service
\* installed or removed; a port published or not.
Changes(c) ==
    /\ changes < MaxChanges /\ changes' = changes + 1
    /\ \/ /\ owned[c].at = "none"
          /\ \E a \in Addresses \ {owned[d].at : d \in Owners} :
               owned' = [owned EXCEPT ![c].at = a]
       \/ owned[c].at # "none" /\ owned' = [owned EXCEPT ![c] = NothingOwned]
       \/ owned[c].at # "none" /\ owned' = [owned EXCEPT ![c].tool = ~@]
       \/ owned[c].at # "none" /\ owned' = [owned EXCEPT ![c].app = ~@]
    /\ UNCHANGED <<taken, nginx, certificates, job, now, vhostFaults, spoilt>>

PortTaken(c) ==
    /\ changes < MaxChanges /\ changes' = changes + 1
    /\ taken' = IF c \in taken THEN taken \ {c} ELSE taken \cup {c}
    /\ UNCHANGED <<owned, nginx, certificates, job, now, vhostFaults, spoilt>>

Tick == now < MaxTime /\ now' = now + 1
        /\ UNCHANGED <<world, nginx, certificates, job, vhostFaults, spoilt>>

-----------------------------------------------------------------------------
(* A pass *)

\* A port in PLATFORM_PORTS or among foreign_listeners is left out.
desired ==
    {<<<<c, "tool">>, owned[c].at>> : c \in {d \in Owners : owned[d].tool}}
    \cup {<<<<c, "app">>, owned[c].at>> : c \in {d \in Owners \ taken : owned[d].app}}

Step(at) == job' = [job EXCEPT !.at = at]

PassStarts ==
    /\ job.at = "idle"
    /\ job' = [NoJob EXCEPT !.at = "certs", !.wanted = desired,
                 !.todo = {<<c, IF Wildcards THEN "wildcard" ELSE "single">> :
                             c \in {d \in Owners : owned[d].tool}},
                 !.published = {r[1] : r \in {x \in desired : x[1][2] = "app"}}]
    /\ UNCHANGED <<world, nginx, certificates, now, vhostFaults, spoilt>>

InWeek(log) == {i \in log : i[1] + Week >= now}
budget_left == ISSUE_BUDGET > Cardinality(InWeek(issueLog))
backoff_ok(c) ==
    failure[c].n = 0 \/ now >= failure[c].last + BACKOFF[Least(failure[c].n + 1, 3)]

\* What came of a certificate; without a wildcard the single name is tried.
Publishes(c, got) ==
    job' = [job EXCEPT !.todo = (@ \ {c}) \cup (IF got THEN {} ELSE {<<c[1], "single">>} \ {c}),
              !.published = IF got THEN @ \cup {<<c[1], "tool">>} ELSE @]

note_failure(c) == failure' = [failure EXCEPT ![c] = [n |-> Least(@.n + 1, 2), last |-> now]]

\* Mutant: only what was obtained is noted.
NoteObtained(c, got) == issueLog' = IF got THEN InWeek(issueLog) \cup {<<now, c>>} ELSE issueLog

\* note_issue: whatever came of it.
note_issue(c, got) == issueLog' = InWeek(issueLog) \cup {<<now, c>>}

\* obtain_wildcard asks for no budget; obtain_single does.
MayIssue(c) == backoff_ok(c) /\ (c[2] = "wildcard" \/ budget_left)

Has(c) ==
    /\ job.at = "certs" /\ c \in job.todo /\ c \in cert
    /\ Publishes(c, TRUE)
    /\ UNCHANGED <<world, nginx, certificates, now, vhostFaults, spoilt>>

Defers(c) ==
    /\ job.at = "certs" /\ c \in job.todo \ cert /\ ~MayIssue(c)
    /\ Publishes(c, FALSE)
    /\ UNCHANGED <<world, nginx, certificates, now, vhostFaults, spoilt>>

Obtains(c) ==
    /\ job.at = "certs" /\ c \in job.todo \ cert /\ MayIssue(c)
    /\ tried' = InWeek(tried) \cup {<<now, c>>}
    /\ \E got \in BOOLEAN :
         /\ note_issue(c, got) /\ Publishes(c, got)
         /\ IF got THEN cert' = cert \cup {c} /\ failure' = [failure EXCEPT ![c].n = 0]
            ELSE note_failure(c) /\ UNCHANGED cert
    /\ UNCHANGED <<world, nginx, now, vhostFaults, spoilt>>

CertsDone ==
    /\ job.at = "certs" /\ job.todo = {} /\ Step("write")
    /\ UNCHANGED <<world, nginx, certificates, now, vhostFaults, spoilt>>

\* Mutant: a file that exists is not compared.
BodyIfMissing(c) ==
    IF file[c] # {} /\ \E r \in job.wanted : r[1][1] = c THEN file[c]
    ELSE {r \in job.wanted : r[1][1] = c /\ r[1] \in job.published}

Body(c) == {r \in job.wanted : r[1][1] = c /\ r[1] \in job.published}

\* The files are compared with what is on disk, not with what nginx serves.
WritesFiles ==
    /\ job.at = "write"
    /\ LET body == [c \in Owners |-> Body(c)] IN
       /\ file' = body
       /\ job' = [job EXCEPT !.at = IF body = file THEN "mark" ELSE "test", !.before = file]
    /\ UNCHANGED <<world, live, ready, certificates, now, vhostFaults, spoilt>>

JobFault == vhostFaults < MaxVhostFaults /\ vhostFaults' = vhostFaults + 1

\* nginx -t binds nothing; if it fails the files go back to what they were.
Tests ==
    /\ job.at = "test"
    /\ \/ Step("reload") /\ UNCHANGED <<file, vhostFaults>>
       \/ JobFault /\ file' = job.before /\ job' = NoJob
    /\ UNCHANGED <<world, live, ready, certificates, now, spoilt>>

Bindable == \A c \in taken : \A a \in Addresses : <<<<c, "app">>, a>> \notin file[c]

\* One port nginx cannot bind makes it give up the reload.
Reloads ==
    /\ job.at = "reload"
    /\ \/ /\ Bindable /\ Step("mark")
          /\ live' = UNION {file[c] : c \in Owners}
          /\ UNCHANGED <<vhostFaults, spoilt>>
       \/ /\ ~Bindable \/ vhostFaults < MaxVhostFaults
          /\ vhostFaults' = IF Bindable THEN vhostFaults + 1 ELSE vhostFaults
          /\ job' = NoJob /\ spoilt' = TRUE /\ UNCHANGED live
    /\ UNCHANGED <<world, file, ready, certificates, now>>

mark_readiness ==
    /\ job.at = "mark" /\ job' = NoJob
    /\ ready' = job.published
    /\ UNCHANGED <<world, file, live, certificates, now, vhostFaults, spoilt>>

\* The job dies: files written and not loaded, or an issuance not noted.
JobDies ==
    /\ job.at # "idle" /\ JobFault /\ job' = NoJob /\ spoilt' = TRUE
    /\ \/ UNCHANGED certificates
       \/ \E c \in job.todo \ cert :
            /\ MayIssue(c) /\ tried' = InWeek(tried) \cup {<<now, c>>}
            /\ UNCHANGED <<cert, issueLog, failure>>
    /\ UNCHANGED <<world, nginx, now>>

-----------------------------------------------------------------------------
Passes == \/ PassStarts \/ CertsDone \/ WritesFiles \/ Tests \/ Reloads \/ mark_readiness
          \/ \E c \in CertNames : Has(c) \/ Defers(c) \/ Obtains(c)

VhostsNext ==
    \/ \E c \in Owners : Changes(c) \/ PortTaken(c)
    \/ Tick \/ Passes \/ JobDies

VhostsSpec == VhostsInit /\ [][VhostsNext]_vhostVars

-----------------------------------------------------------------------------
\* Failures count as much as successes: without a DNS plugin no more than
\* ISSUE_BUDGET certificates are asked for in any trailing week, over all
\* customers and passes, as long as the job does not die between an issuance
\* and its note.
BudgetKept ==
    ~Wildcards /\ vhostFaults = 0 => Cardinality(InWeek(tried)) <= ISSUE_BUDGET

Servable == {r \in desired : r[1][2] = "app" \/ \E c \in cert : c[1] = r[1][1]}

\* However changes, taken ports and passes interleave, nginx serves in the end
\* what should exist and has its certificate, that and nothing else, and that
\* is what is shown as ready - if no reload ever failed and no pass died.
ServedInTheEnd == <>[](~spoilt => live = Servable /\ ready = {r[1] : r \in Servable})

\* Promise: the same, whatever happened to an earlier pass ("a failed reload",
\* mmd-vhosts.py:527).
ServedWhateverFailed == <>[](live = Servable /\ ready = {r[1] : r \in Servable})

\* Promise: a link is exposed "only after its exact nginx host exists"
\* (mmd-vhosts.py:429): right after a pass, what is ready is served.
ReadyIsServed ==
    [][ready' # ready => \A h \in ready' : \E r \in live' : r[1] = h]_vhostVars

\* Promise: at most ISSUE_BUDGET new certificates in any trailing 7 days
\* (mmd-vhosts.py:73), by whichever path.
BudgetHolds == vhostFaults = 0 => Cardinality(InWeek(tried)) <= ISSUE_BUDGET

\* A name leads to its customer's machine or to nobody's.
NobodyElsesMachine ==
    \A r \in live, c \in Owners : owned[c].at = r[2] => c = r[1][1]
=============================================================================
