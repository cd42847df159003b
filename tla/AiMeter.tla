------------------------------ MODULE AiMeter ------------------------------
(***************************************************************************)
(* What one machine's coding agents cost.  A scanner in the machine reports *)
(* cumulative tokens per session and model; the worker charges what is      *)
(* above the mark of that session and model, once per service and bucket of *)
(* five minutes, in one commit with the mark.  Tokens of a model without a  *)
(* price get neither charge nor mark.  The customer uses the agents, stops, *)
(* resets and deletes the machine and puts saved files back meanwhile, and  *)
(* an administrator sets and removes prices.                                *)
(*                                                                         *)
(* One of the five categories of tokens stands for all; a price is there or *)
(* not (the arithmetic of toman_micro is left out).                         *)
(***************************************************************************)
EXTENDS Integers, FiniteSets, FiniteSetsExt

CONSTANTS Sessions, Models,
          NoModel,
          Seed,         \* the models of SEED_BY_SERVICE
          Switchers,    \* services whose sessions change their model
          CarryOver,    \* a deleted machine's session files are put into the next one
          MaxUse,       \* bound: tokens that are ever used
          MaxRequests,  \* bound: requests of customer and administrator
          MaxFaults     \* bound: failed scans and deaths of the worker

Services == {"claude", "codex"}

ASSUME AiMeterAssumption ==
    /\ IsFiniteSet(Sessions) /\ IsFiniteSet(Models) /\ NoModel \notin Models /\ Seed \subseteq Models
    /\ Switchers \subseteq Services /\ CarryOver \in BOOLEAN
    /\ MaxUse \in Nat /\ MaxRequests \in Nat /\ MaxFaults \in Nat

VARIABLES on,       \* the machine is on
          files,    \* the session files in it: tokens by model and in all, and the model last used
          saved,    \* a copy of them the customer has kept
          used,     \* tokens ever used (a history)
          priced,   \* models with a row of ai_model_prices
          marks,    \* ai_usage_marks
          posted,   \* services charged in this bucket
          charged,  \* tokens ever charged (what the ledger's details say)
          wk,       \* the pass of the worker
          requests, faults

vars == <<on, files, saved, used, priced, marks, posted, charged, wk, requests, faults>>

Idle == [pc |-> "idle"]
NoMark == -1
Tokens == [Services -> [Sessions -> [Models -> Nat]]]
NoTokens == [m \in Models |-> 0]
NoFiles == [v \in Services |-> [s \in Sessions |-> [tokens |-> NoTokens, total |-> 0, last |-> NoModel]]]

Init ==
    /\ on = FALSE /\ files = NoFiles /\ saved = NoFiles
    /\ used = [v \in Services |-> [s \in Sessions |-> NoTokens]] /\ charged = used
    /\ priced = [v \in Services |-> {}]
    /\ marks = [v \in Services |-> [s \in Sessions |-> [m \in Models |-> NoMark]]]
    /\ posted = {} /\ wk = Idle /\ requests = 0 /\ faults = 0

Fault == faults < MaxFaults /\ faults' = faults + 1
Ask == requests < MaxRequests /\ requests' = requests + 1

Sum(tokens) == MapThenSumSet(LAMBDA m : tokens[m], Models)
UsedInAll == MapThenSumSet(LAMBDA k : Sum(used[k[1]][k[2]]), Services \X Sessions)

-----------------------------------------------------------------------------
(* The machine and its customer.                                             *)

\* A response of the agent: a line more in the session's file.
Longer(file, m) ==
    [tokens |-> [file.tokens EXCEPT ![m] = @ + 1], total |-> file.total + 1, last |-> m]

Use(v, s, m) ==
    /\ on /\ UsedInAll < MaxUse
    /\ v \in Switchers \/ files[v][s].last \in {NoModel, m}
    /\ files' = [files EXCEPT ![v][s] = Longer(@, m)]
    /\ used' = [used EXCEPT ![v][s][m] = @ + 1]
    /\ UNCHANGED <<on, saved, priced, marks, posted, charged, wk, requests, faults>>

Power ==
    /\ Ask /\ on' = ~on
    /\ UNCHANGED <<files, saved, used, priced, marks, posted, charged, wk, faults>>

\* _factory_reset, by the worker between its passes: files go, marks stay.  The
\* customer may have saved the files.
Reset ==
    /\ wk = Idle /\ Ask /\ files' = NoFiles /\ on' = FALSE /\ saved' \in {saved, files}
    /\ UNCHANGED <<used, priced, marks, posted, charged, wk, faults>>

\* _workspace_delete removes the marks as well; a new machine has a new id, under
\* which nothing is charged in this bucket.
Delete ==
    /\ wk = Idle /\ Ask /\ files' = NoFiles /\ on' = FALSE
    /\ saved' \in IF CarryOver THEN {saved, files} ELSE {NoFiles}
    /\ marks' = [v \in Services |-> [s \in Sessions |-> [m \in Models |-> NoMark]]] /\ posted' = {}
    /\ UNCHANGED <<used, priced, charged, wk, faults>>

\* The saved files are uploaded again.
PutBack ==
    /\ on /\ Ask /\ files' = saved
    /\ UNCHANGED <<on, saved, used, priced, marks, posted, charged, wk, faults>>

\* admin_ai_price_add, admin_ai_price_delete.
SetPrice(v, m) ==
    /\ Ask /\ priced' = [priced EXCEPT ![v] = IF m \in @ THEN @ \ {m} ELSE @ \cup {m}]
    /\ UNCHANGED <<on, files, saved, used, marks, posted, charged, wk, faults>>

-----------------------------------------------------------------------------
(* meter_ai_once, then meter_codex_once.                                     *)

\* What the scanner reports.  Claude's adds up every response under its model;
\* Codex's gives the session's running total to the model it finds last.
Report(v) ==
    [s \in Sessions |->
        IF v = "claude" THEN files[v][s].tokens
        ELSE [m \in Models |-> IF m = files[v][s].last THEN files[v][s].total ELSE 0]]

\* The pass goes on from service v.
GoOn(v) == wk' = IF v = "claude" THEN [pc |-> "scan", v |-> "codex"] ELSE Idle

Begin ==
    /\ wk = Idle /\ wk' = [pc |-> "scan", v |-> "claude"]
    /\ UNCHANGED <<on, files, saved, used, priced, marks, posted, charged, requests, faults>>

\* A machine that is off is not asked; a scan that fails is skipped.
Scan ==
    /\ wk.pc = "scan"
    /\ \/ on /\ wk' = [pc |-> "meter", v |-> wk.v, report |-> Report(wk.v)] /\ UNCHANGED faults
       \/ ~on /\ GoOn(wk.v) /\ UNCHANGED faults
       \/ on /\ Fault /\ GoOn(wk.v)
    /\ UNCHANGED <<on, files, saved, used, priced, marks, posted, charged, requests>>

\* ai_prices seeds an empty table.
Prices(v) == IF priced[v] = {} THEN Seed ELSE priced[v]

Marked(v, s, m) == IF marks[v][s][m] = NoMark THEN 0 ELSE marks[v][s][m]

\* Mutant: the counters of a mark not yet flushed read as None, and the pass raises.
DeltaOfMarks(v, s, m, report) ==
    IF m \in Prices(v) /\ marks[v][s][m] # NoMark THEN Max({0, report[s][m] - Marked(v, s, m)}) ELSE 0

\* Tokens that are new since the last charge; none of a model without a price.
Delta(v, s, m, report) == IF m \in Prices(v) THEN Max({0, report[s][m] - Marked(v, s, m)}) ELSE 0

\* A mark only ever moves up.
Raised(v, s, m, report) ==
    IF Delta(v, s, m, report) = 0 THEN marks[v][s][m] ELSE Max({report[s][m], Marked(v, s, m)})

RaiseMarks(v, report) ==
    marks' = [marks EXCEPT ![v] = [s \in Sessions |-> [m \in Models |-> Raised(v, s, m, report)]]]

Charge(v, report) ==
    charged' = [charged EXCEPT ![v] = [s \in Sessions |-> [m \in Models |-> @[s][m] + Delta(v, s, m, report)]]]

\* Mutant: the charge is committed before the marks are raised.
MeterSplit ==
    LET v == wk.v
        new == \E s \in Sessions, m \in Models : Delta(v, s, m, wk.report) # 0 IN
    /\ wk.pc = "meter" /\ GoOn(v)
    /\ priced' = [priced EXCEPT ![v] = Prices(v)]
    /\ IF new /\ v \notin posted
       THEN /\ posted' = posted \cup {v} /\ Charge(v, wk.report)
            /\ (RaiseMarks(v, wk.report) /\ UNCHANGED faults) \/ (Fault /\ UNCHANGED marks)
       ELSE UNCHANGED <<marks, posted, charged, faults>>
    /\ UNCHANGED <<on, files, saved, used, requests>>

\* meter_ai_usage: charge and marks are one commit, and nothing is written when the
\* bucket is charged already.
Meter ==
    LET v == wk.v
        new == \E s \in Sessions, m \in Models : Delta(v, s, m, wk.report) # 0 IN
    /\ wk.pc = "meter" /\ GoOn(v)
    /\ priced' = [priced EXCEPT ![v] = Prices(v)]
    /\ IF new /\ v \notin posted
       THEN RaiseMarks(v, wk.report) /\ posted' = posted \cup {v} /\ Charge(v, wk.report)
       ELSE UNCHANGED <<marks, posted, charged>>
    /\ UNCHANGED <<on, files, saved, used, requests, faults>>

WorkerDies ==
    /\ wk # Idle /\ Fault /\ wk' = Idle
    /\ UNCHANGED <<on, files, saved, used, priced, marks, posted, charged, requests>>

\* Five minutes pass.
NextBucket ==
    /\ posted # {} /\ posted' = {}
    /\ UNCHANGED <<on, files, saved, used, priced, marks, charged, wk, requests, faults>>

-----------------------------------------------------------------------------
Work == Begin \/ Scan \/ Meter

Next ==
    \/ \E v \in Services, s \in Sessions, m \in Models : Use(v, s, m)
    \/ \E v \in Services, m \in Models : SetPrice(v, m)
    \/ Power \/ Reset \/ Delete \/ PutBack \/ Work \/ WorkerDies \/ NextBucket

Spec == Init /\ [][Next]_vars

\* The worker's loop runs, and time passes.
FairSpec == Spec /\ WF_vars(Work) /\ WF_vars(NextBucket)

-----------------------------------------------------------------------------
File == [tokens : [Models -> Nat], total : Nat, last : {NoModel} \cup Models]

TypeOK ==
    /\ on \in BOOLEAN
    /\ \A kept \in {files, saved} : kept \in [Services -> [Sessions -> File]]
    /\ used \in Tokens /\ charged \in Tokens
    /\ priced \in [Services -> SUBSET Models]
    /\ marks \in [Services -> [Sessions -> [Models -> {NoMark} \cup (Nat \ {0})]]]
    /\ posted \subseteq Services
    /\ \/ wk = Idle \/ wk \in [pc : {"scan"}, v : Services]
       \/ wk \in [pc : {"meter"}, v : Services, report : [Sessions -> [Models -> Nat]]]
    /\ requests \in 0 .. MaxRequests /\ faults \in 0 .. MaxFaults

EachKey(P(_, _, _)) == \A v \in Services, s \in Sessions, m \in Models : P(v, s, m)

\* Nobody pays for a token twice, whatever is reset, put back or priced again, and
\* wherever the worker dies (AiUsageMark, "cannot double-bill").
NeverOvercharged == EachKey(LAMBDA v, s, m : charged[v][s][m] <= used[v][s][m])

\* No tokens are forgiven: what a mark says has been charged (meter_ai_usage, "the
\* marks move only if the charge lands").
MarksArePaid == EachKey(LAMBDA v, s, m : Marked(v, s, m) <= charged[v][s][m])

\* Tokens held back by a charge already made, a failed scan or a missing price are
\* charged once the machine stays on and every model has a price.
UsedIsCharged ==
    <>[](on /\ \A v \in Services : priced[v] = Models)
        => <>[](EachKey(LAMBDA v, s, m : Report(v)[s][m] <= Marked(v, s, m)))

\* A session is not charged for more tokens than it used, whatever models it used
\* them with (scan_codex_usage: "the session's own running total, by definition
\* already de-duplicated").
SessionsNeverOvercharged == \A v \in Services, s \in Sessions : Sum(charged[v][s]) <= Sum(used[v][s])

\* admin_ai_pricing: models that are used and have no price.
Unpriced(v) == {m \in Models : m \notin Prices(v) /\ \E s \in Sessions : marks[v][s][m] # NoMark}

\* "A model still unmatched by any row is ... still listed in the admin panel as
\* unpriced" (ai_prices): the ones a pass has found are.
UnpricedIsListed ==
    wk.pc = "meter" => \A m \in Models \ Prices(wk.v) : (\E s \in Sessions : wk.report[s][m] > 0) => m \in Unpriced(wk.v)
=============================================================================
