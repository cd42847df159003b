-------------------------------- MODULE Codes --------------------------------
(***************************************************************************)
(* One-time codes of one phone and purpose: request_code and the handlers  *)
(* that redeem a code (register, login_sms, reset_password,                *)
(* update_profile).  All are threads of the API.  A request reads with     *)
(* plain SELECTs and writes in one commit; a redemption locks the rows it  *)
(* reads (smscode.verify), commits the code as spent, and only then does   *)
(* what the code was for.  Codes are numbered by created_at.               *)
(***************************************************************************)
EXTENDS Integers, FiniteSets

CONSTANTS Threads,     \* handlers in flight
          Ttl,         \* TTL_SECONDS, in ticks
          Resend,      \* RESEND_SECONDS, in ticks
          Hour,        \* the window of MAX_PER_HOUR, in ticks
          MaxPerHour,  \* MAX_PER_HOUR
          MaxTries,    \* MAX_ATTEMPTS
          MaxCodes,    \* bound: codes ever issued
          MaxUses,     \* bound: redemptions ever begun
          MaxClock     \* bound: the last tick

ASSUME CodeBounds ==
    {Ttl, Resend, Hour, MaxPerHour, MaxTries, MaxCodes, MaxUses, MaxClock} \subseteq Nat

VARIABLES clock,
          known,     \* an account has this phone
          purpose,   \* "join": signup and profile; "enter": login and recovery
          code,      \* sms_codes, committed
          issued,    \* codes begun
          handler,   \* the handlers in flight
          uses,      \* redemptions begun
          answers,   \* already_registered messages queued
          judged,    \* history: wrong guesses judged against a code
          admitted,  \* history: redemptions that passed with a code
          served,    \* history: those of them that did what they were for
          overlaps,  \* history: pairs of codes requested at the same time
          apiDied    \* history: the API process died

codeVars == <<clock, known, purpose, code, issued, handler, uses, answers,
              judged, admitted, served, overlaps, apiDied>>

Codes == 0 .. MaxCodes - 1
Wrong == MaxCodes  \* a guess that is no code
CodeRow == [state : {"none", "open", "spent"}, created : 0 .. MaxClock,
            tries : 0 .. MaxTries, texted : BOOLEAN]
NoCode == [state |-> "none", created |-> 0, tries |-> 0, texted |-> FALSE]

(***************************************************************************)
(* pc: requested  the throttle let the request pass                        *)
(*     issuing    rows holds the earlier codes it is about to spend        *)
(*     waiting    rows holds the codes verify's SELECT matched             *)
(*     judging    rows holds those still unspent, locked                   *)
(*     passed     verify has committed                                     *)
(***************************************************************************)
Handler == [pc : {"idle", "requested", "issuing", "waiting", "judging", "passed"},
            id : 0 .. MaxCodes, at : 0 .. MaxClock, rows : SUBSET Codes]
Free == [pc |-> "idle", id |-> 0, at |-> 0, rows |-> {}]

Issued == {c \in Codes : code[c].state # "none"}
Open == {c \in Codes : code[c].state = "open"}
Live(c) == c \in Open /\ clock < code[c].created + Ttl
Locked(c) == \E h \in Threads : handler[h].pc = "judging" /\ c \in handler[h].rows
Requesting(h) == handler[h].pc \in {"requested", "issuing"}

\* The handler goes on with the rows it holds now.
GoOn(h, pc, rows) ==
    handler' = [handler EXCEPT ![h] = [pc |-> pc, id |-> handler[h].id, at |-> handler[h].at, rows |-> rows]]

CodesInit ==
    /\ clock = 0 /\ known \in BOOLEAN /\ purpose \in {"join", "enter"}
    /\ code = [c \in Codes |-> NoCode]
    /\ issued = 0 /\ uses = 0 /\ answers = 0
    /\ handler = [h \in Threads |-> Free]
    /\ judged = [c \in Codes |-> 0]
    /\ admitted = [c \in Codes |-> 0]
    /\ served = [c \in Codes |-> 0]
    /\ overlaps = {} /\ apiDied = FALSE

-----------------------------------------------------------------------------
Recent == {c \in Issued : code[c].created >= clock - Hour}

\* smscode.throttle.
Throttled ==
    \/ Cardinality(Recent) >= MaxPerHour
    \/ \E c \in Recent : clock - code[c].created < Resend

\* request_code up to its throttle; created_at is the transaction's start.
Request(h) ==
    /\ handler[h].pc = "idle" /\ issued < MaxCodes
    /\ ~(purpose = "join" /\ known) /\ ~Throttled
    /\ handler' = [handler EXCEPT ![h] =
           [pc |-> "requested", id |-> issued, at |-> clock, rows |-> {}]]
    /\ issued' = issued + 1
    /\ overlaps' = overlaps \cup
           {{issued, handler[g].id} : g \in {k \in Threads : Requesting(k)}}
    /\ UNCHANGED <<clock, known, purpose, code, uses, answers, judged,
                   admitted, served, apiDied>>

\* request_code for a phone that already has the account it would sign up.
Answer(h) ==
    /\ handler[h].pc = "idle" /\ answers <= MaxPerHour
    /\ purpose = "join" /\ known /\ ~Throttled
    /\ answers' = answers + 1
    /\ UNCHANGED <<clock, known, purpose, code, issued, handler, uses, judged,
                   admitted, served, overlaps, apiDied>>

\* smscode.issue: the SELECT of the codes that are to stop working.
Earlier(h) == Open

Supersede(h) ==
    /\ handler[h].pc = "requested"
    /\ GoOn(h, "issuing", Earlier(h))
    /\ UNCHANGED <<clock, known, purpose, code, issued, uses, answers, judged,
                   admitted, served, overlaps, apiDied>>

\* The commit of request_code: it waits for rows a redemption has locked.  A
\* sign-in code for a phone without account is not sent to anyone.
Issue(h) ==
    /\ handler[h].pc = "issuing"
    /\ \A c \in handler[h].rows : ~Locked(c)
    /\ code' = [c \in Codes |->
           IF c = handler[h].id
           THEN [state |-> "open", created |-> handler[h].at, tries |-> 0,
                 texted |-> purpose = "join" \/ known]
           ELSE IF c \in handler[h].rows THEN [code[c] EXCEPT !.state = "spent"]
           ELSE code[c]]
    /\ handler' = [handler EXCEPT ![h] = Free]
    /\ UNCHANGED <<clock, known, purpose, issued, uses, answers, judged,
                   admitted, served, overlaps, apiDied>>

-----------------------------------------------------------------------------
\* A handler with a code calls verify, whose SELECT ... FOR UPDATE matches the
\* unspent codes; register has found no account with the phone before.
Redeem(h, typed) ==
    /\ handler[h].pc = "idle" /\ uses < MaxUses
    /\ ~(purpose = "join" /\ known)
    /\ typed = Wrong \/ typed \in {c \in Issued : code[c].texted}
    /\ handler' = [handler EXCEPT ![h] =
           [pc |-> "waiting", id |-> typed, at |-> clock, rows |-> Open]]
    /\ uses' = uses + 1
    /\ UNCHANGED <<clock, known, purpose, code, issued, answers, judged,
                   admitted, served, overlaps, apiDied>>

\* Mutant: the SELECT takes no lock, and so does not look again.
LockNothing(h) ==
    /\ handler[h].pc = "waiting"
    /\ GoOn(h, "judging", handler[h].rows)
    /\ UNCHANGED <<clock, known, purpose, code, issued, uses, answers, judged,
                   admitted, served, overlaps, apiDied>>

\* The rows are locked once nobody else holds them; those spent meanwhile no
\* longer match.
Lock(h) ==
    /\ handler[h].pc = "waiting"
    /\ \A c \in handler[h].rows : ~Locked(c)
    /\ GoOn(h, "judging", handler[h].rows \cap Open)
    /\ UNCHANGED <<clock, known, purpose, code, issued, uses, answers, judged,
                   admitted, served, overlaps, apiDied>>

\* The row verify judges is the newest of them, if it has neither expired nor been
\* guessed at too often.
Judged(h) ==
    {c \in handler[h].rows : /\ \A d \in handler[h].rows : d <= c
                            /\ handler[h].at < code[c].created + Ttl
                            /\ code[c].tries < MaxTries}

\* Missing, expired, or too many wrong attempts.
Refuse(h) ==
    /\ handler[h].pc = "judging" /\ Judged(h) = {}
    /\ handler' = [handler EXCEPT ![h] = Free]
    /\ UNCHANGED <<clock, known, purpose, code, issued, uses, answers, judged,
                   admitted, served, overlaps, apiDied>>

\* Mutant: the attempt is counted in memory and never committed.
Miscounted(c) == code
\* The attempts of a row with one more.
Counted(c) == [code EXCEPT ![c].tries = @ + 1]

\* A wrong guess is counted and committed.
Miss(h) ==
    /\ handler[h].pc = "judging"
    /\ \E c \in Judged(h) \ {handler[h].id} :
           code' = Counted(c) /\ judged' = [judged EXCEPT ![c] = @ + 1]
    /\ handler' = [handler EXCEPT ![h] = Free]
    /\ UNCHANGED <<clock, known, purpose, issued, uses, answers, admitted,
                   served, overlaps, apiDied>>

\* The right one is spent, and that is committed.
Hit(h) ==
    /\ handler[h].pc = "judging"
    /\ \E c \in Judged(h) \cap {handler[h].id} :
           /\ code' = [code EXCEPT ![c].state = "spent"]
           /\ admitted' = [admitted EXCEPT ![c] = @ + 1]
    /\ GoOn(h, "passed", handler[h].rows)
    /\ UNCHANGED <<clock, known, purpose, issued, uses, answers, judged,
                   served, overlaps, apiDied>>

\* What the code was for, in a second commit: the account, the session, the
\* password, the phone.  A second account for the phone is refused by its unique
\* key.
Serve(h) ==
    /\ handler[h].pc = "passed"
    /\ known' = (known \/ purpose = "join")
    /\ served' = IF purpose = "join" /\ known THEN served
                 ELSE [served EXCEPT ![handler[h].id] = @ + 1]
    /\ handler' = [handler EXCEPT ![h] = Free]
    /\ UNCHANGED <<clock, purpose, code, issued, uses, answers, judged,
                   admitted, overlaps, apiDied>>

-----------------------------------------------------------------------------
\* The API process dies: open transactions are rolled back, locks released.
ApiDies ==
    /\ ~apiDied /\ \E h \in Threads : handler[h].pc # "idle"
    /\ apiDied' = TRUE
    /\ handler' = [h \in Threads |-> Free]
    /\ UNCHANGED <<clock, known, purpose, code, issued, uses, answers, judged,
                   admitted, served, overlaps>>

CodesTick ==
    /\ clock < MaxClock
    /\ clock' = clock + 1
    /\ UNCHANGED <<known, purpose, code, issued, handler, uses, answers, judged,
                   admitted, served, overlaps, apiDied>>

Step(h) == \/ Supersede(h) \/ Issue(h) \/ Lock(h)
           \/ Refuse(h) \/ Miss(h) \/ Hit(h) \/ Serve(h)

CodesNext ==
    \/ \E h \in Threads :
           \/ Request(h) \/ Answer(h) \/ Step(h)
           \/ \E typed \in Codes \cup {Wrong} : Redeem(h, typed)
    \/ ApiDies
    \/ CodesTick

CodesSpec == CodesInit /\ [][CodesNext]_codeVars

-----------------------------------------------------------------------------
\* The variables have their types.
CodesTypeOK ==
    /\ clock \in 0 .. MaxClock /\ known \in BOOLEAN
    /\ purpose \in {"join", "enter"}
    /\ code \in [Codes -> CodeRow]
    /\ issued \in 0 .. MaxCodes /\ uses \in 0 .. MaxUses
    /\ answers \in 0 .. MaxPerHour + 1
    /\ handler \in [Threads -> Handler]
    /\ judged \in [Codes -> Nat] /\ admitted \in [Codes -> Nat]
    /\ served \in [Codes -> Nat]
    /\ overlaps \subseteq SUBSET Codes /\ apiDied \in BOOLEAN

\* A code passes one redemption, however many requests carry it at the same time:
\* smscode.verify locks the row before it reads it.
CodeAdmitsOnce == \A c \in Codes : admitted[c] <= 1

\* No more than MAX_ATTEMPTS wrong guesses are ever judged against a code, however
\* they overlap.
GuessesBounded == \A c \in Codes : judged[c] <= MaxTries

\* A code requested after another one was delivered ends it: two are usable
\* together only when their requests overlapped (smscode.issue).
LiveCodesOverlapped ==
    \A c, d \in Codes : c < d /\ Live(c) /\ Live(d) => {c, d} \in overlaps

\* "two live codes never exist at once" (smscode.py:80).
OneLiveCode == \A c, d \in Codes : Live(c) /\ Live(d) => c = d

\* "a failed write cannot strand a customer with a spent recovery code"
\* (reset_password).
NoStrandedCode ==
    purpose = "enter" => \A c \in Codes : admitted[c] = 1 =>
        \/ served[c] = 1
        \/ \E h \in Threads : handler[h].pc = "passed" /\ handler[h].id = c

\* The messages to a phone that already has an account are limited as codes are.
AnswersLimited == clock < Hour => answers <= MaxPerHour
=============================================================================
