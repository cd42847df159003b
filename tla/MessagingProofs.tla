--------------------------- MODULE MessagingProofs ---------------------------
(***************************************************************************)
(* Theorems of Codes, Outbox and CreditStep, a section each: what is true  *)
(* of codes, messages and bands for every value of the constants.          *)
(***************************************************************************)
EXTENDS Codes, Outbox, CreditStep, WellFoundedInduction, TLAPS

-----------------------------------------------------------------------------
(***************************************************************************)
(* For any number of handlers, codes, guesses and ticks: a code passes one *)
(* redemption, and no more than MAX_ATTEMPTS wrong guesses are judged      *)
(* against it.  Neither is inductive alone: that a code which has passed   *)
(* does not pass again rests on no other handler judging it at that time,  *)
(* and that its row is not written anew rests on its number being fresh.   *)
(***************************************************************************)
\* Rows under judgement are unspent, and under one judgement only: verify's locks.
JudgedApart ==
    \A h \in Threads : handler[h].pc = "judging" =>
        /\ handler[h].rows \subseteq Open
        /\ \A g \in Threads \ {h} :
               handler[g].pc = "judging" => handler[g].rows \cap handler[h].rows = {}

\* The number of a code that has been requested belongs to no row and no other request.
NumbersFresh ==
    /\ \A c \in Codes : c >= issued => code[c].state = "none"
    /\ \A h \in Threads : Requesting(h) =>
           /\ handler[h].id \in Codes /\ handler[h].id < issued
           /\ code[handler[h].id].state = "none"
           /\ \A g \in Threads \ {h} : Requesting(g) => handler[g].id # handler[h].id

\* A code that has passed is spent; one that does not exist was never judged.
AdmittedAreSpent ==
    \A c \in Codes : admitted[c] \in {0, 1} /\ (admitted[c] = 1 => code[c].state = "spent")

\* A row that was selected for anything exists.
RowsExist ==
    \A h \in Threads : \A c \in handler[h].rows : code[c].state # "none"

GuessesCounted ==
    \A c \in Codes : judged[c] <= code[c].tries /\ (code[c].state = "none" => judged[c] = 0)

CodesIInv ==
    /\ CodesTypeOK /\ RowsExist /\ JudgedApart /\ NumbersFresh
    /\ AdmittedAreSpent /\ GuessesCounted

\* The bounds one by one.
LEMMA Bounds ==
    /\ Ttl \in Nat /\ Resend \in Nat /\ Hour \in Nat /\ MaxPerHour \in Nat /\ MaxTries \in Nat
    /\ MaxCodes \in Nat /\ MaxUses \in Nat /\ MaxClock \in Nat
  BY CodeBounds

LEMMA FreeTyped == NoCode \in CodeRow /\ Free \in Handler
  <1>1. 0 \in 0 .. MaxClock /\ 0 \in 0 .. MaxTries /\ 0 \in 0 .. MaxCodes
    BY Bounds
  <1>2. NoCode \in CodeRow
    BY <1>1 DEF NoCode, CodeRow
  <1>3. Free \in Handler
    BY <1>1 DEF Free, Handler
  <1> QED
    BY <1>2, <1>3

LEMMA CodesInitInv == ASSUME CodesInit PROVE CodesIInv
  <1>1. \A c \in Codes : code[c] = NoCode /\ judged[c] = 0 /\ admitted[c] = 0
    BY DEF CodesInit
  <1>2. \A h \in Threads : handler[h] = Free
    BY DEF CodesInit
  <1>3. NoCode \in CodeRow /\ Free \in Handler
    BY FreeTyped
  <1>4. CodesTypeOK
    <2>1. 0 \in 0 .. MaxClock /\ 0 \in 0 .. MaxCodes /\ 0 \in 0 .. MaxUses /\ 0 \in 0 .. MaxPerHour + 1
      BY Bounds
    <2>2. code \in [Codes -> CodeRow] /\ handler \in [Threads -> Handler]
      BY <1>3 DEF CodesInit
    <2>3. judged \in [Codes -> Nat] /\ admitted \in [Codes -> Nat] /\ served \in [Codes -> Nat]
      BY DEF CodesInit
    <2> QED
      BY <2>1, <2>2, <2>3 DEF CodesInit, CodesTypeOK
  <1>5. JudgedApart /\ NumbersFresh
    BY <1>1, <1>2 DEF JudgedApart, NumbersFresh, Requesting, Free, NoCode
  <1>6. AdmittedAreSpent /\ GuessesCounted /\ RowsExist
    BY <1>1, <1>2 DEF AdmittedAreSpent, GuessesCounted, RowsExist, Free, NoCode
  <1> QED
    BY <1>4, <1>5, <1>6 DEF CodesIInv

-----------------------------------------------------------------------------
\* A handler goes on, and no row is written: what it says of its rows must hold.
LEMMA HandlerMoves ==
    ASSUME CodesIInv, NEW h \in Threads, NEW new \in Handler,
           handler' = [handler EXCEPT ![h] = new],
           UNCHANGED <<code, issued, judged, admitted>>,
           new.pc \in {"requested", "issuing"} => Requesting(h) /\ new.id = handler[h].id,
           \A c \in new.rows : code[c].state # "none",
           new.pc = "judging" =>
               /\ new.rows \subseteq Open
               /\ \A g \in Threads \ {h} :
                      handler[g].pc = "judging" => handler[g].rows \cap new.rows = {}
    PROVE  /\ handler' \in [Threads -> Handler]
           /\ RowsExist' /\ JudgedApart' /\ NumbersFresh' /\ AdmittedAreSpent' /\ GuessesCounted'
  <1>1. handler \in [Threads -> Handler]
    BY DEF CodesIInv, CodesTypeOK
  <1>2. handler'[h] = new /\ \A g \in Threads \ {h} : handler'[g] = handler[g]
    BY <1>1
  <1>3. JudgedApart'
    BY <1>2 DEF CodesIInv, JudgedApart, Open
  <1>4. NumbersFresh'
    BY <1>2 DEF CodesIInv, NumbersFresh, Requesting
  <1>5. AdmittedAreSpent' /\ GuessesCounted'
    BY DEF CodesIInv, AdmittedAreSpent, GuessesCounted
  <1>6. RowsExist'
    BY <1>2 DEF CodesIInv, RowsExist
  <1> QED
    BY <1>1, <1>3, <1>4, <1>5, <1>6

-----------------------------------------------------------------------------
(* request_code.                                                             *)

LEMMA RequestInv == ASSUME CodesIInv, NEW h \in Threads, Request(h) PROVE CodesIInv'
  <1> DEFINE new == [pc |-> "requested", id |-> issued, at |-> clock, rows |-> {}]
  <1>1. handler \in [Threads -> Handler] /\ issued \in 0 .. MaxCodes /\ issued < MaxCodes
    BY DEF CodesIInv, CodesTypeOK, Request
  <1>2. issued \in Codes /\ issued' \in 0 .. MaxCodes
    BY <1>1, Bounds DEF Codes, Request
  <1>3. new \in Handler
    <2>1. issued \in 0 .. MaxCodes /\ clock \in 0 .. MaxClock
      BY DEF CodesIInv, CodesTypeOK
    <2> QED
      BY <2>1 DEF Handler
  <1>4. handler'[h] = new /\ \A g \in Threads \ {h} : handler'[g] = handler[g]
    BY <1>1 DEF Request
  <1>5. \A g \in Threads : Requesting(g) => handler[g].id \in Codes /\ handler[g].id < issued
    BY DEF CodesIInv, NumbersFresh
  <1>6. CodesTypeOK'
    <2>1. handler' \in [Threads -> Handler]
      BY <1>1, <1>3 DEF Request
    <2>2. overlaps' \subseteq SUBSET Codes
      <3>1. overlaps \subseteq SUBSET Codes
        BY DEF CodesIInv, CodesTypeOK
      <3>2. \A g \in {k \in Threads : Requesting(k)} : {issued, handler[g].id} \in SUBSET Codes
        BY <1>2, <1>5
      <3> QED
        BY <3>1, <3>2 DEF Request
    <2> QED
      BY <1>2, <2>1, <2>2 DEF Request, CodesIInv, CodesTypeOK
  <1>7. JudgedApart'
    BY <1>4 DEF Request, CodesIInv, JudgedApart, Open
  <1>8. NumbersFresh'
    <2>1. \A c \in Codes : c >= issued' => code'[c].state = "none"
      <3>1. \A c \in Codes : c >= issued + 1 => c >= issued
        BY <1>1 DEF Codes
      <3> QED
        BY <3>1 DEF Request, CodesIInv, NumbersFresh
    <2>2. code[issued].state = "none" /\ issued < issued'
      BY <1>1, <1>2 DEF Request, CodesIInv, NumbersFresh
    <2>3. \A g \in Threads \ {h} : Requesting(g)' =>
              /\ handler'[g].id \in Codes /\ handler'[g].id < issued /\ handler'[g].id < issued'
              /\ code'[handler'[g].id].state = "none"
      <3> TAKE g \in Threads \ {h}
      <3>1. Requesting(g)' => Requesting(g) /\ handler'[g] = handler[g]
        BY <1>4 DEF Requesting
      <3>2. \A c \in Codes : c < issued => c < issued'
        BY <1>1 DEF Codes, Request
      <3> QED
        BY <3>1, <3>2, <1>5 DEF Request, CodesIInv, NumbersFresh
    <2>4. \A g \in Threads \ {h}, k \in Threads \ {h} : g # k /\ Requesting(g)' /\ Requesting(k)' =>
              handler'[k].id # handler'[g].id
      BY <1>4 DEF CodesIInv, NumbersFresh, Requesting
    <2>5. \A g \in Threads \ {h} : Requesting(g)' => handler'[g].id # handler'[h].id
      BY <1>1, <1>4, <2>3 DEF Codes
    <2> QED
      BY <1>2, <1>4, <2>1, <2>2, <2>3, <2>4, <2>5 DEF NumbersFresh, Request
  <1>9. AdmittedAreSpent' /\ GuessesCounted' /\ RowsExist'
    <2>1. AdmittedAreSpent' /\ GuessesCounted'
      BY DEF Request, CodesIInv, AdmittedAreSpent, GuessesCounted
    <2>2. RowsExist'
      BY <1>4 DEF Request, CodesIInv, RowsExist
    <2> QED
      BY <2>1, <2>2
  <1> QED
    BY <1>6, <1>7, <1>8, <1>9 DEF CodesIInv

LEMMA AnswerInv == ASSUME CodesIInv, NEW h \in Threads, Answer(h) PROVE CodesIInv'
  <1>1. answers' \in 0 .. MaxPerHour + 1
    BY Bounds DEF Answer, CodesIInv, CodesTypeOK
  <1>2. CodesTypeOK'
    BY <1>1 DEF Answer, CodesIInv, CodesTypeOK
  <1> QED
    BY <1>2 DEF Answer, CodesIInv, RowsExist, JudgedApart, NumbersFresh, AdmittedAreSpent,
                GuessesCounted, Open, Requesting

LEMMA SupersedeInv == ASSUME CodesIInv, NEW h \in Threads, Supersede(h) PROVE CodesIInv'
  <1> DEFINE new == [pc |-> "issuing", id |-> handler[h].id, at |-> handler[h].at, rows |-> Open]
  <1>1. handler[h] \in Handler /\ Open \subseteq Codes
    BY DEF CodesIInv, CodesTypeOK, Open
  <1>2. new \in Handler
    BY <1>1 DEF Handler
  <1>3. handler' = [handler EXCEPT ![h] = new] /\ Requesting(h)
    BY DEF Supersede, GoOn, Earlier, Requesting
  <1>4. UNCHANGED <<code, issued, judged, admitted>>
    BY DEF Supersede
  <1> HIDE DEF new
  <1>5. new.pc = "issuing" /\ new.id = handler[h].id /\ \A c \in new.rows : code[c].state # "none"
    BY DEF new, Open
  <1>6. /\ handler' \in [Threads -> Handler]
        /\ RowsExist' /\ JudgedApart' /\ NumbersFresh' /\ AdmittedAreSpent' /\ GuessesCounted'
    BY <1>2, <1>3, <1>4, <1>5, HandlerMoves
  <1> QED
    BY <1>6 DEF Supersede, CodesIInv, CodesTypeOK

\* The codes a request ends are not under judgement, and its own is not there yet.
LEMMA IssueInv == ASSUME CodesIInv, NEW h \in Threads, Issue(h) PROVE CodesIInv'
  <1> DEFINE id == handler[h].id
  <1>1. /\ handler \in [Threads -> Handler] /\ handler[h] \in Handler
        /\ code \in [Codes -> CodeRow]
    BY DEF CodesIInv, CodesTypeOK
  <1>2. Requesting(h) /\ id \in Codes /\ id < issued /\ code[id].state = "none"
    BY DEF Issue, Requesting, CodesIInv, NumbersFresh
  <1>3. handler'[h] = Free /\ \A g \in Threads \ {h} : handler'[g] = handler[g]
    BY <1>1 DEF Issue
  <1>4. code'[id].state = "open" /\ code'[id].tries = 0
    BY <1>2 DEF Issue
  <1>5. \A c \in Codes \ {id} :
            /\ code'[c].tries = code[c].tries
            /\ code'[c].state = IF c \in handler[h].rows THEN "spent" ELSE code[c].state
    BY <1>1 DEF Issue, CodeRow
  <1>6. CodesTypeOK'
    <2>1. \A c \in Codes : code'[c] \in CodeRow
      <3> TAKE c \in Codes
      <3>1. handler[h].at \in 0 .. MaxClock /\ 0 \in 0 .. MaxTries /\ (purpose = "join" \/ known) \in BOOLEAN
        BY <1>1, Bounds DEF Handler
      <3>2. [state |-> "open", created |-> handler[h].at, tries |-> 0,
             texted |-> purpose = "join" \/ known] \in CodeRow
        BY <3>1 DEF CodeRow
      <3>3. [code[c] EXCEPT !.state = "spent"] \in CodeRow
        BY <1>1 DEF CodeRow
      <3> QED
        BY <1>1, <3>2, <3>3 DEF Issue
    <2>2. code' \in [Codes -> CodeRow]
      BY <2>1 DEF Issue
    <2>3. handler' \in [Threads -> Handler]
      BY <1>1, FreeTyped DEF Issue
    <2> QED
      BY <2>2, <2>3 DEF Issue, CodesIInv, CodesTypeOK
  <1>7. JudgedApart'
    <2>1. \A g \in Threads : handler'[g].pc = "judging" => g # h /\ handler[g].pc = "judging" /\ handler'[g] = handler[g]
      BY <1>3 DEF Free
    <2>2. ASSUME NEW g \in Threads, handler'[g].pc = "judging" PROVE handler[g].rows \subseteq Open'
      <3>1. handler[g].rows \subseteq Open
        BY <2>1, <2>2 DEF CodesIInv, JudgedApart
      <3>2. \A c \in handler[g].rows : c \notin handler[h].rows
        BY <2>1, <2>2 DEF Issue, Locked
      <3>3. \A c \in handler[g].rows : c \in Codes /\ c # id /\ code[c].state = "open"
        BY <3>1, <1>2 DEF Open
      <3> QED
        BY <3>2, <3>3, <1>5 DEF Open
    <2> QED
      BY <2>1, <2>2 DEF CodesIInv, JudgedApart
  <1>8. NumbersFresh'
    <2>1. \A c \in Codes : code[c].state = "none" /\ c # id => code'[c].state = "none"
      <3>1. \A c \in handler[h].rows : c \notin Codes \/ code[c].state # "none"
        BY DEF Issue, CodesIInv, RowsExist
      <3> QED
        BY <3>1, <1>5
    <2>2. \A c \in Codes : c >= issued => code'[c].state = "none"
      <3>1. id \in Int /\ issued \in Int /\ \A c \in Codes : c \in Int
        BY <1>2 DEF Codes, CodesIInv, CodesTypeOK
      <3>2. \A c \in Codes : c >= issued => c # id
        BY <3>1, <1>2
      <3> QED
        BY <2>1, <3>2 DEF CodesIInv, NumbersFresh
    <2>3. \A g \in Threads : Requesting(g)' => g # h /\ Requesting(g) /\ handler'[g] = handler[g]
      BY <1>3 DEF Requesting, Free
    <2>4. \A g \in Threads \ {h} : Requesting(g) => handler[g].id # id
      BY <1>2 DEF CodesIInv, NumbersFresh
    <2>5. issued' = issued
      BY DEF Issue
    <2> QED
      BY <2>1, <2>2, <2>3, <2>4, <2>5 DEF CodesIInv, NumbersFresh
  <1>9. AdmittedAreSpent' /\ GuessesCounted'
    <2>1. judged' = judged /\ admitted' = admitted
      BY DEF Issue
    <2>2. admitted[id] # 1 /\ judged[id] = 0
      BY <1>2 DEF CodesIInv, AdmittedAreSpent, GuessesCounted
    <2>3. AdmittedAreSpent'
      BY <1>5, <2>1, <2>2 DEF CodesIInv, AdmittedAreSpent
    <2>4. \A c \in Codes \ {id} : code'[c].state = "none" => code[c].state = "none"
      BY <1>5
    <2>5. GuessesCounted'
      BY <1>2, <1>4, <1>5, <2>1, <2>2, <2>4 DEF CodesIInv, GuessesCounted
    <2> QED
      BY <2>3, <2>5
  <1>10. RowsExist'
    <2>1. ASSUME NEW g \in Threads, NEW c \in handler'[g].rows PROVE code'[c].state # "none"
      <3>1. handler'[g] = handler[g] /\ code[c].state # "none"
        BY <1>3, <2>1 DEF Free, CodesIInv, RowsExist
      <3>2. c \in Codes
        BY <1>1, <3>1, <2>1 DEF Handler
      <3> QED
        BY <1>4, <1>5, <3>1, <3>2
    <2> QED
      BY <2>1 DEF RowsExist
  <1> QED
    BY <1>6, <1>7, <1>8, <1>9, <1>10 DEF CodesIInv

-----------------------------------------------------------------------------
(* Redemptions.                                                              *)

LEMMA RedeemInv ==
    ASSUME CodesIInv, NEW h \in Threads, NEW typed \in Codes \cup {Wrong}, Redeem(h, typed)
    PROVE  CodesIInv'
  <1> DEFINE new == [pc |-> "waiting", id |-> typed, at |-> clock, rows |-> Open]
  <1>1. typed \in 0 .. MaxCodes
    BY Bounds DEF Codes, Wrong
  <1>2. new \in Handler
    <2>1. clock \in 0 .. MaxClock /\ Open \subseteq Codes
      BY DEF CodesIInv, CodesTypeOK, Open
    <2> QED
      BY <1>1, <2>1 DEF Handler
  <1>3. handler' = [handler EXCEPT ![h] = new] /\ UNCHANGED <<code, issued, judged, admitted>>
    BY DEF Redeem
  <1>4. uses' \in 0 .. MaxUses
    BY Bounds DEF Redeem, CodesIInv, CodesTypeOK
  <1> HIDE DEF new
  <1>5. new.pc = "waiting" /\ \A c \in new.rows : code[c].state # "none"
    BY DEF new, Open
  <1>6. /\ handler' \in [Threads -> Handler]
        /\ RowsExist' /\ JudgedApart' /\ NumbersFresh' /\ AdmittedAreSpent' /\ GuessesCounted'
    BY <1>2, <1>3, <1>5, HandlerMoves
  <1> QED
    BY <1>4, <1>6 DEF Redeem, CodesIInv, CodesTypeOK

\* The locks are taken when nobody else holds them.
LEMMA LockInv == ASSUME CodesIInv, NEW h \in Threads, Lock(h) PROVE CodesIInv'
  <1> DEFINE rows == handler[h].rows \cap Open
             new == [pc |-> "judging", id |-> handler[h].id, at |-> handler[h].at, rows |-> rows]
  <1>1. handler[h] \in Handler /\ Open \subseteq Codes
    BY DEF CodesIInv, CodesTypeOK, Open
  <1>2. new \in Handler
    BY <1>1 DEF Handler
  <1>3. handler' = [handler EXCEPT ![h] = new] /\ UNCHANGED <<code, issued, judged, admitted>>
    BY DEF Lock, GoOn
  <1>4. \A g \in Threads \ {h} : handler[g].pc = "judging" => handler[g].rows \cap rows = {}
    BY DEF Lock, Locked
  <1>5. rows \subseteq Open /\ \A c \in rows : code[c].state # "none"
    BY DEF Open
  <1> HIDE DEF rows
  <1>6. new.pc = "judging" /\ new.rows = rows
    OBVIOUS
  <1> HIDE DEF new
  <1>7. /\ handler' \in [Threads -> Handler]
        /\ RowsExist' /\ JudgedApart' /\ NumbersFresh' /\ AdmittedAreSpent' /\ GuessesCounted'
    BY <1>2, <1>3, <1>4, <1>5, <1>6, HandlerMoves
  <1> QED
    BY <1>7 DEF Lock, CodesIInv, CodesTypeOK

\* A handler that ends without a row.
LEMMA HandlerEnds ==
    ASSUME CodesIInv, NEW h \in Threads, handler' = [handler EXCEPT ![h] = Free],
           UNCHANGED <<code, issued, judged, admitted>>
    PROVE  /\ handler' \in [Threads -> Handler]
           /\ RowsExist' /\ JudgedApart' /\ NumbersFresh' /\ AdmittedAreSpent' /\ GuessesCounted'
  <1>1. Free.pc = "idle" /\ Free.rows = {}
    BY DEF Free
  <1> QED
    BY <1>1, FreeTyped, HandlerMoves

LEMMA RefuseInv == ASSUME CodesIInv, NEW h \in Threads, Refuse(h) PROVE CodesIInv'
  <1>1. /\ handler' \in [Threads -> Handler]
        /\ RowsExist' /\ JudgedApart' /\ NumbersFresh' /\ AdmittedAreSpent' /\ GuessesCounted'
    BY HandlerEnds DEF Refuse
  <1> QED
    BY <1>1 DEF Refuse, CodesIInv, CodesTypeOK

LEMMA ServeInv == ASSUME CodesIInv, NEW h \in Threads, Serve(h) PROVE CodesIInv'
  <1>1. /\ handler' \in [Threads -> Handler]
        /\ RowsExist' /\ JudgedApart' /\ NumbersFresh' /\ AdmittedAreSpent' /\ GuessesCounted'
    BY HandlerEnds DEF Serve
  <1>2. known' \in BOOLEAN
    BY DEF Serve, CodesIInv, CodesTypeOK
  <1>3. served' \in [Codes -> Nat]
    <2>1. served \in [Codes -> Nat]
      BY DEF CodesIInv, CodesTypeOK
    <2>2. \A c \in Codes : served[c] + 1 \in Nat
      BY <2>1
    <2>3. [served EXCEPT ![handler[h].id] = @ + 1] \in [Codes -> Nat]
      BY <2>1, <2>2
    <2> QED
      BY <2>1, <2>3 DEF Serve
  <1> QED
    BY <1>1, <1>2, <1>3 DEF Serve, CodesIInv, CodesTypeOK

\* A wrong guess adds one to both counts of a row that still bears one.
LEMMA MissInv == ASSUME CodesIInv, NEW h \in Threads, Miss(h) PROVE CodesIInv'
  <1>1. PICK c \in Judged(h) : code' = Counted(c) /\ judged' = [judged EXCEPT ![c] = @ + 1]
    BY DEF Miss
  <1>2. /\ handler \in [Threads -> Handler] /\ code \in [Codes -> CodeRow]
        /\ judged \in [Codes -> Nat]
    BY DEF CodesIInv, CodesTypeOK
  <1>3. c \in handler[h].rows /\ c \in Open /\ c \in Codes /\ code[c].tries < MaxTries
    BY DEF Judged, Miss, CodesIInv, JudgedApart, Open
  <1>4. code[c].tries \in 0 .. MaxTries /\ code[c].tries + 1 \in 0 .. MaxTries
    BY <1>2, <1>3, Bounds DEF CodeRow
  <1>5. /\ code'[c] = [code[c] EXCEPT !.tries = code[c].tries + 1]
        /\ \A d \in Codes \ {c} : code'[d] = code[d]
    BY <1>1, <1>2, <1>3 DEF Counted
  <1>6. /\ code'[c].tries = code[c].tries + 1 /\ code'[c].state = code[c].state
        /\ code'[c] \in CodeRow
    BY <1>2, <1>3, <1>4, <1>5 DEF CodeRow
  <1>7. code' \in [Codes -> CodeRow]
    BY <1>1, <1>2, <1>3, <1>5, <1>6 DEF Counted
  <1>8. \A d \in Codes : code'[d].state = code[d].state
    BY <1>5, <1>6
  <1>9. handler'[h] = Free /\ \A g \in Threads \ {h} : handler'[g] = handler[g]
    BY <1>2 DEF Miss
  <1>10. CodesTypeOK'
    <2>1. handler' \in [Threads -> Handler]
      BY <1>2, FreeTyped DEF Miss
    <2>2. judged' \in [Codes -> Nat]
      <3>1. judged[c] + 1 \in Nat
        BY <1>2, <1>3
      <3> QED
        BY <1>1, <1>2, <1>3, <3>1
    <2> QED
      BY <1>7, <2>1, <2>2 DEF Miss, CodesIInv, CodesTypeOK
  <1>11. JudgedApart'
    <2>1. Open' = Open
      BY <1>8 DEF Open
    <2> QED
      BY <1>9, <2>1 DEF Free, CodesIInv, JudgedApart
  <1>12. NumbersFresh'
    <2>1. \A g \in Threads : Requesting(g)' => g # h /\ Requesting(g) /\ handler'[g] = handler[g]
      BY <1>9 DEF Requesting, Free
    <2>2. issued' = issued
      BY DEF Miss
    <2> QED
      BY <1>8, <2>1, <2>2 DEF CodesIInv, NumbersFresh
  <1>13. RowsExist'
    <2>1. \A g \in Threads : handler[g].rows \subseteq Codes
      BY <1>2 DEF Handler
    <2> QED
      BY <1>8, <1>9, <2>1 DEF Free, CodesIInv, RowsExist
  <1>14. AdmittedAreSpent'
    BY <1>8 DEF Miss, CodesIInv, AdmittedAreSpent
  <1>15. GuessesCounted'
    <2>1. judged'[c] = judged[c] + 1 /\ judged[c] <= code[c].tries /\ judged[c] \in Nat
      BY <1>1, <1>2, <1>3 DEF CodesIInv, GuessesCounted
    <2>2. judged'[c] <= code'[c].tries /\ code'[c].state # "none"
      BY <1>3, <1>4, <1>6, <2>1 DEF Open
    <2>3. \A d \in Codes \ {c} : judged'[d] = judged[d]
      BY <1>1, <1>2
    <2> QED
      BY <1>5, <2>2, <2>3 DEF CodesIInv, GuessesCounted
  <1> QED
    BY <1>10, <1>11, <1>12, <1>13, <1>14, <1>15 DEF CodesIInv

\* A code that passes was unspent, and nobody else is judging it.
LEMMA HitInv == ASSUME CodesIInv, NEW h \in Threads, Hit(h) PROVE CodesIInv'
  <1>1. PICK c \in Judged(h) : /\ code' = [code EXCEPT ![c].state = "spent"]
                               /\ admitted' = [admitted EXCEPT ![c] = @ + 1]
    BY DEF Hit
  <1> DEFINE new == [pc |-> "passed", id |-> handler[h].id, at |-> handler[h].at, rows |-> handler[h].rows]
  <1>2. /\ handler \in [Threads -> Handler] /\ code \in [Codes -> CodeRow]
        /\ admitted \in [Codes -> Nat]
    BY DEF CodesIInv, CodesTypeOK
  <1>3. c \in handler[h].rows /\ c \in Codes /\ code[c].state = "open" /\ handler[h].pc = "judging"
    BY DEF Judged, Hit, CodesIInv, JudgedApart, Open
  <1>4. /\ code'[c] = [code[c] EXCEPT !.state = "spent"]
        /\ \A d \in Codes \ {c} : code'[d] = code[d]
    BY <1>1, <1>2, <1>3
  <1>5. code'[c].state = "spent" /\ code'[c].tries = code[c].tries /\ code'[c] \in CodeRow
    BY <1>2, <1>3, <1>4 DEF CodeRow
  <1>6. new \in Handler
    BY <1>2 DEF Handler
  <1>7. handler'[h] = new /\ \A g \in Threads \ {h} : handler'[g] = handler[g]
    BY <1>2 DEF Hit, GoOn
  <1>8. handler' \in [Threads -> Handler]
    BY <1>2, <1>6 DEF Hit, GoOn
  <1>9. new.pc = "passed" /\ new.rows = handler[h].rows
    OBVIOUS
  <1> HIDE DEF new
  <1>10. CodesTypeOK'
    <2>1. code' \in [Codes -> CodeRow]
      BY <1>1, <1>2, <1>3, <1>4, <1>5
    <2>2. admitted' \in [Codes -> Nat]
      <3>1. admitted[c] + 1 \in Nat
        BY <1>2, <1>3
      <3> QED
        BY <1>1, <1>2, <1>3, <3>1
    <2> QED
      BY <1>8, <2>1, <2>2 DEF Hit, CodesIInv, CodesTypeOK
  <1>11. JudgedApart'
    <2>1. \A g \in Threads : handler'[g].pc = "judging" => g # h /\ handler[g].pc = "judging" /\ handler'[g] = handler[g]
      BY <1>7, <1>9
    <2>2. ASSUME NEW g \in Threads, handler'[g].pc = "judging" PROVE handler[g].rows \subseteq Open'
      <3>1. handler[g].rows \subseteq Open /\ handler[g].rows \cap handler[h].rows = {}
        BY <1>3, <2>1, <2>2 DEF CodesIInv, JudgedApart
      <3> QED
        BY <1>3, <1>4, <3>1 DEF Open
    <2> QED
      BY <2>1, <2>2 DEF CodesIInv, JudgedApart
  <1>12. NumbersFresh'
    <2>1. \A g \in Threads : Requesting(g)' => g # h /\ Requesting(g) /\ handler'[g] = handler[g]
      BY <1>7, <1>9 DEF Requesting
    <2>2. \A d \in Codes : code[d].state = "none" => code'[d].state = "none"
      BY <1>3, <1>4
    <2>3. issued' = issued
      BY DEF Hit
    <2> QED
      BY <2>1, <2>2, <2>3 DEF CodesIInv, NumbersFresh
  <1>13. RowsExist'
    <2>1. \A g \in Threads : handler'[g].rows = handler[g].rows /\ handler[g].rows \subseteq Codes
      BY <1>2, <1>7, <1>9 DEF Handler
    <2>2. \A d \in Codes : code[d].state # "none" => code'[d].state # "none"
      BY <1>4, <1>5
    <2> QED
      BY <2>1, <2>2 DEF CodesIInv, RowsExist
  <1>14. AdmittedAreSpent'
    <2>1. admitted[c] = 0 /\ admitted'[c] = admitted[c] + 1
      BY <1>1, <1>2, <1>3 DEF CodesIInv, AdmittedAreSpent
    <2>2. \A d \in Codes \ {c} : admitted'[d] = admitted[d]
      BY <1>1, <1>2
    <2>3. admitted'[c] = 1
      BY <2>1
    <2>4. \A d \in Codes \ {c} : admitted'[d] \in {0, 1} /\ (admitted'[d] = 1 => code'[d].state = "spent")
      BY <1>4, <2>2 DEF CodesIInv, AdmittedAreSpent
    <2> QED
      BY <1>5, <2>3, <2>4 DEF AdmittedAreSpent
  <1>15. GuessesCounted'
    <2>1. judged' = judged
      BY DEF Hit
    <2> QED
      BY <1>4, <1>5, <2>1 DEF CodesIInv, GuessesCounted
  <1> QED
    BY <1>10, <1>11, <1>12, <1>13, <1>14, <1>15 DEF CodesIInv

-----------------------------------------------------------------------------
LEMMA ApiDiesInv == ASSUME CodesIInv, ApiDies PROVE CodesIInv'
  <1>1. \A h \in Threads : handler'[h] = Free
    BY DEF ApiDies
  <1>2. handler' \in [Threads -> Handler]
    BY FreeTyped DEF ApiDies
  <1>3. CodesTypeOK'
    BY <1>2 DEF ApiDies, CodesIInv, CodesTypeOK
  <1>4. RowsExist' /\ JudgedApart' /\ NumbersFresh'
    BY <1>1 DEF ApiDies, CodesIInv, RowsExist, JudgedApart, NumbersFresh, Requesting, Free
  <1>5. AdmittedAreSpent' /\ GuessesCounted'
    BY DEF ApiDies, CodesIInv, AdmittedAreSpent, GuessesCounted
  <1> QED
    BY <1>3, <1>4, <1>5 DEF CodesIInv

LEMMA CodesQuietInv == ASSUME CodesIInv, CodesTick \/ UNCHANGED codeVars PROVE CodesIInv'
  <1>1. clock' \in 0 .. MaxClock
    BY Bounds DEF CodesTick, codeVars, CodesIInv, CodesTypeOK
  <1>2. UNCHANGED <<code, issued, handler, judged, admitted>>
    BY DEF CodesTick, codeVars
  <1>3. CodesTypeOK'
    BY <1>1 DEF CodesTick, codeVars, CodesIInv, CodesTypeOK
  <1> QED
    BY <1>2, <1>3 DEF CodesIInv, RowsExist, JudgedApart, NumbersFresh, AdmittedAreSpent,
                      GuessesCounted, Open, Requesting

LEMMA CodesNextInv == ASSUME CodesIInv, [CodesNext]_codeVars PROVE CodesIInv'
  <1>1. CASE CodesNext
    <2>1. ASSUME NEW h \in Threads, Request(h) \/ Answer(h) PROVE CodesIInv'
      BY <2>1, RequestInv, AnswerInv
    <2>2. ASSUME NEW h \in Threads, Step(h) PROVE CodesIInv'
      BY <2>2, SupersedeInv, IssueInv, LockInv, RefuseInv, MissInv, HitInv, ServeInv DEF Step
    <2>3. ASSUME NEW h \in Threads, NEW typed \in Codes \cup {Wrong}, Redeem(h, typed) PROVE CodesIInv'
      BY <2>3, RedeemInv
    <2>4. CASE ApiDies \/ CodesTick
      BY <2>4, ApiDiesInv, CodesQuietInv
    <2> QED
      BY <1>1, <2>1, <2>2, <2>3, <2>4 DEF CodesNext
  <1>2. CASE UNCHANGED codeVars
    BY <1>2, CodesQuietInv
  <1> QED
    BY <1>1, <1>2

\* The inductive invariant holds in every behaviour.
THEOREM CodesInvariance == CodesSpec => []CodesIInv
  <1>1. CodesInit => CodesIInv
    BY CodesInitInv
  <1>2. CodesIInv /\ [CodesNext]_codeVars => CodesIInv'
    BY CodesNextInv
  <1> QED
    BY <1>1, <1>2, PTL DEF CodesSpec

\* Type correctness, for any number of handlers and codes.
THEOREM CodesTyping == CodesSpec => []CodesTypeOK
  <1>1. CodesIInv => CodesTypeOK
    BY DEF CodesIInv
  <1> QED
    BY <1>1, CodesInvariance, PTL

\* smscode.verify: however many requests carry a code at the same time, one passes.
THEOREM OneAdmission == CodesSpec => []CodeAdmitsOnce
  <1>1. CodesIInv => CodeAdmitsOnce
    BY DEF CodesIInv, AdmittedAreSpent, CodeAdmitsOnce
  <1> QED
    BY <1>1, CodesInvariance, PTL

\* smscode.verify: no more than MAX_ATTEMPTS wrong guesses are judged against a code.
THEOREM FewGuesses == CodesSpec => []GuessesBounded
  <1>1. ASSUME CodesIInv, NEW c \in Codes PROVE judged[c] <= MaxTries
    <2>1. judged[c] <= code[c].tries /\ judged[c] \in Nat
      BY <1>1 DEF CodesIInv, GuessesCounted, CodesTypeOK
    <2>2. code[c].tries \in 0 .. MaxTries
      BY <1>1 DEF CodesIInv, CodesTypeOK, CodeRow
    <2> QED
      BY <2>1, <2>2, Bounds
  <1>2. CodesIInv => GuessesBounded
    BY <1>1 DEF GuessesBounded
  <1> QED
    BY <1>2, CodesInvariance, PTL

-----------------------------------------------------------------------------
(***************************************************************************)
(* A message of the outbox reaches its customer once, for every number of  *)
(* phones, chats, messages and shares and every MAX_ATTEMPTS, unless an    *)
(* answer was lost or the worker died.  The invariant: the rows of a pass  *)
(* are still queued, so a message that was heard is sent, or is the one    *)
(* whose answer the pass is about to write.                                *)
(***************************************************************************)
Causes == {"unreachable", "refused", "lost", "died"}

\* A row of sms_messages, of however many attempts.
SmsRow == [phone : Phones, kind : Kinds, status : {"queued", "sent", "unlinked", "failed"},
        attempts : Nat, waits : BOOLEAN, stale : BOOLEAN]

Pcs == {"idle", "batch", "requeue", "due", "deliver", "calling", "ok", "bad"}

DeliveryType ==
    /\ message \in Seq(SmsRow) /\ Len(message) <= MaxMessages
    /\ heard \in [Ids -> Nat]
    /\ mishaps \in Seq(Causes)
    /\ shares \in Seq(Share) /\ offset \in Nat
    /\ pass \in [pc : Pcs, next : Nat, last : Nat, rows : SUBSET Ids]

\* A pass holds rows from due() on, and they are queued.
RowsAreQueued ==
    /\ pass.rows \subseteq Queued
    /\ \A i \in pass.rows : message[i].status = "queued"
    /\ pass.pc \in {"idle", "batch", "requeue", "due"} => pass.rows = {}
    /\ pass.pc \in {"calling", "ok", "bad"} => pass.rows # {}

Quiet == ~Happened({"lost", "died"})

HeardAreSent ==
    Quiet => \A i \in Ids :
        /\ heard[i] <= 1
        /\ heard[i] = 1 => i \in Queued /\ (message[i].status = "sent"
                                              \/ (pass.pc = "ok" /\ i = First))

DeliveryIInv == DeliveryType /\ RowsAreQueued /\ HeardAreSent

-----------------------------------------------------------------------------
\* The first row of a pass is one of its rows.
LEMMA FirstIsARow ==
    ASSUME DeliveryType, RowsAreQueued, pass.rows # {}
    PROVE  First \in pass.rows /\ First \in Queued /\ First \in Ids
  <1>1. Queued \subseteq Ids /\ Queued \subseteq Nat
    BY OutboxBounds DEF DeliveryType, Queued, Ids
  <1>2. \E x \in pass.rows : \A y \in pass.rows : x <= y
    <2>1. IsWellFoundedOn(OpToRel(<, Nat), Nat)
      BY NatLessThanWellFounded
    <2>2. pass.rows \subseteq Nat
      BY <1>1 DEF RowsAreQueued
    <2>3. PICK x \in pass.rows : \A y \in pass.rows : ~ (<<y, x>> \in OpToRel(<, Nat))
      BY <2>1, <2>2, WFMin
    <2>4. \A y \in pass.rows : ~(y < x)
      BY <2>2, <2>3 DEF OpToRel
    <2> QED
      BY <2>2, <2>4
  <1>3. First \in pass.rows
    BY <1>2 DEF First, Min
  <1> QED
    BY <1>1, <1>3 DEF RowsAreQueued

\* A mishap does not undo an earlier one.
LEMMA MishapsLast ==
    ASSUME mishaps \in Seq(Causes), NEW what \in Causes, Mishap(what)
    PROVE  /\ mishaps' \in Seq(Causes)
           /\ Quiet' => Quiet /\ what \notin {"lost", "died"}
  <1>1. mishaps' = Append(mishaps, what)
    BY DEF Mishap
  <1>2. /\ mishaps' \in Seq(Causes) /\ Len(mishaps') = Len(mishaps) + 1
        /\ \A n \in 1 .. Len(mishaps) : mishaps'[n] = mishaps[n]
        /\ mishaps'[Len(mishaps) + 1] = what
    BY <1>1
  <1>3. DOMAIN mishaps = 1 .. Len(mishaps) /\ DOMAIN mishaps' = 1 .. Len(mishaps) + 1
        /\ Len(mishaps) \in Nat
    BY <1>2
  <1> QED
    BY <1>2, <1>3 DEF Quiet, Happened

\* Initially nothing is queued and nothing heard.
LEMMA DeliveryInit == OutboxInit => DeliveryIInv
  <1> SUFFICES ASSUME OutboxInit PROVE DeliveryIInv
    OBVIOUS
  <1>1. /\ message = <<>> /\ mishaps = <<>> /\ heard = [i \in Ids |-> 0] /\ pass = Resting
        /\ shares = <<>> /\ offset = 0
    BY DEF OutboxInit
  <1>2. DeliveryType
    BY <1>1, OutboxBounds DEF DeliveryType, Resting, Pcs
  <1> QED
    BY <1>1, <1>2 DEF DeliveryIInv, RowsAreQueued, HeardAreSent, Resting, Queued

\* A step in which nobody hears anything, and what is sent stays sent.
LEMMA NobodyHears ==
    ASSUME DeliveryIInv, DeliveryType', RowsAreQueued', heard' = heard,
           Quiet' => Quiet /\ (pass' = pass \/ pass.pc # "ok"),
           \A i \in Queued : i \in Queued' /\ (message[i].status = "sent"
                                                 => message'[i].status = "sent")
    PROVE  DeliveryIInv'
  <1>1. HeardAreSent'
    BY DEF DeliveryIInv, HeardAreSent, First
  <1> QED
    BY <1>1 DEF DeliveryIInv

\* One message rewritten leaves a queue of messages.
LEMMA RewrittenQueue ==
    ASSUME message \in Seq(SmsRow), NEW i \in Queued, NEW m \in SmsRow,
           message' = [message EXCEPT ![i] = m]
    PROVE  /\ message' \in Seq(SmsRow) /\ Len(message') = Len(message) /\ Queued' = Queued
           /\ \A j \in Queued : message'[j] = IF j = i THEN m ELSE message[j]
  BY DEF Queued

\* Messages queued, contacts shared, time that passes: no step of a pass.
LEMMA OthersKeepDelivery ==
    ASSUME DeliveryIInv,
           \/ \E p \in Phones, kind \in Kinds : Queue(p, kind)
           \/ \E s \in Share : ShareContact(s)
           \/ \E i \in Queued : BackoffEnds(i) \/ GrowsOld(i)
           \/ UNCHANGED outboxVars
    PROVE  DeliveryIInv'
  <1>0. DeliveryType /\ RowsAreQueued
    BY DEF DeliveryIInv
  <1>1. ASSUME NEW p \in Phones, NEW kind \in Kinds, Queue(p, kind) PROVE DeliveryIInv'
    <2> DEFINE m == [phone |-> p, kind |-> kind, status |-> "queued",
                     attempts |-> 0, waits |-> FALSE, stale |-> FALSE]
    <2>1. m \in SmsRow
      BY OutboxBounds DEF SmsRow
    <2>2. /\ message' = Append(message, m) /\ Len(message) < MaxMessages
          /\ UNCHANGED <<shares, offset, pass, heard, mishaps>>
      BY <1>1 DEF Queue
    <2> HIDE DEF m
    <2>3. /\ message' \in Seq(SmsRow) /\ Len(message') <= MaxMessages
          /\ Queued \subseteq Queued' /\ \A i \in Queued : message'[i] = message[i]
      BY <1>0, <2>1, <2>2, OutboxBounds DEF DeliveryType, Queued
    <2>4. DeliveryType' /\ RowsAreQueued'
      BY <1>0, <2>2, <2>3 DEF DeliveryType, RowsAreQueued
    <2> QED
      BY <2>2, <2>3, <2>4, NobodyHears DEF Quiet, Happened
  <1>2. ASSUME NEW s \in Share, ShareContact(s) PROVE DeliveryIInv'
    <2>1. /\ shares' \in Seq(Share)
          /\ UNCHANGED <<offset, message, pass, heard, mishaps>>
      BY <1>0, <1>2 DEF ShareContact, DeliveryType
    <2>2. DeliveryType' /\ RowsAreQueued'
      BY <1>0, <2>1 DEF DeliveryType, RowsAreQueued, Queued
    <2> QED
      BY <2>1, <2>2, NobodyHears DEF Quiet, Happened, Queued
  <1>3. ASSUME NEW i \in Queued, BackoffEnds(i) \/ GrowsOld(i) PROVE DeliveryIInv'
    <2>1. message[i] \in SmsRow /\ message \in Seq(SmsRow)
      BY <1>0 DEF DeliveryType, Queued
    <2>2. /\ UNCHANGED <<shares, offset, pass, heard, mishaps>>
          /\ \/ message' = [message EXCEPT ![i] = [message[i] EXCEPT !.waits = FALSE]]
             \/ message' = [message EXCEPT ![i] = [message[i] EXCEPT !.stale = TRUE]]
      BY <1>3 DEF BackoffEnds, GrowsOld
    <2>3. \E m \in SmsRow : m.status = message[i].status
                             /\ message' = [message EXCEPT ![i] = m]
      <3>1. /\ [message[i] EXCEPT !.waits = FALSE] \in SmsRow
            /\ [message[i] EXCEPT !.stale = TRUE] \in SmsRow
            /\ [message[i] EXCEPT !.waits = FALSE].status = message[i].status
            /\ [message[i] EXCEPT !.stale = TRUE].status = message[i].status
        BY <2>1 DEF SmsRow
      <3> QED
        BY <2>2, <3>1
    <2>4. PICK m \in SmsRow : m.status = message[i].status
                               /\ message' = [message EXCEPT ![i] = m]
      BY <2>3
    <2>5. /\ message' \in Seq(SmsRow) /\ Len(message') = Len(message) /\ Queued' = Queued
          /\ \A j \in Queued : message'[j].status = message[j].status
      <3>1. /\ message' \in Seq(SmsRow) /\ Len(message') = Len(message) /\ Queued' = Queued
            /\ \A j \in Queued : message'[j] = IF j = i THEN m ELSE message[j]
        BY <2>1, <2>4, RewrittenQueue
      <3> QED
        BY <2>4, <3>1
    <2>6. DeliveryType' /\ RowsAreQueued'
      BY <1>0, <2>2, <2>5 DEF DeliveryType, RowsAreQueued
    <2> QED
      BY <2>2, <2>5, <2>6, NobodyHears DEF Quiet, Happened
  <1>4. CASE UNCHANGED outboxVars
    <2>1. DeliveryType' /\ RowsAreQueued'
      BY <1>0, <1>4 DEF DeliveryType, RowsAreQueued, Queued, outboxVars
    <2> QED
      BY <1>4, <2>1, NobodyHears DEF Quiet, Happened, Queued, outboxVars
  <1> QED
    BY <1>1, <1>2, <1>3, <1>4

\* The steps of a pass that rewrite no message and call nobody, or are refused.
LEMMA PassKeepsDelivery ==
    ASSUME DeliveryIInv,
           \/ Poll \/ PollFails \/ Link \/ LinkFails \/ Acknowledge \/ Due \/ Call \/ Refuses
           \/ Rest \/ WorkerDies
    PROVE  DeliveryIInv'
  <1>0. DeliveryType /\ RowsAreQueued
    BY DEF DeliveryIInv
  <1>1. SUFFICES ASSUME message' = message /\ heard' = heard /\ shares' = shares
                 PROVE  /\ mishaps' \in Seq(Causes) /\ offset' \in Nat
                        /\ pass' \in [pc : Pcs, next : Nat, last : Nat, rows : SUBSET Ids]
                        /\ RowsAreQueued' /\ (Quiet' => Quiet /\ pass.pc # "ok")
    <2>1. message' = message /\ heard' = heard /\ shares' = shares
      BY DEF Poll, PollFails, Link, LinkFails, Acknowledge, Due, Call, Refuses, Rest, WorkerDies
    <2> QED
      BY <1>0, <1>1, <2>1, NobodyHears DEF DeliveryType, Queued
  <1>2. mishaps \in Seq(Causes) /\ offset \in Nat /\ Len(shares) \in Nat
        /\ pass \in [pc : Pcs, next : Nat, last : Nat, rows : SUBSET Ids]
    BY <1>0 DEF DeliveryType
  <1>3. Queued \subseteq Ids /\ Queued' = Queued
    BY <1>0, <1>1, OutboxBounds DEF DeliveryType, Queued, Ids
  <1>4. mishaps' = mishaps => (Quiet' <=> Quiet)
    BY DEF Quiet, Happened
  <1>5. CASE Poll
    <2>1. /\ offset' = offset /\ mishaps' = mishaps /\ pass.pc = "idle" /\ pass'.rows = {}
          /\ pass' \in [pc : Pcs, next : Nat, last : Nat, rows : SUBSET Ids]
          /\ pass'.pc \in {"requeue", "batch"}
      BY <1>2, <1>5 DEF Poll, Pcs
    <2> QED
      BY <1>2, <1>4, <2>1 DEF RowsAreQueued
  <1>6. CASE PollFails
    BY <1>0, <1>1, <1>2, <1>3, <1>6, MishapsLast DEF PollFails, Goto, RowsAreQueued, Pcs, Causes
  <1>7. CASE Link
    BY <1>0, <1>1, <1>2, <1>3, <1>4, <1>7 DEF Link, RowsAreQueued, Pcs
  <1>8. CASE LinkFails
    BY <1>0, <1>1, <1>2, <1>3, <1>4, <1>8 DEF LinkFails, Resting, RowsAreQueued, Pcs
  <1>9. CASE Acknowledge
    BY <1>0, <1>1, <1>2, <1>3, <1>4, <1>9 DEF Acknowledge, Goto, RowsAreQueued, Pcs
  <1>10. CASE Due
    <2>1. pass' = [pc |-> "deliver", next |-> 0, last |-> 0,
                   rows |-> {i \in Queued : DueNow(message[i])}]
      BY <1>10 DEF Due, Resting
    <2>2. /\ pass'.rows \subseteq Queued /\ pass'.pc = "deliver"
          /\ \A i \in pass'.rows : message[i].status = "queued"
          /\ pass' \in [pc : Pcs, next : Nat, last : Nat, rows : SUBSET Ids]
      BY <1>3, <2>1 DEF DueNow, Pcs
    <2>3. offset' = offset /\ mishaps' = mishaps /\ pass.pc = "due"
      BY <1>10 DEF Due
    <2> QED
      BY <1>1, <1>2, <1>3, <1>4, <2>2, <2>3 DEF RowsAreQueued
  <1>11. CASE Call
    BY <1>0, <1>1, <1>2, <1>3, <1>4, <1>11 DEF Call, Goto, RowsAreQueued, Pcs
  <1>12. CASE Refuses
    BY <1>0, <1>1, <1>2, <1>3, <1>12, MishapsLast DEF Refuses, Goto, RowsAreQueued, Pcs, Causes
  <1>13. CASE Rest
    BY <1>0, <1>1, <1>2, <1>3, <1>4, <1>13 DEF Rest, Resting, RowsAreQueued, Pcs
  <1>14. CASE WorkerDies
    BY <1>0, <1>1, <1>2, <1>3, <1>14, MishapsLast DEF WorkerDies, Resting, RowsAreQueued, Pcs, Causes
  <1> QED
    BY <1>5, <1>6, <1>7, <1>8, <1>9, <1>10, <1>11, <1>12, <1>13, <1>14

\* Only a parked message goes back to the queue.
LEMMA RequeueKeepsDelivery == DeliveryIInv /\ Requeue => DeliveryIInv'
  <1> SUFFICES ASSUME DeliveryIInv, Requeue PROVE DeliveryIInv'
    OBVIOUS
  <1>0. DeliveryType /\ RowsAreQueued
    BY DEF DeliveryIInv
  <1>1. /\ pass.pc = "requeue" /\ pass' = [pass EXCEPT !.pc = "due"]
        /\ UNCHANGED <<shares, offset, heard, mishaps>>
    BY DEF Requeue, Goto
  <1> DEFINE back(i) == [message[i] EXCEPT !.status = "queued", !.waits = FALSE]
  <1>2. message' = [i \in Queued |-> IF Reachable(message[i]) THEN back(i) ELSE message[i]]
    BY DEF Requeue
  <1>3. ASSUME NEW i \in Queued
        PROVE  message[i] \in SmsRow /\ back(i) \in SmsRow
    <2>1. message[i] \in SmsRow
      BY <1>0 DEF DeliveryType, Queued
    <2> QED
      BY <2>1 DEF SmsRow
  <1> HIDE DEF back
  <1>4. /\ message' \in Seq(SmsRow) /\ Len(message') = Len(message) /\ Queued' = Queued
        /\ \A i \in Queued : message'[i] = IF Reachable(message[i]) THEN back(i) ELSE message[i]
    <2>1. message \in Seq(SmsRow) /\ Queued = 1 .. Len(message) /\ Len(message) \in Nat
      BY <1>0 DEF DeliveryType, Queued
    <2>2. message' \in [1 .. Len(message) -> SmsRow]
      BY <1>2, <1>3, <2>1
    <2>3. message' \in Seq(SmsRow) /\ Len(message') = Len(message)
      BY <2>1, <2>2
    <2> QED
      BY <1>2, <2>1, <2>3 DEF Queued
  <1>5. DeliveryType'
    BY <1>0, <1>1, <1>4 DEF DeliveryType, Pcs
  <1>6. RowsAreQueued'
    BY <1>0, <1>1, <1>4 DEF RowsAreQueued, DeliveryType
  <1>7. \A i \in Queued : message[i].status = "sent" => message'[i].status = "sent"
    BY <1>4 DEF Reachable
  <1> QED
    BY <1>1, <1>4, <1>5, <1>6, <1>7, NobodyHears DEF Quiet, Happened

\* A parked message was not heard, and is no row of the pass any more.
LEMMA ParkKeepsDelivery == DeliveryIInv /\ Park => DeliveryIInv'
  <1> SUFFICES ASSUME DeliveryIInv, Park PROVE DeliveryIInv'
    OBVIOUS
  <1>0. DeliveryType /\ RowsAreQueued
    BY DEF DeliveryIInv
  <1> DEFINE f == First
             m == [message[f] EXCEPT !.status = "unlinked"]
  <1>1. /\ pass.pc = "deliver" /\ pass.rows # {} /\ message' = [message EXCEPT ![f] = m]
        /\ pass' = [pass EXCEPT !.rows = pass.rows \ {f}]
        /\ UNCHANGED <<shares, offset, heard, mishaps>>
    BY DEF Park
  <1>2. f \in pass.rows /\ f \in Queued /\ f \in Ids
    BY <1>0, <1>1, FirstIsARow
  <1> HIDE DEF f
  <1>3. message[f] \in SmsRow /\ m \in SmsRow /\ message[f].status = "queued"
    <2>1. message[f] \in SmsRow /\ message[f].status = "queued"
      BY <1>0, <1>2 DEF DeliveryType, Queued, RowsAreQueued
    <2> QED
      BY <2>1 DEF SmsRow
  <1> HIDE DEF m
  <1>4. /\ message' \in Seq(SmsRow) /\ Len(message') = Len(message) /\ Queued' = Queued
        /\ \A j \in Queued : message'[j] = IF j = f THEN m ELSE message[j]
    BY <1>0, <1>1, <1>2, <1>3, RewrittenQueue DEF DeliveryType
  <1>5. DeliveryType' /\ RowsAreQueued'
    BY <1>0, <1>1, <1>2, <1>4 DEF DeliveryType, RowsAreQueued, Pcs
  <1>6. \A i \in Queued : message[i].status = "sent" => message'[i].status = "sent"
    BY <1>3, <1>4
  <1> QED
    BY <1>1, <1>4, <1>5, <1>6, NobodyHears DEF Quiet, Happened

\* The first row is heard now, and was not heard before unless something happened.
LEMMA CallKeepsDelivery == DeliveryIInv /\ (Delivers \/ LosesAnswer) => DeliveryIInv'
  <1> SUFFICES ASSUME DeliveryIInv, Delivers \/ LosesAnswer PROVE DeliveryIInv'
    OBVIOUS
  <1>0. DeliveryType /\ RowsAreQueued
    BY DEF DeliveryIInv
  <1> DEFINE f == First
  <1>1. /\ pass.pc = "calling" /\ heard' = [heard EXCEPT ![f] = heard[f] + 1]
        /\ UNCHANGED <<shares, offset, message>>
        /\ pass' \in {[pass EXCEPT !.pc = "ok"], [pass EXCEPT !.pc = "bad"]}
    BY DEF Delivers, LosesAnswer, Goto
  <1>2. f \in pass.rows /\ f \in Queued /\ f \in Ids /\ message[f].status = "queued"
    BY <1>0, <1>1, FirstIsARow DEF RowsAreQueued
  <1>3. f' = f /\ Queued' = Queued /\ pass'.rows = pass.rows /\ pass'.pc \in {"ok", "bad"}
    BY <1>0, <1>1 DEF First, Queued, DeliveryType
  <1>4. mishaps' \in Seq(Causes) /\ (Quiet' => Quiet /\ pass' = [pass EXCEPT !.pc = "ok"])
    <2>1. CASE Delivers
      BY <1>0, <2>1 DEF Delivers, Goto, Quiet, Happened, DeliveryType
    <2>2. CASE LosesAnswer
      BY <1>0, <2>2, MishapsLast DEF LosesAnswer, Causes, DeliveryType
    <2> QED
      BY <2>1, <2>2
  <1>5. DeliveryType'
    BY <1>0, <1>1, <1>2, <1>4 DEF DeliveryType, Pcs
  <1>6. RowsAreQueued'
    BY <1>0, <1>1, <1>2, <1>3 DEF RowsAreQueued
  <1>7. HeardAreSent'
    <2> SUFFICES ASSUME Quiet', NEW i \in Ids
                 PROVE  /\ heard'[i] <= 1
                        /\ heard'[i] = 1 => i \in Queued /\ (message[i].status = "sent"
                                                               \/ (pass'.pc = "ok" /\ i = f))
      BY <1>1, <1>3 DEF HeardAreSent
    <2> HIDE DEF f
    <2>1. /\ heard[i] \in Nat /\ heard[i] <= 1
          /\ heard[i] = 1 => i \in Queued /\ message[i].status = "sent"
      BY <1>0, <1>1, <1>4 DEF DeliveryIInv, DeliveryType, HeardAreSent
    <2>2. pass'.pc = "ok"
      BY <1>0, <1>4 DEF DeliveryType
    <2>3. heard'[i] = IF i = f THEN heard[i] + 1 ELSE heard[i]
      BY <1>0, <1>1, <1>2 DEF DeliveryType
    <2> QED
      BY <1>2, <2>1, <2>2, <2>3
  <1> QED
    BY <1>5, <1>6, <1>7 DEF DeliveryIInv

\* What is written after a call is a row; of a good answer, that it is sent.
LEMMA AfterIsARow ==
    ASSUME NEW r \in SmsRow
    PROVE  After(r) \in SmsRow /\ (pass.pc = "ok" => After(r).status = "sent")
  <1>1. r.attempts + 1 \in Nat
    BY DEF SmsRow
  <1>2. \A s \in {"sent", "failed"} :
          /\ [r EXCEPT !.attempts = r.attempts + 1, !.status = s] \in SmsRow
          /\ [r EXCEPT !.attempts = r.attempts + 1, !.status = s].status = s
    BY <1>1 DEF SmsRow
  <1>3. [r EXCEPT !.attempts = r.attempts + 1, !.waits = TRUE] \in SmsRow
    BY <1>1 DEF SmsRow
  <1> QED
    BY <1>2, <1>3 DEF After

\* The answer is written to the row it is about.
LEMMA RecordKeepsDelivery == DeliveryIInv /\ Record => DeliveryIInv'
  <1> SUFFICES ASSUME DeliveryIInv, Record PROVE DeliveryIInv'
    OBVIOUS
  <1>0. DeliveryType /\ RowsAreQueued
    BY DEF DeliveryIInv
  <1> DEFINE f == First
             m == After(message[f])
  <1>1. /\ pass.pc \in {"ok", "bad"} /\ message' = [message EXCEPT ![f] = m]
        /\ pass' = [pass EXCEPT !.pc = "deliver", !.rows = pass.rows \ {f}]
        /\ UNCHANGED <<shares, offset, heard, mishaps>>
    BY DEF Record
  <1>2. f \in pass.rows /\ f \in Queued /\ f \in Ids
    BY <1>0, <1>1, FirstIsARow DEF RowsAreQueued
  <1> HIDE DEF f
  <1>3. message[f] \in SmsRow /\ message[f].status = "queued"
    BY <1>0, <1>2 DEF DeliveryType, Queued, RowsAreQueued
  <1>4. m \in SmsRow /\ (pass.pc = "ok" => m.status = "sent")
    BY <1>3, AfterIsARow
  <1> HIDE DEF m
  <1>5. /\ message' \in Seq(SmsRow) /\ Len(message') = Len(message) /\ Queued' = Queued
        /\ \A j \in Queued : message'[j] = IF j = f THEN m ELSE message[j]
    BY <1>0, <1>1, <1>2, <1>4, RewrittenQueue DEF DeliveryType
  <1>6. DeliveryType' /\ RowsAreQueued'
    BY <1>0, <1>1, <1>2, <1>5 DEF DeliveryType, RowsAreQueued, Pcs
  <1>7. HeardAreSent'
    <2> SUFFICES ASSUME Quiet', NEW i \in Ids
                 PROVE  /\ heard[i] <= 1
                        /\ heard[i] = 1 => i \in Queued /\ message'[i].status = "sent"
      BY <1>1, <1>5 DEF HeardAreSent
    <2>1. Quiet
      BY <1>1 DEF Quiet, Happened
    <2>2. /\ heard[i] <= 1
          /\ heard[i] = 1 => i \in Queued /\ (message[i].status = "sent"
                                                \/ (pass.pc = "ok" /\ i = f))
      BY <2>1 DEF DeliveryIInv, HeardAreSent, f
    <2> QED
      BY <1>3, <1>4, <1>5, <2>2
  <1> QED
    BY <1>6, <1>7 DEF DeliveryIInv

\* Every step keeps the invariant.
LEMMA DeliveryStep == DeliveryIInv /\ [OutboxNext]_outboxVars => DeliveryIInv'
  BY OthersKeepDelivery, PassKeepsDelivery, RequeueKeepsDelivery, ParkKeepsDelivery,
     CallKeepsDelivery, RecordKeepsDelivery DEF OutboxNext, Work

\* A message reaches its customer once (HeardOnce), through any number of refusals,
\* backoffs, parkings and new links, unless an answer was lost or the worker died.
THEOREM ToldOnce == OutboxSpec => []HeardOnce
  <1>1. DeliveryIInv => HeardOnce
    BY DEF DeliveryIInv, HeardAreSent, HeardOnce, Quiet
  <1> QED
    BY <1>1, DeliveryInit, DeliveryStep, PTL DEF OutboxSpec

-----------------------------------------------------------------------------
(***************************************************************************)
(* A credit_step message is about money that crossed a band, in the        *)
(* direction it says, for any balances, steps, edits and moves, unless an  *)
(* edit was overtaken between its load and its lock.  The reason: as long  *)
(* as none was, the band kept in the users row is the band of the balance  *)
(* last compared, in the step kept beside it, because whoever holds the    *)
(* row's lock has a copy that is still the row.                            *)
(***************************************************************************)
\* The users row is locked by whoever is past SELECT ... FOR UPDATE, and nobody else.
LockIsHeld ==
    /\ \A e \in Editors : edit[e].pc \in {"locked", "read"} <=> holder = e
    /\ look.pc # "idle" <=> holder = "worker"

\* The copy an edit made before it had the lock is the row while it has it.
CopiesAreTheRow ==
    \A e \in Editors : edit[e].pc \in {"locked", "read"} => edit[e].copy = customer

BandIsBaselines == customer.band \in {NoBand, Band(baseline, customer.step)}

CreditIInv ==
    /\ CreditTypeOK /\ LockIsHeld
    /\ overtaken \/ (CopiesAreTheRow /\ BandIsBaselines /\ TextIsMoney)

-----------------------------------------------------------------------------
LEMMA BandsRise ==
    ASSUME NEW n \in Nat \ {0}, NEW a \in Nat, NEW b \in Nat
    PROVE  /\ a \div n \in 0 .. a
           /\ a <= b => a \div n <= b \div n
  OBVIOUS

\* What an edit or the worker computes is a band.
LEMMA BandsTyped ==
    ASSUME NEW b \in 0 .. MaxBalance, NEW n \in Steps
    PROVE  Band(b, n) \in Bands /\ Band(b, n) # NoBand
  BY BandsRise, StepsAssumption, BalanceAssumption, NoBandAssumption DEF Band, Bands

LEMMA IdleTyped == ASSUME CreditTypeOK PROVE NoEdit \in Edit /\ NoLook \in Look
  <1>1. customer.step \in Steps /\ [step |-> customer.step, band |-> NoBand] \in Customer
    BY DEF CreditTypeOK, Customer
  <1>2. (CHOOSE c \in Customer : c.band = NoBand) \in Customer /\ (CHOOSE n \in Steps : TRUE) \in Steps
    BY <1>1
  <1>3. 0 \in Bands
    BY BalanceAssumption DEF Bands
  <1> QED
    BY <1>2, <1>3 DEF NoEdit, Edit, NoLook, Look

LEMMA CreditInitInv == ASSUME CreditInit PROVE CreditIInv
  <1>1. 0 .. MaxBalance # {} /\ 0 \in Bands
    BY BalanceAssumption DEF Bands
  <1>2. customer \in Customer
    BY DEF CreditInit, Customer
  <1>3. CreditTypeOK
    <2>1. NoEdit \in Edit /\ NoLook \in Look
      <3>1. customer \in Customer /\ customer.band = NoBand /\ customer.step \in Steps
        BY <1>2 DEF CreditInit, Customer
      <3>2. /\ (CHOOSE c \in Customer : c.band = NoBand) \in Customer
            /\ (CHOOSE n \in Steps : TRUE) \in Steps
        BY <3>1
      <3> QED
        BY <3>2, <1>1 DEF NoEdit, Edit, NoLook, Look
    <2>2. 0 \in 0 .. MaxMoves /\ 0 \in 0 .. MaxEdits
      BY BalanceAssumption
    <2>3. edit \in [Editors -> Edit] /\ look \in Look
      BY <2>1 DEF CreditInit
    <2> QED
      BY <2>2, <2>3, <1>2 DEF CreditInit, CreditTypeOK
  <1>4. LockIsHeld
    BY HolderAssumption DEF CreditInit, LockIsHeld, NoEdit, NoLook
  <1>5. CopiesAreTheRow /\ BandIsBaselines /\ TextIsMoney
    BY DEF CreditInit, CopiesAreTheRow, BandIsBaselines, TextIsMoney, NoEdit
  <1> QED
    BY <1>3, <1>4, <1>5 DEF CreditIInv

-----------------------------------------------------------------------------
LEMMA MoveInv == ASSUME CreditIInv, NEW b \in 0 .. MaxBalance, Move(b) PROVE CreditIInv'
  BY BalanceAssumption
  DEF CreditIInv, CreditTypeOK, LockIsHeld, CopiesAreTheRow, BandIsBaselines, TextIsMoney, Move

LEMMA LoadUserInv ==
    ASSUME CreditIInv, NEW e \in Editors, NEW n \in Steps, LoadUser(e, n)
    PROVE  CreditIInv'
  <1>1. 0 \in Bands
    BY BalanceAssumption DEF Bands
  <1>2. CreditTypeOK'
    BY <1>1, BalanceAssumption DEF CreditIInv, CreditTypeOK, LoadUser, Edit
  <1>3. LockIsHeld'
    BY DEF CreditIInv, CreditTypeOK, LockIsHeld, LoadUser
  <1>4. CopiesAreTheRow => CopiesAreTheRow'
    BY DEF CreditIInv, CreditTypeOK, CopiesAreTheRow, LoadUser
  <1> QED
    BY <1>2, <1>3, <1>4 DEF CreditIInv, LoadUser, BandIsBaselines, TextIsMoney

\* Who gets the lock with an old copy has been overtaken.
LEMMA LockUserInv == ASSUME CreditIInv, NEW e \in Editors, LockUser(e) PROVE CreditIInv'
  <1>1. CreditTypeOK'
    BY DEF CreditIInv, CreditTypeOK, LockUser, Edit
  <1>2. LockIsHeld'
    BY HolderAssumption DEF CreditIInv, CreditTypeOK, LockIsHeld, LockUser
  <1>3. ~overtaken' => ~overtaken /\ edit[e].copy = customer
    BY DEF CreditIInv, CreditTypeOK, LockUser
  <1>4. CopiesAreTheRow /\ edit[e].copy = customer => CopiesAreTheRow'
    BY DEF CreditIInv, CreditTypeOK, CopiesAreTheRow, LockUser
  <1> QED
    BY <1>1, <1>2, <1>3, <1>4 DEF CreditIInv, LockUser, BandIsBaselines, TextIsMoney

LEMMA ReadBalanceInv == ASSUME CreditIInv, NEW e \in Editors, ReadBalance(e) PROVE CreditIInv'
  <1>1. CreditTypeOK'
    BY DEF CreditIInv, CreditTypeOK, ReadBalance, Edit, Bands
  <1>2. LockIsHeld'
    BY DEF CreditIInv, CreditTypeOK, LockIsHeld, ReadBalance
  <1>3. CopiesAreTheRow => CopiesAreTheRow'
    BY DEF CreditIInv, CreditTypeOK, CopiesAreTheRow, ReadBalance
  <1> QED
    BY <1>1, <1>2, <1>3 DEF CreditIInv, ReadBalance, BandIsBaselines, TextIsMoney

\* A commit of the fields that differ from the copy writes them all, if the copy is the row.
LEMMA SaveStepInv == ASSUME CreditIInv, NEW e \in Editors, SaveStep(e) PROVE CreditIInv'
  <1> DEFINE band == Band(edit[e].seen, edit[e].step)
  <1>1. /\ edit[e].step \in Steps /\ edit[e].seen \in 0 .. MaxBalance
        /\ edit[e].copy \in Customer /\ customer \in Customer /\ holder = e
    BY DEF CreditIInv, CreditTypeOK, SaveStep, Edit, Bands, LockIsHeld
  <1>2. band \in Bands /\ band # NoBand
    BY <1>1, BandsTyped
  <1>3. customer' \in Customer
    BY <1>1, <1>2 DEF SaveStep, Baseline, Customer
  <1>4. edit' = [edit EXCEPT ![e] = NoEdit] /\ NoEdit \in Edit /\ NoEdit.pc = "idle"
    BY IdleTyped DEF SaveStep, CreditIInv, NoEdit
  <1>5. CreditTypeOK'
    BY <1>1, <1>3, <1>4 DEF CreditIInv, CreditTypeOK, SaveStep
  <1>6. LockIsHeld'
    BY <1>1, <1>4, HolderAssumption DEF CreditIInv, CreditTypeOK, LockIsHeld, SaveStep
  <1>7. \A f \in Editors : edit'[f].pc \notin {"locked", "read"}
    BY <1>1, <1>4 DEF CreditIInv, CreditTypeOK, LockIsHeld, SaveStep
  <1>8. CopiesAreTheRow => BandIsBaselines'
    <2> SUFFICES ASSUME CopiesAreTheRow PROVE BandIsBaselines'
      OBVIOUS
    <2>1. edit[e].copy = customer
      BY DEF CopiesAreTheRow, SaveStep
    <2>2. customer' = [step |-> edit[e].step, band |-> band]
      BY <2>1, <1>1 DEF SaveStep, Baseline, Customer
    <2> QED
      BY <2>2 DEF BandIsBaselines, SaveStep
  <1> QED
    BY <1>5, <1>6, <1>7, <1>8 DEF CreditIInv, SaveStep, CopiesAreTheRow, TextIsMoney

-----------------------------------------------------------------------------
\* Steps of the worker that write no row.
LEMMA LooksInv ==
    ASSUME CreditIInv, LookAt \/ Compare \/ SameBand \/ Release \/ WorkerRestarts
    PROVE  CreditIInv'
  <1>1. 0 \in Bands /\ NoLook \in Look
    BY IdleTyped, BalanceAssumption DEF Bands, CreditIInv
  <1>2. /\ UNCHANGED <<balance, customer, edit, moves, edits, baseline, text, overtaken>>
        /\ look' \in Look /\ holder' \in {holder, "worker", Nobody} /\ restarted' \in BOOLEAN
    <2>1. CASE LookAt
      BY <2>1, <1>1 DEF CreditIInv, CreditTypeOK, LookAt, Look
    <2>2. CASE Compare
      BY <2>2, <1>1 DEF CreditIInv, CreditTypeOK, Compare, Look, Bands
    <2>3. CASE SameBand
      BY <2>3, <1>1 DEF CreditIInv, CreditTypeOK, SameBand, Look, NoLook
    <2>4. CASE Release \/ WorkerRestarts
      BY <2>4, <1>1 DEF CreditIInv, CreditTypeOK, Release, WorkerRestarts
    <2> QED
      BY <2>1, <2>2, <2>3, <2>4
  <1>3. CreditTypeOK'
    BY <1>2 DEF CreditIInv, CreditTypeOK
  <1>4. LockIsHeld'
    BY HolderAssumption
    DEF CreditIInv, CreditTypeOK, LockIsHeld, LookAt, Compare, SameBand, Release, WorkerRestarts, NoLook
  <1> QED
    BY <1>2, <1>3, <1>4 DEF CreditIInv, CopiesAreTheRow, BandIsBaselines, TextIsMoney

\* While the worker holds the lock, no edit does.
LEMMA WorkerAlone ==
    ASSUME CreditIInv, look.pc = "read"
    PROVE  /\ \A e \in Editors : edit[e].pc \notin {"locked", "read"}
           /\ look.seen \in 0 .. MaxBalance /\ customer.step \in Steps
           /\ Band(look.seen, customer.step) \in Bands \ {NoBand}
  <1>1. look.seen \in 0 .. MaxBalance /\ customer.step \in Steps
    BY DEF CreditIInv, CreditTypeOK, Customer, Look, Bands
  <1>2. holder = "worker"
    BY DEF CreditIInv, LockIsHeld
  <1> QED
    BY <1>1, <1>2, BandsTyped, HolderAssumption DEF CreditIInv, LockIsHeld

LEMMA RowOfTheWorker ==
    ASSUME CreditIInv, look.pc = "read",
           customer' = [customer EXCEPT !.band = Band(look.seen, customer.step)],
           baseline' = look.seen, holder' = Nobody, look' = NoLook,
           UNCHANGED <<balance, edit, moves, edits, overtaken, restarted>>
    PROVE  CreditTypeOK' /\ LockIsHeld' /\ CopiesAreTheRow' /\ BandIsBaselines'
  <1>1. CreditTypeOK'
    BY WorkerAlone, IdleTyped DEF CreditIInv, CreditTypeOK, Customer
  <1>2. LockIsHeld'
    BY WorkerAlone, HolderAssumption DEF CreditIInv, LockIsHeld, NoLook
  <1>3. CopiesAreTheRow'
    BY WorkerAlone DEF CopiesAreTheRow
  <1>4. BandIsBaselines'
    BY DEF CreditIInv, CreditTypeOK, Customer, BandIsBaselines
  <1> QED
    BY <1>1, <1>2, <1>3, <1>4

LEMMA FirstSightInv == ASSUME CreditIInv, FirstSight PROVE CreditIInv'
  <1>1. CreditTypeOK' /\ LockIsHeld' /\ CopiesAreTheRow' /\ BandIsBaselines'
    BY RowOfTheWorker DEF FirstSight
  <1> QED
    BY <1>1 DEF CreditIInv, FirstSight, TextIsMoney

\* Bands differ the way balances do: the message is about the balance that moved.
LEMMA AnnounceInv == ASSUME CreditIInv, Announce PROVE CreditIInv'
  <1> DEFINE band == Band(look.seen, customer.step)
  <1>1. CreditTypeOK' /\ LockIsHeld' /\ CopiesAreTheRow' /\ BandIsBaselines'
    BY RowOfTheWorker DEF Announce
  <1>2. BandIsBaselines => TextIsMoney'
    <2> SUFFICES ASSUME BandIsBaselines PROVE TextIsMoney'
      OBVIOUS
    <2>1. customer.band = Band(baseline, customer.step) /\ customer.band # band
      BY DEF Announce, BandIsBaselines
    <2>2. customer.step \in Nat \ {0} /\ look.seen \in Nat /\ baseline \in Nat
      BY WorkerAlone, StepsAssumption, BalanceAssumption DEF Announce, CreditIInv, CreditTypeOK
    <2>3. /\ band \in Int /\ customer.band \in Int
          /\ look.seen <= baseline => band <= customer.band
          /\ baseline <= look.seen => customer.band <= band
      BY <2>1, <2>2, BandsRise DEF Band
    <2>4. band > customer.band <=> look.seen > baseline
      BY <2>1, <2>2, <2>3
    <2>5. text' = [was |-> baseline, is |-> look.seen, step |-> customer.step,
                   up |-> band > customer.band]
      BY DEF Announce
    <2> QED
      BY <2>1, <2>4, <2>5 DEF TextIsMoney
  <1> QED
    BY <1>1, <1>2 DEF CreditIInv, Announce

LEMMA CreditNextInv == ASSUME CreditIInv, [CreditNext]_creditVars PROVE CreditIInv'
  <1>1. CASE UNCHANGED creditVars
    BY <1>1 DEF creditVars, CreditIInv, CreditTypeOK, LockIsHeld, CopiesAreTheRow,
                BandIsBaselines, TextIsMoney
  <1>2. CASE \E b \in 0 .. MaxBalance : Move(b)
    BY <1>2, MoveInv
  <1>3. CASE \E e \in Editors : Edits(e) \/ \E n \in Steps : LoadUser(e, n)
    BY <1>3, LoadUserInv, LockUserInv, ReadBalanceInv, SaveStepInv DEF Edits
  <1>4. CASE Looks \/ WorkerRestarts
    BY <1>4, LooksInv, FirstSightInv, AnnounceInv DEF Looks
  <1> QED
    BY <1>1, <1>2, <1>3, <1>4 DEF CreditNext

\* Whatever the balances, the steps customers choose and the edits in flight, the last
\* credit_step message names a crossing that happened and its direction, unless an edit
\* was overtaken between the load of its user and SELECT ... FOR UPDATE
\* (credit_step_once and sms_preferences_put).
THEOREM CrossingsHappened == CreditSpec => []TextIsMoneyUnlessOvertaken
  <1>1. CreditInit => CreditIInv
    BY CreditInitInv
  <1>2. CreditIInv /\ [CreditNext]_creditVars => CreditIInv'
    BY CreditNextInv
  <1>3. CreditIInv => TextIsMoneyUnlessOvertaken
    BY DEF CreditIInv, TextIsMoneyUnlessOvertaken
  <1> QED
    BY <1>1, <1>2, <1>3, PTL DEF CreditSpec
=============================================================================
