------------------------------- MODULE Outbox -------------------------------
(***************************************************************************)
(* The Bale outbox: sms_messages rows queued by the API and by the passes  *)
(* of the worker, bale_contacts, and sms_once, the one place messages      *)
(* leave from.  A pass takes in the contacts customers shared with the bot *)
(* (bale.poll), returns parked messages to the queue                       *)
(* (requeue_after_linking) and sends what is due (due, deliver), one       *)
(* commit per message.  The shares are Bale's updates: they stay there     *)
(* until the offset passes them.                                           *)
(***************************************************************************)
EXTENDS Integers, Sequences, FiniteSets, FiniteSetsExt

CONSTANTS Phones, Chats,
          NoChat,       \* the number has not opened the bot
          MaxAttempts,  \* MAX_ATTEMPTS
          MaxMessages,  \* bound: messages ever queued
          MaxShares,    \* bound: contacts ever shared
          MaxMishaps    \* bound: calls and passes that go wrong

ASSUME OutboxBounds == {MaxAttempts, MaxMessages, MaxShares, MaxMishaps} \subseteq Nat
ASSUME NoChatAssumption == NoChat \notin Chats

VARIABLES contact,   \* bale_contacts: the chat of a phone
          shares,    \* Bale's updates: contacts shared, in order
          offset,    \* the committed bale_update_offset
          message,   \* sms_messages, in order of created_at
          pass,      \* sms_once
          wanted,    \* history: the chat each phone was last linked to, by its owner
          heard,     \* history: how often it reached a chat
          mishaps    \* history: what went wrong, in order

outboxVars == <<contact, shares, offset, message, pass, wanted, heard,
                mishaps>>

Ids == 1 .. MaxMessages
Kinds == {"code", "alert"}  \* category auth, and the rest
\* waits: next_attempt_at is in the future.  stale: a code past its three minutes,
\* an alert past RELINK_WINDOW.
Message == [phone : Phones, kind : Kinds,
            status : {"queued", "sent", "unlinked", "failed"},
            attempts : 0 .. MaxAttempts, waits : BOOLEAN, stale : BOOLEAN]
\* fits: the display name is no longer than its column.
Share == [phone : Phones, chat : Chats, fits : BOOLEAN]

(***************************************************************************)
(* pc: idle     other passes                                               *)
(*     batch    next is the update to handle, last the last of the batch   *)
(*     requeue  the offset is committed                                    *)
(*     due      parked messages are back                                   *)
(*     deliver  rows are the messages due() returned                       *)
(*     calling  attempts of the first of them is counted, in memory        *)
(*     ok, bad  Bale's answer                                              *)
(***************************************************************************)
Pass == [pc : {"idle", "batch", "requeue", "due", "deliver", "calling", "ok", "bad"},
         next : 0 .. MaxShares + 1, last : 0 .. MaxShares, rows : SUBSET Ids]
Resting == [pc |-> "idle", next |-> 0, last |-> 0, rows |-> {}]
Goto(pc) == pass' = [pass EXCEPT !.pc = pc]

Queued == DOMAIN message
Linked(p) == contact[p] # NoChat
First == Min(pass.rows)
Mishap(what) == /\ Len(mishaps) < MaxMishaps
                /\ mishaps' = Append(mishaps, what)

\* One number, one chat, in both directions.
LinkedTo(links, s) ==
    [p \in Phones |-> IF p = s.phone THEN s.chat
                      ELSE IF links[p] = s.chat THEN NoChat ELSE links[p]]

OutboxInit ==
    /\ contact = [p \in Phones |-> NoChat]
    /\ shares = <<>> /\ offset = 0
    /\ message = <<>>
    /\ pass = Resting
    /\ wanted = contact
    /\ heard = [i \in Ids |-> 0]
    /\ mishaps = <<>>

-----------------------------------------------------------------------------
\* sms.queue, in the commit of whoever caused the message.
Queue(p, kind) ==
    /\ Len(message) < MaxMessages
    /\ message' = Append(message, [phone |-> p, kind |-> kind, status |-> "queued",
                                   attempts |-> 0, waits |-> FALSE, stale |-> FALSE])
    /\ UNCHANGED <<contact, shares, offset, pass, wanted, heard, mishaps>>

\* A customer presses the button in a chat.
ShareContact(s) ==
    /\ Len(shares) < MaxShares
    /\ shares' = Append(shares, s)
    /\ wanted' = LinkedTo(wanted, s)
    /\ UNCHANGED <<contact, offset, message, pass, heard, mishaps>>

\* Time passes: the backoff of a message ends, a message grows old.
BackoffEnds(i) ==
    /\ message[i].status = "queued" /\ message[i].waits
    /\ message' = [message EXCEPT ![i].waits = FALSE]
    /\ UNCHANGED <<contact, shares, offset, pass, wanted, heard, mishaps>>

GrowsOld(i) ==
    /\ message[i].status \in {"queued", "unlinked"} /\ ~message[i].stale
    /\ message' = [message EXCEPT ![i].stale = TRUE]
    /\ UNCHANGED <<contact, shares, offset, pass, wanted, heard, mishaps>>

-----------------------------------------------------------------------------
\* bale.poll: the updates above the offset.
Poll ==
    /\ pass.pc = "idle"
    /\ pass' = [pc |-> IF Len(shares) = offset THEN "requeue" ELSE "batch",
                next |-> offset + 1, last |-> Len(shares), rows |-> {}]
    /\ UNCHANGED <<contact, shares, offset, message, wanted, heard, mishaps>>

\* Bale cannot be reached; the pass goes on without updates.
PollFails ==
    /\ pass.pc = "idle" /\ Mishap("unreachable")
    /\ Goto("requeue")
    /\ UNCHANGED <<contact, shares, offset, message, wanted, heard>>

\* bale.handle and link: one update, committed.
Link ==
    /\ pass.pc = "batch" /\ pass.next <= pass.last /\ shares[pass.next].fits
    /\ contact' = LinkedTo(contact, shares[pass.next])
    /\ pass' = [pass EXCEPT !.next = @ + 1]
    /\ UNCHANGED <<shares, offset, message, wanted, heard, mishaps>>

\* The database refuses the row.  handle swallows the error, and the session, never
\* rolled back, raises at the next statement: sms_once is over.
LinkFails ==
    /\ pass.pc = "batch" /\ pass.next <= pass.last /\ ~shares[pass.next].fits
    /\ pass' = Resting
    /\ UNCHANGED <<contact, shares, offset, message, wanted, heard, mishaps>>

\* Only then is the offset moved.
Acknowledge ==
    /\ pass.pc = "batch" /\ pass.next > pass.last
    /\ offset' = pass.last
    /\ Goto("requeue")
    /\ UNCHANGED <<contact, shares, message, wanted, heard, mishaps>>

Reachable(m) == m.status = "unlinked" /\ ~m.stale /\ m.kind # "code" /\ Linked(m.phone)

\* Mutant: the message keeps its status.
RequeueTimeOnly ==
    /\ pass.pc = "requeue"
    /\ message' = [i \in Queued |-> IF Reachable(message[i])
                                    THEN [message[i] EXCEPT !.waits = FALSE]
                                    ELSE message[i]]
    /\ Goto("due")
    /\ UNCHANGED <<contact, shares, offset, wanted, heard, mishaps>>

\* sms.requeue_after_linking: attempts stay as they are.
Requeue ==
    /\ pass.pc = "requeue"
    /\ message' = [i \in Queued |-> IF Reachable(message[i])
                                    THEN [message[i] EXCEPT !.status = "queued",
                                                            !.waits = FALSE]
                                    ELSE message[i]]
    /\ Goto("due")
    /\ UNCHANGED <<contact, shares, offset, wanted, heard, mishaps>>

DueNow(m) == m.status = "queued" /\ m.attempts < MaxAttempts /\ ~m.waits

\* sms.due.  More than its limit of rows is a matter of the next pass.
Due ==
    /\ pass.pc = "due"
    /\ pass' = [Resting EXCEPT !.pc = "deliver",
                               !.rows = {i \in Queued : DueNow(message[i])}]
    /\ UNCHANGED <<contact, shares, offset, message, wanted, heard, mishaps>>

\* sms.deliver: a number without a chat is parked.
Park ==
    /\ pass.pc = "deliver" /\ pass.rows # {} /\ ~Linked(message[First].phone)
    /\ message' = [message EXCEPT ![First].status = "unlinked"]
    /\ pass' = [pass EXCEPT !.rows = @ \ {First}]
    /\ UNCHANGED <<contact, shares, offset, wanted, heard, mishaps>>

Call ==
    /\ pass.pc = "deliver" /\ pass.rows # {} /\ Linked(message[First].phone)
    /\ Goto("calling")
    /\ UNCHANGED <<contact, shares, offset, message, wanted, heard, mishaps>>

\* Bale delivers it, refuses it, or delivers it and the answer is lost.
Delivers ==
    /\ pass.pc = "calling"
    /\ heard' = [heard EXCEPT ![First] = @ + 1]
    /\ Goto("ok")
    /\ UNCHANGED <<contact, shares, offset, message, wanted, mishaps>>

Refuses ==
    /\ pass.pc = "calling" /\ Mishap("refused")
    /\ Goto("bad")
    /\ UNCHANGED <<contact, shares, offset, message, wanted, heard>>

LosesAnswer ==
    /\ pass.pc = "calling" /\ Mishap("lost")
    /\ heard' = [heard EXCEPT ![First] = @ + 1]
    /\ Goto("bad")
    /\ UNCHANGED <<contact, shares, offset, message, wanted>>

\* Mutant: the row of a message that was delivered is left as it is.
AfterForgets(m) ==
    IF pass.pc = "ok" THEN m
    ELSE IF m.attempts + 1 >= MaxAttempts
    THEN [m EXCEPT !.attempts = @ + 1, !.status = "failed"]
    ELSE [m EXCEPT !.attempts = @ + 1, !.waits = TRUE]
\* Mutant: the last attempt leaves the message queued.
AfterQueued(m) ==
    IF pass.pc = "ok" THEN [m EXCEPT !.attempts = @ + 1, !.status = "sent"]
    ELSE [m EXCEPT !.attempts = @ + 1, !.waits = TRUE]
\* What deliver writes after the call.
After(m) ==
    IF pass.pc = "ok" THEN [m EXCEPT !.attempts = @ + 1, !.status = "sent"]
    ELSE IF m.attempts + 1 >= MaxAttempts
    THEN [m EXCEPT !.attempts = @ + 1, !.status = "failed"]
    ELSE [m EXCEPT !.attempts = @ + 1, !.waits = TRUE]

Record ==
    /\ pass.pc \in {"ok", "bad"}
    /\ message' = [message EXCEPT ![First] = After(@)]
    /\ pass' = [pass EXCEPT !.pc = "deliver", !.rows = @ \ {First}]
    /\ UNCHANGED <<contact, shares, offset, wanted, heard, mishaps>>

Rest ==
    /\ pass.pc = "deliver" /\ pass.rows = {}
    /\ pass' = Resting
    /\ UNCHANGED <<contact, shares, offset, message, wanted, heard, mishaps>>

\* The worker dies; systemd starts it again.
WorkerDies ==
    /\ pass.pc # "idle" /\ Mishap("died")
    /\ pass' = Resting
    /\ UNCHANGED <<contact, shares, offset, message, wanted, heard>>

Work == \/ Poll \/ Link \/ LinkFails \/ Acknowledge \/ Requeue \/ Due
        \/ Park \/ Call \/ Delivers \/ Refuses \/ LosesAnswer \/ Record \/ Rest

OutboxNext ==
    \/ \E p \in Phones, kind \in Kinds : Queue(p, kind)
    \/ \E s \in Share : ShareContact(s)
    \/ \E i \in Queued : BackoffEnds(i) \/ GrowsOld(i)
    \/ Work
    \/ PollFails
    \/ WorkerDies

\* The worker's loop comes to sms_once every tick, and backoffs end.
OutboxFairness ==
    /\ WF_outboxVars(Work)
    /\ \A i \in Ids : WF_outboxVars(i \in Queued /\ BackoffEnds(i))
OutboxSpec == OutboxInit /\ [][OutboxNext]_outboxVars /\ OutboxFairness

-----------------------------------------------------------------------------
\* The variables have their types.
OutboxTypeOK ==
    /\ contact \in [Phones -> Chats \cup {NoChat}]
    /\ wanted \in [Phones -> Chats \cup {NoChat}]
    /\ shares \in Seq(Share) /\ Len(shares) <= MaxShares
    /\ offset \in 0 .. MaxShares
    /\ message \in Seq(Message) /\ Len(message) <= MaxMessages
    /\ pass \in Pass /\ pass.rows \subseteq Queued
    /\ heard \in [Ids -> Nat]
    /\ mishaps \in Seq({"unreachable", "refused", "lost", "died"})

Happened(what) == \E n \in DOMAIN mishaps : mishaps[n] \in what

\* A message reaches its customer once, through any number of refusals, backoffs,
\* parkings and new links, unless an answer was lost or the worker died.
HeardOnce == ~Happened({"lost", "died"}) => \A i \in Ids : heard[i] <= 1

\* An update that can never be handled is waiting.
Blocked == \E n \in DOMAIN shares : n > offset /\ ~shares[n].fits

\* Every queued message is in the end sent, failed or parked, unless such an update
\* is waiting.
MessagesSettle ==
    \A i \in Ids : []<>(Blocked \/ ~(i \in Queued /\ message[i].status = "queued"))

\* An alert does not stay parked while its number is linked and it is young enough
\* (requeue_after_linking).
LinkedAreTold ==
    \A i \in Ids : []<>(Blocked \/ ~(i \in Queued /\ Reachable(message[i])))

\* Whatever dies between, the contacts end as the customers last shared them: the
\* offset moves only after the batch (bale.poll).
LinksArrive == <>[](Blocked \/ contact = wanted)

\* "a bad update must not stop the poll" (bale.py:215).
PollGoesOn == <>[](offset = Len(shares))

\* A message is delivered once.
AlwaysHeardOnce == \A i \in Ids : heard[i] <= 1

\* "sending a stale one invites the customer to type something that will be refused,
\* which is worse than sending nothing" (sms.py:270).
NoStaleCodes ==
    [][\A i \in Queued : message[i].kind = "code" /\ message[i].stale
           => heard'[i] = heard[i]]_outboxVars
=============================================================================
