------------------------------- MODULE Support -------------------------------
(***************************************************************************)
(* Support tickets: the handlers of app.py for customers and operators,    *)
(* the agent's tools of mcp.py, and the announcement of a reply            *)
(* (service.announce_ticket_reply).  A handler loads the ticket with its   *)
(* messages, and its commit writes only what it changed in that copy.      *)
(***************************************************************************)
EXTENDS Naturals, Sequences, FiniteSets

CONSTANTS
    Tickets,           \* rows of tickets, all of one customer
    Callers,           \* API and tool calls that may be under way at once
    MAX_OPEN_TICKETS,
    MaxMessages,       \* bound: messages of a ticket
    MaxTicketCalls,    \* bound: calls
    MaxTicketFaults    \* bound: announcements that fail, processes that die

ASSUME SupportAssumption ==
    MAX_OPEN_TICKETS \in Nat /\ MaxMessages \in Nat
    /\ MaxTicketCalls \in Nat /\ MaxTicketFaults \in Nat

VARIABLES
    ticket,      \* rows of tickets and ticket_messages
    call,        \* calls under way
    told,        \* notifications: the messages the customer was told of
    texted,      \* outbox rows for the same
    shown,       \* what each side's page has been shown, as a number of messages
    ticketCalls, ticketFaults

supportVars == <<ticket, call, told, texted, shown, ticketCalls, ticketFaults>>

Statuses == {"open", "waiting_for_user", "answered", "escalated", "closed"}
AGENT_STATUSES == {"waiting_for_user", "answered", "escalated"}
Sides == {"customer", "staff"}
Reply(m) == m # "customer"
NoTicket == [status |-> "none", messages |-> <<>>, read |-> [s \in Sides |-> 0]]
Idle == [at |-> "idle", who |-> "customer", op |-> "", on |-> CHOOSE t \in Tickets : TRUE,
         to |-> "open", copy |-> NoTicket]

SupportTypeOK ==
    /\ \A t \in Tickets :
         /\ ticket[t].status \in Statuses \cup {"none"}
         /\ ticket[t].messages \in Seq({"customer", "staff", "agent"})
         /\ ticket[t].read \in [Sides -> 0..MaxMessages]
    /\ \A c \in Callers :
         /\ call[c].at \in {"idle", "loaded", "tell", "text"}
         /\ call[c].who \in {"customer", "staff", "agent"} /\ call[c].on \in Tickets
    /\ told \subseteq Tickets \X (1..MaxMessages) /\ texted \subseteq told
    /\ shown \in [Tickets -> [Sides -> 0..MaxMessages]]
    /\ ticketCalls \in 0..MaxTicketCalls /\ ticketFaults \in 0..MaxTicketFaults

SupportInit ==
    /\ ticket = [t \in Tickets |-> NoTicket]
    /\ call = [c \in Callers |-> Idle] /\ told = {} /\ texted = {}
    /\ shown = [t \in Tickets |-> [s \in Sides |-> 0]]
    /\ ticketCalls = 0 /\ ticketFaults = 0

Last(t) == Len(ticket[t].messages)
Open == {t \in Tickets : ticket[t].status \notin {"none", "closed"}}
Side(who) == IF who = "customer" THEN who ELSE "staff"
Ends(c) == call' = [call EXCEPT ![c] = Idle]

\* list_open_tickets: what the agent finds when it looks.
list_open_tickets == {t \in Tickets : ticket[t].status = "open"}

\* _unread_count and is_unread.
is_unread(t, side) ==
    /\ Last(t) > ticket[t].read[side]
    /\ Reply(ticket[t].messages[Last(t)]) = (side = "customer")

-----------------------------------------------------------------------------
(* A call loads the ticket *)

Loads(c, who, op, t, to) ==
    /\ call[c].at = "idle" /\ ticketCalls < MaxTicketCalls
    /\ ticketCalls' = ticketCalls + 1
    /\ call' = [call EXCEPT ![c] =
         [at |-> "loaded", who |-> who, op |-> op, on |-> t, to |-> to, copy |-> ticket[t]]]
    /\ UNCHANGED <<ticket, told, texted, shown, ticketFaults>>

create_ticket(c, t) ==
    /\ ticket[t].status = "none" /\ \A d \in Callers : call[d].on = t => call[d].op # "open"
    /\ Cardinality(Open) < MAX_OPEN_TICKETS
    /\ Loads(c, "customer", "open", t, "open")

Exists(t) == ticket[t].status # "none" /\ Len(ticket[t].messages) < MaxMessages

reply_ticket(c, t) == Exists(t) /\ Loads(c, "customer", "reply", t, "open")

admin_reply_ticket(c, t) ==
    /\ Exists(t)
    /\ Loads(c, "staff", "reply", t,
             IF ticket[t].status = "closed" THEN "closed" ELSE "answered")

reply_to_ticket(c, t, status) ==  \* the agent's tool
    /\ Exists(t) /\ ticket[t].status # "closed" /\ status \in AGENT_STATUSES
    /\ Loads(c, "agent", "reply", t, status)

admin_ticket_status(c, t, status) ==
    Exists(t) /\ Loads(c, "staff", "status", t, status)

read_ticket(c, t, side) == Exists(t) /\ Loads(c, side, "read", t, ticket[t].status)

\* get_ticket and admin_get_ticket: the page shows the whole thread.
get_ticket(t, side) ==
    /\ shown[t][side] < Last(t)
    /\ shown' = [shown EXCEPT ![t][side] = Last(t)]
    /\ UNCHANGED <<ticket, call, told, texted, ticketCalls, ticketFaults>>

-----------------------------------------------------------------------------
(* and commits *)

\* A status the copy already had is not written.
NewStatus(c) ==
    IF call[c].to # call[c].copy.status THEN call[c].to ELSE ticket[call[c].on].status

\* _mark_read: up to the last message of the copy, one's own included.
_mark_read(c, messages) ==
    IF call[c].who = "agent" THEN ticket[call[c].on].read
    ELSE [ticket[call[c].on].read EXCEPT ![Side(call[c].who)] = messages]

AddsMessage(c) ==
    /\ call[c].at = "loaded" /\ call[c].op \in {"open", "reply"}
    /\ Len(ticket[call[c].on].messages) < MaxMessages
    /\ LET t == call[c].on  n == Last(t) + 1 IN
       /\ ticket' = [ticket EXCEPT ![t] =
            [status |-> NewStatus(c), messages |-> Append(@.messages, call[c].who),
             read |-> _mark_read(c, n)]]
       /\ call' = [call EXCEPT ![c] =
            IF Reply(call[c].who) THEN [@ EXCEPT !.at = "tell", !.copy = ticket'[t]] ELSE Idle]
    /\ UNCHANGED <<told, texted, shown, ticketCalls, ticketFaults>>

SetsStatus(c) ==
    /\ call[c].at = "loaded" /\ call[c].op = "status" /\ Ends(c)
    /\ ticket' = [ticket EXCEPT ![call[c].on].status = NewStatus(c)]
    /\ UNCHANGED <<told, texted, shown, ticketCalls, ticketFaults>>

MarksRead(c) ==
    /\ call[c].at = "loaded" /\ call[c].op = "read" /\ Ends(c)
    /\ ticket' = [ticket EXCEPT ![call[c].on].read = _mark_read(c, Len(call[c].copy.messages))]
    /\ UNCHANGED <<told, texted, shown, ticketCalls, ticketFaults>>

-----------------------------------------------------------------------------
(* announce_ticket_reply: notifications.emit, then the outbox *)

Announces(c) == call[c].at \in {"tell", "text"}
Message(c) == <<call[c].on, Len(call[c].copy.messages)>>

\* Mutant: one notification per ticket; a second reply finds it there.
EmitOnce(c) ==
    /\ call[c].at = "tell"
    /\ told' = IF \E m \in told : m[1] = call[c].on THEN told ELSE told \cup {Message(c)}
    /\ call' = [call EXCEPT ![c].at = "text"]
    /\ UNCHANGED <<ticket, texted, shown, ticketCalls, ticketFaults>>

emit(c) ==
    /\ call[c].at = "tell"
    /\ told' = told \cup {Message(c)}
    /\ call' = [call EXCEPT ![c].at = "text"]
    /\ UNCHANGED <<ticket, texted, shown, ticketCalls, ticketFaults>>

queue(c) ==
    /\ call[c].at = "text" /\ Ends(c)
    /\ texted' = texted \cup ({Message(c)} \cap told)
    /\ UNCHANGED <<ticket, told, shown, ticketCalls, ticketFaults>>

\* An exception is logged and dropped; a process that dies says nothing.
AnnouncedToNobody(c) ==
    /\ Announces(c) /\ Ends(c)
    /\ ticketFaults < MaxTicketFaults /\ ticketFaults' = ticketFaults + 1
    /\ UNCHANGED <<ticket, told, texted, shown, ticketCalls>>

-----------------------------------------------------------------------------
CallerAnswers(c) == AddsMessage(c) \/ SetsStatus(c) \/ MarksRead(c) \/ emit(c) \/ queue(c)

SupportNext ==
    \/ \E c \in Callers, t \in Tickets :
         \/ create_ticket(c, t) \/ reply_ticket(c, t) \/ admin_reply_ticket(c, t)
         \/ \E status \in AGENT_STATUSES : reply_to_ticket(c, t, status)
         \/ \E status \in Statuses : admin_ticket_status(c, t, status)
         \/ \E side \in Sides : read_ticket(c, t, side)
    \/ \E t \in Tickets, side \in Sides : get_ticket(t, side)
    \/ \E c \in Callers : CallerAnswers(c) \/ AnnouncedToNobody(c)

SupportSpec == SupportInit /\ [][SupportNext]_supportVars

-----------------------------------------------------------------------------
\* Whoever answers, an operator or the agent, and whatever else happens to the
\* thread at that moment: every reply is told to the customer in the panel and
\* as a text in the end, unless its announcement failed.
RepliesAreTold ==
    <>[](ticketFaults = 0 => \A t \in Tickets : \A n \in 1..Last(t) :
            Reply(ticket[t].messages[n]) => <<t, n>> \in told \cap texted)

\* Promise: "a customer reply always moves a ticket back to OPEN"
\* (models/__init__.py:645); the agent's list is what is open (mcp.py:115).
CustomerReplyOpens ==
    [][\A t \in Tickets :
         Last(t)' > Last(t) /\ ticket'[t].messages[Last(t)'] = "customer"
           => ticket'[t].status = "open"]_supportVars

\* Promise: "that ticket is closed; a human must reopen it" (mcp.py:179).
AgentLeavesClosed ==
    [][\A t \in Tickets :
         ticket[t].status = "closed" /\ ticket'[t].status # "closed" /\ Last(t)' > Last(t)
           => ticket'[t].messages[Last(t)'] # "agent"]_supportVars

\* Promise: a read mark says "that this side has seen the thread up to its last
\* message" (app.py:2763); a reply nobody was shown is unread.
ReadMeansShown ==
    \A t \in Tickets : Last(t) > 0 /\ Reply(ticket[t].messages[Last(t)])
        /\ shown[t]["customer"] < Last(t) => is_unread(t, "customer")

\* Promise: at most MAX_OPEN_TICKETS threads of a customer are open.
OpenLimitKept == Cardinality(Open) <= MAX_OPEN_TICKETS
=============================================================================
