----------------------------- MODULE MCMessaging -----------------------------
(***************************************************************************)
(* Codes, Outbox and CreditStep on small instances.  They write different  *)
(* rows, and what one hands to another (a code, a credit_step message) is  *)
(* one more row of sms_messages: so one run covers the three, each in      *)
(* behaviours of its own.                                                  *)
(***************************************************************************)
EXTENDS Codes, Outbox, CreditStep

VARIABLE part  \* the module whose behaviour this is

vars == <<codeVars, outboxVars, creditVars, part>>

Init ==
    /\ CodesInit /\ OutboxInit /\ CreditInit
    /\ part \in {"codes", "outbox", "credit"}
    /\ part # "codes" => ~known /\ purpose = "join"
    /\ part # "credit" => balance = 0 /\ customer.step = CHOOSE n \in Steps : TRUE

Is(p) == part = p /\ part' = part

Next ==
    \/ Is("codes") /\ CodesNext /\ UNCHANGED <<outboxVars, creditVars>>
    \/ Is("outbox") /\ OutboxNext /\ UNCHANGED <<codeVars, creditVars>>
    \/ Is("credit") /\ CreditNext /\ UNCHANGED <<codeVars, outboxVars>>

Fairness ==
    /\ WF_outboxVars(part = "outbox" /\ Work)
    /\ \A i \in Ids : WF_outboxVars(part = "outbox" /\ i \in Queued /\ BackoffEnds(i))
    /\ WF_creditVars(part = "credit" /\ Looks)
    /\ \A e \in Editors : WF_creditVars(part = "credit" /\ Edits(e))

Spec == Init /\ [][Next]_vars /\ Fairness
=============================================================================
