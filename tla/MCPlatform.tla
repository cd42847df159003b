----------------------------- MODULE MCPlatform -----------------------------
(***************************************************************************)
(* What the platform does around its machines, on small instances: public  *)
(* ports, services, remote access, tickets, published names, sessions, the *)
(* watchdog and the backup.  These modules share no variable, and each     *)
(* part has behaviours of its own; of Services one kind at a time, and of  *)
(* Watch the alarms and the backup apart.                                  *)
(***************************************************************************)
EXTENDS Ports, Services, Remote, Support, Vhosts, Accounts, Watch

CONSTANT Apart  \* whether one kind of service at a time is used

VARIABLE part  \* the part whose behaviour this is

Parts == {"ports", "remote", "support", "vhosts", "accounts", "watchdog", "backup"} \cup Kinds

vars == <<portVars, serviceVars, remoteVars, supportVars, vhostVars, accountVars, watchVars, part>>

Init ==
    /\ PortsInit /\ ServicesInit /\ RemoteInit /\ SupportInit
    /\ VhostsInit /\ AccountsInit /\ WatchInit
    /\ part \in Parts
    /\ part \notin Kinds => machine.power = "on" /\ machine.roomy

Is(p) == part = p /\ part' = part

\* Requests, and therefore passes, of one service.
OneKind(k) == Apart => \A d \in Desks : desk'[d].at = "loaded" => desk'[d].kind = k

Next ==
    \/ /\ Is("ports") /\ PortsNext
       /\ UNCHANGED <<serviceVars, remoteVars, supportVars, vhostVars, accountVars, watchVars>>
    \/ \E k \in Kinds :
       /\ Is(k) /\ ServicesNext /\ OneKind(k)
       /\ UNCHANGED <<portVars, remoteVars, supportVars, vhostVars, accountVars, watchVars>>
    \/ /\ Is("remote") /\ RemoteNext
       /\ UNCHANGED <<portVars, serviceVars, supportVars, vhostVars, accountVars, watchVars>>
    \/ /\ Is("support") /\ SupportNext
       /\ UNCHANGED <<portVars, serviceVars, remoteVars, vhostVars, accountVars, watchVars>>
    \/ /\ Is("vhosts") /\ VhostsNext
       /\ UNCHANGED <<portVars, serviceVars, remoteVars, supportVars, accountVars, watchVars>>
    \/ /\ Is("accounts") /\ AccountsNext
       /\ UNCHANGED <<portVars, serviceVars, remoteVars, supportVars, vhostVars, watchVars>>
    \/ /\ Is("watchdog") /\ WatchNext /\ backup' = backup
       /\ UNCHANGED <<portVars, serviceVars, remoteVars, supportVars, vhostVars, accountVars>>
    \/ /\ Is("backup") /\ WatchNext /\ <<dog, pool>>' = <<dog, pool>>
       /\ UNCHANGED <<portVars, serviceVars, remoteVars, supportVars, vhostVars, accountVars>>

Fairness ==
    /\ \A c \in Calls : WF_portVars(part = "ports" /\ Serves(c))
    /\ \A r \in PortRequests : WF_portVars(part = "ports" /\ Handles(r))
    /\ WF_portVars(part = "ports" /\ Works)
    /\ WF_serviceVars(part \in Kinds /\ Reconciles)
    /\ \A k \in Kinds : WF_serviceVars(part = k /\ Pass(k))
    /\ \A d \in Desks : WF_serviceVars(part \in Kinds /\ Record(d))
    /\ WF_serviceVars(part \in Kinds /\ KeyArrives)
    /\ \A c \in Callers : WF_supportVars(part = "support" /\ CallerAnswers(c))
    /\ WF_vhostVars(part = "vhosts" /\ Passes)
    /\ WF_watchVars(part = "watchdog" /\ Dog)
    /\ SF_watchVars(part = "watchdog" /\ HourPasses)
    /\ WF_watchVars(part \in {"watchdog", "backup"} /\ Minute)
    /\ WF_watchVars(part \in {"watchdog", "backup"} /\ Loops)
    /\ WF_watchVars(part = "backup" /\ LoopStarts)
    /\ \A w \in Uploaders : WF_watchVars(part = "backup" /\ Uploads(w))

Spec == Init /\ [][Next]_vars /\ Fairness
=============================================================================
