------------------------------- MODULE Remote -------------------------------
(***************************************************************************)
(* Ways into a machine that the API switches itself, without the worker:   *)
(* the SSH and desktop listeners, the public keys of SSH, and the signed-in *)
(* command-line agents (Codex, Claude Code).  A handler loads the row,      *)
(* calls the provisioner for up to half an hour and then writes its flag;   *)
(* handlers of one customer run side by side, and nothing reconciles.       *)
(***************************************************************************)
EXTENDS Naturals, FiniteSets

CONSTANTS
    PublicKeys,       \* rows of ssh_keys
    Clients,          \* command-line agents, of "codex", "claude"
    Doors,            \* API requests that may be under way at once
    MaxDoorCalls,     \* bound: requests
    MaxUpheavals,     \* bound: power changes and resets
    MaxDoorFaults     \* bound: calls that fail half-way or whose answer is lost

ASSUME RemoteAssumption ==
    /\ MaxDoorCalls \in Nat /\ MaxUpheavals \in Nat /\ MaxDoorFaults \in Nat
    /\ Clients \subseteq {"codex", "claude"}
    /\ PublicKeys \cap {"ssh", "rdp", "codex", "claude"} = {}

VARIABLES
    flag,       \* ssh_enabled and rdp_enabled
    sshKeys,    \* rows of ssh_keys
    inside,     \* in the machine: enabled listeners, authorized_keys, credentials
    up,         \* the machine is ON
    door,       \* API requests
    calm,       \* no two requests, and no request and upheaval, ever overlapped;
                \* no call failed half-way or lost its answer
    counts      \* counters of the bounds

remoteVars == <<flag, sshKeys, inside, up, door, calm, counts>>

Listeners == {"ssh", "rdp"}
Wishes == [what : {"on", "off"}, on : Listeners]
          \cup [what : {"add", "remove"}, on : PublicKeys]
          \cup [what : {"install", "unlink"}, on : Clients]
NoWish == [what |-> "off", on |-> "rdp"]
NoFlags == [s \in Listeners |-> FALSE]
Empty == [listens |-> {}, authorized |-> {}, linked |-> {}]
Free == [at |-> "idle", wish |-> NoWish, copy |-> NoFlags, body |-> {}]

RemoteTypeOK ==
    /\ flag \in [Listeners -> BOOLEAN] /\ sshKeys \subseteq PublicKeys
    /\ inside \in [listens : SUBSET Listeners, authorized : SUBSET PublicKeys,
                   linked : SUBSET Clients]
    /\ up \in BOOLEAN /\ calm \in BOOLEAN
    /\ door \in [Doors -> [at : {"idle", "asked", "push", "call", "listen", "ok", "failed"},
                           wish : Wishes, copy : [Listeners -> BOOLEAN],
                           body : SUBSET PublicKeys]]
    /\ counts \in [calls : 0..MaxDoorCalls, upheavals : 0..MaxUpheavals, faults : 0..MaxDoorFaults]

RemoteInit ==
    /\ flag = NoFlags /\ sshKeys = {} /\ inside = Empty /\ up = TRUE
    /\ door = [d \in Doors |-> Free] /\ calm = TRUE
    /\ counts = [calls |-> 0, upheavals |-> 0, faults |-> 0]

Quietness == \A d \in Doors : door[d].at = "idle"
Becomes(d, new) == door' = [door EXCEPT ![d] = new]
At(d, at) == Becomes(d, [door[d] EXCEPT !.at = at])

-----------------------------------------------------------------------------
(* The handlers *)

\* The copy of the row, and the keys as read with it.
Asks(d, what, on, at) ==
    /\ door[d].at = "idle" /\ counts.calls < MaxDoorCalls
    /\ Becomes(d, [at |-> at, wish |-> [what |-> what, on |-> on], copy |-> flag,
                   body |-> sshKeys])
    /\ calm' = (calm /\ Quietness)
    /\ counts' = [counts EXCEPT !.calls = @ + 1]
    /\ UNCHANGED <<flag, sshKeys, inside, up>>

set_ssh(d, what) ==
    up /\ (what = "on" => sshKeys # {}) /\ Asks(d, what, "ssh", "call")

set_rdp(d, what) == up /\ Asks(d, what, "rdp", "call")

ai_codex(d, what) == up /\ "codex" \in Clients /\ Asks(d, what, "codex", "call")
ai_claude(d, what) == up /\ "claude" \in Clients /\ Asks(d, what, "claude", "call")

\* Neither asks for a running machine.
add_ssh_key(d, k) == k \notin sshKeys /\ Asks(d, "add", k, "asked")

remove_ssh_key(d, k) ==
    /\ k \in sshKeys /\ (flag["ssh"] => sshKeys # {k})
    /\ Asks(d, "remove", k, "asked")

\* The row of a key is added or deleted and committed before the push.
StoresKey(d) ==
    /\ door[d].at = "asked"
    /\ sshKeys' = IF door[d].wish.what = "add" THEN sshKeys \cup {door[d].wish.on}
                  ELSE sshKeys \ {door[d].wish.on}
    /\ At(d, "push")
    /\ UNCHANGED <<flag, inside, up, calm, counts>>

\* Mutant: pushes the keys as they were read with the request.
PushesReadKeys(d) ==
    /\ door[d].at = "push"
    /\ IF door[d].copy["ssh"] /\ door[d].body # {} THEN At(d, "call") ELSE Becomes(d, Free)
    /\ UNCHANGED <<flag, sshKeys, inside, up, calm, counts>>

\* _push_keys: only if the copy of the row says that SSH is on.
PushesKeys(d) ==
    /\ door[d].at = "push"
    /\ IF door[d].copy["ssh"] /\ sshKeys # {}
       THEN Becomes(d, [door[d] EXCEPT !.at = "call", !.body = sshKeys])
       ELSE Becomes(d, Free)
    /\ UNCHANGED <<flag, sshKeys, inside, up, calm, counts>>

\* After the answer; the session writes a flag only if it differs from its copy.
WritesFlag(d) ==
    /\ door[d].at \in {"ok", "failed"} /\ Becomes(d, Free)
    /\ LET wish == door[d].wish  new == (wish.what = "on") IN
       flag' = IF door[d].at = "ok" /\ wish.on \in Listeners /\ door[d].copy[wish.on] # new
               THEN [flag EXCEPT ![wish.on] = new] ELSE flag
    /\ UNCHANGED <<sshKeys, inside, up, calm, counts>>

-----------------------------------------------------------------------------
(* The provisioner, one thread per call *)

Fails(d) ==
    /\ At(d, "failed")
    /\ \/ ~up /\ UNCHANGED <<calm, counts>>
       \/ counts.faults < MaxDoorFaults /\ counts' = [counts EXCEPT !.faults = @ + 1] /\ UNCHANGED calm

FailsAfterAll(d) ==  \* done, but reported as failed or not at all
    /\ At(d, "failed") /\ calm' = FALSE
    /\ counts.faults < MaxDoorFaults /\ counts' = [counts EXCEPT !.faults = @ + 1]

Does(d, effect, at) ==
    \/ up /\ inside' = effect /\ At(d, at) /\ UNCHANGED <<calm, counts>>
    \/ up /\ inside' = effect /\ FailsAfterAll(d)
    \/ Fails(d) /\ UNCHANGED inside

\* service_ssh enable writes the keys first and opens the port second; a push
\* of keys is the same call.
service_ssh(d) ==
    LET wish == door[d].wish IN
    /\ \/ wish.what \in {"add", "remove"}
       \/ wish.on = "ssh"
    /\ \/ /\ door[d].at = "call" /\ wish.what # "off"
          /\ Does(d, [inside EXCEPT !.authorized = door[d].body], "listen")
       \/ /\ door[d].at = "listen"
          /\ Does(d, [inside EXCEPT !.listens = @ \cup {"ssh"}], "ok")
       \/ /\ door[d].at = "call" /\ wish.what = "off"
          /\ Does(d, [inside EXCEPT !.listens = @ \ {"ssh"}], "ok")
    /\ UNCHANGED <<flag, sshKeys, up>>

service_rdp(d) ==
    /\ door[d].at = "call" /\ door[d].wish.on = "rdp"
    /\ Does(d, [inside EXCEPT !.listens =
                   IF door[d].wish.what = "on" THEN @ \cup {"rdp"} ELSE @ \ {"rdp"}], "ok")
    /\ UNCHANGED <<flag, sshKeys, up>>

\* Credentials copied in, or taken out.
Links(d, client) ==
    /\ door[d].at = "call" /\ door[d].wish.on = client
    /\ Does(d, [inside EXCEPT !.linked =
                   IF door[d].wish.what = "install" THEN @ \cup {client} ELSE @ \ {client}], "ok")
    /\ UNCHANGED <<flag, sshKeys, up>>

_verb_ai_codex(d) == Links(d, "codex")
_verb_ai_claude(d) == Links(d, "claude")

-----------------------------------------------------------------------------
(* The machine *)

Upheaval ==
    /\ counts.upheavals < MaxUpheavals
    /\ counts' = [counts EXCEPT !.upheavals = @ + 1]
    /\ calm' = (calm /\ Quietness)
    /\ UNCHANGED <<sshKeys, door>>

PowerCycles == Upheaval /\ up' = ~up /\ UNCHANGED <<flag, inside>>

\* _factory_reset: the keys live in the table and survive.
Resets == Upheaval /\ inside' = Empty /\ flag' = NoFlags /\ up' = FALSE

-----------------------------------------------------------------------------
RemoteNext ==
    \/ \E d \in Doors :
         \/ \E what \in {"on", "off"} : set_ssh(d, what) \/ set_rdp(d, what)
         \/ \E what \in {"install", "unlink"} : ai_codex(d, what) \/ ai_claude(d, what)
         \/ \E k \in PublicKeys : add_ssh_key(d, k) \/ remove_ssh_key(d, k)
         \/ StoresKey(d) \/ PushesKeys(d) \/ WritesFlag(d)
         \/ service_ssh(d) \/ service_rdp(d)
         \/ _verb_ai_codex(d) \/ _verb_ai_claude(d)
    \/ PowerCycles \/ Resets

RemoteSpec == RemoteInit /\ [][RemoteNext]_remoteVars

-----------------------------------------------------------------------------
\* Whoever asks for one thing at a time is told the truth, through calls that
\* fail, power cycles and resets: the switches show which listeners the
\* machine has, and the keys in the list are the keys that open it.  A push
\* that failed while SSH is on is the exception the code makes: its row stays.
SwitchesTellTheTruth ==
    calm /\ Quietness =>
        /\ \A s \in Listeners : flag[s] <=> s \in inside.listens
        /\ flag["ssh"] /\ counts.faults = 0 /\ counts.upheavals = 0 => inside.authorized = sshKeys

\* Promise: a key is removable by itself, "a colleague leaving"
\* (models/__init__.py:425): a removed key does not open the machine.
RemovedKeyIsOut ==
    Quietness /\ flag["ssh"] /\ counts.faults = 0 /\ counts.upheavals = 0
        => inside.authorized \subseteq sshKeys

\* Promise: the dashboard's switch is what the machine does, whoever asks at once.
SwitchIsListener ==
    Quietness /\ counts.faults = 0 => \A s \in Listeners : flag[s] <=> s \in inside.listens
=============================================================================
