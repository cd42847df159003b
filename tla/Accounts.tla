------------------------------ MODULE Accounts ------------------------------
(***************************************************************************)
(* Accounts and sessions (the auth, profile and user administration        *)
(* handlers of control/mmd/app.py).  A session is a signed cookie with the *)
(* version the account had when it was loaded; whatever must end sessions  *)
(* adds one to the version it loaded.  Handlers load a row, spend a while  *)
(* on scrypt or on a code, and commit; a commit writes only the columns    *)
(* changed, and no row is read again after it (expire_on_commit=False).    *)
(***************************************************************************)
EXTENDS Naturals, FiniteSets

CONSTANTS
    Users,             \* rows of users, each registered at most once
    Handlers,          \* threads of the API
    MaxAccountCalls,   \* bound: requests begun
    MaxAccountFaults   \* bound: requests that die between two commits

ASSUME AccountsAssumption ==
    Users # {} /\ MaxAccountCalls \in Nat /\ MaxAccountFaults \in Nat

VARIABLES
    account,     \* rows of users, with whether their accounts of credit and of keys exist
    cookies,     \* sessions ever issued; era: revocations there were when loaded
    handler,     \* requests under way, each with its copy of the row
    purge,       \* users with an account_delete operation
    era,         \* revocations committed, per user
    clashed,     \* users of whom one revocation overwrote another
    accountSpent

accountVars == <<account, cookies, handler, purge, era, clashed, accountSpent>>

Versions == 0..MaxAccountCalls
NoAccount == [status |-> "none", admin |-> FALSE, version |-> 0, credit |-> FALSE, key |-> FALSE]
Account == [status : {"none", "pending", "approved", "rejected", "deleting", "gone"},
            admin : BOOLEAN, version : Versions, credit : BOOLEAN, key : BOOLEAN]
Tasks == {"register", "login", "password", "phone", "reset", "edit", "approve", "reject",
          "promote", "demote", "delete"}
NoTask == [at |-> "idle", what |-> "login", user |-> CHOOSE u \in Users : TRUE,
           copy |-> NoAccount, era |-> 0]

AccountsTypeOK ==
    /\ account \in [Users -> Account]
    /\ cookies \subseteq [user : Users, version : Versions, era : Versions]
    /\ handler \in [Handlers -> [at : {"idle", "loaded", "accounts", "cookie", "queue"},
                                 what : Tasks, user : Users, copy : Account, era : Versions]]
    /\ purge \subseteq Users /\ clashed \subseteq Users
    /\ era \in [Users -> Versions]
    /\ accountSpent \in [calls : 0..MaxAccountCalls, faults : 0..MaxAccountFaults]

AccountsInit ==
    /\ account = [u \in Users |-> NoAccount] /\ cookies = {}
    /\ handler = [h \in Handlers |-> NoTask]
    /\ purge = {} /\ clashed = {} /\ era = [u \in Users |-> 0]
    /\ accountSpent = [calls |-> 0, faults |-> 0]

Registered(u) == account[u].status \notin {"none", "gone"}

\* current_user and _ensure_login_allowed; nothing sets SUSPENDED.
LoginAllowed(u) == account[u].status \in {"pending", "approved"}
current_user(c) == LoginAllowed(c.user) /\ c.version = account[c.user].version
require_admin(c) == current_user(c) /\ account[c.user].admin

-----------------------------------------------------------------------------
(* A request loads the row, after its checks *)

LoadsRow(h, what, u) ==
    /\ handler[h].at = "idle" /\ accountSpent.calls < MaxAccountCalls
    /\ accountSpent' = [accountSpent EXCEPT !.calls = @ + 1]
    /\ handler' = [handler EXCEPT ![h] = [at |-> "loaded", what |-> what, user |-> u,
                                          copy |-> account[u], era |-> era[u]]]
    /\ UNCHANGED <<account, cookies, purge, era, clashed>>

\* The copy of a registration is the row it will insert; the first is admin.
register(h, u) ==
    /\ handler[h].at = "idle" /\ accountSpent.calls < MaxAccountCalls
    /\ account[u].status = "none"
    /\ accountSpent' = [accountSpent EXCEPT !.calls = @ + 1]
    /\ LET first == \A v \in Users : ~Registered(v) IN
       handler' = [handler EXCEPT ![h] = [NoTask EXCEPT !.at = "loaded", !.what = "register",
         !.user = u, !.copy = [NoAccount EXCEPT
           !.status = IF first THEN "approved" ELSE "pending", !.admin = first]]]
    /\ UNCHANGED <<account, cookies, purge, era, clashed>>

\* login and login_sms; a recovery code needs no particular status.
SignsIn(h, u) == LoginAllowed(u) /\ LoadsRow(h, "login", u)
reset_password(h, u) == Registered(u) /\ LoadsRow(h, "reset", u)

OwnChange(h, c, what) ==
    /\ current_user(c) /\ what \in {"password", "phone"} /\ LoadsRow(h, what, c.user)

\* admin_set_admin counts the other administrators, whatever their status.
Administers(h, c, what, u) ==
    /\ require_admin(c) /\ Registered(u)
    /\ what \in {"edit", "approve", "reject", "promote", "demote", "delete"}
    /\ what = "demote" => \E v \in Users \ {u} : Registered(v) /\ account[v].admin
    /\ what = "delete" => u # c.user /\ account[u].status # "deleting"
    /\ LoadsRow(h, what, u)

-----------------------------------------------------------------------------
(* ... and commits *)

HandlerEnds(h) == handler' = [handler EXCEPT ![h] = NoTask]
Goes(h, at) == handler' = [handler EXCEPT ![h].at = at]

\* Mutant: a commit expires what was loaded, so the cookie has the version of now.
IssuesRefreshed(h) ==
    LET t == handler[h] IN
    cookies' = cookies \cup {[user |-> t.user, version |-> account[t.user].version,
                              era |-> t.era]}

\* _issue_session: the version as loaded, or as written by this request.
_issue_session(h) ==
    LET t == handler[h] IN
    cookies' = cookies \cup {[user |-> t.user, version |-> t.copy.version, era |-> t.era]}

SaveUser(h) ==
    /\ handler[h].at = "loaded" /\ handler[h].what = "register"
    /\ LET u == handler[h].user IN
       IF account[u].status = "none"
       THEN account' = [account EXCEPT ![u] = handler[h].copy] /\ Goes(h, "accounts")
       ELSE HandlerEnds(h) /\ UNCHANGED account  \* the name was taken meanwhile
    /\ UNCHANGED <<cookies, purge, era, clashed, accountSpent>>

SaveAccounts(h) ==
    /\ handler[h].at = "accounts" /\ HandlerEnds(h)
    /\ LET u == handler[h].user IN
       account' = IF ~Registered(u) THEN account
                  ELSE [account EXCEPT ![u].credit = TRUE,
                                       ![u].key = @ \/ handler[h].copy.status = "approved"]
    /\ UNCHANGED <<cookies, purge, era, clashed, accountSpent>>

SignedIn(h) ==
    /\ \/ handler[h].at = "loaded" /\ handler[h].what = "login"
       \/ handler[h].at = "cookie"
    /\ _issue_session(h) /\ HandlerEnds(h)
    /\ UNCHANGED <<account, purge, era, clashed, accountSpent>>

\* session_version += 1, of the copy.
Revokes(h, row) ==
    LET t == handler[h]  u == t.user  next == t.copy.version + 1 IN
    /\ account' = [account EXCEPT ![u] = [row EXCEPT !.version = next]]
    /\ era' = [era EXCEPT ![u] = @ + 1]
    /\ clashed' = IF account[u].version = t.copy.version THEN clashed ELSE clashed \cup {u}
    /\ handler' = [handler EXCEPT ![h] =
         CASE t.what \in {"password", "phone"} ->
                [t EXCEPT !.at = "cookie", !.copy.version = next, !.era = era[u] + 1]
           [] t.what = "delete" -> [t EXCEPT !.at = "queue"]
           [] OTHER -> NoTask]

Revoking == {"password", "phone", "edit", "reset", "reject", "delete"}

CommitsRevocation(h) ==
    /\ handler[h].at = "loaded" /\ handler[h].what \in Revoking
    /\ LET t == handler[h]  row == account[t.user] IN
       IF ~Registered(t.user) THEN HandlerEnds(h) /\ UNCHANGED <<account, era, clashed>>
       ELSE Revokes(h, CASE t.what = "reject" -> [row EXCEPT !.status = "rejected"]
                         [] t.what = "delete" -> [row EXCEPT !.status = "deleting"]
                         [] OTHER -> row)
    /\ UNCHANGED <<cookies, purge, accountSpent>>

\* admin_approve and admin_set_admin change what the copy lacks.
CommitsGrant(h) ==
    /\ handler[h].at = "loaded" /\ handler[h].what \in {"approve", "promote", "demote"}
    /\ LET t == handler[h]  row == account[t.user]
           approves == t.what # "demote" /\ t.copy.status # "approved" IN
       account' = IF ~Registered(t.user) THEN account
         ELSE [account EXCEPT ![t.user] =
                [row EXCEPT !.status = IF approves THEN "approved" ELSE @,
                   !.key = @ \/ approves \/ t.what = "approve",
                   !.admin = IF t.what = "approve" \/ t.copy.admin = (t.what = "promote") THEN @
                             ELSE t.what = "promote"]]
    /\ HandlerEnds(h)
    /\ UNCHANGED <<cookies, purge, era, clashed, accountSpent>>

QueuesDeletion(h) ==
    /\ handler[h].at = "queue" /\ HandlerEnds(h)
    /\ purge' = purge \cup {handler[h].user}
    /\ UNCHANGED <<account, cookies, era, clashed, accountSpent>>

HandlerDies(h) ==
    /\ handler[h].at # "idle" /\ HandlerEnds(h)
    /\ accountSpent.faults < MaxAccountFaults
    /\ accountSpent' = [accountSpent EXCEPT !.faults = @ + 1]
    /\ UNCHANGED <<account, cookies, purge, era, clashed>>

\* The worker's account_delete asks for no status.
_purge_account(u) ==
    /\ u \in purge /\ Registered(u)
    /\ account' = [account EXCEPT ![u] = [NoAccount EXCEPT !.status = "gone"]]
    /\ UNCHANGED <<cookies, handler, purge, era, clashed, accountSpent>>

-----------------------------------------------------------------------------
AccountsNext ==
    \/ \E h \in Handlers, u \in Users : register(h, u) \/ SignsIn(h, u) \/ reset_password(h, u)
    \/ \E h \in Handlers, c \in cookies, what \in Tasks :
         OwnChange(h, c, what) \/ \E u \in Users : Administers(h, c, what, u)
    \/ \E h \in Handlers : \/ SaveUser(h) \/ SaveAccounts(h) \/ SignedIn(h)
                           \/ CommitsRevocation(h) \/ CommitsGrant(h) \/ QueuesDeletion(h)
                           \/ HandlerDies(h)
    \/ \E u \in Users : _purge_account(u)

AccountsSpec == AccountsInit /\ [][AccountsNext]_accountVars

-----------------------------------------------------------------------------
\* A session that is let in was made from a row loaded after the last change
\* that revokes sessions: a sign-in under way with the old password, or a
\* change of one's own whose cookie comes late, outlives none - unless two
\* such changes of one account overlapped and one was lost.
RevokedStayOut ==
    \A c \in cookies : current_user(c) /\ c.user \notin clashed => c.era = era[c.user]

\* Promise: the same, however changes overlap ("revokes existing sessions",
\* docs/API.md:40).
RevokedAlwaysStayOut == \A c \in cookies : current_user(c) => c.era = era[c.user]

\* Promise: the only administrator stays one (app.py:3053), in one interleaving
\* or by a sequence of legal calls.
AnAdminRemains ==
    [][(\E u \in Users : LoginAllowed(u) /\ account[u].admin)
        => \E u \in Users : /\ account'[u].admin
                             /\ account'[u].status \in {"pending", "approved"}]_account

\* Promise: durable cleanup is removing what is DELETING (models:30), so it is
\* never active again.
DeletingIsFinal ==
    [][\A u \in Users : account[u].status = "deleting"
         => account'[u].status \in {"deleting", "gone"}]_account

\* Promise: an account that may use the API has its account of credit.
HasCredit ==
    \A u \in Users : LoginAllowed(u) /\ (\A h \in Handlers : handler[h].at # "accounts")
        => account[u].credit
=============================================================================
