------------------------------ MODULE Accounts ------------------------------
(***************************************************************************)
(* Accounts, sessions and logins: auth.py, routes_users.py,                *)
(* routes_auth.py, routes_setup.py, and the accounts of the Store.         *)
(*                                                                         *)
(* A handler is one action, its authentication included: none of the calls *)
(* it awaits suspends, since the lock of the Store is never held across a  *)
(* suspension and bcrypt runs on the event loop.  The script that creates  *)
(* an account is another process, which the lock does not hold back.       *)
(* Requests carry the token of a session, which stands for the browser.    *)
(***************************************************************************)
EXTENDS Integers, Sequences, FiniteSets

CONSTANTS
  Users,       \* names of accounts
  Ttl,         \* SESSION_TTL_DAYS, in ticks
  Throttle,    \* a day, in ticks
  PurgeEvery,  \* _PURGE_EVERY_N_CALLS
  MaxAttempts, \* _MAX_ATTEMPTS, of one address; the window is less than a tick
  MaxSessions, \* bound: sessions ever opened
  MaxChanges,  \* bound: changes of the accounts
  MaxTime      \* bound: the clock

ASSUME AccountsBounds ==
  /\ IsFiniteSet(Users)
  /\ Throttle \in Nat \ {0} /\ Ttl \in Nat /\ Throttle < Ttl
  /\ PurgeEvery \in Nat \ {0} /\ MaxAttempts \in Nat \ {0}
  /\ MaxSessions \in Nat /\ MaxChanges \in Nat /\ MaxTime \in Nat

VARIABLES
  users,       \* state.json: users
  sessions,    \* state.json: sessions
  calls,       \* _purge_call_counter
  attempts,    \* _LOGIN_ATTEMPTS of the address, in this tick
  script,      \* what create-user.py has loaded
  now,
  \* history, read by no action
  issued,      \* sessions ever opened
  changes,
  version,     \* of an account: its creations and changes of password
  opened,      \* the version of the account when the session was opened
  used,        \* the last request of the session that was let in
  rolledBack   \* the script wrote back an older state

store == <<users, sessions>>
history == <<issued, changes, version, opened, used, rolledBack>>
accountsVars == <<store, calls, attempts, script, now, history>>

Tokens == 1..MaxSessions
Roles == {"admin", "user"}
NoUser == "none"
NoSession == [username |-> NoUser, expires |-> 0]
NotRunning == [on |-> FALSE, users |-> [u \in Users |-> NoUser],
               sessions |-> [t \in Tokens |-> NoSession]]

\* users[u] is the role of the account.
AccountsInit ==
  /\ users = [u \in Users |-> NoUser] /\ sessions = [t \in Tokens |-> NoSession]
  /\ calls = 0 /\ attempts = 0 /\ script = NotRunning /\ now = 0
  /\ issued = 0 /\ changes = 0 /\ version = [u \in Users |-> 0]
  /\ opened = [t \in Tokens |-> 0] /\ used = [t \in Tokens |-> 0]
  /\ rolledBack = FALSE

Accounts == {u \in Users : users[u] # NoUser}
Admins == {u \in Users : users[u] = "admin"}

-----------------------------------------------------------------------------
(* Sessions                                                                *)

\* purge_expired_sessions, purge_orphan_sessions
Purged ==
  [t \in Tokens |-> IF sessions[t].expires < now \/ sessions[t].username \notin Accounts
                    THEN NoSession ELSE sessions[t]]

\* Every so many requests, let in or not.
Seen == IF calls + 1 >= PurgeEvery THEN Purged ELSE sessions

\* get_session, get_user
Valid(t) ==
  /\ sessions[t] # NoSession /\ sessions[t].expires >= now
  /\ sessions[t].username \in Accounts

\* Not written if it was more than a day ago.
RenewedTwice(t) ==
  IF now + Ttl - Seen[t].expires >= Throttle THEN Seen
  ELSE [Seen EXCEPT ![t].expires = now + Ttl]

\* renew_session: not written if it was less than a day ago.
Renewed(t) ==
  IF now + Ttl - Seen[t].expires < Throttle THEN Seen
  ELSE [Seen EXCEPT ![t].expires = now + Ttl]

\* The sessions are left to expire.
RevokedNot(s, u) == s

\* set_user_password, delete_user: the sessions of the account go with it.
Revoked(s, u) == [t \in Tokens |-> IF s[t].username = u THEN NoSession ELSE s[t]]

\* create_session, under a token never used before.
Opened(s, u) ==
  /\ issued < MaxSessions /\ issued' = issued + 1
  /\ sessions' = [s EXCEPT ![issued + 1] = [username |-> u, expires |-> now + Ttl]]
  /\ opened' = [opened EXCEPT ![issued + 1] = version'[u]]
  /\ used' = [used EXCEPT ![issued + 1] = now]

-----------------------------------------------------------------------------
(* require_admin, and the handlers behind it                               *)

\* What every request with a session does first.
LetIn(t) ==
  /\ Valid(t)
  /\ calls' = (calls + 1) % PurgeEvery
  /\ used' = [used EXCEPT ![t] = now]
  /\ UNCHANGED <<attempts, script, now, issued, opened, rolledBack>>

\* Any other route, and those that refuse.
Request(t) ==
  /\ LetIn(t) /\ sessions' = Renewed(t)
  /\ UNCHANGED <<users, changes, version>>

\* 401: no session, or one that is over.
Refused ==
  /\ calls' = (calls + 1) % PurgeEvery /\ sessions' = Seen
  /\ UNCHANGED <<users, attempts, script, now, history>>

\* require_admin_role
AsAdmin(t) ==
  /\ LetIn(t) /\ users[sessions[t].username] = "admin"
  /\ changes < MaxChanges /\ changes' = changes + 1

\* create_user of the Store
Created(u, role) ==
  /\ u \notin Accounts
  /\ users' = [users EXCEPT ![u] = role]
  /\ version' = [version EXCEPT ![u] = @ + 1]

CreateUser(t, u, role) == AsAdmin(t) /\ Created(u, role) /\ sessions' = Renewed(t)

\* "pas d'auto-suppression, jamais moins d'un admin"
MayDelete(t, u) ==
  /\ u \in Accounts /\ u # sessions[t].username
  /\ users[u] = "admin" => Cardinality(Admins) > 1

DeleteUser(t, u) ==
  /\ AsAdmin(t) /\ MayDelete(t, u)
  /\ users' = [users EXCEPT ![u] = NoUser]
  /\ sessions' = Revoked(Renewed(t), u)
  /\ UNCHANGED version

ResetPassword(t, u) ==
  /\ AsAdmin(t) /\ u \in Accounts
  /\ version' = [version EXCEPT ![u] = @ + 1]
  /\ sessions' = Revoked(Renewed(t), u)
  /\ UNCHANGED users

\* The admin who asks is still there, whoever is demoted.
MaySetAccessAny(u, role) == u \in Accounts

MaySetAccess(u, role) ==
  /\ u \in Accounts
  /\ users[u] = "admin" /\ role # "admin" => Cardinality(Admins) > 1

SetAccess(t, u, role) ==
  /\ AsAdmin(t) /\ MaySetAccess(u, role)
  /\ users' = [users EXCEPT ![u] = role]
  /\ sessions' = Renewed(t)
  /\ UNCHANGED version

-----------------------------------------------------------------------------
(* Without a session                                                       *)

\* login: too many failures in the window are refused whatever the password.
Login(u) ==
  /\ attempts < MaxAttempts /\ u \in Accounts
  /\ attempts' = 0
  /\ version' = version /\ Opened(sessions, u)
  /\ UNCHANGED <<users, calls, script, now, changes, rolledBack>>

WrongPassword ==
  /\ attempts < MaxAttempts /\ attempts' = attempts + 1
  /\ UNCHANGED <<store, calls, script, now, history>>

Logout(t) ==
  /\ sessions[t] # NoSession
  /\ sessions' = [sessions EXCEPT ![t] = NoSession]
  /\ UNCHANGED <<users, calls, attempts, script, now, history>>

\* create_first_admin: no account at all yet, looked at under the same lock.
FirstAdmin(u) == Accounts = {} /\ Created(u, "admin")

\* setup: the first admin, and a session.
Setup(u) ==
  /\ changes < MaxChanges /\ changes' = changes + 1
  /\ FirstAdmin(u) /\ Opened(sessions, u)
  /\ UNCHANGED <<calls, attempts, script, now, rolledBack>>

\* create-user.py loads state.json, then writes it back with one more account.
ScriptLoads ==
  /\ ~ script.on /\ changes < MaxChanges
  /\ script' = [on |-> TRUE, users |-> users, sessions |-> sessions]
  /\ UNCHANGED <<store, calls, attempts, now, history>>

ScriptWrites(u) ==
  /\ script.on /\ script.users[u] = NoUser
  /\ changes < MaxChanges /\ changes' = changes + 1
  /\ users' = [script.users EXCEPT ![u] = "admin"]
  /\ sessions' = script.sessions
  /\ version' = [version EXCEPT ![u] = @ + 1]
  /\ rolledBack' = (rolledBack \/ users # script.users \/ sessions # script.sessions)
  /\ script' = NotRunning
  /\ UNCHANGED <<calls, attempts, now, issued, opened, used>>

\* "utilisateur deja existant"
ScriptEnds ==
  /\ script.on /\ script' = NotRunning
  /\ UNCHANGED <<store, calls, attempts, now, history>>

Tick ==
  /\ now < MaxTime /\ now' = now + 1 /\ attempts' = 0
  /\ UNCHANGED <<store, calls, script, history>>

\* The counters of the process go with it.
Restart ==
  /\ calls' = 0 /\ attempts' = 0
  /\ UNCHANGED <<store, script, now, history>>

AccountsNext ==
  \/ \E t \in Tokens : Request(t) \/ Logout(t)
  \/ \E t \in Tokens, u \in Users, role \in Roles : CreateUser(t, u, role) \/ SetAccess(t, u, role)
  \/ \E t \in Tokens, u \in Users : DeleteUser(t, u) \/ ResetPassword(t, u)
  \/ \E u \in Users : Login(u) \/ Setup(u) \/ ScriptWrites(u)
  \/ Refused \/ WrongPassword \/ ScriptLoads \/ ScriptEnds \/ Tick \/ Restart

AccountsSpec == AccountsInit /\ [][AccountsNext]_accountsVars

-----------------------------------------------------------------------------
(* Properties                                                              *)

SessionMaps == [Tokens -> [username : Users \union {NoUser}, expires : Int]]
Tables == [Users -> Roles \union {NoUser}]

\* Every variable keeps its type.
AccountsTypeOK ==
  /\ users \in Tables /\ sessions \in SessionMaps
  /\ calls \in 0..PurgeEvery - 1 /\ attempts \in 0..MaxAttempts
  /\ script \in [on : BOOLEAN, users : Tables, sessions : SessionMaps]
  /\ now \in 0..MaxTime /\ issued \in 0..MaxSessions /\ changes \in 0..MaxChanges
  /\ version \in [Users -> Nat] /\ opened \in [Tokens -> Nat] /\ used \in [Tokens -> Nat]
  /\ rolledBack \in BOOLEAN

\* "jamais moins d'un admin": once there is an account, one of them is an
\* admin's, whatever the admins do to each other and to themselves.
AdminRemains == Accounts # {} => Admins # {}

\* "revocation immediate", "les sessions ouvertes avec l'ancien secret ne
\* doivent pas survivre": a session that would be let in was opened since its
\* account was created and had its password changed last, even if the name was
\* deleted and taken again.  Not so once the script has written an old state.
SessionsCurrent ==
  ~ rolledBack =>
    \A t \in Tokens : Valid(t) => opened[t] = version[sessions[t].username]

\* "Prolonge la session glissante": a session ends Ttl after its last use, or
\* at most a day before that.
SlidingExpiry ==
  ~ rolledBack =>
    \A t \in Tokens : sessions[t] # NoSession =>
      used[t] + Ttl - Throttle < sessions[t].expires /\ sessions[t].expires <= used[t] + Ttl
=============================================================================
