----------------------- MODULE AccountsAndSavesProofs -----------------------
(***************************************************************************)
(* Proofs about Accounts, for any names, lifetimes, throttle, period of    *)
(* the purge and bounds; then theorems about GameServer, for every         *)
(* adapter, every backup_keep and every number of orders, worlds and       *)
(* faults.  The two have no variable in common, and no theorem is about    *)
(* both.                                                                   *)
(*                                                                         *)
(* The inductive invariant IInv of GameServer says, of each command the    *)
(* agent may be at, what the commands before it have established: which    *)
(* orders reach it (Dispatched), that the game has ended (Ended), that the *)
(* newest zip is a copy of the saves (BackupHoldsSaves), that the zip to   *)
(* restore is still the one the admin chose (SourceIsChosen).              *)
(***************************************************************************)
EXTENDS Accounts, GameServer, FiniteSetTheorems, TLAPS

-----------------------------------------------------------------------------
(* Accounts and sessions: the definitions                                  *)

\* What the sessions of s are worth: those left are of the same names.
Kept(s) == \A t \in Tokens : s[t] # NoSession =>
             sessions[t] # NoSession /\ s[t].username = sessions[t].username

\* A session that is there belongs to an account, as it was last set.
Current ==
  ~ rolledBack =>
    \A t \in Tokens : sessions[t] # NoSession =>
      /\ sessions[t].username \in Accounts
      /\ opened[t] = version[sessions[t].username]

Used == \A t \in Tokens : used[t] <= now

-----------------------------------------------------------------------------
(* What requests do to the sessions                                        *)

\* The purge removes sessions and changes none.
LEMMA SeenFacts ==
  ASSUME AccountsTypeOK
  PROVE  /\ Seen \in SessionMaps
         /\ \A t \in Tokens : Seen[t] \in {sessions[t], NoSession}
         /\ \A t \in Tokens : Valid(t) => Seen[t] = sessions[t]
<1>1. NoSession \in [username : Users \union {NoUser}, expires : Int]
  BY DEF NoSession
<1>2. sessions \in SessionMaps /\ now \in Int
  BY AccountsBounds DEF AccountsTypeOK
<1>3. /\ Purged \in SessionMaps
      /\ \A t \in Tokens : Purged[t] \in {sessions[t], NoSession}
  BY <1>1, <1>2 DEF Purged, SessionMaps
<1>4. ASSUME NEW t \in Tokens, Valid(t)
      PROVE  Purged[t] = sessions[t]
  <2>1. ~ (sessions[t].expires < now)
    BY <1>2, <1>4 DEF Valid, SessionMaps
  <2>2. QED
    BY <2>1, <1>4 DEF Purged, Valid
<1>5. CASE calls + 1 >= PurgeEvery
  BY <1>3, <1>4, <1>5 DEF Seen
<1>6. CASE ~ (calls + 1 >= PurgeEvery)
  BY <1>2, <1>6 DEF Seen
<1>7. QED
  BY <1>5, <1>6

\* A request renews its own session, or finds it renewed a short time ago.
LEMMA RenewedFacts ==
  ASSUME AccountsTypeOK, NEW t \in Tokens, Valid(t)
  PROVE  /\ Renewed(t) \in SessionMaps
         /\ Kept(Renewed(t))
         /\ \A s \in Tokens \ {t} : Renewed(t)[s] \in {sessions[s], NoSession}
         /\ now + Ttl - Renewed(t)[t].expires < Throttle
         /\ Renewed(t)[t].expires \in {sessions[t].expires, now + Ttl}
<1> DEFINE renewed == [Seen EXCEPT ![t].expires = now + Ttl]
<1>1. /\ Seen \in SessionMaps
      /\ \A s \in Tokens : Seen[s] \in {sessions[s], NoSession}
      /\ Seen[t] = sessions[t]
  BY SeenFacts
<1>2. now \in Int /\ Ttl \in Int /\ Throttle \in Nat \ {0} /\ sessions[t].expires \in Int
  BY AccountsBounds DEF AccountsTypeOK, SessionMaps
<1>3. sessions[t] # NoSession
  BY DEF Valid
<1>4. CASE now + Ttl - Seen[t].expires < Throttle
  <2>1. Renewed(t) = Seen
    BY <1>4 DEF Renewed
  <2>2. Kept(Seen)
    BY <1>1 DEF Kept
  <2>3. QED
    BY <2>1, <2>2, <1>1, <1>4
<1>5. CASE ~ (now + Ttl - Seen[t].expires < Throttle)
  <2>1. Renewed(t) = renewed
    BY <1>5 DEF Renewed
  <2>2. /\ renewed \in SessionMaps
        /\ \A s \in Tokens \ {t} : renewed[s] = Seen[s]
        /\ renewed[t].username = Seen[t].username
        /\ renewed[t].expires = now + Ttl
    BY <1>1, <1>2 DEF SessionMaps
  <2> HIDE DEF renewed
  <2>3. Kept(renewed)
    BY <2>2, <1>1, <1>3 DEF Kept
  <2>4. now + Ttl - renewed[t].expires < Throttle
    BY <2>2, <1>2
  <2>5. QED
    BY <2>1, <2>2, <2>3, <2>4, <1>1
<1>6. QED
  BY <1>4, <1>5

\* Revoking takes the sessions of one account away.
LEMMA RevokedFacts ==
  ASSUME NEW s \in SessionMaps, NEW u \in Users
  PROVE  /\ Revoked(s, u) \in SessionMaps
         /\ \A t \in Tokens : Revoked(s, u)[t] \in {s[t], NoSession}
         /\ \A t \in Tokens : Revoked(s, u)[t] # NoSession => s[t].username # u
BY DEF Revoked, SessionMaps, NoSession

\* What the handlers of the accounts do first.
LEMMA AsAdminFacts ==
  ASSUME AccountsTypeOK, NEW t \in Tokens, AsAdmin(t)
  PROVE  /\ Valid(t)
         /\ sessions[t].username \in Users /\ users[sessions[t].username] = "admin"
         /\ calls' \in 0..PurgeEvery - 1 /\ changes' \in 0..MaxChanges
         /\ used' = [used EXCEPT ![t] = now]
         /\ UNCHANGED <<attempts, script, now, issued, opened, rolledBack>>
<1>1. calls + 1 \in Nat /\ PurgeEvery \in Nat \ {0}
  BY AccountsBounds DEF AccountsTypeOK
<1>2. (calls + 1) % PurgeEvery \in 0..PurgeEvery - 1
  BY <1>1
<1>3. changes + 1 \in 0..MaxChanges \/ ~ (changes < MaxChanges)
  BY AccountsBounds DEF AccountsTypeOK
<1>4. QED
  BY <1>2, <1>3 DEF AsAdmin, LetIn, Valid, Accounts

-----------------------------------------------------------------------------
(* What a step does to each part of the state                              *)

\* What opening a session does.
LEMMA OpenedFacts ==
  ASSUME AccountsTypeOK, NEW u \in Users, Opened(sessions, u), version' \in [Users -> Nat]
  PROVE  /\ issued + 1 \in Tokens
         /\ issued' \in 0..MaxSessions /\ sessions' \in SessionMaps
         /\ opened' \in [Tokens -> Nat] /\ used' \in [Tokens -> Nat]
         /\ \A t \in Tokens \ {issued + 1} :
              sessions'[t] = sessions[t] /\ opened'[t] = opened[t] /\ used'[t] = used[t]
         /\ sessions'[issued + 1].username = u
         /\ sessions'[issued + 1].expires = now + Ttl
         /\ opened'[issued + 1] = version'[u] /\ used'[issued + 1] = now
<1>1. /\ issued + 1 \in Tokens /\ issued + 1 \in 0..MaxSessions
      /\ now \in Nat /\ now + Ttl \in Int
  BY AccountsBounds DEF AccountsTypeOK, Opened, Tokens
<1>2. [username |-> u, expires |-> now + Ttl] \in [username : Users \union {NoUser}, expires : Int]
  BY <1>1
<1>3. /\ sessions \in SessionMaps /\ opened \in [Tokens -> Nat] /\ used \in [Tokens -> Nat]
      /\ version'[u] \in Nat
  BY DEF AccountsTypeOK
<1>4. QED
  BY <1>1, <1>2, <1>3 DEF Opened, SessionMaps

\* The accounts keep their type.
LEMMA UsersType ==
  ASSUME AccountsTypeOK, [AccountsNext]_accountsVars
  PROVE  users' \in Tables /\ version' \in [Users -> Nat]
<1>1. /\ users \in Tables /\ version \in [Users -> Nat]
      /\ script.users \in Tables
  BY DEF AccountsTypeOK
<1>2. CASE UNCHANGED <<users, version>>
  BY <1>1, <1>2
<1>3. ASSUME NEW u \in Users, NEW role \in Roles, Created(u, role)
      PROVE  users' \in Tables /\ version' \in [Users -> Nat]
  BY <1>1, <1>3 DEF Created, Tables
<1>4. ASSUME NEW t \in Tokens, NEW u \in Users, NEW role \in Roles,
             CreateUser(t, u, role) \/ SetAccess(t, u, role)
      PROVE  users' \in Tables /\ version' \in [Users -> Nat]
  BY <1>1, <1>3, <1>4 DEF CreateUser, SetAccess, Tables
<1>5. ASSUME NEW t \in Tokens, NEW u \in Users, DeleteUser(t, u) \/ ResetPassword(t, u)
      PROVE  users' \in Tables /\ version' \in [Users -> Nat]
  BY <1>1, <1>5 DEF DeleteUser, ResetPassword, Tables
<1>6. ASSUME NEW u \in Users, Setup(u)
      PROVE  users' \in Tables /\ version' \in [Users -> Nat]
  BY <1>3, <1>6 DEF Setup, FirstAdmin, Roles
<1>7. ASSUME NEW u \in Users, ScriptWrites(u)
      PROVE  users' \in Tables /\ version' \in [Users -> Nat]
  BY <1>1, <1>7 DEF ScriptWrites, Tables, Roles
<1>8. QED
  BY <1>2, <1>4, <1>5, <1>6, <1>7
  DEF AccountsNext, accountsVars, store, history, Request, Logout, Login, Refused, WrongPassword,
      ScriptLoads, ScriptEnds, Tick, Restart

\* A handler behind require_admin_role leaves Renewed, or less.
LEMMA HandlerFacts ==
  ASSUME AccountsTypeOK, NEW t \in Tokens,
         \/ \E u \in Users, role \in Roles : CreateUser(t, u, role) \/ SetAccess(t, u, role)
         \/ \E u \in Users : DeleteUser(t, u) \/ ResetPassword(t, u)
  PROVE  /\ AsAdmin(t) /\ sessions' \in SessionMaps
         /\ \A s \in Tokens : sessions'[s] \in {Renewed(t)[s], NoSession}
<1>1. AsAdmin(t)
  BY DEF CreateUser, SetAccess, DeleteUser, ResetPassword
<1>2. Renewed(t) \in SessionMaps
  BY <1>1, AsAdminFacts, RenewedFacts
<1>3. sessions' = Renewed(t) \/ \E u \in Users : sessions' = Revoked(Renewed(t), u)
  BY DEF CreateUser, SetAccess, DeleteUser, ResetPassword
<1>4. QED
  BY <1>1, <1>2, <1>3, RevokedFacts

\* Whoever is let in.
LEMMA LetInFacts ==
  ASSUME AccountsTypeOK, NEW t \in Tokens, LetIn(t)
  PROVE  /\ Valid(t) /\ calls' \in 0..PurgeEvery - 1
         /\ used' = [used EXCEPT ![t] = now]
         /\ UNCHANGED <<attempts, script, now, issued, opened, rolledBack>>
<1>1. calls + 1 \in Nat /\ PurgeEvery \in Nat \ {0}
  BY AccountsBounds DEF AccountsTypeOK
<1>2. (calls + 1) % PurgeEvery \in 0..PurgeEvery - 1
  BY <1>1
<1>3. QED
  BY <1>2 DEF LetIn

-----------------------------------------------------------------------------
(* Types                                                                   *)

LEMMA StoreType ==
  ASSUME AccountsTypeOK, [AccountsNext]_accountsVars
  PROVE  /\ sessions' \in SessionMaps /\ calls' \in 0..PurgeEvery - 1
         /\ issued' \in 0..MaxSessions
         /\ opened' \in [Tokens -> Nat] /\ used' \in [Tokens -> Nat]
<1> DEFINE P == /\ sessions' \in SessionMaps /\ calls' \in 0..PurgeEvery - 1
                /\ issued' \in 0..MaxSessions
                /\ opened' \in [Tokens -> Nat] /\ used' \in [Tokens -> Nat]
<1>1. /\ sessions \in SessionMaps /\ calls \in 0..PurgeEvery - 1 /\ issued \in 0..MaxSessions
      /\ opened \in [Tokens -> Nat] /\ used \in [Tokens -> Nat] /\ now \in Nat
      /\ script.sessions \in SessionMaps /\ version' \in [Users -> Nat]
  BY AccountsBounds, UsersType DEF AccountsTypeOK
<1>2. PurgeEvery \in Nat \ {0} /\ calls + 1 \in Nat /\ 0 \in 0..PurgeEvery - 1
  BY <1>1, AccountsBounds
<1>3. (calls + 1) % PurgeEvery \in 0..PurgeEvery - 1
  BY <1>2
<1>4. \A t \in Tokens : [used EXCEPT ![t] = now] \in [Tokens -> Nat]
  BY <1>1
<1>5. ASSUME NEW t \in Tokens, Request(t)
      PROVE  P
  BY <1>1, <1>4, <1>5, LetInFacts, RenewedFacts DEF Request
<1>6. ASSUME NEW t \in Tokens, NEW u \in Users, NEW role \in Roles,
             CreateUser(t, u, role) \/ SetAccess(t, u, role)
      PROVE  P
  BY <1>1, <1>4, <1>6, HandlerFacts, AsAdminFacts
<1>7. ASSUME NEW t \in Tokens, NEW u \in Users, DeleteUser(t, u) \/ ResetPassword(t, u)
      PROVE  P
  BY <1>1, <1>4, <1>7, HandlerFacts, AsAdminFacts
<1>8. ASSUME NEW u \in Users, Login(u) \/ Setup(u)
      PROVE  P
  <2>1. Opened(sessions, u) /\ UNCHANGED calls
    BY <1>8 DEF Login, Setup
  <2>2. QED
    BY <2>1, <1>1, OpenedFacts
<1>9. ASSUME NEW t \in Tokens, Logout(t)
      PROVE  P
  <2>1. NoSession \in [username : Users \union {NoUser}, expires : Int]
    BY DEF NoSession
  <2>2. QED
    BY <2>1, <1>1, <1>9 DEF Logout, history, SessionMaps
<1>10. CASE Refused
  BY <1>1, <1>3, <1>10, SeenFacts DEF Refused, history
<1>11. ASSUME NEW u \in Users, ScriptWrites(u)
       PROVE  P
  BY <1>1, <1>11 DEF ScriptWrites
<1>12. CASE WrongPassword \/ ScriptLoads \/ ScriptEnds \/ Tick \/ UNCHANGED accountsVars
  BY <1>1, <1>12 DEF WrongPassword, ScriptLoads, ScriptEnds, Tick, accountsVars, store, history
<1>13. CASE Restart
  BY <1>1, <1>2, <1>13 DEF Restart, store, history
<1>14. QED
  BY <1>5, <1>6, <1>7, <1>8, <1>9, <1>10, <1>11, <1>12, <1>13 DEF AccountsNext

LEMMA RestType ==
  ASSUME AccountsTypeOK, [AccountsNext]_accountsVars
  PROVE  /\ attempts' \in 0..MaxAttempts /\ now' \in 0..MaxTime /\ changes' \in 0..MaxChanges
         /\ rolledBack' \in BOOLEAN
         /\ script' \in [on : BOOLEAN, users : Tables, sessions : SessionMaps]
<1> DEFINE P == /\ attempts' \in 0..MaxAttempts /\ now' \in 0..MaxTime
                /\ changes' \in 0..MaxChanges /\ rolledBack' \in BOOLEAN
<1>1. /\ attempts \in 0..MaxAttempts /\ now \in 0..MaxTime /\ changes \in 0..MaxChanges
      /\ rolledBack \in BOOLEAN /\ 0 \in 0..MaxAttempts
      /\ attempts < MaxAttempts => attempts + 1 \in 0..MaxAttempts
      /\ now < MaxTime => now + 1 \in 0..MaxTime
      /\ changes < MaxChanges => changes + 1 \in 0..MaxChanges
  BY AccountsBounds DEF AccountsTypeOK
<1>2. P
  <2>1. ASSUME NEW t \in Tokens, Request(t) \/ Logout(t)
        PROVE  P
    BY <2>1, <1>1 DEF Request, LetIn, Logout, history
  <2>2. ASSUME NEW t \in Tokens, NEW u \in Users, NEW role \in Roles,
               \/ CreateUser(t, u, role) \/ SetAccess(t, u, role)
               \/ DeleteUser(t, u) \/ ResetPassword(t, u)
        PROVE  P
    BY <2>2, <1>1 DEF CreateUser, SetAccess, DeleteUser, ResetPassword, AsAdmin, LetIn
  <2>3. ASSUME NEW u \in Users, Login(u) \/ Setup(u) \/ ScriptWrites(u)
        PROVE  P
    BY <2>3, <1>1 DEF Login, Setup, ScriptWrites
  <2>4. CASE \/ Refused \/ WrongPassword \/ ScriptLoads \/ ScriptEnds \/ Tick \/ Restart
             \/ UNCHANGED accountsVars
    BY <2>4, <1>1 DEF Refused, WrongPassword, ScriptLoads, ScriptEnds, Tick, Restart,
      accountsVars, store, history
  <2>5. "admin" \in Roles
    BY DEF Roles
  <2>6. QED
    BY <2>1, <2>2, <2>3, <2>4, <2>5 DEF AccountsNext
<1>3. script' \in [on : BOOLEAN, users : Tables, sessions : SessionMaps]
  <2>1. /\ script \in [on : BOOLEAN, users : Tables, sessions : SessionMaps]
        /\ users \in Tables /\ sessions \in SessionMaps
    BY DEF AccountsTypeOK
  <2>2. NotRunning \in [on : BOOLEAN, users : Tables, sessions : SessionMaps]
    BY DEF NotRunning, NoSession, Tables, SessionMaps
  <2>3. [on |-> TRUE, users |-> users, sessions |-> sessions]
          \in [on : BOOLEAN, users : Tables, sessions : SessionMaps]
    BY <2>1
  <2>4. \/ script' = script \/ script' = NotRunning
        \/ script' = [on |-> TRUE, users |-> users, sessions |-> sessions]
    BY DEF AccountsNext, accountsVars, store, history, Request, LetIn, Logout, CreateUser, SetAccess,
      DeleteUser, ResetPassword, AsAdmin, Login, Setup, ScriptWrites, Refused,
      WrongPassword, ScriptLoads, ScriptEnds, Tick, Restart
  <2> HIDE DEF P
  <2>5. QED
    BY <2>1, <2>2, <2>3, <2>4, Zenon
<1>4. QED
  BY <1>2, <1>3

LEMMA InitTypes == AccountsInit => AccountsTypeOK
<1>1. SUFFICES ASSUME AccountsInit PROVE AccountsTypeOK
  OBVIOUS
<1>2. /\ users \in Tables /\ sessions \in SessionMaps
      /\ script \in [on : BOOLEAN, users : Tables, sessions : SessionMaps]
  BY <1>1 DEF AccountsInit, NotRunning, NoSession, Tables, SessionMaps
<1>3. /\ calls \in 0..PurgeEvery - 1 /\ attempts \in 0..MaxAttempts /\ now \in 0..MaxTime
      /\ issued \in 0..MaxSessions /\ changes \in 0..MaxChanges
  BY <1>1, AccountsBounds DEF AccountsInit
<1>4. QED
  BY <1>1, <1>2, <1>3 DEF AccountsInit, AccountsTypeOK

\* Every variable of the accounts keeps its type.
THEOREM TypeCorrect == AccountsSpec => []AccountsTypeOK
<1>1. AccountsTypeOK /\ [AccountsNext]_accountsVars => AccountsTypeOK'
  <2>1. SUFFICES ASSUME AccountsTypeOK, [AccountsNext]_accountsVars PROVE AccountsTypeOK'
    OBVIOUS
  <2>2. QED
    BY <2>1, UsersType, StoreType, RestType DEF AccountsTypeOK
<1>2. QED
  BY <1>1, InitTypes, PTL DEF AccountsSpec

-----------------------------------------------------------------------------
(* An admin remains                                                        *)

\* When there is more than one, there is another.
LEMMA AnotherAdmin ==
  ASSUME NEW u \in Admins, Cardinality(Admins) > 1
  PROVE  \E v \in Admins : v # u
<1>1. IsFiniteSet(Admins)
  BY AccountsBounds, FS_Subset DEF Admins
<1>2. CASE Admins = {u}
  <2>1. Cardinality(Admins) = 1
    BY <1>2, FS_Singleton
  <2>2. QED
    BY <2>1
<1>3. QED
  BY <1>2

LEMMA AdminStep ==
  ASSUME AccountsTypeOK, AdminRemains, [AccountsNext]_accountsVars
  PROVE  AdminRemains'
<1> DEFINE P == \E v \in Users : users'[v] = "admin"
<1>1. users \in Tables /\ script.users \in Tables
  BY DEF AccountsTypeOK
<1>2. SUFFICES P \/ UNCHANGED users
  BY DEF AdminRemains, Accounts, Admins
<1>3. ASSUME NEW t \in Tokens, NEW u \in Users, NEW role \in Roles, CreateUser(t, u, role)
      PROVE  P
  <2>1. sessions[t].username \in Users /\ users[sessions[t].username] = "admin"
    BY <1>3, AsAdminFacts DEF CreateUser
  <2>2. users[u] = "none" /\ users' = [users EXCEPT ![u] = role]
    BY <1>3 DEF CreateUser, Created, Accounts, NoUser
  <2>3. QED
    BY <2>1, <2>2, <1>1 DEF Tables
<1>4. ASSUME NEW t \in Tokens, NEW u \in Users, NEW role \in Roles, SetAccess(t, u, role)
      PROVE  P
  <2>1. sessions[t].username \in Users /\ users[sessions[t].username] = "admin"
    BY <1>4, AsAdminFacts DEF SetAccess
  <2>2. /\ users' = [users EXCEPT ![u] = role]
        /\ users[u] = "admin" /\ role # "admin" => Cardinality(Admins) > 1
    BY <1>4 DEF SetAccess, MaySetAccess
  <2>3. CASE u # sessions[t].username \/ role = "admin"
    BY <2>1, <2>2, <2>3, <1>1 DEF Tables
  <2>4. CASE u = sessions[t].username /\ role # "admin"
    <3>1. u \in Admins /\ Cardinality(Admins) > 1
      BY <2>1, <2>2, <2>4 DEF Admins
    <3>2. PICK v \in Admins : v # u
      BY <3>1, AnotherAdmin
    <3>3. v \in Users /\ users'[v] = "admin"
      BY <3>2, <2>2, <1>1 DEF Admins, Tables
    <3>4. QED
      BY <3>3
  <2>5. QED
    BY <2>3, <2>4
<1>5. ASSUME NEW t \in Tokens, NEW u \in Users, DeleteUser(t, u)
      PROVE  P
  <2>1. sessions[t].username \in Users /\ users[sessions[t].username] = "admin"
    BY <1>5, AsAdminFacts DEF DeleteUser
  <2>2. u # sessions[t].username /\ users' = [users EXCEPT ![u] = NoUser]
    BY <1>5 DEF DeleteUser, MayDelete
  <2>3. QED
    BY <2>1, <2>2, <1>1 DEF Tables
<1>6. ASSUME NEW u \in Users, Setup(u)
      PROVE  P
  BY <1>6, <1>1 DEF Setup, FirstAdmin, Created, Tables
<1>7. ASSUME NEW u \in Users, ScriptWrites(u)
      PROVE  P
  BY <1>7, <1>1 DEF ScriptWrites, Tables
<1>8. QED
  BY <1>3, <1>4, <1>5, <1>6, <1>7
  DEF AccountsNext, accountsVars, store, history, Request, Logout, Login, Refused, WrongPassword,
      ResetPassword, ScriptLoads, ScriptEnds, Tick, Restart

\* "jamais moins d'un admin": once there is an account one of them is an
\* admin's, for any number of them and whatever the script writes back.
THEOREM AdminKept == AccountsSpec => []AdminRemains
<1>1. AccountsInit => AdminRemains
  BY DEF AccountsInit, AdminRemains, Accounts
<1>2. AccountsTypeOK /\ AdminRemains /\ [AccountsNext]_accountsVars => AdminRemains'
  BY AdminStep
<1>3. QED
  BY <1>1, <1>2, TypeCorrect, PTL DEF AccountsSpec

-----------------------------------------------------------------------------
(* No session outlives its account or its password                         *)

\* A request that only keeps or drops sessions, the accounts being the same.
LEMMA CurrentKept ==
  ASSUME AccountsTypeOK, Current, Kept(sessions'),
         UNCHANGED <<users, version, opened, rolledBack>>
  PROVE  Current'
BY DEF Current, Kept, Accounts

\* A session that is opened is of the account as it is now.
LEMMA CurrentOpened ==
  ASSUME AccountsTypeOK, NEW u \in Users, Opened(sessions, u), users' \in Tables,
         version' \in [Users -> Nat], users'[u] # NoUser, rolledBack' = rolledBack,
         Current,
         \A t \in Tokens : sessions[t] # NoSession =>
            /\ users'[sessions[t].username] = users[sessions[t].username]
            /\ version'[sessions[t].username] = version[sessions[t].username]
  PROVE  Current'
<1>1. SUFFICES ASSUME ~ rolledBack, NEW t \in Tokens, sessions'[t] # NoSession
               PROVE  /\ sessions'[t].username \in Users
                      /\ users'[sessions'[t].username] # NoUser
                      /\ opened'[t] = version'[sessions'[t].username]
  BY DEF Current, Accounts
<1>2. CASE t = issued + 1
  BY <1>2, OpenedFacts
<1>3. CASE t # issued + 1
  <2>1. sessions'[t] = sessions[t] /\ opened'[t] = opened[t]
    BY <1>3, OpenedFacts
  <2>2. QED
    BY <2>1, <1>1 DEF Current, Accounts
<1>4. QED
  BY <1>2, <1>3

\* The handlers behind require_admin_role open no session.
LEMMA HandlerKeeps ==
  ASSUME AccountsTypeOK, NEW t \in Tokens,
         \/ \E u \in Users, role \in Roles : CreateUser(t, u, role) \/ SetAccess(t, u, role)
         \/ \E u \in Users : DeleteUser(t, u) \/ ResetPassword(t, u)
  PROVE  Kept(sessions') /\ UNCHANGED <<opened, rolledBack>>
<1>1. AsAdmin(t) /\ \A s \in Tokens : sessions'[s] \in {Renewed(t)[s], NoSession}
  BY HandlerFacts
<1>2. Kept(Renewed(t)) /\ UNCHANGED <<opened, rolledBack>>
  BY <1>1, AsAdminFacts, RenewedFacts
<1>3. QED
  BY <1>1, <1>2 DEF Kept

LEMMA CurrentStep ==
  ASSUME AccountsTypeOK, Current, [AccountsNext]_accountsVars
  PROVE  Current'
<1>1. /\ users \in Tables /\ version \in [Users -> Nat] /\ sessions \in SessionMaps
      /\ users' \in Tables /\ version' \in [Users -> Nat] /\ sessions' \in SessionMaps
  BY UsersType, StoreType DEF AccountsTypeOK
<1>2. ASSUME NEW t \in Tokens, Request(t)
      PROVE  Current'
  <2>1. Kept(sessions') /\ UNCHANGED <<opened, rolledBack>>
    BY <1>2, LetInFacts, RenewedFacts DEF Request
  <2>2. QED
    BY <2>1, <1>2, CurrentKept DEF Request
<1>3. ASSUME NEW t \in Tokens, Logout(t)
      PROVE  Current'
  <2>1. Kept(sessions')
    BY <1>1, <1>3 DEF Logout, Kept, SessionMaps
  <2>2. QED
    BY <2>1, <1>3, CurrentKept DEF Logout, history
<1>4. CASE Refused
  <2>1. Kept(sessions')
    BY <1>4, SeenFacts DEF Refused, Kept
  <2>2. QED
    BY <2>1, <1>4, CurrentKept DEF Refused, history
<1>5. ASSUME NEW t \in Tokens, NEW u \in Users, NEW role \in Roles, SetAccess(t, u, role)
      PROVE  Current'
  <2>1. Kept(sessions') /\ UNCHANGED <<opened, rolledBack>>
    BY <1>5, HandlerKeeps
  <2>2. /\ u \in Accounts /\ users' = [users EXCEPT ![u] = role]
        /\ version' = version /\ role # NoUser
    BY <1>5 DEF SetAccess, MaySetAccess, Roles, NoUser
  <2>3. \A v \in Accounts : users'[v] # NoUser
    BY <2>2, <1>1 DEF Accounts, Tables
  <2>4. QED
    BY <2>1, <2>2, <2>3 DEF Current, Kept, Accounts
<1>6. ASSUME NEW t \in Tokens, NEW u \in Users, NEW role \in Roles, CreateUser(t, u, role)
      PROVE  Current'
  <2>1. Kept(sessions') /\ UNCHANGED <<opened, rolledBack>>
    BY <1>6, HandlerKeeps
  <2>2. /\ u \notin Accounts /\ users' = [users EXCEPT ![u] = role]
        /\ version' = [version EXCEPT ![u] = @ + 1]
    BY <1>6 DEF CreateUser, Created
  <2>3. \A v \in Accounts : users'[v] # NoUser /\ version'[v] = version[v]
    BY <2>2, <1>1 DEF Accounts, Tables
  <2>4. QED
    BY <2>1, <2>3 DEF Current, Kept, Accounts
<1>7. ASSUME NEW t \in Tokens, NEW u \in Users, DeleteUser(t, u) \/ ResetPassword(t, u)
      PROVE  Current'
  <2>1. Kept(sessions') /\ UNCHANGED <<opened, rolledBack>>
    BY <1>7, HandlerKeeps
  <2>2. /\ Renewed(t) \in SessionMaps
        /\ sessions' = Revoked(Renewed(t), u)
    BY <1>7, AsAdminFacts, RenewedFacts DEF DeleteUser, ResetPassword
  <2>3. \A s \in Tokens : sessions'[s] # NoSession => sessions'[s].username # u
    BY <2>2, RevokedFacts
  <2>4. \A v \in Accounts \ {u} : users'[v] # NoUser /\ version'[v] = version[v]
    BY <1>1, <1>7 DEF DeleteUser, ResetPassword, Accounts, Tables
  <2>5. QED
    BY <2>1, <2>3, <2>4 DEF Current, Kept, Accounts
<1>8. ASSUME NEW u \in Users, Login(u)
      PROVE  Current'
  BY <1>1, <1>8, CurrentOpened DEF Login, Accounts
<1>9. ASSUME NEW u \in Users, Setup(u)
      PROVE  Current'
  <2>1. /\ Accounts = {} /\ Opened(sessions, u) /\ rolledBack' = rolledBack
        /\ users' = [users EXCEPT ![u] = "admin"]
    BY <1>9 DEF Setup, FirstAdmin, Created
  <2>2. CASE rolledBack
    BY <2>1, <2>2 DEF Current
  <2>3. CASE ~ rolledBack
    <3>1. \A t \in Tokens : sessions[t] = NoSession
      BY <2>1, <2>3 DEF Current
    <3>2. users'[u] # NoUser
      BY <2>1, <1>1 DEF Tables, NoUser
    <3>3. QED
      BY <2>1, <3>1, <3>2, <1>1, CurrentOpened
  <2>4. QED
    BY <2>2, <2>3
<1>10. ASSUME NEW u \in Users, ScriptWrites(u)
       PROVE  Current'
  <2>1. SUFFICES ASSUME ~ rolledBack' PROVE Current'
    BY DEF Current
  <2>2. /\ ~ rolledBack /\ users[u] = NoUser /\ users' = [users EXCEPT ![u] = "admin"]
        /\ sessions' = sessions /\ opened' = opened
        /\ version' = [version EXCEPT ![u] = @ + 1]
    BY <1>10, <2>1 DEF ScriptWrites
  <2>3. \A v \in Accounts : users'[v] # NoUser /\ version'[v] = version[v]
    BY <2>2, <1>1 DEF Accounts, Tables
  <2>4. QED
    BY <2>2, <2>3 DEF Current, Accounts
<1>11. CASE WrongPassword \/ ScriptLoads \/ ScriptEnds \/ Tick \/ Restart \/ UNCHANGED accountsVars
  BY <1>11 DEF WrongPassword, ScriptLoads, ScriptEnds, Tick, Restart, accountsVars, store, history,
    Current, Accounts
<1>12. QED
  BY <1>2, <1>3, <1>4, <1>5, <1>6, <1>7, <1>8, <1>9, <1>10, <1>11 DEF AccountsNext

\* "revocation immediate": no session lets anyone in after its account was
\* deleted or made again, or its password changed, as long as the script has
\* written no older state back.
THEOREM SessionsFresh == AccountsSpec => []SessionsCurrent
<1>1. AccountsInit => Current
  BY DEF AccountsInit, Current, NoSession
<1>2. AccountsTypeOK /\ Current /\ [AccountsNext]_accountsVars => Current'
  BY CurrentStep
<1>3. Current => SessionsCurrent
  BY DEF Current, SessionsCurrent, Valid
<1>4. QED
  BY <1>1, <1>2, <1>3, TypeCorrect, PTL DEF AccountsSpec

-----------------------------------------------------------------------------
(* A session ends a lifetime after its last use                            *)

\* Of one session, last used at u.
Slides(session, u) ==
  session # NoSession => u + Ttl - Throttle < session.expires /\ session.expires <= u + Ttl

\* Where the session of the request is renewed, and the others left or ended.
LEMMA SlidesRequest ==
  ASSUME AccountsTypeOK, Used, SlidingExpiry, ~ rolledBack, NEW t \in Tokens, Valid(t),
         used' = [used EXCEPT ![t] = now], NEW s \in Tokens
  PROVE  Slides(Renewed(t)[s], used'[s])
<1>1. /\ used \in [Tokens -> Nat] /\ sessions \in SessionMaps /\ now \in Nat
      /\ Renewed(t) \in SessionMaps /\ Ttl \in Nat /\ Throttle \in Nat
      /\ 0 < Throttle
  BY AccountsBounds, RenewedFacts DEF AccountsTypeOK
<1>2. CASE s = t
  <2>1. used'[t] = now /\ used[t] \in Nat /\ used[t] <= now
    BY <1>1 DEF Used
  <2>2. sessions[t].expires \in Int /\ Renewed(t)[t].expires \in Int
    BY <1>1 DEF SessionMaps
  <2>3. sessions[t].expires <= used[t] + Ttl
    BY DEF SlidingExpiry, Valid
  <2>4. /\ now + Ttl - Renewed(t)[t].expires < Throttle
        /\ Renewed(t)[t].expires \in {sessions[t].expires, now + Ttl}
    BY RenewedFacts
  <2>5. /\ now + Ttl - Throttle < Renewed(t)[t].expires
        /\ Renewed(t)[t].expires <= now + Ttl
    BY <1>1, <2>1, <2>2, <2>3, <2>4
  <2>6. QED
    BY <1>2, <2>1, <2>5 DEF Slides
<1>3. CASE s # t
  <2>1. used'[s] = used[s] /\ Renewed(t)[s] \in {sessions[s], NoSession}
    BY <1>1, <1>3, RenewedFacts
  <2>2. QED
    BY <2>1 DEF Slides, SlidingExpiry
<1>4. QED
  BY <1>2, <1>3

LEMMA SlidesStep ==
  ASSUME AccountsTypeOK, Used, SlidingExpiry, [AccountsNext]_accountsVars
  PROVE  SlidingExpiry'
<1>1. SUFFICES ASSUME ~ rolledBack', NEW s \in Tokens PROVE Slides(sessions'[s], used'[s])
  BY DEF SlidingExpiry, Slides
<1>2. ~ rolledBack
  BY <1>1 DEF AccountsNext, accountsVars, store, history, Request, LetIn, Logout, CreateUser,
    SetAccess, DeleteUser, ResetPassword, AsAdmin, Login, Setup, ScriptWrites, Refused,
    WrongPassword, ScriptLoads, ScriptEnds, Tick, Restart
<1>3. Slides(sessions[s], used[s]) /\ \A u : Slides(NoSession, u)
  BY <1>2 DEF SlidingExpiry, Slides
<1>4. ASSUME NEW t \in Tokens, Request(t)
      PROVE  Slides(sessions'[s], used'[s])
  BY <1>2, <1>4, LetInFacts, SlidesRequest DEF Request
<1>5. ASSUME NEW t \in Tokens,
             \/ \E u \in Users, role \in Roles : CreateUser(t, u, role) \/ SetAccess(t, u, role)
             \/ \E u \in Users : DeleteUser(t, u) \/ ResetPassword(t, u)
      PROVE  Slides(sessions'[s], used'[s])
  <2>1. AsAdmin(t) /\ sessions'[s] \in {Renewed(t)[s], NoSession}
    BY <1>5, HandlerFacts
  <2>2. Valid(t) /\ used' = [used EXCEPT ![t] = now]
    BY <2>1, AsAdminFacts
  <2>3. Slides(Renewed(t)[s], used'[s])
    BY <2>2, <1>2, SlidesRequest
  <2>4. QED
    BY <2>1, <2>3, <1>3
<1>6. ASSUME NEW t \in Tokens, Logout(t)
      PROVE  Slides(sessions'[s], used'[s])
  <2>1. sessions'[s] \in {sessions[s], NoSession} /\ used'[s] = used[s]
    BY <1>6 DEF Logout, history, AccountsTypeOK, SessionMaps
  <2>2. QED
    BY <2>1, <1>3
<1>7. CASE Refused
  <2>1. sessions'[s] \in {sessions[s], NoSession} /\ used'[s] = used[s]
    BY <1>7, SeenFacts DEF Refused, history
  <2>2. QED
    BY <2>1, <1>3
<1>8. ASSUME NEW u \in Users, Login(u) \/ Setup(u)
      PROVE  Slides(sessions'[s], used'[s])
  <2>1. Opened(sessions, u) /\ version' \in [Users -> Nat]
    BY <1>8, UsersType DEF Login, Setup
  <2>2. CASE s = issued + 1
    <3>1. sessions'[s].expires = now + Ttl /\ used'[s] = now
      BY <2>1, <2>2, OpenedFacts
    <3>2. now \in Nat /\ Ttl \in Nat /\ Throttle \in Nat /\ 0 < Throttle
      BY AccountsBounds DEF AccountsTypeOK
    <3>3. QED
      BY <3>1, <3>2 DEF Slides
  <2>3. CASE s # issued + 1
    BY <2>1, <2>3, <1>3, OpenedFacts
  <2>4. QED
    BY <2>2, <2>3
<1>9. ASSUME NEW u \in Users, ScriptWrites(u)
      PROVE  Slides(sessions'[s], used'[s])
  BY <1>1, <1>3, <1>9 DEF ScriptWrites
<1>10. CASE WrongPassword \/ ScriptLoads \/ ScriptEnds \/ Tick \/ Restart \/ UNCHANGED accountsVars
  BY <1>3, <1>10 DEF WrongPassword, ScriptLoads, ScriptEnds, Tick, Restart, accountsVars, store, history
<1>11. QED
  BY <1>4, <1>5, <1>6, <1>7, <1>8, <1>9, <1>10 DEF AccountsNext

LEMMA UsedStep ==
  ASSUME AccountsTypeOK, Used, [AccountsNext]_accountsVars
  PROVE  Used'
<1>1. used \in [Tokens -> Nat] /\ now \in Nat
  BY DEF AccountsTypeOK
<1>2. ASSUME NEW t \in Tokens, used' = [used EXCEPT ![t] = now], now' = now
      PROVE  Used'
  BY <1>1, <1>2 DEF Used
<1>3. ASSUME NEW t \in Tokens, Request(t)
      PROVE  Used'
  BY <1>2, <1>3, LetInFacts DEF Request
<1>4. ASSUME NEW t \in Tokens,
             \/ \E u \in Users, role \in Roles : CreateUser(t, u, role) \/ SetAccess(t, u, role)
             \/ \E u \in Users : DeleteUser(t, u) \/ ResetPassword(t, u)
      PROVE  Used'
  BY <1>2, <1>4, HandlerFacts, AsAdminFacts
<1>5. ASSUME NEW u \in Users, Login(u) \/ Setup(u)
      PROVE  Used'
  <2>1. now' = now /\ used' = [used EXCEPT ![issued + 1] = now]
    BY <1>5 DEF Login, Setup, Opened
  <2>2. QED
    BY <2>1, <1>1 DEF Used
<1>6. CASE Tick
  <2>1. now' = now + 1 /\ used' = used
    BY <1>6 DEF Tick, history
  <2>2. QED
    BY <2>1, <1>1 DEF Used
<1>7. UNCHANGED <<used, now>> => Used'
  BY DEF Used
<1>8. QED
  BY <1>3, <1>4, <1>5, <1>6, <1>7 DEF AccountsNext, accountsVars, store, history, Logout, ScriptWrites,
    Refused, WrongPassword, ScriptLoads, ScriptEnds, Restart

\* "Prolonge la session glissante": a session ends a lifetime after the last
\* request it let in, or at most a throttle before, for any lifetime and any
\* shorter throttle, as long as the script has written no older state back.
THEOREM Sliding == AccountsSpec => []SlidingExpiry
<1>1. AccountsInit => Used /\ SlidingExpiry
  BY DEF AccountsInit, Used, SlidingExpiry
<1>2. AccountsTypeOK /\ Used /\ SlidingExpiry /\ [AccountsNext]_accountsVars => Used' /\ SlidingExpiry'
  BY UsedStep, SlidesStep
<1>3. QED
  BY <1>1, <1>2, TypeCorrect, PTL DEF AccountsSpec
-----------------------------------------------------------------------------
(* Operations and saves of a game: the definitions                         *)

\* The orders that reach each command.
Dispatched ==
  /\ at \in {"stop", "wait"} => order.type \in StopTypes
  /\ at = "backup" => order.type \in {"backup", "restart", "update",
                                      "restore_save"}
  /\ at = "steam" => order.type = "update"
  /\ at \in {"clear", "extract"} => order.type = "restore_save"
  /\ at = "start" => order.type \in {"start", "restart", "update",
                                     "restore_save"}

\* After a stop that saw the game end, the game is down.
Ended ==
  /\ (at = "backup" /\ order.type # "backup" /\ ~late) => proc = "down"
  /\ (at \in {"steam", "clear", "extract"} /\ ~late) => proc = "down"
  /\ (at = "start" /\ order.type # "start" /\ ~late) => proc = "down"

\* The zip to restore has not changed since the restore began, and the saves
\* are its world once it is extracted.
SourceIsChosen ==
  order.type = "restore_save" =>
    /\ (at \in {"stop", "wait", "backup", "clear", "extract"}
          /\ order.file \in DOMAIN zips) => zips[order.file] = chosen
    /\ (at = "start" /\ ~late) => save = chosen /\ save # Nothing

IInv == /\ TypeOK
        /\ Dispatched
        /\ Ended
        /\ SourceIsChosen
        /\ BackupHoldsSaves
        /\ SafetyCopy
        /\ DoneMeansDone

-----------------------------------------------------------------------------
(* The purge of Backup-GameSave.                                           *)

\* A zip that fewer than backup_keep zips follow survives the purge.
LEMMA NewestSurvives ==
  ASSUME NEW last \in Nat, NEW names, names \subseteq 1..last,
         NEW n \in names, last - n < Keep
  PROVE  n \in Newest(names)
<1> DEFINE Later == {m \in names : m > n}
<1>2. names \subseteq Nat /\ n \in 1..last /\ n \in Nat /\ last - n \in Nat
  OBVIOUS
<1>1. Later \subseteq (n + 1)..last
  <2>1. ASSUME NEW m \in names, m > n PROVE m \in (n + 1)..last
    <3>1. m \in 1..last
      OBVIOUS
    <3> QED
      BY <1>2, <2>1, <3>1
  <2> QED
    BY <2>1
<1>3. /\ IsFiniteSet((n + 1)..last)
      /\ Cardinality((n + 1)..last) = IF n + 1 > last THEN 0
                                      ELSE last - (n + 1) + 1
  BY <1>2, FS_Interval
<1>4. Cardinality((n + 1)..last) = last - n
  BY <1>2, <1>3
<1>5. /\ IsFiniteSet(Later)
      /\ Cardinality(Later) <= last - n
  BY <1>1, <1>3, <1>4, FS_Subset
<1>6. Cardinality(Later) \in Nat
  BY <1>5, FS_CardinalityType
<1>7. Cardinality(Later) < Keep
  BY <1>2, <1>5, <1>6, BoundsAssumption DEF BoundsAssumption
<1> QED
  BY <1>7 DEF Newest

\* What Backup-GameSave leaves: the new zip, and, among the others, each one
\* that fewer than backup_keep zips follow, as it was.
LEMMA ZipsAfterBackup ==
  ASSUME TypeOK, MakeZip
  PROVE  /\ DOMAIN zips' \subseteq DOMAIN zips \cup {made'}
         /\ \A n \in DOMAIN zips' : zips'[n] = IF n = made' THEN save ELSE zips[n]
         /\ made' \in DOMAIN zips'
         /\ \A n \in DOMAIN zips : made' - n < Keep => n \in DOMAIN zips'
<1> DEFINE D == DOMAIN zips \cup {made + 1}
<1>1. /\ made \in Nat /\ made + 1 \in Nat /\ made' = made + 1
      /\ DOMAIN zips \subseteq 1..made
      /\ zips' = Restrict(WithZip(save), Newest(D))
  BY DEF TypeOK, MakeZip
<1>2. D \subseteq 1..(made + 1)
  BY <1>1
<1>3. Newest(D) \subseteq D
  BY DEF Newest
<1>4. /\ DOMAIN zips' = Newest(D)
      /\ \A n \in Newest(D) : zips'[n] = WithZip(save)[n]
  BY <1>1 DEF Restrict
<1>5. \A n \in D : WithZip(save)[n] = IF n = made + 1 THEN save ELSE zips[n]
  BY DEF WithZip
<1>6. \A n \in D : made + 1 - n < Keep => n \in Newest(D)
  <2> HIDE DEF D
  <2>1. ASSUME NEW n \in D, made + 1 - n < Keep PROVE n \in Newest(D)
    <3> DEFINE last == made + 1
    <3>1. last \in Nat /\ D \subseteq 1..last /\ last - n < Keep
      BY <1>1, <1>2, <2>1
    <3> HIDE DEF last
    <3> QED
      BY <2>1, <3>1, NewestSurvives
  <2> QED
    BY <2>1
<1>7. made + 1 \in Newest(D)
  <2>1. made + 1 - (made + 1) < Keep
    BY <1>1, BoundsAssumption DEF BoundsAssumption
  <2> QED
    BY <2>1, <1>6
<1>8. \A n \in D : n \in DOMAIN zips \/ n = made + 1
  OBVIOUS
<1>9. DOMAIN zips \subseteq D
  OBVIOUS
<1> HIDE DEF D
<1>10. \A n \in DOMAIN zips' : zips'[n] = IF n = made' THEN save ELSE zips[n]
  BY <1>1, <1>3, <1>4, <1>5
<1>11. \A n \in DOMAIN zips : made' - n < Keep => n \in DOMAIN zips'
  BY <1>1, <1>4, <1>6, <1>9
<1> QED
  BY <1>1, <1>3, <1>4, <1>7, <1>8, <1>10, <1>11

\* A set of zips that is not empty has an oldest one.
LEMMA OldestZip ==
  ASSUME NEW last \in Nat, NEW names, names \subseteq 1..last, names # {}
  PROVE  \E n \in names : \A m \in names : n <= m
<1> DEFINE Upto == {1..n : n \in names}
           Below == StrictSubsetOrdering(1..last)
<1>1. IsWellFoundedOn(Below, SUBSET (1..last))
  <2>1. IsFiniteSet(1..last)
    BY FS_Interval
  <2>2. FiniteSubsetsOf(1..last) = SUBSET (1..last)
    BY <2>1, FS_FiniteSubsetsOfFinite
  <2> QED
    BY <2>2, FS_StrictSubsetOrderingWellFounded
<1>2. Upto \subseteq SUBSET (1..last) /\ Upto # {}
  <2>1. ASSUME NEW n \in names PROVE 1..n \subseteq 1..last
    <3>1. n \in 1..last
      OBVIOUS
    <3> QED
      BY <3>1
  <2>2. \E U : U \in Upto
    OBVIOUS
  <2> QED
    BY <2>1, <2>2
<1>3. \E U \in Upto : \A V \in Upto : ~ (<<V, U>> \in Below)
  <2> HIDE DEF Upto, Below
  <2> QED
    BY <1>1, <1>2, WFMin
<1>4. PICK n \in names : \A m \in names : ~ (<<1..m, 1..n>> \in Below)
  BY <1>3
<1>5. ASSUME NEW m \in names, ~ (n <= m)
      PROVE  FALSE
  <2>1. m \in 1..last /\ n \in 1..last
    OBVIOUS
  <2>2. /\ 1..m \subseteq 1..n /\ n \in 1..n /\ n \notin 1..m
        /\ 1..m \in SUBSET (1..last) /\ 1..n \in SUBSET (1..last)
    BY <1>5, <2>1
  <2>3. <<1..m, 1..n>> \in Below
    BY <2>2 DEF StrictSubsetOrdering
  <2> QED
    BY <1>4, <2>3
<1> QED
  BY <1>5

\* The purge leaves at most backup_keep zips.
LEMMA NewestAreFew ==
  ASSUME NEW last \in Nat, NEW names, names \subseteq 1..last
  PROVE  IsFiniteSet(Newest(names)) /\ Cardinality(Newest(names)) <= Keep
<1> DEFINE N == Newest(names)
           Later(n) == {m \in names : m > n}
<1>1. Keep \in Nat
  BY BoundsAssumption DEF BoundsAssumption
<1>2. IsFiniteSet(names)
  <2>1. IsFiniteSet(1..last)
    BY FS_Interval
  <2> QED
    BY <2>1, FS_Subset
<1>3. N \subseteq names /\ (\A n \in N : Cardinality(Later(n)) < Keep)
  BY DEF Newest
<1>4. IsFiniteSet(N) /\ Cardinality(N) \in Nat
  BY <1>2, <1>3, FS_Subset, FS_CardinalityType
<1>5. CASE N = {}
  BY <1>1, <1>5, FS_EmptySet
<1>6. CASE N # {}
  <2>1. N \subseteq 1..last
    BY <1>3
  <2> HIDE DEF N
  <2>2. PICK n \in N : \A m \in N : n <= m
    BY <1>6, <2>1, OldestZip
  <2>3. N \ {n} \subseteq Later(n)
    BY <1>3, <2>1, <2>2
  <2>4. IsFiniteSet(Later(n)) /\ Cardinality(Later(n)) \in Nat
    <3>1. Later(n) \subseteq names
      OBVIOUS
    <3> HIDE DEF Later
    <3> QED
      BY <1>2, <3>1, FS_Subset, FS_CardinalityType
  <2>5. Cardinality(N \ {n}) <= Cardinality(Later(n))
    <3> HIDE DEF Later
    <3> QED
      BY <2>3, <2>4, FS_Subset
  <2>6. Cardinality(N \ {n}) = Cardinality(N) - 1
    BY <1>4, FS_RemoveElement
  <2>7. Cardinality(Later(n)) < Keep
    BY <1>3
  <2> HIDE DEF Later
  <2> QED
    BY <1>1, <1>4, <2>4, <2>5, <2>6, <2>7 DEF N
<1> QED
  BY <1>4, <1>5, <1>6

-----------------------------------------------------------------------------
(* Types.                                                                  *)

LEMMA AfterBackupCommand ==
  ASSUME Dispatched, at = "backup"
  PROVE  /\ order.type = "backup" => AfterBackup = "report"
         /\ order.type = "restart" => AfterBackup = "start"
         /\ order.type = "update" => AfterBackup = "steam"
         /\ order.type = "restore_save" => AfterBackup = "clear"
         /\ AfterBackup \in {"report", "start", "steam", "clear"}
  BY DEF Dispatched, AfterBackup

LEMMA TypeInit == Init => TypeOK
<1> SUFFICES ASSUME Init PROVE TypeOK
  OBVIOUS
<1>1. DOMAIN zips = {}
  BY DEF Init
<1>2. order = [type |-> "none", file |-> 0]
  BY DEF Init, NoOrder
<1>3. faults \in 0..MaxFaults /\ sent \in 0..MaxOrders /\ played \in 0..MaxPlay
  BY BoundsAssumption DEF Init, BoundsAssumption
<1>4. /\ made = 0 /\ DOMAIN zips \subseteq 1..made
      /\ \A n \in DOMAIN zips : zips[n] \in Worlds \cup {Torn}
      /\ wipedAt \in 0..made /\ reported \subseteq 1..made
  BY <1>1 DEF Init
<1>5. order \in [type : OrderTypes \cup {"none"}, file : 0..made]
  BY <1>2, <1>4
<1>6. /\ adapter \in Adapters /\ proc \in {"down", "up", "closing", "killed"}
      /\ live \in Worlds \cup {Nothing} /\ save \in Worlds \cup {Nothing}
  BY DEF Init
<1>7. /\ order = NoOrder /\ at = "idle" /\ result = "none"
      /\ warned \in BOOLEAN /\ late \in BOOLEAN /\ launched \in BOOLEAN
  BY DEF Init
<1>8. /\ chosen \in Worlds \cup {Nothing, Torn}
      /\ loaded \in Worlds \cup {Nothing}
      /\ wiped \in Worlds \cup {Nothing}
  BY DEF Init
<1> QED
  BY <1>3, <1>4, <1>5, <1>6, <1>7, <1>8 DEF TypeOK

LEMMA TypeAfterZip ==
  ASSUME TypeOK, MakeZip
  PROVE  /\ made' \in Nat
         /\ DOMAIN zips' \subseteq 1..made'
         /\ \A n \in DOMAIN zips' : zips'[n] \in Worlds \cup {Torn}
         /\ reported \subseteq 1..made'
         /\ order \in [type : OrderTypes \cup {"none"}, file : 0..made']
         /\ wipedAt \in 0..made'
<1> USE DEF TypeOK
<1>1. made' = made + 1 /\ made \in Nat /\ save # Nothing
  BY DEF MakeZip
<1>2. DOMAIN zips' \subseteq DOMAIN zips \cup {made + 1}
  BY <1>1, ZipsAfterBackup
<1>3. DOMAIN zips \subseteq 1..made
  OBVIOUS
<1>4. DOMAIN zips' \subseteq 1..made'
  BY <1>1, <1>2, <1>3
<1>5. \A n \in DOMAIN zips' : zips'[n] \in Worlds \cup {Torn}
  BY <1>1, ZipsAfterBackup
<1>6. reported \subseteq 1..made' /\ wipedAt \in 0..made'
  BY <1>1
<1>7. order \in [type : OrderTypes \cup {"none"}, file : 0..made']
  BY <1>1
<1> QED
  BY <1>1, <1>4, <1>5, <1>6, <1>7

LEMMA TypeStep == ASSUME TypeOK, Dispatched, [Next]_vars PROVE TypeOK'
<1> USE DEF TypeOK, machineVars, historyVars
<1>1. ASSUME NEW type \in OrderTypes, NEW file \in {0} \cup reported,
             SendOrder(type, file)
      PROVE  TypeOK'
  <2>1. order' = [type |-> type, file |-> file] /\ type # "none"
    BY <1>1 DEF SendOrder, OrderTypes, StopTypes
  <2> QED
    BY <1>1, <2>1, BoundsAssumption DEF SendOrder, BoundsAssumption
<1>2. CASE ReportState
  BY <1>2 DEF ReportState
<1>3. CASE Begin
  <2>1. order.type \in OrderTypes /\ order.type # "none"
    BY <1>3 DEF Begin, OrderTypes, StopTypes
  <2>2. at' \in {"stop", "start", "backup", "report"}
    BY <1>3, <2>1 DEF Begin, FirstCommand, OrderTypes
  <2>3. chosen' \in Worlds \cup {Nothing, Torn}
    BY <1>3 DEF Begin
  <2>4. /\ result' \in {"none", "done", "failed"} /\ loaded' = Nothing
        /\ warned' = FALSE /\ late' = FALSE /\ launched' = FALSE
        /\ UNCHANGED <<adapter, machineVars, played, reported, order, sent, wiped, wipedAt,
                       faults>>
    BY <1>3 DEF Begin
  <2> QED
    BY <2>1, <2>2, <2>3, <2>4
<1>4. CASE StopThrows
  BY <1>4 DEF StopThrows, Throw
<1>5. CASE NothingToStop
  BY <1>5 DEF NothingToStop, AfterStop
<1>6. CASE AskToEnd
  BY <1>6 DEF AskToEnd, Asked
<1>7. CASE SeenDown
  BY <1>7 DEF SeenDown, AfterStop
<1>8. CASE WaitTimesOut
  BY <1>8 DEF WaitTimesOut, AfterStop
<1>9. CASE BackUp
  <2>1. at' \in {"report", "start", "steam", "clear"} /\ order.type # "none"
    BY <1>9, AfterBackupCommand DEF BackUp
  <2> QED
    BY <1>9, <2>1, TypeAfterZip DEF BackUp
<1>10. CASE BackupFails
  <2>1. at' \in {"report", "start", "steam", "clear"}
    BY <1>10, AfterBackupCommand DEF BackupFails, Throw
  <2>2. warned' \in BOOLEAN /\ result' \in {"none", "done", "failed"}
    BY <1>10 DEF BackupFails, Throw
  <2> QED
    BY <1>10, <2>1, <2>2 DEF BackupFails
<1>11. CASE RunSteam
  BY <1>11 DEF RunSteam
<1>12. CASE SteamThrows
  BY <1>12 DEF SteamThrows, Throw
<1>13. CASE Clear
  BY <1>13 DEF Clear, Wipe, Worlds
<1>14. CASE Extract
  BY <1>14 DEF Extract
<1>15. CASE ExtractFails
  BY <1>15 DEF ExtractFails, Throw, Worlds
<1>16. CASE Launch
  BY <1>16 DEF Launch, InitialWorld, Worlds
<1>17. CASE FoundRunning
  BY <1>17 DEF FoundRunning
<1>18. CASE StartFails
  BY <1>18 DEF StartFails, Throw
<1>19. CASE Report
  <2>1. order' = [type |-> "none", file |-> 0]
    BY <1>19 DEF Report, NoOrder
  <2> QED
    BY <1>19, <2>1 DEF Report
<1>20. CASE LoseReport
  BY <1>20, BoundsAssumption DEF LoseReport, BoundsAssumption
<1>21. CASE AgentCrash
  <2>1. faults' \in 0..MaxFaults
    BY <1>21, BoundsAssumption DEF AgentCrash, BoundsAssumption
  <2>2. CASE UNCHANGED <<save, zips, made, wiped, wipedAt>>
    BY <1>21, <2>1, <2>2 DEF AgentCrash
  <2>3. CASE /\ made' = made + 1
             /\ zips' = WithZip(Torn)
             /\ UNCHANGED <<save, wiped, wipedAt>>
    BY <1>21, <2>1, <2>3 DEF AgentCrash, WithZip
  <2>4. CASE /\ save' = Broken
             /\ Wipe
             /\ UNCHANGED <<zips, made>>
    BY <1>21, <2>1, <2>4 DEF AgentCrash, Wipe, Worlds
  <2>5. CASE /\ save' = Broken
             /\ UNCHANGED <<zips, made, wiped, wipedAt>>
    BY <1>21, <2>1, <2>5 DEF AgentCrash, Worlds
  <2> QED
    BY <1>21, <2>2, <2>3, <2>4, <2>5 DEF AgentCrash
<1>22. CASE Play
  <2>1. played' \in 0..MaxPlay /\ live' \in 1..MaxPlay
    BY <1>22, BoundsAssumption DEF Play, BoundsAssumption
  <2> QED
    BY <1>22, <2>1 DEF Play, Worlds
<1>23. CASE Flush
  BY <1>23 DEF Flush
<1>24. CASE End
  BY <1>24 DEF End
<1>25. CASE GameCrash
  <2>1. faults' \in 0..MaxFaults
    BY <1>25, BoundsAssumption DEF GameCrash, BoundsAssumption
  <2> QED
    BY <1>25, <2>1 DEF GameCrash
<1>26. CASE DailyBackup
  <2>1. sent' \in 0..MaxOrders
    BY <1>26, BoundsAssumption DEF DailyBackup, BoundsAssumption
  <2> QED
    BY <1>26, <2>1, TypeAfterZip DEF DailyBackup
<1>27. CASE UNCHANGED vars
  BY <1>27 DEF vars
<1> QED
  BY <1>1, <1>2, <1>3, <1>4, <1>5, <1>6, <1>7, <1>8, <1>9, <1>10, <1>11,
     <1>12, <1>13, <1>14, <1>15, <1>16, <1>17, <1>18, <1>19, <1>20, <1>21,
     <1>22, <1>23, <1>24, <1>25, <1>26, <1>27
     DEF Next, Commands, Others, Game

-----------------------------------------------------------------------------
(* The steps that matter to the other parts of the invariant, sorted by    *)
(* what they do to the agent's place.                                      *)

\* The steps of the game and the state report: the agent stays where it is.
Bystander ==
  /\ UNCHANGED <<order, at, result, warned, zips, made, chosen, late, launched,
                 loaded, wiped, wipedAt>>
  /\ \/ UNCHANGED <<proc, save>>
     \/ /\ proc # "down"
        /\ proc' \in {proc, "down"}

\* The steps that leave the agent idle; one of them makes a zip, and two may
\* cut a zip or an extraction short.
BackToIdle ==
  /\ at' = "idle"
  /\ \/ UNCHANGED <<zips, made, wiped, wipedAt>>
     \/ /\ made' = made + 1
        /\ zips' = WithZip(Torn)
        /\ UNCHANGED <<wiped, wipedAt>>
     \/ MakeZip /\ UNCHANGED <<wiped, wipedAt>>
     \/ /\ at = "clear"
        /\ save # Nothing
        /\ Wipe
        /\ UNCHANGED <<zips, made>>

\* The exceptions: the verdict is "failed".
Failing ==
  /\ at' = "report"
  /\ result' = "failed"
  /\ UNCHANGED <<order, zips, made, wiped, wipedAt>>

\* The stop is over: nothing was running, or Wait-Process returned.
Stopped ==
  /\ at \in {"stop", "wait"}
  /\ at' = AfterStop
  /\ late' = TRUE \/ (proc = "down" /\ proc' = "down")
  /\ UNCHANGED <<order, save, zips, made, chosen, wiped, wipedAt>>

LEMMA StepKinds ==
  ASSUME TypeOK, [Next]_vars
  PROVE  \/ Bystander
         \/ BackToIdle
         \/ Failing
         \/ Stopped
         \/ Begin /\ ~Failing
         \/ AskToEnd
         \/ BackUp
         \/ BackupFails /\ ~Failing
         \/ RunSteam
         \/ Clear
         \/ Extract
         \/ Launch
         \/ FoundRunning
<1> USE DEF machineVars, historyVars
<1>1. ASSUME NEW type \in OrderTypes, NEW file \in {0} \cup reported,
             SendOrder(type, file)
      PROVE  BackToIdle
  BY <1>1 DEF SendOrder, BackToIdle, TypeOK, NoOrder
<1>2. ReportState \/ Play \/ UNCHANGED vars => Bystander
  BY DEF ReportState, Play, Bystander, vars
<1>3. Flush \/ End \/ GameCrash => Bystander
  BY DEF Flush, End, GameCrash, Bystander
<1>4. Report \/ LoseReport \/ DailyBackup => BackToIdle
  BY DEF Report, LoseReport, DailyBackup, BackToIdle
<1>5. AgentCrash => BackToIdle
  BY DEF AgentCrash, BackToIdle
<1>6. StopThrows => Failing
  BY DEF StopThrows, Throw, Failing
<1>7. SteamThrows \/ StartFails => Failing
  BY DEF SteamThrows, StartFails, Throw, Failing
<1>8. ExtractFails => Failing
  BY DEF ExtractFails, Throw, Failing
<1>9. NothingToStop \/ SeenDown => Stopped
  BY DEF NothingToStop, SeenDown, Stopped
<1>10. WaitTimesOut => Stopped
  BY DEF WaitTimesOut, Stopped
<1> QED
  BY <1>1, <1>2, <1>3, <1>4, <1>5, <1>6, <1>7, <1>8, <1>9, <1>10
     DEF Next, Commands, Others, Game

\* A backup that fails without ending the order.
LEMMA WarnedStep ==
  ASSUME BackupFails, ~Failing
  PROVE  /\ order.type # "backup" /\ at = "backup" /\ at' = AfterBackup
         /\ warned' = TRUE
         /\ UNCHANGED <<proc, save, zips, made, order, result, chosen, late,
                        launched, loaded, wiped, wipedAt>>
  BY DEF BackupFails, Failing, Throw, machineVars, historyVars

\* An order that the agent starts.
LEMMA BeginStep ==
  ASSUME TypeOK, Begin, ~Failing
  PROVE  /\ at' = IF order.type \in StopTypes THEN "stop" ELSE order.type
         /\ order.type \in OrderTypes
         /\ order.file \in DOMAIN zips => chosen' = zips[order.file]
         /\ UNCHANGED <<proc, save, zips, made, order, wiped, wipedAt>>
<1>1. order.type \in OrderTypes
  BY DEF Begin, TypeOK
<1>2. ~(at' = "report" /\ result' = "failed")
  BY DEF Begin, Failing, machineVars
<1>3. at' = FirstCommand(order.type)
  BY <1>2 DEF Begin
<1> QED
  BY <1>1, <1>3 DEF Begin, FirstCommand, machineVars

-----------------------------------------------------------------------------
(* The orders that reach each command.                                     *)

LEMMA DispatchedStep ==
  ASSUME TypeOK, Dispatched, [Next]_vars
  PROVE  Dispatched'
<1> USE DEF Dispatched
<1>1. CASE Bystander
  BY <1>1 DEF Bystander
<1>2. CASE BackToIdle \/ Failing \/ Launch \/ FoundRunning
  BY <1>2 DEF BackToIdle, Failing, Launch, FoundRunning
<1>3. CASE Stopped
  <2>1. order.type = "stop" \/ order.type \in {"restart", "update", "restore_save"}
    BY <1>3 DEF Stopped, StopTypes
  <2> QED
    BY <1>3, <2>1 DEF Stopped, AfterStop
<1>4. CASE Begin /\ ~Failing
  BY <1>4, BeginStep DEF OrderTypes, StopTypes
<1>5. CASE AskToEnd
  BY <1>5 DEF AskToEnd
<1>6. CASE BackUp
  BY <1>6, AfterBackupCommand DEF BackUp
<1>7. CASE BackupFails /\ ~Failing
  BY <1>7, AfterBackupCommand, WarnedStep
<1>8. CASE RunSteam
  BY <1>8 DEF RunSteam
<1>9. CASE Clear \/ Extract
  BY <1>9 DEF Clear, Extract
<1> QED
  BY <1>1, <1>2, <1>3, <1>4, <1>5, <1>6, <1>7, <1>8, <1>9, StepKinds

-----------------------------------------------------------------------------
(* A stop that saw the game end leaves it down until it is started again.  *)

LEMMA EndedStep ==
  ASSUME TypeOK, Dispatched, Ended, [Next]_vars
  PROVE  Ended'
<1> USE DEF Ended
<1>1. CASE Bystander
  BY <1>1 DEF Bystander
<1>2. CASE BackToIdle \/ Failing \/ Launch \/ FoundRunning
  BY <1>2 DEF BackToIdle, Failing, Launch, FoundRunning
<1>3. CASE Stopped
  BY <1>3 DEF Stopped, AfterStop
<1>4. CASE Begin /\ ~Failing
  BY <1>4, BeginStep DEF OrderTypes, StopTypes
<1>5. CASE AskToEnd
  BY <1>5 DEF AskToEnd
<1>6. CASE BackUp
  BY <1>6, AfterBackupCommand DEF BackUp, Dispatched, historyVars
<1>7. CASE BackupFails /\ ~Failing
  BY <1>7, AfterBackupCommand, WarnedStep DEF Dispatched
<1>8. CASE RunSteam
  BY <1>8 DEF RunSteam, machineVars, historyVars
<1>9. CASE Clear \/ Extract
  BY <1>9 DEF Clear, Extract, historyVars
<1> QED
  BY <1>1, <1>2, <1>3, <1>4, <1>5, <1>6, <1>7, <1>8, <1>9, StepKinds

-----------------------------------------------------------------------------
(* The backup comes after the last word of the game.                       *)

LEMMA BackupHoldsSavesStep ==
  ASSUME TypeOK, Dispatched, Ended, BackupHoldsSaves, [Next]_vars
  PROVE  BackupHoldsSaves'
<1> USE DEF BackupHoldsSaves
<1>1. CASE Bystander
  BY <1>1 DEF Bystander, Ended
<1>2. CASE BackToIdle \/ Failing \/ Launch \/ FoundRunning
  BY <1>2 DEF BackToIdle, Failing, Launch, FoundRunning
<1>3. CASE Stopped
  BY <1>3 DEF Stopped, AfterStop
<1>4. CASE Begin /\ ~Failing
  BY <1>4, BeginStep DEF OrderTypes, StopTypes
<1>5. CASE AskToEnd \/ RunSteam \/ Clear \/ Extract
  BY <1>5 DEF AskToEnd, RunSteam, Clear, Extract
<1>6. CASE BackUp
  <2>1. save' = save /\ MakeZip
    BY <1>6 DEF BackUp
  <2> QED
    BY <2>1, ZipsAfterBackup
<1>7. CASE BackupFails /\ ~Failing
  BY <1>7, WarnedStep
<1> QED
  BY <1>1, <1>2, <1>3, <1>4, <1>5, <1>6, <1>7, StepKinds

-----------------------------------------------------------------------------
(* The copy of the saves that a restore cleared.                           *)

\* The saves that a restore clears are in the newest zip, which is there for
\* backup_keep - 1 more.
LEMMA WipeStep ==
  ASSUME BackupHoldsSaves, SafetyCopy, at = "clear", Wipe, UNCHANGED <<zips, made>>
  PROVE  SafetyCopy'
<1>1. CASE UNCHANGED <<wiped, wipedAt>>
  BY <1>1 DEF SafetyCopy
<1>2. CASE save \notin {Nothing, Broken} /\ ~warned /\ ~late
  <2>1. wiped' = save /\ wipedAt' = made
    BY <1>2 DEF Wipe
  <2>2. made \in DOMAIN zips /\ zips[made] = save
    BY <1>2 DEF BackupHoldsSaves
  <2> QED
    BY <2>1, <2>2 DEF SafetyCopy
<1> QED
  BY <1>1, <1>2 DEF Wipe

\* The purge spares it.
LEMMA MakeZipStep ==
  ASSUME TypeOK, SafetyCopy, MakeZip, UNCHANGED <<wiped, wipedAt>>
  PROVE  SafetyCopy'
<1>1. made \in Nat /\ wipedAt \in 0..made /\ Keep \in Nat
  BY BoundsAssumption DEF TypeOK, BoundsAssumption
<1>2. made' = made + 1
  BY DEF MakeZip
<1>3. SUFFICES ASSUME wiped # Nothing, made' - wipedAt < Keep
               PROVE  wipedAt \in DOMAIN zips' /\ zips'[wipedAt] = wiped
  BY DEF SafetyCopy
<1>4. made - wipedAt < Keep /\ wipedAt # made'
  BY <1>1, <1>2, <1>3
<1>5. wipedAt \in DOMAIN zips /\ zips[wipedAt] = wiped
  BY <1>3, <1>4 DEF SafetyCopy
<1> QED
  BY <1>3, <1>4, <1>5, ZipsAfterBackup

LEMMA SafetyCopyStep ==
  ASSUME TypeOK, BackupHoldsSaves, SafetyCopy, [Next]_vars
  PROVE  SafetyCopy'
<1>1. made \in Nat /\ wipedAt \in 0..made /\ Keep \in Nat
  BY BoundsAssumption DEF TypeOK, BoundsAssumption
<1>2. CASE UNCHANGED <<zips, made, wiped, wipedAt>>
  BY <1>2 DEF SafetyCopy
<1>3. CASE BackToIdle
  <2>1. CASE made' = made + 1 /\ zips' = WithZip(Torn) /\ UNCHANGED <<wiped, wipedAt>>
    <3>1. made' - wipedAt' < Keep => made - wipedAt < Keep
      BY <1>1, <2>1
    <3>2. wipedAt # made + 1
      BY <1>1
    <3> QED
      BY <2>1, <3>1, <3>2 DEF SafetyCopy, WithZip
  <2>2. CASE at = "clear" /\ Wipe /\ UNCHANGED <<zips, made>>
    BY <2>2, WipeStep
  <2>3. CASE MakeZip /\ UNCHANGED <<wiped, wipedAt>>
    BY <2>3, MakeZipStep
  <2> QED
    BY <1>2, <1>3, <2>1, <2>2, <2>3 DEF BackToIdle
<1>4. CASE BackUp
  BY <1>4, MakeZipStep DEF BackUp, historyVars
<1>5. CASE Clear
  BY <1>5, WipeStep DEF Clear
<1>6. Bystander \/ Failing \/ Stopped => UNCHANGED <<zips, made, wiped, wipedAt>>
  BY DEF Bystander, Failing, Stopped
<1>7. Begin \/ BackupFails => UNCHANGED <<zips, made, wiped, wipedAt>>
  BY DEF Begin, BackupFails, machineVars, historyVars
<1>8. AskToEnd \/ RunSteam => UNCHANGED <<zips, made, wiped, wipedAt>>
  BY DEF AskToEnd, RunSteam, machineVars, historyVars
<1>9. Extract \/ Launch \/ FoundRunning => UNCHANGED <<zips, made, wiped, wipedAt>>
  BY DEF Extract, Launch, FoundRunning, machineVars, historyVars
<1> QED
  BY <1>2, <1>3, <1>4, <1>5, <1>6, <1>7, <1>8, <1>9, StepKinds

-----------------------------------------------------------------------------
(* The world that a restore puts back.                                     *)

LEMMA SourceIsChosenStep ==
  ASSUME TypeOK, Dispatched, Ended, SourceIsChosen, [Next]_vars
  PROVE  SourceIsChosen'
<1> USE DEF SourceIsChosen
<1>1. CASE Bystander
  BY <1>1 DEF Bystander, Ended
<1>2. CASE BackToIdle \/ Failing \/ Launch \/ FoundRunning
  BY <1>2 DEF BackToIdle, Failing, Launch, FoundRunning
<1>3. CASE Stopped
  BY <1>3 DEF Stopped, AfterStop
<1>4. CASE Begin /\ ~Failing
  BY <1>4, BeginStep DEF StopTypes
<1>5. CASE AskToEnd
  BY <1>5 DEF AskToEnd, historyVars
<1>6. CASE BackUp
  <2>1. SUFFICES ASSUME order.type = "restore_save"
                 PROVE  SourceIsChosen'
    BY <1>6 DEF BackUp
  <2>2. at = "backup" /\ at' = "clear" /\ order' = order /\ chosen' = chosen
    BY <1>6, <2>1, AfterBackupCommand DEF BackUp, historyVars
  <2>3. /\ order.file \in 0..made /\ made \in Nat /\ made' = made + 1
        /\ MakeZip
    BY <1>6 DEF TypeOK, BackUp, MakeZip
  <2>4. order.file # made'
    BY <2>3
  <2>5. order.file \in DOMAIN zips' =>
          order.file \in DOMAIN zips /\ zips'[order.file] = zips[order.file]
    BY <2>3, <2>4, ZipsAfterBackup
  <2> QED
    BY <2>1, <2>2, <2>5
<1>7. CASE BackupFails /\ ~Failing
  BY <1>7, AfterBackupCommand, WarnedStep DEF Dispatched
<1>8. CASE RunSteam
  BY <1>8 DEF RunSteam, Dispatched
<1>9. CASE Clear
  BY <1>9 DEF Clear
<1>10. CASE Extract
  <2>1. zips[order.file] \in Worlds
    BY <1>10 DEF Extract, TypeOK
  <2>2. Nothing \notin Worlds
    BY DEF Nothing, Worlds, Blank, Broken
  <2> QED
    BY <1>10, <2>1, <2>2 DEF Extract, historyVars
<1> QED
  BY <1>1, <1>2, <1>3, <1>4, <1>5, <1>6, <1>7, <1>8, <1>9, <1>10, StepKinds

-----------------------------------------------------------------------------
(* What the verdict says is so.                                            *)

LEMMA DoneMeansDoneStep ==
  ASSUME TypeOK, Dispatched, Ended, SourceIsChosen, DoneMeansDone, [Next]_vars
  PROVE  DoneMeansDone'
<1> USE DEF DoneMeansDone
<1>1. CASE Bystander
  BY <1>1 DEF Bystander
<1>2. CASE BackToIdle \/ Failing
  BY <1>2 DEF BackToIdle, Failing
<1>3. CASE Stopped
  BY <1>3 DEF Stopped, AfterStop
<1>4. CASE Begin /\ ~Failing
  BY <1>4, BeginStep DEF OrderTypes, StopTypes
<1>5. CASE AskToEnd \/ RunSteam \/ Clear \/ Extract
  BY <1>5 DEF AskToEnd, RunSteam, Clear, Extract
<1>6. CASE BackUp
  BY <1>6, AfterBackupCommand DEF BackUp, Dispatched
<1>7. CASE BackupFails /\ ~Failing
  BY <1>7, AfterBackupCommand, WarnedStep DEF Dispatched
<1>8. CASE Launch
  <2>1. /\ order' = order /\ launched' = TRUE /\ late' = late
        /\ chosen' = chosen /\ at = "start"
        /\ loaded' = IF save = Nothing THEN Blank ELSE save
    BY <1>8 DEF Launch, InitialWorld
  <2>2. order.type # "stop"
    BY <2>1 DEF Dispatched
  <2> QED
    BY <2>1, <2>2 DEF SourceIsChosen
<1>9. CASE FoundRunning
  BY <1>9 DEF FoundRunning, machineVars, historyVars, Ended
<1> QED
  BY <1>1, <1>2, <1>3, <1>4, <1>5, <1>6, <1>7, <1>8, <1>9, StepKinds

-----------------------------------------------------------------------------
(* The number of zips.                                                     *)

\* What a step does to the zips: nothing, a backup and its purge, or the torn
\* zip of an agent that dies, which no purge follows.
LEMMA ZipSteps ==
  ASSUME TypeOK, [Next]_vars
  PROVE  \/ UNCHANGED zips /\ faults' \in {faults, faults + 1}
         \/ MakeZip /\ faults' \in {faults, faults + 1}
         \/ zips' = WithZip(Torn) /\ faults' = faults + 1
BY DEF machineVars, historyVars, vars, Next, Commands, Others, Game, SendOrder, ReportState,
       Play, Flush, End, GameCrash, Report, LoseReport, DailyBackup, AgentCrash, StopThrows,
       Throw, SteamThrows, StartFails, ExtractFails, NothingToStop, SeenDown, WaitTimesOut,
       Begin, AskToEnd, BackUp, BackupFails, RunSteam, Clear, Extract, Launch, FoundRunning

\* Only a dying agent adds a zip without a purge.
LEMMA ZipsStep ==
  ASSUME TypeOK, ZipsBounded, [Next]_vars
  PROVE  ZipsBounded'
<1>1. /\ faults \in Nat /\ Keep \in Nat /\ made \in Nat /\ made + 1 \in Nat
      /\ DOMAIN zips \subseteq 1..made
  BY BoundsAssumption DEF TypeOK, BoundsAssumption
<1>2. IsFiniteSet(DOMAIN zips) /\ Cardinality(DOMAIN zips) \in Nat
  <2>1. IsFiniteSet(1..made)
    BY <1>1, FS_Interval
  <2> QED
    BY <1>1, <2>1, FS_Subset, FS_CardinalityType
<1>3. CASE UNCHANGED zips /\ faults' \in {faults, faults + 1}
  BY <1>1, <1>2, <1>3 DEF ZipsBounded
<1>4. CASE MakeZip /\ faults' \in {faults, faults + 1}
  <2> DEFINE D == DOMAIN zips \cup {made + 1}
  <2>1. DOMAIN zips' = Newest(D)
    BY <1>4 DEF MakeZip, Restrict, Newest
  <2>2. D \subseteq 1..(made + 1)
    BY <1>1
  <2> HIDE DEF D
  <2>3. IsFiniteSet(Newest(D)) /\ Cardinality(Newest(D)) <= Keep
    BY <1>1, <2>2, NewestAreFew
  <2>4. Cardinality(Newest(D)) \in Nat
    BY <2>3, FS_CardinalityType
  <2> QED
    BY <1>1, <1>4, <2>1, <2>3, <2>4 DEF ZipsBounded
<1>5. CASE zips' = WithZip(Torn) /\ faults' = faults + 1
  <2>1. DOMAIN zips' = DOMAIN zips \cup {made + 1}
    BY <1>5 DEF WithZip
  <2>2. Cardinality(DOMAIN zips \cup {made + 1}) =
          IF made + 1 \in DOMAIN zips THEN Cardinality(DOMAIN zips)
                                      ELSE Cardinality(DOMAIN zips) + 1
    BY <1>2, FS_AddElement
  <2> QED
    BY <1>1, <1>2, <1>5, <2>1, <2>2 DEF ZipsBounded
<1> QED
  BY <1>3, <1>4, <1>5, ZipSteps

-----------------------------------------------------------------------------
(* The theorems.                                                           *)

LEMMA InvInit == Init => IInv
<1> SUFFICES ASSUME Init PROVE IInv
  OBVIOUS
<1>1. TypeOK
  BY TypeInit
<1>2. Dispatched /\ Ended /\ SourceIsChosen
  BY DEF Init, Dispatched, Ended, SourceIsChosen
<1>3. BackupHoldsSaves /\ SafetyCopy /\ DoneMeansDone
  BY DEF Init, BackupHoldsSaves, SafetyCopy, DoneMeansDone
<1> QED
  BY <1>1, <1>2, <1>3 DEF IInv

LEMMA InvStep == IInv /\ [Next]_vars => IInv'
  BY TypeStep, DispatchedStep, EndedStep, SourceIsChosenStep,
     BackupHoldsSavesStep, SafetyCopyStep, DoneMeansDoneStep DEF IInv

LEMMA Invariance == Spec => []IInv
  BY InvInit, InvStep, PTL DEF Spec

\* Every reachable state is well typed: of all the zips, orders and commands
\* in play none is of a kind that the code does not handle.
THEOREM TypesHold == Spec => []TypeOK
  BY Invariance, PTL DEF IInv

\* The pre-update and pre-restore zips hold the saves as the game left them
\* (Update-GameServer: "Backup de la save APRES l'arret ... et AVANT
\* steamcmd"), for every adapter and however the game behaves.
THEOREM BackupsHoldSaves == Spec => []BackupHoldsSaves
  BY Invariance, PTL DEF IInv

\* A restore can be undone: the saves it cleared outlive every crash and
\* replay until backup_keep newer zips were made.
THEOREM RestoreCanBeUndone == Spec => []SafetyCopy
  BY Invariance, PTL DEF IInv

\* "done" is reported of a stop, a restart, an update or a restore only when
\* it was.
THEOREM VerdictsAreTrue == Spec => []DoneMeansDone
  BY Invariance, PTL DEF IInv

\* The backups of a server never fill the disk: at most backup_keep zips, and
\* one for each time the agent died while it wrote one (Backup-GameSave purges
\* after the zip is made).
THEOREM BackupsBounded == Spec => []ZipsBounded
<1>1. Init => ZipsBounded
  <2> SUFFICES ASSUME Init PROVE ZipsBounded
    OBVIOUS
  <2>1. DOMAIN zips = {} /\ faults = 0 /\ Keep \in Nat
    BY BoundsAssumption DEF Init, BoundsAssumption
  <2> QED
    BY <2>1, FS_EmptySet DEF ZipsBounded
<1> QED
  BY <1>1, TypesHold, ZipsStep, PTL DEF Spec
=============================================================================
