-------------------------------- MODULE Accounts --------------------------------
(***************************************************************************)
(* Accounts and sessions: internal/database/users.go and sessions.go, the  *)
(* triggers of models.go on users and sessions, the handlers of            *)
(* admin/server.go and admin/api.go that use them, and the first start,    *)
(* initializeRuntime of cmd/lightdns/main.go.                              *)
(*                                                                         *)
(* SQLite has one connection, so a statement or a transaction is one step. *)
(* Signing in and changing a password take several of them, with a slow    *)
(* hash in between.  A password hash is the number of the call that made   *)
(* it: salts are random, so no two calls agree.  Names, addresses and the  *)
(* audit are left out, as is the limit on failed attempts.                 *)
(*                                                                         *)
(* Definitions marked "fault" are plausible mistakes.  Nothing uses them;  *)
(* each takes the place of the definition after it to show that a property *)
(* notices.                                                                *)
(***************************************************************************)
EXTENDS Integers

CONSTANTS
    Workers,    \* goroutines of the HTTP server
    People,     \* accounts that may be created
    Tokens,     \* session tokens that may be drawn
    MaxHashes,  \* bound: how many passwords are stored
    None        \* no account, no session, no row

ASSUME HashesAssumption == MaxHashes \in Nat \ {0}

VARIABLES
    process,   \* "down", "starting", "serving" with management, or DNS only: "local"
    imported,  \* whether this start imported the settings
    settings,  \* the stored settings: with management "http", without it "dns", or None
    users,     \* table users: the row of each account, or None
    sessions,  \* table sessions: the row of each token, or None
    drawn,     \* the tokens drawn so far, which rand.Read draws only once
    hashes,    \* how many passwords were stored so far
    pc,        \* where each worker is
    who,       \* the account a worker acts for
    row        \* the row a worker read, or None

runtime == <<process, imported, settings>>
tables  == <<users, sessions, drawn, hashes>>
locals  == <<pc, who, row>>
vars    == <<process, imported, settings, users, sessions, drawn, hashes, pc, who, row>>

Roles  == {"admin", "user"}
Hashes == 1..MaxHashes
User   == [hash : Hashes, role : Roles, enabled : BOOLEAN, must : BOOLEAN, deleted : BOOLEAN]

\* What a session depends on: the columns that revoke_sessions_after_user_-
\* security_change watches, of an account that is enabled.
Security(u) == [hash |-> u.hash, role |-> u.role, must |-> u.must]
Proofs      == [hash : Hashes, role : Roles, must : BOOLEAN]

\* "proof" is history: what was proved when the session was asked for.
Session == [user : People, live : BOOLEAN, proof : Proofs]

ASSUME NoneAssumption ==
    None \notin People /\ None \notin User /\ None \notin Session /\ None \notin Proofs
    /\ None \notin {"http", "dns"}

Known  == {a \in People : users[a] # None}
Active(a) == users[a] # None /\ users[a].enabled

Init ==
    /\ process = "down"
    /\ imported = FALSE
    /\ settings = None
    /\ users = [a \in People |-> None]
    /\ sessions = [t \in Tokens |-> None]
    /\ drawn = {}
    /\ hashes = 0
    /\ pc = [w \in Workers |-> "idle"]
    /\ who = [w \in Workers |-> None]
    /\ row = [w \in Workers |-> None]

--------------------------------------------------------------------------------
(* Statements on the tables, with their triggers.                              *)

Admins == {a \in Known : users[a].role = "admin" /\ users[a].enabled}

AdminKeepsRole(a, u) ==                                            \* fault
    a \in Admins /\ u.role # "admin" => Admins \ {a} # {}

\* prevent_last_admin_disable lets the row of a be replaced.
AdminRemainsWith(a, u) ==
    a \in Admins /\ (u.role # "admin" \/ ~u.enabled) => Admins \ {a} # {}

Watched(u) == [enabled |-> u.enabled, security |-> Security(u)]

SessionsOf(a) == {t \in Tokens : sessions[t] # None /\ sessions[t].user = a}
Without(T) == [t \in Tokens |-> IF t \in T THEN None ELSE sessions[t]]

RevokeOnStatus(a, u) ==                                            \* fault
    sessions' = Without(IF u.enabled = users[a].enabled /\ u.role = users[a].role
                        THEN {} ELSE SessionsOf(a))

\* revoke_sessions_after_user_security_change.
Revoke(a, u) ==
    sessions' = Without(IF Watched(u) = Watched(users[a]) THEN {} ELSE SessionsOf(a))

\* UPDATE users SET ... WHERE id = a.
Update(a, u) ==
    /\ AdminRemainsWith(a, u)
    /\ users' = [users EXCEPT ![a] = u]
    /\ Revoke(a, u)
    /\ UNCHANGED drawn

\* A password is hashed, and its hash stored by the statement at hand.
Fresh == hashes + 1
HashPassword == hashes < MaxHashes /\ hashes' = Fresh

\* INSERT INTO users: the first must be an administrator (require_first_admin).
Insert(a, role, must) ==
    /\ users[a] = None
    /\ Known = {} => role = "admin"
    /\ HashPassword
    /\ users' = [users EXCEPT ![a] = [hash |-> Fresh, role |-> role, enabled |-> TRUE,
                                      must |-> must, deleted |-> FALSE]]
    /\ UNCHANGED <<sessions, drawn>>

--------------------------------------------------------------------------------
(* The start of the process: initializeRuntime, under the lock on the database. *)

\* LoadConfig, and if nothing is stored the import of a file.
LoadSettings ==
    /\ process = "down"
    /\ process' = "starting"
    /\ \/ /\ settings # None
          /\ imported' = FALSE
          /\ UNCHANGED settings
       \/ /\ settings = None
          /\ imported' = TRUE
          /\ settings' \in {"http", "dns"}
    /\ UNCHANGED <<tables, locals>>

Serve ==
    process' = IF settings = "http" THEN "serving" ELSE "local"

\* CreateUser, with the password from -bootstrap-password-file.
CreateFirst ==
    /\ process = "starting"
    /\ Known = {}
    /\ \E a \in People : Insert(a, "admin", FALSE)
    /\ Serve
    /\ UNCHANGED <<imported, settings, locals>>

ServeAnyway ==                                                     \* fault
    /\ process = "starting"
    /\ Serve
    /\ UNCHANGED <<imported, settings, tables, locals>>

\* There are accounts, or none is needed.
ServeKnown ==
    /\ process = "starting"
    /\ Known # {} \/ settings = "dns"
    /\ Serve
    /\ UNCHANGED <<imported, settings, tables, locals>>

\* The password file or the account is no good, or missing: what was imported is
\* discarded, if the database lets it.
StartFails ==
    /\ process = "starting"
    /\ Known = {}
    /\ process' = "down"
    /\ \/ UNCHANGED settings
       \/ imported /\ settings' = None
    /\ UNCHANGED <<imported, tables, locals>>

\* Only the tables survive.
Crash ==
    /\ process # "down"
    /\ process' = "down"
    /\ pc' = [w \in Workers |-> "idle"]
    /\ who' = [w \in Workers |-> None]
    /\ row' = [w \in Workers |-> None]
    /\ UNCHANGED <<imported, settings, tables>>

--------------------------------------------------------------------------------
(* Sessions: sessions.go, and the handlers login, apiLogin and logout.         *)

Goto(w, label) == pc' = [pc EXCEPT ![w] = label]

\* The handler answers, with success or with an error.
Answer(w) ==
    /\ pc' = [pc EXCEPT ![w] = "idle"]
    /\ who' = [who EXCEPT ![w] = None]
    /\ row' = [row EXCEPT ![w] = None]

\* Any step may fail, and then changes nothing.
Fail(w) ==
    /\ pc[w] # "idle"
    /\ Answer(w)
    /\ UNCHANGED <<runtime, tables>>

\* authenticateUser found the row of a, and the password fits.
Authenticated(w, a) ==
    /\ Active(a)
    /\ ~users[a].deleted
    /\ row' = [row EXCEPT ![w] = users[a]]
    /\ Goto(w, "proved")

SignIn(w) ==
    /\ process = "serving"
    /\ pc[w] = "idle"
    /\ \E a \in People :
           /\ Authenticated(w, a)
           /\ who' = [who EXCEPT ![w] = a]
    /\ UNCHANGED <<runtime, tables>>

\* INSERT INTO sessions, for the row that was read before.
NewSession(w) ==
    \E t \in Tokens \ drawn :
        /\ drawn' = drawn \union {t}
        /\ sessions' = [sessions EXCEPT ![t] =
                            [user |-> who[w], live |-> TRUE, proof |-> Security(row[w])]]

CreateSessionForEnabled(w) ==                                      \* fault
    /\ pc[w] = "proved"
    /\ Active(who[w])
    /\ NewSession(w)
    /\ Answer(w)
    /\ UNCHANGED <<runtime, users, hashes>>

\* createSession: only if the row still has the password, the role and the flags
\* that it had when the password was checked.
CreateSession(w) ==
    /\ pc[w] = "proved"
    /\ Active(who[w])
    /\ Security(users[who[w]]) = Security(row[w])
    /\ NewSession(w)
    /\ Answer(w)
    /\ UNCHANGED <<runtime, users, hashes>>

\* SessionByToken: whom a request acts for.
Admitted(t) == sessions[t] # None /\ sessions[t].live /\ Active(sessions[t].user)

\* DeleteSession, for a request that carries the session it ends.
Logout(t) ==
    /\ process = "serving"
    /\ Admitted(t)
    /\ sessions' = Without({t})
    /\ UNCHANGED <<runtime, users, drawn, hashes, locals>>

\* The lifetime of a session is over.
Expire(t) ==
    /\ sessions[t] # None
    /\ sessions[t].live
    /\ sessions' = [sessions EXCEPT ![t].live = FALSE]
    /\ UNCHANGED <<runtime, users, drawn, hashes, locals>>

\* PurgeExpiredSessions, every hour.
Purge ==
    /\ process \in {"serving", "local"}
    /\ sessions' = Without({t \in Tokens : sessions[t] # None /\ ~sessions[t].live})
    /\ UNCHANGED <<runtime, users, drawn, hashes, locals>>

--------------------------------------------------------------------------------
(* What sessions are used for: requireRole, and the handlers behind it.        *)

BeginNobody(w, t, label) ==                                        \* fault
    /\ process = "serving"
    /\ pc[w] = "idle"
    /\ Admitted(t)
    /\ Goto(w, label)
    /\ UNCHANGED <<runtime, tables, who, row>>

Begin(w, t, label) ==
    /\ process = "serving"
    /\ pc[w] = "idle"
    /\ Admitted(t)
    /\ who' = [who EXCEPT ![w] = sessions[t].user]
    /\ Goto(w, label)
    /\ UNCHANGED <<runtime, tables, row>>

\* adminOnly.
BeginManage(w, t) ==
    /\ sessions[t] # None
    /\ users[sessions[t].user].role = "admin"
    /\ ~users[sessions[t].user].must
    /\ Begin(w, t, "manage")

\* PUT /api/session/password, also for those who must change their password.
BeginChange(w, t) == Begin(w, t, "change")

\* Each of these is one transaction.
CreateUser(w) ==
    /\ pc[w] = "manage"
    /\ \E a \in People, role \in Roles, must \in BOOLEAN : Insert(a, role, must)
    /\ Answer(w)
    /\ UNCHANGED runtime

UpdateAnyUser(w) ==                                                \* fault
    /\ pc[w] = "manage"
    /\ \E a \in Known, role \in Roles, enabled \in BOOLEAN :
           Update(a, [users[a] EXCEPT !.role = role, !.enabled = enabled])
    /\ Answer(w)
    /\ UNCHANGED <<runtime, hashes>>

UpdateUser(w) ==
    /\ pc[w] = "manage"
    /\ \E a \in Known, role \in Roles, enabled \in BOOLEAN :
           /\ ~users[a].deleted
           /\ Update(a, [users[a] EXCEPT !.role = role, !.enabled = enabled])
    /\ Answer(w)
    /\ UNCHANGED <<runtime, hashes>>

Tombstone(a) ==
    [users[a] EXCEPT !.role = "user", !.enabled = FALSE, !.must = FALSE, !.deleted = TRUE]

DeleteUser(w) ==
    /\ pc[w] = "manage"
    /\ \E a \in Known \ {who[w]} :
           /\ ~users[a].deleted
           /\ AdminRemainsWith(a, Tombstone(a))
           /\ users' = [users EXCEPT ![a] = Tombstone(a)]
           /\ sessions' = Without(SessionsOf(a))
    /\ Answer(w)
    /\ UNCHANGED <<runtime, drawn, hashes>>

\* The account may be deleted, unlike in the others.
ResetPassword(w) ==
    /\ pc[w] = "manage"
    /\ HashPassword
    /\ \E a \in Known, must \in BOOLEAN :
           Update(a, [users[a] EXCEPT !.hash = Fresh, !.must = must])
    /\ Answer(w)
    /\ UNCHANGED runtime

\* The settings for the next start; SettingsControl has the rest of it.
SaveSettings(w) ==
    /\ pc[w] = "manage"
    /\ settings' \in {"http", "dns"}
    /\ Answer(w)
    /\ UNCHANGED <<process, imported, tables>>

\* changePassword: the row is read, and the present password fits.
ReadCurrent(w) ==
    /\ pc[w] = "change"
    /\ row' = [row EXCEPT ![w] = users[who[w]]]
    /\ Goto(w, "swap")
    /\ UNCHANGED <<runtime, tables, who>>

Replace(w) ==
    LET a == who[w]
        u == [users[a] EXCEPT !.hash = Fresh, !.must = FALSE]
    IN
    /\ HashPassword
    /\ Update(a, u)
    /\ row' = [row EXCEPT ![w] = u]
    /\ Goto(w, "renew")
    /\ UNCHANGED <<runtime, who>>

SwapAlways(w) == pc[w] = "swap" /\ Replace(w)                      \* fault

\* The new one is stored, unless the one that was checked is gone.
Swap(w) ==
    /\ pc[w] = "swap"
    /\ users[who[w]].hash = row[w].hash
    /\ Replace(w)

\* The session the change cost is replaced, by signing in with the new password.
Renew(w) ==
    /\ pc[w] = "renew"
    /\ users[who[w]].hash = row[w].hash
    /\ Authenticated(w, who[w])
    /\ UNCHANGED <<runtime, tables, who>>

--------------------------------------------------------------------------------

Start == LoadSettings \/ CreateFirst \/ ServeKnown \/ StartFails

Manage(w) ==
    CreateUser(w) \/ UpdateUser(w) \/ DeleteUser(w) \/ ResetPassword(w) \/ SaveSettings(w)

Handle(w) ==
    \/ Fail(w) \/ SignIn(w) \/ CreateSession(w)
    \/ \E t \in Tokens : BeginManage(w, t) \/ BeginChange(w, t)
    \/ Manage(w)
    \/ ReadCurrent(w) \/ Swap(w) \/ Renew(w)

Next ==
    \/ Start
    \/ Crash
    \/ Purge
    \/ \E t \in Tokens : Logout(t) \/ Expire(t)
    \/ \E w \in Workers : Handle(w)

Spec == Init /\ [][Next]_vars

--------------------------------------------------------------------------------
(* Properties. *)

TypeOK ==
    /\ process \in {"down", "starting", "serving", "local"}
    /\ imported \in BOOLEAN
    /\ settings \in {"http", "dns", None}
    /\ users \in [People -> User \union {None}]
    /\ sessions \in [Tokens -> Session \union {None}]
    /\ drawn \subseteq Tokens
    /\ \A t \in Tokens : sessions[t] # None => t \in drawn
    /\ hashes \in 0..MaxHashes
    /\ pc \in [Workers -> {"idle", "proved", "manage", "change", "swap", "renew"}]
    /\ who \in [Workers -> People \union {None}]
    /\ row \in [Workers -> User \union {None}]
    /\ \A w \in Workers : pc[w] # "idle" => who[w] \in Known
    /\ \A w \in Workers : pc[w] \in {"proved", "swap", "renew"} => row[w] # None

\* Whoever has a session proved the password the account has now, and has the
\* role and the flag it had then: neither a session that was open nor a sign-in
\* that was under way outlives a reset, a new role or the account.
SessionsCurrent ==
    \A t \in Tokens :
        sessions[t] # None =>
            LET u == users[sessions[t].user] IN
            u # None /\ u.enabled /\ Security(u) = sessions[t].proof

\* Once there are accounts, an administrator who is not disabled or deleted
\* remains, whatever several of them do to each other.
AdminRemains == Known # {} => \E a \in Admins : ~users[a].deleted

\* Management is served only with stored settings and somebody who can use it,
\* however many starts failed or were interrupted before; the accounts never
\* exist without the settings they were created under.
ServedWithAdmin ==
    /\ Known # {} => settings # None
    /\ process = "serving" => Admins # {}

\* A deleted account stays out: nothing enables it again or lets it in, although
\* its password may still be replaced, by an administrator or by a change that
\* was under way.
DeletedStayOut ==
    \A a \in Known :
        users[a].deleted =>
            /\ ~users[a].enabled /\ users[a].role = "user"
            /\ SessionsOf(a) = {}

\* Whoever changes their own password is released from an obligation to do so only
\* if it was there when they proved the old one: a change that was under way when
\* an administrator reset the password does not undo what the reset demands.
ForcedChangeStands ==
    [][\A w \in Workers :
           pc[w] = "swap" /\ pc'[w] = "renew" => (users[who[w]].must => row[w].must)]_vars

\* What each account is admitted as, and what access there is for it.
StandingNow == [a \in People |-> IF Active(a) THEN Security(users[a]) ELSE None]
AccessNow ==
    [t \in Tokens |-> IF sessions[t] # None /\ sessions[t].live
                      THEN [user |-> sessions[t].user, proof |-> sessions[t].proof]
                      ELSE None]

\* Changes of accounts and the end of their sessions are one; access is given
\* for the present standing only.
Promise == INSTANCE Standing WITH
    Standings <- Proofs, standing <- StandingNow, access <- AccessNow
RefinesStanding == Promise!Safety
================================================================================
