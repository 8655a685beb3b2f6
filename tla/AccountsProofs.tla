----------------------------- MODULE AccountsProofs -----------------------------
(***************************************************************************)
(* What Accounts keeps for any number of workers, accounts, tokens and     *)
(* passwords.                                                              *)
(***************************************************************************)
EXTENDS Accounts, TLAPS

--------------------------------------------------------------------------------
(* Types. *)

\* Rows are rows, and accounts that are known have one.
LEMMA KnownRows ==
    ASSUME TypeOK, NEW a \in Known
    PROVE  a \in People /\ users[a] \in User
BY NoneAssumption DEF Known, TypeOK

LEMMA NewHash ==
    ASSUME TypeOK, HashPassword
    PROVE  Fresh \in Hashes /\ hashes' = Fresh /\ hashes' \in 0..MaxHashes
BY HashesAssumption DEF TypeOK, HashPassword, Fresh, Hashes

\* Sessions that are taken away leave the others as they were.
LEMMA WithoutTypes ==
    ASSUME TypeOK, NEW T \in SUBSET Tokens, sessions' = Without(T), drawn' = drawn
    PROVE  /\ sessions' \in [Tokens -> Session \union {None}]
           /\ \A t \in Tokens : sessions'[t] # None => t \in drawn' /\ sessions'[t] = sessions[t]
BY DEF TypeOK, Without

\* An UPDATE keeps the tables well-formed.
LEMMA UpdateTypes ==
    ASSUME TypeOK, NEW a \in Known, NEW u \in User, Update(a, u)
    PROVE  /\ users' \in [People -> User \union {None}]
           /\ sessions' \in [Tokens -> Session \union {None}]
           /\ drawn' = drawn
           /\ \A t \in Tokens : sessions'[t] # None => t \in drawn' /\ sessions'[t] = sessions[t]
           /\ Known' = Known
<1>1. a \in People /\ users[a] \in User
  BY KnownRows
<1>2. users' = [users EXCEPT ![a] = u]
  BY DEF Update
<1>3. users' \in [People -> User \union {None}]
  BY <1>2 DEF TypeOK
<1>4. Known' = Known
  <2>1. ASSUME NEW b \in People
        PROVE  users'[b] # None <=> users[b] # None
    BY <1>1, <1>2, NoneAssumption DEF TypeOK
  <2> QED
    BY <2>1 DEF Known
<1>5. PICK T \in SUBSET Tokens : sessions' = Without(T)
  BY DEF Update, Revoke, SessionsOf
<1>6. drawn' = drawn
  BY DEF Update
<1> QED
  BY <1>3, <1>4, <1>5, <1>6, WithoutTypes

\* An INSERT gives a row to an account that had none.
LEMMA InsertTypes ==
    ASSUME TypeOK, NEW a \in People, NEW r \in Roles, NEW m \in BOOLEAN, Insert(a, r, m)
    PROVE  /\ users' \in [People -> User \union {None}]
           /\ users'[a] = [hash |-> Fresh, role |-> r, enabled |-> TRUE, must |-> m,
                           deleted |-> FALSE]
           /\ users'[a] \in User
           /\ \A b \in People \ {a} : users'[b] = users[b]
           /\ Known' = Known \union {a}
           /\ a \notin Known
           /\ sessions' = sessions /\ drawn' = drawn
           /\ hashes' \in 0..MaxHashes
<1> DEFINE u == [hash |-> Fresh, role |-> r, enabled |-> TRUE, must |-> m, deleted |-> FALSE]
<1>1. /\ HashPassword
      /\ users[a] = None
      /\ users' = [users EXCEPT ![a] = u]
      /\ sessions' = sessions /\ drawn' = drawn
  BY DEF Insert
<1>2. Fresh \in Hashes /\ hashes' \in 0..MaxHashes
  BY <1>1, NewHash
<1>3. u \in User
  BY <1>2 DEF User
<1>4. users' \in [People -> User \union {None}]
  BY <1>1, <1>3 DEF TypeOK
<1>5. users'[a] = u /\ \A b \in People \ {a} : users'[b] = users[b]
  BY <1>1 DEF TypeOK
<1>6. Known' = Known \union {a} /\ a \notin Known
  BY <1>1, <1>3, <1>5, NoneAssumption DEF Known
<1> QED
  BY <1>1, <1>2, <1>3, <1>4, <1>5, <1>6

LEMMA InitTypes ==
    Init => TypeOK
<1> SUFFICES ASSUME Init
             PROVE  TypeOK
  OBVIOUS
<1>1. hashes \in 0..MaxHashes
  BY HashesAssumption DEF Init
<1>2. process = "down" /\ imported \in BOOLEAN /\ settings = None /\ drawn \subseteq Tokens
  BY DEF Init
<1>3. /\ users \in [People -> User \union {None}]
      /\ sessions \in [Tokens -> Session \union {None}]
      /\ \A t \in Tokens : sessions[t] = None
  BY DEF Init
<1>4. /\ pc \in [Workers -> {"idle"}]
      /\ who \in [Workers -> People \union {None}]
      /\ row \in [Workers -> User \union {None}]
  BY DEF Init
<1> QED
  BY <1>1, <1>2, <1>3, <1>4 DEF TypeOK

\* The start of the process, and its end.
LEMMA StartTypes ==
    ASSUME TypeOK, Start \/ Crash
    PROVE  TypeOK'
<1>1. CASE LoadSettings
  BY <1>1 DEF LoadSettings, TypeOK, tables, locals, Known
<1>2. CASE CreateFirst
  <2>1. PICK a \in People : Insert(a, "admin", FALSE)
    BY <1>2 DEF CreateFirst
  <2>2. /\ users' \in [People -> User \union {None}]
        /\ Known' = Known \union {a}
        /\ sessions' = sessions /\ drawn' = drawn
        /\ hashes' \in 0..MaxHashes
    BY <2>1, InsertTypes DEF Roles
  <2> QED
    BY <1>2, <2>2 DEF CreateFirst, Serve, TypeOK, locals
<1>3. CASE ServeKnown
  BY <1>3 DEF ServeKnown, Serve, TypeOK, tables, locals, Known
<1>4. CASE StartFails
  BY <1>4 DEF StartFails, TypeOK, tables, locals, Known
<1>5. CASE Crash
  BY <1>5 DEF Crash, TypeOK, tables, Known
<1> QED
  BY <1>1, <1>2, <1>3, <1>4, <1>5 DEF Start

\* Steps that end sessions.
LEMMA SessionTypes ==
    ASSUME TypeOK, Purge \/ \E t \in Tokens : Logout(t) \/ Expire(t)
    PROVE  TypeOK'
<1>1. CASE Purge
  <2>1. PICK T \in SUBSET Tokens : sessions' = Without(T)
    BY <1>1 DEF Purge
  <2> QED
    BY <1>1, <2>1, WithoutTypes DEF Purge, TypeOK, runtime, locals, Known
<1>2. ASSUME NEW t \in Tokens, Logout(t)
      PROVE  TypeOK'
  <2>1. sessions' = Without({t}) /\ drawn' = drawn
    BY <1>2 DEF Logout
  <2> QED
    BY <1>2, <2>1, WithoutTypes DEF Logout, TypeOK, runtime, locals, Known
<1>3. ASSUME NEW t \in Tokens, Expire(t)
      PROVE  TypeOK'
  <2>1. sessions[t] \in Session
    BY <1>3 DEF Expire, TypeOK
  <2>2. [sessions[t] EXCEPT !.live = FALSE] \in Session
    BY <2>1 DEF Session
  <2>3. sessions' = [sessions EXCEPT ![t] = [sessions[t] EXCEPT !.live = FALSE]]
    BY <1>3 DEF Expire
  <2>4. sessions' \in [Tokens -> Session \union {None}]
    BY <2>2, <2>3 DEF TypeOK
  <2>5. \A s \in Tokens : sessions'[s] # None => s \in drawn
    BY <1>3, <2>3 DEF TypeOK, Expire
  <2> QED
    BY <1>3, <2>4, <2>5 DEF Expire, TypeOK, runtime, locals, Known
<1> QED
  BY <1>1, <1>2, <1>3

\* Workers that read, begin or end.
LEMMA LocalTypes ==
    ASSUME TypeOK, NEW w \in Workers,
           \/ Fail(w) \/ SignIn(w) \/ SaveSettings(w) \/ ReadCurrent(w) \/ Renew(w)
           \/ \E t \in Tokens : BeginManage(w, t) \/ BeginChange(w, t)
    PROVE  TypeOK'
<1>1. CASE Fail(w)
  BY <1>1 DEF Fail, Answer, TypeOK, tables, runtime, Known
<1>2. CASE SaveSettings(w)
  BY <1>2 DEF SaveSettings, Answer, TypeOK, tables, Known
<1>3. ASSUME NEW a \in People, Active(a), Authenticated(w, a), who' = [who EXCEPT ![w] = a],
             UNCHANGED <<runtime, tables>>
      PROVE  TypeOK'
  <2>1. a \in Known /\ users[a] \in User
    BY <1>3, KnownRows DEF Active, Known
  <2>2. /\ row' = [row EXCEPT ![w] = users[a]]
        /\ pc' = [pc EXCEPT ![w] = "proved"]
    BY <1>3 DEF Authenticated, Goto
  <2> QED
    BY <1>3, <2>1, <2>2, NoneAssumption DEF TypeOK, runtime, tables, Known
<1>4. CASE SignIn(w)
  BY <1>4, <1>3 DEF SignIn, Authenticated
<1>5. CASE ReadCurrent(w)
  <2>1. who[w] \in Known /\ users[who[w]] \in User
    BY <1>5, KnownRows DEF ReadCurrent, TypeOK
  <2> QED
    BY <1>5, <2>1, NoneAssumption DEF ReadCurrent, Goto, TypeOK, runtime, tables, Known
<1>6. CASE Renew(w)
  <2>1. who[w] \in Known /\ users[who[w]] \in User
    BY <1>6, KnownRows DEF Renew, TypeOK
  <2> QED
    BY <1>6, <2>1, NoneAssumption
       DEF Renew, Authenticated, Goto, TypeOK, runtime, tables, Known
<1>7. ASSUME NEW t \in Tokens, NEW l \in {"manage", "change"}, Begin(w, t, l)
      PROVE  TypeOK'
  <2>1. sessions[t] \in Session /\ Active(sessions[t].user)
    BY <1>7 DEF Begin, Admitted, TypeOK
  <2>2. sessions[t].user \in Known
    BY <2>1 DEF Session, Active, Known
  <2>3. /\ who' = [who EXCEPT ![w] = sessions[t].user]
        /\ pc' = [pc EXCEPT ![w] = l]
        /\ row' = row /\ UNCHANGED <<runtime, tables>>
    BY <1>7 DEF Begin, Goto
  <2> QED
    BY <2>2, <2>3 DEF TypeOK, runtime, tables, Known
<1> QED
  BY <1>1, <1>2, <1>4, <1>5, <1>6, <1>7 DEF BeginManage, BeginChange

\* Workers that write.
LEMMA WriteTypes ==
    ASSUME TypeOK, NEW w \in Workers,
           CreateSession(w) \/ CreateUser(w) \/ UpdateUser(w) \/ DeleteUser(w)
           \/ ResetPassword(w) \/ Swap(w)
    PROVE  TypeOK'
<1> DEFINE Keeps == /\ users' \in [People -> User \union {None}]
                    /\ sessions' \in [Tokens -> Session \union {None}]
                    /\ drawn' \subseteq Tokens
                    /\ \A t \in Tokens : sessions'[t] # None => t \in drawn'
                    /\ hashes' \in 0..MaxHashes
                    /\ Known \subseteq Known'
<1>1. ASSUME Keeps, Answer(w), process' = process, imported' = imported, settings' = settings
      PROVE  TypeOK'
  BY <1>1 DEF Answer, TypeOK
<1>2. CASE CreateSession(w)
  <2>1. who[w] \in People /\ row[w] \in User
    BY <1>2 DEF CreateSession, TypeOK, Known
  <2>2. Security(row[w]) \in Proofs
    BY <2>1 DEF Security, Proofs, User
  <2>3. PICK t \in Tokens : /\ drawn' = drawn \union {t}
                            /\ sessions' = [sessions EXCEPT ![t] =
                                   [user |-> who[w], live |-> TRUE, proof |-> Security(row[w])]]
    BY <1>2 DEF CreateSession, NewSession
  <2>4. [user |-> who[w], live |-> TRUE, proof |-> Security(row[w])] \in Session
    BY <2>1, <2>2 DEF Session
  <2>5. /\ sessions' \in [Tokens -> Session \union {None}]
        /\ drawn' \subseteq Tokens
        /\ \A s \in Tokens : sessions'[s] # None => s \in drawn'
    BY <2>3, <2>4 DEF TypeOK
  <2> QED
    BY <1>1, <1>2, <2>5 DEF CreateSession, TypeOK, runtime, Known
<1>3. CASE CreateUser(w)
  <2>1. PICK a \in People, r \in Roles, m \in BOOLEAN : Insert(a, r, m)
    BY <1>3 DEF CreateUser
  <2>2. /\ users' \in [People -> User \union {None}]
        /\ Known' = Known \union {a}
        /\ sessions' = sessions /\ drawn' = drawn
        /\ hashes' \in 0..MaxHashes
    BY <2>1, InsertTypes
  <2>3. Keeps
    BY <2>2 DEF TypeOK
  <2> QED
    BY <1>1, <1>3, <2>3 DEF CreateUser, runtime
<1>4. ASSUME NEW a \in Known, NEW u \in User, Update(a, u), hashes' \in 0..MaxHashes
      PROVE  Keeps
  BY <1>4, UpdateTypes DEF TypeOK
<1>5. CASE UpdateUser(w)
  <2>1. PICK a \in Known, r \in Roles, e \in BOOLEAN :
            Update(a, [users[a] EXCEPT !.role = r, !.enabled = e])
    BY <1>5 DEF UpdateUser
  <2>2. [users[a] EXCEPT !.role = r, !.enabled = e] \in User
    BY KnownRows DEF User
  <2>3. Keeps
    BY <1>4, <1>5, <2>1, <2>2 DEF UpdateUser, TypeOK
  <2> QED
    BY <1>1, <1>5, <2>3 DEF UpdateUser, runtime
<1>6. CASE DeleteUser(w)
  <2>1. PICK a \in Known : /\ users' = [users EXCEPT ![a] = Tombstone(a)]
                           /\ sessions' = Without(SessionsOf(a))
    BY <1>6 DEF DeleteUser
  <2>2. a \in People /\ users[a] \in User
    BY KnownRows
  <2>3. Tombstone(a) \in User
    BY <2>2 DEF Tombstone, User, Roles
  <2>4. users' \in [People -> User \union {None}] /\ Known \subseteq Known'
    BY <2>1, <2>2, <2>3, NoneAssumption DEF TypeOK, Known
  <2>5. Keeps
    BY <1>6, <2>1, <2>4, WithoutTypes DEF DeleteUser, SessionsOf, TypeOK
  <2> QED
    BY <1>1, <1>6, <2>5 DEF DeleteUser, runtime
<1>7. CASE ResetPassword(w)
  <2>1. PICK a \in Known, m \in BOOLEAN :
            Update(a, [users[a] EXCEPT !.hash = Fresh, !.must = m])
    BY <1>7 DEF ResetPassword
  <2>2. Fresh \in Hashes /\ hashes' \in 0..MaxHashes
    BY <1>7, NewHash DEF ResetPassword
  <2>3. [users[a] EXCEPT !.hash = Fresh, !.must = m] \in User
    BY <2>2, KnownRows DEF User
  <2>4. Keeps
    BY <1>4, <2>1, <2>2, <2>3
  <2> QED
    BY <1>1, <1>7, <2>4 DEF ResetPassword, runtime
<1>8. CASE Swap(w)
  <2> DEFINE a == who[w]
             u == [users[a] EXCEPT !.hash = Fresh, !.must = FALSE]
  <2>1. a \in Known
    BY <1>8 DEF Swap, TypeOK
  <2>2. Fresh \in Hashes /\ hashes' \in 0..MaxHashes
    BY <1>8, NewHash DEF Swap, Replace
  <2>3. u \in User
    BY <2>1, <2>2, KnownRows DEF User
  <2>4. /\ Update(a, u)
        /\ row' = [row EXCEPT ![w] = u]
        /\ pc' = [pc EXCEPT ![w] = "renew"]
        /\ who' = who /\ UNCHANGED runtime
    BY <1>8 DEF Swap, Replace, Goto
  <2>5. Keeps
    BY <1>4, <2>1, <2>2, <2>3, <2>4
  <2> QED
    BY <2>1, <2>3, <2>4, <2>5, NoneAssumption DEF TypeOK, runtime
<1> QED
  BY <1>2, <1>3, <1>5, <1>6, <1>7, <1>8

LEMMA NextTypes ==
    ASSUME TypeOK, [Next]_vars
    PROVE  TypeOK'
<1>1. CASE UNCHANGED vars
  BY <1>1 DEF vars, TypeOK, Known
<1>2. ASSUME NEW w \in Workers, Handle(w)
      PROVE  TypeOK'
  BY <1>2, LocalTypes, WriteTypes DEF Handle, Manage
<1> QED
  BY <1>1, <1>2, StartTypes, SessionTypes DEF Next

\* Every variable keeps its type, and a worker always knows whom it acts for.
THEOREM TypeCorrect == Spec => []TypeOK
BY InitTypes, NextTypes, PTL DEF Spec

--------------------------------------------------------------------------------
(* Sessions, administrators, deleted accounts.                                 *)

\* A deleted account is disabled and plain.
DeletedOut ==
    \A a \in Known : users[a].deleted => ~users[a].enabled /\ users[a].role = "user"

AdminsKept == Known # {} => Admins # {}

AccountInv ==
    /\ TypeOK
    /\ SessionsCurrent
    /\ DeletedOut
    /\ AdminsKept

\* A new row for an account keeps all of it, if the trigger about administrators
\* agrees and no session stays when the trigger about sessions takes it away.
LEMMA ChangeKeeps ==
    ASSUME AccountInv, NEW a \in Known, NEW u \in User,
           users' = [users EXCEPT ![a] = u],
           AdminRemainsWith(a, u),
           u.deleted => ~u.enabled /\ u.role = "user",
           \A t \in Tokens : sessions'[t] # None =>
               /\ sessions'[t] = sessions[t]
               /\ sessions[t].user = a => Watched(u) = Watched(users[a])
    PROVE  /\ SessionsCurrent'
           /\ DeletedOut'
           /\ AdminsKept'
<1>1. a \in People /\ users[a] \in User
  BY KnownRows DEF AccountInv
<1>2. users'[a] = u /\ \A b \in People \ {a} : users'[b] = users[b]
  BY <1>1 DEF AccountInv, TypeOK
<1>3. Known' = Known
  BY <1>1, <1>2, NoneAssumption DEF Known
<1>4. DeletedOut'
  <2>1. ASSUME NEW b \in Known, users'[b].deleted
        PROVE  ~users'[b].enabled /\ users'[b].role = "user"
    <3>1. CASE b = a
      BY <1>2, <2>1, <3>1
    <3>2. CASE b # a
      BY <1>2, <2>1, <3>2 DEF Known, AccountInv, DeletedOut
    <3> QED
      BY <3>1, <3>2
  <2> QED
    BY <1>3, <2>1 DEF DeletedOut
<1>5. AdminsKept'
  <2>1. CASE \E b \in Admins : b # a
    <3>1. PICK b \in Admins : b # a
      BY <2>1
    <3>2. b \in Admins'
      BY <1>2, <1>3, <3>1 DEF Admins, Known
    <3> QED
      BY <3>2 DEF AdminsKept
  <2>2. CASE Admins \subseteq {a}
    <3>1. a \in Admins
      BY <2>2 DEF AccountInv, AdminsKept
    <3>2. u.role = "admin" /\ u.enabled
      BY <2>2, <3>1 DEF AdminRemainsWith, User
    <3>3. a \in Admins'
      BY <1>2, <1>3, <3>2 DEF Admins
    <3> QED
      BY <3>3 DEF AdminsKept
  <2> QED
    BY <2>1, <2>2
<1>6. SessionsCurrent'
  <2> SUFFICES ASSUME NEW t \in Tokens, sessions'[t] # None
               PROVE  /\ users'[sessions'[t].user] # None
                      /\ users'[sessions'[t].user].enabled
                      /\ Security(users'[sessions'[t].user]) = sessions'[t].proof
    BY DEF SessionsCurrent, Security
  <2>1. /\ sessions'[t] = sessions[t]
        /\ sessions[t].user = a => Watched(u) = Watched(users[a])
    OBVIOUS
  <2>2. /\ sessions[t].user \in People
        /\ users[sessions[t].user] # None
        /\ users[sessions[t].user].enabled
        /\ Security(users[sessions[t].user]) = sessions[t].proof
    BY <2>1 DEF AccountInv, TypeOK, SessionsCurrent, Session
  <2>3. CASE sessions[t].user # a
    BY <1>2, <2>1, <2>2, <2>3
  <2>4. CASE sessions[t].user = a
    <3>1. u.enabled = users[a].enabled /\ Security(u) = Security(users[a])
      BY <2>1, <2>4 DEF Watched
    <3> QED
      BY <1>2, <2>1, <2>2, <2>4, <3>1, NoneAssumption
  <2> QED
    BY <2>3, <2>4
<1> QED
  BY <1>4, <1>5, <1>6

\* The statement UPDATE does what ChangeKeeps asks for.
LEMMA UpdateKeeps ==
    ASSUME AccountInv, NEW a \in Known, NEW u \in User, Update(a, u),
           u.deleted => ~u.enabled /\ u.role = "user"
    PROVE  /\ SessionsCurrent'
           /\ DeletedOut'
           /\ AdminsKept'
<1>1. users' = [users EXCEPT ![a] = u] /\ AdminRemainsWith(a, u)
  BY DEF Update
<1>2. \A t \in Tokens : sessions'[t] # None => sessions'[t] = sessions[t]
  BY UpdateTypes DEF AccountInv
<1>3. ASSUME NEW t \in Tokens, sessions'[t] # None, sessions[t].user = a
      PROVE  Watched(u) = Watched(users[a])
  <2>1. sessions[t] # None /\ t \in SessionsOf(a)
    BY <1>2, <1>3 DEF SessionsOf
  <2> QED
    BY <1>3, <2>1 DEF Update, Revoke, Without
<1>4. \A t \in Tokens : sessions'[t] # None =>
          /\ sessions'[t] = sessions[t]
          /\ sessions[t].user = a => Watched(u) = Watched(users[a])
  BY <1>2, <1>3
<1> QED
  BY <1>1, <1>4, ChangeKeeps

\* A new account: the first is an administrator.
LEMMA InsertKeeps ==
    ASSUME AccountInv, NEW a \in People, NEW r \in Roles, NEW m \in BOOLEAN, Insert(a, r, m)
    PROVE  /\ SessionsCurrent'
           /\ DeletedOut'
           /\ AdminsKept'
<1>0. /\ users'[a] = [hash |-> Fresh, role |-> r, enabled |-> TRUE, must |-> m,
                      deleted |-> FALSE]
      /\ \A b \in People \ {a} : users'[b] = users[b]
      /\ Known' = Known \union {a}
      /\ a \notin Known
      /\ sessions' = sessions
  <2>1. TypeOK
    BY DEF AccountInv
  <2> QED
    BY <2>1, InsertTypes
<1>1. /\ users'[a].role = r /\ users'[a].enabled /\ ~users'[a].deleted
      /\ \A b \in People \ {a} : users'[b] = users[b]
      /\ Known' = Known \union {a}
      /\ a \notin Known
      /\ sessions' = sessions
  BY <1>0
<1>2. DeletedOut'
  BY <1>1 DEF AccountInv, DeletedOut, Known
<1>3. AdminsKept'
  <2>1. CASE Known = {}
    <3>1. r = "admin"
      BY <2>1 DEF Insert
    <3>2. a \in Admins'
      BY <1>1, <3>1 DEF Admins
    <3> QED
      BY <3>2 DEF AdminsKept
  <2>2. CASE Known # {}
    <3>1. PICK b \in Admins : TRUE
      BY <2>2 DEF AccountInv, AdminsKept
    <3>2. b \in Admins'
      BY <1>1, <3>1 DEF Admins, Known
    <3> QED
      BY <3>2 DEF AdminsKept
  <2> QED
    BY <2>1, <2>2
<1>4. SessionsCurrent'
  <2> SUFFICES ASSUME NEW t \in Tokens, sessions[t] # None
               PROVE  /\ users'[sessions[t].user] # None
                      /\ users'[sessions[t].user].enabled
                      /\ Security(users'[sessions[t].user]) = sessions[t].proof
    BY <1>1 DEF SessionsCurrent, Security
  <2>1. /\ sessions[t].user \in People
        /\ users[sessions[t].user] # None
        /\ users[sessions[t].user].enabled
        /\ Security(users[sessions[t].user]) = sessions[t].proof
    BY DEF AccountInv, TypeOK, SessionsCurrent, Session
  <2>2. sessions[t].user # a
    BY <1>1, <2>1 DEF Known
  <2> QED
    BY <1>1, <2>1, <2>2
<1> QED
  BY <1>2, <1>3, <1>4

\* Sessions that end, or run out of time, leave the others as good as before.
LEMMA EndKeeps ==
    ASSUME AccountInv, users' = users,
           \A t \in Tokens : sessions'[t] # None =>
               /\ sessions[t] # None
               /\ sessions'[t].user = sessions[t].user
               /\ sessions'[t].proof = sessions[t].proof
    PROVE  /\ SessionsCurrent'
           /\ DeletedOut'
           /\ AdminsKept'
<1>1. SessionsCurrent'
  <2> SUFFICES ASSUME NEW t \in Tokens, sessions'[t] # None
               PROVE  /\ users[sessions'[t].user] # None
                      /\ users[sessions'[t].user].enabled
                      /\ Security(users[sessions'[t].user]) = sessions'[t].proof
    BY DEF SessionsCurrent, Security
  <2> QED
    BY DEF AccountInv, SessionsCurrent
<1> QED
  BY <1>1 DEF AccountInv, DeletedOut, AdminsKept, Admins, Known

LEMMA CreateSessionKeeps ==
    ASSUME AccountInv, NEW w \in Workers, CreateSession(w)
    PROVE  /\ SessionsCurrent'
           /\ DeletedOut'
           /\ AdminsKept'
<1>1. PICK t \in Tokens \ drawn :
          sessions' = [sessions EXCEPT ![t] =
                           [user |-> who[w], live |-> TRUE, proof |-> Security(row[w])]]
  BY DEF CreateSession, NewSession
<1>2. users' = users
  BY DEF CreateSession
<1>3. SessionsCurrent'
  <2> SUFFICES ASSUME NEW s \in Tokens, sessions'[s] # None
               PROVE  /\ users[sessions'[s].user] # None
                      /\ users[sessions'[s].user].enabled
                      /\ Security(users[sessions'[s].user]) = sessions'[s].proof
    BY <1>2 DEF SessionsCurrent, Security
  <2>1. CASE s = t
    <3>1. sessions'[s] = [user |-> who[w], live |-> TRUE, proof |-> Security(row[w])]
      BY <1>1, <2>1 DEF AccountInv, TypeOK
    <3> QED
      BY <3>1 DEF CreateSession, Active
  <2>2. CASE s # t
    <3>1. sessions'[s] = sessions[s]
      BY <1>1, <2>2 DEF AccountInv, TypeOK
    <3> QED
      BY <3>1 DEF AccountInv, SessionsCurrent
  <2> QED
    BY <2>1, <2>2
<1> QED
  BY <1>2, <1>3 DEF AccountInv, DeletedOut, AdminsKept, Admins, Known

LEMMA ManageKeeps ==
    ASSUME AccountInv, NEW w \in Workers, UpdateUser(w) \/ DeleteUser(w) \/ ResetPassword(w)
    PROVE  /\ SessionsCurrent'
           /\ DeletedOut'
           /\ AdminsKept'
<1>0. TypeOK /\ DeletedOut
  BY DEF AccountInv
<1>1. CASE UpdateUser(w)
  <2>1. PICK a \in Known, r \in Roles, e \in BOOLEAN :
            /\ ~users[a].deleted
            /\ Update(a, [users[a] EXCEPT !.role = r, !.enabled = e])
    BY <1>1 DEF UpdateUser
  <2> DEFINE u == [users[a] EXCEPT !.role = r, !.enabled = e]
  <2>2. users[a] \in User
    BY <1>0, KnownRows
  <2>3. u \in User /\ ~u.deleted
    BY <2>1, <2>2 DEF User
  <2>4. Update(a, u)
    BY <2>1
  <2> HIDE DEF u
  <2> QED
    BY <2>3, <2>4, UpdateKeeps
<1>2. CASE DeleteUser(w)
  <2>1. PICK a \in Known : /\ AdminRemainsWith(a, Tombstone(a))
                           /\ users' = [users EXCEPT ![a] = Tombstone(a)]
                           /\ sessions' = Without(SessionsOf(a))
    BY <1>2 DEF DeleteUser
  <2>2. users[a] \in User
    BY <1>0, KnownRows
  <2>3. /\ Tombstone(a) \in User
        /\ ~Tombstone(a).enabled /\ Tombstone(a).role = "user"
    BY <2>2 DEF Tombstone, User, Roles
  <2>4. \A t \in Tokens : sessions'[t] # None =>
            /\ sessions'[t] = sessions[t]
            /\ sessions[t].user = a => Watched(Tombstone(a)) = Watched(users[a])
    BY <2>1 DEF Without, SessionsOf
  <2> QED
    BY <2>1, <2>3, <2>4, ChangeKeeps
<1>3. CASE ResetPassword(w)
  <2>1. PICK a \in Known, m \in BOOLEAN :
            Update(a, [users[a] EXCEPT !.hash = Fresh, !.must = m])
    BY <1>3 DEF ResetPassword
  <2> DEFINE u == [users[a] EXCEPT !.hash = Fresh, !.must = m]
  <2>2. users[a] \in User
    BY <1>0, KnownRows
  <2>3. Fresh \in Hashes
    BY <1>0, <1>3, NewHash DEF ResetPassword
  <2>4. u \in User
    BY <2>2, <2>3 DEF User
  <2>5. u.deleted = users[a].deleted /\ u.enabled = users[a].enabled /\ u.role = users[a].role
    BY <2>2 DEF User
  <2>6. u.deleted => ~u.enabled /\ u.role = "user"
    BY <1>0, <2>5 DEF DeletedOut
  <2>7. Update(a, u)
    BY <2>1
  <2> HIDE DEF u
  <2> QED
    BY <2>4, <2>6, <2>7, UpdateKeeps
<1> QED
  BY <1>1, <1>2, <1>3

LEMMA SwapKeeps ==
    ASSUME AccountInv, NEW w \in Workers, Swap(w)
    PROVE  /\ SessionsCurrent'
           /\ DeletedOut'
           /\ AdminsKept'
<1> DEFINE a == who[w]
           u == [users[a] EXCEPT !.hash = Fresh, !.must = FALSE]
<1>0. TypeOK /\ DeletedOut
  BY DEF AccountInv
<1>1. a \in Known
  BY <1>0 DEF Swap, TypeOK
<1>2. users[a] \in User
  BY <1>0, <1>1, KnownRows
<1>3. Fresh \in Hashes
  BY <1>0, NewHash DEF Swap, Replace
<1>4. u \in User
  BY <1>2, <1>3 DEF User
<1>5. u.deleted = users[a].deleted /\ u.enabled = users[a].enabled /\ u.role = users[a].role
  BY <1>2 DEF User
<1>6. u.deleted => ~u.enabled /\ u.role = "user"
  BY <1>0, <1>1, <1>5 DEF DeletedOut
<1>7. Update(a, u)
  BY DEF Swap, Replace
<1> HIDE DEF u, a
<1> QED
  BY <1>1, <1>4, <1>6, <1>7, UpdateKeeps

LEMMA CreateUserKeeps ==
    ASSUME AccountInv, \E a \in People, r \in Roles, m \in BOOLEAN : Insert(a, r, m)
    PROVE  /\ SessionsCurrent'
           /\ DeletedOut'
           /\ AdminsKept'
BY InsertKeeps

\* Steps that leave the tables as they are.
LEMMA SameTables ==
    ASSUME AccountInv, users' = users, sessions' = sessions
    PROVE  /\ SessionsCurrent'
           /\ DeletedOut'
           /\ AdminsKept'
BY EndKeeps

LEMMA AccountInvStep ==
    ASSUME AccountInv, [Next]_vars
    PROVE  AccountInv'
<1> USE DEF runtime, tables
<1>0. TypeOK
  BY DEF AccountInv
<1> SUFFICES SessionsCurrent' /\ DeletedOut' /\ AdminsKept'
  BY <1>0, NextTypes DEF AccountInv
<1>1. CASE UNCHANGED vars
  BY <1>1, SameTables DEF vars
<1>2. CASE Start \/ Crash
  <2>1. CASE CreateFirst
    <3>1. \E a \in People : Insert(a, "admin", FALSE)
      BY <2>1 DEF CreateFirst
    <3> QED
      BY <3>1, CreateUserKeeps DEF Roles
  <2>2. CASE LoadSettings \/ ServeKnown \/ StartFails \/ Crash
    <3>1. users' = users /\ sessions' = sessions
      BY <2>2 DEF LoadSettings, ServeKnown, StartFails, Crash
    <3> QED
      BY <3>1, SameTables
  <2> QED
    BY <1>2, <2>1, <2>2 DEF Start
<1>3. CASE Purge
  <2>1. /\ users' = users
        /\ \A t \in Tokens : sessions'[t] # None => sessions'[t] = sessions[t]
    BY <1>3 DEF Purge, Without
  <2> QED
    BY <2>1, EndKeeps
<1>4. ASSUME NEW t \in Tokens, Logout(t) \/ Expire(t)
      PROVE  SessionsCurrent' /\ DeletedOut' /\ AdminsKept'
  <2>1. users' = users
    BY <1>4 DEF Logout, Expire
  <2>2. \A s \in Tokens : sessions'[s] # None =>
            /\ sessions[s] # None
            /\ sessions'[s].user = sessions[s].user
            /\ sessions'[s].proof = sessions[s].proof
    <3>1. CASE Logout(t)
      BY <3>1 DEF Logout, Without
    <3>2. CASE Expire(t)
      <4>1. sessions[t] \in Session /\ sessions[t] # None
        BY <1>0, <3>2 DEF Expire, TypeOK
      <4>2. sessions' = [sessions EXCEPT ![t] = [sessions[t] EXCEPT !.live = FALSE]]
        BY <3>2 DEF Expire
      <4> QED
        BY <1>0, <4>1, <4>2 DEF TypeOK, Session
    <3> QED
      BY <1>4, <3>1, <3>2
  <2> QED
    BY <2>1, <2>2, EndKeeps
<1>5. ASSUME NEW w \in Workers, Handle(w)
      PROVE  SessionsCurrent' /\ DeletedOut' /\ AdminsKept'
  <2>1. CASE Fail(w) \/ SignIn(w) \/ SaveSettings(w) \/ ReadCurrent(w) \/ Renew(w)
    <3>1. users' = users /\ sessions' = sessions
      BY <2>1 DEF Fail, SignIn, SaveSettings, ReadCurrent, Renew
    <3> QED
      BY <3>1, SameTables
  <2>2. CASE \E t \in Tokens : BeginManage(w, t) \/ BeginChange(w, t)
    <3>1. users' = users /\ sessions' = sessions
      BY <2>2 DEF BeginManage, BeginChange, Begin
    <3> QED
      BY <3>1, SameTables
  <2>3. CASE CreateUser(w)
    BY <2>3, CreateUserKeeps DEF CreateUser
  <2> QED
    BY <1>5, <2>1, <2>2, <2>3, CreateSessionKeeps, ManageKeeps, SwapKeeps DEF Handle, Manage
<1> QED
  BY <1>1, <1>2, <1>3, <1>4, <1>5 DEF Next

LEMMA AccountInvInit ==
    Init => AccountInv
<1> SUFFICES ASSUME Init
             PROVE  AccountInv
  OBVIOUS
<1>1. TypeOK
  BY InitTypes
<1>2. Known = {} /\ \A t \in Tokens : sessions[t] = None
  BY DEF Init, Known
<1> QED
  BY <1>1, <1>2 DEF AccountInv, SessionsCurrent, DeletedOut, AdminsKept

THEOREM AccountInvariant == Spec => []AccountInv
BY AccountInvInit, AccountInvStep, PTL DEF Spec

\* A session stands for the password, role and flag that its account has now, even
\* when a sign-in raced with a reset, a new role, a change or a deletion.
THEOREM SessionsAreCurrent == Spec => []SessionsCurrent
<1>1. AccountInv => SessionsCurrent
  BY DEF AccountInv
<1> QED
  BY <1>1, AccountInvariant, PTL

\* Whatever administrators do to each other at the same time, one remains.
THEOREM AdminAlwaysRemains == Spec => []AdminRemains
<1>1. AccountInv => AdminRemains
  <2>1. ASSUME DeletedOut, NEW a \in Admins
        PROVE  ~users[a].deleted
    BY <2>1 DEF DeletedOut, Admins
  <2> QED
    BY <2>1 DEF AccountInv, AdminsKept, AdminRemains
<1> QED
  BY <1>1, AccountInvariant, PTL

\* No reset or change that comes late lets a deleted account in again.
THEOREM DeletedStaysOut == Spec => []DeletedStayOut
<1>1. AccountInv => DeletedStayOut
  BY DEF AccountInv, DeletedOut, SessionsCurrent, DeletedStayOut, SessionsOf
<1> QED
  BY <1>1, AccountInvariant, PTL


--------------------------------------------------------------------------------
(* The start.                                                                  *)

StartInv ==
    /\ TypeOK
    /\ AdminsKept
    /\ Known # {} => settings # None
    /\ process # "down" => settings # None
    /\ process = "serving" => Known # {}

\* What a request can change of this: accounts only appear where some are known,
\* and stored settings stay stored.
LEMMA HandleKeeps ==
    ASSUME TypeOK, NEW w \in Workers, Handle(w)
    PROVE  /\ process' = process
           /\ settings' = settings \/ settings' # None
           /\ Known \subseteq Known'
           /\ Known' # {} => Known # {}
<1> USE DEF runtime, tables
<1>1. CASE /\ users' = users /\ process' = process
           /\ settings' = settings \/ settings' # None
  BY <1>1 DEF Known
<1>2. ASSUME NEW a \in Known, NEW u \in User, Update(a, u),
             process' = process, settings' = settings
      PROVE  /\ process' = process
             /\ settings' = settings \/ settings' # None
             /\ Known \subseteq Known'
             /\ Known' # {} => Known # {}
  BY <1>2, UpdateTypes
<1>3. CASE Fail(w) \/ SignIn(w) \/ ReadCurrent(w) \/ Renew(w) \/ CreateSession(w)
  <2>1. users' = users /\ process' = process /\ settings' = settings
    BY <1>3 DEF Fail, SignIn, ReadCurrent, Renew, CreateSession
  <2> QED
    BY <1>1, <2>1
<1>4. CASE \E t \in Tokens : BeginManage(w, t) \/ BeginChange(w, t)
  <2>1. users' = users /\ process' = process /\ settings' = settings
    BY <1>4 DEF BeginManage, BeginChange, Begin
  <2> QED
    BY <1>1, <2>1
<1>5. CASE SaveSettings(w)
  <2>1. users' = users /\ process' = process /\ settings' # None
    BY <1>5, NoneAssumption DEF SaveSettings
  <2> QED
    BY <1>1, <2>1
<1>6. CASE CreateUser(w)
  <2>1. PICK a \in People, r \in Roles, m \in BOOLEAN : Insert(a, r, m)
    BY <1>6 DEF CreateUser
  <2>2. Known' = Known \union {a}
    BY <2>1, InsertTypes
  <2>3. who[w] \in Known
    BY <1>6 DEF CreateUser, TypeOK
  <2>4. process' = process /\ settings' = settings
    BY <1>6 DEF CreateUser
  <2> QED
    BY <2>2, <2>3, <2>4
<1>7. CASE UpdateUser(w)
  <2>1. PICK a \in Known, r \in Roles, e \in BOOLEAN :
            Update(a, [users[a] EXCEPT !.role = r, !.enabled = e])
    BY <1>7 DEF UpdateUser
  <2>2. [users[a] EXCEPT !.role = r, !.enabled = e] \in User
    BY KnownRows DEF User
  <2> QED
    BY <1>2, <1>7, <2>1, <2>2 DEF UpdateUser
<1>8. CASE DeleteUser(w)
  <2>1. PICK a \in Known : users' = [users EXCEPT ![a] = Tombstone(a)]
    BY <1>8 DEF DeleteUser
  <2>2. Tombstone(a) \in User
    BY KnownRows DEF Tombstone, User, Roles
  <2>3. Known' = Known
    BY <2>1, <2>2, KnownRows, NoneAssumption DEF TypeOK, Known
  <2> QED
    BY <1>8, <2>3 DEF DeleteUser
<1>9. CASE ResetPassword(w)
  <2>1. PICK a \in Known, m \in BOOLEAN :
            Update(a, [users[a] EXCEPT !.hash = Fresh, !.must = m])
    BY <1>9 DEF ResetPassword
  <2>2. Fresh \in Hashes
    BY <1>9, NewHash DEF ResetPassword
  <2>3. [users[a] EXCEPT !.hash = Fresh, !.must = m] \in User
    BY <2>2, KnownRows DEF User
  <2> QED
    BY <1>2, <1>9, <2>1, <2>3 DEF ResetPassword
<1>10. CASE Swap(w)
  <2>1. who[w] \in Known
    BY <1>10 DEF Swap, TypeOK
  <2>2. Fresh \in Hashes
    BY <1>10, NewHash DEF Swap, Replace
  <2>3. [users[who[w]] EXCEPT !.hash = Fresh, !.must = FALSE] \in User
    BY <2>1, <2>2, KnownRows DEF User
  <2>4. Update(who[w], [users[who[w]] EXCEPT !.hash = Fresh, !.must = FALSE])
    BY <1>10 DEF Swap, Replace
  <2>5. process' = process /\ settings' = settings
    BY <1>10 DEF Swap, Replace
  <2> QED
    BY <1>2, <2>1, <2>3, <2>4, <2>5
<1> QED
  BY <1>3, <1>4, <1>5, <1>6, <1>7, <1>8, <1>9, <1>10 DEF Handle, Manage

LEMMA StartInvStep ==
    ASSUME AccountInv, StartInv, [Next]_vars
    PROVE  StartInv'
<1> USE DEF runtime, tables
<1>0. TypeOK' /\ AdminsKept'
  BY AccountInvStep DEF AccountInv
<1> DEFINE Rest == /\ Known # {} => settings # None
                   /\ process # "down" => settings # None
                   /\ process = "serving" => Known # {}
<1> SUFFICES Rest'
  BY <1>0 DEF StartInv
<1>1. CASE UNCHANGED vars
  BY <1>1 DEF vars, StartInv, Known
<1>2. CASE LoadSettings
  BY <1>2, NoneAssumption DEF LoadSettings, Known
<1>3. CASE CreateFirst
  <2>1. PICK a \in People : Insert(a, "admin", FALSE)
    BY <1>3 DEF CreateFirst
  <2>2. a \in Known'
    BY <2>1, InsertTypes DEF AccountInv, Roles
  <2>3. settings' = settings /\ settings # None
    BY <1>3 DEF CreateFirst, StartInv
  <2> QED
    BY <2>2, <2>3
<1>4. CASE ServeKnown
  BY <1>4, NoneAssumption DEF ServeKnown, Serve, StartInv, Known
<1>5. CASE StartFails
  BY <1>5 DEF StartFails, Known
<1>6. CASE Crash \/ Purge \/ \E t \in Tokens : Logout(t) \/ Expire(t)
  <2>1. /\ users' = users /\ settings' = settings
        /\ process' = "down" \/ process' = process
    BY <1>6 DEF Crash, Purge, Logout, Expire
  <2> QED
    BY <2>1 DEF StartInv, Known
<1>7. ASSUME NEW w \in Workers, Handle(w)
      PROVE  Rest'
  <2>1. TypeOK
    BY DEF AccountInv
  <2>2. /\ process' = process
        /\ settings' = settings \/ settings' # None
        /\ Known \subseteq Known'
        /\ Known' # {} => Known # {}
    BY <1>7, <2>1, HandleKeeps
  <2> QED
    BY <2>2 DEF StartInv
<1> QED
  BY <1>1, <1>2, <1>3, <1>4, <1>5, <1>6, <1>7 DEF Next, Start

\* Wherever a start is interrupted or fails, and however often, management is not
\* served without settings and an administrator, nor are accounts left without.
THEOREM NeverServedWithoutAdmin == Spec => []ServedWithAdmin
<1>1. Init => AccountInv /\ StartInv
  BY AccountInvInit DEF Init, AccountInv, StartInv, Known
<1>2. (AccountInv /\ StartInv) /\ [Next]_vars => (AccountInv /\ StartInv)'
  BY AccountInvStep, StartInvStep
<1>3. StartInv => ServedWithAdmin
  BY DEF StartInv, AdminsKept, ServedWithAdmin
<1> QED
  BY <1>1, <1>2, <1>3, PTL DEF Spec

--------------------------------------------------------------------------------
(* Passwords.                                                                  *)

\* Passwords are numbered as they are made.  A worker about to store a new one has
\* read a row; if its password is still the present one, and the account has to
\* change it, then that row said so.
RowsInv ==
    /\ \A a \in Known : users[a].hash <= hashes
    /\ \A w \in Workers : pc[w] = "swap" =>
           /\ row[w].hash <= hashes
           /\ users[who[w]].hash = row[w].hash /\ users[who[w]].must => row[w].must

\* In a step an account keeps its password, and is at most released from changing
\* it, or it gets the next one.
UserStep ==
    /\ Known \subseteq Known'
    /\ hashes' \in {hashes, Fresh}
    /\ \A a \in Known' :
           \/ /\ a \in Known
              /\ users'[a].hash = users[a].hash
              /\ users'[a].must => users[a].must
           \/ users'[a].hash = Fresh /\ hashes' = Fresh

\* A worker about to store a password was so before, or reads the row now.
WorkerStep ==
    \A w \in Workers : pc'[w] = "swap" =>
        /\ who'[w] = who[w]
        /\ \/ pc[w] = "swap" /\ row'[w] = row[w]
           \/ who[w] \in Known /\ row'[w] = users[who[w]] /\ users' = users

LEMMA RowsStep ==
    ASSUME TypeOK, TypeOK', RowsInv, UserStep, WorkerStep
    PROVE  RowsInv'
<1>1. hashes \in Nat /\ hashes' \in Nat /\ hashes <= hashes'
  BY HashesAssumption DEF TypeOK, UserStep, Fresh
<1>2. ASSUME NEW a \in Known'
      PROVE  users'[a].hash <= hashes'
  <2>1. CASE a \in Known /\ users'[a].hash = users[a].hash
    <3>1. users[a].hash \in Nat /\ users[a].hash <= hashes
      BY <2>1, KnownRows DEF User, Hashes, RowsInv
    <3> QED
      BY <1>1, <2>1, <3>1
  <2>2. CASE users'[a].hash = Fresh /\ hashes' = Fresh
    BY <1>1, <2>2
  <2> QED
    BY <2>1, <2>2 DEF UserStep
<1>3. ASSUME NEW w \in Workers, pc'[w] = "swap"
      PROVE  /\ row'[w].hash <= hashes'
             /\ users'[who'[w]].hash = row'[w].hash /\ users'[who'[w]].must => row'[w].must
  <2>1. CASE who[w] \in Known /\ row'[w] = users[who[w]] /\ users' = users
    <3>1. users[who[w]].hash \in Nat /\ users[who[w]].hash <= hashes
      BY <2>1, KnownRows DEF User, Hashes, RowsInv
    <3> QED
      BY <1>1, <1>3, <2>1, <3>1 DEF WorkerStep
  <2>2. CASE pc[w] = "swap" /\ row'[w] = row[w]
    <3> DEFINE a == who[w]
    <3>1. a \in Known /\ a \in Known' /\ row[w] # None
      BY <2>2 DEF TypeOK, UserStep
    <3>2. row[w].hash \in Nat /\ row[w].hash <= hashes
      BY <2>2, <3>1 DEF TypeOK, RowsInv, User, Hashes
    <3>3. users[a].hash = row[w].hash /\ users[a].must => row[w].must
      BY <2>2 DEF RowsInv
    <3>4. who'[w] = a
      BY <1>3 DEF WorkerStep
    <3>5. CASE users'[a].hash = users[a].hash /\ (users'[a].must => users[a].must)
      BY <1>1, <2>2, <3>2, <3>3, <3>4, <3>5
    <3>6. CASE users'[a].hash = Fresh
      <4>1. users'[a].hash # row[w].hash
        BY <1>1, <3>2, <3>6 DEF Fresh
      <4> QED
        BY <1>1, <2>2, <3>2, <3>4, <4>1
    <3> QED
      BY <3>1, <3>5, <3>6 DEF UserStep
  <2> QED
    BY <1>3, <2>1, <2>2 DEF WorkerStep
<1> QED
  BY <1>2, <1>3 DEF RowsInv

LEMMA SameUsers ==
    ASSUME users' = users, hashes' = hashes
    PROVE  UserStep
BY DEF UserStep, Known

LEMMA ChangedUser ==
    ASSUME TypeOK, NEW a \in Known, NEW u \in User, users' = [users EXCEPT ![a] = u],
           \/ /\ hashes' = hashes /\ u.hash = users[a].hash
              /\ u.must => users[a].must
           \/ u.hash = Fresh /\ hashes' = Fresh
    PROVE  UserStep
<1>1. a \in People
  BY KnownRows
<1>2. users'[a] = u /\ \A b \in People \ {a} : users'[b] = users[b]
  BY <1>1 DEF TypeOK
<1>3. Known' = Known
  BY <1>1, <1>2, NoneAssumption DEF Known
<1>4. hashes' \in {hashes, Fresh}
  OBVIOUS
<1>5. ASSUME NEW b \in Known
      PROVE  \/ /\ users'[b].hash = users[b].hash
                /\ users'[b].must => users[b].must
             \/ users'[b].hash = Fresh /\ hashes' = Fresh
  <2>1. CASE b = a
    BY <1>2, <2>1
  <2>2. CASE b # a
    BY <1>2, <2>2 DEF Known
  <2> QED
    BY <2>1, <2>2
<1> QED
  BY <1>3, <1>4, <1>5 DEF UserStep

LEMMA InsertedUser ==
    ASSUME TypeOK, \E a \in People, r \in Roles, m \in BOOLEAN : Insert(a, r, m)
    PROVE  UserStep
<1>1. PICK a \in People, r \in Roles, m \in BOOLEAN : Insert(a, r, m)
  OBVIOUS
<1>2. /\ users'[a] = [hash |-> Fresh, role |-> r, enabled |-> TRUE, must |-> m,
                      deleted |-> FALSE]
      /\ \A b \in People \ {a} : users'[b] = users[b]
      /\ Known' = Known \union {a}
  BY <1>1, InsertTypes
<1>3. hashes' = Fresh
  BY <1>1 DEF Insert, HashPassword
<1>4. users'[a].hash = Fresh
  BY <1>2
<1>5. \A b \in Known : users'[b] = users[b] \/ b = a
  BY <1>2 DEF Known
<1>6. hashes' \in {hashes, Fresh} /\ Known \subseteq Known'
  BY <1>2, <1>3
<1> QED
  BY <1>2, <1>3, <1>4, <1>5, <1>6 DEF UserStep

\* The worker that acts is the only one whose place and row change.
LEMMA Alone ==
    ASSUME TypeOK, NEW w \in Workers, pc'[w] # "swap",
           \A v \in Workers \ {w} : pc'[v] = pc[v] /\ who'[v] = who[v] /\ row'[v] = row[v]
    PROVE  WorkerStep
BY DEF WorkerStep

LEMMA AnswerAlone ==
    ASSUME TypeOK, NEW w \in Workers, Answer(w)
    PROVE  WorkerStep
<1>1. pc'[w] = "idle"
  BY DEF Answer, TypeOK
<1>2. \A v \in Workers \ {w} : pc'[v] = pc[v] /\ who'[v] = who[v] /\ row'[v] = row[v]
  BY DEF Answer, TypeOK
<1> QED
  BY <1>1, <1>2, Alone

LEMMA HandleSteps ==
    ASSUME TypeOK, NEW w \in Workers, Handle(w)
    PROVE  /\ UserStep
           /\ WorkerStep
<1> USE DEF runtime, tables
<1>1. CASE Fail(w) \/ SaveSettings(w) \/ CreateSession(w)
  <2>1. users' = users /\ hashes' = hashes /\ Answer(w)
    BY <1>1 DEF Fail, SaveSettings, CreateSession
  <2> QED
    BY <2>1, SameUsers, AnswerAlone
<1>2. CASE SignIn(w) \/ Renew(w)
  <2>1. PICK a \in People \union {who[w]} : Authenticated(w, a)
    BY <1>2 DEF SignIn, Renew
  <2>2. /\ users' = users /\ hashes' = hashes
        /\ \A v \in Workers \ {w} : who'[v] = who[v]
    BY <1>2 DEF SignIn, Renew, TypeOK
  <2>3. /\ pc'[w] = "proved"
        /\ \A v \in Workers \ {w} : pc'[v] = pc[v] /\ row'[v] = row[v]
    BY <2>1 DEF Authenticated, Goto, TypeOK
  <2> QED
    BY <2>2, <2>3, SameUsers, Alone
<1>3. ASSUME NEW t \in Tokens, NEW l \in {"manage", "change"}, Begin(w, t, l)
      PROVE  UserStep /\ WorkerStep
  <2>1. users' = users /\ hashes' = hashes
    BY <1>3 DEF Begin
  <2>2. /\ pc'[w] = l
        /\ \A v \in Workers \ {w} : pc'[v] = pc[v] /\ who'[v] = who[v] /\ row'[v] = row[v]
    BY <1>3 DEF Begin, Goto, TypeOK
  <2> QED
    BY <2>1, <2>2, SameUsers, Alone
<1>4. CASE \E t \in Tokens : BeginManage(w, t) \/ BeginChange(w, t)
  BY <1>3, <1>4 DEF BeginManage, BeginChange
<1>5. CASE ReadCurrent(w)
  <2>1. users' = users /\ hashes' = hashes /\ who' = who
    BY <1>5 DEF ReadCurrent
  <2>2. /\ row'[w] = users[who[w]] /\ who[w] \in Known
        /\ \A v \in Workers \ {w} : pc'[v] = pc[v] /\ row'[v] = row[v]
    BY <1>5 DEF ReadCurrent, Goto, TypeOK
  <2>3. WorkerStep
    BY <2>1, <2>2 DEF WorkerStep
  <2> QED
    BY <2>1, <2>3, SameUsers
<1>6. CASE CreateUser(w)
  BY <1>6, InsertedUser, AnswerAlone DEF CreateUser
<1>7. CASE UpdateUser(w)
  <2>1. PICK a \in Known, r \in Roles, e \in BOOLEAN :
            users' = [users EXCEPT ![a] = [users[a] EXCEPT !.role = r, !.enabled = e]]
    BY <1>7 DEF UpdateUser, Update
  <2> DEFINE u == [users[a] EXCEPT !.role = r, !.enabled = e]
  <2>2. u \in User /\ u.hash = users[a].hash /\ u.must = users[a].must
    BY KnownRows DEF User
  <2>3. users' = [users EXCEPT ![a] = u] /\ hashes' = hashes /\ Answer(w)
    BY <1>7, <2>1 DEF UpdateUser
  <2> HIDE DEF u
  <2> QED
    BY <2>2, <2>3, ChangedUser, AnswerAlone
<1>8. CASE DeleteUser(w)
  <2>1. PICK a \in Known : users' = [users EXCEPT ![a] = Tombstone(a)]
    BY <1>8 DEF DeleteUser
  <2>2. /\ Tombstone(a) \in User
        /\ Tombstone(a).hash = users[a].hash /\ ~Tombstone(a).must
    BY KnownRows DEF Tombstone, User, Roles
  <2>3. hashes' = hashes /\ Answer(w)
    BY <1>8 DEF DeleteUser
  <2> QED
    BY <2>1, <2>2, <2>3, ChangedUser, AnswerAlone
<1>9. CASE ResetPassword(w)
  <2>1. PICK a \in Known, m \in BOOLEAN :
            users' = [users EXCEPT ![a] = [users[a] EXCEPT !.hash = Fresh, !.must = m]]
    BY <1>9 DEF ResetPassword, Update
  <2> DEFINE u == [users[a] EXCEPT !.hash = Fresh, !.must = m]
  <2>2. Fresh \in Hashes /\ hashes' = Fresh
    BY <1>9, NewHash DEF ResetPassword
  <2>3. u \in User /\ u.hash = Fresh
    BY <2>2, KnownRows DEF User
  <2>4. users' = [users EXCEPT ![a] = u] /\ Answer(w)
    BY <1>9, <2>1 DEF ResetPassword
  <2> HIDE DEF u
  <2> QED
    BY <2>2, <2>3, <2>4, ChangedUser, AnswerAlone
<1>10. CASE Swap(w)
  <2> DEFINE a == who[w]
             u == [users[a] EXCEPT !.hash = Fresh, !.must = FALSE]
  <2>1. a \in Known
    BY <1>10 DEF Swap, TypeOK
  <2>2. Fresh \in Hashes /\ hashes' = Fresh
    BY <1>10, NewHash DEF Swap, Replace
  <2>3. u \in User /\ u.hash = Fresh
    BY <2>1, <2>2, KnownRows DEF User
  <2>4. users' = [users EXCEPT ![a] = u]
    BY <1>10 DEF Swap, Replace, Update
  <2>5. /\ pc'[w] = "renew"
        /\ \A v \in Workers \ {w} : pc'[v] = pc[v] /\ who'[v] = who[v] /\ row'[v] = row[v]
    BY <1>10 DEF Swap, Replace, Goto, TypeOK
  <2>6. WorkerStep
    BY <2>5, Alone
  <2> HIDE DEF u, a
  <2> QED
    BY <2>1, <2>2, <2>3, <2>4, <2>6, ChangedUser
<1> QED
  BY <1>1, <1>2, <1>4, <1>5, <1>6, <1>7, <1>8, <1>9, <1>10 DEF Handle, Manage

LEMMA RowsInvStep ==
    ASSUME TypeOK, RowsInv, [Next]_vars
    PROVE  RowsInv'
<1> USE DEF runtime, tables, locals
<1>1. TypeOK'
  BY NextTypes
<1>2. CASE UNCHANGED vars
  <2>1. UserStep /\ WorkerStep
    BY <1>2, SameUsers DEF vars, WorkerStep
  <2> QED
    BY <1>1, <2>1, RowsStep
<1>3. CASE Start \/ Crash \/ Purge \/ \E t \in Tokens : Logout(t) \/ Expire(t)
  <2>1. WorkerStep
    BY <1>3 DEF Start, LoadSettings, CreateFirst, ServeKnown, StartFails, Crash, Purge,
                Logout, Expire, WorkerStep
  <2>2. UserStep
    <3>1. CASE CreateFirst
      BY <3>1, InsertedUser DEF CreateFirst, Roles
    <3>2. CASE ~CreateFirst
      <4>1. users' = users /\ hashes' = hashes
        BY <1>3, <3>2 DEF Start, LoadSettings, ServeKnown, StartFails, Crash, Purge,
                          Logout, Expire
      <4> QED
        BY <4>1, SameUsers
    <3> QED
      BY <3>1, <3>2
  <2> QED
    BY <1>1, <2>1, <2>2, RowsStep
<1>4. ASSUME NEW w \in Workers, Handle(w)
      PROVE  RowsInv'
  <2>1. UserStep /\ WorkerStep
    BY <1>4, HandleSteps
  <2> QED
    BY <1>1, <2>1, RowsStep
<1> QED
  BY <1>2, <1>3, <1>4 DEF Next

\* Only Swap stores the password of a worker that changes one.
LEMMA OnlySwap ==
    ASSUME TypeOK, NEW w \in Workers, Next, pc[w] = "swap", pc'[w] = "renew"
    PROVE  Swap(w)
<1> USE DEF runtime, tables, locals
<1>1. CASE Start \/ Purge \/ \E t \in Tokens : Logout(t) \/ Expire(t)
  BY <1>1 DEF Start, LoadSettings, CreateFirst, ServeKnown, StartFails, Purge, Logout, Expire
<1>2. CASE Crash
  BY <1>2 DEF Crash
<1>3. ASSUME NEW v \in Workers, Handle(v)
      PROVE  Swap(w)
  <2>1. CASE v # w
    <3>1. pc'[w] = pc[w]
      <4>1. CASE Answer(v)
        BY <2>1, <4>1 DEF Answer, TypeOK
      <4>2. CASE \E l \in {"proved", "manage", "change", "swap", "renew"} : Goto(v, l)
        BY <2>1, <4>2 DEF Goto, TypeOK
      <4> QED
        BY <1>3, <4>1, <4>2
           DEF Handle, Manage, Fail, SignIn, CreateSession, CreateUser, UpdateUser,
               DeleteUser, ResetPassword, SaveSettings, BeginManage, BeginChange, Begin,
               ReadCurrent, Swap, Replace, Renew, Authenticated
    <3> QED
      BY <3>1
  <2>2. CASE v = w
    <3>1. ~Answer(w)
      BY DEF Answer, TypeOK
    <3>2. Handle(w)
      BY <1>3, <2>2
    <3> QED
      BY <3>1, <3>2
         DEF Handle, Manage, Fail, SignIn, CreateSession, CreateUser, UpdateUser,
             DeleteUser, ResetPassword, SaveSettings, BeginManage, BeginChange, Begin,
             ReadCurrent, Renew
  <2> QED
    BY <2>1, <2>2
<1> QED
  BY <1>1, <1>2, <1>3 DEF Next

\* A change of password that began before a reset does not release the account
\* from changing the password it was given.
THEOREM ForcedChangesStand == Spec => ForcedChangeStands
<1> DEFINE Kept == \A w \in Workers :
                       pc[w] = "swap" /\ pc'[w] = "renew" => (users[who[w]].must => row[w].must)
<1>1. Init => TypeOK /\ RowsInv
  BY InitTypes DEF Init, RowsInv, Known
<1>2. (TypeOK /\ RowsInv) /\ [Next]_vars => (TypeOK /\ RowsInv)'
  BY NextTypes, RowsInvStep
<1>3. (TypeOK /\ RowsInv) /\ [Next]_vars => [Kept]_vars
  <2> SUFFICES ASSUME TypeOK, RowsInv, Next, NEW w \in Workers,
                      pc[w] = "swap", pc'[w] = "renew"
               PROVE  users[who[w]].must => row[w].must
    BY DEF Kept
  <2>1. Swap(w)
    BY OnlySwap
  <2> QED
    BY <2>1 DEF Swap, RowsInv
<1> QED
  BY <1>1, <1>2, <1>3, PTL DEF Spec, ForcedChangeStands


--------------------------------------------------------------------------------
(* Refinement of Standing.                                                     *)

Seen == <<StandingNow, AccessNow>>

\* Steps that leave the tables as they are show nothing.
LEMMA SeenSame ==
    ASSUME users' = users, sessions' = sessions
    PROVE  UNCHANGED Seen
BY DEF Seen, StandingNow, AccessNow, Active

\* One account changes, and all its sessions go.
LEMMA ChangeSeen ==
    ASSUME TypeOK, TypeOK', NEW a \in People,
           \A b \in People \ {a} : users'[b] = users[b],
           \A t \in Tokens : sessions'[t] = IF t \in SessionsOf(a) THEN None ELSE sessions[t]
    PROVE  Promise!Change(a)
<1> DEFINE s == IF Active(a)' THEN Security(users'[a]) ELSE None
<1>1. s \in Proofs \union {None}
  BY DEF TypeOK, Active, Security, Proofs, User
<1>2. StandingNow' = [StandingNow EXCEPT ![a] = s]
  BY DEF StandingNow, Active
<1>3. ASSUME NEW t \in Tokens
      PROVE  AccessNow'[t] = IF t \in Promise!Holders(a) THEN None ELSE AccessNow[t]
  <2>1. CASE t \in SessionsOf(a)
    <3>1. AccessNow'[t] = None
      BY <2>1 DEF AccessNow
    <3>2. AccessNow[t] # None => AccessNow[t].user = a
      BY <2>1 DEF AccessNow, SessionsOf
    <3> QED
      BY <3>1, <3>2 DEF Promise!Holders
  <2>2. CASE t \notin SessionsOf(a)
    <3>1. AccessNow'[t] = AccessNow[t]
      BY <2>2 DEF AccessNow
    <3>2. AccessNow[t] # None => AccessNow[t].user # a
      BY <2>2 DEF AccessNow, SessionsOf
    <3> QED
      BY <3>1, <3>2 DEF Promise!Holders
  <2> QED
    BY <2>1, <2>2
<1>4. AccessNow' = [t \in Tokens |-> IF t \in Promise!Holders(a) THEN None ELSE AccessNow[t]]
  BY <1>3 DEF AccessNow
<1> HIDE DEF s
<1> QED
  BY <1>1, <1>2, <1>4 DEF Promise!Change

\* UPDATE changes the account and ends its sessions, or nothing that is watched.
LEMMA UpdateSeen ==
    ASSUME TypeOK, TypeOK', NEW a \in Known, NEW u \in User, Update(a, u)
    PROVE  Promise!Change(a) \/ UNCHANGED Seen
<1>1. a \in People
  BY KnownRows
<1>2. users'[a] = u /\ \A b \in People \ {a} : users'[b] = users[b]
  BY <1>1 DEF Update, TypeOK
<1>3. CASE Watched(u) = Watched(users[a])
  <2>1. sessions' = sessions
    BY <1>3 DEF Update, Revoke, Without, TypeOK
  <2>2. u.enabled = users[a].enabled /\ Security(u) = Security(users[a])
    BY <1>3 DEF Watched
  <2>3. u # None /\ users[a] # None
    BY NoneAssumption DEF Known
  <2>4. StandingNow' = StandingNow
    BY <1>2, <2>2, <2>3 DEF StandingNow, Active
  <2> QED
    BY <2>1, <2>4 DEF Seen, AccessNow
<1>4. CASE Watched(u) # Watched(users[a])
  <2>1. \A t \in Tokens : sessions'[t] = IF t \in SessionsOf(a) THEN None ELSE sessions[t]
    BY <1>4 DEF Update, Revoke, Without
  <2> QED
    BY <1>1, <1>2, <2>1, ChangeSeen
<1> QED
  BY <1>3, <1>4

\* A new account had no sessions.
LEMMA InsertSeen ==
    ASSUME AccountInv, TypeOK', NEW a \in People, NEW r \in Roles, NEW m \in BOOLEAN,
           Insert(a, r, m)
    PROVE  Promise!Change(a)
<1>1. TypeOK
  BY DEF AccountInv
<1>2. \A b \in People \ {a} : users'[b] = users[b]
  BY <1>1, InsertTypes
<1>3. users[a] = None /\ sessions' = sessions
  BY DEF Insert
<1>4. \A t \in Tokens : t \notin SessionsOf(a)
  BY <1>3 DEF AccountInv, SessionsCurrent, SessionsOf
<1> QED
  BY <1>1, <1>2, <1>3, <1>4, ChangeSeen

\* Sessions that go, or run out of time, end access.
LEMMA EndSeen ==
    ASSUME users' = users,
           \A t \in Tokens :
               \/ sessions'[t] = sessions[t]
               \/ sessions'[t] = None \/ ~sessions'[t].live
    PROVE  Promise!End
<1> DEFINE T == {t \in Tokens : sessions'[t] # sessions[t]}
<1>1. StandingNow' = StandingNow
  BY DEF StandingNow, Active
<1>2. AccessNow' = [t \in Tokens |-> IF t \in T THEN None ELSE AccessNow[t]]
  BY DEF AccessNow
<1>3. T \in SUBSET Tokens
  OBVIOUS
<1> HIDE DEF T
<1> QED
  BY <1>1, <1>2, <1>3 DEF Promise!End

LEMMA CreateSessionSeen ==
    ASSUME AccountInv, NEW w \in Workers, CreateSession(w)
    PROVE  \E t \in Tokens, a \in People : Promise!Admit(t, a)
<1> DEFINE a == who[w]
<1>1. PICK t \in Tokens \ drawn :
          sessions' = [sessions EXCEPT ![t] =
                           [user |-> a, live |-> TRUE, proof |-> Security(row[w])]]
  BY DEF CreateSession, NewSession
<1>2. TypeOK
  BY DEF AccountInv
<1>3. a \in People /\ users[a] \in User /\ Active(a)
  BY <1>2, NoneAssumption DEF CreateSession, TypeOK, Known
<1>4. Security(row[w]) = Security(users[a]) /\ users' = users
  BY DEF CreateSession
<1>5. StandingNow[a] = Security(row[w]) /\ StandingNow' = StandingNow
  BY <1>3, <1>4 DEF StandingNow, Active
<1>6. Security(users[a]) \in Proofs
  BY <1>3 DEF Security, Proofs, User
<1>7. StandingNow[a] # None
  BY <1>4, <1>5, <1>6, NoneAssumption
<1>8. sessions[t] = None
  BY <1>2 DEF TypeOK
<1>9. AccessNow[t] = None
  BY <1>8 DEF AccessNow
<1>10. sessions'[t] = [user |-> a, live |-> TRUE, proof |-> Security(row[w])]
  BY <1>1, <1>2 DEF TypeOK
<1>11. [user |-> a, live |-> TRUE, proof |-> Security(row[w])] \in Session
  BY <1>3, <1>4, <1>6 DEF Session
<1>12. sessions'[t] # None
  BY <1>10, <1>11, NoneAssumption
<1>13. AccessNow'[t] = [user |-> a, proof |-> Security(row[w])]
  BY <1>10, <1>12 DEF AccessNow
<1>14. \A s \in Tokens \ {t} : AccessNow'[s] = AccessNow[s]
  BY <1>1, <1>2 DEF AccessNow, TypeOK
<1>15. AccessNow' = [AccessNow EXCEPT ![t] = [user |-> a, proof |-> Security(row[w])]]
  BY <1>13, <1>14 DEF AccessNow
<1>16. Promise!Grant(a) = [user |-> a, proof |-> Security(row[w])]
  BY <1>5 DEF Promise!Grant
<1>17. Promise!Admit(t, a)
  BY <1>5, <1>7, <1>9, <1>15, <1>16 DEF Promise!Admit
<1> QED
  BY <1>3, <1>17


LEMMA HandleSeen ==
    ASSUME AccountInv, AccountInv', NEW w \in Workers, Handle(w)
    PROVE  Promise!Next \/ UNCHANGED Seen
<1> USE DEF runtime, tables
<1>0. TypeOK /\ TypeOK'
  BY DEF AccountInv
<1>1. CASE Fail(w) \/ SignIn(w) \/ SaveSettings(w) \/ ReadCurrent(w) \/ Renew(w)
  <2>1. users' = users /\ sessions' = sessions
    BY <1>1 DEF Fail, SignIn, SaveSettings, ReadCurrent, Renew
  <2> QED
    BY <2>1, SeenSame
<1>2. CASE \E t \in Tokens : BeginManage(w, t) \/ BeginChange(w, t)
  <2>1. users' = users /\ sessions' = sessions
    BY <1>2 DEF BeginManage, BeginChange, Begin
  <2> QED
    BY <2>1, SeenSame
<1>3. CASE CreateSession(w)
  BY <1>3, CreateSessionSeen DEF Promise!Next
<1>4. CASE CreateUser(w)
  <2>1. PICK a \in People, r \in Roles, m \in BOOLEAN : Insert(a, r, m)
    BY <1>4 DEF CreateUser
  <2>2. Promise!Change(a)
    BY <1>0, <2>1, InsertSeen
  <2> QED
    BY <2>2 DEF Promise!Next
<1>5. ASSUME NEW a \in Known, NEW u \in User, Update(a, u)
      PROVE  Promise!Next \/ UNCHANGED Seen
  BY <1>0, <1>5, KnownRows, UpdateSeen DEF Promise!Next
<1>6. CASE UpdateUser(w)
  <2>1. PICK a \in Known, r \in Roles, e \in BOOLEAN :
            Update(a, [users[a] EXCEPT !.role = r, !.enabled = e])
    BY <1>6 DEF UpdateUser
  <2>2. [users[a] EXCEPT !.role = r, !.enabled = e] \in User
    BY <1>0, KnownRows DEF User
  <2> QED
    BY <1>5, <2>1, <2>2
<1>7. CASE DeleteUser(w)
  <2>1. PICK a \in Known : /\ users' = [users EXCEPT ![a] = Tombstone(a)]
                           /\ sessions' = Without(SessionsOf(a))
    BY <1>7 DEF DeleteUser
  <2>2. a \in People
    BY <1>0, KnownRows
  <2>3. \A b \in People \ {a} : users'[b] = users[b]
    BY <1>0, <2>1 DEF TypeOK
  <2>4. \A t \in Tokens : sessions'[t] = IF t \in SessionsOf(a) THEN None ELSE sessions[t]
    BY <2>1 DEF Without
  <2>5. Promise!Change(a)
    BY <1>0, <2>2, <2>3, <2>4, ChangeSeen
  <2> QED
    BY <2>2, <2>5 DEF Promise!Next
<1>8. CASE ResetPassword(w)
  <2>1. PICK a \in Known, m \in BOOLEAN :
            Update(a, [users[a] EXCEPT !.hash = Fresh, !.must = m])
    BY <1>8 DEF ResetPassword
  <2>2. Fresh \in Hashes
    BY <1>0, <1>8, NewHash DEF ResetPassword
  <2>3. [users[a] EXCEPT !.hash = Fresh, !.must = m] \in User
    BY <1>0, <2>2, KnownRows DEF User
  <2> QED
    BY <1>5, <2>1, <2>3
<1>9. CASE Swap(w)
  <2>1. who[w] \in Known
    BY <1>0, <1>9 DEF Swap, TypeOK
  <2>2. Fresh \in Hashes
    BY <1>0, <1>9, NewHash DEF Swap, Replace
  <2>3. [users[who[w]] EXCEPT !.hash = Fresh, !.must = FALSE] \in User
    BY <1>0, <2>1, <2>2, KnownRows DEF User
  <2>4. Update(who[w], [users[who[w]] EXCEPT !.hash = Fresh, !.must = FALSE])
    BY <1>9 DEF Swap, Replace
  <2> QED
    BY <1>5, <2>1, <2>3, <2>4
<1> QED
  BY <1>1, <1>2, <1>3, <1>4, <1>6, <1>7, <1>8, <1>9 DEF Handle, Manage

LEMMA StepSeen ==
    ASSUME AccountInv, AccountInv', [Next]_vars
    PROVE  [Promise!Next]_Seen
<1> USE DEF runtime, tables
<1>0. TypeOK /\ TypeOK'
  BY DEF AccountInv
<1>1. CASE UNCHANGED vars
  BY <1>1, SeenSame DEF vars
<1>2. CASE CreateFirst
  <2>1. PICK a \in People : Insert(a, "admin", FALSE)
    BY <1>2 DEF CreateFirst
  <2>2. Promise!Change(a)
    BY <1>0, <2>1, InsertSeen DEF Roles
  <2> QED
    BY <2>2 DEF Promise!Next
<1>3. CASE LoadSettings \/ ServeKnown \/ StartFails \/ Crash
  <2>1. users' = users /\ sessions' = sessions
    BY <1>3 DEF LoadSettings, ServeKnown, StartFails, Crash
  <2> QED
    BY <2>1, SeenSame
<1>4. CASE Purge \/ \E t \in Tokens : Logout(t) \/ Expire(t)
  <2>1. users' = users
    BY <1>4 DEF Purge, Logout, Expire
  <2>2. \A t \in Tokens :
            \/ sessions'[t] = sessions[t]
            \/ sessions'[t] = None \/ ~sessions'[t].live
    <3>1. CASE Purge
      BY <3>1 DEF Purge, Without
    <3>2. CASE \E t \in Tokens : Logout(t)
      BY <3>2 DEF Logout, Without
    <3>3. ASSUME NEW t \in Tokens, Expire(t)
          PROVE  \A s \in Tokens : sessions'[s] = sessions[s] \/ ~sessions'[s].live
      <4>1. sessions[t] \in Session
        BY <1>0, <3>3 DEF Expire, TypeOK
      <4>2. sessions' = [sessions EXCEPT ![t] = [sessions[t] EXCEPT !.live = FALSE]]
        BY <3>3 DEF Expire
      <4> QED
        BY <1>0, <4>1, <4>2 DEF TypeOK, Session
    <3> QED
      BY <1>4, <3>1, <3>2, <3>3
  <2> QED
    BY <2>1, <2>2, EndSeen DEF Promise!Next
<1>5. CASE \E w \in Workers : Handle(w)
  BY <1>5, HandleSeen
<1> QED
  BY <1>1, <1>2, <1>3, <1>4, <1>5 DEF Next, Start

\* Accounts keeps the promise of Standing: a change of an account and the end of its
\* sessions are one step, and access is given for the present standing only.
THEOREM StandingRefined == Spec => RefinesStanding
<1>1. Init => Promise!Init
  BY DEF Init, Promise!Init, StandingNow, AccessNow, Active
<1>2. AccountInv /\ AccountInv' /\ [Next]_vars => [Promise!Next]_(Promise!vars)
  BY StepSeen DEF Promise!vars, Seen
<1> QED
  BY <1>1, <1>2, AccountInvariant, PTL DEF Spec, RefinesStanding, Promise!Safety
--------------------------------------------------------------------------------
(***************************************************************************)
(* What ZoneControl assumes of accounts: its EditUser gives one account    *)
(* another role or flag and leaves an enabled administrator.  Accounts     *)
(* does nothing else to them, once there is the first.                     *)
(***************************************************************************)

\* The columns of users that ZoneControl has; who is not there may do nothing.
Rights(a) ==
    IF users[a] = None THEN [role |-> "user", enabled |-> FALSE]
    ELSE [role |-> users[a].role, enabled |-> users[a].enabled]

RightsNow == [a \in People |-> Rights(a)]

\* A step writes one row of users, at most.
OneRow == \E a \in People : \A b \in People \ {a} : users'[b] = users[b]

LEMMA HandleWritesOneRow ==
    ASSUME TypeOK, NEW w \in Workers, Handle(w)
    PROVE  users' = users \/ OneRow
<1>1. ASSUME NEW a \in Known, NEW u, users' = [users EXCEPT ![a] = u]
      PROVE  OneRow
  BY <1>1 DEF OneRow, Known, TypeOK
<1>2. CASE \/ Fail(w) \/ SignIn(w) \/ CreateSession(w) \/ SaveSettings(w)
           \/ ReadCurrent(w) \/ Renew(w)
           \/ \E t \in Tokens : BeginManage(w, t) \/ BeginChange(w, t)
  BY <1>2 DEF Fail, SignIn, CreateSession, SaveSettings, ReadCurrent, Renew, BeginManage,
              BeginChange, Begin, tables
<1>3. CASE CreateUser(w)
  BY <1>3, InsertTypes DEF CreateUser, OneRow
<1>4. CASE UpdateUser(w) \/ DeleteUser(w) \/ ResetPassword(w)
  <2>1. \E a \in Known : \E u : users' = [users EXCEPT ![a] = u]
    BY <1>4 DEF UpdateUser, DeleteUser, ResetPassword, Update
  <2> QED
    BY <1>1, <2>1
<1>5. CASE Swap(w)
  <2>1. who[w] \in Known
    BY <1>5 DEF Swap, TypeOK
  <2>2. \E u : users' = [users EXCEPT ![who[w]] = u]
    BY <1>5 DEF Swap, Replace, Update
  <2> QED
    BY <1>1, <2>1, <2>2
<1> QED
  BY <1>2, <1>3, <1>4, <1>5 DEF Handle, Manage

LEMMA WritesOneRow ==
    ASSUME TypeOK, Known # {}, [Next]_vars
    PROVE  /\ users' = users \/ OneRow
           /\ Known \subseteq Known'
<1>1. CASE Start
  <2>1. users' = users
    BY <1>1 DEF Start, LoadSettings, CreateFirst, ServeKnown, StartFails, tables
  <2> QED
    BY <2>1 DEF Known
<1>2. CASE Crash \/ Purge \/ (\E t \in Tokens : Logout(t) \/ Expire(t)) \/ UNCHANGED vars
  <2>1. users' = users
    BY <1>2 DEF Crash, Purge, Logout, Expire, tables, vars
  <2> QED
    BY <2>1 DEF Known
<1>3. CASE \E w \in Workers : Handle(w)
  BY <1>3, HandleWritesOneRow, HandleSteps DEF UserStep
<1> QED
  BY <1>1, <1>2, <1>3 DEF Next

EditOfZones ==
    \E a \in People, account \in [role : Roles, enabled : BOOLEAN] :
        /\ RightsNow' = [RightsNow EXCEPT ![a] = account]
        /\ \E x \in People : RightsNow'[x] = [role |-> "admin", enabled |-> TRUE]

\* Once there are accounts, a step changes the role and the flag of one of them at
\* most, and leaves an enabled administrator: it is EditUser of ZoneControl.
THEOREM EditsAsZonesAssume == Spec => [][Known # {} => EditOfZones]_users
<1>1. ASSUME AccountInv, AccountInv', [Next]_vars, users' # users, Known # {}
      PROVE  EditOfZones
  <2>1. PICK a \in People : \A b \in People \ {a} : users'[b] = users[b]
    BY <1>1, WritesOneRow DEF AccountInv, OneRow
  <2>2. Rights(a)' \in [role : Roles, enabled : BOOLEAN]
    <3>1. users'[a] \in User \union {None}
      BY <1>1 DEF AccountInv, TypeOK
    <3> QED
      BY <3>1 DEF Rights, User, Roles
  <2>3. \A b \in People \ {a} : Rights(b)' = Rights(b)
    BY <2>1 DEF Rights
  <2>4. RightsNow' = [RightsNow EXCEPT ![a] = Rights(a)']
    BY <2>3 DEF RightsNow
  <2>5. Admins' # {}
    <3>1. Known' # {}
      BY <1>1, WritesOneRow DEF AccountInv
    <3> QED
      BY <1>1, <3>1 DEF AccountInv, AdminsKept
  <2>6. PICK x \in Known' : users'[x].role = "admin" /\ users'[x].enabled
    BY <2>5 DEF Admins
  <2>7. x \in People /\ Rights(x)' = [role |-> "admin", enabled |-> TRUE]
    <3>1. x \in People /\ users'[x] # None
      BY DEF Known
    <3>2. users'[x] \in User
      BY <1>1, <3>1 DEF AccountInv, TypeOK
    <3>3. users'[x].enabled = TRUE
      BY <2>6, <3>2 DEF User
    <3> QED
      BY <2>6, <3>1, <3>3 DEF Rights
  <2>8. RightsNow'[x] = [role |-> "admin", enabled |-> TRUE]
    BY <2>7 DEF RightsNow
  <2> QED
    BY <2>2, <2>4, <2>7, <2>8 DEF EditOfZones
<1>2. AccountInv /\ AccountInv' /\ [Next]_vars => [Known # {} => EditOfZones]_users
  BY <1>1
<1> QED
  BY <1>2, AccountInvariant, PTL DEF Spec
================================================================================
