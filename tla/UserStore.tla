------------------------------ MODULE UserStore ------------------------------
(***************************************************************************)
(* Local password logins (src/src/users.rs, and the part of POST /login in  *)
(* src/src/handlers.rs that waits for them).  The server loads its users    *)
(* from users.json, or opens a SQLite table; a login waits for a permit, in *)
(* the order of arrival; a blocking task then looks the user up and         *)
(* verifies the password.  Operators edit the users meanwhile, browsers go  *)
(* away, and the server is stopped and started.                             *)
(***************************************************************************)
EXTENDS Integers, SequencesExt

CONSTANTS
  Tables,             \* the sets of users an operator may write
  Names, Passwords,   \* what browsers send
  Requests,           \* logins in progress
  Limit,              \* password_verification_limit()
  None,               \* a blank or absent setting; no user
  Failed              \* the verdict that is an internal error

VARIABLES
  provider,  \* "file" or "sqlite"
  table,     \* the users as the operator has written them
  users,     \* the users a "file" server has loaded
  up,        \* the server is running
  permits,   \* permits left in the semaphore
  queue,     \* the semaphore's waiters
  logins,    \* where each login is
  truths     \* history: the verdicts right at some time since the permit

server == <<provider, users, up>>
vars == <<server, table, permits, queue, logins, truths>>

-----------------------------------------------------------------------------
(* A user: of users.json (where all are enabled) or a row of the table.  A  *)
(* hash has a scheme, "argon2id", "sha256" or another, and a password.      *)
Attributes == {"id", "username", "enabled", "password_hash", "password_plain"}

Ids == {u.id : u \in UNION Tables}

ASSUME ParametersAreWellFormed ==
  /\ Limit \in Nat \ {0}
  /\ \A u \in UNION Tables : DOMAIN u = Attributes /\ u.enabled \in BOOLEAN
  /\ Failed \notin Ids \cup {None}
  /\ None \notin UNION Tables

ASSUME RequestsAreFinite == IsFiniteSet(Requests)

(* file_user_credential and parse_legacy_sha256_hash: one of hash and plain *)
(* password, and a hash of a scheme that is supported.                      *)
HasFileCredential(u) ==
  IF u.password_hash = None THEN u.password_plain # None
  ELSE u.password_plain = None /\ u.password_hash.scheme \in {"argon2id", "sha256"}

(* sqlite_user, which every row goes through when it is read: only Argon2id *)
(* is accepted here.                                                        *)
WellFormed(u) ==
  /\ None \notin {u.id, u.username}
  /\ u.password_hash # None /\ u.password_hash.scheme = "argon2id"

KeysAreUnique(S) ==
  \A u, v \in S : u.id = v.id \/ u.username = v.username => u = v

(* build_file_users *)
FileUsersLoad(S) ==
  /\ S # {}
  /\ \A u \in S : None \notin {u.id, u.username} /\ HasFileCredential(u)
  /\ KeysAreUnique(S)

(* validate_sqlite_users: disabled rows must be well-formed too. *)
SqliteUsersLoad(S) ==
  /\ \A u \in S : WellFormed(u)
  /\ \E u \in S : u.enabled

(* What an operator can write: users.json has no disabled users, and the    *)
(* schema of the table has its constraints.                                 *)
Writable(S) ==
  IF provider = "file" THEN \A u \in S : u.enabled
  ELSE KeysAreUnique(S) /\ \A u \in S : u.password_hash # None /\ u.password_plain = None

Loads(S) == IF provider = "file" THEN FileUsersLoad(S) ELSE SqliteUsersLoad(S)

(* Where the running server looks its users up. *)
Source == IF provider = "file" THEN users ELSE table

(* verify_password *)
HasPassword(u, password) ==
  password = IF u.password_hash = None THEN u.password_plain
             ELSE u.password_hash.password

-----------------------------------------------------------------------------
Idle == [phase |-> "idle"]

Verdict == Ids \cup {None, Failed}

(* A user that was found is None without one (a dummy credential is        *)
(* verified then, and nobody let in).                                       *)
Login ==
  {Idle}
  \cup [phase : {"waiting", "granted"}, user : Names, password : Passwords]
  \cup [phase : {"looking_up"}, user : Names, password : Passwords,
        connected : BOOLEAN]
  \cup [phase : {"verifying"}, user : Names, password : Passwords,
        found : (UNION Tables) \cup {None}, connected : BOOLEAN]
  \cup [phase : {"answered"}, user : Names, password : Passwords,
        verdict : Verdict]

TypeOK ==
  /\ provider \in {"file", "sqlite"}
  /\ table \in Tables
  /\ users \in Tables \cup {{}}
  /\ up \in BOOLEAN
  /\ permits \in 0 .. Limit
  /\ queue \in Seq(Requests)
  /\ logins \in [Requests -> Login]
  /\ truths \in [Requests -> SUBSET Verdict]

Init ==
  /\ provider \in {"file", "sqlite"}
  /\ table \in Tables /\ Writable(table)
  /\ users = {}
  /\ up = FALSE
  /\ permits = Limit
  /\ queue = <<>>
  /\ logins = [r \in Requests |-> Idle]
  /\ truths = [r \in Requests |-> {}]

-----------------------------------------------------------------------------
In(r, phase) == logins[r].phase = phase

Asked(r, phase) ==
  [phase |-> phase, user |-> logins[r].user, password |-> logins[r].password]

Running(r) == logins[r].phase \in {"granted", "looking_up", "verifying"}

Known(u, name) == u.enabled /\ u.username = name

(* The user of S a name stands for. *)
Find(S, name) ==
  IF \A v \in S : ~Known(v, name) THEN None ELSE CHOOSE v \in S : Known(v, name)

(* What a login deserves when the users are those of S. *)
Right(S, login) ==
  LET u == Find(S, login.user) IN
  IF u = None THEN None
  ELSE IF provider = "sqlite" /\ ~WellFormed(u) THEN Failed
  ELSE IF HasPassword(u, login.password) THEN u.id
  ELSE None

(* A waiter that gets the permit starts with the verdict of this moment. *)
Handover(next, states) ==
  /\ logins' = [states EXCEPT ![next] = Asked(next, "granted")]
  /\ truths' = [truths EXCEPT ![next] = {Right(Source, logins[next])}]

(* Seeded fault: a permit that comes back does not wake the next waiter. *)
ReleaseSilently(states) ==
  /\ permits' = permits + 1
  /\ logins' = states
  /\ UNCHANGED <<queue, truths>>

(* Seeded fault: the waiter gets the permit, and it is counted free again. *)
ReleaseTwice(states) ==
  IF queue = <<>>
  THEN /\ permits' = permits + 1
       /\ logins' = states
       /\ UNCHANGED <<queue, truths>>
  ELSE /\ Handover(Head(queue), states)
       /\ queue' = Tail(queue)
       /\ permits' = permits + 1

(* A permit that comes back goes to the first waiter. *)
Release(states) ==
  IF queue = <<>>
  THEN /\ permits' = permits + 1
       /\ logins' = states
       /\ UNCHANGED <<queue, truths>>
  ELSE /\ Handover(Head(queue), states)
       /\ queue' = Tail(queue)
       /\ UNCHANGED permits

-----------------------------------------------------------------------------
(* POST /login: acquire_owned. *)
Submit(r, user, password) ==
  LET login(phase) == [phase |-> phase, user |-> user, password |-> password] IN
  /\ up /\ In(r, "idle")
  /\ IF permits > 0
     THEN /\ permits' = permits - 1
          /\ logins' = [logins EXCEPT ![r] = login("granted")]
          /\ truths' = [truths EXCEPT ![r] = {Right(Source, login("granted"))}]
          /\ UNCHANGED queue
     ELSE /\ queue' = Append(queue, r)
          /\ logins' = [logins EXCEPT ![r] = login("waiting")]
          /\ UNCHANGED <<permits, truths>>
  /\ UNCHANGED <<server, table>>

(* The handler is polled with its permit and spawns its task. *)
Spawn(r) ==
  /\ In(r, "granted")
  /\ logins' = [logins EXCEPT ![r] =
       [phase |-> "looking_up", user |-> logins[r].user,
        password |-> logins[r].password, connected |-> TRUE]]
  /\ UNCHANGED <<server, table, permits, queue, truths>>

(* Seeded fault: a disabled user is found too. *)
FindUser(name) ==
  IF \A v \in Source : v.username # name THEN None
  ELSE CHOOSE v \in Source : v.username = name

(* find_enabled_user, or the map of a "file" server. *)
FindEnabledUser(name) == Find(Source, name)

(* The login is over: answered, if its browser is there; the permit comes   *)
(* back.                                                                    *)
Answer(r, verdict) ==
  LET login == logins[r] IN
  Release([logins EXCEPT ![r] =
    IF login.connected
    THEN [phase |-> "answered", user |-> login.user, password |-> login.password,
          verdict |-> verdict]
    ELSE Idle])

(* authenticate_blocking: a row of the table may have become malformed.     *)
LookUp(r) ==
  LET login == logins[r]
      found == FindEnabledUser(login.user)
  IN
  /\ In(r, "looking_up")
  /\ IF provider = "sqlite" /\ found # None /\ ~WellFormed(found)
     THEN Answer(r, Failed)
     ELSE /\ logins' = [logins EXCEPT ![r] =
               [phase |-> "verifying", user |-> login.user,
                password |-> login.password, found |-> found,
                connected |-> login.connected]]
          /\ UNCHANGED <<permits, queue, truths>>
  /\ UNCHANGED <<server, table>>

(* The verdict is about what was found. *)
Verify(r) ==
  LET login == logins[r] IN
  /\ In(r, "verifying")
  /\ Answer(r, IF login.found # None /\ HasPassword(login.found, login.password)
               THEN login.found.id ELSE None)
  /\ UNCHANGED <<server, table>>

(* The answer was sent. *)
Done(r) ==
  /\ In(r, "answered")
  /\ logins' = [logins EXCEPT ![r] = Idle]
  /\ UNCHANGED <<server, table, permits, queue, truths>>

(* The browser goes away.  A waiter leaves the queue, an unused permit goes *)
(* on to the next waiter, a task that was started runs to its end.          *)
Disconnect(r) ==
  /\ \/ /\ In(r, "waiting")
        /\ \E i \in DOMAIN queue : queue[i] = r /\ queue' = RemoveAt(queue, i)
        /\ logins' = [logins EXCEPT ![r] = Idle]
        /\ UNCHANGED <<permits, truths>>
     \/ /\ In(r, "granted")
        /\ Release([logins EXCEPT ![r] = Idle])
     \/ /\ logins[r].phase \in {"looking_up", "verifying"}
        /\ logins[r].connected
        /\ logins' = [logins EXCEPT ![r].connected = FALSE]
        /\ UNCHANGED <<permits, queue, truths>>
  /\ UNCHANGED <<server, table>>

-----------------------------------------------------------------------------
(* An operator edits the users; a "file" server does not notice. *)
EditUsers(edited) ==
  /\ edited # table /\ Writable(edited)
  /\ table' = edited
  /\ truths' = [r \in Requests |->
       IF Running(r) /\ provider = "sqlite"
       THEN truths[r] \cup {Right(edited, logins[r])} ELSE truths[r]]
  /\ UNCHANGED <<server, permits, queue, logins>>

(* UserStore::load; a server that does not load its users does not start. *)
Start ==
  /\ ~up
  /\ Loads(table)
  /\ up' = TRUE
  /\ users' = IF provider = "file" THEN table ELSE {}
  /\ UNCHANGED <<provider, table, permits, queue, logins, truths>>

(* The process ends, and all logins with it. *)
Stop ==
  /\ up
  /\ up' = FALSE
  /\ users' = {}
  /\ permits' = Limit
  /\ queue' = <<>>
  /\ logins' = [r \in Requests |-> Idle]
  /\ truths' = [r \in Requests |-> {}]
  /\ UNCHANGED <<provider, table>>

Step(r) == Spawn(r) \/ LookUp(r) \/ Verify(r)

Next ==
  \/ \E r \in Requests :
       \/ Step(r) \/ Done(r) \/ Disconnect(r)
       \/ \E user \in Names, password \in Passwords : Submit(r, user, password)
  \/ \E edited \in Tables : EditUsers(edited)
  \/ Start \/ Stop

Spec == Init /\ [][Next]_vars

(* The runtime polls a handler that has its permit, and blocking tasks end. *)
FairSpec == Spec /\ \A r \in Requests : WF_vars(Step(r))

-----------------------------------------------------------------------------
(* Every permit is free or with a login that runs, also after browsers left *)
(* the queue, left with a permit they had not used, or left a running task. *)
PermitsBalanced ==
  permits + Cardinality({r \in Requests : Running(r)}) = Limit

(* No wake-up is lost: a login waits only while all permits are in use, and *)
(* the queue holds just those that wait.                                    *)
WaitsOnlyWhenBusy ==
  /\ \A r \in Requests : In(r, "waiting") => permits = 0
  /\ {queue[i] : i \in DOMAIN queue} = {r \in Requests : In(r, "waiting")}

(* A login is answered as the users were at some time after it got its      *)
(* permit, with their id or an error: what happened while it waited, a      *)
(* disabled account, a changed password, a broken row, counts; but a server *)
(* with users.json answers from what it loaded.                             *)
VerdictIsRecent ==
  \A r \in Requests : In(r, "answered") => logins[r].verdict \in truths[r]

(* Every login that waits is answered, unless its browser goes away. *)
EveryLoginIsAnswered ==
  \A r \in Requests :
    In(r, "waiting") ~> (In(r, "answered") \/ In(r, "idle"))
=============================================================================
