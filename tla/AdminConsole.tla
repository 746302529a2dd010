----------------------------- MODULE AdminConsole -----------------------------
(***************************************************************************)
(* The administrator console (src/src/admin_console/mod.rs) on top of the   *)
(* administrator database (src/src/admins.rs).                              *)
(*                                                                         *)
(* A handler looks its session up, awaits a blocking database or Argon2     *)
(* task, and goes on with what it knew before.  Requests of several         *)
(* browsers and tabs interleave at those awaits, their connections may drop *)
(* there (the handler is then gone, its blocking task is not), replies      *)
(* arrive in any order, operators create and disable accounts, and the      *)
(* server restarts.                                                         *)
(***************************************************************************)
EXTENDS ExpiringMap, Sequences, FiniteSets

CONSTANTS
  Admins, Passwords,       \* administrator ids, plain-text passwords
  Tokens,                  \* random session tokens
  Browsers, Requests,      \* browsers; HTTP requests in progress
  None,                    \* an absent administrator, cookie or form
  Keep,                    \* a reply without a Set-Cookie header
  AdminTtl, PreAuthTtl,    \* 3600 and 600 seconds in the code
  MaxSessions,             \* 4096 in the code
  MaxAttempts, Window,     \* 30 attempts in 60 seconds in the code
  Verifications,           \* 2 concurrent Argon2 tasks in the code
  MaxTime, MaxRestarts,    \* bounds on the clock and on restarts
  MaxVersion               \* bound on password changes

ASSUME LimitsArePositive ==
  /\ {AdminTtl, PreAuthTtl, MaxTime, MaxRestarts} \subseteq Nat
  /\ {MaxSessions, MaxAttempts, Window, Verifications, MaxVersion}
       \subseteq Nat \ {0}
  /\ {None, Keep} \cap (Admins \cup Tokens) = {} /\ None # Keep

ASSUME RequestsAreFinite == IsFiniteSet(Requests)

VARIABLES
  clock,      \* Instant::now()
  admins,     \* the table in SQLite: id -> [enabled, password, version]
  sessions,   \* token -> [admin_id, version, expires_at]
  attempts,   \* instants of recent password attempts
  permits,    \* permits left in the verification semaphore
  requests,   \* requests in progress
  cookies,    \* the pocket_oid_admin cookie of each browser
  forms,      \* csrf values in the forms open in each browser
  restarts,
  drawn,      \* tokens drawn so far: random_token() repeats none
  verified,   \* history: what each administrator session was created from
  starts      \* history: when each Argon2 task was started

server == <<sessions, attempts, permits>>
browser == <<cookies, forms>>
history == <<drawn, verified, starts>>
vars == <<clock, admins, server, requests, browser, restarts, history>>

-----------------------------------------------------------------------------
(* A session's csrf value is drawn with its token and belongs to it alone,  *)
(* so a form is named by the token of the session it was rendered for.      *)
Session == [admin_id : Admins \cup {None}, version : Nat, expires_at : Nat]

Admin == [enabled : BOOLEAN, password : Passwords, version : Nat]

Idle == [stage |-> "idle"]

Login == [admin : Admins, version : Nat, password : Passwords, at : Nat]

(* The stages of a request: what it holds there is all it knows. *)
RequestStates ==
  {Idle}
  \cup [stage : {"page"}, browser : Browsers, token : Tokens \cup {None},
        admin : Admins \cup {None}, version : Nat]
  \cup [stage : {"verifying"}, browser : Browsers, token : Tokens,
        admin : Admins, password : Passwords, connected : BOOLEAN]
  \cup [stage : {"verified"}, browser : Browsers, token : Tokens,
        admin : Admins, password : Passwords, version : Nat]
  \cup [stage : {"authorizing", "authorized"}, purpose : {"view", "change"},
        browser : Browsers, token : Tokens, admin : Admins, version : Nat,
        at : Nat, form : Tokens \cup {None}]
  \cup [stage : {"reading"}, browser : Browsers, admin : Admins,
        current : Passwords, new : Passwords, connected : BOOLEAN]
  \cup [stage : {"hashing"}, browser : Browsers, admin : Admins,
        current : Passwords, new : Passwords, version : Nat,
        connected : BOOLEAN]
  \cup [stage : {"changed"}, browser : Browsers, admin : Admins]
  \cup [stage : {"reply"}, browser : Browsers,
        cookie : Tokens \cup {None, Keep}, form : Tokens \cup {None}]

TypeOK ==
  /\ clock \in Nat
  /\ IsTable(admins, Admins, Admin)
  /\ IsTable(sessions, Tokens, Session)
  /\ attempts \in Seq(Nat)
  /\ permits \in 0 .. Verifications
  /\ requests \in [Requests -> RequestStates]
  /\ cookies \in [Browsers -> Tokens \cup {None}]
  /\ forms \in [Browsers -> SUBSET Tokens]
  /\ restarts \in Nat
  /\ drawn \subseteq Tokens
  /\ IsTable(verified, Tokens, Login)
  /\ starts \in Seq(Nat)

Init ==
  /\ clock = 0
  /\ admins = NoEntries
  /\ sessions = NoEntries
  /\ attempts = <<>>
  /\ permits = Verifications
  /\ requests = [r \in Requests |-> Idle]
  /\ cookies = [b \in Browsers |-> None]
  /\ forms = [b \in Browsers |-> {}]
  /\ restarts = 0
  /\ drawn = {}
  /\ verified = NoEntries
  /\ starts = <<>>

-----------------------------------------------------------------------------
At(r, stage) == requests[r].stage = stage

Goto(r, state) == requests' = [requests EXCEPT ![r] = state]

End(r) == Goto(r, Idle)

(* The handler is done; its reply sets the cookie, deletes it (None) or      *)
(* leaves it alone (Keep), and shows the form of a session (or None).       *)
Reply(b, cookie, form) ==
  [stage |-> "reply", browser |-> b, cookie |-> cookie, form |-> form]

Unused == Tokens \ drawn

(* The account is there and enabled, with the version the session has. *)
Enabled(id) == id \in DOMAIN admins /\ admins[id].enabled

(* Seeded fault: the version of the session is not compared. *)
AuthorizedAnyVersion(id, version) == Enabled(id)

Authorized(id, version) == Enabled(id) /\ admins[id].version = version

(* AdminConsole::session: nothing is purged when there is no cookie. *)
AfterLookup(token) == IF token = None THEN sessions ELSE Live(sessions, clock)

Found(token) == token \in DOMAIN Live(sessions, clock)

(* Seeded fault: the capacity is compared with <=. *)
HasRoomForOneMore == Cardinality(DOMAIN Live(sessions, clock)) <= MaxSessions

(* AdminConsole::new_session purges, then refuses beyond its capacity. *)
HasRoom == Cardinality(DOMAIN Live(sessions, clock)) < MaxSessions

NewSession(token, admin, version) ==
  Put(Live(sessions, clock), token,
      [admin_id |-> admin, version |-> version,
       expires_at |-> clock + (IF admin = None THEN PreAuthTtl ELSE AdminTtl)])

(* Seeded fault: an attempt is forgotten one second early. *)
RecentShort(at) == at + Window > clock + 1

(* An attempt of the last Window seconds. *)
Recent(at) == at + Window > clock

(* Attempts are counted under a lock, so they are in their order, and those *)
(* that retain() keeps are the last ones, from the first that is recent.    *)
RecentAttempts ==
  LET first == CHOOSE i \in 1 .. Len(attempts) + 1 :
        /\ i \in DOMAIN attempts => Recent(attempts[i])
        /\ \A j \in 1 .. i - 1 : ~Recent(attempts[j])
  IN  SubSeq(attempts, first, Len(attempts))

Allowed == Len(RecentAttempts) < MaxAttempts

Attempt ==
  attempts' = IF Allowed THEN Append(RecentAttempts, clock) ELSE RecentAttempts

Holding(r) == requests[r].stage \in {"verifying", "reading", "hashing"}

-----------------------------------------------------------------------------
(* Outside the server. *)
Tick ==
  /\ clock < MaxTime
  /\ clock' = clock + 1
  /\ UNCHANGED <<admins, server, requests, browser, restarts, history>>

(* AdminStore::create, run by the command line in a process of its own. *)
Create(id, password) ==
  /\ id \notin DOMAIN admins
  /\ admins' = Put(admins, id, [enabled |-> TRUE, password |-> password,
                                version |-> 1])
  /\ UNCHANGED <<clock, server, requests, browser, restarts, history>>

(* An operator disables or enables an account in the database. *)
SetEnabled(id) ==
  /\ id \in DOMAIN admins
  /\ admins' = [admins EXCEPT ![id].enabled = ~@]
  /\ UNCHANGED <<clock, server, requests, browser, restarts, history>>

(* Everything in memory is lost; the database and the browsers are not. *)
Restart ==
  /\ restarts < MaxRestarts
  /\ restarts' = restarts + 1
  /\ sessions' = NoEntries
  /\ attempts' = <<>>
  /\ permits' = Verifications
  /\ requests' = [r \in Requests |-> Idle]
  /\ starts' = <<>>
  /\ UNCHANGED <<clock, admins, browser, drawn, verified>>

(* Seeded fault: dropping the handler gives its permit back although the    *)
(* blocking task goes on and gives it back again.                           *)
DisconnectReleases(r) ==
  /\ requests[r] # Idle
  /\ IF Holding(r)
     THEN /\ requests[r].connected
          /\ requests' = [requests EXCEPT ![r].connected = FALSE]
          /\ permits' = permits + 1
     ELSE End(r) /\ UNCHANGED permits
  /\ UNCHANGED <<clock, admins, sessions, attempts, browser, restarts, history>>

(* Seeded fault: the task of a dropped handler dies and keeps its permit. *)
DisconnectLeaks(r) ==
  /\ requests[r] # Idle
  /\ End(r)
  /\ UNCHANGED <<clock, admins, server, browser, restarts, history>>

(* The connection drops: the handler is dropped at its await, the blocking  *)
(* task it started goes on and keeps its permit until it ends.              *)
Disconnect(r) ==
  /\ requests[r] # Idle
  /\ IF Holding(r)
     THEN /\ requests[r].connected
          /\ requests' = [requests EXCEPT ![r].connected = FALSE]
     ELSE End(r)
  /\ UNCHANGED <<clock, admins, server, browser, restarts, history>>

-----------------------------------------------------------------------------
(* The reply arrives at the browser. *)
Receive(r) ==
  LET q == requests[r] IN
  /\ At(r, "reply")
  /\ cookies' = IF q.cookie = Keep THEN cookies
                ELSE [cookies EXCEPT ![q.browser] = q.cookie]
  /\ forms' = [forms EXCEPT ![q.browser] = @ \cup ({q.form} \ {None})]
  /\ End(r)
  /\ UNCHANGED <<clock, admins, server, restarts, history>>

-----------------------------------------------------------------------------
(* GET /admin/login, with the cookie the browser has now.  login_page looks *)
(* the session up to see whether an administrator is signed in.             *)
OpenLogin(r, b) ==
  LET token == cookies[b]
      found == Found(token) /\ sessions[token].admin_id # None
  IN
  /\ requests[r] = Idle
  /\ sessions' = AfterLookup(token)
  /\ Goto(r, [stage |-> "page", browser |-> b, token |-> token,
              admin |-> IF found THEN sessions[token].admin_id ELSE None,
              version |-> IF found THEN sessions[token].version ELSE 0])
  /\ UNCHANGED <<clock, admins, attempts, permits, browser, restarts, history>>

(* After the account check login_page redirects an administrator; otherwise *)
(* it looks the session up again, reuses a pre-auth session, or makes one.  *)
LoginPage(r) ==
  LET q         == requests[r]
      reuse     == Found(q.token) /\ sessions[q.token].admin_id = None
      signed_in == Authorized(q.admin, q.version)
  IN
  /\ At(r, "page")
  /\ \/ /\ signed_in
        /\ Goto(r, Reply(q.browser, Keep, None))
        /\ UNCHANGED <<sessions, drawn>>
     \/ /\ ~signed_in /\ reuse
        /\ sessions' = AfterLookup(q.token)
        /\ Goto(r, Reply(q.browser, Keep, q.token))
        /\ UNCHANGED drawn
     \/ /\ ~signed_in /\ ~reuse
        /\ IF HasRoom
           THEN \E new \in Unused :
                  /\ sessions' = NewSession(new, None, 0)
                  /\ drawn' = drawn \cup {new}
                  /\ Goto(r, Reply(q.browser, new, new))
           ELSE /\ sessions' = Live(sessions, clock)
                /\ Goto(r, Reply(q.browser, Keep, None))
                /\ UNCHANGED drawn
  /\ UNCHANGED <<clock, admins, attempts, permits, browser, restarts, verified,
                 starts>>

-----------------------------------------------------------------------------
(* POST /admin/login.  The form must be the one of the pre-auth session; an *)
(* attempt is counted even when no permit is left.                          *)
StartLogin(r, b, form, id, password) ==
  LET token == cookies[b] IN
  /\ requests[r] = Idle
  /\ form \in forms[b]
  /\ token # None
  /\ sessions' = Live(sessions, clock)
  /\ IF Found(token) /\ sessions[token].admin_id = None /\ form = token
     THEN /\ Attempt
          /\ IF permits > 0 /\ Allowed
             THEN /\ permits' = permits - 1
                  /\ starts' = Append(starts, clock)
                  /\ Goto(r, [stage |-> "verifying", browser |-> b,
                              token |-> token, admin |-> id,
                              password |-> password, connected |-> TRUE])
             ELSE UNCHANGED <<permits, requests, starts>>
     ELSE UNCHANGED <<attempts, permits, requests, starts>>
  /\ UNCHANGED <<clock, admins, browser, restarts, drawn, verified>>

(* AdminStore::authenticate: hash and version are read together.  What is   *)
(* verified later is what was read here.                                    *)
Authenticate(r) ==
  LET q   == requests[r]
      row == admins[q.admin]
  IN
  /\ At(r, "verifying")
  /\ permits' = permits + 1
  /\ IF /\ q.connected
        /\ Enabled(q.admin)
        /\ row.password = q.password
     THEN Goto(r, [stage |-> "verified", browser |-> q.browser,
                   token |-> q.token, admin |-> q.admin,
                   password |-> q.password, version |-> row.version])
     ELSE End(r)
  /\ UNCHANGED <<clock, admins, sessions, attempts, browser, restarts, history>>

(* The administrator's session replaces the browser's pre-auth session,     *)
(* which still counts while room is looked for.                             *)
FinishLogin(r) ==
  LET q == requests[r] IN
  /\ At(r, "verified")
  /\ IF HasRoom
     THEN \E new \in Unused :
            /\ sessions' = Drop(NewSession(new, q.admin, q.version), q.token)
            /\ drawn' = drawn \cup {new}
            /\ verified' = Put(verified, new,
                 [admin |-> q.admin, version |-> q.version,
                  password |-> q.password, at |-> clock])
            /\ Goto(r, Reply(q.browser, new, None))
     ELSE /\ sessions' = Live(sessions, clock)
          /\ Goto(r, Reply(q.browser, Keep, None))
          /\ UNCHANGED <<drawn, verified>>
  /\ UNCHANGED <<clock, admins, attempts, permits, browser, restarts, starts>>

-----------------------------------------------------------------------------
(* Every page behind the login: the session is looked up, the account is    *)
(* checked in a blocking task, and the page goes on with the session it     *)
(* found.  purpose is "view" for a page, "change" for POST /admin/password. *)
StartPage(r, b, purpose, form) ==
  LET token == cookies[b]
      s     == sessions[token]
  IN
  /\ requests[r] = Idle
  /\ token # None
  /\ sessions' = Live(sessions, clock)
  /\ IF Found(token) /\ s.admin_id # None
     THEN Goto(r, [stage |-> "authorizing", purpose |-> purpose, browser |-> b,
                   token |-> token, admin |-> s.admin_id, version |-> s.version,
                   at |-> clock, form |-> form])
     ELSE UNCHANGED requests
  /\ UNCHANGED <<clock, admins, attempts, permits, browser, restarts, history>>

(* authorized *)
Authorize(r) ==
  LET q == requests[r] IN
  /\ At(r, "authorizing")
  /\ IF Authorized(q.admin, q.version)
     THEN Goto(r, [q EXCEPT !.stage = "authorized"])
     ELSE End(r)
  /\ UNCHANGED <<clock, admins, server, browser, restarts, history>>

(* A page; all of them carry the session's csrf value. *)
ShowPage(r) ==
  LET q == requests[r] IN
  /\ At(r, "authorized")
  /\ q.purpose = "view"
  /\ Goto(r, Reply(q.browser, Keep, q.token))
  /\ UNCHANGED <<clock, admins, server, browser, restarts, history>>

(* change_password, up to its blocking task.  A refusal shows the form of   *)
(* the session it found; after the first check the browser has that form    *)
(* already, so the later refusals end the request.                          *)
StartChange(r, current, new) ==
  LET q == requests[r] IN
  /\ At(r, "authorized")
  /\ q.purpose = "change"
  /\ IF q.form = q.token
     THEN /\ Attempt
          /\ IF Allowed /\ permits > 0
             THEN /\ permits' = permits - 1
                  /\ starts' = Append(starts, clock)
                  /\ Goto(r, [stage |-> "reading", browser |-> q.browser,
                              admin |-> q.admin, current |-> current,
                              new |-> new, connected |-> TRUE])
             ELSE End(r) /\ UNCHANGED <<permits, starts>>
     ELSE /\ Goto(r, Reply(q.browser, Keep, q.token))
          /\ UNCHANGED <<attempts, permits, starts>>
  /\ UNCHANGED <<clock, admins, sessions, browser, restarts, drawn, verified>>

(* AdminStore::change_password reads the enabled account, and verifies the  *)
(* current password outside the connection lock.                            *)
ReadCredentials(r) ==
  LET q   == requests[r]
      row == admins[q.admin]
  IN
  /\ At(r, "reading")
  /\ IF Enabled(q.admin) /\ row.password = q.current /\ q.new # q.current
     THEN /\ Goto(r, [stage |-> "hashing", browser |-> q.browser,
                      admin |-> q.admin, current |-> q.current,
                      new |-> q.new, version |-> row.version,
                      connected |-> q.connected])
          /\ UNCHANGED permits
     ELSE /\ permits' = permits + 1
          /\ IF q.connected /\ ~Enabled(q.admin)
             THEN Goto(r, Reply(q.browser, None, None))
             ELSE End(r)
  /\ UNCHANGED <<clock, admins, sessions, attempts, browser, restarts, history>>

(* Seeded fault: the update is conditioned on the account alone. *)
StillEnabled(row, q) == row.enabled

(* The WHERE clause of the final update. *)
StillCurrent(row, q) ==
  row.enabled /\ row.version = q.version /\ row.password = q.current

UpdateCredentials(r) ==
  LET q == requests[r] IN
  /\ At(r, "hashing")
  /\ q.version < MaxVersion
  /\ permits' = permits + 1
  /\ IF q.admin \in DOMAIN admins /\ StillCurrent(admins[q.admin], q)
     THEN /\ admins' = [admins EXCEPT ![q.admin].password = q.new,
                                      ![q.admin].version = @ + 1]
          /\ IF q.connected
             THEN Goto(r, [stage |-> "changed", browser |-> q.browser,
                           admin |-> q.admin])
             ELSE End(r)
     ELSE End(r) /\ UNCHANGED admins
  /\ UNCHANGED <<clock, sessions, attempts, browser, restarts, history>>

(* Seeded fault: everybody's administrator sessions are purged. *)
FinishChangePurgesAll(r) ==
  LET q == requests[r] IN
  /\ At(r, "changed")
  /\ sessions' = Restrict(sessions, {t \in DOMAIN sessions :
                                       sessions[t].admin_id = None})
  /\ Goto(r, Reply(q.browser, None, None))
  /\ UNCHANGED <<clock, admins, attempts, permits, browser, restarts, history>>

(* The handler, if it is still there, purges the administrator's sessions.  *)
FinishChange(r) ==
  LET q == requests[r] IN
  /\ At(r, "changed")
  /\ sessions' = Restrict(sessions, {t \in DOMAIN sessions :
                                       sessions[t].admin_id # q.admin})
  /\ Goto(r, Reply(q.browser, None, None))
  /\ UNCHANGED <<clock, admins, attempts, permits, browser, restarts, history>>

(* POST /admin/logout *)
Logout(r, b, form) ==
  LET token == cookies[b] IN
  /\ requests[r] = Idle
  /\ form \in forms[b]
  /\ token # None
  /\ IF Found(token) /\ form = token
     THEN /\ sessions' = Drop(Live(sessions, clock), token)
          /\ Goto(r, Reply(b, None, None))
     ELSE /\ sessions' = Live(sessions, clock)
          /\ UNCHANGED requests
  /\ UNCHANGED <<clock, admins, attempts, permits, browser, restarts, history>>

Next ==
  \/ Tick
  \/ Restart
  \/ \E id \in Admins :
       SetEnabled(id) \/ \E password \in Passwords : Create(id, password)
  \/ \E r \in Requests :
       \/ Disconnect(r) \/ Receive(r)
       \/ LoginPage(r)
       \/ Authenticate(r) \/ FinishLogin(r)
       \/ Authorize(r) \/ ShowPage(r)
       \/ ReadCredentials(r) \/ UpdateCredentials(r) \/ FinishChange(r)
       \/ \E b \in Browsers :
            \/ OpenLogin(r, b)
            \/ StartPage(r, b, "view", None)
            \/ \E form \in forms[b] :
                 \/ StartPage(r, b, "change", form)
                 \/ Logout(r, b, form)
                 \/ \E id \in Admins, password \in Passwords :
                      StartLogin(r, b, form, id, password)
       \/ \E current, new \in Passwords : StartChange(r, current, new)

Spec == Init /\ [][Next]_vars

-----------------------------------------------------------------------------
(* The check of request r lets it through in this step. *)
Granted(r) == At(r, "authorizing") /\ At(r, "authorized")'

(* An administrator page is served only on a session that was created by    *)
(* verifying the password that is current when the account is checked, for  *)
(* an account enabled at that moment, and found less than an hour after its *)
(* login: a login verified with the previous password, a password changed   *)
(* by a request whose connection was lost and a session purge that has not  *)
(* run yet give no access.                                                  *)
CurrentCredentialAccess ==
  [][\A r \in Requests :
       Granted(r) =>
         LET q     == requests[r]
             login == verified[q.token]
         IN
         /\ login.admin = q.admin
         /\ login.password = admins[q.admin].password
         /\ admins[q.admin].enabled
         /\ q.at < login.at + AdminTtl]_vars

(* A password is replaced only by a request that proved the very password   *)
(* it replaces, on an enabled account, and every replacement gets a version *)
(* of its own: of several concurrent changes at most one wins.              *)
ChangesAreProven ==
  [][\A id \in DOMAIN admins :
       admins'[id].password # admins[id].password \/
       admins'[id].version # admins[id].version =>
         /\ admins'[id].version = admins[id].version + 1
         /\ admins[id].enabled
         /\ \E r \in Requests :
              /\ At(r, "hashing") /\ requests'[r] # requests[r]
              /\ requests[r].admin = id
              /\ requests[r].current = admins[id].password
              /\ requests[r].new = admins'[id].password]_vars

(* An administrator's session ends only by its expiry, its own logout or a  *)
(* password change of the same administrator: other administrators, and     *)
(* logins in other browsers, take no session away.                          *)
SessionsEndForAReason ==
  [][\A t \in DOMAIN sessions \ DOMAIN sessions' :
       LET s == sessions[t] IN
       s.admin_id # None =>
         \/ s.expires_at <= clock
         \/ restarts' # restarts
         \/ \E r \in Requests :
              /\ requests[r] = Idle /\ At(r, "reply")'
              /\ LET b == requests'[r].browser IN
                   cookies[b] = t /\ t \in forms[b]
         \/ \E r \in Requests :
              /\ At(r, "changed") /\ At(r, "reply")'
              /\ requests[r].admin = s.admin_id]_vars

(* In no Window of time does a server start to verify more than MaxAttempts *)
(* passwords, login and password change together: of any MaxAttempts + 1    *)
(* verifications the last starts a Window or more after the first.          *)
RateLimited ==
  \A i \in DOMAIN starts :
    i + MaxAttempts \in DOMAIN starts =>
      starts[i] + Window <= starts[i + MaxAttempts]

(* Every permit is either free or held by a verification still running,     *)
(* also after refusals and lost connections.                                *)
PermitsBalanced ==
  permits + Cardinality({r \in Requests : Holding(r)}) = Verifications

(* The session table never exceeds its capacity. *)
SessionCapacity == Cardinality(DOMAIN sessions) <= MaxSessions

-----------------------------------------------------------------------------
(* "Reuse the browser's pre-auth session so multiple tabs do not invalidate *)
(* each other": as long as its session lives and nobody signed in, a login  *)
(* form that is open in a tab can be submitted.                             *)
TabsKeepTheirForms ==
  \A b \in Browsers :
    \A form \in forms[b] \cap DOMAIN Live(sessions, clock) :
      (cookies[b] \in DOMAIN sessions /\ sessions[cookies[b]].admin_id = None)
        => form = cookies[b]
=============================================================================
