------------------------------- MODULE CodeFlow -------------------------------
(***************************************************************************)
(* The local authorization-code flow (src/src/handlers.rs): /authorize,     *)
(* /login, /consent and the authorization_code grant of /oauth/token, as    *)
(* one browser with several tabs, slow logins, expiry and restarts drive it.*)
(*                                                                         *)
(* A handler runs in one step between two awaits: nothing else touches the  *)
(* entry it works on, and AuthStore says what its tables do under           *)
(* concurrency.  Only /login awaits (the password check), and its answer    *)
(* travels back on its own, so answers can overtake each other.             *)
(***************************************************************************)
EXTENDS ExpiringMap

CONSTANTS
  Users,        \* local users
  Clients,      \* client identifiers
  Requests,     \* authorization requests the clients may make
  Configs,      \* client tables the operator may start the server with
  RedirectUris, \* redirect URIs a token request may name
  Verifiers,    \* PKCE verifiers a token request may carry
  None,         \* an absent cookie, challenge or verifier
  SessionIds, Codes,        \* UUIDs
  Slots,                    \* /login requests in progress
  SessionTtl, CodeTtl,      \* 3600 and 120 seconds in the code
  MaxTime, MaxRestarts      \* bounds on the clock and on restarts

(* A `state`, as URLs tell values apart: a text; or one with an ampersand,  *)
(* and then perhaps further parameters; or one with a number sign.          *)
Parameters ==
  [client_id : Clients \cup {None}, redirect_uri : RedirectUris \cup {None},
   code_challenge : Verifiers \cup {None}, prompt_login : BOOLEAN]

StateValue == [mark : {"none", "&", "#"}, then : Parameters]

(* A request as /authorize reads it.  Only what the flow tells apart is     *)
(* kept: prompt is whether it contains "login", the challenge is the        *)
(* verifier it was derived from (hashing is one-to-one).                    *)
AuthorizeRequest ==
  [client_id : Clients, redirect_uri : RedirectUris,
   code_challenge : Verifiers \cup {None}, prompt_login : BOOLEAN,
   state : StateValue]

(* A registered client.  `renders` is whether the token template and the    *)
(* signing key let a token be made for it.                                  *)
Client ==
  [auth_mode : {"local", "re_auth"}, consent_mode : {"always", "skip"},
   require_pkce : BOOLEAN, redirect_uris : SUBSET RedirectUris,
   renders : BOOLEAN]

ASSUME ParametersAreWellFormed ==
  /\ Requests \subseteq AuthorizeRequest
  /\ Configs \subseteq [Clients -> Client]
  /\ None \notin Verifiers \cup SessionIds
  /\ {SessionTtl, CodeTtl, MaxTime, MaxRestarts} \subseteq Nat

VARIABLES
  clock,       \* Utc::now()
  clients,     \* AppState::clients, read from the configuration at startup
  sessions,    \* AuthStore::sessions
  auth_codes,  \* AuthStore::auth_codes
  cookie,      \* the session_id cookie of the browser
  pages,       \* links and forms open in its tabs, which can be used again
  logins,      \* POST /login in progress
  restarts,    \* how often the server was restarted
  asked,       \* history: the requests the browser was sent with
  logged,      \* history: every session ever created
  granted,     \* history: every code ever issued
  presented,   \* history: the first token request that named each code
  tokens       \* history: the token responses

server == <<clients, sessions, auth_codes>>
browser == <<cookie, pages>>
history == <<asked, logged, granted, presented, tokens>>
vars == <<clock, server, browser, logins, restarts, history>>

-----------------------------------------------------------------------------
(* Pages carry the request they stand for and, as history, the request of   *)
(* the client they originate from.                                          *)
Page == [kind : {"link", "login", "consent"},
         request : AuthorizeRequest,
         origin : Requests]

Idle == [phase |-> "idle"]

Login == [phase : {"verifying"}, user : Users, page : Page]
           \cup [phase : {"answered"}, session : SessionIds, page : Page]

SessionRecord == [user_id : Users, auth_time : Nat, expires_at : Nat]

CodeRecord ==
  [client_id : Clients, user_id : Users, redirect_uri : RedirectUris,
   code_challenge : Verifiers \cup {None}, expires_at : Nat]

TokenRequest ==
  [client_id : Clients, redirect_uri : RedirectUris,
   code_verifier : Verifiers \cup {None}]

TypeOK ==
  /\ clock \in Nat
  /\ clients \in Configs
  /\ IsTable(sessions, SessionIds, SessionRecord)
  /\ IsTable(auth_codes, Codes, CodeRecord)
  /\ cookie \in SessionIds \cup {None}
  /\ pages \subseteq Page
  /\ logins \in [Slots -> {Idle} \cup Login]
  /\ restarts \in Nat
  /\ asked \subseteq Requests
  /\ DOMAIN logged \subseteq SessionIds
  /\ DOMAIN granted \subseteq Codes
  /\ DOMAIN presented \subseteq Codes
  /\ \A t \in tokens : t.code \in Codes /\ t.user_id \in Users

Init ==
  /\ clock = 0
  /\ clients \in Configs
  /\ sessions = NoEntries
  /\ auth_codes = NoEntries
  /\ cookie = None
  /\ pages = {}
  /\ logins = [s \in Slots |-> Idle]
  /\ restarts = 0
  /\ asked = {}
  /\ logged = NoEntries
  /\ granted = NoEntries
  /\ presented = NoEntries
  /\ tokens = {}

-----------------------------------------------------------------------------
(* Conversions.                                                             *)

IsPlain(state) == state.mark = "none"

(* Seeded fault: nothing is left of a value with a mark. *)
TextLost(state) == IF IsPlain(state) THEN state ELSE [state EXCEPT !.mark = None]

(* What is read as the state again: it ends where it is marked. *)
Text(state) == [state EXCEPT !.mark = "none"]

First(a, b) == IF a # None THEN a ELSE b

(* build_authorize_return then parse_authorize_return: only spaces are      *)
(* escaped, so what follows an ampersand is read as parameters, and of two  *)
(* with one name the later counts (the state stands after the client and    *)
(* the redirect URI, and before the challenge and the prompt).              *)
Parsed(request) ==
  LET more == request.state.then IN
  IF request.state.mark # "&" THEN request
  ELSE [client_id      |-> First(more.client_id, request.client_id),
        redirect_uri   |-> First(more.redirect_uri, request.redirect_uri),
        code_challenge |-> First(request.code_challenge, more.code_challenge),
        prompt_login   |-> request.prompt_login \/ more.prompt_login,
        state          |-> Text(request.state)]

(* authorize_return_after_login takes prompt=login out, if it is there. *)
AfterLogin(request) ==
  IF Parsed(request).prompt_login
  THEN [Parsed(request) EXCEPT !.prompt_login = FALSE]
  ELSE request

(* When the browser goes to that return_to, what follows a number sign does *)
(* not leave it, ...                                                        *)
Followed(request) ==
  IF request.state.mark = "#"
  THEN [request EXCEPT !.code_challenge = None, !.prompt_login = FALSE,
                       !.state = Text(@)]
  ELSE Parsed(request)

(* ... and a parameter that comes twice is refused by axum's Query.         *)
ComesTwice(request) ==
  LET more == request.state.then IN
  /\ request.state.mark = "&"
  /\ \/ more.client_id # None
     \/ more.redirect_uri # None
     \/ more.code_challenge # None /\ request.code_challenge # None
     \/ more.prompt_login /\ request.prompt_login

(* validate_authorize_request, against the clients registered now. *)
Valid(request) ==
  LET client == clients[request.client_id] IN
  /\ request.redirect_uri \in client.redirect_uris
  /\ client.require_pkce => request.code_challenge # None

(* Seeded fault: prompt=login is ignored. *)
NotRequested(request) == FALSE

(* Seeded fault: the verifier is compared only when one is sent. *)
PkceWhenSent(client, challenge, verifier) ==
  verifier = None \/ verifier = challenge

(* requests_fresh_authentication *)
RequestsFreshAuthentication(request) == request.prompt_login

(* verify_pkce *)
PkceHolds(client, challenge, verifier) ==
  IF challenge = None THEN ~client.require_pkce ELSE verifier = challenge

-----------------------------------------------------------------------------
Tick ==
  /\ clock < MaxTime
  /\ clock' = clock + 1
  /\ UNCHANGED <<server, browser, logins, restarts, history>>

(* A client application sends the browser to /authorize. *)
Ask(request) ==
  /\ request \notin asked
  /\ asked' = asked \cup {request}
  /\ pages' = pages \cup {[kind |-> "link", request |-> request, origin |-> request]}
  /\ UNCHANGED <<clock, server, cookie, logins, restarts,
                 logged, granted, presented, tokens>>

(* A lookup purges; without a cookie there is no lookup. *)
AfterLookup == IF cookie = None THEN sessions ELSE Live(sessions, clock)

SignedIn == cookie \in DOMAIN Live(sessions, clock)

(* issue_authorization_code_redirect, for the signed-in user.  The state is *)
(* escaped no better in this redirect: the client reads its text.           *)
IssueCode(page) ==
  LET session == sessions[cookie]
      request == page.request
  IN
  \E code \in Codes \ DOMAIN granted :
    /\ auth_codes' =
         Put(auth_codes, code,
             [client_id      |-> request.client_id,
              user_id        |-> session.user_id,
              redirect_uri   |-> request.redirect_uri,
              code_challenge |-> request.code_challenge,
              expires_at     |-> clock + CodeTtl])
    /\ granted' =
         Put(granted, code,
             [origin |-> page.origin, request |-> request,
              session |-> cookie, at |-> clock,
              client |-> clients[request.client_id],
              state |-> Text(request.state), restarts |-> restarts])

(* GET /authorize for a client with local authentication.  (A client with   *)
(* re-authentication is sent to its provider, which changes nothing here.)  *)
Authorize(page) ==
  LET request == page.request
      client  == clients[request.client_id]
      form(kind) == [kind |-> kind, request |-> request, origin |-> page.origin]
  IN
  /\ page.kind = "link"
  /\ Valid(request)
  /\ client.auth_mode = "local"
  /\ sessions' = AfterLookup
  /\ \/ /\ SignedIn /\ ~RequestsFreshAuthentication(request)
        /\ client.consent_mode = "always"
        /\ pages' = pages \cup {form("consent")}
        /\ UNCHANGED <<auth_codes, granted>>
     \/ /\ SignedIn /\ ~RequestsFreshAuthentication(request)
        /\ client.consent_mode = "skip"
        /\ IssueCode(page)
        /\ UNCHANGED pages
     \/ /\ ~SignedIn \/ RequestsFreshAuthentication(request)
        /\ pages' = pages \cup {form("login")}
        /\ UNCHANGED <<auth_codes, granted>>
  /\ UNCHANGED <<clock, clients, cookie, logins, restarts,
                 asked, logged, presented, tokens>>

(* POST /login: the password check is awaited, ... *)
SubmitLogin(slot, page, user) ==
  /\ page.kind = "login"
  /\ logins[slot] = Idle
  /\ logins' = [logins EXCEPT ![slot] =
                  [phase |-> "verifying", user |-> user, page |-> page]]
  /\ UNCHANGED <<clock, server, browser, restarts, history>>

(* ... then a session is created ... *)
CompleteLogin(slot) ==
  LET login == logins[slot] IN
  /\ login.phase = "verifying"
  /\ \E id \in SessionIds \ DOMAIN logged :
       /\ sessions' = Put(sessions, id,
                          [user_id |-> login.user, auth_time |-> clock,
                           expires_at |-> clock + SessionTtl])
       /\ logged' = Put(logged, id,
                        [user |-> login.user, at |-> clock,
                         origin |-> login.page.origin, asked |-> asked,
                         restarts |-> restarts])
       /\ logins' = [logins EXCEPT ![slot] =
                       [phase |-> "answered", session |-> id,
                        page |-> login.page]]
  /\ UNCHANGED <<clock, clients, auth_codes, browser, restarts,
                 asked, granted, presented, tokens>>

(* ... or the credentials are refused, or the connection is lost.  The      *)
(* login page that answers a refusal is the one the browser came from.      *)
AbandonLogin(slot) ==
  /\ logins[slot] # Idle
  /\ logins' = [logins EXCEPT ![slot] = Idle]
  /\ UNCHANGED <<clock, server, browser, restarts, history>>

(* The answer reaches the browser: the cookie is set, the redirect followed *)
(* when the browser gets to it.                                             *)
ReceiveLogin(slot) ==
  LET login == logins[slot]
      back  == AfterLogin(login.page.request)
  IN
  /\ login.phase = "answered"
  /\ cookie' = login.session
  /\ pages' = IF ComesTwice(back) THEN pages
              ELSE pages \cup {[kind |-> "link", request |-> Followed(back),
                                origin |-> login.page.origin]}
  /\ logins' = [logins EXCEPT ![slot] = Idle]
  /\ UNCHANGED <<clock, server, restarts, history>>

(* POST /consent.  The request comes back in the form, and so does not have *)
(* to be the one any page was rendered for under the present configuration. *)
(* Neither auth_mode nor prompt are looked at.                              *)
Consent(page, decision) ==
  LET returned == [page EXCEPT !.request = Parsed(@)] IN
  /\ page.kind = "consent"
  /\ cookie # None
  /\ sessions' = AfterLookup
  /\ IF SignedIn /\ Valid(returned.request) /\ decision = "approve"
     THEN IssueCode(returned)
     ELSE UNCHANGED <<auth_codes, granted>>
  /\ UNCHANGED <<clock, clients, browser, logins, restarts,
                 asked, logged, presented, tokens>>

(* The authorization request a code answers: the client's own, as long as   *)
(* its state is nothing but text; else what the server read at last.        *)
Answers(grant) == IF IsPlain(grant.origin.state) THEN grant.origin ELSE grant.request

(* The token request names the client, the redirect URI and the verifier of *)
(* an authorization request.                                                *)
Matches(request, asked_for) ==
  /\ request.client_id = asked_for.client_id
  /\ request.redirect_uri = asked_for.redirect_uri
  /\ asked_for.code_challenge # None =>
       request.code_verifier = asked_for.code_challenge

(* POST /oauth/token with the authorization_code grant, by a client whose   *)
(* secret was verified.  The code is consumed before anything is compared.  *)
Exchange(code, request) ==
  LET live   == Live(auth_codes, clock)
      record == live[code]
      client == clients[request.client_id]
      ok     == /\ code \in DOMAIN live
                /\ record.client_id = request.client_id
                /\ record.redirect_uri = request.redirect_uri
                /\ PkceHolds(client, record.code_challenge, request.code_verifier)
                /\ client.renders
  IN
  /\ auth_codes' = Drop(live, code)
  /\ presented' = IF code \in DOMAIN granted \ DOMAIN presented
                  THEN Put(presented, code,
                           [matches  |-> Matches(request, Answers(granted[code])),
                            verified |-> request.code_verifier # None,
                            at |-> clock, restarts |-> restarts])
                  ELSE presented
  /\ IF ok
     THEN tokens' = tokens \cup
            {[code |-> code, user_id |-> record.user_id, at |-> clock,
              first |-> code \notin DOMAIN presented]}
     ELSE UNCHANGED tokens
  /\ UNCHANGED <<clock, clients, sessions, browser, logins, restarts,
                 asked, logged, granted>>

(* Everything in memory is lost, logins in progress too; the operator may   *)
(* have edited the clients.  The browser keeps its cookie and its tabs.     *)
Restart ==
  /\ restarts < MaxRestarts
  /\ restarts' = restarts + 1
  /\ clients' \in Configs
  /\ sessions' = NoEntries
  /\ auth_codes' = NoEntries
  /\ logins' = [s \in Slots |-> Idle]
  /\ UNCHANGED <<clock, browser, history>>

Next ==
  \/ Tick
  \/ Restart
  \/ \E request \in Requests : Ask(request)
  \/ \E page \in pages :
       \/ Authorize(page)
       \/ \E slot \in Slots, user \in Users : SubmitLogin(slot, page, user)
       \/ \E decision \in {"approve", "deny"} : Consent(page, decision)
  \/ \E slot \in Slots :
       CompleteLogin(slot) \/ AbandonLogin(slot) \/ ReceiveLogin(slot)
  \/ \E code \in Codes, request \in TokenRequest : Exchange(code, request)

Spec == Init /\ [][Next]_vars

-----------------------------------------------------------------------------
(* The token request reached the code before it expired, in the process     *)
(* that issued it.                                                          *)
InTime(c) ==
  /\ presented[c].at < granted[c].at + CodeTtl
  /\ presented[c].restarts = granted[c].restarts

(* A code yields a token exactly when the first token request that names it *)
(* is in time and matches the authorization request the client made,        *)
(* whatever trips through login and consent pages that request took; when   *)
(* its state is not just text, the request that was made of it on the way.  *)
(* A failed exchange burns the code: no retry, by anyone, gets a token.     *)
ExchangeOutcome ==
  /\ \A t \in tokens : t.first
  /\ \A c \in DOMAIN presented :
       (\E t \in tokens : t.code = c) <=>
         /\ InTime(c)
         /\ presented[c].matches
         /\ granted[c].client.renders

(* A token is for the user of a login in the process that issues it, and    *)
(* comes less than SessionTtl + CodeTtl after that login: no expired        *)
(* session and no expired code lengthens the chain from password to token.  *)
(* (Both limits are exclusive, so a whole tick below their sum.)            *)
TokenSoonAfterLogin ==
  \A t \in tokens :
    LET grant == granted[t.code]
        login == logged[grant.session]
    IN
    /\ t.user_id = login.user
    /\ login.restarts = grant.restarts
    /\ t.at + 1 < login.at + SessionTtl + CodeTtl

(* A request with prompt=login gets a code only after somebody logged in    *)
(* from the login page of that very request, whatever sessions the browser  *)
(* already had.                                                             *)
PromptedLogin ==
  \A c \in DOMAIN granted :
    LET origin == granted[c].origin IN
    origin.prompt_login =>
      \E s \in DOMAIN logged :
        logged[s].origin = origin /\ logged[s].at <= granted[c].at

(* A client that requires PKCE never gets a token without a verifier, even  *)
(* when the policy was changed between two runs of the server.              *)
PkceEnforced ==
  \A t \in tokens :
    granted[t.code].client.require_pkce =>
      presented[t.code].verified

-----------------------------------------------------------------------------
(* What documents and tests of the repository say, and the code does not    *)
(* always do.                                                               *)

(* "It requests fresh authentication": the session a prompt=login request   *)
(* is answered with was created after the request.                          *)
FreshLogin ==
  \A c \in DOMAIN granted :
    LET origin == granted[c].origin IN
    origin.prompt_login => origin \in logged[granted[c].session].asked

(* The client finds its `state` in the redirect as it sent it. *)
StateComesBack ==
  \A c \in DOMAIN granted : granted[c].state = granted[c].origin.state
=============================================================================
