---------------------------- MODULE CodeFlow_proofs ----------------------------
(***************************************************************************)
(* The code flow for any clients, requests, users and lifetimes, any number *)
(* of tabs and logins under way, and any number of restarts.                *)
(***************************************************************************)
EXTENDS CodeFlow, ExpiringMap_proofs

-----------------------------------------------------------------------------
(* The inductive invariant.                                                 *)

LoggedRecord ==
  [user : Users, at : Nat, origin : Requests, asked : SUBSET Requests,
   restarts : Nat]

GrantedRecord ==
  [origin : Requests, request : AuthorizeRequest, session : SessionIds, at : Nat,
   client : Client, state : StateValue, restarts : Nat]

PresentedRecord ==
  [matches : BOOLEAN, verified : BOOLEAN, at : Nat, restarts : Nat]

TokenRecord == [code : Codes, user_id : Users, at : Nat, first : BOOLEAN]

HistoryOK ==
  /\ IsTable(logged, SessionIds, LoggedRecord)
  /\ IsTable(granted, Codes, GrantedRecord)
  /\ IsTable(presented, Codes, PresentedRecord)
  /\ tokens \subseteq TokenRecord

(* On its way through the browser a request whose state is text keeps that  *)
(* and everything a token request is compared with.                         *)
Kept(page) ==
  IsPlain(page.origin.state) =>
    /\ IsPlain(page.request.state)
    /\ page.request.client_id = page.origin.client_id
    /\ page.request.redirect_uri = page.origin.redirect_uri
    /\ page.request.code_challenge = page.origin.code_challenge

(* A consent form is made for a request without prompt=login only. *)
Unprompted(page) == page.kind = "consent" => ~page.request.prompt_login

PagesAreKept == \A page \in pages : Kept(page) /\ Unprompted(page)

LoggedInFor(origin) == \E s \in DOMAIN logged : logged[s].origin = origin

(* prompt=login leaves a request only with a login for that request. *)
PromptsAreEarned ==
  \A page \in pages :
    page.origin.prompt_login => page.request.prompt_login \/ LoggedInFor(page.origin)

(* A login under way came from a page; once answered it has its session.    *)
LoginsHavePages ==
  \A slot \in Slots :
    logins[slot] # Idle =>
      /\ logins[slot].page \in pages
      /\ logins[slot].phase = "answered" => LoggedInFor(logins[slot].page.origin)

LoginsInThePast == \A s \in DOMAIN logged : logged[s].at <= clock

(* A session is a login in this process. *)
SessionsAreLogins ==
  \A s \in DOMAIN sessions :
    /\ s \in DOMAIN logged
    /\ sessions[s].user_id = logged[s].user
    /\ sessions[s].expires_at = logged[s].at + SessionTtl
    /\ logged[s].restarts = restarts

(* A code was granted on a session that had not expired, by the clients of  *)
(* its process, and answers a request these allow.                          *)
GrantsHaveSessions ==
  \A c \in DOMAIN granted :
    LET grant == granted[c] IN
    /\ grant.session \in DOMAIN logged
    /\ grant.at < logged[grant.session].at + SessionTtl
    /\ grant.at <= clock
    /\ grant.restarts = logged[grant.session].restarts
    /\ grant.restarts <= restarts
    /\ grant.restarts = restarts => grant.client = clients[Answers(grant).client_id]
    /\ grant.client.require_pkce => Answers(grant).code_challenge # None

(* A stored code is one that was granted in this process and never named in *)
(* a token request; such a code is stored as long as it has not expired.    *)
CodesAreGrants ==
  /\ \A c \in DOMAIN auth_codes :
       LET record == auth_codes[c]
           grant  == granted[c]
       IN
       /\ c \in DOMAIN granted /\ c \notin DOMAIN presented
       /\ record.client_id = Answers(grant).client_id
       /\ record.redirect_uri = Answers(grant).redirect_uri
       /\ record.code_challenge = Answers(grant).code_challenge
       /\ record.user_id = logged[grant.session].user
       /\ record.expires_at = grant.at + CodeTtl
       /\ grant.restarts = restarts
  /\ \A c \in DOMAIN granted \ DOMAIN presented :
       granted[c].restarts = restarts /\ clock < granted[c].at + CodeTtl
         => c \in DOMAIN auth_codes

(* A token request that matches brings the verifier that was asked for.     *)
PresentedAreGranted ==
  \A c \in DOMAIN presented :
    /\ c \in DOMAIN granted
    /\ presented[c].matches /\ Answers(granted[c]).code_challenge # None
         => presented[c].verified

TokensArePresented == \A t \in tokens : t.code \in DOMAIN presented

Pages == PagesAreKept /\ PromptsAreEarned /\ LoginsHavePages

Logins == LoginsInThePast /\ SessionsAreLogins

Grants == GrantsHaveSessions /\ CodesAreGrants /\ PresentedAreGranted

Tokens == TokensArePresented /\ ExchangeOutcome /\ TokenSoonAfterLogin

IInv ==
  /\ TypeOK /\ HistoryOK
  /\ Pages /\ Logins /\ Grants /\ Tokens
  /\ PromptedLogin

-----------------------------------------------------------------------------
(* Requests and pages.                                                      *)

(* What a page holds. *)
LEMMA PageParts ==
  ASSUME NEW page \in Page
  PROVE  /\ page.kind \in {"link", "login", "consent"}
         /\ page.request \in AuthorizeRequest
         /\ page.origin \in Requests /\ page.origin \in AuthorizeRequest
BY ParametersAreWellFormed DEF Page

(* Reading a request again gives a request, ... *)
LEMMA ParsedParts ==
  ASSUME NEW request \in AuthorizeRequest
  PROVE  /\ Parsed(request) \in AuthorizeRequest
         /\ IsPlain(request.state) => Parsed(request) = request
         /\ request.prompt_login => Parsed(request).prompt_login
<1> DEFINE more == request.state.then
<1>1. /\ request.state \in StateValue /\ request.client_id \in Clients
      /\ request.redirect_uri \in RedirectUris
      /\ request.code_challenge \in Verifiers \cup {None}
      /\ request.prompt_login \in BOOLEAN
  BY DEF AuthorizeRequest
<1>2. /\ more.client_id \in Clients \cup {None}
      /\ more.redirect_uri \in RedirectUris \cup {None}
      /\ more.code_challenge \in Verifiers \cup {None}
      /\ more.prompt_login \in BOOLEAN
  BY <1>1 DEF StateValue, Parameters
<1>3. Text(request.state) \in StateValue
  BY <1>1 DEF StateValue, Text
<1>4. /\ First(more.client_id, request.client_id) \in Clients
      /\ First(more.redirect_uri, request.redirect_uri) \in RedirectUris
      /\ First(request.code_challenge, more.code_challenge) \in Verifiers \cup {None}
      /\ (request.prompt_login \/ more.prompt_login) \in BOOLEAN
  BY <1>1, <1>2 DEF First
<1>5. CASE request.state.mark # "&"
  BY <1>5 DEF Parsed
<1>6. CASE request.state.mark = "&"
  <2>1. Parsed(request) =
          [client_id      |-> First(more.client_id, request.client_id),
           redirect_uri   |-> First(more.redirect_uri, request.redirect_uri),
           code_challenge |-> First(request.code_challenge, more.code_challenge),
           prompt_login   |-> request.prompt_login \/ more.prompt_login,
           state          |-> Text(request.state)]
    BY <1>6 DEF Parsed
  <2> HIDE DEF more
  <2> QED
    BY <2>1, <1>3, <1>4, <1>6 DEF AuthorizeRequest, IsPlain
<1> QED
  BY <1>5, <1>6

(* ... so does a login, and leaves one with a plain state as it was but for *)
(* the prompt, ...                                                          *)
LEMMA AfterLoginParts ==
  ASSUME NEW request \in AuthorizeRequest
  PROVE  /\ AfterLogin(request) \in AuthorizeRequest
         /\ IsPlain(request.state) =>
              /\ AfterLogin(request).client_id = request.client_id
              /\ AfterLogin(request).redirect_uri = request.redirect_uri
              /\ AfterLogin(request).code_challenge = request.code_challenge
              /\ AfterLogin(request).state = request.state
<1> DEFINE back == Parsed(request)
<1>1. back \in AuthorizeRequest /\ (IsPlain(request.state) => back = request)
  BY ParsedParts
<1>2. AfterLogin(request) =
        IF back.prompt_login THEN [back EXCEPT !.prompt_login = FALSE] ELSE request
  BY DEF AfterLogin
<1> HIDE DEF back
<1> QED
  BY <1>1, <1>2 DEF AuthorizeRequest

(* ... and so does the browser, which leaves such a one alone.              *)
LEMMA FollowedParts ==
  ASSUME NEW request \in AuthorizeRequest
  PROVE  /\ Followed(request) \in AuthorizeRequest
         /\ IsPlain(request.state) => Followed(request) = request
<1>1. CASE request.state.mark = "#"
  <2>1. Text(request.state) \in StateValue
    BY DEF AuthorizeRequest, StateValue, Text
  <2> QED
    BY <1>1, <2>1 DEF Followed, AuthorizeRequest, IsPlain
<1>2. CASE request.state.mark # "#"
  BY <1>2, ParsedParts DEF Followed
<1> QED
  BY <1>1, <1>2

(* A page that is opened keeps the pages in order when it carries what its  *)
(* client asked for and, if the prompt is gone, somebody logged in.         *)
LEMMA PagesGrow ==
  ASSUME TypeOK, Pages,
         NEW page \in Page, Kept(page), Unprompted(page),
         page.origin.prompt_login
           => page.request.prompt_login \/ LoggedInFor(page.origin),
         pages' = pages \cup {page},
         UNCHANGED <<logged, logins>>
  PROVE  pages' \subseteq Page /\ Pages'
<1>1. pages' \subseteq Page
  BY DEF TypeOK
<1>2. PagesAreKept'
  BY DEF Pages, PagesAreKept
<1>3. PromptsAreEarned'
  BY DEF Pages, PromptsAreEarned, LoggedInFor
<1>4. LoginsHavePages'
  BY DEF Pages, LoginsHavePages, LoggedInFor
<1> QED
  BY <1>1, <1>2, <1>3, <1>4 DEF Pages

(* A login under way stands at a page and has the parts of its phase.       *)
LEMMA LoginParts ==
  ASSUME TypeOK, NEW slot \in Slots, logins[slot] # Idle
  PROVE  /\ logins[slot].page \in Page
         /\ logins[slot].phase \in {"verifying", "answered"}
         /\ logins[slot].phase = "verifying" => logins[slot].user \in Users
         /\ logins[slot].phase = "answered" => logins[slot].session \in SessionIds
<1>1. logins[slot] \in Login
  BY DEF TypeOK
<1> QED
  BY <1>1 DEF Login

(* A handler whose slot has a phase is not idle. *)
LEMMA PhasesAreNotIdle ==
  \A slot \in Slots :
    logins[slot].phase \in {"verifying", "answered"} => logins[slot] # Idle
BY DEF Idle

-----------------------------------------------------------------------------
(* Sessions.                                                                *)

(* A lookup takes expired sessions away and nothing else. *)
LEMMA LookupPurges ==
  ASSUME TypeOK, Logins, sessions' = AfterLookup, UNCHANGED <<clock, logged, restarts>>
  PROVE  IsTable(sessions, SessionIds, SessionRecord)' /\ Logins'
<1>1. /\ IsTable(AfterLookup, SessionIds, SessionRecord)
      /\ \A s \in DOMAIN AfterLookup :
           s \in DOMAIN sessions /\ AfterLookup[s] = sessions[s]
  BY LiveEntries, TablesStayTables DEF TypeOK, AfterLookup
<1>2. SessionsAreLogins'
  BY <1>1 DEF Logins, SessionsAreLogins
<1>3. LoginsInThePast'
  BY DEF Logins, LoginsInThePast
<1> QED
  BY <1>1, <1>2, <1>3 DEF Logins

(* Who is signed in has a session of this process that has not expired.     *)
LEMMA SignedInSession ==
  ASSUME TypeOK, HistoryOK, Logins, SignedIn
  PROVE  /\ cookie \in DOMAIN sessions /\ cookie \in DOMAIN logged
         /\ cookie \in SessionIds
         /\ sessions[cookie].user_id \in Users
         /\ sessions[cookie].user_id = logged[cookie].user
         /\ clock < logged[cookie].at + SessionTtl
         /\ logged[cookie].restarts = restarts
<1>1. cookie \in DOMAIN sessions /\ sessions[cookie].expires_at > clock
  BY LiveEntries DEF SignedIn
<1>2. /\ cookie \in DOMAIN logged /\ cookie \in SessionIds
      /\ sessions[cookie] \in SessionRecord
      /\ sessions[cookie].user_id = logged[cookie].user
      /\ sessions[cookie].expires_at = logged[cookie].at + SessionTtl
      /\ logged[cookie].restarts = restarts
  BY <1>1 DEF TypeOK, IsTable, Logins, SessionsAreLogins
<1>3. clock \in Nat /\ logged[cookie].at \in Nat /\ SessionTtl \in Nat
  BY <1>2, ParametersAreWellFormed DEF TypeOK, HistoryOK, IsTable, LoggedRecord
<1> QED
  BY <1>1, <1>2, <1>3 DEF SessionRecord

-----------------------------------------------------------------------------
(* What a step leaves as it is.                                             *)

(* Tokens are about tokens, presentations, grants and logins only.          *)
LEMMA TokensStand ==
  ASSUME Tokens, UNCHANGED <<logged, granted, presented, tokens>>
  PROVE  Tokens'
BY DEF Tokens, TokensArePresented, ExchangeOutcome, InTime, TokenSoonAfterLogin

(* So are grants, as long as neither time nor process moves on.             *)
LEMMA GrantsStand ==
  ASSUME Grants,
         UNCHANGED <<clock, clients, auth_codes, restarts, logged, granted, presented>>
  PROVE  Grants'
BY DEF Grants, GrantsHaveSessions, CodesAreGrants, PresentedAreGranted

(* So is what is said about prompts, ... *)
LEMMA PromptsStand ==
  ASSUME PromptedLogin, UNCHANGED <<logged, granted>>
  PROVE  PromptedLogin'
BY DEF PromptedLogin

(* ... about pages, ... *)
LEMMA PagesStand ==
  ASSUME Pages, UNCHANGED <<pages, logins, logged>>
  PROVE  Pages'
BY DEF Pages, PagesAreKept, PromptsAreEarned, LoginsHavePages, LoggedInFor

(* ... about logins ... *)
LEMMA LoginsStand ==
  ASSUME Logins, UNCHANGED <<clock, sessions, restarts, logged>>
  PROVE  Logins'
BY DEF Logins, LoginsInThePast, SessionsAreLogins

(* ... and about the types of the history. *)
LEMMA HistoryStands ==
  ASSUME HistoryOK, UNCHANGED <<logged, granted, presented, tokens>>
  PROVE  HistoryOK'
BY DEF HistoryOK

-----------------------------------------------------------------------------
(* One lemma for each way a step can touch the invariant.                   *)

(* A code is issued on the session of the cookie: the new grant and its     *)
(* record agree, and nothing is said about other codes.                     *)
LEMMA IssuingKeepsGrants ==
  ASSUME IInv,
         NEW page \in Page, Kept(page), Valid(page.request), SignedIn,
         page.origin.prompt_login => LoggedInFor(page.origin),
         IssueCode(page),
         UNCHANGED <<clock, clients, restarts, logged, presented, tokens>>
  PROVE  /\ IsTable(auth_codes, Codes, CodeRecord)' /\ HistoryOK'
         /\ Grants' /\ Tokens' /\ PromptedLogin'
<1> DEFINE request == page.request
           origin == page.origin
<1>1. PICK code \in Codes \ DOMAIN granted :
        /\ auth_codes' =
             Put(auth_codes, code,
                 [client_id      |-> request.client_id,
                  user_id        |-> sessions[cookie].user_id,
                  redirect_uri   |-> request.redirect_uri,
                  code_challenge |-> request.code_challenge,
                  expires_at     |-> clock + CodeTtl])
        /\ granted' =
             Put(granted, code,
                 [origin |-> origin, request |-> request,
                  session |-> cookie, at |-> clock,
                  client |-> clients[request.client_id],
                  state |-> Text(request.state), restarts |-> restarts])
  BY DEF IssueCode
<1> DEFINE record == [client_id      |-> request.client_id,
                      user_id        |-> sessions[cookie].user_id,
                      redirect_uri   |-> request.redirect_uri,
                      code_challenge |-> request.code_challenge,
                      expires_at     |-> clock + CodeTtl]
           grant == [origin |-> origin, request |-> request,
                     session |-> cookie, at |-> clock,
                     client |-> clients[request.client_id],
                     state |-> Text(request.state), restarts |-> restarts]
           answers == Answers(grant)
<1>2. /\ request \in AuthorizeRequest
      /\ origin \in Requests /\ origin \in AuthorizeRequest
      /\ request.client_id = answers.client_id
      /\ request.redirect_uri = answers.redirect_uri
      /\ request.code_challenge = answers.code_challenge
  BY PageParts DEF Kept, Answers
<1>3. /\ TypeOK /\ HistoryOK /\ Logins /\ Grants /\ Tokens /\ PromptedLogin
      /\ Pages
  BY DEF IInv
<1>4. /\ cookie \in DOMAIN logged /\ cookie \in SessionIds
      /\ sessions[cookie].user_id \in Users
      /\ sessions[cookie].user_id = logged[cookie].user
      /\ clock < logged[cookie].at + SessionTtl
      /\ logged[cookie].restarts = restarts
  BY <1>3, SignedInSession
<1>5. /\ clock \in Nat /\ restarts \in Nat /\ CodeTtl \in Nat
      /\ clients \in [Clients -> Client]
  BY <1>3, ParametersAreWellFormed DEF TypeOK
<1>6. /\ request.client_id \in Clients
      /\ request.redirect_uri \in RedirectUris
      /\ request.code_challenge \in Verifiers \cup {None}
      /\ Text(request.state) \in StateValue
  BY <1>2 DEF AuthorizeRequest, StateValue, Text
<1>7. clients[request.client_id] \in Client
  BY <1>5, <1>6
<1>8. clients[request.client_id].require_pkce => answers.code_challenge # None
  BY <1>2 DEF Valid
<1>9. record \in CodeRecord
  BY <1>4, <1>5, <1>6 DEF CodeRecord
<1>10. grant \in GrantedRecord
  BY <1>2, <1>4, <1>5, <1>6, <1>7 DEF GrantedRecord
<1>11. /\ auth_codes' = Put(auth_codes, code, record)
       /\ granted' = Put(granted, code, grant)
  BY <1>1
<1>12. /\ record.client_id = answers.client_id
       /\ record.redirect_uri = answers.redirect_uri
       /\ record.code_challenge = answers.code_challenge
       /\ record.user_id = logged[cookie].user
       /\ record.expires_at = clock + CodeTtl
       /\ grant.origin = origin /\ grant.session = cookie /\ grant.at = clock
       /\ grant.client = clients[answers.client_id]
       /\ Answers(grant) = answers
       /\ grant.restarts = restarts
  BY <1>2, <1>4
<1>13. origin.prompt_login => LoggedInFor(origin)
  OBVIOUS
<1> HIDE DEF record, grant, request, origin, answers
<1>14. /\ code \notin DOMAIN auth_codes /\ code \notin DOMAIN presented
       /\ \A t \in tokens : t.code # code
  BY <1>1, <1>3 DEF Grants, CodesAreGrants, PresentedAreGranted, Tokens,
                    TokensArePresented
<1>15. /\ DOMAIN granted' = DOMAIN granted \cup {code} /\ granted'[code] = grant
       /\ \A c \in DOMAIN granted : granted'[c] = granted[c]
       /\ DOMAIN auth_codes' = DOMAIN auth_codes \cup {code}
       /\ auth_codes'[code] = record
       /\ \A c \in DOMAIN auth_codes : auth_codes'[c] = auth_codes[c]
  <2>1. /\ DOMAIN granted' = DOMAIN granted \cup {code}
        /\ DOMAIN auth_codes' = DOMAIN auth_codes \cup {code}
    BY <1>11 DEF Put
  <2> QED
    BY <2>1, <1>1, <1>11, <1>14, PutEntries
<1>16. IsTable(auth_codes, Codes, CodeRecord)'
  BY <1>1, <1>3, <1>9, <1>11, TablesStayTables DEF TypeOK
<1>17. HistoryOK'
  BY <1>1, <1>3, <1>10, <1>11, TablesStayTables DEF HistoryOK
<1>18. GrantsHaveSessions'
  <2> SUFFICES ASSUME NEW c \in DOMAIN granted'
               PROVE  LET g == granted'[c] IN
                      /\ g.session \in DOMAIN logged
                      /\ g.at < logged[g.session].at + SessionTtl
                      /\ g.at <= clock
                      /\ g.restarts = logged[g.session].restarts
                      /\ g.restarts <= restarts
                      /\ g.restarts = restarts => g.client = clients[Answers(g).client_id]
                      /\ g.client.require_pkce => Answers(g).code_challenge # None
    BY DEF GrantsHaveSessions
  <2>1. CASE c = code
    BY <2>1, <1>2, <1>4, <1>5, <1>8, <1>12, <1>15
  <2>2. CASE c # code
    BY <2>2, <1>3, <1>15 DEF Grants, GrantsHaveSessions
  <2> QED
    BY <2>1, <2>2
<1>19. CodesAreGrants'
  <2>1. ASSUME NEW c \in DOMAIN auth_codes'
        PROVE  LET r == auth_codes'[c]
                   g == granted'[c]
               IN
               /\ c \in DOMAIN granted' /\ c \notin DOMAIN presented
               /\ r.client_id = Answers(g).client_id
               /\ r.redirect_uri = Answers(g).redirect_uri
               /\ r.code_challenge = Answers(g).code_challenge
               /\ r.user_id = logged[g.session].user
               /\ r.expires_at = g.at + CodeTtl
               /\ g.restarts = restarts
    <3>1. CASE c = code
      BY <3>1, <1>12, <1>14, <1>15
    <3>2. CASE c # code
      BY <3>2, <1>3, <1>15 DEF Grants, CodesAreGrants
    <3> QED
      BY <3>1, <3>2
  <2>2. ASSUME NEW c \in DOMAIN granted' \ DOMAIN presented,
               granted'[c].restarts = restarts, clock < granted'[c].at + CodeTtl
        PROVE  c \in DOMAIN auth_codes'
    BY <2>2, <1>3, <1>15 DEF Grants, CodesAreGrants
  <2> QED
    BY <2>1, <2>2 DEF CodesAreGrants
<1>20. PresentedAreGranted'
  BY <1>3, <1>15 DEF Grants, PresentedAreGranted
<1>21. Tokens'
  <2>1. \A t \in tokens : granted'[t.code] = granted[t.code]
    BY <1>3, <1>15 DEF Tokens, TokensArePresented, Grants, PresentedAreGranted
  <2>2. \A c \in DOMAIN presented : granted'[c] = granted[c]
    BY <1>3, <1>15 DEF Grants, PresentedAreGranted
  <2>3. TokensArePresented' /\ TokenSoonAfterLogin'
    BY <2>1, <1>3 DEF Tokens, TokensArePresented, TokenSoonAfterLogin
  <2>4. ExchangeOutcome'
    BY <2>2, <1>3 DEF Tokens, ExchangeOutcome, InTime
  <2> QED
    BY <2>3, <2>4 DEF Tokens
<1>22. PromptedLogin'
  <2> SUFFICES ASSUME NEW c \in DOMAIN granted', granted'[c].origin.prompt_login
               PROVE  \E s \in DOMAIN logged :
                        logged[s].origin = granted'[c].origin
                          /\ logged[s].at <= granted'[c].at
    BY DEF PromptedLogin
  <2>1. CASE c = code
    <3>1. PICK s \in DOMAIN logged : logged[s].origin = origin
      BY <2>1, <1>12, <1>13, <1>15 DEF LoggedInFor
    <3> QED
      BY <3>1, <2>1, <1>3, <1>12, <1>15 DEF Logins, LoginsInThePast
  <2>2. CASE c # code
    BY <2>2, <1>3, <1>15 DEF PromptedLogin
  <2> QED
    BY <2>1, <2>2
<1> QED
  BY <1>16, <1>17, <1>18, <1>19, <1>20, <1>21, <1>22 DEF Grants

(* A login creates a session that no login had before.                      *)
LEMMA CompletingKeepsLogins ==
  ASSUME IInv, NEW slot \in Slots, CompleteLogin(slot)
  PROVE  IInv'
<1>1. /\ TypeOK /\ HistoryOK /\ Pages /\ Logins /\ Grants /\ Tokens
      /\ PromptedLogin
  BY DEF IInv
<1> DEFINE login == logins[slot]
<1>2. PICK id \in SessionIds \ DOMAIN logged :
        /\ sessions' = Put(sessions, id,
                           [user_id |-> login.user, auth_time |-> clock,
                            expires_at |-> clock + SessionTtl])
        /\ logged' = Put(logged, id,
                         [user |-> login.user, at |-> clock,
                          origin |-> login.page.origin, asked |-> asked,
                          restarts |-> restarts])
        /\ logins' = [logins EXCEPT ![slot] =
                        [phase |-> "answered", session |-> id,
                         page |-> login.page]]
  BY DEF CompleteLogin
<1>3. /\ login # Idle /\ login.page \in Page /\ login.user \in Users
      /\ login.page \in pages
  BY <1>1, LoginParts, PhasesAreNotIdle DEF CompleteLogin, Pages, LoginsHavePages
<1>4. login.page.origin \in Requests
  BY <1>3, PageParts
<1>5. UNCHANGED <<clock, clients, auth_codes, cookie, pages, restarts, asked,
                  granted, presented, tokens>>
  BY DEF CompleteLogin, browser
<1> DEFINE session == [user_id |-> login.user, auth_time |-> clock,
                       expires_at |-> clock + SessionTtl]
           entry == [user |-> login.user, at |-> clock,
                     origin |-> login.page.origin, asked |-> asked,
                     restarts |-> restarts]
           answered == [phase |-> "answered", session |-> id, page |-> login.page]
<1>6. /\ clock \in Nat /\ restarts \in Nat /\ SessionTtl \in Nat
      /\ asked \in SUBSET Requests
  BY <1>1, ParametersAreWellFormed DEF TypeOK
<1>7. /\ session \in SessionRecord /\ entry \in LoggedRecord /\ answered \in Login
  BY <1>2, <1>3, <1>4, <1>6 DEF SessionRecord, LoggedRecord, Login
<1>8. /\ sessions' = Put(sessions, id, session)
      /\ logged' = Put(logged, id, entry)
      /\ logins' = [logins EXCEPT ![slot] = answered]
  BY <1>2
<1>9. /\ session.user_id = entry.user
      /\ session.expires_at = entry.at + SessionTtl
      /\ entry.restarts = restarts /\ entry.at = clock
      /\ entry.origin = login.page.origin
      /\ answered.page = login.page
  OBVIOUS
<1> HIDE DEF session, entry, answered, login
<1>10. id \notin DOMAIN sessions
  BY <1>2, <1>1 DEF Logins, SessionsAreLogins
<1>11. /\ DOMAIN logged' = DOMAIN logged \cup {id} /\ logged'[id] = entry
       /\ \A s \in DOMAIN logged : logged'[s] = logged[s]
       /\ DOMAIN sessions' = DOMAIN sessions \cup {id} /\ sessions'[id] = session
       /\ \A s \in DOMAIN sessions : sessions'[s] = sessions[s]
  <2>1. /\ DOMAIN logged' = DOMAIN logged \cup {id}
        /\ DOMAIN sessions' = DOMAIN sessions \cup {id}
    BY <1>8 DEF Put
  <2> QED
    BY <2>1, <1>2, <1>8, <1>10, PutEntries
<1>12. HistoryOK'
  BY <1>1, <1>2, <1>5, <1>7, <1>8, TablesStayTables DEF HistoryOK
<1>13. logins' \in [Slots -> {Idle} \cup Login]
  BY <1>1, <1>7, <1>8 DEF TypeOK
<1>14. TypeOK'
  <2>1. IsTable(sessions, SessionIds, SessionRecord)'
    BY <1>1, <1>2, <1>7, <1>8, TablesStayTables DEF TypeOK
  <2>2. DOMAIN logged' \subseteq SessionIds
    BY <1>12 DEF HistoryOK, IsTable
  <2> QED
    BY <2>1, <2>2, <1>1, <1>5, <1>13 DEF TypeOK, IsTable
<1>15. \A origin :
         LoggedInFor(origin) => \E s \in DOMAIN logged' : logged'[s].origin = origin
  BY <1>11 DEF LoggedInFor
<1>16. \E s \in DOMAIN logged' : logged'[s].origin = login.page.origin
  BY <1>9, <1>11 DEF LoggedInFor
<1>17. Pages'
  <2>1. PagesAreKept' /\ PromptsAreEarned'
    BY <1>1, <1>5, <1>15 DEF Pages, PagesAreKept, PromptsAreEarned, LoggedInFor
  <2>2. ASSUME NEW other \in Slots, logins'[other] # Idle
        PROVE  /\ logins'[other].page \in pages
               /\ logins'[other].phase = "answered"
                    => \E s \in DOMAIN logged' :
                         logged'[s].origin = logins'[other].page.origin
    <3>1. CASE other = slot
      BY <3>1, <1>1, <1>3, <1>8, <1>9, <1>16 DEF TypeOK
    <3>2. CASE other # slot
      BY <3>2, <2>2, <1>1, <1>8, <1>15 DEF TypeOK, Pages, LoginsHavePages
    <3> QED
      BY <3>1, <3>2
  <2>3. LoginsHavePages'
    BY <2>2, <1>5 DEF LoginsHavePages, LoggedInFor
  <2> QED
    BY <2>1, <2>3 DEF Pages
<1>18. Logins'
  <2>1. LoginsInThePast'
    BY <1>1, <1>5, <1>6, <1>9, <1>11 DEF Logins, LoginsInThePast
  <2>2. SessionsAreLogins'
    BY <1>1, <1>5, <1>9, <1>10, <1>11 DEF Logins, SessionsAreLogins
  <2> QED
    BY <2>1, <2>2 DEF Logins
<1>19. \A c \in DOMAIN granted :
         granted[c].session \in DOMAIN logged
           /\ logged'[granted[c].session] = logged[granted[c].session]
  BY <1>1, <1>11 DEF Grants, GrantsHaveSessions
<1>20. Grants'
  <2>1. GrantsHaveSessions'
    BY <1>1, <1>5, <1>11, <1>19 DEF Grants, GrantsHaveSessions
  <2>2. CodesAreGrants'
    BY <1>1, <1>5, <1>19 DEF Grants, CodesAreGrants
  <2>3. PresentedAreGranted'
    BY <1>1, <1>5 DEF Grants, PresentedAreGranted
  <2> QED
    BY <2>1, <2>2, <2>3 DEF Grants
<1>21. Tokens'
  <2>1. \A t \in tokens : t.code \in DOMAIN granted
    BY <1>1 DEF Tokens, TokensArePresented, Grants, PresentedAreGranted
  <2>2. TokenSoonAfterLogin'
    BY <2>1, <1>1, <1>5, <1>19 DEF Tokens, TokenSoonAfterLogin
  <2>3. TokensArePresented' /\ ExchangeOutcome'
    BY <1>1, <1>5 DEF Tokens, TokensArePresented, ExchangeOutcome, InTime
  <2> QED
    BY <2>2, <2>3 DEF Tokens
<1>22. PromptedLogin'
  BY <1>1, <1>5, <1>11 DEF PromptedLogin
<1> QED
  BY <1>12, <1>14, <1>17, <1>18, <1>20, <1>21, <1>22 DEF IInv

(* The codes that are left stand for grants that are not presented yet.     *)
LEMMA ExchangeKeepsCodes ==
  ASSUME IInv, NEW code \in Codes, NEW request \in TokenRequest,
         Exchange(code, request)
  PROVE  CodesAreGrants' /\ IsTable(auth_codes, Codes, CodeRecord)'
<1> DEFINE live == Live(auth_codes, clock)
<1>1. /\ auth_codes' = Drop(live, code)
      /\ \/ DOMAIN presented' = DOMAIN presented
            /\ (code \in DOMAIN granted => code \in DOMAIN presented)
         \/ DOMAIN presented' = DOMAIN presented \cup {code}
      /\ UNCHANGED <<clock, restarts, logged, granted>>
  BY DEF Exchange, Put
<1>2. IsTable(auth_codes, Codes, CodeRecord)'
  BY <1>1, TablesStayTables DEF IInv, TypeOK
<1>3. /\ \A c : c \in DOMAIN live <=> c \in DOMAIN auth_codes /\ auth_codes[c].expires_at > clock
      /\ \A c \in DOMAIN live : live[c] = auth_codes[c]
  BY LiveEntries
<1> HIDE DEF live
<1>4. /\ \A c : c \in DOMAIN auth_codes' <=> c \in DOMAIN live /\ c # code
      /\ \A c \in DOMAIN auth_codes' : auth_codes'[c] = live[c]
  BY <1>1, DropEntries
<1>5. CodesAreGrants
  BY DEF IInv, Grants
<1>6. ASSUME NEW c \in DOMAIN granted \ DOMAIN presented',
             granted[c].restarts = restarts, clock < granted[c].at + CodeTtl
      PROVE  c \in DOMAIN auth_codes'
  <2>1. c \in DOMAIN auth_codes /\ auth_codes[c].expires_at = granted[c].at + CodeTtl
    BY <1>1, <1>5, <1>6 DEF CodesAreGrants
  <2>2. clock \in Nat /\ granted[c].at \in Nat /\ CodeTtl \in Nat
    BY <1>6, ParametersAreWellFormed DEF IInv, TypeOK, HistoryOK, IsTable, GrantedRecord
  <2>3. c # code
    BY <1>1, <1>6
  <2> QED
    BY <2>1, <2>2, <2>3, <1>3, <1>4, <1>6
<1>7. ASSUME NEW c \in DOMAIN auth_codes'
      PROVE  /\ c \in DOMAIN auth_codes /\ auth_codes'[c] = auth_codes[c]
             /\ c \notin DOMAIN presented'
  BY <1>1, <1>3, <1>4, <1>5 DEF CodesAreGrants
<1>8. CodesAreGrants'
  BY <1>1, <1>5, <1>6, <1>7 DEF CodesAreGrants
<1> QED
  BY <1>2, <1>8

(* The first token request that names a code decides its fate, in one way   *)
(* or the other; later ones find nothing.                                   *)
LEMMA ExchangeKeepsTokens ==
  ASSUME IInv, NEW code \in Codes, NEW request \in TokenRequest,
         Exchange(code, request)
  PROVE  HistoryOK' /\ PresentedAreGranted' /\ Tokens'
<1> DEFINE live   == Live(auth_codes, clock)
           record == live[code]
           client == clients[request.client_id]
           ok     == /\ code \in DOMAIN live
                     /\ record.client_id = request.client_id
                     /\ record.redirect_uri = request.redirect_uri
                     /\ PkceHolds(client, record.code_challenge, request.code_verifier)
                     /\ client.renders
           origin == Answers(granted[code])
           news   == [matches  |-> Matches(request, origin),
                      verified |-> request.code_verifier # None,
                      at |-> clock, restarts |-> restarts]
           token  == [code |-> code, user_id |-> record.user_id, at |-> clock,
                      first |-> code \notin DOMAIN presented]
           isNew  == code \in DOMAIN granted \ DOMAIN presented
<1>1. /\ presented' = IF isNew THEN Put(presented, code, news) ELSE presented
      /\ tokens' = IF ok THEN tokens \cup {token} ELSE tokens
      /\ UNCHANGED <<clock, restarts, logged, granted>>
  BY DEF Exchange
<1>2. /\ TypeOK /\ HistoryOK /\ Grants /\ Tokens /\ GrantsHaveSessions
      /\ CodesAreGrants /\ PresentedAreGranted /\ TokensArePresented
      /\ ExchangeOutcome /\ TokenSoonAfterLogin
  BY DEF IInv, Grants, Tokens
<1>3. /\ clock \in Nat /\ restarts \in Nat /\ CodeTtl \in Nat /\ SessionTtl \in Nat
      /\ request.code_verifier \in Verifiers \cup {None}
      /\ None \notin Verifiers
  BY <1>2, ParametersAreWellFormed DEF TypeOK, TokenRequest
<1>4. /\ code \in DOMAIN live <=>
           code \in DOMAIN auth_codes /\ auth_codes[code].expires_at > clock
      /\ code \in DOMAIN live => record = auth_codes[code]
  BY LiveEntries
<1>5. ASSUME code \in DOMAIN live
      PROVE  /\ isNew
             /\ record.client_id = origin.client_id
             /\ record.redirect_uri = origin.redirect_uri
             /\ record.code_challenge = origin.code_challenge
             /\ record.user_id = logged[granted[code].session].user
             /\ record.user_id \in Users
             /\ granted[code].restarts = restarts
             /\ clock < granted[code].at + CodeTtl
  <2>1. code \in DOMAIN auth_codes /\ record = auth_codes[code]
    BY <1>4, <1>5
  <2>2. record.expires_at = granted[code].at + CodeTtl
    BY <2>1, <1>2 DEF CodesAreGrants
  <2>3. record.user_id \in Users
    BY <2>1, <1>2 DEF TypeOK, IsTable, CodeRecord
  <2>4. granted[code].at \in Nat
    BY <2>1, <1>2 DEF CodesAreGrants, HistoryOK, IsTable, GrantedRecord
  <2>5. clock < granted[code].at + CodeTtl
    BY <2>1, <2>2, <2>4, <1>3, <1>4, <1>5
  <2> QED
    BY <2>1, <2>3, <2>5, <1>2 DEF CodesAreGrants
<1>6. news \in PresentedRecord
  BY <1>3 DEF PresentedRecord, Matches
<1>7. /\ news.matches = Matches(request, origin)
      /\ news.verified = (request.code_verifier # None)
      /\ news.at = clock /\ news.restarts = restarts
  OBVIOUS
<1>8. ok => token \in TokenRecord
  BY <1>3, <1>5 DEF TokenRecord
<1>9. /\ token.code = code /\ token.user_id = record.user_id /\ token.at = clock
      /\ token.first = (code \notin DOMAIN presented)
  OBVIOUS
<1>10. ok <=> /\ code \in DOMAIN live
              /\ record.client_id = request.client_id
              /\ record.redirect_uri = request.redirect_uri
              /\ PkceHolds(client, record.code_challenge, request.code_verifier)
              /\ client.renders
  OBVIOUS
(* What is asked of the record is what was asked of the client. *)
<1>11. ASSUME code \in DOMAIN live
       PROVE  ok <=> Matches(request, origin) /\ granted[code].client.renders
  <2>1. granted[code].client = clients[origin.client_id]
    BY <1>2, <1>5, <1>11 DEF GrantsHaveSessions
  <2>2. granted[code].client.require_pkce => origin.code_challenge # None
    BY <1>2, <1>5, <1>11 DEF GrantsHaveSessions
  <2>3. ASSUME request.client_id = origin.client_id
        PROVE  PkceHolds(client, record.code_challenge, request.code_verifier) <=>
               (origin.code_challenge # None =>
                  request.code_verifier = origin.code_challenge)
    BY <2>1, <2>2, <2>3, <1>5, <1>11 DEF PkceHolds
  <2> HIDE DEF ok
  <2> QED
    BY <2>1, <2>3, <1>5, <1>10, <1>11 DEF Matches
<1>12. ok => code \in DOMAIN live
  BY <1>10
<1>13. ok => isNew
  BY <1>5, <1>12
<1> HIDE DEF live, record, ok, news, token, client, origin
<1>14. HistoryOK'
  <2>1. IsTable(presented, Codes, PresentedRecord)'
    BY <1>1, <1>2, <1>6, TablesStayTables DEF HistoryOK
  <2>2. tokens' \subseteq TokenRecord
    BY <1>1, <1>2, <1>8 DEF HistoryOK
  <2> QED
    BY <2>1, <2>2, <1>1, <1>2 DEF HistoryOK
<1>15. /\ DOMAIN presented' = IF isNew THEN DOMAIN presented \cup {code}
                              ELSE DOMAIN presented
       /\ isNew => presented'[code] = news
       /\ \A c \in DOMAIN presented : presented'[c] = presented[c]
  <2>1. isNew => DOMAIN presented' = DOMAIN presented \cup {code}
    BY <1>1 DEF Put
  <2>2. CASE isNew
    <3>1. presented' = Put(presented, code, news) /\ code \notin DOMAIN presented
      BY <2>2, <1>1
    <3> QED
      BY <2>1, <2>2, <3>1, PutEntries
  <2>3. CASE ~isNew
    BY <2>3, <1>1
  <2> QED
    BY <2>2, <2>3
<1>16. PresentedAreGranted'
  <2>1. isNew /\ Matches(request, origin) /\ origin.code_challenge # None
          => news.verified
    <3>1. SUFFICES ASSUME isNew, Matches(request, origin), origin.code_challenge # None
                   PROVE  request.code_verifier # None
      BY <1>7
    <3> QED
      BY <3>1 DEF Matches
  <2>2. ASSUME NEW c \in DOMAIN presented'
        PROVE  /\ c \in DOMAIN granted
               /\ presented'[c].matches /\ Answers(granted[c]).code_challenge # None
                    => presented'[c].verified
    <3>1. CASE c \in DOMAIN presented
      BY <3>1, <1>2, <1>15 DEF PresentedAreGranted
    <3>2. CASE c \notin DOMAIN presented
      BY <3>2, <2>1, <2>2, <1>7, <1>15 DEF origin
    <3> QED
      BY <3>1, <3>2
  <2> QED
    BY <2>2, <1>1 DEF PresentedAreGranted
<1>17. TokensArePresented'
  BY <1>1, <1>2, <1>9, <1>13, <1>15 DEF TokensArePresented
<1>18. ASSUME isNew
       PROVE  ok <=> /\ clock < granted[code].at + CodeTtl
                     /\ restarts = granted[code].restarts
                     /\ Matches(request, origin)
                     /\ granted[code].client.renders
  <2>1. CASE code \in DOMAIN live
    BY <2>1, <1>5, <1>11
  <2>2. CASE code \notin DOMAIN live
    <3>1. ASSUME clock < granted[code].at + CodeTtl, restarts = granted[code].restarts
          PROVE  FALSE
      <4>1. code \in DOMAIN auth_codes
        BY <3>1, <1>2, <1>18 DEF CodesAreGrants
      <4>2. auth_codes[code].expires_at = granted[code].at + CodeTtl
        BY <4>1, <1>2 DEF CodesAreGrants
      <4>3. granted[code].at \in Nat
        BY <1>2, <1>18 DEF HistoryOK, IsTable, GrantedRecord
      <4> QED
        BY <4>1, <4>2, <4>3, <3>1, <2>2, <1>3, <1>4
    <3> QED
      BY <3>1, <2>2, <1>12
  <2> QED
    BY <2>1, <2>2
<1>19. ExchangeOutcome'
  <2>1. \A t \in tokens' : t.first
    BY <1>1, <1>2, <1>9, <1>13 DEF ExchangeOutcome
  <2>2. ASSUME NEW c \in DOMAIN presented'
        PROVE  (\E t \in tokens' : t.code = c) <=>
                 /\ presented'[c].at < granted[c].at + CodeTtl
                 /\ presented'[c].restarts = granted[c].restarts
                 /\ presented'[c].matches
                 /\ granted[c].client.renders
    <3>1. CASE c \in DOMAIN presented
      <4>1. ok => c # code
        BY <3>1, <1>13
      <4>2. (\E t \in tokens' : t.code = c) <=> (\E t \in tokens : t.code = c)
        BY <4>1, <1>1, <1>9
      <4> QED
        BY <4>2, <3>1, <1>2, <1>15 DEF ExchangeOutcome, InTime
    <3>2. CASE c \notin DOMAIN presented
      <4>1. c = code /\ isNew
        BY <3>2, <1>15
      <4>2. \A t \in tokens : t.code # c
        BY <3>2, <1>2 DEF TokensArePresented
      <4>3. (\E t \in tokens' : t.code = c) <=> ok
        BY <4>1, <4>2, <1>1, <1>9
      <4>4. presented'[c] = news
        BY <4>1, <1>15
      <4> QED
        BY <4>1, <4>3, <4>4, <1>7, <1>18
    <3> QED
      BY <3>1, <3>2
  <2> QED
    BY <2>1, <2>2, <1>1 DEF ExchangeOutcome, InTime
<1>20. TokenSoonAfterLogin'
  <2>1. ASSUME NEW t \in tokens'
        PROVE  LET grant == granted[t.code]
                   login == logged[grant.session]
               IN
               /\ t.user_id = login.user
               /\ login.restarts = grant.restarts
               /\ t.at + 1 < login.at + SessionTtl + CodeTtl
    <3>1. CASE t \in tokens
      BY <3>1, <1>2 DEF TokenSoonAfterLogin
    <3>2. CASE t \notin tokens
      <4>1. ok /\ t = token
        BY <3>2, <1>1
      <4>2. /\ isNew /\ t.code = code /\ t.at = clock
            /\ t.user_id = logged[granted[code].session].user
            /\ clock < granted[code].at + CodeTtl
        BY <4>1, <1>5, <1>9, <1>12
      <4>3. /\ granted[code].session \in DOMAIN logged
            /\ granted[code].at < logged[granted[code].session].at + SessionTtl
            /\ granted[code].restarts = logged[granted[code].session].restarts
        BY <4>2, <1>2 DEF GrantsHaveSessions
      <4>4. granted[code].at \in Nat /\ logged[granted[code].session].at \in Nat
        BY <4>2, <4>3, <1>2 DEF HistoryOK, IsTable, GrantedRecord, LoggedRecord
      <4> QED
        BY <4>2, <4>3, <4>4, <1>3
    <3> QED
      BY <3>1, <3>2
  <2> QED
    BY <2>1, <1>1 DEF TokenSoonAfterLogin
<1> QED
  BY <1>14, <1>16, <1>17, <1>19, <1>20 DEF Tokens

-----------------------------------------------------------------------------
(* The steps.                                                               *)

(* Time passes: entries grow old, none of them changes. *)
LEMMA TickKeeps ==
  ASSUME IInv, Tick
  PROVE  IInv'
<1>1. /\ clock' = clock + 1 /\ clock \in Nat
      /\ UNCHANGED <<clients, sessions, auth_codes, cookie, pages, logins, restarts,
                     asked, logged, granted, presented, tokens>>
  BY DEF Tick, server, browser, history, IInv, TypeOK
<1>2. /\ TypeOK /\ HistoryOK /\ Pages /\ Logins /\ Grants /\ Tokens
      /\ PromptedLogin
  BY DEF IInv
<1>3. TypeOK'
  BY <1>1, <1>2 DEF TypeOK, IsTable
<1>4. Logins'
  <2>1. \A s \in DOMAIN logged : logged[s].at \in Nat
    BY <1>2 DEF HistoryOK, IsTable, LoggedRecord
  <2>2. LoginsInThePast'
    BY <2>1, <1>1, <1>2 DEF Logins, LoginsInThePast
  <2>3. SessionsAreLogins'
    BY <1>1, <1>2 DEF Logins, SessionsAreLogins
  <2> QED
    BY <2>2, <2>3 DEF Logins
<1>5. Grants'
  <2>1. \A c \in DOMAIN granted : granted[c].at \in Nat /\ CodeTtl \in Nat
    BY <1>2, ParametersAreWellFormed DEF HistoryOK, IsTable, GrantedRecord
  <2>2. GrantsHaveSessions'
    BY <2>1, <1>1, <1>2 DEF Grants, GrantsHaveSessions
  <2>3. CodesAreGrants'
    <3>1. \A c \in DOMAIN granted :
            clock' < granted[c].at + CodeTtl => clock < granted[c].at + CodeTtl
      BY <2>1, <1>1
    <3> QED
      BY <3>1, <1>1, <1>2 DEF Grants, CodesAreGrants
  <2>4. PresentedAreGranted'
    BY <1>1, <1>2 DEF Grants, PresentedAreGranted
  <2> QED
    BY <2>2, <2>3, <2>4 DEF Grants
<1> QED
  BY <1>1, <1>2, <1>3, <1>4, <1>5, PagesStand, TokensStand, PromptsStand,
     HistoryStands DEF IInv

(* A restart: what was granted before belongs to another process now. *)
LEMMA RestartKeeps ==
  ASSUME IInv, Restart
  PROVE  IInv'
<1>1. /\ restarts' = restarts + 1 /\ restarts \in Nat
      /\ clients' \in Configs
      /\ sessions' = NoEntries /\ auth_codes' = NoEntries
      /\ logins' = [s \in Slots |-> Idle]
      /\ UNCHANGED <<clock, cookie, pages, asked, logged, granted, presented, tokens>>
  BY DEF Restart, browser, history, IInv, TypeOK
<1>2. /\ TypeOK /\ HistoryOK /\ Pages /\ Logins /\ Grants /\ Tokens
      /\ PromptedLogin
  BY DEF IInv
<1>3. DOMAIN NoEntries = {}
  BY DEF NoEntries
<1>4. TypeOK'
  BY <1>1, <1>2, <1>3 DEF TypeOK, IsTable
<1>5. Pages'
  BY <1>1, <1>2 DEF Pages, PagesAreKept, PromptsAreEarned, LoginsHavePages, LoggedInFor
<1>6. Logins'
  BY <1>1, <1>2, <1>3 DEF Logins, LoginsInThePast, SessionsAreLogins
<1>7. Grants'
  <2>1. \A c \in DOMAIN granted :
          /\ granted[c].restarts \in Nat
          /\ granted[c].restarts <= restarts
    BY <1>2 DEF Grants, GrantsHaveSessions, HistoryOK, IsTable, GrantedRecord
  <2>2. \A c \in DOMAIN granted :
          granted[c].restarts <= restarts' /\ granted[c].restarts # restarts'
    BY <2>1, <1>1
  <2>3. GrantsHaveSessions'
    BY <2>2, <1>1, <1>2 DEF Grants, GrantsHaveSessions
  <2>4. CodesAreGrants'
    BY <2>2, <1>1, <1>3 DEF CodesAreGrants
  <2>5. PresentedAreGranted'
    BY <1>1, <1>2 DEF Grants, PresentedAreGranted
  <2> QED
    BY <2>3, <2>4, <2>5 DEF Grants
<1> QED
  BY <1>1, <1>2, <1>4, <1>5, <1>6, <1>7, TokensStand, PromptsStand, HistoryStands
  DEF IInv

(* A client asks: a new link, with nothing changed in it yet. *)
LEMMA AskKeeps ==
  ASSUME IInv, NEW request \in Requests, Ask(request)
  PROVE  IInv'
<1> DEFINE page == [kind |-> "link", request |-> request, origin |-> request]
<1>1. /\ pages' = pages \cup {page} /\ asked' = asked \cup {request}
      /\ UNCHANGED <<clock, clients, sessions, auth_codes, cookie, logins, restarts,
                     logged, granted, presented, tokens>>
  BY DEF Ask, server
<1>2. /\ TypeOK /\ HistoryOK /\ Pages /\ Logins /\ Grants /\ Tokens
      /\ PromptedLogin
  BY DEF IInv
<1>3. page \in Page
  BY ParametersAreWellFormed DEF Page
<1>4. /\ Kept(page) /\ Unprompted(page)
      /\ page.origin.prompt_login => page.request.prompt_login
  BY DEF Kept, Unprompted
<1> HIDE DEF page
<1>5. pages' \subseteq Page /\ Pages'
  BY <1>1, <1>2, <1>3, <1>4, PagesGrow
<1>6. TypeOK'
  BY <1>1, <1>2, <1>5 DEF TypeOK, IsTable
<1> QED
  BY <1>1, <1>2, <1>5, <1>6, LoginsStand, GrantsStand, TokensStand, PromptsStand,
     HistoryStands DEF IInv

(* /authorize: a form is opened that stands for the same request, or a code *)
(* is issued.                                                               *)
LEMMA AuthorizeKeeps ==
  ASSUME IInv, NEW page \in pages, Authorize(page)
  PROVE  IInv'
<1>1. /\ TypeOK /\ HistoryOK /\ Pages /\ Logins /\ Grants /\ Tokens
      /\ PromptedLogin
  BY DEF IInv
<1>2. /\ Valid(page.request) /\ sessions' = AfterLookup
      /\ UNCHANGED <<clock, clients, cookie, logins, restarts,
                     asked, logged, presented, tokens>>
  BY DEF Authorize
<1>3. /\ page \in Page /\ Kept(page)
      /\ page.origin.prompt_login => page.request.prompt_login \/ LoggedInFor(page.origin)
  BY <1>1 DEF TypeOK, Pages, PagesAreKept, PromptsAreEarned
<1>4. IsTable(sessions, SessionIds, SessionRecord)' /\ Logins'
  BY <1>1, <1>2, LookupPurges
<1>5. ASSUME NEW kind \in {"login", "consent"},
             kind = "consent" => ~page.request.prompt_login,
             pages' = pages \cup {[kind |-> kind, request |-> page.request,
                                   origin |-> page.origin]},
             UNCHANGED <<auth_codes, granted>>
      PROVE  IInv'
  <2> DEFINE form == [kind |-> kind, request |-> page.request, origin |-> page.origin]
  <2>1. /\ form \in Page /\ Kept(form) /\ Unprompted(form)
        /\ form.origin = page.origin /\ form.request = page.request
    BY <1>3, <1>5, PageParts DEF Page, Kept, Unprompted
  <2>2. pages' = pages \cup {form}
    BY <1>5
  <2> HIDE DEF form
  <2>3. pages' \subseteq Page /\ Pages'
    BY <2>1, <2>2, <1>1, <1>2, <1>3, PagesGrow
  <2>4. TypeOK'
    BY <2>3, <1>1, <1>2, <1>4, <1>5 DEF TypeOK, IsTable
  <2> QED
    BY <2>3, <2>4, <1>1, <1>2, <1>4, <1>5, GrantsStand, TokensStand, PromptsStand,
       HistoryStands DEF IInv
<1>6. ASSUME SignedIn, ~page.request.prompt_login, IssueCode(page), UNCHANGED pages
      PROVE  IInv'
  <2>1. /\ IsTable(auth_codes, Codes, CodeRecord)' /\ HistoryOK'
        /\ Grants' /\ Tokens' /\ PromptedLogin'
    BY <1>2, <1>3, <1>6, IssuingKeepsGrants
  <2>2. TypeOK'
    BY <2>1, <1>1, <1>2, <1>4, <1>6 DEF TypeOK, HistoryOK, IsTable
  <2> QED
    BY <2>1, <2>2, <1>1, <1>2, <1>4, <1>6, PagesStand DEF IInv
<1> QED
  BY <1>5, <1>6 DEF Authorize, RequestsFreshAuthentication

(* POST /consent: a code, or nothing. *)
LEMMA ConsentKeeps ==
  ASSUME IInv, NEW page \in pages, NEW decision, Consent(page, decision)
  PROVE  IInv'
<1>1. /\ TypeOK /\ HistoryOK /\ Pages /\ Logins /\ Grants /\ Tokens
      /\ PromptedLogin
  BY DEF IInv
<1> DEFINE returned == [page EXCEPT !.request = Parsed(@)]
<1>2. /\ page.kind = "consent" /\ sessions' = AfterLookup
      /\ UNCHANGED <<clock, clients, cookie, pages, logins, restarts,
                     asked, logged, presented, tokens>>
      /\ \/ SignedIn /\ Valid(returned.request) /\ IssueCode(returned)
         \/ UNCHANGED <<auth_codes, granted>>
  BY DEF Consent, browser
<1>3. IsTable(sessions, SessionIds, SessionRecord)' /\ Logins'
  BY <1>1, <1>2, LookupPurges
<1>4. /\ page \in Page /\ Kept(page) /\ ~page.request.prompt_login
      /\ page.origin.prompt_login => LoggedInFor(page.origin)
  BY <1>1, <1>2 DEF TypeOK, Pages, PagesAreKept, PromptsAreEarned, Unprompted
<1>5. /\ returned \in Page /\ Kept(returned)
      /\ returned.origin = page.origin
  <2> DEFINE back == Parsed(page.request)
  <2>1. /\ back \in AuthorizeRequest
        /\ IsPlain(page.request.state) => back = page.request
    BY <1>4, PageParts, ParsedParts
  <2>2. returned = [page EXCEPT !.request = back]
    OBVIOUS
  <2> HIDE DEF back
  <2> QED
    BY <2>1, <2>2, <1>4 DEF Page, Kept
<1> HIDE DEF returned
<1>6. CASE SignedIn /\ Valid(returned.request) /\ IssueCode(returned)
  <2>1. /\ IsTable(auth_codes, Codes, CodeRecord)' /\ HistoryOK'
        /\ Grants' /\ Tokens' /\ PromptedLogin'
    BY <1>2, <1>4, <1>5, <1>6, IssuingKeepsGrants
  <2>2. TypeOK'
    BY <2>1, <1>1, <1>2, <1>3 DEF TypeOK, HistoryOK, IsTable
  <2> QED
    BY <2>1, <2>2, <1>1, <1>2, <1>3, PagesStand DEF IInv
<1>7. CASE UNCHANGED <<auth_codes, granted>>
  <2>1. TypeOK'
    BY <1>1, <1>2, <1>3, <1>7 DEF TypeOK, IsTable
  <2> QED
    BY <2>1, <1>1, <1>2, <1>3, <1>7, PagesStand, GrantsStand, TokensStand,
       PromptsStand, HistoryStands DEF IInv
<1> QED
  BY <1>2, <1>6, <1>7

(* A login begins at a page, or is given up. *)
LEMMA LoginStepsKeep ==
  ASSUME IInv, NEW slot \in Slots,
         \/ \E page \in pages, user \in Users : SubmitLogin(slot, page, user)
         \/ AbandonLogin(slot)
  PROVE  IInv'
<1>1. /\ TypeOK /\ HistoryOK /\ Pages /\ Logins /\ Grants /\ Tokens
      /\ PromptedLogin
  BY DEF IInv
<1>2. UNCHANGED <<clock, clients, sessions, auth_codes, cookie, pages, restarts,
                  asked, logged, granted, presented, tokens>>
  BY DEF SubmitLogin, AbandonLogin, server, browser, history
<1>3. PICK login \in {Idle} \cup Login :
        /\ logins' = [logins EXCEPT ![slot] = login]
        /\ login # Idle => login.page \in pages /\ login.phase # "answered"
  <2>1. CASE AbandonLogin(slot)
    BY <2>1 DEF AbandonLogin
  <2>2. ASSUME NEW page \in pages, NEW user \in Users, SubmitLogin(slot, page, user)
        PROVE  \E login \in {Idle} \cup Login :
                 /\ logins' = [logins EXCEPT ![slot] = login]
                 /\ login # Idle => login.page \in pages /\ login.phase # "answered"
    <3> DEFINE login == [phase |-> "verifying", user |-> user, page |-> page]
    <3>1. login \in Login /\ login.page \in pages /\ login.phase # "answered"
      BY <1>1 DEF TypeOK, Login
    <3>2. logins' = [logins EXCEPT ![slot] = login]
      BY <2>2 DEF SubmitLogin
    <3> HIDE DEF login
    <3> QED
      BY <3>1, <3>2
  <2> QED
    BY <2>1, <2>2
<1>4. TypeOK'
  BY <1>1, <1>2, <1>3 DEF TypeOK, IsTable
<1>5. Pages'
  <2>1. PagesAreKept' /\ PromptsAreEarned'
    BY <1>1, <1>2 DEF Pages, PagesAreKept, PromptsAreEarned, LoggedInFor
  <2>2. LoginsHavePages'
    BY <1>1, <1>2, <1>3 DEF TypeOK, Pages, LoginsHavePages, LoggedInFor
  <2> QED
    BY <2>1, <2>2 DEF Pages
<1> QED
  BY <1>1, <1>2, <1>4, <1>5, LoginsStand, GrantsStand, TokensStand, PromptsStand,
     HistoryStands DEF IInv

(* The answer to a login: a link without the prompt, for a request somebody *)
(* has logged in for.                                                       *)
LEMMA ReceiveLoginKeeps ==
  ASSUME IInv, NEW slot \in Slots, ReceiveLogin(slot)
  PROVE  IInv'
<1>1. /\ TypeOK /\ HistoryOK /\ Pages /\ Logins /\ Grants /\ Tokens
      /\ PromptedLogin
  BY DEF IInv
<1> DEFINE login == logins[slot]
           page == login.page
           back == AfterLogin(page.request)
           link == [kind |-> "link", request |-> Followed(back),
                    origin |-> page.origin]
<1>2. /\ login.phase = "answered" /\ cookie' = login.session
      /\ pages' = pages \/ pages' = pages \cup {link}
      /\ logins' = [logins EXCEPT ![slot] = Idle]
      /\ UNCHANGED <<clock, clients, sessions, auth_codes, restarts,
                     asked, logged, granted, presented, tokens>>
  BY DEF ReceiveLogin, server, history
<1>3. /\ page \in Page /\ page \in pages /\ login.session \in SessionIds
      /\ LoggedInFor(page.origin) /\ Kept(page)
  BY <1>1, <1>2, LoginParts, PhasesAreNotIdle DEF Pages, LoginsHavePages, PagesAreKept
<1>4. /\ link \in Page /\ Kept(link) /\ Unprompted(link) /\ link.origin = page.origin
  <2> DEFINE followed == Followed(back)
  <2>1. /\ back \in AuthorizeRequest
        /\ IsPlain(page.request.state) =>
             /\ back.client_id = page.request.client_id
             /\ back.redirect_uri = page.request.redirect_uri
             /\ back.code_challenge = page.request.code_challenge
             /\ back.state = page.request.state
    BY <1>3, PageParts, AfterLoginParts
  <2> HIDE DEF back
  <2>2. followed \in AuthorizeRequest /\ (IsPlain(back.state) => followed = back)
    BY <2>1, FollowedParts
  <2>3. link = [kind |-> "link", request |-> followed, origin |-> page.origin]
    OBVIOUS
  <2> HIDE DEF followed, page, login
  <2> QED
    BY <2>1, <2>2, <2>3, <1>3, PageParts DEF Page, Kept, Unprompted
<1> HIDE DEF link, page, login
<1>5. TypeOK'
  <2>1. pages' \subseteq Page /\ cookie' \in SessionIds \cup {None}
    BY <1>1, <1>2, <1>3, <1>4 DEF TypeOK
  <2>2. logins' \in [Slots -> {Idle} \cup Login]
    BY <1>1, <1>2 DEF TypeOK
  <2> QED
    BY <2>1, <2>2, <1>1, <1>2 DEF TypeOK, IsTable
<1>6. Pages'
  <2>1. PagesAreKept'
    BY <1>1, <1>2, <1>4 DEF Pages, PagesAreKept
  <2>2. PromptsAreEarned'
    BY <1>1, <1>2, <1>3, <1>4 DEF Pages, PromptsAreEarned, LoggedInFor
  <2>3. LoginsHavePages'
    BY <1>1, <1>2 DEF TypeOK, Pages, LoginsHavePages, LoggedInFor
  <2> QED
    BY <2>1, <2>2, <2>3 DEF Pages
<1> QED
  BY <1>1, <1>2, <1>5, <1>6, LoginsStand, GrantsStand, TokensStand, PromptsStand,
     HistoryStands DEF IInv

(* The token endpoint. *)
LEMMA ExchangeKeeps ==
  ASSUME IInv, NEW code \in Codes, NEW request \in TokenRequest,
         Exchange(code, request)
  PROVE  IInv'
<1>1. /\ TypeOK /\ HistoryOK /\ Pages /\ Logins /\ Grants /\ Tokens
      /\ PromptedLogin
  BY DEF IInv
<1>2. UNCHANGED <<clock, clients, sessions, cookie, pages, logins, restarts,
                  asked, logged, granted>>
  BY DEF Exchange, browser
<1>3. /\ CodesAreGrants' /\ IsTable(auth_codes, Codes, CodeRecord)'
      /\ HistoryOK' /\ PresentedAreGranted' /\ Tokens'
  BY ExchangeKeepsCodes, ExchangeKeepsTokens
<1>4. GrantsHaveSessions'
  BY <1>1, <1>2 DEF Grants, GrantsHaveSessions
<1>5. TypeOK'
  BY <1>1, <1>2, <1>3 DEF TypeOK, HistoryOK, IsTable, TokenRecord
<1> QED
  BY <1>1, <1>2, <1>3, <1>4, <1>5, PagesStand, LoginsStand, PromptsStand
  DEF IInv, Grants

(* Nothing changes. *)
LEMMA StutterKeeps ==
  ASSUME IInv, UNCHANGED vars
  PROVE  IInv'
<1>1. UNCHANGED <<clock, clients, sessions, auth_codes, cookie, pages, logins,
                  restarts, asked, logged, granted, presented, tokens>>
  BY DEF vars, server, browser, history
<1>2. TypeOK'
  BY <1>1 DEF IInv, TypeOK, IsTable
<1> QED
  BY <1>1, <1>2, PagesStand, LoginsStand, GrantsStand, TokensStand, PromptsStand,
     HistoryStands DEF IInv

-----------------------------------------------------------------------------
(* The theorems.                                                            *)

(* A server that has just started. *)
LEMMA InitHolds == Init => IInv
<1> SUFFICES ASSUME Init PROVE IInv
  OBVIOUS
<1>1. DOMAIN NoEntries = {}
  BY DEF NoEntries
<1>2. 0 \in Nat
  OBVIOUS
<1>3. TypeOK /\ HistoryOK
  BY <1>1, <1>2 DEF Init, TypeOK, HistoryOK, IsTable
<1>4. Pages
  BY DEF Init, Pages, PagesAreKept, PromptsAreEarned, LoginsHavePages
<1>5. Logins /\ Grants /\ PromptedLogin
  BY <1>1 DEF Init, Logins, LoginsInThePast, SessionsAreLogins, Grants,
              GrantsHaveSessions, CodesAreGrants, PresentedAreGranted, PromptedLogin
<1>6. Tokens
  BY <1>1 DEF Init, Tokens, TokensArePresented, ExchangeOutcome, TokenSoonAfterLogin
<1> QED
  BY <1>3, <1>4, <1>5, <1>6 DEF IInv

(* Every step of the server or of its browser. *)
LEMMA StepHolds == IInv /\ [Next]_vars => IInv'
<1> SUFFICES ASSUME IInv, [Next]_vars PROVE IInv'
  OBVIOUS
<1>1. CASE Tick
  BY <1>1, TickKeeps
<1>2. CASE Restart
  BY <1>2, RestartKeeps
<1>3. ASSUME NEW request \in Requests, Ask(request) PROVE IInv'
  BY <1>3, AskKeeps
<1>4. ASSUME NEW page \in pages, Authorize(page) PROVE IInv'
  BY <1>4, AuthorizeKeeps
<1>5. ASSUME NEW page \in pages, NEW slot \in Slots, NEW user \in Users,
             SubmitLogin(slot, page, user)
      PROVE  IInv'
  BY <1>5, LoginStepsKeep
<1>6. ASSUME NEW page \in pages, NEW decision \in {"approve", "deny"},
             Consent(page, decision)
      PROVE  IInv'
  BY <1>6, ConsentKeeps
<1>7. ASSUME NEW slot \in Slots, CompleteLogin(slot) PROVE IInv'
  BY <1>7, CompletingKeepsLogins
<1>8. ASSUME NEW slot \in Slots, AbandonLogin(slot) PROVE IInv'
  BY <1>8, LoginStepsKeep
<1>9. ASSUME NEW slot \in Slots, ReceiveLogin(slot) PROVE IInv'
  BY <1>9, ReceiveLoginKeeps
<1>10. ASSUME NEW code \in Codes, NEW request \in TokenRequest, Exchange(code, request)
       PROVE  IInv'
  BY <1>10, ExchangeKeeps
<1>11. CASE UNCHANGED vars
  BY <1>11, StutterKeeps
<1> QED
  BY <1>1, <1>2, <1>3, <1>4, <1>5, <1>6, <1>7, <1>8, <1>9, <1>10, <1>11 DEF Next

(* The invariant holds in every run of the server. *)
THEOREM Invariance == Spec => []IInv
<1>1. Init => IInv
  BY InitHolds
<1>2. IInv /\ [Next]_vars => IInv'
  BY StepHolds
<1> QED
  BY <1>1, <1>2, PTL DEF Spec

(* Tables, pages and logins keep their types. *)
THEOREM TypeCorrect == Spec => []TypeOK
<1>1. IInv => TypeOK
  BY DEF IInv
<1> QED
  BY <1>1, Invariance, PTL

(* A code yields a token exactly for the first token request, when it comes *)
(* in time and matches the authorization request: the client's own, unless  *)
(* its state has an ampersand or a number sign in it.                       *)
THEOREM Outcome == Spec => []ExchangeOutcome
<1>1. IInv => ExchangeOutcome
  BY DEF IInv, Tokens
<1> QED
  BY <1>1, Invariance, PTL

(* No token comes later after its login than the two lifetimes together. *)
THEOREM SoonAfterLogin == Spec => []TokenSoonAfterLogin
<1>1. IInv => TokenSoonAfterLogin
  BY DEF IInv, Tokens
<1> QED
  BY <1>1, Invariance, PTL

(* prompt=login gets no code without a login for that very request. *)
THEOREM Prompted == Spec => []PromptedLogin
<1>1. IInv => PromptedLogin
  BY DEF IInv
<1> QED
  BY <1>1, Invariance, PTL

(* Where PKCE is required, no token comes without a verifier: its request   *)
(* matched, and the grant has a challenge.                                  *)
THEOREM Pkce == Spec => []PkceEnforced
<1>1. ASSUME IInv, NEW t \in tokens, granted[t.code].client.require_pkce
      PROVE  presented[t.code].verified
  <2>1. t.code \in DOMAIN presented /\ t.code \in DOMAIN granted
    BY <1>1 DEF IInv, Tokens, TokensArePresented, Grants, PresentedAreGranted
  <2>2. presented[t.code].matches
    BY <1>1, <2>1 DEF IInv, Tokens, ExchangeOutcome
  <2>3. Answers(granted[t.code]).code_challenge # None
    BY <1>1, <2>1 DEF IInv, Grants, GrantsHaveSessions
  <2> QED
    BY <1>1, <2>1, <2>2, <2>3 DEF IInv, Grants, PresentedAreGranted
<1>2. IInv => PkceEnforced
  BY <1>1 DEF PkceEnforced
<1> QED
  BY <1>2, Invariance, PTL
=============================================================================
