------------------------------ MODULE Federation ------------------------------
(***************************************************************************)
(* A server that re-authenticates its users at another one (the upstream,   *)
(* TokenIssuer), or at a provider of other make: begin_reauth and           *)
(* reauth_callback of src/src/handlers.rs with the calls of                 *)
(* src/src/upstream.rs.  The clocks of the two differ, and the upstream is  *)
(* stopped, reconfigured and started between the calls.                     *)
(***************************************************************************)
EXTENDS TokenIssuer

CONSTANTS
  Parties,       \* relying servers: [files, skew]
  Foreign,       \* the host of the other provider
  ForeignTokens, \* ID tokens the other provider may answer with
  ForeignJwks,   \* key sets it may publish
  CodeTtl,       \* lifetime of the upstream's codes, 120 seconds in the code
  Leeway         \* CLOCK_SKEW_SECONDS

ASSUME PartiesAreServers ==
  /\ \A p \in Parties : IsDirectory(p.files) /\ p.skew \in Int
  /\ Leeway \in Nat /\ CodeTtl \in Nat

ASSUME JwksAreLists ==
  \A jwks \in ForeignJwks : Len(jwks) \in Nat /\ DOMAIN jwks = 1 .. Len(jwks)

(* A setting that is absent is none of the values it is compared with.      *)
ASSUME NoneIsNoValue ==
  /\ None \notin Int
  /\ None # "enc" /\ None # {} /\ None # {"sign"}

VARIABLES
  party,   \* the relying server; its directory does not change
  request  \* its re-authentication request

vars == <<issuerVars, party, request>>

-----------------------------------------------------------------------------
Providers == TrustedProviders(party.files)

ReAuth(client_id) == Clients(party.files)[client_id].re_auth

Provider == Providers[ReAuth(request.client_id).provider_id]

AtUpstream == Provider.issuer.host # Foreign

(* Utc::now() of the relying server. *)
Now == clock + party.skew

TypeOK ==
  /\ IssuerTypeOK
  /\ party \in Parties /\ Initializes(party.files)
  /\ request.phase \in
       {"idle", "away", "returned", "exchanging", "validating", "identified", "refused"}
  /\ request # Idle => request.client_id \in DOMAIN Clients(party.files)
  /\ request.phase = "identified" => request.id_token.sub # None

Init ==
  /\ IssuerInit
  /\ party \in {p \in Parties : Initializes(p.files)}
  /\ request = Idle

Refuse(why) ==
  request' = [phase |-> "refused", client_id |-> request.client_id, why |-> why,
              starts |-> request.starts, at |-> clock,
              code_expires_at |-> IF request.phase = "returned"
                                  THEN request.code.expires_at ELSE None,
              issued_at |-> IF request.phase = "validating"
                            THEN request.id_token.iat ELSE None]

Refused(client_id, why) ==
  request' = [phase |-> "refused", client_id |-> client_id, why |-> why,
              starts |-> starts, at |-> clock, code_expires_at |-> None,
              issued_at |-> None]

-----------------------------------------------------------------------------
(* begin_reauth, with discover: the issuer must be the configured one to    *)
(* the letter.  The metadata is kept with the request.                      *)
BeginReAuth(client_id) ==
  /\ request = Idle
  /\ Clients(party.files)[client_id].auth_mode = "re_auth"
  /\ IF ReAuth(client_id).provider_id \notin DOMAIN Providers
     THEN Refused(client_id, "server_error")
     ELSE LET provider  == Providers[ReAuth(client_id).provider_id]
              documents == IF provider.issuer.host = Foreign THEN {provider.issuer}
                           ELSE IF Running THEN {Discovery(server.files).issuer}
                           ELSE {}
          IN
          IF provider.issuer \in documents
          THEN request' = [phase |-> "away", client_id |-> client_id,
                           issuer |-> provider.issuer, nonce |-> "nonce",
                           starts |-> starts]
          ELSE Refused(client_id, "discovery")
  /\ UNCHANGED <<issuerVars, party>>

(* validate_authorize_request of the upstream, in two parts: a client or a  *)
(* redirect URI it does not know gets an error page, anything else that is  *)
(* wrong goes back to the relying server.                                   *)
Redirects ==
  /\ Registered(Provider.client_id)
  /\ Provider.redirect_uri \in Client(Provider.client_id).redirect_uris

Authorizes ==
  LET client == Client(Provider.client_id) IN
  /\ "code" \in client.response_types
  /\ ScopesAllowed(client, ReAuth(request.client_id).upstream_scopes)
  /\ client.require_pkce => Provider.require_pkce

AwayAtUpstream == request.phase = "away" /\ AtUpstream /\ Running

(* The user signs in at the upstream, which grants the scopes asked for and *)
(* sends the browser back with a code or an error; or leaves the user at an *)
(* error page.  Names and URIs are such as its pages hand on unchanged      *)
(* (CodeFlow has what becomes of others).                                   *)
SignIn(subject) ==
  /\ AwayAtUpstream
  /\ IF ~Redirects THEN Refuse("stranded")
     ELSE IF ~Authorizes THEN Refuse("access")
     ELSE request' =
       [phase |-> "returned", client_id |-> request.client_id,
        issuer |-> request.issuer, nonce |-> request.nonce,
        starts |-> request.starts,
        code |-> [subject |-> subject,
                  scope |-> ReAuth(request.client_id).upstream_scopes,
                  client_id |-> Provider.client_id,
                  redirect_uri |-> Provider.redirect_uri,
                  challenged |-> Provider.require_pkce,
                  expires_at |-> clock + CodeTtl, starts |-> starts]]
  /\ UNCHANGED <<issuerVars, party>>

(* POST /consent of the upstream: the user says no; or the provider it asks *)
(* about this client's users in its turn does not identify one.             *)
Deny ==
  /\ AwayAtUpstream /\ Redirects /\ Authorizes
  /\ \/ Client(Provider.client_id).consent_mode = "always"
     \/ Client(Provider.client_id).auth_mode = "re_auth"
  /\ Refuse("denied")
  /\ UNCHANGED <<issuerVars, party>>

(* verify_pkce: a verifier comes if the provider has PKCE, and is the right *)
(* one.                                                                     *)
PkceHolds(client, challenged) ==
  IF challenged THEN Provider.require_pkce ELSE ~client.require_pkce

(* exchange_code: the upstream checks the secret and the code, and gets to  *)
(* work, or answers with an error.                                          *)
Exchange ==
  /\ request.phase = "returned"
  /\ LET client == Client(Provider.client_id)
         code   == request.code
     IN
     IF /\ Running
        /\ code.starts = starts
        /\ clock < code.expires_at
        /\ Provider.client_secret = client.client_secret
        /\ Provider.redirect_uri = code.redirect_uri
        /\ PkceHolds(client, code.challenged)
        /\ Ttl(client) # 0 /\ HasExpiry(client, clock)
     THEN /\ IssueToken(Provider.client_id, code.subject, code.scope,
                        request.nonce, "openid" \in code.scope)
          /\ request' = [request EXCEPT !.phase = "exchanging"]
     ELSE Refuse("exchange") /\ UNCHANGED work
  /\ UNCHANGED <<clock, files, planned, server, starts, party>>

(* The connection on which the upstream is working is still there. *)
Waiting == request.phase = "exchanging" /\ request.code.starts = starts

(* The answer with the ID token arrives, or an error does. *)
ReceiveTokens ==
  /\ Waiting
  /\ work.phase \in {"failed", "answered"}
  /\ IF work.phase = "answered" /\ work.openid
     THEN request' = [phase |-> "validating", client_id |-> request.client_id,
                      issuer |-> request.issuer, nonce |-> request.nonce,
                      starts |-> request.starts, id_token |-> work.id_token,
                      subject |-> request.code.subject]
     ELSE Refuse("exchange")
  /\ work' = Idle
  /\ UNCHANGED <<clock, files, planned, server, starts, party>>

(* The other provider answers with any token it can make. *)
ReceiveForeign(token) ==
  /\ request.phase = "away" /\ ~AtUpstream
  /\ request' = [phase |-> "validating", client_id |-> request.client_id,
                 issuer |-> request.issuer, nonce |-> request.nonce,
                 starts |-> request.starts, id_token |-> token,
                 subject |-> token.sub]
  /\ UNCHANGED <<issuerVars, party>>

(* The call's timeout of ten seconds, or a lost connection. *)
TimeOut ==
  /\ request.phase \in {"exchanging", "validating"}
  /\ Refuse("timeout")
  /\ UNCHANGED <<issuerVars, party>>

-----------------------------------------------------------------------------
(* Seeded fault: the algorithm a key is declared for is not compared. *)
IsVerificationKeyOfKind(jwk, algorithm) ==
  /\ jwk.use \in {None, "sig"}
  /\ jwk.key_ops # None => "verify" \in jwk.key_ops
  /\ IF algorithm = "ES256" THEN jwk.kty = "EC" /\ jwk.crv = "P-256"
     ELSE jwk.kty = "RSA"
  /\ jwk.public # None

(* RemoteJwk::decoding_key: the key may be used for the algorithm. *)
IsVerificationKey(jwk, algorithm) ==
  /\ jwk.use \in {None, "sig"}
  /\ jwk.alg \in {None, algorithm}
  /\ jwk.key_ops # None => "verify" \in jwk.key_ops
  /\ IF algorithm = "ES256" THEN jwk.kty = "EC" /\ jwk.crv = "P-256"
     ELSE jwk.kty = "RSA"
  /\ jwk.public # None

(* jsonwebtoken: the signature was made with the key's private half. *)
Verifies(jwk, token) == jwk.public = token.public

(* Seeded fault: the times are compared to the second. *)
InTimeExactly(token, now) == token.exp >= now /\ token.iat <= now

(* The times of a token, with the leeway for clocks that differ.            *)
InTime(token, now) == token.exp + Leeway >= now /\ token.iat <= now + Leeway

(* validate_id_token: the first key of that identifier is the key. *)
ValidIdToken(token, jwks) ==
  LET named == {i \in DOMAIN jwks : jwks[i].kid = token.kid}
      jwk   == jwks[Min(named)]
  IN
  /\ token.alg \in Provider.allowed_signing_algorithms
  /\ token.kid # None
  /\ named # {}
  /\ IsVerificationKey(jwk, token.alg)
  /\ Verifies(jwk, token)
  /\ token.iss = request.issuer
  /\ token.aud = Provider.client_id
  /\ None \notin {token.exp, token.iat}
  /\ InTime(token, Now)
  /\ token.nonce = request.nonce
  /\ token.sub \notin {None, <<>>}

(* validate_id_token, with the keys as they are published now. *)
Validate(jwks) ==
  /\ request.phase = "validating"
  /\ IF ValidIdToken(request.id_token, jwks)
     THEN request' = [phase |-> "identified", client_id |-> request.client_id,
                      id_token |-> request.id_token, jwks |-> jwks,
                      subject |-> request.subject, at |-> Now,
                      starts |-> request.starts]
     ELSE Refuse("token")
  /\ UNCHANGED <<issuerVars, party>>

FetchKeys ==
  \/ /\ request.phase = "validating" /\ AtUpstream
     /\ IF Running THEN Validate(SetToSeq(JwkSet(server.files)))
        ELSE Refuse("keys") /\ UNCHANGED <<issuerVars, party>>
  \/ /\ request.phase = "validating" /\ ~AtUpstream
     /\ \E jwks \in ForeignJwks : Validate(jwks)

(* The client has its answer, or the user has given up (a pending request   *)
(* expires); the next one may come.                                         *)
Answered ==
  /\ request.phase \in {"away", "returned", "identified", "refused"}
  /\ request' = Idle
  /\ UNCHANGED <<issuerVars, party>>

-----------------------------------------------------------------------------
(* The scopes that some client of the running server has. *)
AllScopes ==
  LET clients == Clients(server.files) IN UNION {clients[id].scopes : id \in DOMAIN clients}

Serve == Tick \/ Edit \/ Start \/ Stop

(* An answer nobody waits for any more, or of a local client, is sent.      *)
SentElsewhere == Sent /\ ~Waiting

Next ==
  \/ (Serve \/ Work \/ SentElsewhere) /\ UNCHANGED <<party, request>>
  \/ /\ Running /\ UNCHANGED <<party, request>>
     /\ \E id \in DOMAIN Clients(server.files) :
          \E scopes \in {None} \cup SUBSET AllScopes :
            ClientCredentials(id, scopes)
  \/ \E id \in DOMAIN Clients(party.files) : BeginReAuth(id)
  \/ \E subject \in Subjects : SignIn(subject)
  \/ Deny
  \/ Exchange \/ ReceiveTokens \/ TimeOut \/ FetchKeys \/ Answered
  \/ \E token \in ForeignTokens : ReceiveForeign(token)

Spec == Init /\ [][Next]_vars

(* A thread that renders goes on.                                           *)
FairSpec ==
  /\ Spec
  /\ WF_vars(Work /\ UNCHANGED <<party, request>>)

-----------------------------------------------------------------------------
(* Every token that leaves the server is verified by exactly one of the     *)
(* keys it publishes, for the algorithm in the token's header, and that     *)
(* algorithm is in the discovery document: whatever algorithms and key      *)
(* files the operator combines, a client can check what it gets.            *)
TokensVerify ==
  work.phase = "answered" =>
    \A t \in {work.access_token} \cup (IF work.openid THEN {work.id_token} ELSE {}) :
      /\ t.alg \in Discovery(server.files).id_token_signing_alg_values_supported
      /\ \E k \in JwkSet(server.files) :
           /\ k.public = t.public /\ k.alg = t.alg
           /\ \A other \in JwkSet(server.files) : other.kid = t.kid => other = k

(* Start-up leaves open whether ring signs with an RSA key, but not whether *)
(* one for PS256 is too short.                                              *)
LeftOpen(algorithm) ==
  \/ algorithm = "RS256"
  \/ algorithm = "PS256" /\ KeyFor(server.files, algorithm).bits >= 2048

(* What start-up accepts suffices, but for RSA keys: a running server has   *)
(* the key of every client, and every re-auth client's provider; and where  *)
(* it cannot sign, the key is one whose fitness start-up leaves open.       *)
StartupSuffices ==
  /\ work.phase = "failed" =>
       /\ work.reason # "key"
       /\ work.reason = "sign" =>
            LeftOpen(EffectiveAlgorithm(server.files.provider, Client(work.client_id)))
  /\ request.phase = "refused" => request.why # "server_error"

(* No value holds a placeholder or a loose dollar that its neighbours could *)
(* complete to one.                                                          *)
PlainValues ==
  \A n \in DOMAIN Context : Complete(Context[n].text) /\ Opens(Context[n].text) = {}

(* A string of the template that has been rendered is the string with each  *)
(* placeholder replaced once, when values are plain and the string has no   *)
(* loose dollar either.                                                     *)
RenderedInOnePass ==
  work.phase = "rendering" /\ PlainValues =>
    \A i \in DOMAIN work.rendered :
      LET r == work.rendered[i] IN
      r.value.kind = "string" /\ Complete(r.source) =>
        r.value.text = OnePass(r.source, Context)

(* An identity that is accepted is that of the user who signed in for this  *)
(* request, in a token the provider signed with a key that it publishes for *)
(* such signatures, not long ago.                                           *)
AcceptedIsGenuine ==
  request.phase = "identified" =>
    LET t == request.id_token IN
    /\ t.sub = request.subject
    /\ \E i \in DOMAIN request.jwks :
         LET k == request.jwks[i] IN
         /\ k.public = t.public
         /\ k.kty = (IF t.alg = "ES256" THEN "EC" ELSE "RSA")
         /\ k.alg = None \/ k.alg = t.alg
         /\ k.use # "enc" /\ k.key_ops \notin {{}, {"sign"}}
    /\ t.exp + Leeway >= request.at

(* The two configurations fit: issuer, client, secret, redirect URI,        *)
(* response type, scopes, PKCE, algorithm, a key that signs, a lifetime     *)
(* within the calendar, and a template that renders for this client and     *)
(* whoever signs in.                                                        *)
Match ==
  LET up     == server.files
      client == Client(Provider.client_id)
      scopes == ReAuth(request.client_id).upstream_scopes
  IN
  /\ Provider.issuer = up.provider.issuer /\ ~Provider.issuer.slash
  /\ Registered(Provider.client_id)
  /\ client.client_secret = Provider.client_secret
  /\ Provider.redirect_uri \in client.redirect_uris
  /\ "code" \in client.response_types
  /\ scopes \subseteq client.scopes
  /\ client.require_pkce => Provider.require_pkce
  /\ EffectiveAlgorithm(up.provider, client) \in Provider.allowed_signing_algorithms
  /\ CanSign(KeyFor(up, EffectiveAlgorithm(up.provider, client)))
  /\ Ttl(client) # 0 /\ \A now \in 0 .. MaxTime : HasExpiry(client, now)
  /\ HasRequiredClaims(up.template.claims)
  /\ \A subject \in Subjects : \A text \in Range(up.template.strings) :
       Renders(text, Bindings(client, subject, SetToSeq(scopes)))

(* The code had not expired when it was exchanged; the ID token was neither *)
(* too old nor too new by the relying server's clock, when it came to that. *)
Timely ==
  /\ request.code_expires_at # None => request.at < request.code_expires_at
  /\ request.issued_at # None =>
       /\ request.issued_at <= request.at + party.skew + Leeway
       /\ request.at + party.skew
            <= request.issued_at + Lifetime(Client(Provider.client_id)) + Leeway

(* A request is refused for a reason: the user said no, the upstream was    *)
(* down or restarted meanwhile, a call timed out, the code came too late,   *)
(* or the two configurations or clocks do not fit.  Otherwise the servers   *)
(* understand each other, whatever algorithms, keys and templates they use. *)
RefusalsHaveReasons ==
  (request.phase = "refused" /\ AtUpstream /\ Running) =>
    \/ request.starts # starts
    \/ request.why \in {"timeout", "denied"}
    \/ ~Match
    \/ ~Timely

(* A token request is answered, unless some value leads back to itself.     *)
RequestsAreAnswered ==
  (work.phase = "rendering" /\ Acyclic(Context)) ~> work.phase # "rendering"

-----------------------------------------------------------------------------
(* Why the properties above hold, whatever operators and users do.          *)

(* A process runs from a directory of the plans. *)
ServerOK ==
  /\ server \in {Stopped} \cup [running : {TRUE}, files : Directories]
  /\ Running => server.files \in Directories

(* A rendering keeps what it began with, and expands the next string. *)
RenderingOK ==
  work.phase = "rendering" =>
    /\ DOMAIN work = {"phase", "client_id", "subject", "scope", "nonce", "openid",
                      "issued_at", "todo", "text", "rendered"}
    /\ work.issued_at \in Nat
    /\ work.subject \in Seq(Range(work.subject))
    /\ work.scope # None => IsFiniteSet(work.scope)
    /\ work.todo \in Seq(Seq(STRING))
    /\ work.text # None => work.todo # <<>> /\ work.text \in Seq(Range(work.text))
    /\ work.rendered \in Seq(Range(work.rendered))

(* The server made the token, for the client. *)
Made(token, client_id) ==
  LET algorithm == EffectiveAlgorithm(server.files.provider, Client(client_id)) IN
  /\ algorithm \in SigningAlgorithms(server.files)
  /\ token.alg = algorithm
  /\ token.kid = Kid(KeyFor(server.files, algorithm))
  /\ token.public = KeyFor(server.files, algorithm).public

MadeIdToken(token, client_id) ==
  /\ Made(token, client_id)
  /\ token.iss = server.files.provider.issuer
  /\ token.aud = client_id
  /\ token.iat \in Nat
  /\ token.exp = token.iat + Lifetime(Client(client_id))

AnswerOK ==
  /\ work.phase = "failed" =>
       /\ work.reason # "key"
       /\ work.reason = "sign" =>
            LeftOpen(EffectiveAlgorithm(server.files.provider, Client(work.client_id)))
  /\ work.phase = "answered" =>
       /\ Made(work.access_token, work.client_id)
       /\ work.openid => MadeIdToken(work.id_token, work.client_id)

(* A request belongs to a re-auth client and to this run of the upstream or *)
(* an earlier one.                                                          *)
RequestOK ==
  request # Idle =>
    /\ Clients(party.files)[request.client_id].auth_mode = "re_auth"
    /\ request.starts \in 0 .. starts
    /\ request.phase \in {"away", "returned", "exchanging", "validating"} =>
         request.issuer = Provider.issuer

(* A code was given to a user for the scopes and the client of the request. *)
CodeOK ==
  request.phase \in {"returned", "exchanging"} =>
    /\ DOMAIN request = {"phase", "client_id", "issuer", "nonce", "starts", "code"}
    /\ AtUpstream
    /\ request.code.starts \in request.starts .. starts
    /\ request.code.subject \in Subjects
    /\ request.code.scope = ReAuth(request.client_id).upstream_scopes
    /\ request.code.expires_at \in Nat
    /\ request.code.redirect_uri = Provider.redirect_uri
    /\ request.code.challenged = Provider.require_pkce
    /\ request.code.starts = starts /\ Running =>
         /\ Registered(Provider.client_id)
         /\ ScopesAllowed(Client(Provider.client_id), request.code.scope)

(* The server works on the request that waits for it. *)
OwnWork ==
  Waiting /\ Running =>
    /\ work # Idle
    /\ work.client_id = Provider.client_id
    /\ work.phase = "rendering" =>
         /\ work.subject = request.code.subject
         /\ work.scope = request.code.scope
         /\ work.nonce = request.nonce
         /\ work.openid
    /\ work.phase = "answered" =>
         /\ work.openid
         /\ work.id_token.sub = request.code.subject
         /\ work.id_token.nonce = request.nonce

(* What it works on does not fail when the configurations match. *)
WorkSucceeds ==
  Waiting /\ Running /\ request.starts = starts /\ Match =>
    /\ work.phase # "failed"
    /\ work.phase = "rendering" =>
         /\ \A i \in DOMAIN work.todo : Renders(work.todo[i], Context)
         /\ work.text # None => Expands(work.text, Context)

(* The token that is validated is the user's, and this run's if the         *)
(* upstream was not restarted.                                              *)
ValidatingOK ==
  request.phase = "validating" =>
    /\ request.subject = request.id_token.sub
    /\ AtUpstream => request.subject \in Subjects
    /\ AtUpstream /\ Running /\ request.starts = starts =>
         /\ Registered(Provider.client_id)
         /\ MadeIdToken(request.id_token, Provider.client_id)
         /\ request.id_token.nonce = request.nonce

(* A text on the way is what one pass makes of the source up to some place, *)
(* followed by the source from there on.                                    *)
OnePassOK ==
  work.phase = "rendering" /\ PlainValues /\ work.text # None /\ Complete(Head(work.todo)) =>
    LET source == Head(work.todo) IN
    \E done \in 0 .. Len(work.text), next \in 1 .. Len(source) + 1 :
      LET out == SubSeq(work.text, 1, done) IN
      /\ work.text = out \o SubSeq(source, next, Len(source))
      /\ OnePass(source, Context) = out \o Pass(source, Context)[next]
      /\ Complete(out) /\ Opens(out) = {}

IInv ==
  /\ TypeOK /\ ServerOK
  /\ RenderingOK /\ AnswerOK
  /\ RequestOK /\ CodeOK /\ OwnWork /\ WorkSucceeds /\ ValidatingOK
  /\ OnePassOK

-----------------------------------------------------------------------------
(* "assert_eq!(claims["iss"], issuer)": an ID token names the issuer of the *)
(* discovery document.                                                      *)
IssuersAgree ==
  work.phase = "answered" /\ work.openid =>
    work.id_token.iss = Discovery(server.files).issuer
=============================================================================
