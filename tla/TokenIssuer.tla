----------------------------- MODULE TokenIssuer -----------------------------
(***************************************************************************)
(* A server from its configuration directory to its tokens: an operator     *)
(* edits the directory, the server starts from it or refuses to             *)
(* (Configuration), and answers token requests (issue_token, build_id_token *)
(* and sign_token of src/src/handlers.rs), rendering the claims a step at a *)
(* time (TokenTemplate).                                                    *)
(***************************************************************************)
EXTENDS Configuration, TokenTemplate, SequencesExt

CONSTANTS
  Plans,        \* directories, [before, after]: what the operator makes of them
  Subjects,     \* users of the server, as texts
  MaxTime,      \* bound on the clock
  MaxRestarts,  \* bound on the starts of the server
  MaxText,      \* bound on a text that grows while it is rendered
  MaxDate       \* last (and first, below zero) time of the calendar

ASSUME BoundsAreNatural == {MaxTime, MaxRestarts, MaxText, MaxDate} \subseteq Nat

(* UsersFile and Directory of src/src/users.rs: identifiers are not empty.  *)
ASSUME SubjectsAreTexts ==
  Subjects \subseteq Seq(STRING) /\ <<>> \notin Subjects /\ None \notin Subjects

Directories == UNION {{p.before, p.after} : p \in Plans}

ASSUME PlansAreDirectories ==
  \A d \in Directories :
    /\ IsDirectory(d)
    /\ d.template.strings \in Seq(Seq(STRING))
    /\ \A i \in DOMAIN d.clients :
         LET client == d.clients[i] IN
         /\ IsFiniteSet(client.scopes)
         /\ \A n \in DOMAIN client.metadata : client.metadata[n].text \in Seq(STRING)

VARIABLES
  clock,    \* Utc::now() of this server
  files,    \* the configuration directory
  planned,  \* the directory the operator's edit will leave
  server,   \* the process: the files it was started from, or Stopped
  starts,   \* how often it was started
  work      \* the token request it is answering

issuerVars == <<clock, files, planned, server, starts, work>>

-----------------------------------------------------------------------------
Stopped == [running |-> FALSE]

Idle == [phase |-> "idle"]

Running == server.running

Client(id) == Clients(server.files)[id]

Registered(id) == Running /\ id \in DOMAIN Clients(server.files)

IssuerTypeOK ==
  /\ clock \in 0 .. MaxTime
  /\ starts \in 0 .. MaxRestarts + 1
  /\ {files, planned} \subseteq Directories
  /\ Running => Initializes(server.files)
  /\ work.phase \in {"idle", "rendering", "failed", "answered"}
  /\ work # Idle =>
       /\ Registered(work.client_id)
       /\ work.scope # None => work.scope \subseteq Client(work.client_id).scopes

IssuerInit ==
  /\ clock = 0
  /\ \E p \in Plans : files = p.before /\ planned = p.after
  /\ server = Stopped
  /\ starts = 0
  /\ work = Idle

-----------------------------------------------------------------------------
Tick ==
  /\ clock < MaxTime
  /\ clock' = clock + 1
  /\ UNCHANGED <<files, planned, server, starts, work>>

(* The operator edits the directory; a process that runs does not notice. *)
Edit ==
  /\ files # planned
  /\ files' = planned
  /\ UNCHANGED <<clock, planned, server, starts, work>>

(* AppState::initialize: the process starts, or exits with an error. *)
Start ==
  /\ ~Running
  /\ starts <= MaxRestarts
  /\ Initializes(files)
  /\ server' = [running |-> TRUE, files |-> files]
  /\ starts' = starts + 1
  /\ UNCHANGED <<clock, files, planned, work>>

(* The process ends, and requests with it. *)
Stop ==
  /\ Running
  /\ server' = Stopped
  /\ work' = Idle
  /\ UNCHANGED <<clock, files, planned, starts>>

-----------------------------------------------------------------------------
(* Seeded fault: any scope will do. *)
ScopesAllowedAny(client, requested) == requested # None => requested # {}

(* validate_scopes: None without a scope parameter; {} for a blank one.     *)
ScopesAllowed(client, requested) ==
  requested # None => requested # {} /\ requested \subseteq client.scopes

GrantedScopes(client, requested) ==
  IF requested # None THEN requested
  ELSE IF client.scopes = {} THEN None ELSE client.scopes

Ttl(client) ==
  IF client.token_ttl_seconds = None
  THEN server.files.provider.token_ttl_seconds
  ELSE client.token_ttl_seconds

Lifetime(client) == AsSigned(Ttl(client))

(* checked_add_signed(Duration::seconds(..)): beyond the calendar there is  *)
(* an error, and further out a panic that closes the connection.            *)
HasExpiry(client, now) == now + Lifetime(client) \in -MaxDate .. MaxDate

(* issue_token begins: it reads the clock and the time to live.             *)
IssueToken(client_id, subject, scope, nonce, openid) ==
  /\ work = Idle
  /\ Ttl(Client(client_id)) # 0 /\ HasExpiry(Client(client_id), clock)
  /\ work' = [phase |-> "rendering", client_id |-> client_id,
              subject |-> subject, scope |-> scope, nonce |-> nonce,
              openid |-> openid, issued_at |-> clock,
              todo |-> server.files.template.strings, text |-> None,
              rendered |-> <<>>]

(* POST /oauth/token with the client_credentials grant, by a client whose   *)
(* secret was verified.                                                     *)
ClientCredentials(client_id, requested) ==
  /\ Registered(client_id)
  /\ ScopesAllowed(Client(client_id), requested)
  /\ IssueToken(client_id, <<client_id>>,
                GrantedScopes(Client(client_id), requested), None, FALSE)
  /\ UNCHANGED <<clock, files, planned, server, starts>>

(* The names resolve_placeholder knows for one token; those of the metadata *)
(* are written "metadata.<key>" in the configuration's `metadata` too.      *)
Bindings(client, subject, scope) ==
  [name \in {"client_id", "subject", "scope", "issued_at", "expires_at", "uuid"}
              \cup (IF client.audience = None THEN {} ELSE {"audience"})
              \cup DOMAIN client.metadata |->
     CASE name = "client_id"  -> String(<<client.client_id>>)
       [] name = "subject"    -> String(subject)
       [] name = "audience"   -> String(<<client.audience>>)
       [] name = "scope"      -> String(scope)
       [] name = "issued_at"  -> Scalar(<<name>>)
       [] name = "expires_at" -> Scalar(<<name>>)
       [] name = "uuid"       -> String(<<name>>)
       [] OTHER               -> client.metadata[name]]

Context ==
  Bindings(Client(work.client_id), work.subject,
           IF work.scope = None THEN <<>> ELSE SetToSeq(work.scope))

(* An internal error: the template, no key, or one that does not sign. *)
Fail(reason) ==
  work' = [phase |-> "failed", client_id |-> work.client_id,
           scope |-> work.scope, reason |-> reason]

Rendered(source, value) ==
  [work EXCEPT !.text = None, !.todo = Tail(@),
               !.rendered = Append(@, [source |-> source, value |-> value])]

(* substitute_value, at the next string of the template. *)
RenderString ==
  /\ work.phase = "rendering" /\ work.text = None /\ work.todo # <<>>
  /\ LET text  == Head(work.todo)
         value == Whole(text, Context)
     IN
     IF ~IsPlaceholder(text) THEN work' = [work EXCEPT !.text = text]
     ELSE IF value = Error THEN Fail("template")
     ELSE work' = Rendered(text, value)
  /\ UNCHANGED <<clock, files, planned, server, starts>>

(* The loop over a string that holds placeholders. *)
ExpandString ==
  /\ work.phase = "rendering" /\ work.text # None
  /\ Len(work.text) <= MaxText
  /\ IF Opens(work.text) = {} THEN work' = Rendered(Head(work.todo), String(work.text))
     ELSE LET expanded == ExpandFirst(work.text, Context) IN
          IF expanded = Error THEN Fail("template")
          ELSE work' = [work EXCEPT !.text = expanded.text]
  /\ UNCHANGED <<clock, files, planned, server, starts>>

(* sign_token: the header names the key. *)
Signed(algorithm, claims) ==
  LET key == KeyFor(server.files, algorithm) IN
  [field \in {"alg", "kid", "public"} \cup DOMAIN claims |->
     CASE field = "alg"    -> algorithm
       [] field = "kid"    -> Kid(key)
       [] field = "public" -> key.public
       [] OTHER            -> claims[field]]

(* The claims are complete, and both tokens are signed and sent.            *)
Sign ==
  /\ work.phase = "rendering" /\ work.text = None /\ work.todo = <<>>
  /\ LET client    == Client(work.client_id)
         algorithm == EffectiveAlgorithm(server.files.provider, client)
         expires   == work.issued_at + Lifetime(client)
     IN
     IF ~HasRequiredClaims(server.files.template.claims) THEN Fail("template")
     ELSE IF algorithm \notin SigningAlgorithms(server.files) THEN Fail("key")
     ELSE IF ~CanSign(KeyFor(server.files, algorithm)) THEN Fail("sign")
     ELSE work' =
       [phase |-> "answered", client_id |-> work.client_id,
        scope |-> work.scope, openid |-> work.openid,
        access_token |-> Signed(algorithm, [exp |-> expires]),
        id_token |-> IF ~work.openid THEN None
                     ELSE Signed(algorithm,
                            [iss |-> server.files.provider.issuer,
                             sub |-> work.subject, aud |-> client.client_id,
                             iat |-> work.issued_at, exp |-> expires,
                             nonce |-> work.nonce])]
  /\ UNCHANGED <<clock, files, planned, server, starts>>

Work == RenderString \/ ExpandString \/ Sign

(* The answer has been sent. *)
Sent ==
  /\ work.phase \in {"failed", "answered"}
  /\ work' = Idle
  /\ UNCHANGED <<clock, files, planned, server, starts>>
=============================================================================
