------------------------------ MODULE ReAuthFlow ------------------------------
(***************************************************************************)
(* Re-authentication (src/src/handlers.rs, src/src/upstream.rs): /authorize *)
(* of a re-auth client, the callback of its upstream provider, the local    *)
(* consent, and the HTTP calls Pocket-OID makes in between.                 *)
(*                                                                         *)
(* A handler holds its transaction across its awaits: it was taken out of   *)
(* the table before the first of them.  Each call is answered, fails, or is *)
(* ended by the client's timeout; the browser may go away meanwhile, open a *)
(* link twice, or have several requests under way.                          *)
(***************************************************************************)
EXTENDS ExpiringMap, Sequences, FiniteSets

CONSTANTS
  Configs,        \* configurations an operator may write
  Subjects,       \* what providers put in `sub`, as sequences of characters
  States,         \* random upstream states
  UpstreamCodes,  \* codes of the providers
  Codes,          \* codes of Pocket-OID
  ConsentIds,     \* UUIDs
  Slots,          \* handlers in progress
  None,           \* the code of a callback that carries an error
  ReauthTtl, ConsentTtl,   \* 300 and 300 seconds in the code
  Timeout,                 \* 10 seconds in the code
  MaxTime, MaxRestarts     \* bounds on the clock and on restarts

(* A configuration: provider_id -> [pkce], client -> [provider, consent].   *)
Clients == UNION {DOMAIN c.clients : c \in Configs}

Providers == UNION {DOMAIN c.providers : c \in Configs}

ASSUME ParametersAreWellFormed ==
  /\ \A c \in Configs :
       /\ c.providers \in [DOMAIN c.providers -> [pkce : BOOLEAN]]
       /\ c.clients \in [DOMAIN c.clients ->
                          [provider : Providers, consent : {"local", "skip"}]]
  /\ Providers \cup Subjects \subseteq Seq(STRING)
  /\ None \notin UpstreamCodes
  /\ {ReauthTtl, ConsentTtl, MaxTime, MaxRestarts} \subseteq Nat
  /\ Timeout \in Nat \ {0}

VARIABLES
  clock,       \* Utc::now()
  config,      \* the clients and trusted providers of this run of the server
  pending,     \* AuthStore::pending_reauth, by upstream state
  consents,    \* AuthStore::pending_reauth_consents
  calls,       \* handlers waiting for an HTTP call
  visits,      \* states of the requests that reached their provider
  upstream,    \* codes the providers issued
  callbacks,   \* redirects of the providers to Pocket-OID
  restarts,
  begun,       \* history: every transaction
  answers,     \* history: what the client was redirected with, by state
  granted,     \* history: every code issued
  drawn,       \* history: the consent ids given out
  dropped      \* history: transactions lost with a connection or a process

tables == <<pending, consents>>
outside == <<visits, upstream, callbacks>>
history == <<begun, answers, granted, drawn, dropped>>
vars == <<clock, config, tables, calls, outside, restarts, history>>

-----------------------------------------------------------------------------
(* The nonce and the PKCE verifier are drawn with the state and named by it.*)
Transaction == [client : Clients, provider : Providers, expires_at : Nat]

User == [provider : Providers, subject : Subjects]

(* The transaction a consent came from is history. *)
PendingConsent == [user : User, state : States, client : Clients, expires_at : Nat]

Idle == [phase |-> "idle"]

Call ==
  {Idle}
  \cup [phase : {"discovering"}, client : Clients, since : Nat]
  \cup [phase : {"exchanging"}, state : States, transaction : Transaction,
        code : UpstreamCodes, since : Nat]
  \cup [phase : {"validating"}, state : States, transaction : Transaction,
        subject : Subjects, nonce : States, since : Nat]

(* A code of a provider, for the request with a given nonce; challenge is   *)
(* the state the verifier belongs to.                                       *)
UpstreamCode ==
  [provider : Providers, subject : Subjects, nonce : States,
   challenge : States \cup {None}, used : BOOLEAN]

TypeOK ==
  /\ clock \in Nat
  /\ config \in Configs
  /\ IsTable(pending, States, Transaction)
  /\ IsTable(consents, ConsentIds, PendingConsent)
  /\ calls \in [Slots -> Call]
  /\ visits \subseteq States
  /\ IsTable(upstream, UpstreamCodes, UpstreamCode)
  /\ callbacks \subseteq [provider : Providers, state : States,
                          code : UpstreamCodes \cup {None}]
  /\ restarts \in Nat
  /\ IsTable(begun, States, [client : Clients, provider : Providers, at : Nat])
  /\ answers \in [States -> Seq({"code", "error"})]
  /\ IsTable(granted, Codes, [state : States, user : User, client : Clients,
                              at : Nat])
  /\ drawn \subseteq ConsentIds
  /\ dropped \subseteq States

-----------------------------------------------------------------------------
(* The local subject of a user: format!("{provider_id}:{subject}"). *)
UserId(user) == user.provider \o <<":">> \o user.subject

(* Seeded fault: a provider_id may contain the separator. *)
LoadsAnyId(c) == \A a \in DOMAIN c.clients : c.clients[a].provider \in DOMAIN c.providers

(* The part of the configuration's validation that matters here: provider   *)
(* identifiers have no colon, clients name a provider that is there.        *)
Loads(c) ==
  /\ \A p \in DOMAIN c.providers : \A i \in DOMAIN p : p[i] # ":"
  /\ \A a \in DOMAIN c.clients : c.clients[a].provider \in DOMAIN c.providers

Init ==
  /\ clock = 0
  /\ config \in {c \in Configs : Loads(c)}
  /\ pending = NoEntries
  /\ consents = NoEntries
  /\ calls = [s \in Slots |-> Idle]
  /\ visits = {}
  /\ upstream = NoEntries
  /\ callbacks = {}
  /\ restarts = 0
  /\ begun = NoEntries
  /\ answers = [s \in States |-> <<>>]
  /\ granted = NoEntries
  /\ drawn = {}
  /\ dropped = {}

-----------------------------------------------------------------------------
Goto(slot, call) == calls' = [calls EXCEPT ![slot] = call]

In(slot, phase) == calls[slot].phase = phase

Answer(state, answer) == answers' = [answers EXCEPT ![state] = Append(@, answer)]

(* issue_authorization_code_redirect_for_downstream; what becomes of the    *)
(* code is in CodeFlow.                                                     *)
IssueCode(state, client, user) ==
  /\ \E code \in Codes \ DOMAIN granted :
       granted' = Put(granted, code, [state |-> state, user |-> user,
                                      client |-> client, at |-> clock])
  /\ Answer(state, "code")

-----------------------------------------------------------------------------
(* Time does not pass a call's timeout: reqwest ends the call before. *)
Tick ==
  /\ clock < MaxTime
  /\ \A slot \in Slots : calls[slot] # Idle => clock < calls[slot].since + Timeout
  /\ clock' = clock + 1
  /\ UNCHANGED <<config, tables, calls, outside, restarts, history>>

(* begin_reauth, up to the discovery of the provider. *)
Authorize(slot, client) ==
  /\ calls[slot] = Idle
  /\ client \in DOMAIN config.clients
  /\ Goto(slot, [phase |-> "discovering", client |-> client, since |-> clock])
  /\ UNCHANGED <<clock, config, tables, outside, restarts, history>>

(* The metadata arrived: create_pending_reauth, and off to the provider. *)
BeginReauth(slot) ==
  LET client   == calls[slot].client
      provider == config.clients[client].provider
  IN
  /\ In(slot, "discovering")
  /\ \E state \in States \ DOMAIN begun :
       /\ pending' = Put(Live(pending, clock), state,
                         [client |-> client, provider |-> provider,
                          expires_at |-> clock + ReauthTtl])
       /\ begun' = Put(begun, state, [client |-> client, provider |-> provider,
                                      at |-> clock])
       /\ visits' = visits \cup {state}
  /\ Goto(slot, Idle)
  /\ UNCHANGED <<clock, config, consents, upstream, callbacks, restarts, answers,
                 granted, drawn, dropped>>

(* The provider lets a user in, as often as the browser asks it to. *)
UpstreamLogin(state, subject) ==
  LET provider == begun[state].provider IN
  /\ state \in visits
  /\ \E code \in UpstreamCodes \ DOMAIN upstream :
       upstream' = Put(upstream, code,
         [provider |-> provider, subject |-> subject, nonce |-> state,
          challenge |-> IF config.providers[provider].pkce THEN state ELSE None,
          used |-> FALSE])
  /\ UNCHANGED <<clock, config, tables, calls, visits, callbacks, restarts, history>>

(* The provider sends the browser back with one of its codes, or an error.  *)
(* Nothing is assumed about which of its codes it sends with which state,   *)
(* or about which provider answers for a state.                             *)
UpstreamRedirect(provider, state, code) ==
  /\ state \in visits
  /\ provider \in DOMAIN config.providers
  /\ code # None => code \in DOMAIN upstream /\ upstream[code].provider = provider
  /\ LET callback == [provider |-> provider, state |-> state, code |-> code] IN
     /\ callback \notin callbacks
     /\ callbacks' = callbacks \cup {callback}
  /\ UNCHANGED <<clock, config, tables, calls, visits, upstream, restarts, history>>

-----------------------------------------------------------------------------
(* Seeded fault: a callback for the wrong provider takes the transaction. *)
CallbackTakesAny(slot, callback) ==
  LET live  == Live(pending, clock)
      state == callback.state
  IN
  /\ calls[slot] = Idle
  /\ pending' = Drop(live, state)
  /\ IF state \in DOMAIN live /\ live[state].provider = callback.provider
     THEN IF callback.code = None
          THEN Answer(state, "error") /\ UNCHANGED calls
          ELSE /\ Goto(slot, [phase |-> "exchanging", state |-> state,
                              transaction |-> live[state],
                              code |-> callback.code, since |-> clock])
               /\ UNCHANGED answers
     ELSE UNCHANGED <<calls, answers>>
  /\ UNCHANGED <<clock, config, consents, outside, restarts, begun, granted,
                 drawn, dropped>>

(* Seeded fault: the transaction stays in the table until it is answered. *)
CallbackKeeps(slot, callback) ==
  LET live  == Live(pending, clock)
      state == callback.state
  IN
  /\ calls[slot] = Idle
  /\ pending' = live
  /\ IF state \in DOMAIN live /\ live[state].provider = callback.provider
     THEN IF callback.code = None
          THEN Answer(state, "error") /\ UNCHANGED calls
          ELSE /\ Goto(slot, [phase |-> "exchanging", state |-> state,
                              transaction |-> live[state],
                              code |-> callback.code, since |-> clock])
               /\ UNCHANGED answers
     ELSE UNCHANGED <<calls, answers>>
  /\ UNCHANGED <<clock, config, consents, outside, restarts, begun, granted,
                 drawn, dropped>>

(* GET /reauth/callback/:provider_id.  The transaction is consumed, unless  *)
(* it is another provider's, before anything is asked of the provider.      *)
Callback(slot, callback) ==
  LET live  == Live(pending, clock)
      state == callback.state
  IN
  /\ calls[slot] = Idle
  /\ callback.provider \in DOMAIN config.providers
  /\ \/ /\ ~(state \in DOMAIN live /\ live[state].provider = callback.provider)
        /\ pending' = live
        /\ UNCHANGED <<calls, answers>>
     \/ /\ state \in DOMAIN live /\ live[state].provider = callback.provider
        /\ pending' = Drop(live, state)
        /\ \/ /\ callback.code = None
              /\ Answer(state, "error")
              /\ UNCHANGED calls
           \/ /\ callback.code # None
              /\ Goto(slot, [phase |-> "exchanging", state |-> state,
                             transaction |-> live[state],
                             code |-> callback.code, since |-> clock])
              /\ UNCHANGED answers
  /\ UNCHANGED <<clock, config, consents, outside, restarts, begun, granted,
                 drawn, dropped>>

(* The token endpoint of the provider takes its code once, with the         *)
(* verifier it was asked for; the answer comes back.                        *)
ExchangeCode(slot) ==
  LET call == calls[slot]
      code == upstream[call.code]
  IN
  /\ In(slot, "exchanging")
  /\ ~code.used
  /\ code.challenge \in {None, call.state}
  /\ upstream' = [upstream EXCEPT ![call.code].used = TRUE]
  /\ Goto(slot, [phase |-> "validating", state |-> call.state,
                 transaction |-> call.transaction, subject |-> code.subject,
                 nonce |-> code.nonce, since |-> clock])
  /\ UNCHANGED <<clock, config, tables, visits, callbacks, restarts, history>>

(* The same, but the answer is lost: the call will time out. *)
ExchangeLost(slot) ==
  /\ In(slot, "exchanging")
  /\ ~upstream[calls[slot].code].used
  /\ upstream' = [upstream EXCEPT ![calls[slot].code].used = TRUE]
  /\ UNCHANGED <<clock, config, tables, calls, visits, callbacks, restarts, history>>

(* Seeded fault: the nonce of the id_token is not compared. *)
AnyNonce(call) == TRUE

NonceMatches(call) == call.nonce = call.state

(* Seeded fault: the consent goes by the upstream state. *)
NewConsentByState(id, state, client, user) ==
  Put(Live(consents, clock), state,
      [user |-> user, state |-> state, client |-> client,
       expires_at |-> clock + ConsentTtl])

(* create_pending_reauth_consent *)
NewConsent(id, state, client, user) ==
  Put(Live(consents, clock), id,
      [user |-> user, state |-> state, client |-> client,
       expires_at |-> clock + ConsentTtl])

(* The keys arrived and the id_token is valid: the code, or the consent of  *)
(* the user first.                                                          *)
ValidateIdToken(slot) ==
  LET call   == calls[slot]
      client == call.transaction.client
      user   == [provider |-> call.transaction.provider, subject |-> call.subject]
  IN
  /\ In(slot, "validating")
  /\ NonceMatches(call)
  /\ \/ /\ config.clients[client].consent = "skip"
        /\ IssueCode(call.state, client, user)
        /\ UNCHANGED <<consents, drawn>>
     \/ /\ config.clients[client].consent = "local"
        /\ \E id \in ConsentIds \ drawn :
             /\ consents' = NewConsent(id, call.state, client, user)
             /\ drawn' = drawn \cup {id}
        /\ UNCHANGED <<granted, answers>>
  /\ Goto(slot, Idle)
  /\ UNCHANGED <<clock, config, pending, outside, restarts, begun, dropped>>

(* A call is refused, times out, or answers with something that is not      *)
(* accepted.  The client gets an error; nothing is tried again.             *)
Fail(slot) ==
  /\ calls[slot] # Idle
  /\ IF In(slot, "discovering") THEN UNCHANGED answers
     ELSE Answer(calls[slot].state, "error")
  /\ Goto(slot, Idle)
  /\ UNCHANGED <<clock, config, tables, outside, restarts, begun, granted,
                 drawn, dropped>>

(* The browser goes away: the handler is dropped where it waits. *)
Disconnect(slot) ==
  /\ calls[slot] # Idle
  /\ dropped' = IF In(slot, "discovering") THEN dropped
                ELSE dropped \cup {calls[slot].state}
  /\ Goto(slot, Idle)
  /\ UNCHANGED <<clock, config, tables, outside, restarts, begun, answers,
                 granted, drawn>>

-----------------------------------------------------------------------------
(* GET /reauth/consent/:transaction_id only looks. *)
ConsentPage(id) ==
  /\ id \in DOMAIN consents
  /\ consents' = Live(consents, clock)
  /\ UNCHANGED <<clock, config, pending, calls, outside, restarts, history>>

(* POST /reauth/consent: of two submissions one finds the consent. *)
Consent(id, decision) ==
  LET live   == Live(consents, clock)
      asking == live[id]
  IN
  /\ consents' = Drop(live, id)
  /\ \/ /\ id \notin DOMAIN live
        /\ UNCHANGED <<answers, granted>>
     \/ /\ id \in DOMAIN live /\ decision = "approve"
        /\ IssueCode(asking.state, asking.client, asking.user)
     \/ /\ id \in DOMAIN live /\ decision = "deny"
        /\ Answer(asking.state, "error")
        /\ UNCHANGED granted
  /\ UNCHANGED <<clock, config, pending, calls, outside, restarts, begun, drawn,
                 dropped>>

(* Everything in memory is lost; the browsers and the providers go on. *)
Restart ==
  /\ restarts < MaxRestarts
  /\ restarts' = restarts + 1
  /\ pending' = NoEntries
  /\ consents' = NoEntries
  /\ calls' = [s \in Slots |-> Idle]
  /\ dropped' = dropped \cup {s \in DOMAIN begun : answers[s] = <<>>}
  /\ UNCHANGED <<clock, config, outside, begun, answers, granted, drawn>>

-----------------------------------------------------------------------------
Next ==
  \/ Tick
  \/ Restart
  \/ \E slot \in Slots :
       \/ BeginReauth(slot) \/ ExchangeCode(slot) \/ ExchangeLost(slot)
       \/ ValidateIdToken(slot) \/ Fail(slot) \/ Disconnect(slot)
       \/ \E client \in Clients : Authorize(slot, client)
       \/ \E callback \in callbacks : Callback(slot, callback)
  \/ \E state \in States, subject \in Subjects : UpstreamLogin(state, subject)
  \/ \E provider \in Providers, state \in States,
        code \in UpstreamCodes \cup {None} :
       UpstreamRedirect(provider, state, code)
  \/ \E id \in ConsentIds :
       ConsentPage(id) \/ \E decision \in {"approve", "deny"} : Consent(id, decision)

Spec == Init /\ [][Next]_vars

-----------------------------------------------------------------------------
(* The client is redirected to at most once for a transaction, with a code  *)
(* or an error: callbacks opened twice, several codes for one state and     *)
(* consent forms sent twice are answered by Pocket-OID itself.              *)
ClientHearsOnce == \A state \in States : Len(answers[state]) <= 1

InCall(state) ==
  \E slot \in Slots :
    calls[slot].phase \in {"exchanging", "validating"} /\ calls[slot].state = state

InConsent(state) == \E id \in DOMAIN consents : consents[id].state = state

(* A transaction is in one place only, and until its first time limit it is *)
(* somewhere: waiting for its callback, in a handler, waiting for consent,  *)
(* or answered, unless its connection or the process was lost.              *)
NothingVanishes ==
  \A state \in DOMAIN begun :
    LET places == {p \in {"pending", "call", "consent", "answered"} :
                     CASE p = "pending"  -> state \in DOMAIN pending
                       [] p = "call"     -> InCall(state)
                       [] p = "consent"  -> InConsent(state)
                       [] p = "answered" -> answers[state] # <<>>}
    IN
    /\ Cardinality(places) <= 1
    /\ \/ places # {}
       \/ state \in dropped
       \/ clock >= begun[state].at + ReauthTtl
       \/ clock >= begun[state].at + ConsentTtl

(* A code is for a user whom the provider registered for the client let in  *)
(* in answer to this very request, whatever state and code the provider put *)
(* together.                                                                *)
AuthenticatedForThisRequest ==
  \A c \in DOMAIN granted :
    LET g == granted[c] IN
    /\ g.client = begun[g.state].client
    /\ g.user.provider = config.clients[g.client].provider
    /\ \E u \in DOMAIN upstream :
         /\ upstream[u].provider = g.user.provider
         /\ upstream[u].subject = g.user.subject
         /\ upstream[u].nonce = g.state

(* Users of different providers, and different users of one provider, never *)
(* share a local subject.                                                   *)
SubjectsAreDistinct ==
  \A c, d \in DOMAIN granted :
    UserId(granted[c].user) = UserId(granted[d].user)
      => granted[c].user = granted[d].user

(* The code comes within the two time limits and the two HTTP timeouts that *)
(* lie on its way.                                                          *)
SoonAfterRequest ==
  \A c \in DOMAIN granted :
    granted[c].at < begun[granted[c].state].at
                      + ReauthTtl + 2 * Timeout + ConsentTtl
=============================================================================
