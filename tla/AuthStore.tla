------------------------------ MODULE AuthStore ------------------------------
(***************************************************************************)
(* AuthStore (src/src/auth.rs): the four tables behind the authorization    *)
(* flows, each in a lock of its own, shared by every request handler.       *)
(*                                                                         *)
(* Every operation first reads the wall clock (and draws a random           *)
(* identifier when it creates something), then waits for the lock of its    *)
(* table, then works under it on what it read before.  The two halves are   *)
(* two actions, so a slow caller acts on an instant that is long past while *)
(* others have purged the table with a later one.                           *)
(***************************************************************************)
EXTENDS ExpiringMap

CONSTANTS
  Workers,      \* threads that run handlers
  SessionIds,   \* UUIDs of browser sessions
  Codes,        \* UUIDs of authorization codes
  States,       \* `state` values of upstream requests: the caller's choice
  Nonces,       \* `nonce` values of upstream requests, one per transaction
  ConsentIds,   \* UUIDs of pending consents
  Providers,    \* provider identifiers
  SessionTtl, CodeTtl, ReauthTtl, ConsentTtl,  \* what the handlers pass
  MaxTime       \* bound on the clock

(* UUIDs and random tokens never collide, within a table or across tables. *)
ASSUME IdsDisjoint ==
  /\ SessionIds \cap (Codes \cup States \cup Nonces \cup ConsentIds) = {}
  /\ Codes \cap (States \cup Nonces \cup ConsentIds) = {}
  /\ States \cap (Nonces \cup ConsentIds) = {}
  /\ Nonces \cap ConsentIds = {}

ASSUME TtlsAreNaturals ==
  {SessionTtl, CodeTtl, ReauthTtl, ConsentTtl, MaxTime} \subseteq Nat

VARIABLES
  clock,             \* Utc::now()
  sessions,          \* session id -> [expires_at]
  auth_codes,        \* code -> [expires_at]
  pending_reauth,    \* state -> [nonce, provider_id, expires_at]
  pending_consents,  \* transaction id -> [expires_at]
  calls,             \* what each worker is in the middle of
  stored,            \* history: every identifier that ever entered a table
  delivered,         \* history: how many callers consumed each grant
  refused            \* history: keys some caller was told are not there

tables == <<sessions, auth_codes, pending_reauth, pending_consents>>
history == <<stored, delivered, refused>>
vars == <<clock, tables, calls, history>>

(* What is consumed at most once.  A transaction is named by its nonce: its *)
(* state is only the key it is filed under, and can be used again.          *)
Grants == Codes \cup Nonces \cup ConsentIds

Expiring == [expires_at : Nat]
Transaction == [nonce : Nonces, provider_id : Providers, expires_at : Nat]

-----------------------------------------------------------------------------
(* The calls in progress: the operation, its arguments, the identifier it   *)
(* drew and the instant it read, one of T.                                  *)
Idle == [op |-> "idle"]

CreateOps == {"create_session", "issue_code", "create_consent", "create_reauth"}

CallsAt(T) ==
       [op : {"create_session", "get_session"}, id : SessionIds, now : T]
  \cup [op : {"issue_code", "consume_code"}, id : Codes, now : T]
  \cup [op : {"create_consent", "get_consent", "consume_consent"},
        id : ConsentIds, now : T]
  \cup [op : {"create_reauth"}, id : Nonces, state : States,
        provider : Providers, now : T]
  \cup [op : {"consume_reauth"}, state : States, provider : Providers, now : T]

TypeOK ==
  /\ clock \in Nat
  /\ IsTable(sessions, SessionIds, Expiring)
  /\ IsTable(auth_codes, Codes, Expiring)
  /\ IsTable(pending_reauth, States, Transaction)
  /\ IsTable(pending_consents, ConsentIds, Expiring)
  /\ calls \in [Workers -> {Idle} \cup CallsAt(Nat)]
  /\ stored \subseteq SessionIds \cup Grants
  /\ delivered \in [Grants -> Nat]
  /\ refused \subseteq SessionIds \cup Codes \cup States \cup ConsentIds

Init ==
  /\ clock = 0
  /\ sessions = NoEntries
  /\ auth_codes = NoEntries
  /\ pending_reauth = NoEntries
  /\ pending_consents = NoEntries
  /\ calls = [w \in Workers |-> Idle]
  /\ stored = {}
  /\ delivered = [g \in Grants |-> 0]
  /\ refused = {}

-----------------------------------------------------------------------------
Tick ==
  /\ clock < MaxTime
  /\ clock' = clock + 1
  /\ UNCHANGED <<tables, calls, history>>

(* An identifier just drawn was never drawn before. *)
Fresh(c) ==
  c.op \in CreateOps =>
    /\ c.id \notin stored
    /\ \A w \in Workers : calls[w].op \in CreateOps => calls[w].id # c.id

(* The unlocked half of every operation: read the clock, draw identifiers. *)
Call(w) ==
  /\ calls[w] = Idle
  /\ \E c \in CallsAt({clock}) :
       /\ Fresh(c)
       /\ calls' = [calls EXCEPT ![w] = c]
  /\ UNCHANGED <<clock, tables, history>>

(* The locked half ends the call; the clock plays no part in it. *)
Return(w) ==
  /\ calls' = [calls EXCEPT ![w] = Idle]
  /\ UNCHANGED clock

(* History of a key that was put into a table as grant or session `id`. *)
Stored(id, key) ==
  /\ stored' = stored \cup {id}
  /\ refused' = refused \ {key}
  /\ UNCHANGED delivered

(* History of a lookup of `key` in a table that has just been purged. *)
Seen(table, key) ==
  refused' = IF key \in DOMAIN table THEN refused ELSE refused \cup {key}

(* History of a consumer that was handed grant g. *)
Delivered(g) ==
  /\ delivered' = [delivered EXCEPT ![g] = @ + 1]
  /\ UNCHANGED <<stored, refused>>

NotDelivered(key) ==
  /\ refused' = refused \cup {key}
  /\ UNCHANGED <<stored, delivered>>

-----------------------------------------------------------------------------
(* Seeded faults: variants of the operations below that the properties must *)
(* reject.                                                                  *)

(* The expiry tested on the entry alone, with no purge. *)
ConsumeCodeUnpurged(w) ==
  LET c    == calls[w]
      live == Live(auth_codes, c.now)
  IN
  /\ c.op = "consume_code"
  /\ \/ /\ c.id \in DOMAIN live
        /\ auth_codes' = Drop(auth_codes, c.id)
        /\ Delivered(c.id)
     \/ c.id \notin DOMAIN live /\ NotDelivered(c.id) /\ UNCHANGED auth_codes
  /\ Return(w)
  /\ UNCHANGED <<sessions, pending_reauth, pending_consents>>

(* The transaction filed under its nonce. *)
CreateReauthUnderNonce(w) ==
  LET c == calls[w] IN
  /\ c.op = "create_reauth"
  /\ pending_reauth' = Put(Live(pending_reauth, c.now), c.id,
                           [nonce |-> c.id, provider_id |-> c.provider,
                            expires_at |-> c.now + ReauthTtl])
  /\ Stored(c.id, c.state)
  /\ Return(w)
  /\ UNCHANGED <<sessions, auth_codes, pending_consents>>

(* No contains_key() test: the pending transaction is overwritten. *)
CreateReauthOver(w) ==
  LET c == calls[w] IN
  /\ c.op = "create_reauth"
  /\ pending_reauth' = Put(Live(pending_reauth, c.now), c.state,
                           [nonce |-> c.id, provider_id |-> c.provider,
                            expires_at |-> c.now + ReauthTtl])
  /\ Stored(c.id, c.state)
  /\ Return(w)
  /\ UNCHANGED <<sessions, auth_codes, pending_consents>>

(* The provider of the callback is not compared. *)
ConsumeReauthAnybody(w) ==
  LET c    == calls[w]
      live == Live(pending_reauth, c.now)
  IN
  /\ c.op = "consume_reauth"
  /\ \/ /\ c.state \notin DOMAIN live
        /\ pending_reauth' = live
        /\ NotDelivered(c.state)
     \/ /\ c.state \in DOMAIN live
        /\ pending_reauth' = Drop(live, c.state)
        /\ Delivered(live[c.state].nonce)
  /\ Return(w)
  /\ UNCHANGED <<sessions, auth_codes, pending_consents>>

-----------------------------------------------------------------------------
(* Sessions.  Creation does not purge; lookup does, and leaves the session. *)
CreateSession(w) ==
  LET c == calls[w] IN
  /\ c.op = "create_session"
  /\ sessions' = Put(sessions, c.id, [expires_at |-> c.now + SessionTtl])
  /\ Stored(c.id, c.id)
  /\ Return(w)
  /\ UNCHANGED <<auth_codes, pending_reauth, pending_consents>>

GetSession(w) ==
  LET c == calls[w] IN
  /\ c.op = "get_session"
  /\ sessions' = Live(sessions, c.now)
  /\ Seen(sessions', c.id)
  /\ Return(w)
  /\ UNCHANGED <<auth_codes, pending_reauth, pending_consents,
                 stored, delivered>>

-----------------------------------------------------------------------------
(* Authorization codes. *)
IssueAuthorizationCode(w) ==
  LET c == calls[w] IN
  /\ c.op = "issue_code"
  /\ auth_codes' = Put(auth_codes, c.id, [expires_at |-> c.now + CodeTtl])
  /\ Stored(c.id, c.id)
  /\ Return(w)
  /\ UNCHANGED <<sessions, pending_reauth, pending_consents>>

ConsumeAuthorizationCode(w) ==
  LET c    == calls[w]
      live == Live(auth_codes, c.now)
  IN
  /\ c.op = "consume_code"
  /\ auth_codes' = Drop(live, c.id)
  /\ \/ c.id \in DOMAIN live /\ Delivered(c.id)
     \/ c.id \notin DOMAIN live /\ NotDelivered(c.id)
  /\ Return(w)
  /\ UNCHANGED <<sessions, pending_reauth, pending_consents>>

-----------------------------------------------------------------------------
(* Pending re-authentications, keyed by the upstream state.  A state that   *)
(* is already pending is not overwritten: the caller is told None.          *)
CreatePendingReauth(w) ==
  LET c    == calls[w]
      live == Live(pending_reauth, c.now)
      txn  == [nonce |-> c.id, provider_id |-> c.provider,
               expires_at |-> c.now + ReauthTtl]
  IN
  /\ c.op = "create_reauth"
  /\ \/ /\ c.state \in DOMAIN live
        /\ pending_reauth' = live
        /\ UNCHANGED history
     \/ /\ c.state \notin DOMAIN live
        /\ pending_reauth' = Put(live, c.state, txn)
        /\ Stored(c.id, c.state)
  /\ Return(w)
  /\ UNCHANGED <<sessions, auth_codes, pending_consents>>

(* A callback that names another provider leaves the transaction alone. *)
ConsumePendingReauth(w) ==
  LET c    == calls[w]
      live == Live(pending_reauth, c.now)
  IN
  /\ c.op = "consume_reauth"
  /\ \/ /\ c.state \notin DOMAIN live
        /\ pending_reauth' = live
        /\ NotDelivered(c.state)
     \/ /\ c.state \in DOMAIN live
        /\ live[c.state].provider_id # c.provider
        /\ pending_reauth' = live
        /\ UNCHANGED history
     \/ /\ c.state \in DOMAIN live
        /\ live[c.state].provider_id = c.provider
        /\ pending_reauth' = Drop(live, c.state)
        /\ Delivered(live[c.state].nonce)
  /\ Return(w)
  /\ UNCHANGED <<sessions, auth_codes, pending_consents>>

-----------------------------------------------------------------------------
(* Pending consents: the page may be shown many times, answered once. *)
CreatePendingReauthConsent(w) ==
  LET c == calls[w] IN
  /\ c.op = "create_consent"
  /\ pending_consents' = Put(Live(pending_consents, c.now), c.id,
                             [expires_at |-> c.now + ConsentTtl])
  /\ Stored(c.id, c.id)
  /\ Return(w)
  /\ UNCHANGED <<sessions, auth_codes, pending_reauth>>

GetPendingReauthConsent(w) ==
  LET c == calls[w] IN
  /\ c.op = "get_consent"
  /\ pending_consents' = Live(pending_consents, c.now)
  /\ Seen(pending_consents', c.id)
  /\ Return(w)
  /\ UNCHANGED <<sessions, auth_codes, pending_reauth, stored, delivered>>

ConsumePendingReauthConsent(w) ==
  LET c    == calls[w]
      live == Live(pending_consents, c.now)
  IN
  /\ c.op = "consume_consent"
  /\ pending_consents' = Drop(live, c.id)
  /\ \/ c.id \in DOMAIN live /\ Delivered(c.id)
     \/ c.id \notin DOMAIN live /\ NotDelivered(c.id)
  /\ Return(w)
  /\ UNCHANGED <<sessions, auth_codes, pending_reauth>>

Next ==
  \/ Tick
  \/ \E w \in Workers :
       \/ Call(w)
       \/ CreateSession(w) \/ GetSession(w)
       \/ IssueAuthorizationCode(w) \/ ConsumeAuthorizationCode(w)
       \/ CreatePendingReauth(w) \/ ConsumePendingReauth(w)
       \/ CreatePendingReauthConsent(w) \/ GetPendingReauthConsent(w)
       \/ ConsumePendingReauthConsent(w)

Spec == Init /\ [][Next]_vars

-----------------------------------------------------------------------------
(* The transaction with nonce n is pending. *)
Pending(n) ==
  \E st \in DOMAIN pending_reauth : pending_reauth[st].nonce = n

LiveGrants ==
  DOMAIN auth_codes \cup DOMAIN pending_consents
    \cup {pending_reauth[st].nonce : st \in DOMAIN pending_reauth}

Keys ==
  DOMAIN sessions \cup DOMAIN auth_codes \cup DOMAIN pending_reauth
    \cup DOMAIN pending_consents

(* However the callers interleave, a code, a re-authentication and a        *)
(* consent are each handed to at most one consumer, and one that was handed *)
(* out is no longer in its table.                                           *)
ConsumedAtMostOnce ==
  \A g \in Grants : delivered[g] <= IF g \in LiveGrants THEN 0 ELSE 1

(* Once a caller was told that a key is not there, no later caller can find *)
(* it, not even one that read the clock before the entry expired: the       *)
(* refusal purged the entry under the lock.  A key comes back only when a   *)
(* new entry is created under it.                                           *)
RefusalIsFinal == refused \cap Keys = {}

Unexpired(table) == {k \in DOMAIN table : table[k].expires_at > clock}

LossIsExplained ==
  /\ Unexpired(sessions) \subseteq DOMAIN sessions'
  /\ \A g \in (Unexpired(auth_codes) \cup Unexpired(pending_consents)) \ LiveGrants' :
       delivered'[g] = delivered[g] + 1
  /\ \A st \in Unexpired(pending_reauth) :
       LET n == pending_reauth[st].nonce IN
       n \notin LiveGrants' => delivered'[n] = delivered[n] + 1

(* An entry leaves its table only because it has really expired or because  *)
(* it was handed to its consumer: a callback for another provider, a        *)
(* colliding state or the purge run by somebody else's lookup never costs a *)
(* user a transaction that could still complete.                            *)
NoPrematureLoss == [][LossIsExplained]_vars

(* The step in which worker w is handed a grant. *)
HandedTo(w) == calls'[w] # calls[w] /\ delivered' # delivered

DeliveryIsTimely ==
  \A w \in Workers :
    LET c == calls[w] IN
    HandedTo(w) =>
      CASE c.op = "consume_code"    -> c.now < auth_codes[c.id].expires_at
        [] c.op = "consume_consent" -> c.now < pending_consents[c.id].expires_at
        [] c.op = "consume_reauth"  ->
             /\ c.now < pending_reauth[c.state].expires_at
             /\ c.provider = pending_reauth[c.state].provider_id

(* A grant is handed only to a caller that read the clock before the grant  *)
(* expired, and a transaction only to a callback of its own provider, even  *)
(* when the caller waited for the lock until long after the expiry.         *)
DeliveredInTime == [][DeliveryIsTimely]_vars

-----------------------------------------------------------------------------
(* Why the properties above hold, whatever the callers do.                  *)

(* A caller in the middle of an operation read the clock in the past. *)
ReadInThePast ==
  \A w \in Workers : calls[w] # Idle => calls[w].now <= clock

(* An identifier that was drawn and not used yet is nobody else's. *)
DrawnOnce ==
  \A w \in Workers :
    calls[w].op \in CreateOps =>
      /\ calls[w].id \notin stored
      /\ \A v \in Workers \ {w} :
           calls[v].op \in CreateOps => calls[v].id # calls[w].id

(* Two pending transactions never share a nonce. *)
OneStatePerNonce ==
  \A s, t \in DOMAIN pending_reauth :
    pending_reauth[s].nonce = pending_reauth[t].nonce => s = t

(* What is in a table was put there; what was not, was not delivered. *)
EntriesWereStored ==
  /\ DOMAIN sessions \cup LiveGrants \subseteq stored
  /\ \A g \in Grants \ stored : delivered[g] = 0

IInv ==
  /\ TypeOK
  /\ ReadInThePast
  /\ DrawnOnce
  /\ OneStatePerNonce
  /\ EntriesWereStored
  /\ ConsumedAtMostOnce
  /\ RefusalIsFinal

-----------------------------------------------------------------------------
(* The life of a grant as SingleUse sees it. *)
GrantStatus(g) ==
  IF g \in LiveGrants THEN "live"
  ELSE IF g \notin stored THEN "unissued"
  ELSE IF delivered[g] > 0 THEN "spent"
  ELSE "lapsed"

OneTime == INSTANCE SingleUse
             WITH status <- [g \in Grants |-> GrantStatus(g)]

(* The concurrent store implements the abstract single-use contract. *)
ImplementsSingleUse == OneTime!Spec
=============================================================================
