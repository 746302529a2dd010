--------------------------- MODULE AuthStore_proofs ---------------------------
(***************************************************************************)
(* Proofs about AuthStore, for any number of workers, any identifiers, any  *)
(* lifetimes and any bound on the clock.                                    *)
(***************************************************************************)
EXTENDS AuthStore, ExpiringMap_proofs, TLAPS

-----------------------------------------------------------------------------
(* What the arguments of a call in progress are. *)
LEMMA CallArguments ==
  ASSUME NEW T, NEW c \in {Idle} \cup CallsAt(T)
  PROVE  /\ c # Idle <=> c.op # "idle"
         /\ c.op # "idle" => c.now \in T
         /\ c.op \in {"create_session", "get_session"} => c.id \in SessionIds
         /\ c.op \in {"issue_code", "consume_code"} => c.id \in Codes
         /\ c.op \in {"create_consent", "get_consent", "consume_consent"} =>
              c.id \in ConsentIds
         /\ c.op = "create_reauth" =>
              c.id \in Nonces /\ c.state \in States /\ c.provider \in Providers
         /\ c.op = "consume_reauth" =>
              c.state \in States /\ c.provider \in Providers
BY DEF Idle, CallsAt

-----------------------------------------------------------------------------
(* The tables hold what they should, and the history is well formed,        *)
(* whatever the callers do (TypeOK).                                        *)
LEMMA TypeStep ==
  ASSUME TypeOK, [Next]_vars
  PROVE  TypeOK'
<1> USE DEF TypeOK
<1>1. CASE Tick
  BY <1>1 DEF Tick, tables, history
<1>2. ASSUME NEW w \in Workers, Call(w)
      PROVE  TypeOK'
  <2>1. PICK c \in CallsAt({clock}) : calls' = [calls EXCEPT ![w] = c]
    BY <1>2 DEF Call
  <2>2. c \in CallsAt(Nat)
    BY DEF CallsAt
  <2> QED
    BY <1>2, <2>1, <2>2 DEF Call, tables, history
<1>3. ASSUME NEW w \in Workers, CreateSession(w)
      PROVE  TypeOK'
  <2>1. calls[w].id \in SessionIds /\ calls[w].now \in Nat
    BY <1>3, CallArguments DEF CreateSession
  <2>2. [expires_at |-> calls[w].now + SessionTtl] \in Expiring
    BY <2>1, TtlsAreNaturals DEF Expiring
  <2>3. IsTable(sessions', SessionIds, Expiring)
    BY <1>3, <2>1, <2>2, TablesStayTables DEF CreateSession
  <2> QED
    BY <1>3, <2>1, <2>3 DEF CreateSession, Stored, Return
<1>4. ASSUME NEW w \in Workers, GetSession(w)
      PROVE  TypeOK'
  <2>1. calls[w].id \in SessionIds
    BY <1>4, CallArguments DEF GetSession
  <2>2. IsTable(sessions', SessionIds, Expiring)
    BY <1>4, TablesStayTables DEF GetSession
  <2> QED
    BY <1>4, <2>1, <2>2 DEF GetSession, Seen, Return
<1>5. ASSUME NEW w \in Workers, IssueAuthorizationCode(w)
      PROVE  TypeOK'
  <2>1. calls[w].id \in Codes /\ calls[w].now \in Nat
    BY <1>5, CallArguments DEF IssueAuthorizationCode
  <2>2. [expires_at |-> calls[w].now + CodeTtl] \in Expiring
    BY <2>1, TtlsAreNaturals DEF Expiring
  <2>3. IsTable(auth_codes', Codes, Expiring)
    BY <1>5, <2>1, <2>2, TablesStayTables DEF IssueAuthorizationCode
  <2> QED
    BY <1>5, <2>1, <2>3 DEF IssueAuthorizationCode, Stored, Return, Grants
<1>6. ASSUME NEW w \in Workers, ConsumeAuthorizationCode(w)
      PROVE  TypeOK'
  <2>1. calls[w].id \in Codes
    BY <1>6, CallArguments DEF ConsumeAuthorizationCode
  <2>2. IsTable(auth_codes', Codes, Expiring)
    BY <1>6, TablesStayTables DEF ConsumeAuthorizationCode
  <2> QED
    BY <1>6, <2>1, <2>2
    DEF ConsumeAuthorizationCode, Delivered, NotDelivered, Return, Grants
<1>7. ASSUME NEW w \in Workers, CreatePendingReauth(w)
      PROVE  TypeOK'
  <2> DEFINE c    == calls[w]
             live == Live(pending_reauth, c.now)
             txn  == [nonce |-> c.id, provider_id |-> c.provider,
                      expires_at |-> c.now + ReauthTtl]
  <2>1. /\ c.id \in Nonces /\ c.state \in States
        /\ c.provider \in Providers /\ c.now \in Nat
    BY <1>7, CallArguments DEF CreatePendingReauth
  <2>2. txn \in Transaction
    BY <2>1, TtlsAreNaturals DEF Transaction
  <2>3. IsTable(live, States, Transaction)
    BY TablesStayTables
  <2>4. IsTable(Put(live, c.state, txn), States, Transaction)
    BY <2>1, <2>2, <2>3, TablesStayTables
  <2> QED
    BY <1>7, <2>1, <2>3, <2>4
    DEF CreatePendingReauth, Stored, Return, Grants, history
<1>8. ASSUME NEW w \in Workers, ConsumePendingReauth(w)
      PROVE  TypeOK'
  <2> DEFINE c    == calls[w]
             live == Live(pending_reauth, c.now)
  <2>1. c.state \in States
    BY <1>8, CallArguments DEF ConsumePendingReauth
  <2>2. IsTable(live, States, Transaction)
    BY TablesStayTables
  <2>3. IsTable(Drop(live, c.state), States, Transaction)
    BY <2>2, TablesStayTables
  <2>4. c.state \in DOMAIN live => live[c.state].nonce \in Grants
    BY <2>2 DEF IsTable, Transaction, Grants
  <2> QED
    BY <1>8, <2>1, <2>2, <2>3, <2>4
    DEF ConsumePendingReauth, Delivered, NotDelivered, Return, history
<1>9. ASSUME NEW w \in Workers, CreatePendingReauthConsent(w)
      PROVE  TypeOK'
  <2>1. calls[w].id \in ConsentIds /\ calls[w].now \in Nat
    BY <1>9, CallArguments DEF CreatePendingReauthConsent
  <2>2. [expires_at |-> calls[w].now + ConsentTtl] \in Expiring
    BY <2>1, TtlsAreNaturals DEF Expiring
  <2>3. IsTable(pending_consents', ConsentIds, Expiring)
    BY <1>9, <2>1, <2>2, TablesStayTables DEF CreatePendingReauthConsent
  <2> QED
    BY <1>9, <2>1, <2>3
    DEF CreatePendingReauthConsent, Stored, Return, Grants
<1>10. ASSUME NEW w \in Workers, GetPendingReauthConsent(w)
       PROVE  TypeOK'
  <2>1. calls[w].id \in ConsentIds
    BY <1>10, CallArguments DEF GetPendingReauthConsent
  <2>2. IsTable(pending_consents', ConsentIds, Expiring)
    BY <1>10, TablesStayTables DEF GetPendingReauthConsent
  <2> QED
    BY <1>10, <2>1, <2>2 DEF GetPendingReauthConsent, Seen, Return
<1>11. ASSUME NEW w \in Workers, ConsumePendingReauthConsent(w)
       PROVE  TypeOK'
  <2>1. calls[w].id \in ConsentIds
    BY <1>11, CallArguments DEF ConsumePendingReauthConsent
  <2>2. IsTable(pending_consents', ConsentIds, Expiring)
    BY <1>11, TablesStayTables DEF ConsumePendingReauthConsent
  <2> QED
    BY <1>11, <2>1, <2>2
    DEF ConsumePendingReauthConsent, Delivered, NotDelivered, Return, Grants
<1>12. CASE UNCHANGED vars
  BY <1>12 DEF vars, tables, history
<1> QED
  BY <1>1, <1>2, <1>3, <1>4, <1>5, <1>6, <1>7, <1>8, <1>9, <1>10, <1>11, <1>12
  DEF Next

(* Empty tables are well typed. *)
LEMMA TypeInit == Init => TypeOK
BY DEF Init, TypeOK, IsTable, NoEntries, Grants

(* Every variable has its type: every table is one of its own kind. *)
THEOREM TypeCorrect == Spec => []TypeOK
<1>1. Init => TypeOK
  BY TypeInit
<1>2. TypeOK /\ [Next]_vars => TypeOK'
  BY TypeStep
<1> QED
  BY <1>1, <1>2, PTL DEF Spec

-----------------------------------------------------------------------------
(* Every identifier is looked for in one table only: identifiers of         *)
(* different kinds are different, so no table can hold another's key.       *)
OneTablePerKind ==
  /\ \A k \in SessionIds : /\ k \notin LiveGrants
                           /\ k \in Keys => k \in DOMAIN sessions
  /\ \A k \in Codes : /\ k \in LiveGrants => k \in DOMAIN auth_codes
                      /\ k \in Keys => k \in DOMAIN auth_codes
  /\ \A k \in ConsentIds : /\ k \in LiveGrants => k \in DOMAIN pending_consents
                           /\ k \in Keys => k \in DOMAIN pending_consents
  /\ \A k \in States : k \in Keys => k \in DOMAIN pending_reauth
  /\ \A k \in Nonces : k \in LiveGrants => Pending(k)

(* A grant belongs to one table. *)
LEMMA Owners == TypeOK => OneTablePerKind
BY IdsDisjoint
DEF TypeOK, OneTablePerKind, LiveGrants, Keys, Pending, IsTable, Transaction

(* A grant belongs to one table after a step, too. *)
LEMMA OwnersNext == TypeOK' => OneTablePerKind'
BY Owners, PTL

(* What a step does to the grants: nothing but expiry, ... *)
Kept ==
  /\ LiveGrants' \subseteq LiveGrants
  /\ DOMAIN sessions' \subseteq DOMAIN sessions
  /\ UNCHANGED <<stored, delivered>>

(* ... the entry of a new identifier, ... *)
Added(id) ==
  /\ id \in SessionIds \cup Grants
  /\ id \notin stored
  /\ stored' = stored \cup {id}
  /\ LiveGrants' \subseteq LiveGrants \cup {id}
  /\ id \in Grants => id \in LiveGrants'
  /\ id \notin Grants => LiveGrants' \subseteq LiveGrants
  /\ DOMAIN sessions' \subseteq DOMAIN sessions \cup {id}
  /\ UNCHANGED delivered

(* ... or the delivery of a live grant. *)
Handed(g) ==
  /\ g \in LiveGrants \cap Grants
  /\ LiveGrants' \subseteq LiveGrants \ {g}
  /\ DOMAIN sessions' \subseteq DOMAIN sessions
  /\ delivered' = [delivered EXCEPT ![g] = @ + 1]
  /\ UNCHANGED stored

(* Every step does one of the three. *)
LEMMA StepKinds ==
  ASSUME TypeOK, TypeOK', DrawnOnce, OneStatePerNonce, [Next]_vars
  PROVE  \/ Kept
         \/ \E id \in SessionIds \cup Grants : Added(id)
         \/ \E g \in Grants : Handed(g)
<1> DEFINE Goal == \/ Kept
                   \/ \E id \in SessionIds \cup Grants : Added(id)
                   \/ \E g \in Grants : Handed(g)
<1>a. OneTablePerKind /\ OneTablePerKind'
  BY Owners, OwnersNext
<1>1. CASE Tick
  BY <1>1 DEF Tick, tables, history, Kept, LiveGrants
<1>2. ASSUME NEW w \in Workers, Call(w)
      PROVE  Goal
  BY <1>2 DEF Call, tables, history, Kept, LiveGrants
<1>3. ASSUME NEW w \in Workers, CreateSession(w)
      PROVE  Goal
  <2>1. calls[w].id \in SessionIds /\ calls[w].id \notin stored
    BY <1>3, CallArguments DEF CreateSession, DrawnOnce, CreateOps, TypeOK
  <2>2. LiveGrants' = LiveGrants
    BY <1>3 DEF CreateSession, LiveGrants
  <2>3. DOMAIN sessions' \subseteq DOMAIN sessions \cup {calls[w].id}
    BY <1>3, PutEntries DEF CreateSession
  <2>4. calls[w].id \notin Grants
    BY <2>1, IdsDisjoint DEF Grants
  <2>5. Added(calls[w].id)
    BY <1>3, <2>1, <2>2, <2>3, <2>4 DEF CreateSession, Stored, Added
  <2> QED
    BY <2>1, <2>5
<1>4. ASSUME NEW w \in Workers, GetSession(w)
      PROVE  Goal
  <2>1. LiveGrants' = LiveGrants
    BY <1>4 DEF GetSession, LiveGrants
  <2> QED
    BY <1>4, <2>1, LiveEntries DEF GetSession, Kept
<1>5. ASSUME NEW w \in Workers, IssueAuthorizationCode(w)
      PROVE  Goal
  <2>1. calls[w].id \in Codes /\ calls[w].id \notin stored
    BY <1>5, CallArguments
    DEF IssueAuthorizationCode, DrawnOnce, CreateOps, TypeOK
  <2>2. DOMAIN auth_codes' = DOMAIN auth_codes \cup {calls[w].id}
    BY <1>5 DEF IssueAuthorizationCode, Put
  <2>3. LiveGrants' = LiveGrants \cup {calls[w].id}
    BY <1>5, <2>2 DEF IssueAuthorizationCode, LiveGrants
  <2>4. Added(calls[w].id)
    BY <1>5, <2>1, <2>3 DEF IssueAuthorizationCode, Stored, Added, Grants
  <2> QED
    BY <2>1, <2>4 DEF Grants
<1>6. ASSUME NEW w \in Workers, ConsumeAuthorizationCode(w)
      PROVE  Goal
  <2> DEFINE c    == calls[w]
             live == Live(auth_codes, c.now)
  <2>1. c.id \in Codes
    BY <1>6, CallArguments DEF ConsumeAuthorizationCode, TypeOK
  <2>2. /\ DOMAIN auth_codes' \subseteq DOMAIN auth_codes \ {c.id}
        /\ DOMAIN live \subseteq DOMAIN auth_codes
    BY <1>6, LiveEntries, DropEntries DEF ConsumeAuthorizationCode
  <2>3. LiveGrants' \subseteq LiveGrants
    BY <1>6, <2>2 DEF ConsumeAuthorizationCode, LiveGrants
  <2>4. c.id \notin LiveGrants'
    BY <1>a, <2>1, <2>2 DEF OneTablePerKind
  <2>5. CASE c.id \in DOMAIN live /\ Delivered(c.id)
    <3>1. Handed(c.id)
      BY <1>6, <2>1, <2>2, <2>3, <2>4, <2>5
      DEF ConsumeAuthorizationCode, Delivered, Handed, Grants, LiveGrants
    <3> QED
      BY <3>1, <2>1 DEF Grants
  <2>6. CASE c.id \notin DOMAIN live /\ NotDelivered(c.id)
    BY <1>6, <2>3, <2>6 DEF ConsumeAuthorizationCode, NotDelivered, Kept
  <2> QED
    BY <1>6, <2>5, <2>6 DEF ConsumeAuthorizationCode
<1>7. ASSUME NEW w \in Workers, CreatePendingReauth(w)
      PROVE  Goal
  <2> DEFINE c    == calls[w]
             live == Live(pending_reauth, c.now)
             txn  == [nonce |-> c.id, provider_id |-> c.provider,
                      expires_at |-> c.now + ReauthTtl]
  <2>1. /\ c.id \in Nonces /\ c.state \in States
        /\ c.id \notin stored
    BY <1>7, CallArguments DEF CreatePendingReauth, DrawnOnce, CreateOps, TypeOK
  <2>2. CASE c.state \in DOMAIN live
    <3>1. pending_reauth' = live /\ UNCHANGED history
      BY <1>7, <2>2 DEF CreatePendingReauth
    <3>2. LiveGrants' \subseteq LiveGrants
      BY <1>7, <3>1, LiveEntries DEF CreatePendingReauth, LiveGrants
    <3> QED
      BY <1>7, <3>1, <3>2 DEF CreatePendingReauth, Kept, history
  <2>3. CASE c.state \notin DOMAIN live
    <3>1. pending_reauth' = Put(live, c.state, txn) /\ Stored(c.id, c.state)
      BY <1>7, <2>3 DEF CreatePendingReauth
    <3>2. /\ \A st \in DOMAIN pending_reauth' :
               st # c.state => /\ st \in DOMAIN pending_reauth
                               /\ pending_reauth'[st] = pending_reauth[st]
          /\ c.state \in DOMAIN pending_reauth'
          /\ pending_reauth'[c.state].nonce = c.id
      BY <3>1, LiveEntries, PutEntries
    <3>3. LiveGrants' \subseteq LiveGrants \cup {c.id} /\ c.id \in LiveGrants'
      BY <1>7, <3>2 DEF CreatePendingReauth, LiveGrants
    <3>4. Added(c.id)
      BY <1>7, <2>1, <3>1, <3>3
      DEF CreatePendingReauth, Stored, Added, Grants
    <3> QED
      BY <2>1, <3>4 DEF Grants
  <2> QED
    BY <2>2, <2>3
<1>8. ASSUME NEW w \in Workers, ConsumePendingReauth(w)
      PROVE  Goal
  <2> DEFINE c    == calls[w]
             live == Live(pending_reauth, c.now)
  <2>1. CASE c.state \notin DOMAIN live \/ live[c.state].provider_id # c.provider
    <3>1. pending_reauth' = live /\ UNCHANGED <<stored, delivered>>
      BY <1>8, <2>1 DEF ConsumePendingReauth, NotDelivered, history
    <3>2. LiveGrants' \subseteq LiveGrants
      BY <1>8, <3>1, LiveEntries DEF ConsumePendingReauth, LiveGrants
    <3> QED
      BY <1>8, <3>1, <3>2 DEF ConsumePendingReauth, Kept
  <2>2. CASE c.state \in DOMAIN live /\ live[c.state].provider_id = c.provider
    <3> DEFINE g == live[c.state].nonce
    <3>1. pending_reauth' = Drop(live, c.state) /\ Delivered(g)
      BY <1>8, <2>2 DEF ConsumePendingReauth
    <3>2. /\ c.state \in DOMAIN pending_reauth
          /\ g = pending_reauth[c.state].nonce
      BY <2>2, LiveEntries
    <3>3. \A st \in DOMAIN pending_reauth' :
            /\ st \in DOMAIN pending_reauth
            /\ st # c.state
            /\ pending_reauth'[st] = pending_reauth[st]
      BY <3>1, LiveEntries, DropEntries
    <3>4. g \in Nonces
      BY <3>2 DEF TypeOK, IsTable, Transaction
    <3>5. g \in LiveGrants
      BY <3>2 DEF LiveGrants
    <3>6. g \notin LiveGrants'
      <4>1. \A st \in DOMAIN pending_reauth' : pending_reauth'[st].nonce # g
        BY <3>2, <3>3 DEF OneStatePerNonce
      <4> QED
        BY <4>1, <3>4, <1>a DEF OneTablePerKind, Pending
    <3>7. LiveGrants' \subseteq LiveGrants
      BY <1>8, <3>3 DEF ConsumePendingReauth, LiveGrants
    <3>8. Handed(g)
      BY <1>8, <3>1, <3>4, <3>5, <3>6, <3>7
      DEF ConsumePendingReauth, Delivered, Handed, Grants
    <3> QED
      BY <3>4, <3>8 DEF Grants
  <2> QED
    BY <2>1, <2>2
<1>9. ASSUME NEW w \in Workers, CreatePendingReauthConsent(w)
      PROVE  Goal
  <2> DEFINE c == calls[w]
  <2>1. c.id \in ConsentIds /\ c.id \notin stored
    BY <1>9, CallArguments
    DEF CreatePendingReauthConsent, DrawnOnce, CreateOps, TypeOK
  <2>2. /\ DOMAIN pending_consents' \subseteq DOMAIN pending_consents \cup {c.id}
        /\ c.id \in DOMAIN pending_consents'
    BY <1>9, LiveEntries, PutEntries DEF CreatePendingReauthConsent
  <2>3. LiveGrants' \subseteq LiveGrants \cup {c.id} /\ c.id \in LiveGrants'
    BY <1>9, <2>2 DEF CreatePendingReauthConsent, LiveGrants
  <2>4. Added(c.id)
    BY <1>9, <2>1, <2>3 DEF CreatePendingReauthConsent, Stored, Added, Grants
  <2> QED
    BY <2>1, <2>4 DEF Grants
<1>10. ASSUME NEW w \in Workers, GetPendingReauthConsent(w)
       PROVE  Goal
  <2>1. DOMAIN pending_consents' \subseteq DOMAIN pending_consents
    BY <1>10, LiveEntries DEF GetPendingReauthConsent
  <2>2. LiveGrants' \subseteq LiveGrants
    BY <1>10, <2>1 DEF GetPendingReauthConsent, LiveGrants
  <2> QED
    BY <1>10, <2>2 DEF GetPendingReauthConsent, Kept
<1>11. ASSUME NEW w \in Workers, ConsumePendingReauthConsent(w)
       PROVE  Goal
  <2> DEFINE c    == calls[w]
             live == Live(pending_consents, c.now)
  <2>1. c.id \in ConsentIds
    BY <1>11, CallArguments DEF ConsumePendingReauthConsent, TypeOK
  <2>2. /\ DOMAIN pending_consents' \subseteq DOMAIN pending_consents \ {c.id}
        /\ DOMAIN live \subseteq DOMAIN pending_consents
    BY <1>11, LiveEntries, DropEntries DEF ConsumePendingReauthConsent
  <2>3. LiveGrants' \subseteq LiveGrants
    BY <1>11, <2>2 DEF ConsumePendingReauthConsent, LiveGrants
  <2>4. c.id \notin LiveGrants'
    BY <1>a, <2>1, <2>2 DEF OneTablePerKind
  <2>5. CASE c.id \in DOMAIN live /\ Delivered(c.id)
    <3>1. Handed(c.id)
      BY <1>11, <2>1, <2>2, <2>3, <2>4, <2>5
      DEF ConsumePendingReauthConsent, Delivered, Handed, Grants, LiveGrants
    <3> QED
      BY <3>1, <2>1 DEF Grants
  <2>6. CASE c.id \notin DOMAIN live /\ NotDelivered(c.id)
    BY <1>11, <2>3, <2>6 DEF ConsumePendingReauthConsent, NotDelivered, Kept
  <2> QED
    BY <1>11, <2>5, <2>6 DEF ConsumePendingReauthConsent
<1>12. CASE UNCHANGED vars
  BY <1>12 DEF vars, tables, history, Kept, LiveGrants
<1> QED
  BY <1>1, <1>2, <1>3, <1>4, <1>5, <1>6, <1>7, <1>8, <1>9, <1>10, <1>11, <1>12
  DEF Next

-----------------------------------------------------------------------------
(* The parts of the inductive invariant, one by one.                        *)

(* The only operations that do not end a call are the clock and Call. *)
LEMMA OperationsReturn ==
  ASSUME TypeOK, Next
  PROVE  \/ Tick
         \/ \E w \in Workers : Call(w)
         \/ \E w \in Workers :
              /\ Return(w)
              /\ \/ stored' = stored
                 \/ /\ calls[w].op \in CreateOps
                    /\ stored' = stored \cup {calls[w].id}
BY DEF Next, CreateSession, GetSession, IssueAuthorizationCode,
       ConsumeAuthorizationCode, CreatePendingReauth, ConsumePendingReauth,
       CreatePendingReauthConsent, GetPendingReauthConsent,
       ConsumePendingReauthConsent, Stored, Delivered, NotDelivered, history,
       CreateOps

(* A call works with an instant that has been. *)
LEMMA ReadInThePastStep ==
  ASSUME TypeOK, ReadInThePast, [Next]_vars
  PROVE  ReadInThePast'
<1>1. CASE Tick
  BY <1>1, CallArguments DEF Tick, TypeOK, ReadInThePast
<1>2. ASSUME NEW w \in Workers, Call(w)
      PROVE  ReadInThePast'
  <2>1. PICK c \in CallsAt({clock}) : calls' = [calls EXCEPT ![w] = c]
    BY <1>2 DEF Call
  <2>2. c.now = clock
    BY <2>1 DEF CallsAt
  <2> QED
    BY <1>2, <2>1, <2>2 DEF Call, ReadInThePast, TypeOK
<1>3. ASSUME NEW w \in Workers, Return(w)
      PROVE  ReadInThePast'
  BY <1>3 DEF Return, ReadInThePast, TypeOK
<1>4. CASE UNCHANGED vars
  BY <1>4 DEF vars, ReadInThePast
<1> QED
  BY <1>1, <1>2, <1>3, <1>4, OperationsReturn

(* No identifier is drawn twice. *)
LEMMA DrawnOnceStep ==
  ASSUME TypeOK, DrawnOnce, [Next]_vars
  PROVE  DrawnOnce'
<1>1. CASE Tick
  BY <1>1 DEF Tick, history, DrawnOnce
<1>2. ASSUME NEW w \in Workers, Call(w)
      PROVE  DrawnOnce'
  BY <1>2 DEF Call, Fresh, history, DrawnOnce, TypeOK
<1>3. ASSUME NEW w \in Workers, Return(w),
             \/ stored' = stored
             \/ /\ calls[w].op \in CreateOps
                /\ stored' = stored \cup {calls[w].id}
      PROVE  DrawnOnce'
  <2>1. calls'[w].op \notin CreateOps
    BY <1>3 DEF Return, Idle, CreateOps, TypeOK
  <2>2. \A v \in Workers \ {w} : calls'[v] = calls[v]
    BY <1>3 DEF Return, TypeOK
  <2> QED
    BY <1>3, <2>1, <2>2 DEF DrawnOnce
<1>4. CASE UNCHANGED vars
  BY <1>4 DEF vars, history, DrawnOnce
<1> QED
  BY <1>1, <1>2, <1>3, <1>4, OperationsReturn

(* A transaction that is created is the only one with its nonce, because no *)
(* nonce in the table was still to be stored.                               *)
LEMMA OneStatePerNonceStep ==
  ASSUME TypeOK, DrawnOnce, EntriesWereStored, OneStatePerNonce, [Next]_vars
  PROVE  OneStatePerNonce'
<1>1. ASSUME NEW w \in Workers, CreatePendingReauth(w)
      PROVE  OneStatePerNonce'
  <2> DEFINE c    == calls[w]
             live == Live(pending_reauth, c.now)
             txn  == [nonce |-> c.id, provider_id |-> c.provider,
                      expires_at |-> c.now + ReauthTtl]
  <2>1. c.id \notin stored
    BY <1>1 DEF CreatePendingReauth, DrawnOnce, CreateOps
  <2>2. \A st \in DOMAIN pending_reauth : pending_reauth[st].nonce # c.id
    BY <2>1 DEF EntriesWereStored, LiveGrants
  <2>3. CASE c.state \in DOMAIN live
    BY <1>1, <2>3, LiveEntries DEF CreatePendingReauth, OneStatePerNonce
  <2>4. CASE c.state \notin DOMAIN live
    <3>1. pending_reauth' = Put(live, c.state, txn)
      BY <1>1, <2>4 DEF CreatePendingReauth
    <3>2. /\ \A st \in DOMAIN pending_reauth' :
               st # c.state => /\ st \in DOMAIN pending_reauth
                               /\ pending_reauth'[st] = pending_reauth[st]
          /\ pending_reauth'[c.state].nonce = c.id
      BY <3>1, LiveEntries, PutEntries
    <3> QED
      BY <2>2, <3>2 DEF OneStatePerNonce
  <2> QED
    BY <2>3, <2>4
<1>2. ASSUME NEW w \in Workers, ConsumePendingReauth(w)
      PROVE  OneStatePerNonce'
  <2>1. \A st \in DOMAIN pending_reauth' :
          /\ st \in DOMAIN pending_reauth
          /\ pending_reauth'[st] = pending_reauth[st]
    BY <1>2, LiveEntries, DropEntries DEF ConsumePendingReauth
  <2> QED
    BY <2>1 DEF OneStatePerNonce
<1>3. CASE UNCHANGED pending_reauth
  BY <1>3 DEF OneStatePerNonce
<1> QED
  BY <1>1, <1>2, <1>3
  DEF Next, vars, tables, Tick, Call, CreateSession, GetSession,
      IssueAuthorizationCode, ConsumeAuthorizationCode,
      CreatePendingReauthConsent, GetPendingReauthConsent,
      ConsumePendingReauthConsent

(* Deliveries and tables move together: a grant enters its table once, and  *)
(* leaves it as it is delivered.                                            *)
LEMMA DeliveryStep ==
  ASSUME TypeOK, TypeOK', DrawnOnce, OneStatePerNonce, EntriesWereStored,
         ConsumedAtMostOnce, [Next]_vars
  PROVE  EntriesWereStored' /\ ConsumedAtMostOnce'
<1>1. CASE Kept
  BY <1>1 DEF Kept, EntriesWereStored, ConsumedAtMostOnce, TypeOK
<1>2. ASSUME NEW id \in SessionIds \cup Grants, Added(id)
      PROVE  EntriesWereStored' /\ ConsumedAtMostOnce'
  <2>1. EntriesWereStored'
    BY <1>2 DEF Added, EntriesWereStored
  <2>2. \A g \in Grants : delivered'[g] = delivered[g]
    BY <1>2 DEF Added
  <2>3. id \in Grants => delivered[id] = 0
    BY <1>2 DEF Added, EntriesWereStored
  <2>4. ConsumedAtMostOnce'
    BY <1>2, <2>2, <2>3 DEF Added, ConsumedAtMostOnce, TypeOK
  <2> QED
    BY <2>1, <2>4
<1>3. ASSUME NEW g \in Grants, Handed(g)
      PROVE  EntriesWereStored' /\ ConsumedAtMostOnce'
  <2>1. g \in stored /\ delivered[g] = 0
    BY <1>3 DEF Handed, EntriesWereStored, ConsumedAtMostOnce, TypeOK
  <2>2. delivered' = [delivered EXCEPT ![g] = 1]
    BY <1>3, <2>1 DEF Handed
  <2>3. EntriesWereStored'
    BY <1>3, <2>1, <2>2 DEF Handed, EntriesWereStored, TypeOK
  <2>4. ConsumedAtMostOnce'
    BY <1>3, <2>2 DEF Handed, ConsumedAtMostOnce, TypeOK
  <2> QED
    BY <2>3, <2>4
<1> QED
  BY <1>1, <1>2, <1>3, StepKinds

-----------------------------------------------------------------------------
(* A refused key stays out of its table.  A refusal purged the table under  *)
(* the lock, so the key is gone; from then on keys enter a table only       *)
(* through a creation, which forgets the refusal.                           *)
LEMMA RefusalStep ==
  ASSUME TypeOK, TypeOK', RefusalIsFinal, [Next]_vars
  PROVE  RefusalIsFinal'
<1>a. OneTablePerKind'
  BY OwnersNext
<1>b. ASSUME NEW key, Keys' \subseteq Keys, key \notin Keys',
             refused' \subseteq refused \cup {key}
      PROVE  RefusalIsFinal'
  BY <1>b DEF RefusalIsFinal
<1>c. ASSUME NEW key, Keys' \subseteq Keys \cup {key},
             refused' \subseteq refused \ {key}
      PROVE  RefusalIsFinal'
  BY <1>c DEF RefusalIsFinal
<1>d. ASSUME Keys' \subseteq Keys, refused' \subseteq refused
      PROVE  RefusalIsFinal'
  BY <1>d DEF RefusalIsFinal
<1>1. ASSUME NEW w \in Workers, CreateSession(w)
      PROVE  RefusalIsFinal'
  <2>1. Keys' \subseteq Keys \cup {calls[w].id}
    BY <1>1, PutEntries DEF CreateSession, Keys
  <2> QED
    BY <1>1, <1>c, <2>1 DEF CreateSession, Stored
<1>2. ASSUME NEW w \in Workers, GetSession(w)
      PROVE  RefusalIsFinal'
  <2>1. Keys' \subseteq Keys
    BY <1>2, LiveEntries DEF GetSession, Keys
  <2>2. calls[w].id \in SessionIds
    BY <1>2, CallArguments DEF GetSession, TypeOK
  <2>3. CASE calls[w].id \in DOMAIN sessions'
    BY <1>2, <1>d, <2>1, <2>3 DEF GetSession, Seen
  <2>4. CASE calls[w].id \notin DOMAIN sessions'
    <3>1. calls[w].id \notin Keys'
      BY <1>a, <2>2, <2>4 DEF OneTablePerKind
    <3> QED
      BY <1>2, <1>b, <2>1, <2>4, <3>1 DEF GetSession, Seen
  <2> QED
    BY <2>3, <2>4
<1>3. ASSUME NEW w \in Workers, IssueAuthorizationCode(w)
      PROVE  RefusalIsFinal'
  <2>1. Keys' \subseteq Keys \cup {calls[w].id}
    BY <1>3, PutEntries DEF IssueAuthorizationCode, Keys
  <2> QED
    BY <1>3, <1>c, <2>1 DEF IssueAuthorizationCode, Stored
<1>4. ASSUME NEW w \in Workers, ConsumeAuthorizationCode(w)
      PROVE  RefusalIsFinal'
  <2>1. Keys' \subseteq Keys
    BY <1>4, LiveEntries, DropEntries DEF ConsumeAuthorizationCode, Keys
  <2>2. calls[w].id \in Codes
    BY <1>4, CallArguments DEF ConsumeAuthorizationCode, TypeOK
  <2>3. calls[w].id \notin Keys'
    BY <1>4, <1>a, <2>2, DropEntries DEF ConsumeAuthorizationCode, OneTablePerKind
  <2>4. refused' \subseteq refused \cup {calls[w].id}
    BY <1>4 DEF ConsumeAuthorizationCode, Delivered, NotDelivered
  <2> QED
    BY <1>b, <2>1, <2>3, <2>4
<1>5. ASSUME NEW w \in Workers, CreatePendingReauth(w)
      PROVE  RefusalIsFinal'
  <2>1. CASE UNCHANGED history
    <3>1. pending_reauth' = Live(pending_reauth, calls[w].now)
            \/ calls[w].state \notin DOMAIN Live(pending_reauth, calls[w].now)
      BY <1>5 DEF CreatePendingReauth
    <3>2. CASE pending_reauth' = Live(pending_reauth, calls[w].now)
      BY <1>5, <1>d, <2>1, <3>2, LiveEntries
      DEF CreatePendingReauth, Keys, history
    <3>3. CASE calls[w].state \notin DOMAIN Live(pending_reauth, calls[w].now)
      <4>1. /\ Keys' \subseteq Keys \cup {calls[w].state}
            /\ refused' \subseteq refused \ {calls[w].state}
        BY <1>5, <3>3, LiveEntries, PutEntries
        DEF CreatePendingReauth, Stored, Keys
      <4> QED
        BY <1>c, <4>1
    <3> QED
      BY <3>1, <3>2, <3>3
  <2>2. CASE Stored(calls[w].id, calls[w].state)
    <3>1. Keys' \subseteq Keys \cup {calls[w].state}
      BY <1>5, LiveEntries, PutEntries DEF CreatePendingReauth, Keys
    <3> QED
      BY <1>c, <2>2, <3>1 DEF Stored
  <2> QED
    BY <1>5, <2>1, <2>2 DEF CreatePendingReauth
<1>6. ASSUME NEW w \in Workers, ConsumePendingReauth(w)
      PROVE  RefusalIsFinal'
  <2> DEFINE c    == calls[w]
             live == Live(pending_reauth, c.now)
  <2>1. Keys' \subseteq Keys
    BY <1>6, LiveEntries, DropEntries DEF ConsumePendingReauth, Keys
  <2>2. c.state \in States
    BY <1>6, CallArguments DEF ConsumePendingReauth, TypeOK
  <2>3. CASE c.state \notin DOMAIN live
    <3>1. /\ c.state \notin DOMAIN pending_reauth'
          /\ refused' = refused \cup {c.state}
      BY <1>6, <2>3 DEF ConsumePendingReauth, NotDelivered
    <3>2. c.state \notin Keys'
      BY <1>a, <2>2, <3>1 DEF OneTablePerKind
    <3> QED
      BY <1>b, <2>1, <3>1, <3>2
  <2>4. CASE c.state \in DOMAIN live
    <3>1. refused' = refused
      BY <1>6, <2>4 DEF ConsumePendingReauth, Delivered, history
    <3> QED
      BY <1>d, <2>1, <3>1
  <2> QED
    BY <2>3, <2>4
<1>7. ASSUME NEW w \in Workers, CreatePendingReauthConsent(w)
      PROVE  RefusalIsFinal'
  <2>1. Keys' \subseteq Keys \cup {calls[w].id}
    BY <1>7, LiveEntries, PutEntries DEF CreatePendingReauthConsent, Keys
  <2> QED
    BY <1>7, <1>c, <2>1 DEF CreatePendingReauthConsent, Stored
<1>8. ASSUME NEW w \in Workers, GetPendingReauthConsent(w)
      PROVE  RefusalIsFinal'
  <2>1. Keys' \subseteq Keys
    BY <1>8, LiveEntries DEF GetPendingReauthConsent, Keys
  <2>2. calls[w].id \in ConsentIds
    BY <1>8, CallArguments DEF GetPendingReauthConsent, TypeOK
  <2>3. CASE calls[w].id \in DOMAIN pending_consents'
    BY <1>8, <1>d, <2>1, <2>3 DEF GetPendingReauthConsent, Seen
  <2>4. CASE calls[w].id \notin DOMAIN pending_consents'
    <3>1. calls[w].id \notin Keys'
      BY <1>a, <2>2, <2>4 DEF OneTablePerKind
    <3> QED
      BY <1>8, <1>b, <2>1, <2>4, <3>1 DEF GetPendingReauthConsent, Seen
  <2> QED
    BY <2>3, <2>4
<1>9. ASSUME NEW w \in Workers, ConsumePendingReauthConsent(w)
      PROVE  RefusalIsFinal'
  <2>1. Keys' \subseteq Keys
    BY <1>9, LiveEntries, DropEntries DEF ConsumePendingReauthConsent, Keys
  <2>2. calls[w].id \in ConsentIds
    BY <1>9, CallArguments DEF ConsumePendingReauthConsent, TypeOK
  <2>3. calls[w].id \notin Keys'
    BY <1>9, <1>a, <2>2, DropEntries
    DEF ConsumePendingReauthConsent, OneTablePerKind
  <2>4. refused' \subseteq refused \cup {calls[w].id}
    BY <1>9 DEF ConsumePendingReauthConsent, Delivered, NotDelivered
  <2> QED
    BY <1>b, <2>1, <2>3, <2>4
<1>10. CASE UNCHANGED <<tables, history>>
  BY <1>10 DEF tables, history, Keys, RefusalIsFinal
<1> QED
  BY <1>1, <1>2, <1>3, <1>4, <1>5, <1>6, <1>7, <1>8, <1>9, <1>10
  DEF Next, vars, Tick, Call, tables, history

-----------------------------------------------------------------------------
(* Empty tables satisfy the invariant. *)
LEMMA InvInit == Init => IInv
BY TypeInit
DEF Init, IInv, ReadInThePast, DrawnOnce, OneStatePerNonce, EntriesWereStored,
    ConsumedAtMostOnce, RefusalIsFinal, LiveGrants, Keys, NoEntries, Idle,
    CreateOps, Grants

(* Every step keeps the invariant. *)
LEMMA InvStep == IInv /\ [Next]_vars => IInv'
<1> SUFFICES ASSUME IInv, [Next]_vars PROVE IInv'
  OBVIOUS
<1> USE DEF IInv
<1>1. TypeOK'
  BY TypeStep
<1>2. ReadInThePast'
  BY ReadInThePastStep
<1>3. DrawnOnce'
  BY DrawnOnceStep
<1>4. OneStatePerNonce'
  BY OneStatePerNonceStep
<1>5. EntriesWereStored' /\ ConsumedAtMostOnce'
  BY <1>1, DeliveryStep
<1>6. RefusalIsFinal'
  BY <1>1, RefusalStep
<1> QED
  BY <1>1, <1>2, <1>3, <1>4, <1>5, <1>6

(* The invariant holds in every reachable state. *)
THEOREM Invariance == Spec => []IInv
BY InvInit, InvStep, PTL DEF Spec

(* Codes, re-authentications and consents are consumed at most once, by     *)
(* however many concurrent callers.                                         *)
THEOREM AtMostOnce == Spec => []ConsumedAtMostOnce
<1>1. IInv => ConsumedAtMostOnce
  BY DEF IInv
<1> QED
  BY <1>1, Invariance, PTL

(* No entry comes back after a caller was told it is not there. *)
THEOREM Refusals == Spec => []RefusalIsFinal
<1>1. IInv => RefusalIsFinal
  BY DEF IInv
<1> QED
  BY <1>1, Invariance, PTL

-----------------------------------------------------------------------------
(* The store implements the single-use contract: every step issues one      *)
(* grant, spends one, or lets some lapse.                                   *)
LEMMA StatusTypes ==
  IInv => \A g \in Grants :
            /\ GrantStatus(g) = "live" <=> g \in LiveGrants
            /\ GrantStatus(g) = "unissued" <=> g \notin stored
BY DEF IInv, EntriesWereStored, GrantStatus

(* No grant is there at first. *)
LEMMA RefinementInit == Init => OneTime!Init
BY DEF Init, OneTime!Init, GrantStatus, LiveGrants, NoEntries

(* Every step is one of SingleUse, or none of its grants changes. *)
LEMMA RefinementStep ==
  ASSUME IInv, IInv', [Next]_vars
  PROVE  [OneTime!Next]_OneTime!vars
<1> DEFINE lapsed == {g \in Grants : g \in LiveGrants /\ g \notin LiveGrants'}
<1> USE DEF IInv
<1>1. OneTime!LiveGrants = LiveGrants \cap Grants
  BY StatusTypes DEF OneTime!LiveGrants
<1>2. CASE Kept
  <2>1. \A g \in Grants :
          GrantStatus(g)' = IF g \in lapsed THEN "lapsed" ELSE GrantStatus(g)
    BY <1>2
    DEF Kept, GrantStatus, EntriesWereStored, ConsumedAtMostOnce, TypeOK
  <2>2. lapsed \in SUBSET OneTime!LiveGrants
    BY <1>1
  <2>3. OneTime!Lapse
    BY <1>2, <2>1, <2>2 DEF OneTime!Lapse, Kept
  <2> QED
    BY <2>3 DEF OneTime!Next
<1>3. ASSUME NEW id \in SessionIds \cup Grants, Added(id)
      PROVE  [OneTime!Next]_OneTime!vars
  <2>1. \A g \in Grants \ {id} :
          GrantStatus(g)' = IF g \in lapsed THEN "lapsed" ELSE GrantStatus(g)
    BY <1>3
    DEF Added, GrantStatus, EntriesWereStored, ConsumedAtMostOnce, TypeOK
  <2>2. lapsed \in SUBSET OneTime!LiveGrants
    BY <1>1
  <2>3. CASE id \in Grants
    <3>1. GrantStatus(id) = "unissued" /\ GrantStatus(id)' = "live"
      BY <1>3, <2>3 DEF Added, GrantStatus, EntriesWereStored
    <3>2. OneTime!Moved(id, "live", lapsed)
      BY <2>1, <3>1 DEF OneTime!Moved
    <3>3. OneTime!Issue(id)
      BY <1>3, <2>2, <2>3, <3>1, <3>2 DEF OneTime!Issue, Added
    <3> QED
      BY <2>3, <3>3 DEF OneTime!Next
  <2>4. CASE id \notin Grants
    <3> HIDE DEF lapsed
    <3>1. \A g \in Grants :
            GrantStatus(g)' = IF g \in lapsed THEN "lapsed" ELSE GrantStatus(g)
      BY <2>1, <2>4
    <3>2. OneTime!Lapse
      BY <1>3, <3>1, <2>2 DEF OneTime!Lapse, Added
    <3> QED
      BY <3>2 DEF OneTime!Next
  <2> QED
    BY <2>3, <2>4
<1>4. ASSUME NEW g \in Grants, Handed(g)
      PROVE  [OneTime!Next]_OneTime!vars
  <2>1. \A h \in Grants \ {g} :
          GrantStatus(h)' = IF h \in lapsed THEN "lapsed" ELSE GrantStatus(h)
    BY <1>4
    DEF Handed, GrantStatus, EntriesWereStored, ConsumedAtMostOnce, TypeOK
  <2>2. lapsed \in SUBSET OneTime!LiveGrants
    BY <1>1
  <2>3. GrantStatus(g) = "live" /\ GrantStatus(g)' = "spent"
    BY <1>4 DEF Handed, GrantStatus, EntriesWereStored, ConsumedAtMostOnce, TypeOK
  <2>4. OneTime!Moved(g, "spent", lapsed)
    BY <2>1, <2>3 DEF OneTime!Moved
  <2>5. OneTime!Spend(g)
    BY <1>4, <2>2, <2>3, <2>4 DEF OneTime!Spend, Handed
  <2> QED
    BY <2>5 DEF OneTime!Next
<1> QED
  BY <1>2, <1>3, <1>4, StepKinds

(* The tables of AuthStore are single-use grants. *)
THEOREM Refinement == Spec => ImplementsSingleUse
<1>1. Init => OneTime!Init
  BY RefinementInit
<1>2. IInv /\ IInv' /\ [Next]_vars => [OneTime!Next]_OneTime!vars
  BY RefinementStep
<1> QED
  BY <1>1, <1>2, Invariance, PTL DEF Spec, ImplementsSingleUse, OneTime!Spec

-----------------------------------------------------------------------------
(* A purge with an instant of the past removes only what has expired. *)
LEMMA PurgeInThePast ==
  ASSUME NEW K, NEW E, NEW now \in Nat, clock \in Nat, now <= clock,
         \A e \in E : e.expires_at \in Nat
  PROVE  \A table : IsTable(table, K, E) =>
           Unexpired(table) \subseteq DOMAIN Live(table, now)
BY LiveEntries DEF IsTable, Unexpired

(* A grant is lost only when its time is over. *)
LEMMA LossStep ==
  ASSUME IInv, IInv', [Next]_vars
  PROVE  LossIsExplained
<1> USE DEF IInv
<1>a. \A w \in Workers : calls[w].op # "idle" => calls[w].now \in Nat
                                                /\ calls[w].now <= clock
  BY CallArguments DEF TypeOK, ReadInThePast
<1>b. \A now \in Nat : now <= clock =>
        /\ Unexpired(sessions) \subseteq DOMAIN Live(sessions, now)
        /\ Unexpired(auth_codes) \subseteq DOMAIN Live(auth_codes, now)
        /\ Unexpired(pending_reauth) \subseteq DOMAIN Live(pending_reauth, now)
        /\ Unexpired(pending_consents) \subseteq DOMAIN Live(pending_consents, now)
  <2> SUFFICES ASSUME NEW now \in Nat, now <= clock
               PROVE
        /\ Unexpired(sessions) \subseteq DOMAIN Live(sessions, now)
        /\ Unexpired(auth_codes) \subseteq DOMAIN Live(auth_codes, now)
        /\ Unexpired(pending_reauth) \subseteq DOMAIN Live(pending_reauth, now)
        /\ Unexpired(pending_consents) \subseteq DOMAIN Live(pending_consents, now)
    OBVIOUS
  <2>1. /\ \A e \in Expiring : e.expires_at \in Nat
        /\ \A e \in Transaction : e.expires_at \in Nat
    BY DEF Expiring, Transaction
  <2> QED
    BY <2>1, PurgeInThePast DEF TypeOK
<1>1. Unexpired(sessions) \subseteq DOMAIN sessions'
  <2>1. ASSUME NEW w \in Workers, CreateSession(w)
        PROVE  Unexpired(sessions) \subseteq DOMAIN sessions'
    BY <2>1, PutEntries DEF CreateSession, Unexpired
  <2>2. ASSUME NEW w \in Workers, GetSession(w)
        PROVE  Unexpired(sessions) \subseteq DOMAIN sessions'
    BY <2>2, <1>a, <1>b DEF GetSession
  <2>3. CASE UNCHANGED sessions
    BY <2>3 DEF Unexpired
  <2> QED
    BY <2>1, <2>2, <2>3
    DEF Next, vars, tables, Tick, Call, IssueAuthorizationCode,
        ConsumeAuthorizationCode, CreatePendingReauth, ConsumePendingReauth,
        CreatePendingReauthConsent, GetPendingReauthConsent,
        ConsumePendingReauthConsent
<1>2. ASSUME NEW g \in Unexpired(auth_codes), g \notin LiveGrants'
      PROVE  delivered'[g] = delivered[g] + 1
  <2>1. g \in Grants /\ g \in DOMAIN auth_codes
    BY DEF Unexpired, TypeOK, IsTable, Grants
  <2>2. ASSUME NEW w \in Workers, IssueAuthorizationCode(w)
        PROVE  FALSE
    BY <1>2, <2>1, <2>2, PutEntries DEF IssueAuthorizationCode, LiveGrants
  <2>3. ASSUME NEW w \in Workers, ConsumeAuthorizationCode(w)
        PROVE  delivered'[g] = delivered[g] + 1
    <3>1. g \in DOMAIN Live(auth_codes, calls[w].now)
      BY <2>3, <1>a, <1>b DEF ConsumeAuthorizationCode
    <3>2. g = calls[w].id
      BY <1>2, <2>3, <3>1, DropEntries DEF ConsumeAuthorizationCode, LiveGrants
    <3> QED
      BY <2>1, <2>3, <3>1, <3>2
      DEF ConsumeAuthorizationCode, Delivered, TypeOK
  <2>4. CASE UNCHANGED auth_codes
    BY <1>2, <2>1, <2>4 DEF LiveGrants
  <2> QED
    BY <2>2, <2>3, <2>4
    DEF Next, vars, tables, Tick, Call, CreateSession, GetSession,
        CreatePendingReauth, ConsumePendingReauth,
        CreatePendingReauthConsent, GetPendingReauthConsent,
        ConsumePendingReauthConsent
<1>3. ASSUME NEW g \in Unexpired(pending_consents), g \notin LiveGrants'
      PROVE  delivered'[g] = delivered[g] + 1
  <2>1. g \in Grants /\ g \in DOMAIN pending_consents
    BY DEF Unexpired, TypeOK, IsTable, Grants
  <2>2. ASSUME NEW w \in Workers, CreatePendingReauthConsent(w)
        PROVE  FALSE
    <3>1. g \in DOMAIN Live(pending_consents, calls[w].now)
      BY <2>2, <1>a, <1>b DEF CreatePendingReauthConsent
    <3> QED
      BY <1>3, <2>2, <3>1, PutEntries DEF CreatePendingReauthConsent, LiveGrants
  <2>3. ASSUME NEW w \in Workers, GetPendingReauthConsent(w)
        PROVE  FALSE
    BY <1>3, <2>3, <1>a, <1>b DEF GetPendingReauthConsent, LiveGrants
  <2>4. ASSUME NEW w \in Workers, ConsumePendingReauthConsent(w)
        PROVE  delivered'[g] = delivered[g] + 1
    <3>1. g \in DOMAIN Live(pending_consents, calls[w].now)
      BY <2>4, <1>a, <1>b DEF ConsumePendingReauthConsent
    <3>2. g = calls[w].id
      BY <1>3, <2>4, <3>1, DropEntries DEF ConsumePendingReauthConsent, LiveGrants
    <3> QED
      BY <2>1, <2>4, <3>1, <3>2
      DEF ConsumePendingReauthConsent, Delivered, TypeOK
  <2>5. CASE UNCHANGED pending_consents
    BY <1>3, <2>1, <2>5 DEF LiveGrants
  <2> QED
    BY <2>2, <2>3, <2>4, <2>5
    DEF Next, vars, tables, Tick, Call, CreateSession, GetSession,
        IssueAuthorizationCode, ConsumeAuthorizationCode,
        CreatePendingReauth, ConsumePendingReauth
<1>4. ASSUME NEW st \in Unexpired(pending_reauth),
             NEW n, n = pending_reauth[st].nonce, n \notin LiveGrants'
      PROVE  delivered'[n] = delivered[n] + 1
  <2>1. n \in Grants /\ st \in DOMAIN pending_reauth
    BY <1>4 DEF Unexpired, TypeOK, IsTable, Transaction, Grants
  <2>2. st \in DOMAIN pending_reauth' => pending_reauth'[st].nonce # n
    BY <1>4 DEF LiveGrants
  <2>3. ASSUME NEW w \in Workers, CreatePendingReauth(w)
        PROVE  FALSE
    <3>1. st \in DOMAIN Live(pending_reauth, calls[w].now)
      BY <2>3, <1>a, <1>b DEF CreatePendingReauth
    <3> QED
      BY <1>4, <2>2, <2>3, <3>1, LiveEntries, PutEntries DEF CreatePendingReauth
  <2>4. ASSUME NEW w \in Workers, ConsumePendingReauth(w)
        PROVE  delivered'[n] = delivered[n] + 1
    <3>1. st \in DOMAIN Live(pending_reauth, calls[w].now)
      BY <2>4, <1>a, <1>b DEF ConsumePendingReauth
    <3>2. st = calls[w].state /\ Delivered(n)
      BY <1>4, <2>2, <2>4, <3>1, LiveEntries, DropEntries
      DEF ConsumePendingReauth
    <3> QED
      BY <2>1, <3>2 DEF Delivered, TypeOK
  <2>5. CASE UNCHANGED pending_reauth
    BY <1>4, <2>1, <2>2, <2>5
  <2> QED
    BY <2>3, <2>4, <2>5
    DEF Next, vars, tables, Tick, Call, CreateSession, GetSession,
        IssueAuthorizationCode, ConsumeAuthorizationCode,
        CreatePendingReauthConsent, GetPendingReauthConsent,
        ConsumePendingReauthConsent
<1> QED
  BY <1>1, <1>2, <1>3, <1>4 DEF LossIsExplained

(* No entry is lost before it expires, unless it is delivered. *)
THEOREM Retention == Spec => NoPrematureLoss
<1>1. IInv /\ IInv' /\ [Next]_vars => [LossIsExplained]_vars
  BY LossStep
<1> QED
  BY <1>1, Invariance, PTL DEF Spec, NoPrematureLoss
-----------------------------------------------------------------------------
(* Whoever is handed a grant read the clock while it was good.  The other   *)
(* callers' calls do not end in that step.                                  *)
LEMMA DeliveryTimes ==
  ASSUME IInv, [Next]_vars
  PROVE  DeliveryIsTimely
<1> SUFFICES ASSUME NEW w \in Workers, HandedTo(w)
             PROVE
      LET c == calls[w] IN
      CASE c.op = "consume_code"    -> c.now < auth_codes[c.id].expires_at
        [] c.op = "consume_consent" -> c.now < pending_consents[c.id].expires_at
        [] c.op = "consume_reauth"  ->
             /\ c.now < pending_reauth[c.state].expires_at
             /\ c.provider = pending_reauth[c.state].provider_id
  BY DEF DeliveryIsTimely
<1> DEFINE c == calls[w]
<1>1. /\ calls \in [Workers -> {Idle} \cup CallsAt(Nat)]
      /\ \A k \in DOMAIN auth_codes : auth_codes[k].expires_at \in Nat
      /\ \A k \in DOMAIN pending_consents : pending_consents[k].expires_at \in Nat
      /\ \A k \in DOMAIN pending_reauth : pending_reauth[k].expires_at \in Nat
  BY DEF IInv, TypeOK, IsTable, Expiring, Transaction
<1>2. \A v \in Workers : Return(v) => v = w
  BY <1>1 DEF Return, HandedTo
<1>3. delivered' # delivered
  BY DEF HandedTo
<1>4. \A table : \A k \in DOMAIN Live(table, c.now) :
        /\ k \in DOMAIN table /\ Live(table, c.now)[k] = table[k]
        /\ table[k].expires_at > c.now
  BY LiveEntries
<1>5. c.op # "idle" => c.now \in Nat
  BY <1>1, CallArguments
<1>6. CASE ConsumeAuthorizationCode(w)
  <2>1. c.op = "consume_code" /\ c.id \in DOMAIN Live(auth_codes, c.now)
    BY <1>3, <1>6 DEF ConsumeAuthorizationCode, NotDelivered
  <2>2. c.now < auth_codes[c.id].expires_at
    BY <1>1, <1>4, <1>5, <2>1
  <2> QED
    BY <2>1, <2>2
<1>7. CASE ConsumePendingReauthConsent(w)
  <2>1. c.op = "consume_consent" /\ c.id \in DOMAIN Live(pending_consents, c.now)
    BY <1>3, <1>7 DEF ConsumePendingReauthConsent, NotDelivered
  <2>2. c.now < pending_consents[c.id].expires_at
    BY <1>1, <1>4, <1>5, <2>1
  <2> QED
    BY <2>1, <2>2
<1>8. CASE ConsumePendingReauth(w)
  <2>1. /\ c.op = "consume_reauth" /\ c.state \in DOMAIN Live(pending_reauth, c.now)
        /\ Live(pending_reauth, c.now)[c.state].provider_id = c.provider
    BY <1>3, <1>8 DEF ConsumePendingReauth, NotDelivered, history
  <2>2. /\ c.now < pending_reauth[c.state].expires_at
        /\ c.provider = pending_reauth[c.state].provider_id
    BY <1>1, <1>4, <1>5, <2>1
  <2> QED
    BY <2>1, <2>2
<1> QED
  BY <1>2, <1>3, <1>6, <1>7, <1>8
  DEF Next, vars, history, Tick, Call, CreateSession, GetSession,
      IssueAuthorizationCode, ConsumeAuthorizationCode, CreatePendingReauth,
      ConsumePendingReauth, CreatePendingReauthConsent, GetPendingReauthConsent,
      ConsumePendingReauthConsent, Stored

(* A grant is handed over in time, and a transaction to its own provider.   *)
THEOREM Timely == Spec => DeliveredInTime
<1>1. IInv /\ [Next]_vars => [DeliveryIsTimely]_vars
  BY DeliveryTimes
<1> QED
  BY <1>1, Invariance, PTL DEF Spec, DeliveredInTime

-----------------------------------------------------------------------------
(* What the contract alone promises, whoever implements it.                 *)
ContractInv == OneTime!TypeOK /\ OneTime!DeliveredOnce

(* A step of the contract types the grants and delivers none twice. *)
LEMMA ContractStep ==
  ASSUME ContractInv, [OneTime!Next]_OneTime!vars
  PROVE  ContractInv'
<1> USE DEF ContractInv, OneTime!TypeOK, OneTime!DeliveredOnce, OneTime!Statuses,
            OneTime!LiveGrants
<1>1. CASE OneTime!Lapse
  BY <1>1 DEF OneTime!Lapse
<1>2. ASSUME NEW g \in Grants, OneTime!Issue(g)
      PROVE  ContractInv'
  BY <1>2 DEF OneTime!Issue, OneTime!Moved
<1>3. ASSUME NEW g \in Grants, OneTime!Spend(g)
      PROVE  ContractInv'
  <2>1. /\ delivered[g] = 0 /\ GrantStatus(g) = "live"
        /\ delivered' = [delivered EXCEPT ![g] = 1]
    <3>1. GrantStatus(g) = "live" /\ delivered' = [delivered EXCEPT ![g] = delivered[g] + 1]
      BY <1>3 DEF OneTime!Spend
    <3>2. delivered[g] = 0
      BY <3>1
    <3>3. delivered[g] + 1 = 1
      BY <3>2
    <3> QED
      BY <3>1, <3>2, <3>3
  <2>2. PICK lapsed \in SUBSET OneTime!LiveGrants : OneTime!Moved(g, "spent", lapsed)
    BY <1>3 DEF OneTime!Spend
  <2>3. \A h \in Grants :
          GrantStatus(h)' = IF h = g THEN "spent"
                            ELSE IF h \in lapsed THEN "lapsed"
                            ELSE GrantStatus(h)
    BY <2>2 DEF OneTime!Moved
  <2>4. \A h \in lapsed : GrantStatus(h) = "live"
    BY <2>2
  <2>5. OneTime!TypeOK'
    BY <2>1, <2>3
  <2>6. OneTime!DeliveredOnce'
    BY <2>1, <2>3, <2>4
  <2> QED
    BY <2>5, <2>6
<1>4. CASE UNCHANGED OneTime!vars
  BY <1>4 DEF OneTime!vars
<1> QED
  BY <1>1, <1>2, <1>3, <1>4 DEF OneTime!Next

(* Under the contract a grant is delivered at most once, and exactly once   *)
(* when it is spent.                                                        *)
LEMMA Once == OneTime!Spec => []OneTime!DeliveredOnce
<1>1. OneTime!Init => ContractInv
  BY DEF OneTime!Init, ContractInv, OneTime!TypeOK, OneTime!DeliveredOnce,
         OneTime!Statuses
<1>2. ContractInv /\ [OneTime!Next]_OneTime!vars => ContractInv'
  BY ContractStep
<1>3. ContractInv => OneTime!DeliveredOnce
  BY DEF ContractInv
<1> QED
  BY <1>1, <1>2, <1>3, PTL DEF OneTime!Spec

(* The store keeps that promise: of its grants, the spent ones have been    *)
(* delivered once, and the others never.                                    *)
THEOREM Promise == Spec => []OneTime!DeliveredOnce
BY Refinement, Once, PTL DEF ImplementsSingleUse
=============================================================================
