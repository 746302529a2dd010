--------------------------- MODULE ReAuthFlow_proofs ---------------------------
(***************************************************************************)
(* Re-authentication for any configurations, any number of transactions,    *)
(* handlers, upstream codes and consents, and any lifetimes and timeouts.   *)
(***************************************************************************)
EXTENDS ReAuthFlow, ExpiringMap_proofs, FiniteSetTheorems, SequenceTheorems

-----------------------------------------------------------------------------
(* The inductive invariant: what is known of a thing at each place where a  *)
(* transaction can be, and that it is at one of them.                       *)

(* The transaction as it began, for the provider its client has. *)
BegunOK(s) ==
  /\ begun[s].client \in DOMAIN config.clients
  /\ begun[s].provider = config.clients[begun[s].client].provider
  /\ begun[s].at <= clock

PendingOK(s) ==
  /\ s \in DOMAIN begun
  /\ pending[s].client = begun[s].client
  /\ pending[s].provider = begun[s].provider
  /\ pending[s].expires_at = begun[s].at + ReauthTtl

(* The provider let the user in for the request with this nonce. *)
LetIn(provider, subject, nonce) ==
  \E u \in DOMAIN upstream :
    /\ upstream[u].provider = provider
    /\ upstream[u].subject = subject
    /\ upstream[u].nonce = nonce

CallbackOK(callback) ==
  callback.code # None =>
    /\ callback.code \in DOMAIN upstream
    /\ upstream[callback.code].provider = callback.provider

(* A handler that holds a transaction. *)
Holds(slot) == calls[slot].phase \in {"exchanging", "validating"}

CallOK(slot) ==
  LET call == calls[slot] IN
  /\ call # Idle => clock <= call.since + Timeout
  /\ In(slot, "discovering") => call.client \in DOMAIN config.clients
  /\ Holds(slot) =>
       /\ call.state \in DOMAIN begun
       /\ call.transaction.client = begun[call.state].client
       /\ call.transaction.provider = begun[call.state].provider
  /\ In(slot, "exchanging") =>
       /\ call.code \in DOMAIN upstream
       /\ upstream[call.code].provider = call.transaction.provider
       /\ call.since < begun[call.state].at + ReauthTtl
  /\ In(slot, "validating") =>
       /\ LetIn(call.transaction.provider, call.subject, call.nonce)
       /\ call.since < begun[call.state].at + ReauthTtl + Timeout

ConsentOK(id) ==
  LET asking == consents[id] IN
  /\ asking.state \in DOMAIN begun
  /\ asking.client = begun[asking.state].client
  /\ asking.user.provider = begun[asking.state].provider
  /\ LetIn(asking.user.provider, asking.user.subject, asking.state)
  /\ begun[asking.state].at + ConsentTtl <= asking.expires_at
  /\ asking.expires_at <
       begun[asking.state].at + ReauthTtl + 2 * Timeout + ConsentTtl

GrantOK(c) ==
  LET grant == granted[c] IN
  /\ grant.state \in DOMAIN begun
  /\ grant.client = begun[grant.state].client
  /\ grant.user.provider = begun[grant.state].provider
  /\ LetIn(grant.user.provider, grant.user.subject, grant.state)
  /\ grant.at < begun[grant.state].at + ReauthTtl + 2 * Timeout + ConsentTtl

Agreement ==
  /\ \A s \in DOMAIN begun : BegunOK(s)
  /\ \A s \in DOMAIN pending : PendingOK(s)
  /\ \A callback \in callbacks : CallbackOK(callback)
  /\ \A slot \in Slots : CallOK(slot)
  /\ \A id \in DOMAIN consents : ConsentOK(id)
  /\ \A c \in DOMAIN granted : GrantOK(c)
  /\ \A s \in States : answers[s] # <<>> => s \in DOMAIN begun
  /\ visits \subseteq DOMAIN begun

(* A transaction is at one place only, and counted there once. *)
OnePlace ==
  /\ \A s \in DOMAIN pending : ~InCall(s) /\ ~InConsent(s) /\ answers[s] = <<>>
  /\ \A slot \in Slots :
       Holds(slot) =>
         /\ ~InConsent(calls[slot].state) /\ answers[calls[slot].state] = <<>>
         /\ \A other \in Slots :
              Holds(other) /\ calls[other].state = calls[slot].state => other = slot
  /\ \A id \in DOMAIN consents :
       /\ answers[consents[id].state] = <<>>
       /\ \A other \in DOMAIN consents :
            consents[other].state = consents[id].state => other = id
  /\ ClientHearsOnce

Somewhere(s) ==
  s \in DOMAIN pending \/ InCall(s) \/ InConsent(s) \/ answers[s] # <<>>

(* A transaction that is nowhere was lost or has run out. *)
Accounted ==
  \A s \in DOMAIN begun :
    \/ Somewhere(s)
    \/ s \in dropped
    \/ clock >= begun[s].at + ReauthTtl
    \/ clock >= begun[s].at + ConsentTtl

(* The identifiers of consents are drawn. *)
ConsentsAreDrawn == DOMAIN consents \subseteq drawn

IInv == TypeOK /\ Agreement /\ OnePlace /\ Accounted /\ ConsentsAreDrawn

-----------------------------------------------------------------------------
(* What grows and what stays.                                               *)

(* Transactions and upstream codes stay what they are. *)
Keeps ==
  /\ \A s \in DOMAIN begun : s \in DOMAIN begun' /\ begun'[s] = begun[s]
  /\ \A u \in DOMAIN upstream :
       /\ u \in DOMAIN upstream'
       /\ upstream'[u].provider = upstream[u].provider
       /\ upstream'[u].subject = upstream[u].subject
       /\ upstream'[u].nonce = upstream[u].nonce

(* A user who was let in stays let in. *)
LEMMA LetInStays ==
  ASSUME Keeps, NEW p, NEW s, NEW n, LetIn(p, s, n)
  PROVE  LetIn(p, s, n)'
BY DEF Keeps, LetIn

(* A waiting transaction agrees with its beginning as long as it waits. *)
LEMMA PendingStays ==
  ASSUME Keeps, NEW s, PendingOK(s), pending'[s] = pending[s]
  PROVE  PendingOK(s)'
BY DEF Keeps, PendingOK

(* A callback goes on naming a code of its provider. *)
LEMMA CallbackStays ==
  ASSUME Keeps, NEW callback, CallbackOK(callback)
  PROVE  CallbackOK(callback)'
BY DEF Keeps, CallbackOK

(* A handler that does nothing, at a clock that stands, is where it was. *)
LEMMA CallStays ==
  ASSUME Keeps, NEW slot, CallOK(slot), calls'[slot] = calls[slot],
         UNCHANGED <<clock, config>>
  PROVE  CallOK(slot)'
<1>1. In(slot, "validating") =>
        LetIn(calls[slot].transaction.provider, calls[slot].subject, calls[slot].nonce)'
  BY LetInStays DEF CallOK
<1> QED
  BY <1>1 DEF Keeps, CallOK, Holds, In, LetIn

(* A waiting consent goes on agreeing with its transaction. *)
LEMMA ConsentStays ==
  ASSUME Keeps, NEW id, ConsentOK(id), consents'[id] = consents[id]
  PROVE  ConsentOK(id)'
<1>1. LetIn(consents[id].user.provider, consents[id].user.subject, consents[id].state)'
  BY LetInStays DEF ConsentOK
<1> QED
  BY <1>1 DEF Keeps, ConsentOK, LetIn

(* So does a code that was issued. *)
LEMMA GrantStays ==
  ASSUME Keeps, NEW c, GrantOK(c), granted'[c] = granted[c]
  PROVE  GrantOK(c)'
<1>1. LetIn(granted[c].user.provider, granted[c].user.subject, granted[c].state)'
  BY LetInStays DEF GrantOK
<1> QED
  BY <1>1 DEF Keeps, GrantOK, LetIn

(* When nothing is said upstream and no transaction begins. *)
LEMMA NothingGrows ==
  ASSUME UNCHANGED <<begun, upstream>>
  PROVE  Keeps
BY DEF Keeps

-----------------------------------------------------------------------------
(* Types.                                                                   *)

(* What a handler has at its phases. *)
LEMMA CallParts ==
  ASSUME TypeOK, NEW slot \in Slots
  PROVE  LET call == calls[slot] IN
         /\ call \in Call
         /\ call = Idle <=> In(slot, "idle")
         /\ call.phase \in {"idle", "discovering", "exchanging", "validating"}
         /\ call # Idle => call.since \in Nat
         /\ In(slot, "discovering") => call.client \in Clients
         /\ Holds(slot) => call.state \in States /\ call.transaction \in Transaction
         /\ In(slot, "exchanging") => call.code \in UpstreamCodes
         /\ In(slot, "validating") => call.subject \in Subjects /\ call.nonce \in States
<1>1. calls[slot] \in Call
  BY DEF TypeOK
<1> QED
  BY <1>1 DEF Call, Idle, In, Holds

(* A handler goes on alone. *)
LEMMA OneCallMoves ==
  ASSUME TypeOK, NEW slot \in Slots, NEW call \in Call, Goto(slot, call)
  PROVE  /\ calls' \in [Slots -> Call]
         /\ calls'[slot] = call
         /\ \A other \in Slots : other # slot => calls'[other] = calls[other]
BY DEF TypeOK, Goto

(* The constants as a prover needs them. *)
LEMMA Constants ==
  /\ ReauthTtl \in Nat /\ ConsentTtl \in Nat /\ Timeout \in Nat
  /\ None \notin UpstreamCodes
BY ParametersAreWellFormed

(* A client of the configuration has a provider and a way to ask. *)
LEMMA ClientParts ==
  ASSUME TypeOK, NEW client \in DOMAIN config.clients
  PROVE  /\ client \in Clients
         /\ config.clients[client].provider \in Providers
         /\ config.clients[client].consent \in {"local", "skip"}
BY ParametersAreWellFormed DEF TypeOK, Clients

(* A client's answer is its first. *)
LEMMA FirstAnswer ==
  ASSUME TypeOK, NEW state \in States, NEW answer \in {"code", "error"},
         answers[state] = <<>>, Answer(state, answer)
  PROVE  /\ answers' \in [States -> Seq({"code", "error"})]
         /\ answers'[state] # <<>> /\ Len(answers'[state]) = 1
         /\ \A s \in States : s # state => answers'[s] = answers[s]
<1>1. answers' = [answers EXCEPT ![state] = Append(<<>>, answer)]
  BY DEF Answer
<1>2. /\ Append(<<>>, answer) \in Seq({"code", "error"})
      /\ Append(<<>>, answer) # <<>> /\ Len(Append(<<>>, answer)) = 1
  OBVIOUS
<1> QED
  BY <1>1, <1>2 DEF TypeOK

(* The times of a transaction are numbers. *)
LEMMA BegunParts ==
  ASSUME TypeOK, NEW s \in DOMAIN begun
  PROVE  /\ s \in States /\ begun[s].at \in Nat
         /\ begun[s].client \in Clients /\ begun[s].provider \in Providers
BY DEF TypeOK, IsTable

(* The types of a waiting transaction. *)
LEMMA PendingParts ==
  ASSUME TypeOK, NEW s \in DOMAIN pending
  PROVE  s \in States /\ pending[s] \in Transaction /\ pending[s].expires_at \in Nat
BY DEF TypeOK, IsTable, Transaction

(* The types of a waiting consent. *)
LEMMA ConsentParts ==
  ASSUME TypeOK, NEW id \in DOMAIN consents
  PROVE  /\ id \in ConsentIds
         /\ consents[id].state \in States /\ consents[id].client \in Clients
         /\ consents[id].user \in User /\ consents[id].expires_at \in Nat
BY DEF TypeOK, IsTable, PendingConsent

(* A sequence is empty when it has no length, and so an answered            *)
(* transaction has one answer.                                              *)
LEMMA AnswerParts ==
  ASSUME TypeOK, NEW s \in States
  PROVE  /\ answers[s] \in Seq({"code", "error"})
         /\ answers[s] = <<>> => Len(answers[s]) = 0
BY DEF TypeOK

-----------------------------------------------------------------------------
(* Parts that stand when a step does not touch them.                        *)

(* Places do not change where the tables, handlers and answers do not. *)
LEMMA OnePlaceStands ==
  ASSUME OnePlace, UNCHANGED <<pending, calls, consents, answers>>
  PROVE  OnePlace'
BY DEF OnePlace, InCall, InConsent, Holds, ClientHearsOnce

(* Nothing is lost by a step that moves nothing and takes no time. *)
LEMMA AccountedStands ==
  ASSUME Accounted, UNCHANGED <<clock, pending, calls, consents, answers, begun, dropped>>
  PROVE  Accounted'
BY DEF Accounted, Somewhere, InCall, InConsent

(* A step that touches no transaction and no table. *)
LEMMA AgreementStands ==
  ASSUME Agreement, Keeps,
         UNCHANGED <<clock, config, pending, calls, consents, granted, begun, answers,
                     visits, callbacks>>
  PROVE  Agreement'
<1>1. \A s \in DOMAIN begun : BegunOK(s)'
  BY DEF Agreement, BegunOK
<1>2. \A s \in DOMAIN pending : PendingOK(s)'
  BY PendingStays DEF Agreement
<1>3. \A callback \in callbacks : CallbackOK(callback)'
  BY CallbackStays DEF Agreement
<1>4. \A slot \in Slots : CallOK(slot)'
  BY CallStays DEF Agreement
<1>5. \A id \in DOMAIN consents : ConsentOK(id)'
  BY ConsentStays DEF Agreement
<1>6. \A c \in DOMAIN granted : GrantOK(c)'
  BY GrantStays DEF Agreement
<1> QED
  BY <1>1, <1>2, <1>3, <1>4, <1>5, <1>6 DEF Agreement

(* Tables that are purged lose what has run out. *)
LEMMA PurgedPending ==
  ASSUME IInv, NEW s \in DOMAIN pending, s \notin DOMAIN Live(pending, clock)
  PROVE  clock >= begun[s].at + ReauthTtl
<1>1. PendingOK(s) /\ TypeOK
  BY DEF IInv, Agreement
<1>2. clock \in Nat /\ pending[s].expires_at \in Nat
  BY <1>1, PendingParts DEF TypeOK
<1>3. ~(pending[s].expires_at > clock)
  BY LiveEntries
<1> QED
  BY <1>1, <1>2, <1>3 DEF PendingOK

(* A consent that is purged is past the lifetime of a consent. *)
LEMMA PurgedConsent ==
  ASSUME IInv, NEW id \in DOMAIN consents, id \notin DOMAIN Live(consents, clock)
  PROVE  clock >= begun[consents[id].state].at + ConsentTtl
<1>1. ConsentOK(id) /\ TypeOK
  BY DEF IInv, Agreement
<1>2. /\ clock \in Nat /\ consents[id].expires_at \in Nat
      /\ begun[consents[id].state].at \in Nat /\ ConsentTtl \in Nat
  BY <1>1, ConsentParts, BegunParts, Constants DEF TypeOK, ConsentOK
<1>3. ~(consents[id].expires_at > clock)
  BY LiveEntries
<1> QED
  BY <1>1, <1>2, <1>3 DEF ConsentOK

-----------------------------------------------------------------------------
(* The steps.                                                               *)

(* Time passes, but no further than the timeout of any call. *)
LEMMA TickKeeps ==
  ASSUME IInv, Tick
  PROVE  IInv'
<1>1. /\ clock \in Nat /\ clock' = clock + 1
      /\ \A slot \in Slots : calls[slot] # Idle => clock < calls[slot].since + Timeout
      /\ UNCHANGED <<config, pending, consents, calls, visits, upstream, callbacks,
                     restarts, begun, answers, granted, drawn, dropped>>
  BY DEF Tick, tables, outside, history, IInv, TypeOK
<1>2. TypeOK /\ Agreement /\ OnePlace /\ Accounted /\ ConsentsAreDrawn
  BY DEF IInv
<1>3. TypeOK'
  BY <1>1, <1>2 DEF TypeOK, IsTable
<1>4. Keeps
  BY <1>1, NothingGrows
<1>5. ASSUME NEW slot \in Slots
      PROVE  CallOK(slot)'
  <2>1. CallOK(slot)
    BY <1>2 DEF Agreement
  <2>2. calls[slot] # Idle => calls[slot].since \in Nat
    BY <1>2, CallParts
  <2>3. calls[slot] # Idle => clock' <= calls[slot].since + Timeout
    BY <2>2, <1>1, Constants
  <2> QED
    BY <2>1, <2>3, <1>1 DEF CallOK, Holds, In, LetIn
<1>6. ASSUME NEW s \in DOMAIN begun
      PROVE  BegunOK(s)'
  BY <1>1, <1>2, BegunParts DEF Agreement, BegunOK
<1>7. Agreement'
  <2>1. \A s \in DOMAIN pending : PendingOK(s)'
    BY <1>1, <1>2, <1>4, PendingStays DEF Agreement
  <2>2. \A callback \in callbacks : CallbackOK(callback)'
    BY <1>1, <1>2, <1>4, CallbackStays DEF Agreement
  <2>3. \A id \in DOMAIN consents : ConsentOK(id)'
    BY <1>1, <1>2, <1>4, ConsentStays DEF Agreement
  <2>4. \A c \in DOMAIN granted : GrantOK(c)'
    BY <1>1, <1>2, <1>4, GrantStays DEF Agreement
  <2> QED
    BY <2>1, <2>2, <2>3, <2>4, <1>1, <1>2, <1>5, <1>6 DEF Agreement
<1>8. Accounted'
  <2>1. \A s \in DOMAIN begun :
          /\ clock >= begun[s].at + ReauthTtl => clock' >= begun[s].at + ReauthTtl
          /\ clock >= begun[s].at + ConsentTtl => clock' >= begun[s].at + ConsentTtl
    BY <1>1, <1>2, BegunParts, Constants
  <2> QED
    BY <2>1, <1>1, <1>2 DEF Accounted, Somewhere, InCall, InConsent
<1> QED
  BY <1>1, <1>2, <1>3, <1>7, <1>8, OnePlaceStands DEF IInv, ConsentsAreDrawn

(* A handler that holds no transaction begins a discovery, or ends one. *)
LEMMA WithoutTransactionKeeps ==
  ASSUME IInv, NEW slot \in Slots, ~Holds(slot), NEW call \in Call, Goto(slot, call),
         \/ call = Idle
         \/ /\ call.phase = "discovering" /\ call.since = clock
            /\ call.client \in DOMAIN config.clients,
         UNCHANGED <<clock, config, tables, outside, restarts, history>>
  PROVE  IInv'
<1>1. UNCHANGED <<clock, config, pending, consents, visits, upstream, callbacks,
                  restarts, begun, answers, granted, drawn, dropped>>
  BY DEF tables, outside, history
<1>2. TypeOK /\ Agreement /\ OnePlace /\ Accounted /\ ConsentsAreDrawn
  BY DEF IInv
<1>3. /\ calls' \in [Slots -> Call]
      /\ calls'[slot] = call
      /\ \A other \in Slots : other # slot => calls'[other] = calls[other]
  BY <1>2, OneCallMoves
<1>4. TypeOK'
  BY <1>1, <1>2, <1>3 DEF TypeOK, IsTable
<1>5. Keeps
  BY <1>1, NothingGrows
<1>6. ~Holds(slot)'
  BY <1>3 DEF Holds, Idle
<1>7. \A other \in Slots :
        /\ Holds(other)' <=> Holds(other)
        /\ Holds(other) => calls'[other] = calls[other]
  BY <1>3, <1>6 DEF Holds
<1>8. CallOK(slot)'
  <2>1. clock <= clock + Timeout
    BY <1>2, Constants DEF TypeOK
  <2> QED
    BY <2>1, <1>1, <1>3, <1>6 DEF CallOK, In, Holds, Idle
<1>9. Agreement'
  <2>1. \A other \in Slots : CallOK(other)'
    BY <1>1, <1>2, <1>3, <1>5, <1>8, CallStays DEF Agreement
  <2>2. \A s \in DOMAIN pending : PendingOK(s)'
    BY <1>1, <1>2, <1>5, PendingStays DEF Agreement
  <2>3. \A callback \in callbacks : CallbackOK(callback)'
    BY <1>2, <1>5, CallbackStays DEF Agreement
  <2>4. \A id \in DOMAIN consents : ConsentOK(id)'
    BY <1>1, <1>2, <1>5, ConsentStays DEF Agreement
  <2>5. \A c \in DOMAIN granted : GrantOK(c)'
    BY <1>1, <1>2, <1>5, GrantStays DEF Agreement
  <2>6. \A s \in DOMAIN begun : BegunOK(s)'
    BY <1>1, <1>2 DEF Agreement, BegunOK
  <2> QED
    BY <2>1, <2>2, <2>3, <2>4, <2>5, <2>6, <1>1, <1>2 DEF Agreement
<1>10. \A s : InCall(s)' <=> InCall(s)
  BY <1>7 DEF InCall, Holds
<1>11. \A s : InConsent(s)' <=> InConsent(s)
  BY <1>1 DEF InConsent
<1>12. OnePlace'
  BY <1>1, <1>2, <1>7, <1>10, <1>11 DEF OnePlace, ClientHearsOnce
<1>13. Accounted'
  BY <1>1, <1>2, <1>10, <1>11 DEF Accounted, Somewhere
<1> QED
  BY <1>1, <1>2, <1>4, <1>9, <1>12, <1>13 DEF IInv, ConsentsAreDrawn

(* The metadata arrived: a new transaction that is at no place yet. *)
LEMMA BeginReauthKeeps ==
  ASSUME IInv, NEW slot \in Slots, BeginReauth(slot)
  PROVE  IInv'
<1> DEFINE client   == calls[slot].client
           provider == config.clients[client].provider
           live     == Live(pending, clock)
<1>1. PICK state \in States \ DOMAIN begun :
        /\ pending' = Put(live, state,
                          [client |-> client, provider |-> provider,
                           expires_at |-> clock + ReauthTtl])
        /\ begun' = Put(begun, state, [client |-> client, provider |-> provider,
                                       at |-> clock])
        /\ visits' = visits \cup {state}
  BY DEF BeginReauth
<1>2. /\ In(slot, "discovering") /\ Goto(slot, Idle)
      /\ UNCHANGED <<clock, config, consents, upstream, callbacks, restarts, answers,
                     granted, drawn, dropped>>
  BY DEF BeginReauth
<1>3. TypeOK /\ Agreement /\ OnePlace /\ Accounted /\ ConsentsAreDrawn
  BY DEF IInv
<1>4. client \in DOMAIN config.clients
  BY <1>2, <1>3 DEF Agreement, CallOK
<1>5. /\ client \in Clients /\ provider \in Providers
      /\ clock \in Nat /\ ReauthTtl \in Nat
  BY <1>3, <1>4, ClientParts, Constants DEF TypeOK
<1> DEFINE entry == [client |-> client, provider |-> provider,
                     expires_at |-> clock + ReauthTtl]
           start == [client |-> client, provider |-> provider, at |-> clock]
<1>6. /\ entry \in Transaction
      /\ start \in [client : Clients, provider : Providers, at : Nat]
  BY <1>5 DEF Transaction
<1>7. /\ entry.client = start.client /\ entry.provider = start.provider
      /\ entry.expires_at = start.at + ReauthTtl
      /\ start.client \in DOMAIN config.clients
      /\ start.provider = config.clients[start.client].provider
      /\ start.at <= clock
  BY <1>4, <1>5
<1>8. pending' = Put(live, state, entry) /\ begun' = Put(begun, state, start)
  BY <1>1
<1> HIDE DEF entry, start, client, provider
<1>9. /\ \A s : s \in DOMAIN live =>
              s \in DOMAIN pending /\ live[s] = pending[s]
      /\ IsTable(live, States, Transaction)
  BY <1>3, LiveEntries, TablesStayTables DEF TypeOK
<1>10. ASSUME NEW s \in DOMAIN pending, s \notin DOMAIN live
       PROVE  clock >= begun[s].at + ReauthTtl
  BY <1>10, PurgedPending
<1> HIDE DEF live
<1>11. state \in States /\ state \notin DOMAIN begun /\ state \notin DOMAIN live
  BY <1>1, <1>3, <1>9 DEF Agreement, PendingOK
<1>12. /\ DOMAIN pending' = DOMAIN live \cup {state} /\ pending'[state] = entry
       /\ \A s \in DOMAIN live : pending'[s] = pending[s]
       /\ DOMAIN begun' = DOMAIN begun \cup {state} /\ begun'[state] = start
       /\ \A s \in DOMAIN begun : begun'[s] = begun[s]
  <2>1. /\ DOMAIN pending' = DOMAIN live \cup {state}
        /\ DOMAIN begun' = DOMAIN begun \cup {state}
    BY <1>8 DEF Put
  <2> QED
    BY <2>1, <1>8, <1>9, <1>11, PutEntries
<1>13. Keeps
  BY <1>2, <1>12 DEF Keeps
<1>14. /\ calls' \in [Slots -> Call] /\ calls'[slot] = Idle
       /\ \A other \in Slots : other # slot => calls'[other] = calls[other]
  <2>1. Idle \in Call
    BY DEF Call
  <2> QED
    BY <2>1, <1>2, <1>3, OneCallMoves
<1>15. /\ ~Holds(slot) /\ ~Holds(slot)'
       /\ \A other \in Slots :
            /\ Holds(other)' <=> Holds(other)
            /\ Holds(other) => calls'[other] = calls[other]
  BY <1>2, <1>14 DEF Holds, Idle, In
<1>16. TypeOK'
  <2>1. IsTable(pending, States, Transaction)'
    BY <1>6, <1>8, <1>9, <1>11, TablesStayTables
  <2>2. IsTable(begun, States, [client : Clients, provider : Providers, at : Nat])'
    BY <1>3, <1>6, <1>8, <1>11, TablesStayTables DEF TypeOK
  <2> QED
    BY <2>1, <2>2, <1>1, <1>2, <1>3, <1>14 DEF TypeOK, IsTable
<1>17. /\ ~InCall(state) /\ ~InConsent(state) /\ answers[state] = <<>>
  BY <1>3, <1>11 DEF Agreement, InCall, InConsent, CallOK, ConsentOK, Holds
<1>18. \A s : (InCall(s)' <=> InCall(s)) /\ (InConsent(s)' <=> InConsent(s))
  BY <1>2, <1>15 DEF InCall, InConsent, Holds
<1>19. Agreement'
  <2>1. ASSUME NEW s \in DOMAIN pending' PROVE PendingOK(s)'
    <3>1. CASE s = state
      BY <3>1, <1>7, <1>12 DEF PendingOK
    <3>2. CASE s # state
      BY <3>2, <2>1, <1>3, <1>9, <1>12, <1>13, PendingStays DEF Agreement
    <3> QED
      BY <3>1, <3>2
  <2>2. ASSUME NEW s \in DOMAIN begun' PROVE BegunOK(s)'
    <3>1. CASE s = state
      BY <3>1, <1>2, <1>7, <1>12 DEF BegunOK
    <3>2. CASE s # state
      BY <3>2, <2>2, <1>2, <1>3, <1>12 DEF Agreement, BegunOK
    <3> QED
      BY <3>1, <3>2
  <2>3. ASSUME NEW other \in Slots PROVE CallOK(other)'
    <3>1. CASE other = slot
      BY <3>1, <1>14 DEF CallOK, Holds, In, Idle
    <3>2. CASE other # slot
      BY <3>2, <1>2, <1>3, <1>13, <1>14, CallStays DEF Agreement
    <3> QED
      BY <3>1, <3>2
  <2>4. \A callback \in callbacks : CallbackOK(callback)'
    BY <1>3, <1>13, CallbackStays DEF Agreement
  <2>5. \A id \in DOMAIN consents : ConsentOK(id)'
    BY <1>2, <1>3, <1>13, ConsentStays DEF Agreement
  <2>6. \A c \in DOMAIN granted : GrantOK(c)'
    BY <1>2, <1>3, <1>13, GrantStays DEF Agreement
  <2> QED
    BY <2>1, <2>2, <2>3, <2>4, <2>5, <2>6, <1>1, <1>2, <1>3, <1>12 DEF Agreement
<1>20. OnePlace'
  <2>1. ASSUME NEW s \in DOMAIN pending'
        PROVE  ~InCall(s)' /\ ~InConsent(s)' /\ answers[s] = <<>>
    BY <1>3, <1>9, <1>12, <1>17, <1>18 DEF OnePlace
  <2> QED
    BY <2>1, <1>2, <1>3, <1>15, <1>18 DEF OnePlace, ClientHearsOnce
<1>21. Accounted'
  <2>1. ASSUME NEW s \in DOMAIN begun'
        PROVE  \/ s \in DOMAIN pending' \/ InCall(s)' \/ InConsent(s)' \/ answers[s] # <<>>
               \/ s \in dropped
               \/ clock >= begun'[s].at + ReauthTtl
               \/ clock >= begun'[s].at + ConsentTtl
    <3>1. CASE s = state
      BY <3>1, <1>12
    <3>2. CASE s # state
      BY <3>2, <2>1, <1>3, <1>10, <1>12, <1>18 DEF Accounted, Somewhere
    <3> QED
      BY <3>1, <3>2
  <2> QED
    BY <2>1, <1>2 DEF Accounted, Somewhere
<1> QED
  BY <1>2, <1>3, <1>16, <1>19, <1>20, <1>21 DEF IInv, ConsentsAreDrawn

(* What happens at the providers touches no place of a transaction. *)
LEMMA UpstreamLoginKeeps ==
  ASSUME IInv, NEW state \in States, NEW subject \in Subjects,
         UpstreamLogin(state, subject)
  PROVE  IInv'
<1> DEFINE provider == begun[state].provider
           challenge == IF config.providers[provider].pkce THEN state ELSE None
           record == [provider |-> provider, subject |-> subject, nonce |-> state,
                      challenge |-> challenge, used |-> FALSE]
<1>1. PICK code \in UpstreamCodes \ DOMAIN upstream :
        upstream' = Put(upstream, code, record)
  BY DEF UpstreamLogin
<1>2. /\ state \in visits
      /\ UNCHANGED <<clock, config, pending, consents, calls, visits, callbacks,
                     restarts, begun, answers, granted, drawn, dropped>>
  BY DEF UpstreamLogin, tables, history
<1>3. TypeOK /\ Agreement /\ OnePlace /\ Accounted /\ ConsentsAreDrawn
  BY DEF IInv
<1>4. provider \in Providers
  BY <1>2, <1>3, BegunParts DEF Agreement
<1>5. challenge \in States \cup {None}
  OBVIOUS
<1> HIDE DEF challenge, provider
<1>6. record \in UpstreamCode
  BY <1>4, <1>5 DEF UpstreamCode
<1> HIDE DEF record
<1>7. IsTable(upstream, UpstreamCodes, UpstreamCode)'
  BY <1>1, <1>3, <1>6, TablesStayTables DEF TypeOK
<1>8. Keeps
  BY <1>1, <1>2, PutEntries DEF Keeps
<1>9. TypeOK'
  BY <1>2, <1>3, <1>7 DEF TypeOK, IsTable
<1> QED
  BY <1>2, <1>3, <1>8, <1>9, AgreementStands, OnePlaceStands, AccountedStands
  DEF IInv, ConsentsAreDrawn

(* A provider sends the browser back, with a code of its own. *)
LEMMA UpstreamRedirectKeeps ==
  ASSUME IInv, NEW provider \in Providers, NEW state \in States,
         NEW code \in UpstreamCodes \cup {None},
         UpstreamRedirect(provider, state, code)
  PROVE  IInv'
<1> DEFINE new == [provider |-> provider, state |-> state, code |-> code]
<1>1. /\ callbacks' = callbacks \cup {new}
      /\ code # None => code \in DOMAIN upstream /\ upstream[code].provider = provider
      /\ UNCHANGED <<clock, config, pending, consents, calls, visits, upstream,
                     restarts, begun, answers, granted, drawn, dropped>>
  BY DEF UpstreamRedirect, tables, history
<1>2. TypeOK /\ Agreement /\ OnePlace /\ Accounted /\ ConsentsAreDrawn
  BY DEF IInv
<1>3. TypeOK'
  BY <1>1, <1>2 DEF TypeOK, IsTable
<1>4. Keeps
  BY <1>1, NothingGrows
<1>5. \A callback \in callbacks' : CallbackOK(callback)'
  BY <1>1, <1>2 DEF Agreement, CallbackOK
<1>6. Agreement'
  <2>1. \A s \in DOMAIN begun : BegunOK(s)'
    BY <1>1, <1>2 DEF Agreement, BegunOK
  <2>2. \A s \in DOMAIN pending : PendingOK(s)'
    BY <1>1, <1>2, <1>4, PendingStays DEF Agreement
  <2>3. \A slot \in Slots : CallOK(slot)'
    BY <1>1, <1>2, <1>4, CallStays DEF Agreement
  <2>4. \A id \in DOMAIN consents : ConsentOK(id)'
    BY <1>1, <1>2, <1>4, ConsentStays DEF Agreement
  <2>5. \A c \in DOMAIN granted : GrantOK(c)'
    BY <1>1, <1>2, <1>4, GrantStays DEF Agreement
  <2> QED
    BY <2>1, <2>2, <2>3, <2>4, <2>5, <1>1, <1>2, <1>5 DEF Agreement
<1> QED
  BY <1>1, <1>2, <1>3, <1>6, OnePlaceStands, AccountedStands
  DEF IInv, ConsentsAreDrawn

(* The table of transactions shrinks to what is live, or to that without    *)
(* one of them, which goes on elsewhere.                                    *)
LEMMA ShrunkPending ==
  ASSUME IInv, NEW state \in States,
         pending' = Live(pending, clock) \/ pending' = Drop(Live(pending, clock), state),
         UNCHANGED <<clock, begun, upstream>>
  PROVE  /\ IsTable(pending, States, Transaction)'
         /\ \A s \in DOMAIN pending' :
              /\ s \in DOMAIN pending /\ pending'[s] = pending[s] /\ PendingOK(s)'
         /\ pending' = Drop(Live(pending, clock), state) => state \notin DOMAIN pending'
         /\ \A s \in DOMAIN pending \ DOMAIN pending' :
              \/ clock >= begun[s].at + ReauthTtl
              \/ s = state /\ pending' # Live(pending, clock)
<1> DEFINE live == Live(pending, clock)
<1>1. TypeOK /\ Agreement /\ Keeps
  BY NothingGrows DEF IInv
<1>2. /\ IsTable(live, States, Transaction)
      /\ \A s \in DOMAIN live : s \in DOMAIN pending /\ live[s] = pending[s]
      /\ IsTable(Drop(live, state), States, Transaction)
  <2>1. IsTable(live, States, Transaction)
    BY <1>1, TablesStayTables DEF TypeOK
  <2> HIDE DEF live
  <2>2. IsTable(Drop(live, state), States, Transaction)
    BY <2>1, TablesStayTables
  <2> QED
    BY <2>1, <2>2, LiveEntries DEF live
<1>3. \A s \in DOMAIN pending \ DOMAIN live : clock >= begun[s].at + ReauthTtl
  BY PurgedPending
<1>4. pending' = live \/ pending' = Drop(live, state)
  OBVIOUS
<1> HIDE DEF live
<1>5. /\ \A s \in DOMAIN pending' : s \in DOMAIN live /\ pending'[s] = live[s]
      /\ \A s \in DOMAIN live \ DOMAIN pending' : s = state /\ pending' # live
      /\ pending' = Drop(live, state) => state \notin DOMAIN pending'
  BY <1>4, DropEntries
<1>6. \A s \in DOMAIN pending' : s \in DOMAIN pending /\ pending'[s] = pending[s]
  BY <1>2, <1>5
<1>7. \A s \in DOMAIN pending' : PendingOK(s)'
  BY <1>1, <1>6, PendingStays DEF Agreement
<1> QED
  BY <1>2, <1>3, <1>4, <1>5, <1>6, <1>7 DEF live

(* A callback that finds no transaction of its provider. *)
LEMMA UselessCallbackKeeps ==
  ASSUME IInv, pending' = Live(pending, clock),
         UNCHANGED <<clock, config, consents, calls, outside, restarts, history>>
  PROVE  IInv'
<1>1. UNCHANGED <<visits, upstream, callbacks, begun, answers, granted, drawn, dropped>>
  BY DEF outside, history
<1>2. TypeOK /\ Agreement /\ OnePlace /\ Accounted /\ ConsentsAreDrawn /\ Keeps
  BY <1>1, NothingGrows DEF IInv
<1>3. /\ IsTable(pending, States, Transaction)'
      /\ \A s \in DOMAIN pending' : s \in DOMAIN pending /\ PendingOK(s)'
      /\ \A s \in DOMAIN pending \ DOMAIN pending' : clock >= begun[s].at + ReauthTtl
  <2>1. /\ IsTable(Live(pending, clock), States, Transaction)
        /\ \A s \in DOMAIN Live(pending, clock) :
             s \in DOMAIN pending /\ Live(pending, clock)[s] = pending[s]
    BY <1>2, LiveEntries, TablesStayTables DEF TypeOK
  <2>2. \A s \in DOMAIN pending' : s \in DOMAIN pending /\ PendingOK(s)'
    BY <2>1, <1>2, PendingStays DEF Agreement
  <2>3. \A s \in DOMAIN pending \ DOMAIN pending' : clock >= begun[s].at + ReauthTtl
    BY PurgedPending
  <2> QED
    BY <2>1, <2>2, <2>3
<1>4. TypeOK'
  BY <1>1, <1>2, <1>3 DEF TypeOK, IsTable
<1>5. Agreement'
  <2>1. \A s \in DOMAIN begun : BegunOK(s)'
    BY <1>1, <1>2 DEF Agreement, BegunOK
  <2>2. \A callback \in callbacks : CallbackOK(callback)'
    BY <1>2, CallbackStays DEF Agreement
  <2>3. \A slot \in Slots : CallOK(slot)'
    BY <1>2, CallStays DEF Agreement
  <2>4. \A id \in DOMAIN consents : ConsentOK(id)'
    BY <1>2, ConsentStays DEF Agreement
  <2>5. \A c \in DOMAIN granted : GrantOK(c)'
    BY <1>1, <1>2, GrantStays DEF Agreement
  <2> QED
    BY <2>1, <2>2, <2>3, <2>4, <2>5, <1>1, <1>2, <1>3 DEF Agreement
<1>6. OnePlace'
  BY <1>1, <1>2, <1>3 DEF OnePlace, InCall, InConsent, Holds, ClientHearsOnce
<1>7. Accounted'
  BY <1>1, <1>2, <1>3 DEF Accounted, Somewhere, InCall, InConsent
<1> QED
  BY <1>1, <1>2, <1>4, <1>5, <1>6, <1>7 DEF IInv, ConsentsAreDrawn

(* A callback with an error: the transaction is answered. *)
LEMMA ErrorCallbackKeeps ==
  ASSUME IInv, NEW state \in DOMAIN Live(pending, clock),
         pending' = Drop(Live(pending, clock), state),
         Answer(state, "error"),
         UNCHANGED <<clock, config, consents, calls, outside, restarts, begun, granted,
                     drawn, dropped>>
  PROVE  IInv'
<1>1. UNCHANGED <<visits, upstream, callbacks>>
  BY DEF outside
<1>2. TypeOK /\ Agreement /\ OnePlace /\ Accounted /\ ConsentsAreDrawn /\ Keeps
  BY <1>1, NothingGrows DEF IInv
<1>3. state \in DOMAIN pending /\ state \in States /\ state \in DOMAIN begun
  BY <1>2, LiveEntries, PendingParts DEF Agreement, PendingOK
<1>4. /\ IsTable(pending, States, Transaction)'
      /\ \A s \in DOMAIN pending' : s \in DOMAIN pending /\ PendingOK(s)'
      /\ state \notin DOMAIN pending'
      /\ \A s \in DOMAIN pending \ DOMAIN pending' :
           clock >= begun[s].at + ReauthTtl \/ s = state
  BY <1>1, <1>3, ShrunkPending
<1>5. ~InCall(state) /\ ~InConsent(state) /\ answers[state] = <<>>
  BY <1>2, <1>3 DEF OnePlace
<1>6. /\ answers' \in [States -> Seq({"code", "error"})]
      /\ answers'[state] # <<>> /\ Len(answers'[state]) = 1
      /\ \A s \in States : s # state => answers'[s] = answers[s]
  BY <1>2, <1>3, <1>5, FirstAnswer
<1>7. TypeOK'
  BY <1>1, <1>2, <1>4, <1>6 DEF TypeOK, IsTable
<1>8. Agreement'
  <2>1. \A s \in DOMAIN begun : BegunOK(s)'
    BY <1>2 DEF Agreement, BegunOK
  <2>2. \A callback \in callbacks : CallbackOK(callback)'
    BY <1>2, CallbackStays DEF Agreement
  <2>3. \A slot \in Slots : CallOK(slot)'
    BY <1>2, CallStays DEF Agreement
  <2>4. \A id \in DOMAIN consents : ConsentOK(id)'
    BY <1>2, ConsentStays DEF Agreement
  <2>5. \A c \in DOMAIN granted : GrantOK(c)'
    BY <1>2, GrantStays DEF Agreement
  <2>6. \A s \in States : answers'[s] # <<>> => s \in DOMAIN begun
    BY <1>2, <1>3, <1>6 DEF Agreement
  <2> QED
    BY <2>1, <2>2, <2>3, <2>4, <2>5, <2>6, <1>1, <1>2, <1>4 DEF Agreement
<1>9. \A s : (InCall(s)' <=> InCall(s)) /\ (InConsent(s)' <=> InConsent(s))
  BY DEF InCall, InConsent
<1>10. OnePlace'
  <2>1. \A s \in DOMAIN pending' : ~InCall(s)' /\ ~InConsent(s)' /\ answers'[s] = <<>>
    BY <1>2, <1>4, <1>6, <1>9, PendingParts DEF OnePlace
  <2>2. \A slot \in Slots : Holds(slot) => answers'[calls[slot].state] = <<>>
    BY <1>2, <1>5, <1>6, CallParts DEF OnePlace, InCall, Holds
  <2>3. \A id \in DOMAIN consents : answers'[consents[id].state] = <<>>
    BY <1>2, <1>5, <1>6, ConsentParts DEF OnePlace, InConsent
  <2>4. ClientHearsOnce'
    <3>1. ASSUME NEW s \in States PROVE Len(answers'[s]) <= 1
      <4>1. CASE s = state
        BY <4>1, <1>6
      <4>2. CASE s # state
        BY <4>2, <1>2, <1>6 DEF OnePlace, ClientHearsOnce
      <4> QED
        BY <4>1, <4>2
    <3> QED
      BY <3>1 DEF ClientHearsOnce
  <2> QED
    BY <2>1, <2>2, <2>3, <2>4, <1>2, <1>9 DEF OnePlace, Holds
<1>11. Accounted'
  <2>1. ASSUME NEW s \in DOMAIN begun
        PROVE  \/ s \in DOMAIN pending' \/ InCall(s) \/ InConsent(s) \/ answers'[s] # <<>>
               \/ s \in dropped
               \/ clock >= begun[s].at + ReauthTtl
               \/ clock >= begun[s].at + ConsentTtl
    <3>1. CASE s = state
      BY <3>1, <1>6
    <3>2. CASE s # state
      BY <3>2, <1>2, <1>4, <1>6, BegunParts DEF Accounted, Somewhere
    <3> QED
      BY <3>1, <3>2
  <2> QED
    BY <2>1, <1>9 DEF Accounted, Somewhere
<1> QED
  BY <1>2, <1>7, <1>8, <1>10, <1>11 DEF IInv, ConsentsAreDrawn

(* A callback with a code: the transaction moves to the handler. *)
LEMMA CodeCallbackKeeps ==
  ASSUME IInv, NEW slot \in Slots, NEW callback \in callbacks,
         calls[slot] = Idle, callback.code # None,
         callback.state \in DOMAIN Live(pending, clock),
         Live(pending, clock)[callback.state].provider = callback.provider,
         pending' = Drop(Live(pending, clock), callback.state),
         Goto(slot, [phase |-> "exchanging", state |-> callback.state,
                     transaction |-> Live(pending, clock)[callback.state],
                     code |-> callback.code, since |-> clock]),
         UNCHANGED <<clock, config, consents, outside, restarts, history>>
  PROVE  IInv'
<1> DEFINE state == callback.state
           transaction == Live(pending, clock)[state]
           call == [phase |-> "exchanging", state |-> state,
                    transaction |-> transaction,
                    code |-> callback.code, since |-> clock]
<1>1. UNCHANGED <<visits, upstream, callbacks, begun, answers, granted, drawn, dropped>>
  BY DEF outside, history
<1>2. TypeOK /\ Agreement /\ OnePlace /\ Accounted /\ ConsentsAreDrawn /\ Keeps
  BY <1>1, NothingGrows DEF IInv
<1>3. /\ state \in DOMAIN pending /\ state \in States /\ state \in DOMAIN begun
      /\ transaction = pending[state] /\ transaction \in Transaction
      /\ transaction.expires_at > clock
      /\ PendingOK(state)
  BY <1>2, LiveEntries, PendingParts DEF Agreement, PendingOK
<1>4. /\ IsTable(pending, States, Transaction)'
      /\ \A s \in DOMAIN pending' : s \in DOMAIN pending /\ PendingOK(s)'
      /\ state \notin DOMAIN pending'
      /\ \A s \in DOMAIN pending \ DOMAIN pending' :
           clock >= begun[s].at + ReauthTtl \/ s = state
  BY <1>1, <1>3, ShrunkPending
<1>5. ~InCall(state) /\ ~InConsent(state) /\ answers[state] = <<>>
  BY <1>2, <1>3 DEF OnePlace
<1>6. /\ transaction.client = begun[state].client
      /\ transaction.provider = begun[state].provider
      /\ transaction.provider = callback.provider
      /\ clock < begun[state].at + ReauthTtl
      /\ clock \in Nat /\ Timeout \in Nat
  <2>1. transaction.expires_at = begun[state].at + ReauthTtl
    BY <1>3 DEF PendingOK
  <2>2. clock \in Nat /\ begun[state].at \in Nat /\ ReauthTtl \in Nat /\ Timeout \in Nat
    BY <1>2, <1>3, BegunParts, Constants DEF TypeOK
  <2> QED
    BY <2>1, <2>2, <1>3 DEF PendingOK
<1>7. /\ callback.code \in DOMAIN upstream /\ callback.code \in UpstreamCodes
      /\ upstream[callback.code].provider = callback.provider
  BY <1>2 DEF Agreement, CallbackOK, TypeOK, IsTable
<1> HIDE DEF transaction
<1>8. call \in Call
  BY <1>3, <1>6, <1>7 DEF Call
<1>9. /\ call.phase = "exchanging" /\ call.state = state
      /\ call.transaction = transaction /\ call.code = callback.code
      /\ call.since = clock
  OBVIOUS
<1>10. Goto(slot, call)
  BY DEF transaction
<1> HIDE DEF call, state
<1>11. /\ calls' \in [Slots -> Call] /\ calls'[slot] = call
       /\ \A other \in Slots : other # slot => calls'[other] = calls[other]
  BY <1>2, <1>8, <1>10, OneCallMoves
<1>12. /\ ~Holds(slot) /\ Holds(slot)'
       /\ \A other \in Slots : other # slot => (Holds(other)' <=> Holds(other))
  BY <1>9, <1>11 DEF Holds, Idle
<1>13. /\ \A s : InCall(s)' <=> InCall(s) \/ s = state
       /\ \A s : InConsent(s)' <=> InConsent(s)
  BY <1>9, <1>11, <1>12 DEF InCall, InConsent, Holds
<1>14. TypeOK'
  BY <1>1, <1>2, <1>4, <1>11 DEF TypeOK, IsTable
<1>15. CallOK(slot)'
  <2>1. clock <= clock + Timeout
    BY <1>6
  <2> QED
    BY <2>1, <1>1, <1>3, <1>6, <1>7, <1>9, <1>11 DEF CallOK, In, Holds
<1>16. Agreement'
  <2>1. \A s \in DOMAIN begun : BegunOK(s)'
    BY <1>1, <1>2 DEF Agreement, BegunOK
  <2>2. \A c \in callbacks : CallbackOK(c)'
    BY <1>2, CallbackStays DEF Agreement
  <2>3. \A other \in Slots : CallOK(other)'
    BY <1>2, <1>11, <1>15, CallStays DEF Agreement
  <2>4. \A id \in DOMAIN consents : ConsentOK(id)'
    BY <1>2, ConsentStays DEF Agreement
  <2>5. \A c \in DOMAIN granted : GrantOK(c)'
    BY <1>1, <1>2, GrantStays DEF Agreement
  <2> QED
    BY <2>1, <2>2, <2>3, <2>4, <2>5, <1>1, <1>2, <1>4 DEF Agreement
<1>17. OnePlace'
  <2>1. \A s \in DOMAIN pending' : ~InCall(s)' /\ ~InConsent(s)' /\ answers[s] = <<>>
    BY <1>2, <1>4, <1>13 DEF OnePlace
  <2>2. ASSUME NEW one \in Slots, Holds(one)'
        PROVE  /\ \A id \in DOMAIN consents : consents[id].state # calls'[one].state
               /\ answers[calls'[one].state] = <<>>
               /\ \A other \in Slots :
                    Holds(other)' /\ calls'[other].state = calls'[one].state
                      => other = one
    <3>1. CASE one = slot
      BY <3>1, <1>5, <1>9, <1>11, <1>12 DEF InCall, InConsent, Holds
    <3>2. CASE one # slot
      <4>1. Holds(one) /\ calls'[one] = calls[one] /\ calls[one].state # state
        BY <3>2, <2>2, <1>5, <1>11, <1>12 DEF InCall, Holds
      <4> QED
        BY <4>1, <1>2, <1>9, <1>11, <1>12 DEF OnePlace, InConsent
    <3> QED
      BY <3>1, <3>2
  <2>3. \A id \in DOMAIN consents :
          /\ answers[consents[id].state] = <<>>
          /\ \A other \in DOMAIN consents :
               consents[other].state = consents[id].state => other = id
    BY <1>2 DEF OnePlace
  <2>4. ClientHearsOnce'
    BY <1>1, <1>2 DEF OnePlace, ClientHearsOnce
  <2>5. \A one \in Slots :
          Holds(one)' =>
            /\ ~InConsent(calls[one].state)' /\ answers[calls'[one].state] = <<>>
            /\ \A other \in Slots :
                 Holds(other)' /\ calls'[other].state = calls'[one].state => other = one
    BY <2>2 DEF InConsent
  <2> QED
    BY <2>1, <2>3, <2>4, <2>5, <1>1 DEF OnePlace
<1>18. Accounted'
  BY <1>1, <1>2, <1>4, <1>13 DEF Accounted, Somewhere
<1> QED
  BY <1>1, <1>2, <1>14, <1>16, <1>17, <1>18 DEF IInv, ConsentsAreDrawn

(* GET /reauth/callback/:provider_id: one of the three. *)
LEMMA CallbackStepKeeps ==
  ASSUME IInv, NEW slot \in Slots, NEW callback \in callbacks, Callback(slot, callback)
  PROVE  IInv'
<1>1. /\ UNCHANGED <<clock, config, consents, outside, restarts, begun, granted,
                     drawn, dropped>>
      /\ calls[slot] = Idle
  BY DEF Callback
<1>2. ASSUME pending' = Live(pending, clock), UNCHANGED <<calls, answers>>
      PROVE  IInv'
  BY <1>1, <1>2, UselessCallbackKeeps DEF history
<1>3. ASSUME callback.state \in DOMAIN Live(pending, clock),
             pending' = Drop(Live(pending, clock), callback.state),
             Answer(callback.state, "error"), UNCHANGED calls
      PROVE  IInv'
  BY <1>1, <1>3, ErrorCallbackKeeps
<1>4. ASSUME callback.state \in DOMAIN Live(pending, clock),
             Live(pending, clock)[callback.state].provider = callback.provider,
             pending' = Drop(Live(pending, clock), callback.state),
             callback.code # None,
             Goto(slot, [phase |-> "exchanging", state |-> callback.state,
                         transaction |-> Live(pending, clock)[callback.state],
                         code |-> callback.code, since |-> clock]),
             UNCHANGED answers
      PROVE  IInv'
  BY <1>1, <1>4, CodeCallbackKeeps DEF history
<1>5. \/ pending' = Live(pending, clock) /\ UNCHANGED <<calls, answers>>
      \/ /\ callback.state \in DOMAIN Live(pending, clock)
         /\ Live(pending, clock)[callback.state].provider = callback.provider
         /\ pending' = Drop(Live(pending, clock), callback.state)
         /\ \/ Answer(callback.state, "error") /\ UNCHANGED calls
            \/ /\ callback.code # None
               /\ Goto(slot, [phase |-> "exchanging", state |-> callback.state,
                              transaction |-> Live(pending, clock)[callback.state],
                              code |-> callback.code, since |-> clock])
               /\ UNCHANGED answers
  BY DEF Callback
<1> QED
  BY <1>2, <1>3, <1>4, <1>5

(* A code that is used is otherwise the code it was. *)
LEMMA CodeIsUsed ==
  ASSUME TypeOK, NEW u, upstream' = [upstream EXCEPT ![u].used = TRUE],
         UNCHANGED begun
  PROVE  Keeps /\ IsTable(upstream, UpstreamCodes, UpstreamCode)'
<1>1. DOMAIN upstream' = DOMAIN upstream /\ DOMAIN upstream \subseteq UpstreamCodes
  BY DEF TypeOK, IsTable
<1>2. ASSUME NEW k \in DOMAIN upstream
      PROVE  /\ upstream'[k] \in UpstreamCode
             /\ upstream'[k].provider = upstream[k].provider
             /\ upstream'[k].subject = upstream[k].subject
             /\ upstream'[k].nonce = upstream[k].nonce
  <2>1. upstream[k] \in UpstreamCode
    BY DEF TypeOK, IsTable
  <2>2. CASE k = u
    <3>1. upstream'[k] = [upstream[k] EXCEPT !.used = TRUE]
      BY <2>2
    <3> QED
      BY <2>1, <3>1 DEF UpstreamCode
  <2>3. CASE k # u
    BY <2>1, <2>3
  <2> QED
    BY <2>2, <2>3
<1>3. Keeps
  BY <1>1, <1>2 DEF Keeps
<1>4. IsTable(upstream, UpstreamCodes, UpstreamCode)'
  BY <1>1, <1>2 DEF IsTable
<1> QED
  BY <1>3, <1>4

(* The provider marks its code as used; no one here hears of it. *)
LEMMA ExchangeLostKeeps ==
  ASSUME IInv, NEW slot \in Slots, ExchangeLost(slot)
  PROVE  IInv'
<1>1. /\ In(slot, "exchanging")
      /\ upstream' = [upstream EXCEPT ![calls[slot].code].used = TRUE]
      /\ UNCHANGED <<clock, config, pending, consents, calls, visits, callbacks,
                     restarts, begun, answers, granted, drawn, dropped>>
  BY DEF ExchangeLost, tables, history
<1>2. TypeOK /\ Agreement /\ OnePlace /\ Accounted /\ ConsentsAreDrawn
  BY DEF IInv
<1>3. Keeps
  BY <1>1, <1>2, CodeIsUsed
<1>4. IsTable(upstream, UpstreamCodes, UpstreamCode)'
  BY <1>1, <1>2, CodeIsUsed
<1>5. TypeOK'
  BY <1>1, <1>2, <1>4 DEF TypeOK, IsTable
<1> QED
  BY <1>1, <1>2, <1>3, <1>5, AgreementStands, OnePlaceStands, AccountedStands
  DEF IInv, ConsentsAreDrawn

(* The same with an answer: the handler goes on with the subject its code   *)
(* was issued for.                                                          *)
LEMMA ExchangeCodeKeeps ==
  ASSUME IInv, NEW slot \in Slots, ExchangeCode(slot)
  PROVE  IInv'
<1> DEFINE old  == calls[slot]
           code == upstream[old.code]
           call == [phase |-> "validating", state |-> old.state,
                    transaction |-> old.transaction, subject |-> code.subject,
                    nonce |-> code.nonce, since |-> clock]
<1>1. /\ In(slot, "exchanging")
      /\ upstream' = [upstream EXCEPT ![old.code].used = TRUE]
      /\ Goto(slot, call)
      /\ UNCHANGED <<clock, config, pending, consents, visits, callbacks,
                     restarts, begun, answers, granted, drawn, dropped>>
  BY DEF ExchangeCode, tables, history
<1>2. TypeOK /\ Agreement /\ OnePlace /\ Accounted /\ ConsentsAreDrawn
  BY DEF IInv
<1>3. CallOK(slot) /\ Holds(slot)
  BY <1>1, <1>2 DEF Agreement, Holds, In
<1>4. /\ old.state \in States /\ old.transaction \in Transaction
      /\ old.code \in UpstreamCodes /\ old.code \in DOMAIN upstream
      /\ old # Idle /\ old.since \in Nat
      /\ clock \in Nat
  BY <1>1, <1>2, <1>3, CallParts DEF CallOK, Idle, In, TypeOK
<1>5. code \in UpstreamCode
  BY <1>2, <1>4 DEF TypeOK, IsTable
<1>6. Keeps
  BY <1>1, <1>2, CodeIsUsed
<1>7. IsTable(upstream, UpstreamCodes, UpstreamCode)'
  BY <1>1, <1>2, CodeIsUsed
<1>8. LetIn(old.transaction.provider, code.subject, code.nonce)
  BY <1>1, <1>3, <1>4 DEF CallOK, LetIn
<1>9. clock < begun[old.state].at + ReauthTtl + Timeout
  <2>1. clock <= old.since + Timeout /\ old.since < begun[old.state].at + ReauthTtl
    BY <1>1, <1>3, <1>4 DEF CallOK
  <2>2. begun[old.state].at \in Nat
    BY <1>2, <1>3, BegunParts DEF CallOK
  <2> QED
    BY <2>1, <2>2, <1>4, Constants
<1>10. call \in Call
  BY <1>4, <1>5 DEF Call, UpstreamCode
<1>11. /\ call.phase = "validating" /\ call.state = old.state
       /\ call.transaction = old.transaction /\ call.since = clock
       /\ call.subject = code.subject /\ call.nonce = code.nonce
  OBVIOUS
<1> HIDE DEF call, code
<1>12. /\ calls' \in [Slots -> Call] /\ calls'[slot] = call
       /\ \A other \in Slots : other # slot => calls'[other] = calls[other]
  BY <1>1, <1>2, <1>10, OneCallMoves
<1>13. \A other \in Slots :
         /\ Holds(other)' <=> Holds(other)
         /\ Holds(other) => calls'[other].state = calls[other].state
  BY <1>3, <1>11, <1>12 DEF Holds
<1>14. \A s : (InCall(s)' <=> InCall(s)) /\ (InConsent(s)' <=> InConsent(s))
  BY <1>1, <1>13 DEF InCall, InConsent, Holds
<1>15. TypeOK'
  BY <1>1, <1>2, <1>7, <1>12 DEF TypeOK, IsTable
<1>16. CallOK(slot)'
  <2>1. \E u \in DOMAIN upstream' :
          /\ upstream'[u].provider = old.transaction.provider
          /\ upstream'[u].subject = code.subject
          /\ upstream'[u].nonce = code.nonce
    BY <1>6, <1>8 DEF Keeps, LetIn
  <2>2. clock <= clock + Timeout
    BY <1>4, Constants
  <2>3. LetIn(calls[slot].transaction.provider, calls[slot].subject, calls[slot].nonce)'
    BY <2>1, <1>11, <1>12 DEF LetIn
  <2> QED
    BY <2>2, <2>3, <1>1, <1>3, <1>9, <1>11, <1>12 DEF CallOK, In, Holds
<1>17. Agreement'
  <2>1. \A s \in DOMAIN begun : BegunOK(s)'
    BY <1>1, <1>2 DEF Agreement, BegunOK
  <2>2. \A s \in DOMAIN pending : PendingOK(s)'
    BY <1>1, <1>2, <1>6, PendingStays DEF Agreement
  <2>3. \A callback \in callbacks : CallbackOK(callback)'
    BY <1>2, <1>6, CallbackStays DEF Agreement
  <2>4. \A other \in Slots : CallOK(other)'
    BY <1>1, <1>2, <1>6, <1>12, <1>16, CallStays DEF Agreement
  <2>5. \A id \in DOMAIN consents : ConsentOK(id)'
    BY <1>1, <1>2, <1>6, ConsentStays DEF Agreement
  <2>6. \A c \in DOMAIN granted : GrantOK(c)'
    BY <1>1, <1>2, <1>6, GrantStays DEF Agreement
  <2> QED
    BY <2>1, <2>2, <2>3, <2>4, <2>5, <2>6, <1>1, <1>2 DEF Agreement
<1>18. OnePlace'
  <2>1. \A one \in Slots :
          Holds(one)' =>
            /\ ~InConsent(calls[one].state)' /\ answers[calls'[one].state] = <<>>
            /\ \A other \in Slots :
                 Holds(other)' /\ calls'[other].state = calls'[one].state => other = one
    BY <1>1, <1>2, <1>13 DEF OnePlace, InConsent
  <2> QED
    BY <2>1, <1>1, <1>2, <1>14 DEF OnePlace, ClientHearsOnce
<1>19. Accounted'
  BY <1>1, <1>2, <1>14 DEF Accounted, Somewhere
<1> QED
  BY <1>1, <1>2, <1>15, <1>17, <1>18, <1>19 DEF IInv, ConsentsAreDrawn

(* A handler that lets its transaction go leaves nothing behind. *)
LEMMA HandlerLetsGo ==
  ASSUME IInv, NEW slot \in Slots, Holds(slot), Goto(slot, Idle)
  PROVE  /\ calls' \in [Slots -> Call]
         /\ ~Holds(slot)' /\ CallOK(slot)'
         /\ \A other \in Slots : other # slot => calls'[other] = calls[other]
         /\ \A other \in Slots : Holds(other)' <=> Holds(other) /\ other # slot
         /\ \A s : InCall(s)' <=> InCall(s) /\ s # calls[slot].state
<1>1. TypeOK /\ OnePlace /\ Idle \in Call
  BY DEF IInv, Call
<1>2. /\ calls' \in [Slots -> Call] /\ calls'[slot] = Idle
      /\ \A other \in Slots : other # slot => calls'[other] = calls[other]
  BY <1>1, OneCallMoves
<1>3. ~Holds(slot)' /\ CallOK(slot)'
  BY <1>2 DEF Holds, CallOK, In, Idle
<1>4. \A other \in Slots : Holds(other)' <=> Holds(other) /\ other # slot
  BY <1>2, <1>3 DEF Holds
<1>5. \A other \in Slots :
        Holds(other) /\ other # slot => calls[other].state # calls[slot].state
  BY <1>1 DEF OnePlace
<1>6. \A s : InCall(s)' <=> InCall(s) /\ s # calls[slot].state
  BY <1>2, <1>4, <1>5 DEF InCall, Holds
<1> QED
  BY <1>2, <1>3, <1>4, <1>6

(* What holds of the handlers when one of them has let go. *)
LEMMA OthersStay ==
  ASSUME IInv, NEW slot \in Slots, CallOK(slot)',
         \A other \in Slots : other # slot => calls'[other] = calls[other],
         Keeps, UNCHANGED <<clock, config>>
  PROVE  \A other \in Slots : CallOK(other)'
BY CallStays DEF IInv, Agreement

(* The same of the transactions, callbacks and grants that are not touched. *)
LEMMA RestStays ==
  ASSUME IInv, UNCHANGED <<clock, config, pending, begun, upstream, visits, callbacks>>
  PROVE  /\ \A s \in DOMAIN begun' : BegunOK(s)'
         /\ \A s \in DOMAIN pending' : PendingOK(s)'
         /\ \A callback \in callbacks' : CallbackOK(callback)'
         /\ visits' \subseteq DOMAIN begun'
<1>1. Agreement /\ Keeps
  BY NothingGrows DEF IInv
<1>2. \A s \in DOMAIN begun : BegunOK(s)'
  BY <1>1 DEF Agreement, BegunOK
<1>3. \A s \in DOMAIN pending : PendingOK(s)'
  BY <1>1, PendingStays DEF Agreement
<1>4. \A callback \in callbacks : CallbackOK(callback)'
  BY <1>1, CallbackStays DEF Agreement
<1> QED
  BY <1>1, <1>2, <1>3, <1>4 DEF Agreement

(* The bounds of a transaction that a handler has validated.                *)
LEMMA ValidatedInTime ==
  ASSUME IInv, NEW slot \in Slots, In(slot, "validating")
  PROVE  /\ calls[slot].state \in States /\ calls[slot].state \in DOMAIN begun
         /\ begun[calls[slot].state].at \in Nat /\ clock \in Nat
         /\ begun[calls[slot].state].at <= clock
         /\ clock < begun[calls[slot].state].at + ReauthTtl + 2 * Timeout
<1>1. /\ TypeOK /\ CallOK(slot) /\ Holds(slot)
      /\ \A s \in DOMAIN begun : BegunOK(s)
  BY DEF IInv, Agreement, Holds, In
<1>2. /\ calls[slot].state \in States /\ calls[slot].state \in DOMAIN begun
      /\ calls[slot] # Idle /\ calls[slot].since \in Nat
  BY <1>1, CallParts DEF CallOK, In, Idle
<1>3. begun[calls[slot].state].at \in Nat /\ clock \in Nat
  BY <1>1, <1>2, BegunParts DEF TypeOK
<1>4. /\ clock <= calls[slot].since + Timeout
      /\ calls[slot].since < begun[calls[slot].state].at + ReauthTtl + Timeout
      /\ begun[calls[slot].state].at <= clock
  BY <1>1, <1>2 DEF CallOK, BegunOK
<1> QED
  BY <1>2, <1>3, <1>4, Constants

(* A code is issued for a transaction that has no answer yet. *)
LEMMA IssuedCode ==
  ASSUME IInv, NEW state \in DOMAIN begun, NEW client, NEW user \in User,
         answers[state] = <<>>,
         client = begun[state].client, user.provider = begun[state].provider,
         LetIn(user.provider, user.subject, state),
         clock < begun[state].at + ReauthTtl + 2 * Timeout + ConsentTtl,
         IssueCode(state, client, user),
         UNCHANGED <<clock, begun, upstream>>
  PROVE  /\ IsTable(granted, Codes, [state : States, user : User, client : Clients,
                                     at : Nat])'
         /\ \A c \in DOMAIN granted' : GrantOK(c)'
         /\ Answer(state, "code")
<1> DEFINE grant == [state |-> state, user |-> user, client |-> client, at |-> clock]
<1>1. PICK code \in Codes \ DOMAIN granted : granted' = Put(granted, code, grant)
  BY DEF IssueCode
<1>2. Answer(state, "code")
  BY DEF IssueCode
<1>3. TypeOK /\ Agreement /\ Keeps
  BY NothingGrows DEF IInv
<1>4. state \in States /\ client \in Clients /\ clock \in Nat
  BY <1>3, BegunParts DEF TypeOK
<1>5. grant \in [state : States, user : User, client : Clients, at : Nat]
  BY <1>4
<1>6. /\ grant.state = state /\ grant.client = client /\ grant.at = clock
      /\ grant.user = user
  OBVIOUS
<1> HIDE DEF grant
<1>7. IsTable(granted, Codes, [state : States, user : User, client : Clients, at : Nat])'
  BY <1>1, <1>3, <1>5, TablesStayTables DEF TypeOK
<1>8. ASSUME NEW c \in DOMAIN granted' PROVE GrantOK(c)'
  <2>1. CASE c = code
    <3>1. granted'[c] = grant
      BY <2>1, <1>1, PutEntries
    <3>2. \E u \in DOMAIN upstream' :
            /\ upstream'[u].provider = user.provider
            /\ upstream'[u].subject = user.subject
            /\ upstream'[u].nonce = state
      BY DEF LetIn
    <3> QED
      BY <3>1, <3>2, <1>6 DEF GrantOK, LetIn
  <2>2. CASE c # code
    <3>1. c \in DOMAIN granted /\ granted'[c] = granted[c]
      BY <2>2, <1>1, <1>8, PutEntries
    <3> QED
      BY <3>1, <1>3, GrantStays DEF Agreement
  <2> QED
    BY <2>1, <2>2
<1> QED
  BY <1>2, <1>7, <1>8

(* A handler lets its transaction go, and the client is answered. *)
LEMMA AnswerFromCallKeeps ==
  ASSUME IInv, NEW slot \in Slots, Holds(slot), Goto(slot, Idle),
         NEW answer \in {"code", "error"}, Answer(calls[slot].state, answer),
         IsTable(granted, Codes, [state : States, user : User, client : Clients,
                                  at : Nat])',
         \A c \in DOMAIN granted' : GrantOK(c)',
         UNCHANGED <<clock, config, tables, outside, restarts, begun, drawn, dropped>>
  PROVE  IInv'
<1> DEFINE state == calls[slot].state
<1>1. UNCHANGED <<pending, consents, visits, upstream, callbacks>>
  BY DEF tables, outside
<1>2. /\ TypeOK /\ Agreement /\ OnePlace /\ Accounted /\ ConsentsAreDrawn /\ Keeps
      /\ CallOK(slot)
  BY <1>1, NothingGrows DEF IInv, Agreement
<1>3. state \in States /\ state \in DOMAIN begun
  BY <1>2, CallParts DEF CallOK
<1>4. /\ calls' \in [Slots -> Call]
      /\ ~Holds(slot)' /\ CallOK(slot)'
      /\ \A other \in Slots : other # slot => calls'[other] = calls[other]
      /\ \A other \in Slots : Holds(other)' <=> Holds(other) /\ other # slot
      /\ \A s : InCall(s)' <=> InCall(s) /\ s # state
  BY HandlerLetsGo
<1>5. ~InConsent(state) /\ answers[state] = <<>> /\ InCall(state)
  BY <1>2 DEF OnePlace, InCall, Holds
<1>6. /\ answers' \in [States -> Seq({"code", "error"})]
      /\ answers'[state] # <<>> /\ Len(answers'[state]) = 1
      /\ \A s \in States : s # state => answers'[s] = answers[s]
  BY <1>2, <1>3, <1>5, FirstAnswer
<1>7. \A other \in Slots :
        Holds(other)' => calls'[other].state # state /\ calls'[other].state \in States
  BY <1>2, <1>4, CallParts DEF OnePlace
<1>8. \A s : InConsent(s)' <=> InConsent(s)
  BY <1>1 DEF InConsent
<1> HIDE DEF state
<1>9. TypeOK'
  BY <1>1, <1>2, <1>4, <1>6 DEF TypeOK, IsTable
<1>10. Agreement'
  <2>1. \A other \in Slots : CallOK(other)'
    BY <1>2, <1>4, OthersStay
  <2>2. \A id \in DOMAIN consents : ConsentOK(id)'
    BY <1>1, <1>2, ConsentStays DEF Agreement
  <2>3. \A s \in States : answers'[s] # <<>> => s \in DOMAIN begun
    BY <1>2, <1>3, <1>6 DEF Agreement
  <2> QED
    BY <2>1, <2>2, <2>3, <1>1, RestStays DEF Agreement
<1>11. OnePlace'
  <2>1. \A s \in DOMAIN pending : ~InCall(s)' /\ ~InConsent(s)' /\ answers'[s] = <<>>
    BY <1>2, <1>4, <1>5, <1>6, <1>8, PendingParts DEF OnePlace
  <2>2. \A one \in Slots :
          Holds(one)' =>
            /\ ~InConsent(calls[one].state)' /\ answers'[calls'[one].state] = <<>>
            /\ \A other \in Slots :
                 Holds(other)' /\ calls'[other].state = calls'[one].state => other = one
    BY <1>1, <1>2, <1>4, <1>6, <1>7 DEF OnePlace, InConsent
  <2>3. \A id \in DOMAIN consents : answers'[consents[id].state] = <<>>
    BY <1>2, <1>5, <1>6, ConsentParts DEF OnePlace, InConsent
  <2>4. ClientHearsOnce'
    <3>1. ASSUME NEW s \in States PROVE Len(answers'[s]) <= 1
      <4>1. CASE s = state
        BY <4>1, <1>6
      <4>2. CASE s # state
        BY <4>2, <1>2, <1>6 DEF OnePlace, ClientHearsOnce
      <4> QED
        BY <4>1, <4>2
    <3> QED
      BY <3>1 DEF ClientHearsOnce
  <2> QED
    BY <2>1, <2>2, <2>3, <2>4, <1>1, <1>2 DEF OnePlace
<1>12. Accounted'
  <2>1. ASSUME NEW s \in DOMAIN begun
        PROVE  \/ s \in DOMAIN pending \/ InCall(s)' \/ InConsent(s) \/ answers'[s] # <<>>
               \/ s \in dropped
               \/ clock >= begun[s].at + ReauthTtl
               \/ clock >= begun[s].at + ConsentTtl
    <3>1. CASE s = state
      BY <3>1, <1>6
    <3>2. CASE s # state
      BY <3>2, <1>2, <1>4, <1>6, BegunParts DEF Accounted, Somewhere
    <3> QED
      BY <3>1, <3>2
  <2> QED
    BY <2>1, <1>1, <1>8 DEF Accounted, Somewhere
<1> QED
  BY <1>1, <1>2, <1>9, <1>10, <1>11, <1>12 DEF IInv, ConsentsAreDrawn

(* A call fails. *)
LEMMA FailKeeps ==
  ASSUME IInv, NEW slot \in Slots, Fail(slot)
  PROVE  IInv'
<1>1. /\ calls[slot] # Idle /\ Goto(slot, Idle)
      /\ IF In(slot, "discovering") THEN UNCHANGED answers
         ELSE Answer(calls[slot].state, "error")
      /\ UNCHANGED <<clock, config, tables, outside, restarts, begun, granted,
                     drawn, dropped>>
  BY DEF Fail
<1>2. TypeOK /\ Agreement /\ Idle \in Call
  BY DEF IInv, Call
<1>3. In(slot, "discovering") \/ Holds(slot)
  BY <1>1, <1>2, CallParts DEF Holds, In
<1>4. CASE In(slot, "discovering")
  <2>1. ~Holds(slot)
    BY <1>4 DEF Holds, In
  <2> QED
    BY <2>1, <1>1, <1>2, <1>4, WithoutTransactionKeeps DEF history
<1>5. CASE Holds(slot)
  <2>1. ~In(slot, "discovering")
    BY <1>5 DEF Holds, In
  <2>2. /\ IsTable(granted, Codes, [state : States, user : User, client : Clients,
                                    at : Nat])'
        /\ \A c \in DOMAIN granted' : GrantOK(c)'
    BY <1>1, <1>2, NothingGrows, GrantStays DEF outside, Agreement, TypeOK, IsTable
  <2> QED
    BY <2>1, <2>2, <1>1, <1>5, AnswerFromCallKeeps
<1> QED
  BY <1>3, <1>4, <1>5

(* The browser goes away, and the transaction with it. *)
LEMMA DisconnectKeeps ==
  ASSUME IInv, NEW slot \in Slots, Disconnect(slot)
  PROVE  IInv'
<1>1. /\ calls[slot] # Idle /\ Goto(slot, Idle)
      /\ dropped' = IF In(slot, "discovering") THEN dropped
                    ELSE dropped \cup {calls[slot].state}
      /\ UNCHANGED <<clock, config, tables, outside, restarts, begun, answers,
                     granted, drawn>>
  BY DEF Disconnect
<1>2. /\ TypeOK /\ Agreement /\ OnePlace /\ Accounted /\ ConsentsAreDrawn
      /\ Idle \in Call
  BY DEF IInv, Call
<1>3. In(slot, "discovering") \/ Holds(slot)
  BY <1>1, <1>2, CallParts DEF Holds, In
<1>4. CASE In(slot, "discovering")
  <2>1. ~Holds(slot)
    BY <1>4 DEF Holds, In
  <2> QED
    BY <2>1, <1>1, <1>2, <1>4, WithoutTransactionKeeps DEF history
<1>5. CASE Holds(slot)
  <2>1. /\ dropped' = dropped \cup {calls[slot].state}
        /\ UNCHANGED <<pending, consents, visits, upstream, callbacks>>
    BY <1>1, <1>5 DEF Holds, In, tables, outside
  <2>2. /\ calls' \in [Slots -> Call]
        /\ ~Holds(slot)' /\ CallOK(slot)'
        /\ \A other \in Slots : other # slot => calls'[other] = calls[other]
        /\ \A other \in Slots : Holds(other)' <=> Holds(other) /\ other # slot
        /\ \A s : InCall(s)' <=> InCall(s) /\ s # calls[slot].state
    BY <1>1, <1>5, HandlerLetsGo
  <2>3. Keeps /\ calls[slot].state \in States
    BY <2>1, <1>1, <1>2, <1>5, NothingGrows, CallParts
  <2>4. TypeOK'
    BY <2>1, <2>2, <2>3, <1>1, <1>2 DEF TypeOK, IsTable
  <2>5. Agreement'
    <3>1. \A other \in Slots : CallOK(other)'
      BY <2>2, <2>3, <1>1, OthersStay
    <3>2. \A id \in DOMAIN consents : ConsentOK(id)'
      BY <2>1, <2>3, <1>2, ConsentStays DEF Agreement
    <3>3. \A c \in DOMAIN granted : GrantOK(c)'
      BY <2>3, <1>1, <1>2, GrantStays DEF Agreement
    <3> QED
      BY <3>1, <3>2, <3>3, <2>1, <1>1, <1>2, RestStays DEF Agreement
  <2>6. \A s : InConsent(s)' <=> InConsent(s)
    BY <2>1 DEF InConsent
  <2>7. OnePlace'
    <3>1. \A one \in Slots :
            Holds(one)' =>
              /\ ~InConsent(calls[one].state)' /\ answers[calls'[one].state] = <<>>
              /\ \A other \in Slots :
                   Holds(other)' /\ calls'[other].state = calls'[one].state => other = one
      BY <2>1, <2>2, <1>2 DEF OnePlace, InConsent
    <3> QED
      BY <3>1, <2>1, <2>2, <2>6, <1>1, <1>2 DEF OnePlace, ClientHearsOnce
  <2>8. Accounted'
    BY <2>1, <2>2, <2>6, <1>1, <1>2 DEF Accounted, Somewhere
  <2> QED
    BY <2>1, <2>4, <2>5, <2>7, <2>8, <1>1, <1>2 DEF IInv, ConsentsAreDrawn
<1> QED
  BY <1>3, <1>4, <1>5

(* What a purge leaves of the consents, and what it takes. *)
LEMMA LiveConsents ==
  ASSUME IInv
  PROVE  /\ IsTable(Live(consents, clock), ConsentIds, PendingConsent)
         /\ \A id \in DOMAIN Live(consents, clock) :
              id \in DOMAIN consents /\ Live(consents, clock)[id] = consents[id]
         /\ \A id \in DOMAIN consents \ DOMAIN Live(consents, clock) :
              clock >= begun[consents[id].state].at + ConsentTtl
<1>1. TypeOK
  BY DEF IInv
<1>2. IsTable(Live(consents, clock), ConsentIds, PendingConsent)
  BY <1>1, TablesStayTables DEF TypeOK
<1> QED
  BY <1>2, LiveEntries, PurgedConsent

(* A valid id_token without local consent: the code. *)
LEMMA ValidatedWithoutConsentKeeps ==
  ASSUME IInv, NEW slot \in Slots, In(slot, "validating"), NonceMatches(calls[slot]),
         IssueCode(calls[slot].state, calls[slot].transaction.client,
                   [provider |-> calls[slot].transaction.provider,
                    subject |-> calls[slot].subject]),
         Goto(slot, Idle),
         UNCHANGED <<clock, config, tables, outside, restarts, begun, drawn, dropped>>
  PROVE  IInv'
<1> DEFINE call == calls[slot]
           user == [provider |-> call.transaction.provider, subject |-> call.subject]
<1>1. TypeOK /\ Agreement /\ OnePlace /\ CallOK(slot) /\ Holds(slot)
  BY DEF IInv, Agreement, Holds, In
<1>2. /\ call.state \in DOMAIN begun
      /\ clock < begun[call.state].at + ReauthTtl + 2 * Timeout
      /\ begun[call.state].at \in Nat /\ clock \in Nat
  BY ValidatedInTime
<1>3. clock < begun[call.state].at + ReauthTtl + 2 * Timeout + ConsentTtl
  BY <1>2, Constants
<1>4. /\ call.transaction.client = begun[call.state].client
      /\ call.transaction.provider = begun[call.state].provider
      /\ LetIn(call.transaction.provider, call.subject, call.state)
      /\ call.transaction.provider \in Providers /\ call.subject \in Subjects
  BY <1>1, CallParts DEF CallOK, NonceMatches, Transaction
<1>5. /\ user \in User /\ user.provider = call.transaction.provider
      /\ user.subject = call.subject
  BY <1>4 DEF User
<1>6. answers[call.state] = <<>>
  BY <1>1 DEF OnePlace
<1>7. IssueCode(call.state, call.transaction.client, user)
  OBVIOUS
<1>8. UNCHANGED upstream
  BY DEF outside
<1> HIDE DEF user, call
<1>9. /\ IsTable(granted, Codes, [state : States, user : User, client : Clients,
                                  at : Nat])'
      /\ \A c \in DOMAIN granted' : GrantOK(c)'
      /\ Answer(call.state, "code")
  BY <1>2, <1>3, <1>4, <1>5, <1>6, <1>7, <1>8, IssuedCode
<1> QED
  BY <1>1, <1>9, AnswerFromCallKeeps DEF call

(* A valid id_token with local consent: the transaction waits for the user. *)
LEMMA ValidatedWithConsentKeeps ==
  ASSUME IInv, NEW slot \in Slots, In(slot, "validating"), NonceMatches(calls[slot]),
         NEW id \in ConsentIds \ drawn,
         consents' = NewConsent(id, calls[slot].state, calls[slot].transaction.client,
                                [provider |-> calls[slot].transaction.provider,
                                 subject |-> calls[slot].subject]),
         drawn' = drawn \cup {id},
         Goto(slot, Idle),
         UNCHANGED <<clock, config, pending, outside, restarts, begun, answers,
                     granted, dropped>>
  PROVE  IInv'
<1> DEFINE call == calls[slot]
           state == call.state
           live == Live(consents, clock)
           user == [provider |-> call.transaction.provider, subject |-> call.subject]
           entry == [user |-> user, state |-> state, client |-> call.transaction.client,
                     expires_at |-> clock + ConsentTtl]
<1>1. /\ TypeOK /\ Agreement /\ OnePlace /\ Accounted /\ ConsentsAreDrawn
      /\ CallOK(slot) /\ Holds(slot)
  BY DEF IInv, Agreement, Holds, In
<1>2. UNCHANGED <<visits, upstream, callbacks>> /\ Keeps
  BY NothingGrows DEF outside
<1>3. /\ state \in DOMAIN begun /\ state \in States
      /\ clock < begun[state].at + ReauthTtl + 2 * Timeout
      /\ begun[state].at \in Nat /\ clock \in Nat
      /\ begun[state].at <= clock
  BY ValidatedInTime
<1>4. /\ call.transaction.client = begun[state].client
      /\ call.transaction.provider = begun[state].provider
      /\ LetIn(call.transaction.provider, call.subject, state)
      /\ call.transaction.provider \in Providers /\ call.subject \in Subjects
      /\ call.transaction.client \in Clients
  BY <1>1, CallParts DEF CallOK, NonceMatches, Transaction
<1>5. /\ user \in User /\ user.provider = begun[state].provider
      /\ LetIn(user.provider, user.subject, state)
  BY <1>4 DEF User
<1>6. ~InConsent(state) /\ answers[state] = <<>> /\ InCall(state) /\ state \notin DOMAIN pending
  BY <1>1 DEF OnePlace, InCall, Holds
<1>7. consents' = Put(live, id, entry)
  BY DEF NewConsent
<1> HIDE DEF user
<1>8. entry \in PendingConsent
  BY <1>3, <1>4, <1>5, Constants DEF PendingConsent
<1>9. /\ entry.state = state /\ entry.client = begun[state].client
      /\ entry.user = user
      /\ begun[state].at + ConsentTtl <= entry.expires_at
      /\ entry.expires_at < begun[state].at + ReauthTtl + 2 * Timeout + ConsentTtl
  BY <1>3, <1>4, Constants
<1>10. /\ calls' \in [Slots -> Call]
       /\ ~Holds(slot)' /\ CallOK(slot)'
       /\ \A other \in Slots : other # slot => calls'[other] = calls[other]
       /\ \A other \in Slots : Holds(other)' <=> Holds(other) /\ other # slot
       /\ \A s : InCall(s)' <=> InCall(s) /\ s # state
  BY <1>1, HandlerLetsGo
<1>11. \A other \in Slots : Holds(other)' => calls'[other].state # state
  BY <1>1, <1>10 DEF OnePlace
<1> HIDE DEF entry, state, call
<1>12. /\ IsTable(live, ConsentIds, PendingConsent)
       /\ \A k \in DOMAIN live : k \in DOMAIN consents /\ live[k] = consents[k]
       /\ \A k \in DOMAIN consents \ DOMAIN live :
            clock >= begun[consents[k].state].at + ConsentTtl
  BY LiveConsents
<1> HIDE DEF live
<1>13. id \notin DOMAIN live
  BY <1>1, <1>12 DEF ConsentsAreDrawn
<1>14. /\ DOMAIN consents' = DOMAIN live \cup {id} /\ consents'[id] = entry
       /\ \A k \in DOMAIN live : consents'[k] = consents[k]
  <2>1. DOMAIN consents' = DOMAIN live \cup {id}
    BY <1>7 DEF Put
  <2> QED
    BY <2>1, <1>7, <1>12, <1>13, PutEntries
<1>15. IsTable(consents, ConsentIds, PendingConsent)'
  BY <1>7, <1>8, <1>12, TablesStayTables
<1>16. TypeOK'
  BY <1>1, <1>2, <1>10, <1>15 DEF TypeOK, IsTable
<1>17. Agreement'
  <2>1. ASSUME NEW k \in DOMAIN consents' PROVE ConsentOK(k)'
    <3>1. CASE k = id
      <4>1. consents'[k] = entry
        BY <3>1, <1>14
      <4>2. \E u \in DOMAIN upstream' :
              /\ upstream'[u].provider = user.provider
              /\ upstream'[u].subject = user.subject
              /\ upstream'[u].nonce = state
        BY <1>2, <1>5 DEF LetIn
      <4> QED
        BY <4>1, <4>2, <1>3, <1>5, <1>9 DEF ConsentOK, LetIn
    <3>2. CASE k # id
      <4>1. k \in DOMAIN consents /\ consents'[k] = consents[k]
        BY <3>2, <2>1, <1>12, <1>14
      <4> QED
        BY <4>1, <1>1, <1>2, ConsentStays DEF Agreement
    <3> QED
      BY <3>1, <3>2
  <2>2. \A other \in Slots : CallOK(other)'
    BY <1>2, <1>10, OthersStay
  <2>3. \A c \in DOMAIN granted : GrantOK(c)'
    BY <1>1, <1>2, GrantStays DEF Agreement
  <2> QED
    BY <2>1, <2>2, <2>3, <1>1, <1>2, RestStays DEF Agreement
<1>18. \A s : InConsent(s)' => InConsent(s) \/ s = state
  BY <1>9, <1>12, <1>14 DEF InConsent
<1>19. OnePlace'
  <2>1. \A s \in DOMAIN pending : ~InCall(s)' /\ ~InConsent(s)' /\ answers[s] = <<>>
    BY <1>1, <1>6, <1>10, <1>18 DEF OnePlace
  <2>2. \A one \in Slots :
          Holds(one)' =>
            /\ \A k \in DOMAIN consents' : consents'[k].state # calls'[one].state
            /\ answers[calls'[one].state] = <<>>
            /\ \A other \in Slots :
                 Holds(other)' /\ calls'[other].state = calls'[one].state => other = one
    BY <1>1, <1>9, <1>10, <1>11, <1>12, <1>14 DEF OnePlace, InConsent
  <2>3. \A k \in DOMAIN consents' :
          /\ answers[consents'[k].state] = <<>>
          /\ \A other \in DOMAIN consents' :
               consents'[other].state = consents'[k].state => other = k
    BY <1>1, <1>6, <1>9, <1>12, <1>14 DEF OnePlace, InConsent
  <2>4. \A one \in Slots :
          Holds(one)' =>
            /\ ~InConsent(calls[one].state)' /\ answers[calls'[one].state] = <<>>
            /\ \A other \in Slots :
                 Holds(other)' /\ calls'[other].state = calls'[one].state => other = one
    BY <2>2 DEF InConsent
  <2> QED
    BY <2>1, <2>3, <2>4, <1>1 DEF OnePlace, ClientHearsOnce
<1>20. Accounted'
  <2>1. \E k \in DOMAIN consents' : consents'[k].state = state
    BY <1>9, <1>14
  <2>2. ASSUME NEW s \in DOMAIN begun, InConsent(s)
        PROVE  InConsent(s)' \/ clock >= begun[s].at + ConsentTtl
    BY <2>2, <1>12, <1>14 DEF InConsent
  <2>3. ASSUME NEW s \in DOMAIN begun
        PROVE  \/ s \in DOMAIN pending \/ InCall(s)' \/ InConsent(s)' \/ answers[s] # <<>>
               \/ s \in dropped
               \/ clock >= begun[s].at + ReauthTtl
               \/ clock >= begun[s].at + ConsentTtl
    <3>1. CASE s = state
      BY <3>1, <2>1 DEF InConsent
    <3>2. CASE s # state
      BY <3>2, <2>2, <1>1, <1>10 DEF Accounted, Somewhere
    <3> QED
      BY <3>1, <3>2
  <2> QED
    BY <2>3, <1>2 DEF Accounted, Somewhere
<1>21. ConsentsAreDrawn'
  BY <1>1, <1>12, <1>14 DEF ConsentsAreDrawn
<1> QED
  BY <1>16, <1>17, <1>19, <1>20, <1>21 DEF IInv

(* The keys arrived and the id_token is valid. *)
LEMMA ValidateIdTokenKeeps ==
  ASSUME IInv, NEW slot \in Slots, ValidateIdToken(slot)
  PROVE  IInv'
<1> DEFINE client == calls[slot].transaction.client
           user == [provider |-> calls[slot].transaction.provider,
                    subject |-> calls[slot].subject]
<1>1. /\ In(slot, "validating") /\ NonceMatches(calls[slot]) /\ Goto(slot, Idle)
      /\ UNCHANGED <<clock, config, pending, outside, restarts, begun, dropped>>
  BY DEF ValidateIdToken
<1>2. CASE IssueCode(calls[slot].state, client, user) /\ UNCHANGED <<consents, drawn>>
  BY <1>1, <1>2, ValidatedWithoutConsentKeeps DEF tables
<1>3. ASSUME NEW id \in ConsentIds \ drawn,
             consents' = NewConsent(id, calls[slot].state, client, user),
             drawn' = drawn \cup {id}, UNCHANGED <<granted, answers>>
      PROVE  IInv'
  BY <1>1, <1>3, ValidatedWithConsentKeeps
<1> QED
  BY <1>2, <1>3 DEF ValidateIdToken

(* begin_reauth, up to the discovery: no transaction yet. *)
LEMMA AuthorizeKeeps ==
  ASSUME IInv, NEW slot \in Slots, NEW client \in Clients, Authorize(slot, client)
  PROVE  IInv'
<1> DEFINE call == [phase |-> "discovering", client |-> client, since |-> clock]
<1>1. /\ calls[slot] = Idle /\ client \in DOMAIN config.clients /\ Goto(slot, call)
      /\ UNCHANGED <<clock, config, tables, outside, restarts, history>>
  BY DEF Authorize
<1>2. ~Holds(slot)
  BY <1>1 DEF Holds, Idle
<1>3. clock \in Nat
  BY DEF IInv, TypeOK
<1>4. call \in Call
  BY <1>3 DEF Call
<1> QED
  BY <1>1, <1>2, <1>4, WithoutTransactionKeeps

-----------------------------------------------------------------------------
(* The consents.                                                            *)

(* Consents that have run out leave the table. *)
LEMMA ConsentsRunOut ==
  ASSUME IInv, consents' = Live(consents, clock),
         UNCHANGED <<clock, config, pending, calls, outside, restarts, history>>
  PROVE  IInv'
<1>1. UNCHANGED <<visits, upstream, callbacks, begun, answers, granted, drawn, dropped>>
  BY DEF outside, history
<1>2. /\ TypeOK /\ Agreement /\ OnePlace /\ Accounted /\ ConsentsAreDrawn /\ Keeps
  BY <1>1, NothingGrows DEF IInv
<1>3. /\ IsTable(consents', ConsentIds, PendingConsent)
      /\ \A id \in DOMAIN consents' :
           id \in DOMAIN consents /\ consents'[id] = consents[id]
      /\ \A id \in DOMAIN consents \ DOMAIN consents' :
           clock >= begun[consents[id].state].at + ConsentTtl
  BY LiveConsents
<1>4. TypeOK'
  BY <1>1, <1>2, <1>3 DEF TypeOK, IsTable
<1>5. Agreement'
  <2>1. \A id \in DOMAIN consents' : ConsentOK(id)'
    BY <1>2, <1>3, ConsentStays DEF Agreement
  <2>2. \A slot \in Slots : CallOK(slot)'
    BY <1>2, CallStays DEF Agreement
  <2>3. \A c \in DOMAIN granted : GrantOK(c)'
    BY <1>1, <1>2, GrantStays DEF Agreement
  <2> QED
    BY <2>1, <2>2, <2>3, <1>1, <1>2, RestStays DEF Agreement
<1>6. /\ \A s : InConsent(s)' => InConsent(s)
      /\ \A s : InCall(s)' <=> InCall(s)
  BY <1>3 DEF InConsent, InCall
<1>7. OnePlace'
  <2>1. \A slot \in Slots :
          Holds(slot)' =>
            /\ ~InConsent(calls[slot].state)' /\ answers[calls[slot].state] = <<>>
            /\ \A other \in Slots :
                 Holds(other)' /\ calls[other].state = calls[slot].state => other = slot
    BY <1>2, <1>3 DEF OnePlace, Holds, InConsent
  <2>2. \A id \in DOMAIN consents' :
          /\ answers[consents'[id].state] = <<>>
          /\ \A other \in DOMAIN consents' :
               consents'[other].state = consents'[id].state => other = id
    BY <1>2, <1>3 DEF OnePlace
  <2> QED
    BY <2>1, <2>2, <1>1, <1>2, <1>6 DEF OnePlace, ClientHearsOnce
<1>8. Accounted'
  <2>1. ASSUME NEW s \in DOMAIN begun, InConsent(s)
        PROVE  InConsent(s)' \/ clock >= begun[s].at + ConsentTtl
    BY <2>1, <1>3 DEF InConsent
  <2> QED
    BY <2>1, <1>1, <1>2, <1>6 DEF Accounted, Somewhere
<1> QED
  BY <1>1, <1>2, <1>3, <1>4, <1>5, <1>7, <1>8 DEF IInv, ConsentsAreDrawn

(* A consent is decided: it leaves the table, and the client is answered. *)
LEMMA AnswerFromConsentKeeps ==
  ASSUME IInv, NEW id \in DOMAIN Live(consents, clock),
         consents' = Drop(Live(consents, clock), id),
         NEW answer \in {"code", "error"}, Answer(consents[id].state, answer),
         IsTable(granted, Codes, [state : States, user : User, client : Clients,
                                  at : Nat])',
         \A c \in DOMAIN granted' : GrantOK(c)',
         UNCHANGED <<clock, config, pending, calls, outside, restarts, begun, drawn,
                     dropped>>
  PROVE  IInv'
<1> DEFINE live == Live(consents, clock)
           state == consents[id].state
<1>1. UNCHANGED <<visits, upstream, callbacks>>
  BY DEF outside
<1>2. /\ TypeOK /\ Agreement /\ OnePlace /\ Accounted /\ ConsentsAreDrawn /\ Keeps
  BY <1>1, NothingGrows DEF IInv
<1>3. /\ IsTable(live, ConsentIds, PendingConsent)
      /\ \A k \in DOMAIN live : k \in DOMAIN consents /\ live[k] = consents[k]
      /\ \A k \in DOMAIN consents \ DOMAIN live :
           clock >= begun[consents[k].state].at + ConsentTtl
  BY LiveConsents
<1>4. id \in DOMAIN consents /\ ConsentOK(id)
  BY <1>2, <1>3 DEF Agreement
<1>5. state \in States /\ state \in DOMAIN begun
  BY <1>2, <1>4, ConsentParts DEF ConsentOK
<1>6. answers[state] = <<>>
  BY <1>2, <1>4 DEF OnePlace
<1>7. /\ answers' \in [States -> Seq({"code", "error"})]
      /\ answers'[state] # <<>> /\ Len(answers'[state]) = 1
      /\ \A s \in States : s # state => answers'[s] = answers[s]
  BY <1>2, <1>5, <1>6, FirstAnswer
<1>8. /\ state \notin DOMAIN pending /\ ~InCall(state)
      /\ \A k \in DOMAIN consents : consents[k].state = state => k = id
  <2>1. InConsent(state)
    BY <1>4 DEF InConsent
  <2> QED
    BY <2>1, <1>2, <1>4 DEF OnePlace, InCall, Holds
<1> HIDE DEF live
<1>9. /\ IsTable(consents', ConsentIds, PendingConsent)
      /\ \A k \in DOMAIN consents' :
           k \in DOMAIN consents /\ consents'[k] = consents[k] /\ k # id
      /\ \A k \in DOMAIN consents \ DOMAIN consents' :
           k = id \/ clock >= begun[consents[k].state].at + ConsentTtl
  BY <1>3, DropEntries, TablesStayTables DEF live
<1>10. \A k \in DOMAIN consents' : consents'[k].state # state
  BY <1>8, <1>9
<1>11. /\ \A s : InConsent(s)' => InConsent(s) /\ s # state
       /\ \A s : InCall(s)' <=> InCall(s)
  BY <1>9, <1>10 DEF InConsent, InCall
<1> HIDE DEF state
<1>12. TypeOK'
  BY <1>1, <1>2, <1>7, <1>9 DEF TypeOK, IsTable
<1>13. Agreement'
  <2>1. \A k \in DOMAIN consents' : ConsentOK(k)'
    BY <1>2, <1>9, ConsentStays DEF Agreement
  <2>2. \A slot \in Slots : CallOK(slot)'
    BY <1>2, CallStays, <1>1 DEF Agreement
  <2>3. \A s \in States : answers'[s] # <<>> => s \in DOMAIN begun
    BY <1>2, <1>5, <1>7 DEF Agreement
  <2> QED
    BY <2>1, <2>2, <2>3, <1>1, <1>2, RestStays DEF Agreement
<1>14. OnePlace'
  <2>1. \A s \in DOMAIN pending : ~InCall(s)' /\ ~InConsent(s)' /\ answers'[s] = <<>>
    BY <1>2, <1>7, <1>8, <1>11, PendingParts DEF OnePlace
  <2>2. ASSUME NEW slot \in Slots, Holds(slot)
        PROVE  /\ \A k \in DOMAIN consents' : consents'[k].state # calls[slot].state
               /\ answers'[calls[slot].state] = <<>>
               /\ \A other \in Slots :
                    Holds(other) /\ calls[other].state = calls[slot].state => other = slot
    <3>1. calls[slot].state # state /\ calls[slot].state \in States
      BY <2>2, <1>2, <1>8, CallParts DEF InCall, Holds
    <3> QED
      BY <2>2, <3>1, <1>2, <1>7, <1>9 DEF OnePlace, InConsent
  <2>3. \A slot \in Slots :
          Holds(slot)' =>
            /\ ~InConsent(calls[slot].state)' /\ answers'[calls'[slot].state] = <<>>
            /\ \A other \in Slots :
                 Holds(other)' /\ calls'[other].state = calls'[slot].state => other = slot
    BY <2>2 DEF Holds, InConsent
  <2>4. \A k \in DOMAIN consents' :
          /\ answers'[consents'[k].state] = <<>>
          /\ \A other \in DOMAIN consents' :
               consents'[other].state = consents'[k].state => other = k
    BY <1>2, <1>7, <1>9, <1>10, ConsentParts DEF OnePlace
  <2>5. ClientHearsOnce'
    <3>1. ASSUME NEW s \in States PROVE Len(answers'[s]) <= 1
      <4>1. CASE s = state
        BY <4>1, <1>7
      <4>2. CASE s # state
        BY <4>2, <1>2, <1>7 DEF OnePlace, ClientHearsOnce
      <4> QED
        BY <4>1, <4>2
    <3> QED
      BY <3>1 DEF ClientHearsOnce
  <2> QED
    BY <2>1, <2>3, <2>4, <2>5 DEF OnePlace
<1>15. Accounted'
  <2>1. ASSUME NEW s \in DOMAIN begun
        PROVE  \/ s \in DOMAIN pending \/ InCall(s)' \/ InConsent(s)' \/ answers'[s] # <<>>
               \/ s \in dropped
               \/ clock >= begun[s].at + ReauthTtl
               \/ clock >= begun[s].at + ConsentTtl
    <3>1. CASE s = state
      BY <3>1, <1>7
    <3>2. CASE s # state
      <4>1. InConsent(s) => InConsent(s)' \/ clock >= begun[s].at + ConsentTtl
        <5>1. ASSUME NEW k \in DOMAIN consents, consents[k].state = s
              PROVE  InConsent(s)' \/ clock >= begun[s].at + ConsentTtl
          <6>1. k # id
            BY <5>1, <3>2 DEF state
          <6> QED
            BY <6>1, <5>1, <1>9 DEF InConsent
        <5> QED
          BY <5>1 DEF InConsent
      <4> QED
        BY <4>1, <3>2, <1>2, <1>7, <1>11, BegunParts DEF Accounted, Somewhere
    <3> QED
      BY <3>1, <3>2
  <2> QED
    BY <2>1, <1>1 DEF Accounted, Somewhere
<1> QED
  BY <1>2, <1>9, <1>12, <1>13, <1>14, <1>15 DEF IInv, ConsentsAreDrawn

(* GET /reauth/consent/:transaction_id. *)
LEMMA ConsentPageKeeps ==
  ASSUME IInv, NEW id \in ConsentIds, ConsentPage(id)
  PROVE  IInv'
BY ConsentsRunOut DEF ConsentPage

(* POST /reauth/consent: too late or twice, approved, or denied. *)
LEMMA ConsentKeeps ==
  ASSUME IInv, NEW id \in ConsentIds, NEW decision \in {"approve", "deny"},
         Consent(id, decision)
  PROVE  IInv'
<1> DEFINE live == Live(consents, clock)
<1>1. /\ consents' = Drop(live, id)
      /\ UNCHANGED <<clock, config, pending, calls, outside, restarts, begun, drawn,
                     dropped>>
  BY DEF Consent
<1>2. TypeOK /\ Agreement /\ OnePlace /\ Keeps
  BY <1>1, NothingGrows DEF IInv, outside
<1>3. CASE id \notin DOMAIN live /\ UNCHANGED <<answers, granted>>
  <2>1. consents' = live
    BY <1>1, <1>3 DEF Drop, Live, Restrict
  <2> QED
    BY <2>1, <1>1, <1>3, ConsentsRunOut DEF history
<1>4. CASE /\ id \in DOMAIN live
           /\ IssueCode(live[id].state, live[id].client, live[id].user)
  <2>1. /\ id \in DOMAIN consents /\ live[id] = consents[id]
        /\ consents[id].expires_at > clock
    BY <1>4, LiveEntries
  <2>2. ConsentOK(id) /\ answers[consents[id].state] = <<>>
    BY <2>1, <1>2 DEF Agreement, OnePlace
  <2>3. /\ consents[id].state \in DOMAIN begun /\ consents[id].user \in User
        /\ consents[id].expires_at \in Nat /\ clock \in Nat
        /\ begun[consents[id].state].at \in Nat
    BY <2>1, <2>2, <1>2, ConsentParts, BegunParts DEF ConsentOK, TypeOK
  <2>4. clock < begun[consents[id].state].at + ReauthTtl + 2 * Timeout + ConsentTtl
    <3> DEFINE bound ==
          begun[consents[id].state].at + ReauthTtl + 2 * Timeout + ConsentTtl
    <3>1. consents[id].expires_at < bound
      BY <2>2 DEF ConsentOK
    <3>2. bound \in Nat
      BY <2>3, Constants
    <3> HIDE DEF bound
    <3>3. clock < bound
      BY <2>1, <2>3, <3>1, <3>2
    <3> QED
      BY <3>3 DEF bound
  <2>5. /\ consents[id].client = begun[consents[id].state].client
        /\ consents[id].user.provider = begun[consents[id].state].provider
        /\ LetIn(consents[id].user.provider, consents[id].user.subject,
                 consents[id].state)
    BY <2>2 DEF ConsentOK
  <2>6. IssueCode(consents[id].state, consents[id].client, consents[id].user)
    BY <1>4, <2>1
  <2>7. /\ IsTable(granted, Codes, [state : States, user : User, client : Clients,
                                    at : Nat])'
        /\ \A c \in DOMAIN granted' : GrantOK(c)'
        /\ Answer(consents[id].state, "code")
    BY <2>2, <2>3, <2>4, <2>5, <2>6, <1>1, IssuedCode DEF outside
  <2> QED
    BY <2>7, <1>1, <1>4, AnswerFromConsentKeeps
<1>5. CASE id \in DOMAIN live /\ Answer(live[id].state, "error") /\ UNCHANGED granted
  <2>1. live[id] = consents[id]
    BY <1>5, LiveEntries
  <2>2. /\ IsTable(granted, Codes, [state : States, user : User, client : Clients,
                                    at : Nat])'
        /\ \A c \in DOMAIN granted' : GrantOK(c)'
    BY <1>2, <1>5, GrantStays DEF Agreement, TypeOK, IsTable
  <2>3. Answer(consents[id].state, "error")
    BY <1>5, <2>1
  <2> QED
    BY <2>2, <2>3, <1>1, <1>5, AnswerFromConsentKeeps
<1> QED
  BY <1>3, <1>4, <1>5 DEF Consent

(* Everything in memory is lost, and counted as lost where it was not       *)
(* answered.                                                                *)
LEMMA RestartKeeps ==
  ASSUME IInv, Restart
  PROVE  IInv'
<1>1. /\ restarts' = restarts + 1
      /\ pending' = NoEntries /\ consents' = NoEntries
      /\ calls' = [s \in Slots |-> Idle]
      /\ dropped' = dropped \cup {s \in DOMAIN begun : answers[s] = <<>>}
      /\ UNCHANGED <<clock, config, visits, upstream, callbacks, begun, answers,
                     granted, drawn>>
  BY DEF Restart, outside
<1>2. /\ TypeOK /\ Agreement /\ OnePlace /\ Keeps
  BY <1>1, NothingGrows DEF IInv
<1>3. /\ DOMAIN pending' = {} /\ DOMAIN consents' = {}
      /\ \A slot \in Slots : calls'[slot] = Idle
  BY <1>1 DEF NoEntries
<1>4. \A slot \in Slots : ~Holds(slot)' /\ CallOK(slot)'
  BY <1>3 DEF Holds, CallOK, In, Idle
<1>5. TypeOK'
  <2>1. DOMAIN begun \subseteq States /\ Idle \in Call /\ restarts + 1 \in Nat
    BY <1>2 DEF TypeOK, IsTable, Call
  <2>2. dropped' \subseteq States /\ calls' \in [Slots -> Call] /\ restarts' \in Nat
    BY <1>1, <1>2, <2>1 DEF TypeOK
  <2> QED
    BY <2>2, <1>1, <1>2, <1>3 DEF TypeOK, IsTable
<1>6. Agreement'
  <2>1. \A s \in DOMAIN begun : BegunOK(s)'
    BY <1>1, <1>2 DEF Agreement, BegunOK
  <2>2. \A callback \in callbacks : CallbackOK(callback)'
    BY <1>2, CallbackStays DEF Agreement
  <2>3. \A c \in DOMAIN granted : GrantOK(c)'
    BY <1>1, <1>2, GrantStays DEF Agreement
  <2> QED
    BY <2>1, <2>2, <2>3, <1>1, <1>2, <1>3, <1>4 DEF Agreement
<1>7. OnePlace'
  BY <1>1, <1>2, <1>3, <1>4 DEF OnePlace, ClientHearsOnce
<1>8. Accounted'
  BY <1>1 DEF Accounted, Somewhere
<1> QED
  BY <1>3, <1>5, <1>6, <1>7, <1>8 DEF IInv, ConsentsAreDrawn

-----------------------------------------------------------------------------
(* The invariant.                                                           *)

(* It holds of an empty server. *)
LEMMA InitHolds == Init => IInv
<1> SUFFICES ASSUME Init PROVE IInv
  OBVIOUS
<1>1. /\ clock = 0 /\ config \in Configs /\ restarts = 0
      /\ pending = NoEntries /\ consents = NoEntries /\ upstream = NoEntries
      /\ begun = NoEntries /\ granted = NoEntries
      /\ visits = {} /\ callbacks = {} /\ drawn = {} /\ dropped = {}
      /\ calls = [s \in Slots |-> Idle]
      /\ answers = [s \in States |-> <<>>]
  BY DEF Init
<1>2. /\ DOMAIN pending = {} /\ DOMAIN consents = {} /\ DOMAIN upstream = {}
      /\ DOMAIN begun = {} /\ DOMAIN granted = {}
      /\ \A slot \in Slots : calls[slot] = Idle
      /\ \A s \in States : answers[s] = <<>> /\ Len(answers[s]) = 0
  BY <1>1 DEF NoEntries
<1>3. \A slot \in Slots : ~Holds(slot) /\ CallOK(slot)
  BY <1>2 DEF Holds, CallOK, In, Idle
<1>4. TypeOK
  <2>1. Idle \in Call /\ <<>> \in Seq({"code", "error"})
    BY DEF Call
  <2>2. calls \in [Slots -> Call] /\ answers \in [States -> Seq({"code", "error"})]
    BY <2>1, <1>1
  <2> QED
    BY <2>2, <1>1, <1>2 DEF TypeOK, IsTable
<1>5. Agreement
  BY <1>1, <1>2, <1>3 DEF Agreement
<1>6. OnePlace
  BY <1>2, <1>3 DEF OnePlace, ClientHearsOnce
<1> QED
  BY <1>2, <1>4, <1>5, <1>6 DEF IInv, Accounted, ConsentsAreDrawn

(* It does not depend on anything but the variables. *)
LEMMA StutterKeeps ==
  ASSUME IInv, UNCHANGED vars
  PROVE  IInv'
<1>1. UNCHANGED <<clock, config, pending, consents, calls, visits, upstream, callbacks,
                  restarts, begun, answers, granted, drawn, dropped>>
  BY DEF vars, tables, outside, history
<1>2. Keeps
  BY <1>1, NothingGrows
<1>3. TypeOK'
  BY <1>1 DEF IInv, TypeOK, IsTable
<1> QED
  BY <1>1, <1>2, <1>3, AgreementStands, OnePlaceStands, AccountedStands
     DEF IInv, ConsentsAreDrawn

(* Every step keeps it. *)
LEMMA StepHolds ==
  ASSUME IInv, [Next]_vars
  PROVE  IInv'
<1>1. CASE Tick
  BY <1>1, TickKeeps
<1>2. CASE Restart
  BY <1>2, RestartKeeps
<1>3. ASSUME NEW slot \in Slots,
             \/ BeginReauth(slot) \/ ExchangeCode(slot) \/ ExchangeLost(slot)
             \/ ValidateIdToken(slot) \/ Fail(slot) \/ Disconnect(slot)
      PROVE  IInv'
  BY <1>3, BeginReauthKeeps, ExchangeCodeKeeps, ExchangeLostKeeps, ValidateIdTokenKeeps,
     FailKeeps, DisconnectKeeps
<1>4. ASSUME NEW slot \in Slots, NEW client \in Clients, Authorize(slot, client)
      PROVE  IInv'
  BY <1>4, AuthorizeKeeps
<1>5. ASSUME NEW slot \in Slots, NEW callback \in callbacks, Callback(slot, callback)
      PROVE  IInv'
  BY <1>5, CallbackStepKeeps
<1>6. ASSUME NEW state \in States, NEW subject \in Subjects,
             UpstreamLogin(state, subject)
      PROVE  IInv'
  BY <1>6, UpstreamLoginKeeps
<1>7. ASSUME NEW provider \in Providers, NEW state \in States,
             NEW code \in UpstreamCodes \cup {None},
             UpstreamRedirect(provider, state, code)
      PROVE  IInv'
  BY <1>7, UpstreamRedirectKeeps
<1>8. ASSUME NEW id \in ConsentIds, ConsentPage(id)
      PROVE  IInv'
  BY <1>8, ConsentPageKeeps
<1>9. ASSUME NEW id \in ConsentIds, NEW decision \in {"approve", "deny"},
             Consent(id, decision)
      PROVE  IInv'
  BY <1>9, ConsentKeeps
<1>10. CASE UNCHANGED vars
  BY <1>10, StutterKeeps
<1> QED
  BY <1>1, <1>2, <1>3, <1>4, <1>5, <1>6, <1>7, <1>8, <1>9, <1>10 DEF Next

(* Every state of every run satisfies the invariant. *)
THEOREM Invariance == Spec => []IInv
<1>1. IInv /\ [Next]_vars => IInv'
  BY StepHolds
<1> QED
  BY InitHolds, <1>1, PTL DEF Spec

-----------------------------------------------------------------------------
(* What follows from it.                                                    *)

(* Handlers, tables and histories hold what they are meant to hold. *)
THEOREM TypeCorrect == Spec => []TypeOK
<1>1. IInv => TypeOK
  BY DEF IInv
<1> QED
  BY Invariance, <1>1, PTL

(* However many callbacks, codes and consent forms arrive for a             *)
(* transaction, the client hears of it once.                                *)
THEOREM HeardOnce == Spec => []ClientHearsOnce
<1>1. IInv => ClientHearsOnce
  BY DEF IInv, OnePlace
<1> QED
  BY Invariance, <1>1, PTL

(* A code is issued only for a user whom the provider of the client let in  *)
(* for the very request the code answers.                                   *)
THEOREM Authenticated == Spec => []AuthenticatedForThisRequest
<1>1. IInv => AuthenticatedForThisRequest
  <2> SUFFICES ASSUME IInv, NEW c \in DOMAIN granted
               PROVE  /\ granted[c].client = begun[granted[c].state].client
                      /\ granted[c].user.provider
                           = config.clients[granted[c].client].provider
                      /\ \E u \in DOMAIN upstream :
                           /\ upstream[u].provider = granted[c].user.provider
                           /\ upstream[u].subject = granted[c].user.subject
                           /\ upstream[u].nonce = granted[c].state
    BY DEF AuthenticatedForThisRequest
  <2>1. GrantOK(c)
    BY DEF IInv, Agreement
  <2>2. BegunOK(granted[c].state)
    BY <2>1 DEF GrantOK, IInv, Agreement
  <2> QED
    BY <2>1, <2>2 DEF GrantOK, BegunOK, LetIn
<1> QED
  BY Invariance, <1>1, PTL

(* The code comes within two lifetimes and two timeouts of the request.     *)
THEOREM InTime == Spec => []SoonAfterRequest
<1>1. IInv => SoonAfterRequest
  BY DEF IInv, Agreement, GrantOK, SoonAfterRequest
<1> QED
  BY Invariance, <1>1, PTL

(* A set with at most one element has cardinality at most one.              *)
LEMMA AtMostOne ==
  ASSUME NEW S, NEW p, S \subseteq {p}
  PROVE  Cardinality(S) <= 1
<1>1. IsFiniteSet({p}) /\ Cardinality({p}) = 1
  BY FS_Singleton
<1>2. Cardinality(S) <= Cardinality({p})
  BY <1>1, FS_Subset
<1> QED
  BY <1>1, <1>2

(* A transaction is at one place, and it is somewhere until it was lost or  *)
(* its first time limit has passed.                                         *)
THEOREM Vanishing == Spec => []NothingVanishes
<1> DEFINE Places(state) ==
      {p \in {"pending", "call", "consent", "answered"} :
         CASE p = "pending"  -> state \in DOMAIN pending
           [] p = "call"     -> InCall(state)
           [] p = "consent"  -> InConsent(state)
           [] p = "answered" -> answers[state] # <<>>}
<1>1. IInv => NothingVanishes
  <2> SUFFICES ASSUME IInv, NEW state \in DOMAIN begun
               PROVE  /\ Cardinality(Places(state)) <= 1
                      /\ \/ Places(state) # {}
                         \/ state \in dropped
                         \/ clock >= begun[state].at + ReauthTtl
                         \/ clock >= begun[state].at + ConsentTtl
    BY DEF NothingVanishes
  <2>1. TypeOK /\ OnePlace /\ Accounted
    BY DEF IInv
  <2>2. /\ "pending" \in Places(state) <=> state \in DOMAIN pending
        /\ "call" \in Places(state) <=> InCall(state)
        /\ "consent" \in Places(state) <=> InConsent(state)
        /\ "answered" \in Places(state) <=> answers[state] # <<>>
        /\ Places(state) \subseteq {"pending", "call", "consent", "answered"}
    OBVIOUS
  <2> HIDE DEF Places
  <2>3. /\ state \in DOMAIN pending
             => ~InCall(state) /\ ~InConsent(state) /\ answers[state] = <<>>
        /\ InCall(state) => ~InConsent(state) /\ answers[state] = <<>>
        /\ InConsent(state) => answers[state] = <<>>
    BY <2>1 DEF OnePlace, InCall, InConsent, Holds
  <2>4. \E p : Places(state) \subseteq {p}
    BY <2>2, <2>3
  <2>5. Cardinality(Places(state)) <= 1
    BY <2>4, AtMostOne
  <2>6. \/ Places(state) # {}
        \/ state \in dropped
        \/ clock >= begun[state].at + ReauthTtl
        \/ clock >= begun[state].at + ConsentTtl
    BY <2>1, <2>2 DEF Accounted, Somewhere
  <2> QED
    BY <2>5, <2>6
<1> QED
  BY Invariance, <1>1, PTL

-----------------------------------------------------------------------------
(* The configuration that was loaded is the one the server works with.      *)
THEOREM ConfigurationIsLoaded == Spec => []Loads(config)
<1>1. Init => Loads(config)
  BY DEF Init
<1>2. [Next]_vars => config' = config
  BY DEF Next, Tick, Restart, BeginReauth, ExchangeCode, ExchangeLost, ValidateIdToken,
         Fail, Disconnect, Authorize, Callback, UpstreamLogin, UpstreamRedirect,
         ConsentPage, Consent, vars
<1>3. Loads(config) /\ [Next]_vars => Loads(config)'
  BY <1>2 DEF Loads
<1> QED
  BY <1>1, <1>3, PTL DEF Spec

(* u is p, a colon and s, one after the other. *)
Joined(u, p, s) ==
  /\ Len(u) = Len(p) + 1 + Len(s)
  /\ \A i \in 1 .. Len(p) : u[i] = p[i]
  /\ u[Len(p) + 1] = ":"
  /\ \A i \in 1 .. Len(s) : u[Len(p) + 1 + i] = s[i]

(* The local subject of a user is a join. *)
LEMMA UserIdJoins ==
  ASSUME NEW T, NEW user, user.provider \in Seq(T), user.subject \in Seq(T)
  PROVE  Joined(UserId(user), user.provider, user.subject)
<1> DEFINE p == user.provider
           s == user.subject
           S == T \cup {":"}
           a == p \o <<":">>
<1>1. ":" \in S /\ T \subseteq S
  OBVIOUS
<1> HIDE DEF S
<1>2. p \in Seq(S) /\ s \in Seq(S)
  BY <1>1, SeqMonotonic
<1> HIDE DEF p, s
<1>3. /\ a \in Seq(S) /\ Len(a) = Len(p) + 1
      /\ \A i \in 1 .. Len(p) : a[i] = p[i]
      /\ a[Len(p) + 1] = ":"
  BY <1>1, <1>2
<1> HIDE DEF a
<1>4. /\ Len(a \o s) = Len(a) + Len(s)
      /\ \A i \in 1 .. Len(a) : (a \o s)[i] = a[i]
      /\ \A i \in 1 .. Len(s) : (a \o s)[Len(a) + i] = s[i]
  <2>1. /\ Len(a \o s) = Len(a) + Len(s)
        /\ \A i \in 1 .. Len(a) + Len(s) :
             (a \o s)[i] = IF i <= Len(a) THEN a[i] ELSE s[i - Len(a)]
    BY <1>2, <1>3, ConcatProperties
  <2>2. Len(a) \in Nat /\ Len(s) \in Nat
    BY <1>2, <1>3
  <2>3. \A i \in 1 .. Len(a) : (a \o s)[i] = a[i]
    BY <2>1, <2>2
  <2>4. ASSUME NEW i \in 1 .. Len(s) PROVE (a \o s)[Len(a) + i] = s[i]
    <3>1. Len(a) + i \in 1 .. Len(a) + Len(s) /\ ~ Len(a) + i <= Len(a)
      BY <2>2
    <3>2. (Len(a) + i) - Len(a) = i
      BY <2>2
    <3> QED
      BY <2>1, <3>1, <3>2
  <2> QED
    BY <2>1, <2>3, <2>4
<1>5. Joined(a \o s, p, s)
  BY <1>2, <1>3, <1>4 DEF Joined
<1> QED
  BY <1>5 DEF UserId, a, p, s

(* Texts joined by a colon that the first of them does not contain can be   *)
(* told apart again.                                                        *)
LEMMA ColonTells ==
  ASSUME NEW u,
         NEW T, NEW p \in Seq(T), NEW q \in Seq(T), NEW s \in Seq(T), NEW t \in Seq(T),
         \A i \in DOMAIN p : p[i] # ":",
         \A i \in DOMAIN q : q[i] # ":",
         Joined(u, p, s), Joined(u, q, t)
  PROVE  p = q /\ s = t
<1> USE DEF Joined
<1>1. /\ Len(p) \in Nat /\ DOMAIN p = 1 .. Len(p)
      /\ Len(q) \in Nat /\ DOMAIN q = 1 .. Len(q)
  OBVIOUS
<1>2. ~ Len(p) < Len(q)
  <2> SUFFICES ASSUME Len(p) < Len(q) PROVE FALSE
    OBVIOUS
  <2>1. Len(p) + 1 \in 1 .. Len(q)
    BY <1>1
  <2> QED
    BY <2>1, <1>1
<1>3. ~ Len(q) < Len(p)
  <2> SUFFICES ASSUME Len(q) < Len(p) PROVE FALSE
    OBVIOUS
  <2>1. Len(q) + 1 \in 1 .. Len(p)
    BY <1>1
  <2> QED
    BY <2>1, <1>1
<1>4. Len(p) = Len(q)
  <2> DEFINE m == Len(p)
             n == Len(q)
  <2>1. m \in Nat /\ n \in Nat /\ ~ m < n /\ ~ n < m
    BY <1>1, <1>2, <1>3
  <2> HIDE DEF m, n
  <2>2. m = n
    BY <2>1
  <2> QED
    BY <2>2 DEF m, n
<1>5. p = q
  BY <1>4, SeqEqual
<1>6. s = t
  <2>1. Len(s) = Len(t)
    BY <1>4
  <2>2. \A i \in 1 .. Len(s) : s[i] = t[i]
    BY <1>4, <2>1
  <2> QED
    BY <2>1, <2>2, SeqEqual
<1> QED
  BY <1>5, <1>6

(* Two users have one local subject only if they are one user.              *)
THEOREM Distinct == Spec => []SubjectsAreDistinct
<1>1. IInv /\ Loads(config) => SubjectsAreDistinct
  <2> SUFFICES ASSUME IInv, Loads(config),
                      NEW c \in DOMAIN granted, NEW d \in DOMAIN granted,
                      UserId(granted[c].user) = UserId(granted[d].user)
               PROVE  granted[c].user = granted[d].user
    BY DEF SubjectsAreDistinct
  <2>1. ASSUME NEW e \in DOMAIN granted
        PROVE  /\ granted[e].user \in User
               /\ granted[e].user.provider \in Seq(STRING)
               /\ granted[e].user.subject \in Seq(STRING)
               /\ \A i \in DOMAIN granted[e].user.provider :
                    granted[e].user.provider[i] # ":"
    <3>1. granted[e].user \in User
      BY DEF IInv, TypeOK, IsTable
    <3>2. GrantOK(e)
      BY DEF IInv, Agreement
    <3>3. BegunOK(granted[e].state)
      BY <3>2 DEF GrantOK, IInv, Agreement
    <3>4. granted[e].user.provider \in DOMAIN config.providers
      BY <3>2, <3>3 DEF GrantOK, BegunOK, Loads
    <3>5. granted[e].user.provider \in Seq(STRING) /\ granted[e].user.subject \in Seq(STRING)
      BY <3>1, ParametersAreWellFormed DEF User
    <3> QED
      BY <3>1, <3>4, <3>5 DEF Loads
  <2>2. /\ granted[c].user.provider = granted[d].user.provider
        /\ granted[c].user.subject = granted[d].user.subject
    <3>1. /\ Joined(UserId(granted[c].user), granted[c].user.provider,
                    granted[c].user.subject)
          /\ Joined(UserId(granted[c].user), granted[d].user.provider,
                    granted[d].user.subject)
      BY <2>1, UserIdJoins
    <3> QED
      BY <2>1, <3>1, ColonTells
  <2> QED
    BY <2>1, <2>2 DEF User
<1> QED
  BY Invariance, ConfigurationIsLoaded, <1>1, PTL
=============================================================================
