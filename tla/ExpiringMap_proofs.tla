-------------------------- MODULE ExpiringMap_proofs --------------------------
(***************************************************************************)
(* What the operations on a table do, for any identifiers and entries.      *)
(***************************************************************************)
EXTENDS ExpiringMap, TLAPS

(* retain() keeps exactly the entries that expire later, unchanged. *)
LEMMA LiveEntries ==
  \A m, now :
    /\ \A k : k \in DOMAIN Live(m, now) <=>
              k \in DOMAIN m /\ m[k].expires_at > now
    /\ \A k \in DOMAIN Live(m, now) : Live(m, now)[k] = m[k]
BY DEF Live, Restrict

(* insert() adds one key and touches no other entry. *)
LEMMA PutEntries ==
  \A m, key, entry :
    /\ \A k : k \in DOMAIN Put(m, key, entry) <=> k \in DOMAIN m \/ k = key
    /\ Put(m, key, entry)[key] = entry
    /\ \A k \in DOMAIN m : k # key => Put(m, key, entry)[k] = m[k]
BY DEF Put

(* remove() takes one key away and touches no other entry. *)
LEMMA DropEntries ==
  \A m, key :
    /\ \A k : k \in DOMAIN Drop(m, key) <=> k \in DOMAIN m /\ k # key
    /\ \A k \in DOMAIN Drop(m, key) : Drop(m, key)[k] = m[k]
BY DEF Drop, Restrict

(* The three operations keep a table a table. *)
LEMMA TablesStayTables ==
  ASSUME NEW m, NEW K, NEW E, IsTable(m, K, E)
  PROVE  /\ \A now : IsTable(Live(m, now), K, E)
         /\ \A key : IsTable(Drop(m, key), K, E)
         /\ \A key \in K, entry \in E : IsTable(Put(m, key, entry), K, E)
<1>1. ASSUME NEW now PROVE IsTable(Live(m, now), K, E)
  BY LiveEntries DEF IsTable
<1>2. ASSUME NEW key PROVE IsTable(Drop(m, key), K, E)
  BY DropEntries DEF IsTable
<1>3. ASSUME NEW key \in K, NEW entry \in E
      PROVE  IsTable(Put(m, key, entry), K, E)
  <2>1. ASSUME NEW k \in DOMAIN m \cup {key}
        PROVE  k \in K /\ Put(m, key, entry)[k] \in E
    <3>1. CASE k = key
      BY <3>1, PutEntries
    <3>2. CASE k # key
      BY <3>2, <2>1, PutEntries DEF IsTable
    <3> QED
      BY <3>1, <3>2
  <2> QED
    BY <2>1, PutEntries DEF IsTable
<1> QED
  BY <1>1, <1>2, <1>3
=============================================================================
