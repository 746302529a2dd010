----------------------------- MODULE ExpiringMap -----------------------------
(***************************************************************************)
(* The in-memory tables of the server.  Every table is a HashMap from an    *)
(* identifier to an entry that carries the instant it expires at, and every *)
(* table is purged with the same retain() closure.  A table is modelled as  *)
(* a function whose domain is the set of identifiers it holds.              *)
(***************************************************************************)
EXTENDS Naturals, Functions

(* A table with no entry: HashMap::default(). *)
NoEntries == [k \in {} |-> k]

(* Seeded faults: an expired entry is kept one instant too long, a removed  *)
(* one is only read.                                                        *)
LiveInclusive(m, now) == Restrict(m, {k \in DOMAIN m : m[k].expires_at >= now})
ReadOnly(m, key) == m

(* retain(|_, entry| entry.expires_at > now): an entry that expires exactly *)
(* at `now` is gone.                                                        *)
Live(m, now) == Restrict(m, {k \in DOMAIN m : m[k].expires_at > now})

(* HashMap::insert: an entry already there under the same key is replaced.  *)
Put(m, key, entry) ==
  [k \in DOMAIN m \cup {key} |-> IF k = key THEN entry ELSE m[k]]

(* HashMap::remove: nothing happens when the key is absent. *)
Drop(m, key) == Restrict(m, DOMAIN m \ {key})

(* m is a table from some of the identifiers in K to entries in E. *)
IsTable(m, K, E) == DOMAIN m \subseteq K /\ \A k \in DOMAIN m : m[k] \in E
=============================================================================
