---------------------------- MODULE MCAdminConsole ----------------------------
(* Small instances of AdminConsole for TLC. *)
EXTENDS AdminConsole, TLC

Symmetry == Permutations(Browsers) \cup Permutations(Requests)
              \cup Permutations(Passwords) \cup Permutations(Admins)

(* Tokens are interchangeable, so they may be drawn in their order. *)
InOrder == drawn = 1 .. Cardinality(drawn)

Busy == {r \in Requests : requests[r] # Idle}

(* One administrator over time; or two, of whom one changes the password,   *)
(* and whose requests come one at a time after the first instant.           *)
OneAdminOrTwoForAWhile ==
  /\ clock + restarts <= 2 /\ Len(starts) <= 3
  /\ Cardinality(DOMAIN admins) = 2 =>
       /\ clock <= 1 /\ restarts = 0
       /\ clock = 0 \/ Cardinality(Busy) <= 1
       /\ \A id \in DOMAIN admins : admins[id].enabled /\ admins[id].version <= 2
       /\ \E id \in DOMAIN admins : admins[id].version = 1
=============================================================================
