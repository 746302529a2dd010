------------------------------ MODULE MCUserStore ------------------------------
(* A small instance of UserStore for TLC. *)
EXTENDS UserStore

Hash(scheme, password) == [scheme |-> scheme, password |-> password]

User(id, enabled, hash, plain) ==
  [id |-> id, username |-> "ann", enabled |-> enabled, password_hash |-> hash,
   password_plain |-> plain]

Other ==
  [id |-> "2", username |-> "bob", enabled |-> TRUE,
   password_hash |-> Hash("argon2id", "q"), password_plain |-> None]

Ann == User("1", TRUE, Hash("argon2id", "p"), None)

(* What becomes of one user: disabled, with another password, with a hash   *)
(* that only users.json may have; or what users.json has alone: plain       *)
(* passwords, users who share an id, a user without a password.             *)
AllTables ==
  {{Ann}, {User("1", FALSE, Hash("argon2id", "p"), None), Other},
   {User("1", TRUE, Hash("argon2id", "q"), None)},
   {User("3", TRUE, Hash("sha256", "p"), None)},
   {User("1", TRUE, None, "p"), Other},
   {Ann, [Other EXCEPT !.id = "1"]}, {User("1", TRUE, None, None)}}
=============================================================================
