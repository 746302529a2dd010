----------------------------- MODULE MCAuthStore -----------------------------
(* Small instances of AuthStore for TLC. *)
EXTENDS AuthStore, TLC

Symmetry == Permutations(Workers) \cup Permutations(Codes) \cup Permutations(States)
              \cup Permutations(Nonces) \cup Permutations(Providers)
=============================================================================
