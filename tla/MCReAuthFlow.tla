----------------------------- MODULE MCReAuthFlow -----------------------------
(* Small instances of ReAuthFlow for TLC. *)
EXTENDS ReAuthFlow, TLC

(* Provider and subject names: "p" + "x:s" and "p:x" + "s" would collide. *)
P == <<"p">>
PX == <<"p", ":", "x">>
S == <<"s">>
XS == <<"x", ":", "s">>

Config(pkce, first, clients) ==
  [providers |-> [p \in {P, first} |-> [pkce |-> pkce]], clients |-> clients]

Client(provider, consent) == [provider |-> provider, consent |-> consent]

(* Two providers, of which an operator may have named one with a colon; one *)
(* client of each, one of them with local consent.                          *)
TwoProviders ==
  {Config(FALSE, other, "a" :> Client(P, "skip") @@ "b" :> Client(other, "local")) :
     other \in {<<"q">>, PX}}

(* One client with local consent; its provider with and without PKCE, and   *)
(* another provider whose callbacks may arrive.                             *)
OneClient == {Config(pkce, <<"q">>, "a" :> Client(P, "local")) : pkce \in BOOLEAN}

TwoNames == {S, XS}
AllConfigs == OneClient \cup TwoProviders

(* One transaction over time, with all that may happen to its handlers; or  *)
(* two transactions at one instant, a handler at a time.                    *)
OneOverTimeOrTwoAtOnce ==
  \/ /\ config \in OneClient
     /\ Cardinality(DOMAIN begun) <= 1
     /\ \A u \in DOMAIN upstream : upstream[u].subject = S
  \/ /\ config \in TwoProviders
     /\ clock = 0 /\ restarts = 0 /\ dropped = {}
     /\ Cardinality(drawn) <= 1
     /\ Cardinality({slot \in Slots : calls[slot] # Idle}) <= 1

Symmetry == Permutations(States) \cup Permutations(UpstreamCodes)
              \cup Permutations(Codes) \cup Permutations(ConsentIds)
              \cup Permutations(Slots)
=============================================================================
