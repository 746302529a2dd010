------------------------------ MODULE MCCodeFlow ------------------------------
(* Small instances of CodeFlow for TLC. *)
EXTENDS CodeFlow, FiniteSets, TLC

CONSTANTS a, b,     \* two clients
          ra, rb,   \* a redirect URI of each client
          v1, v2    \* verifiers

(* Client a insists on PKCE and asks for consent, b does neither. *)
ClientA == [auth_mode |-> "local", consent_mode |-> "always",
            require_pkce |-> TRUE, redirect_uris |-> {ra}, renders |-> TRUE]
ClientB == [auth_mode |-> "local", consent_mode |-> "skip",
            require_pkce |-> FALSE, redirect_uris |-> {rb}, renders |-> TRUE]

Request(client, redirect, challenge, prompt, state) ==
  [client_id |-> client, redirect_uri |-> redirect, code_challenge |-> challenge,
   prompt_login |-> prompt, state |-> state]

(* States: text, one with a number sign, and some with an ampersand.        *)
Nothing == [client_id |-> None, redirect_uri |-> None, code_challenge |-> None,
            prompt_login |-> FALSE]
Plain == [mark |-> "none", then |-> Nothing]
Fragment == [mark |-> "#", then |-> Nothing]
And(parameters) == [mark |-> "&", then |-> parameters]
AndChallenge == And([Nothing EXCEPT !.code_challenge = v2])
AndPrompt == And([Nothing EXCEPT !.prompt_login = TRUE])
AndClientB == And([Nothing EXCEPT !.client_id = b, !.redirect_uri = rb])

(* Between two runs of the server the operator makes PKCE a duty of a, or   *)
(* ends it, so that consent forms cross the change; and breaks b's token    *)
(* template.                                                                *)
Policies ==
  {[c \in {a, b} |-> IF c = a
                     THEN [ClientA EXCEPT !.require_pkce = edited]
                     ELSE [ClientB EXCEPT !.renders = ~edited]] : edited \in BOOLEAN}

OnlyA == {[c \in {a} |-> ClientA]}

(* A tab of each client, the one of b with prompt=login; two tabs of a, one *)
(* of them with prompt=login; a single tab.                                 *)
OneEach == {Request(a, ra, v1, FALSE, Plain), Request(b, rb, None, TRUE, AndChallenge)}
TwoTabs == {Request(a, ra, v1, TRUE, Plain), Request(a, ra, v1, FALSE, Plain)}
OneTab == {Request(a, ra, v1, FALSE, And(Nothing))}

(* One tab of a, with any state. *)
EveryState ==
  {Request(a, ra, challenge, FALSE, state) :
     challenge \in {None, v1},
     state \in {Plain, Fragment, And(Nothing), AndChallenge, AndPrompt, AndClientB}}
  \cup {Request(a, ra, v1, TRUE, state) : state \in {Fragment, AndChallenge, AndPrompt}}

AnyRequest == OneEach \cup EveryState

(* A tab of each client and two logins in one process; or one request with  *)
(* any state, a login in each process, and a restart between them.          *)
TwoTabsOrAnyState ==
  \/ asked \subseteq OneEach /\ restarts = 0 /\ clients[b].renders
  \/ /\ asked \subseteq EveryState
     /\ \A r, s \in asked : r = s
     /\ \A s, t \in DOMAIN logged : logged[s].restarts = logged[t].restarts => s = t
     /\ Cardinality({l \in Slots : logins[l] # Idle}) <= 1

Symmetry == Permutations(SessionIds) \cup Permutations(Codes)
              \cup Permutations(Users) \cup Permutations(Slots)
=============================================================================
