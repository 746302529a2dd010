---------------------------- MODULE Configuration ----------------------------
(***************************************************************************)
(* What a server reads when it starts: load_from_directory of               *)
(* src/src/config.rs, load_signing_keys and the discovery document of       *)
(* src/src/app.rs, and the key files of src/src/crypto.rs.  An operator's   *)
(* configuration directory is a record; a server that starts keeps a copy,  *)
(* from which everything below is a function.                               *)
(***************************************************************************)
EXTENDS Integers, Sequences, FiniteSets, Functions

CONSTANTS
  None,   \* an optional setting that is absent
  Word    \* u64 holds 0 .. Word - 1

ASSUME WordIsPositive == Word \in Nat \ {0}

U64 == 0 .. Word - 1

(* `n as i64`: the same bits, read as a signed number. *)
AsSigned(n) == IF 2 * n < Word THEN n ELSE n - Word

Algorithms == {"RS256", "PS256", "ES256"}

DefaultKeyPath == "signing-key.pem"

(* An issuer is a host, with or without a slash at its end. *)
Trimmed(issuer) == [issuer EXCEPT !.slash = FALSE]

(* What a directory holds once its files have been read as JSON and PEM.    *)
IsClient(client) ==
  /\ client.signing_algorithm \in {None} \cup Algorithms
  /\ client.token_ttl_seconds \in {None} \cup U64
  /\ client.re_auth # None => client.re_auth.upstream_scopes # None

IsDirectory(files) ==
  /\ files.provider.issuer \in [host : STRING, slash : BOOLEAN]
  /\ files.provider.signing_algorithm \in Algorithms
  /\ files.provider.token_ttl_seconds \in U64
  /\ \A i \in DOMAIN files.clients : IsClient(files.clients[i])
  /\ \A path \in DOMAIN files.keys : files.keys[path].public # None

(* build_clients: the enabled ones. *)
Active(files) == {i \in DOMAIN files.clients : files.clients[i].enabled}

Clients(files) ==
  LET named(id) == CHOOSE i \in Active(files) : files.clients[i].client_id = id
  IN  [id \in {files.clients[i].client_id : i \in Active(files)} |->
         files.clients[named(id)]]

TrustedProviders(files) ==
  LET trusted == files.trusted
      named(id) == CHOOSE i \in DOMAIN trusted : trusted[i].provider_id = id
  IN  [id \in {trusted[i].provider_id : i \in DOMAIN trusted} |-> trusted[named(id)]]

(* Seeded fault: whether the provider is there is not asked. *)
ValidReAuthAnywhere(client, providers) ==
  IF client.auth_mode = "local" THEN client.re_auth = None
  ELSE /\ client.re_auth # None
       /\ "openid" \in client.re_auth.upstream_scopes

(* validate_reauth_clients *)
ValidReAuth(client, providers) ==
  IF client.auth_mode = "local" THEN client.re_auth = None
  ELSE /\ client.re_auth # None
       /\ client.re_auth.provider_id \in providers
       /\ "openid" \in client.re_auth.upstream_scopes

(* load_from_directory.  Settings that only have to be well-formed (colours, *)
(* URLs, JSON schemas) are well-formed; `users` says whether users.json     *)
(* loads, with an enabled user in it.                                       *)
Loads(files) ==
  LET clients == Clients(files)
      trusted == files.trusted
  IN
  /\ IsInjective([i \in Active(files) |-> files.clients[i].client_id])
  /\ Active(files) # {}
  /\ IsInjective([i \in DOMAIN trusted |-> trusted[i].provider_id])
  /\ \A i \in DOMAIN trusted : trusted[i].allowed_signing_algorithms # {}
  /\ \A id \in DOMAIN clients : ValidReAuth(clients[id], DOMAIN TrustedProviders(files))
  /\ files.users

-----------------------------------------------------------------------------
(* load_rsa_key and load_ec_key: the kind of key an algorithm takes.        *)
Suits(key, algorithm) ==
  CASE algorithm = "RS256" -> key.kty = "RSA"
    [] algorithm = "PS256" -> key.kty = "RSA" /\ key.bits >= 2048
    [] algorithm = "ES256" -> key.kty = "EC" /\ key.crv = "P-256"

(* jsonwebtoken signs with ring, which takes RSA keys of these sizes only;  *)
(* an EC key that loads has been taken by ring already.                     *)
CanSign(key) == key.kty = "RSA" => key.bits \in 2048 .. 4096

(* key_path_for *)
KeyPathFor(provider, algorithm) ==
  IF algorithm \in DOMAIN provider.signing_key_paths
  THEN provider.signing_key_paths[algorithm]
  ELSE IF algorithm = provider.signing_algorithm THEN DefaultKeyPath
  ELSE None

(* The algorithm sign_token takes for a client. *)
EffectiveAlgorithm(provider, client) ==
  IF client.signing_algorithm = None
  THEN provider.signing_algorithm
  ELSE client.signing_algorithm

(* Seeded fault: the clients' own algorithms are forgotten. *)
ProvidersAlgorithm(files) == {files.provider.signing_algorithm}

(* The algorithms load_signing_keys collects. *)
SigningAlgorithms(files) ==
  LET clients == Clients(files) IN
  {files.provider.signing_algorithm}
    \cup ({clients[id].signing_algorithm : id \in DOMAIN clients} \ {None})

KeyFor(files, algorithm) == files.keys[KeyPathFor(files.provider, algorithm)]

(* build_kid: a digest of the public key, so one key has one identifier.    *)
Kid(key) == key.public

(* Seeded fault: two algorithms may share a key. *)
SigningKeysLoadShared(files) ==
  \A a \in SigningAlgorithms(files) :
    /\ KeyPathFor(files.provider, a) \in DOMAIN files.keys
    /\ Suits(KeyFor(files, a), a)

(* load_signing_keys: every algorithm has a readable key of its own kind,   *)
(* and no two the same.                                                     *)
SigningKeysLoad(files) ==
  /\ \A a \in SigningAlgorithms(files) :
       /\ KeyPathFor(files.provider, a) \in DOMAIN files.keys
       /\ Suits(KeyFor(files, a), a)
  /\ \A a, b \in SigningAlgorithms(files) :
       Kid(KeyFor(files, a)) = Kid(KeyFor(files, b)) => a = b

(* The jwk of a signing key. *)
Jwk(key, algorithm) ==
  [kty |-> key.kty, crv |-> key.crv, use |-> "sig", key_ops |-> None,
   alg |-> algorithm, kid |-> Kid(key), public |-> key.public]

(* What a started server publishes: jwk_set and the discovery document. *)
JwkSet(files) == {Jwk(KeyFor(files, a), a) : a \in SigningAlgorithms(files)}

Discovery(files) ==
  [issuer |-> Trimmed(files.provider.issuer),
   id_token_signing_alg_values_supported |-> SigningAlgorithms(files)]

(* initialize succeeds. *)
Initializes(files) == Loads(files) /\ SigningKeysLoad(files)
=============================================================================
