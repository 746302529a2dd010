----------------------------- MODULE MCFederation -----------------------------
(* Small instances of Federation for TLC. *)
EXTENDS Federation, TLC

Placeholder(name) == <<"$", "{", name, "}">>

(***************************************************************************)
(* Configuration directories of the upstream, each with one thing that is  *)
(* unusual.                                                                *)
(***************************************************************************)
Rsa(public, bits) == [kty |-> "RSA", crv |-> None, bits |-> bits, public |-> public]
Ec(public, crv) == [kty |-> "EC", crv |-> crv, bits |-> 0, public |-> public]

Keys ==
  "signing-key.pem" :> Rsa("n1", 2048) @@ "next.pem" :> Rsa("n2", 2048)
    @@ "short.pem" :> Rsa("n3", 1024) @@ "long.pem" :> Rsa("n4", 8192)
    @@ "ec.pem" :> Ec("x1", "P-256")
    @@ "curve.pem" :> Ec("x2", "P-384")

Plain ==
  [client_id |-> "plain", client_secret |-> "secret", enabled |-> TRUE,
   signing_algorithm |-> None, audience |-> None, scopes |-> {},
   metadata |-> <<>>, token_ttl_seconds |-> None, redirect_uris |-> {"callback"},
   response_types |-> {"code"}, require_pkce |-> FALSE, consent_mode |-> "always",
   auth_mode |-> "local", re_auth |-> None]

Proxy ==
  [Plain EXCEPT !.client_id = "proxy", !.scopes = {"openid", "email"}]

Directory ==
  [provider |-> [issuer |-> [host |-> "up", slash |-> FALSE],
                 signing_algorithm |-> "RS256", signing_key_paths |-> <<>>,
                 token_ttl_seconds |-> 1],
   clients |-> <<Proxy>>, trusted |-> <<>>, users |-> TRUE,
   template |-> [claims |-> {"iss", "sub", "aud", "iat", "exp", "jti"},
                 strings |-> <<Placeholder("subject")>>],
   keys |-> Keys]

With(algorithm, path) ==
  [Directory EXCEPT !.provider.signing_key_paths = algorithm :> path,
                    !.clients = <<[Proxy EXCEPT !.signing_algorithm = algorithm]>>]

Noted(note, template) ==
  [Directory EXCEPT
     !.clients = <<[Proxy EXCEPT !.metadata = "metadata.note" :> note
                                   @@ "metadata.who" :> String(Placeholder("client_id"))]>>,
     !.template.strings = <<template>>]

Note == Placeholder("metadata.note")

Once(directory) == [before |-> directory, after |-> directory]

OnePlan == {Once(Directory)}

KeyPlans ==
  {Once(With("ES256", "ec.pem")), Once(With("PS256", "next.pem")),
   Once(With("RS256", "next.pem")), Once(With("RS256", "short.pem")),
   Once(With("ES256", "curve.pem")), Once(With("PS256", "short.pem")),
   Once(With("PS256", "long.pem")), Once(With("PS256", "signing-key.pem")), Once(With("ES256", "lost.pem")),
   [before |-> Directory, after |-> With("RS256", "next.pem")],
   [before |-> With("ES256", "ec.pem"), after |-> Directory]}

ClientPlans ==
  {Once([Directory EXCEPT !.clients = <<c, Plain>>]) :
     c \in {[Proxy EXCEPT !.enabled = FALSE], [Proxy EXCEPT !.scopes = {"openid"}],
            [Proxy EXCEPT !.token_ttl_seconds = 0],
            [Proxy EXCEPT !.token_ttl_seconds = 2],
            [Proxy EXCEPT !.token_ttl_seconds = 6],
            [Proxy EXCEPT !.token_ttl_seconds = Word - 1],
            [Proxy EXCEPT !.redirect_uris = {}], [Proxy EXCEPT !.response_types = {}],
            [Proxy EXCEPT !.require_pkce = TRUE], [Proxy EXCEPT !.consent_mode = "skip"],
            [Proxy EXCEPT !.client_secret = "other"],
            [Proxy EXCEPT !.client_id = "plain"]}}

TemplatePlans ==
  {Once(d) : d \in
     {[Directory EXCEPT !.template.claims = {"iss", "sub"}],
      [Directory EXCEPT !.template.strings =
         <<<<"by", "$", "{", "subject", "}", "for", "$", "{", "client_id", "}">>, <<"v1">>>>],
      [Directory EXCEPT !.template.strings = <<Placeholder("audience")>>],
      [Directory EXCEPT !.template.strings =
         <<Placeholder("subject") \o Placeholder("client_id")>>],
      [Directory EXCEPT !.template.strings = <<<<"at", "$", "{", "issued_at">>>>],
      Noted(Structure, Note), Noted(Structure, <<"a">> \o Note),
      Noted(Scalar(<<"7">>), <<"a">> \o Note),
      Noted(String(Placeholder("metadata.who")), Note),
      Noted(String(Placeholder("metadata.who")), <<"a">> \o Note),
      Noted(String(Note), <<"a">> \o Note),
      Noted(String(<<"a">> \o Note), <<"a">> \o Note),
      Noted(String(<<"{", "client_id", "}">>), <<"$">> \o Note),
      Noted(String(<<"5", "$", "6">>), <<"a">> \o Note)}}

Slashed == [host |-> "up", slash |-> TRUE]

SlashPlan == {Once([Directory EXCEPT !.provider.issuer = Slashed])}

(***************************************************************************)
(* Relying servers, of the upstream and of the other provider.             *)
(***************************************************************************)
Trusted(host, algorithms) ==
  [provider_id |-> "partner", issuer |-> host, client_id |-> "proxy",
   client_secret |-> "secret", redirect_uri |-> "callback", require_pkce |-> FALSE,
   allowed_signing_algorithms |-> algorithms]

Relying(trusted, provider_id, scopes) ==
  [Directory EXCEPT
     !.trusted = <<trusted>>,
     !.clients = <<[Plain EXCEPT !.client_id = "app", !.auth_mode = "re_auth",
                                 !.re_auth = [provider_id |-> provider_id,
                                              upstream_scopes |-> scopes]]>>]

(* The upstream asks a provider of its own. *)
ChainPlan ==
  LET relying == Relying(Trusted([host |-> "far", slash |-> FALSE], {"RS256"}),
                         "partner", {"openid"})
  IN  {Once([relying EXCEPT !.clients = <<[Proxy EXCEPT
                                              !.auth_mode = "re_auth", !.consent_mode = "skip",
                                              !.re_auth = relying.clients[1].re_auth]>>])}

UpstreamPlans ==
  OnePlan \cup KeyPlans \cup ClientPlans \cup TemplatePlans \cup SlashPlan \cup ChainPlan

Upstream == [host |-> "up", slash |-> FALSE]

Usual == Relying(Trusted(Upstream, Algorithms), "partner", {"openid", "email"})

UsualParty == [files |-> Usual, skew |-> 0]

UpstreamParties ==
  {[files |-> Usual, skew |-> s] : s \in -2 .. 2}
    \cup {[files |-> f, skew |-> 0] : f \in
            {Relying(Trusted(Upstream, {"ES256"}), "partner", {"openid"}),
             Relying(Trusted(Upstream, Algorithms), "nobody", {"openid"}),
             Relying(Trusted(Upstream, Algorithms), "partner", {"email"}),
             Relying(Trusted(Slashed, Algorithms), "partner", {"openid"}),
             Relying([Trusted(Upstream, Algorithms) EXCEPT !.require_pkce = TRUE],
                     "partner", {"openid"})}}

ForeignParty ==
  [files |-> Relying(Trusted([host |-> "other", slash |-> TRUE], {"RS256", "ES256"}),
                     "partner", {"openid"}),
   skew |-> 0]

AllParties == UpstreamParties \cup {ForeignParty}

(* A directory that is unusual meets the usual relying server, and a        *)
(* relying server that is unusual meets the usual directory.                *)
OneSideUnusual ==
  \/ party = UsualParty
  \/ files = Directory /\ planned = Directory
  \/ party.files = Relying(Trusted(Upstream, {"ES256"}), "partner", {"openid"})
       /\ Once(files) \in KeyPlans /\ planned = files

(* One idle upstream is enough beside the other provider. *)
ForeignAlone == party = ForeignParty => ~Running /\ clock = 0

(***************************************************************************)
(* What the other provider may answer: a good token or one with something   *)
(* wrong, and key sets with one key, or two of the same identifier.         *)
(***************************************************************************)
Token ==
  [alg |-> "RS256", kid |-> "k", public |-> "n9",
   iss |-> [host |-> "other", slash |-> TRUE], sub |-> <<"u">>, aud |-> "proxy",
   iat |-> 0, exp |-> 1, nonce |-> "nonce"]

OtherTokens ==
  {Token, [Token EXCEPT !.alg = "ES256", !.public = "x9"],
   [Token EXCEPT !.alg = "PS256"], [Token EXCEPT !.alg = "HS256"],
   [Token EXCEPT !.kid = None], [Token EXCEPT !.kid = "m"],
   [Token EXCEPT !.public = "n8"], [Token EXCEPT !.iss.slash = FALSE],
   [Token EXCEPT !.iss = Upstream], [Token EXCEPT !.sub = None],
   [Token EXCEPT !.sub = <<>>], [Token EXCEPT !.aud = "plain"],
   [Token EXCEPT !.iat = 1], [Token EXCEPT !.iat = 2], [Token EXCEPT !.iat = None],
   [Token EXCEPT !.exp = -1], [Token EXCEPT !.exp = -2], [Token EXCEPT !.exp = None],
   [Token EXCEPT !.nonce = "earlier"], [Token EXCEPT !.nonce = None]}

RsaJwk ==
  [kty |-> "RSA", crv |-> None, use |-> "sig", key_ops |-> None,
   alg |-> "RS256", kid |-> "k", public |-> "n9"]
EcJwk ==
  [RsaJwk EXCEPT !.kty = "EC", !.crv = "P-256", !.alg = "ES256", !.public = "x9"]

OneJwk ==
  {[k EXCEPT !.use = use, !.key_ops = ops, !.alg = alg] :
     k \in {RsaJwk, EcJwk}, use \in {None, "sig", "enc"},
     ops \in {None, {"verify"}, {"sign"}, {}}, alg \in {None, "RS256", "PS256", "ES256"}}
    \cup {[RsaJwk EXCEPT !.public = None], [RsaJwk EXCEPT !.kid = None],
          [EcJwk EXCEPT !.crv = "P-384"], [EcJwk EXCEPT !.crv = None]}

JwkSets ==
  {<<>>} \cup {<<k>> : k \in OneJwk}
    \cup {<<RsaJwk, EcJwk>>, <<EcJwk, RsaJwk>>, <<[RsaJwk EXCEPT !.use = "enc"], RsaJwk>>,
          <<[RsaJwk EXCEPT !.kid = "m"], RsaJwk>>}

User == {<<"u">>}
=============================================================================
