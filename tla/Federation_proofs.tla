--------------------------- MODULE Federation_proofs ---------------------------
(***************************************************************************)
(* Proofs about Federation, for any configuration directories, any relying  *)
(* servers and clock differences, any tokens and key sets another provider  *)
(* may come up with, any users and any bounds.                              *)
(***************************************************************************)
EXTENDS Federation, SequenceTheorems, FiniteSetTheorems, WellFoundedInduction, TLAPS

-----------------------------------------------------------------------------
(* Numbers and sets.                                                        *)

(* Every set of natural numbers that is not empty has a least element.      *)
LEMMA LeastNatural ==
  ASSUME NEW S, S \subseteq Nat, S # {}
  PROVE  /\ Min(S) \in S
         /\ \A y \in S : Min(S) <= y
<1> DEFINE R == {ss \in Nat \X Nat : ss[1] < ss[2]}
<1>1. IsWellFoundedOn(R, Nat)
  BY NatLessThanWellFounded DEF OpToRel
<1>2. \A x, y \in Nat : x < y => <<x, y>> \in R
  OBVIOUS
<1> HIDE DEF R
<1>3. \E x \in S : \A y \in S : ~(<<y, x>> \in R)
  BY <1>1, WFMin
<1>4. PICK x \in S : \A y \in S : ~ y < x
  BY <1>2, <1>3
<1>5. \A y \in S : x <= y
  BY <1>4
<1> QED
  BY <1>5 DEF Min

(* The sequence made of a finite set has its elements, each once.           *)
LEMMA SequenceOfSet ==
  ASSUME NEW S, IsFiniteSet(S)
  PROVE  /\ Len(SetToSeq(S)) = Cardinality(S) /\ Cardinality(S) \in Nat
         /\ SetToSeq(S) \in Seq(S)
         /\ DOMAIN SetToSeq(S) = 1 .. Cardinality(S)
         /\ \A x \in S : \E i \in DOMAIN SetToSeq(S) : SetToSeq(S)[i] = x
         /\ \A i \in DOMAIN SetToSeq(S) : SetToSeq(S)[i] \in S
<1> DEFINE n == Cardinality(S)
           D == 1 .. n
           f == SetToSeq(S)
<1>1. n \in Nat /\ ExistsBijection(D, S)
  BY FS_CardinalityType
<1>2. IsFiniteSet(D) /\ Cardinality(D) = n
  BY <1>1, FS_Interval
<1>3. \E g \in [D -> S] : IsInjective(g)
  BY <1>1 DEF ExistsBijection, Bijection, Injection, IsInjective
<1>4. f \in [D -> S] /\ IsInjective(f)
  BY <1>3 DEF SetToSeq
<1>5. f \in Injection(D, S)
  BY <1>4 DEF Injection
<1>6. f \in Surjection(D, S)
  BY <1>2, <1>5, FS_Injection
<1>7. \A x \in S : \E i \in D : f[i] = x
  BY <1>6 DEF Surjection
<1> HIDE DEF f, n
<1>8. f \in Seq(S) /\ Len(f) = n
  BY <1>1, <1>4
<1> QED
  BY <1>1, <1>4, <1>7, <1>8 DEF f, n

-----------------------------------------------------------------------------
(* Texts are sequences of anything.                                         *)
IsText(text) == text \in Seq(Range(text))

LEMMA TextFacts ==
  ASSUME NEW text, IsText(text)
  PROVE  Len(text) \in Nat /\ DOMAIN text = 1 .. Len(text)
BY DEF IsText

LEMMA SequenceIsText ==
  ASSUME NEW T, NEW text \in Seq(T)
  PROVE  IsText(text)
<1>1. text \in [1 .. Len(text) -> Range(text)] /\ Len(text) \in Nat
  BY DEF Range
<1> QED
  BY <1>1 DEF IsText

(* Joining is associative. *)
Associates(T) == \A s, t, u \in Seq(T) : (s \o t) \o u = s \o (t \o u)

LEMMA Associative ==
  ASSUME NEW T
  PROVE  Associates(T)
<1> SUFFICES ASSUME NEW s \in Seq(T), NEW t \in Seq(T), NEW u \in Seq(T)
             PROVE  (s \o t) \o u = s \o (t \o u)
  BY DEF Associates
<1> QED
  BY ConcatAssociative

LEMMA JoinIsText ==
  ASSUME NEW a, NEW b, IsText(a), IsText(b)
  PROVE  /\ IsText(a \o b)
         /\ Len(a \o b) = Len(a) + Len(b)
         /\ \A i \in 1 .. Len(a) + Len(b) :
              (a \o b)[i] = IF i <= Len(a) THEN a[i] ELSE b[i - Len(a)]
<1> DEFINE T == Range(a) \cup Range(b)
<1>1. Range(a) \subseteq T /\ Range(b) \subseteq T
  OBVIOUS
<1> HIDE DEF T
<1>2. a \in Seq(T) /\ b \in Seq(T)
  BY <1>1, SeqMonotonic DEF IsText
<1>3. a \o b \in Seq(T)
  BY <1>2
<1> QED
  BY <1>2, <1>3, SequenceIsText, ConcatProperties

LEMMA PartIsText ==
  ASSUME NEW a, IsText(a), NEW m \in Int, NEW n \in Int, 1 <= m, m <= n + 1, n <= Len(a)
  PROVE  /\ IsText(SubSeq(a, m, n))
         /\ Len(SubSeq(a, m, n)) = n - m + 1
         /\ \A i \in 1 .. n - m + 1 : SubSeq(a, m, n)[i] = a[m + i - 1]
<1> DEFINE T == Range(a)
<1>1. a \in Seq(T)
  BY DEF IsText
<1> HIDE DEF T
<1>2. Len(a) \in Nat /\ DOMAIN a = 1 .. Len(a)
  BY <1>1
<1>3. SubSeq(a, m, n) \in Seq(T)
  BY <1>1, <1>2
<1>4. \A i \in m .. n : a[i] \in T
  BY <1>1, <1>2
<1>5. /\ Len(SubSeq(a, m, n)) = IF m <= n THEN n - m + 1 ELSE 0
      /\ \A i \in 1 .. n - m + 1 : SubSeq(a, m, n)[i] = a[m + i - 1]
  BY <1>4, SubSeqProperties
<1>6. Len(SubSeq(a, m, n)) = n - m + 1
  BY <1>5
<1> QED
  BY <1>3, <1>5, <1>6, SequenceIsText

-----------------------------------------------------------------------------
(* What a directory means to the server that starts from it.                *)

(* A client of the server is one of the enabled clients of the directory.   *)
LEMMA ClientEntries ==
  ASSUME NEW dir, NEW id \in DOMAIN Clients(dir)
  PROVE  \E i \in DOMAIN dir.clients :
           /\ Clients(dir)[id] = dir.clients[i]
           /\ dir.clients[i].client_id = id
<1>1. \E i \in Active(dir) : dir.clients[i].client_id = id
  BY DEF Clients
<1>2. PICK j : /\ j = CHOOSE i \in Active(dir) : dir.clients[i].client_id = id
               /\ j \in Active(dir) /\ dir.clients[j].client_id = id
  BY <1>1
<1>3. Clients(dir)[id] = dir.clients[j]
  BY <1>2 DEF Clients
<1> QED
  BY <1>2, <1>3 DEF Active

LEMMA ClientFacts ==
  ASSUME NEW dir, IsDirectory(dir), NEW id \in DOMAIN Clients(dir)
  PROVE  /\ IsClient(Clients(dir)[id])
         /\ Clients(dir)[id].client_id = id
BY ClientEntries DEF IsDirectory

(* The algorithm of every client is one a key is loaded for. *)
LEMMA EffectiveAlgorithms ==
  ASSUME NEW dir, IsDirectory(dir)
  PROVE  /\ SigningAlgorithms(dir) \subseteq Algorithms
         /\ \A id \in DOMAIN Clients(dir) :
              EffectiveAlgorithm(dir.provider, Clients(dir)[id])
                \in SigningAlgorithms(dir)
<1>1. \A id \in DOMAIN Clients(dir) :
        Clients(dir)[id].signing_algorithm \in {None} \cup Algorithms
  BY ClientFacts DEF IsClient
<1>2. dir.provider.signing_algorithm \in Algorithms
  BY DEF IsDirectory
<1> QED
  BY <1>1, <1>2 DEF SigningAlgorithms, EffectiveAlgorithm

(* The key set of a server that started has one key for each algorithm, of  *)
(* the kind it takes, and an identifier names one key.                      *)
LEMMA PublishedKeys ==
  ASSUME NEW dir, IsDirectory(dir), SigningKeysLoad(dir)
  PROVE  /\ IsFiniteSet(JwkSet(dir))
         /\ \A a \in SigningAlgorithms(dir) :
              /\ Jwk(KeyFor(dir, a), a) \in JwkSet(dir)
              /\ KeyFor(dir, a).public # None
              /\ Suits(KeyFor(dir, a), a)
              /\ \A other \in JwkSet(dir) :
                   other.kid = Kid(KeyFor(dir, a)) => other = Jwk(KeyFor(dir, a), a)
<1> DEFINE A == SigningAlgorithms(dir)
           J == JwkSet(dir)
<1>1. A \subseteq {"RS256", "PS256", "ES256"}
  BY EffectiveAlgorithms DEF Algorithms
<1>2. IsFiniteSet({"RS256", "PS256", "ES256"})
  <2>1. /\ IsFiniteSet({"RS256"})
        /\ IsFiniteSet({"RS256"} \cup {"PS256"})
        /\ IsFiniteSet({"RS256"} \cup {"PS256"} \cup {"ES256"})
    BY FS_Singleton, FS_AddElement
  <2>2. {"RS256"} \cup {"PS256"} \cup {"ES256"} = {"RS256", "PS256", "ES256"}
    OBVIOUS
  <2> QED
    BY <2>1, <2>2
<1>3. IsFiniteSet(A)
  BY <1>1, <1>2, FS_Subset
<1>4. [a \in A |-> Jwk(KeyFor(dir, a), a)] \in Surjection(A, J)
  BY DEF Surjection, JwkSet
<1>5. IsFiniteSet(J)
  BY <1>3, <1>4, FS_Surjection
<1>6. ASSUME NEW a \in A
      PROVE  /\ Jwk(KeyFor(dir, a), a) \in J
             /\ KeyFor(dir, a).public # None
             /\ Suits(KeyFor(dir, a), a)
             /\ \A other \in J :
                  other.kid = Kid(KeyFor(dir, a)) => other = Jwk(KeyFor(dir, a), a)
  <2>1. Jwk(KeyFor(dir, a), a) \in J
    BY DEF JwkSet
  <2>2. KeyPathFor(dir.provider, a) \in DOMAIN dir.keys /\ Suits(KeyFor(dir, a), a)
    BY DEF SigningKeysLoad
  <2>3. KeyFor(dir, a).public # None
    BY <2>2 DEF KeyFor, IsDirectory
  <2>4. ASSUME NEW other \in J, other.kid = Kid(KeyFor(dir, a))
        PROVE  other = Jwk(KeyFor(dir, a), a)
    <3>1. PICK b \in A : other = Jwk(KeyFor(dir, b), b)
      BY DEF JwkSet
    <3>2. Kid(KeyFor(dir, b)) = Kid(KeyFor(dir, a))
      BY <2>4, <3>1 DEF Jwk
    <3>3. b = a
      BY <3>2 DEF SigningKeysLoad
    <3> QED
      BY <3>1, <3>3
  <2> QED
    BY <2>1, <2>2, <2>3, <2>4
<1> QED
  BY <1>5, <1>6

(* A re-auth client of a server that started has its provider, and asks it  *)
(* for an identity.                                                         *)
LEMMA ReAuthClients ==
  ASSUME NEW dir, IsDirectory(dir), Loads(dir), NEW id \in DOMAIN Clients(dir),
         Clients(dir)[id].auth_mode = "re_auth"
  PROVE  /\ Clients(dir)[id].re_auth.provider_id \in DOMAIN TrustedProviders(dir)
         /\ "openid" \in Clients(dir)[id].re_auth.upstream_scopes
         /\ Clients(dir)[id].re_auth.upstream_scopes # None
<1>1. ValidReAuth(Clients(dir)[id], DOMAIN TrustedProviders(dir))
  BY DEF Loads
<1>2. IsClient(Clients(dir)[id])
  BY ClientFacts
<1> QED
  BY <1>1, <1>2 DEF ValidReAuth, IsClient

-----------------------------------------------------------------------------
(* The process.                                                             *)

(* Whatever happens is an edit or a tick of the clock, a start, a stop, or  *)
(* something in a run of the server.                                        *)
Background == UNCHANGED <<server, starts, work, party, request>>

Started ==
  /\ ~Running /\ Initializes(files)
  /\ server' = [running |-> TRUE, files |-> files]
  /\ starts <= MaxRestarts /\ starts' = starts + 1
  /\ UNCHANGED <<clock, files, planned, work, party, request>>

Ended ==
  /\ Running /\ server' = Stopped /\ work' = Idle
  /\ UNCHANGED <<clock, files, planned, starts, party, request>>

Served ==
  \/ (Work \/ SentElsewhere) /\ UNCHANGED request
  \/ /\ Running /\ UNCHANGED request
     /\ \E id \in DOMAIN Clients(server.files) :
          \E scopes \in {None} \cup SUBSET AllScopes : ClientCredentials(id, scopes)
  \/ \E id \in DOMAIN Clients(party.files) : BeginReAuth(id)
  \/ \E subject \in Subjects : SignIn(subject)
  \/ Deny
  \/ Exchange \/ ReceiveTokens \/ TimeOut \/ FetchKeys \/ Answered
  \/ \E token \in ForeignTokens : ReceiveForeign(token)

LEMMA StepKinds ==
  ASSUME [Next]_vars
  PROVE  /\ party' = party
         /\ \/ Background
            \/ Started
            \/ Ended
            \/ Served /\ UNCHANGED <<clock, files, planned, server, starts>>
<1> USE DEF vars, issuerVars
<1>1. CASE UNCHANGED vars
  BY <1>1 DEF Background
<1>2. CASE Serve /\ UNCHANGED <<party, request>>
  <2>1. CASE Tick
    BY <1>2, <2>1 DEF Tick, Background
  <2>2. CASE Edit
    BY <1>2, <2>2 DEF Edit, Background
  <2>3. CASE Start
    BY <1>2, <2>3 DEF Start, Started
  <2>4. CASE Stop
    BY <1>2, <2>4 DEF Stop, Ended
  <2> QED
    BY <1>2, <2>1, <2>2, <2>3, <2>4 DEF Serve
<1>3. CASE (Work \/ SentElsewhere) /\ UNCHANGED <<party, request>>
  BY <1>3 DEF Work, RenderString, ExpandString, Sign, SentElsewhere, Sent, Served
<1>4. ASSUME Running, UNCHANGED <<party, request>>,
             NEW id \in DOMAIN Clients(server.files),
             NEW scopes \in {None} \cup SUBSET AllScopes, ClientCredentials(id, scopes)
      PROVE  Served /\ UNCHANGED <<clock, files, planned, server, starts, party>>
  BY <1>4 DEF ClientCredentials, Served
<1>5. ASSUME NEW id \in DOMAIN Clients(party.files), BeginReAuth(id)
      PROVE  Served /\ UNCHANGED <<clock, files, planned, server, starts, party>>
  BY <1>5 DEF BeginReAuth, Served
<1>6. ASSUME NEW subject \in Subjects, SignIn(subject)
      PROVE  Served /\ UNCHANGED <<clock, files, planned, server, starts, party>>
  BY <1>6 DEF SignIn, Served
<1>7. ASSUME NEW token \in ForeignTokens, ReceiveForeign(token)
      PROVE  Served /\ UNCHANGED <<clock, files, planned, server, starts, party>>
  BY <1>7 DEF ReceiveForeign, Served
<1>8. CASE FetchKeys
  BY <1>8 DEF FetchKeys, Validate, Served
<1>9. CASE Deny \/ Exchange \/ ReceiveTokens \/ TimeOut \/ Answered
  BY <1>9 DEF Deny, Exchange, ReceiveTokens, TimeOut, Answered, Served
<1> QED
  BY <1>1, <1>2, <1>3, <1>4, <1>5, <1>6, <1>7, <1>8, <1>9 DEF Next

(* The process runs from a directory it accepted.                           *)
ProcessOK ==
  /\ clock \in 0 .. MaxTime
  /\ starts \in 0 .. MaxRestarts + 1
  /\ {files, planned} \subseteq Directories
  /\ party \in Parties /\ Initializes(party.files)
  /\ Running => Initializes(server.files)
  /\ ServerOK

LEMMA ProcessStep ==
  ASSUME ProcessOK, [Next]_vars
  PROVE  ProcessOK'
<1> USE DEF ProcessOK, ServerOK, Running, Stopped
<1>1. /\ clock' \in 0 .. MaxTime
      /\ {files', planned'} \subseteq Directories
  <2>1. \/ UNCHANGED <<clock, files, planned>>
        \/ Tick \/ Edit
    BY DEF Next, vars, issuerVars, Serve, Start, Stop, Work, RenderString, ExpandString,
           Sign, SentElsewhere, Sent, ClientCredentials, BeginReAuth, SignIn, Deny,
           Exchange, ReceiveTokens, TimeOut, FetchKeys, Validate, Answered, ReceiveForeign
  <2> QED
    BY <2>1, BoundsAreNatural DEF Tick, Edit
<1>2. CASE Background
  BY <1>1, <1>2 DEF Background
<1>3. CASE Started
  BY <1>1, <1>3, BoundsAreNatural DEF Started
<1>4. CASE Ended
  BY <1>1, <1>4 DEF Ended
<1>5. CASE UNCHANGED <<server, starts, party>>
  BY <1>1, <1>5
<1> QED
  BY <1>2, <1>3, <1>4, <1>5, StepKinds

(* What is known of a running server, and of the relying one.               *)
LEMMA ServerFacts ==
  ASSUME ProcessOK
  PROVE  /\ Running => /\ IsDirectory(server.files)
                       /\ Loads(server.files) /\ SigningKeysLoad(server.files)
                       /\ server.files \in Directories
         /\ IsDirectory(party.files) /\ Loads(party.files)
         /\ party.skew \in Int
  BY PlansAreDirectories, PartiesAreServers DEF ProcessOK, ServerOK, Initializes

-----------------------------------------------------------------------------
(* The token request the server is working on.                              *)
WorkOK ==
  /\ work.phase \in {"idle", "rendering", "failed", "answered"}
  /\ work # Idle =>
       /\ Registered(work.client_id)
       /\ work.scope # None => work.scope \subseteq Client(work.client_id).scopes
  /\ RenderingOK
  /\ AnswerOK

WorkFields == {"phase", "client_id", "subject", "scope", "nonce", "openid",
               "issued_at", "todo", "text", "rendered"}

(* The next text of a rendering is under way, or one is done.               *)
LEMMA TextChanges ==
  ASSUME DOMAIN work = WorkFields, NEW text, work' = [work EXCEPT !.text = text]
  PROVE  /\ DOMAIN work' = WorkFields /\ work'.text = text
         /\ \A f \in WorkFields \ {"text"} : work'[f] = work[f]
BY DEF WorkFields

LEMMA RenderedChanges ==
  ASSUME DOMAIN work = WorkFields, NEW source, NEW value,
         work' = Rendered(source, value)
  PROVE  /\ DOMAIN work' = WorkFields
         /\ work'.text = None /\ work'.todo = Tail(work.todo)
         /\ work'.rendered = Append(work.rendered, [source |-> source, value |-> value])
         /\ \A f \in WorkFields \ {"text", "todo", "rendered"} : work'[f] = work[f]
BY DEF Rendered, WorkFields

(* A sequence of anything, and one more. *)
LEMMA AppendIsText ==
  ASSUME NEW s, NEW x, IsText(s)
  PROVE  /\ IsText(Append(s, x))
         /\ Len(Append(s, x)) = Len(s) + 1
         /\ \A i \in 1 .. Len(s) + 1 : Append(s, x)[i] = IF i <= Len(s) THEN s[i] ELSE x
<1> DEFINE T == Range(s) \cup {x}
<1>1. x \in T /\ Range(s) \subseteq T
  OBVIOUS
<1> HIDE DEF T
<1>2. s \in Seq(T)
  BY <1>1, SeqMonotonic DEF IsText
<1>3. Append(s, x) \in Seq(T)
  BY <1>1, <1>2
<1>4. IsText(Append(s, x))
  BY <1>3, SequenceIsText
<1>5. /\ Len(Append(s, x)) = Len(s) + 1 /\ Len(s) \in Nat
      /\ \A i \in 1 .. Len(s) : Append(s, x)[i] = s[i]
      /\ Append(s, x)[Len(s) + 1] = x
  BY <1>1, <1>2, AppendProperties
<1>6. ASSUME NEW i \in 1 .. Len(s) + 1
      PROVE  Append(s, x)[i] = IF i <= Len(s) THEN s[i] ELSE x
  <2>1. CASE i <= Len(s)
    BY <1>5, <2>1
  <2>2. CASE ~ i <= Len(s)
    <3>1. i = Len(s) + 1
      BY <1>5, <2>2
    <3> QED
      BY <1>5, <2>2, <3>1
  <2> QED
    BY <2>1, <2>2
<1> QED
  BY <1>4, <1>5, <1>6

(* The fields of a token. *)
LEMMA SignedFields ==
  \A algorithm, claims :
    LET t == Signed(algorithm, claims) IN
    /\ t.alg = algorithm
    /\ t.kid = Kid(KeyFor(server.files, algorithm))
    /\ t.public = KeyFor(server.files, algorithm).public
    /\ \A f \in DOMAIN claims : f \notin {"alg", "kid", "public"} => t[f] = claims[f]
BY DEF Signed

(* A request starts to be worked on. *)
LEMMA IssueStep ==
  ASSUME ProcessOK, UNCHANGED server,
         NEW client_id, NEW subject, NEW scope, NEW nonce, NEW openid,
         Registered(client_id), IsText(subject),
         scope # None => IsFiniteSet(scope) /\ scope \subseteq Client(client_id).scopes,
         IssueToken(client_id, subject, scope, nonce, openid)
  PROVE  WorkOK'
<1>1. /\ work'.phase = "rendering" /\ work'.client_id = client_id
      /\ work'.scope = scope /\ work'.subject = subject
      /\ work'.issued_at = clock /\ work'.todo = server.files.template.strings
      /\ work'.text = None /\ work'.rendered = <<>>
      /\ DOMAIN work' = WorkFields
  BY DEF IssueToken, WorkFields
<1>2. Registered(work.client_id)' /\ Client(work.client_id)' = Client(client_id)
  BY <1>1 DEF Registered, Running, Client
<1>3. work'.todo \in Seq(Seq(STRING))
  BY <1>1, ServerFacts, PlansAreDirectories DEF Registered
<1>4. clock \in Nat
  BY BoundsAreNatural DEF ProcessOK
<1>5. RenderingOK'
  BY <1>1, <1>3, <1>4 DEF RenderingOK, WorkFields, IsText
<1>6. AnswerOK'
  BY <1>1 DEF AnswerOK
<1> QED
  BY <1>1, <1>2, <1>5, <1>6 DEF WorkOK

(* A round of the loop leaves a text, if it leaves anything. *)
LEMMA Openings ==
  ASSUME NEW text, IsText(text), Opens(text) # {}
  PROVE  /\ Min(Opens(text)) \in Opens(text)
         /\ \A i \in Opens(text) : Min(Opens(text)) <= i
         /\ Min(Opens(text)) \in 1 .. Len(text) - 1
<1>1. Len(text) \in Nat
  BY TextFacts
<1>2. Opens(text) \subseteq 1 .. Len(text) - 1
  BY DEF Opens
<1>3. Opens(text) \subseteq Nat
  BY <1>1, <1>2
<1> QED
  BY <1>2, <1>3, LeastNatural

LEMMA Closings ==
  ASSUME NEW text, IsText(text), NEW open \in Nat, Closes(text, open) # {}
  PROVE  /\ Min(Closes(text, open)) \in open + 2 .. Len(text)
         /\ text[Min(Closes(text, open))] = "}"
         /\ \A i \in Closes(text, open) : Min(Closes(text, open)) <= i
<1>1. Len(text) \in Nat
  BY TextFacts
<1>2. Closes(text, open) \subseteq open + 2 .. Len(text)
  BY DEF Closes
<1>3. Closes(text, open) \subseteq Nat
  BY <1>1, <1>2
<1>4. Min(Closes(text, open)) \in Closes(text, open)
  BY <1>3, LeastNatural
<1> QED
  BY <1>2, <1>3, <1>4, LeastNatural DEF Closes

AreTexts(bindings) == \A n \in DOMAIN bindings : IsText(bindings[n].text)

LEMMA ExpandedIsText ==
  ASSUME NEW text, NEW bindings, IsText(text), AreTexts(bindings), Opens(text) # {},
         ExpandFirst(text, bindings) # Error
  PROVE  IsText(ExpandFirst(text, bindings).text)
<1> DEFINE open  == Min(Opens(text))
           close == Min(Closes(text, open))
           value == Resolve(SubSeq(text, open + 2, close - 1), bindings)
           a == SubSeq(text, 1, open - 1)
           b == SubSeq(text, close + 1, Len(text))
<1>1. /\ Closes(text, open) # {} /\ value.kind \notin {"error", "structure"}
      /\ ExpandFirst(text, bindings) = String(a \o value.text \o b)
  BY DEF ExpandFirst
<1>2. open \in 1 .. Len(text) - 1 /\ Len(text) \in Nat /\ open \in Nat
  <2>1. open \in 1 .. Len(text) - 1 /\ Len(text) \in Nat
    BY Openings, TextFacts
  <2> QED
    BY <2>1
<1>3. close \in open + 2 .. Len(text)
  BY <1>1, <1>2, Closings
<1>4. IsText(value.text)
  BY <1>1 DEF Resolve, Error, AreTexts
<1> HIDE DEF value
<1>5. IsText(a)
  <2> DEFINE last == open - 1
  <2>1. 1 \in Int /\ last \in Int /\ 1 <= last + 1 /\ last <= Len(text)
    BY <1>2
  <2> HIDE DEF open, last
  <2>2. IsText(SubSeq(text, 1, last))
    BY <2>1, PartIsText
  <2> QED
    BY <2>2 DEF last
<1>6. IsText(b)
  BY <1>2, <1>3, PartIsText
<1> QED
  BY <1>1, <1>4, <1>5, <1>6, JoinIsText DEF String

(* The values a rendering puts into its texts are texts. *)
LEMMA BindingsAreTexts ==
  ASSUME NEW client, NEW subject, NEW scope, IsText(subject), IsText(scope),
         \A n \in DOMAIN client.metadata : IsText(client.metadata[n].text)
  PROVE  AreTexts(Bindings(client, subject, scope))
<1>1. \A x : IsText(<<x>>)
  BY DEF IsText, Range
<1> SUFFICES ASSUME NEW n \in DOMAIN Bindings(client, subject, scope)
             PROVE  IsText(Bindings(client, subject, scope)[n].text)
  BY DEF AreTexts
<1>2. CASE n \in {"client_id", "subject", "audience", "scope", "issued_at", "expires_at",
                  "uuid"}
  BY <1>1, <1>2 DEF Bindings, String, Scalar
<1>3. CASE n \notin {"client_id", "subject", "audience", "scope", "issued_at",
                     "expires_at", "uuid"}
  <2>1. n \in DOMAIN client.metadata
    BY <1>3 DEF Bindings
  <2>2. Bindings(client, subject, scope)[n] = client.metadata[n]
    BY <1>3 DEF Bindings
  <2> QED
    BY <2>1, <2>2
<1> QED
  BY <1>2, <1>3

LEMMA ContextIsTexts ==
  ASSUME ProcessOK, WorkOK, work.phase = "rendering"
  PROVE  AreTexts(Context)
<1>1. Registered(work.client_id)
  BY DEF WorkOK, Idle
<1>2. PICK i \in DOMAIN server.files.clients :
        Client(work.client_id) = server.files.clients[i]
  BY <1>1, ClientEntries DEF Registered, Client
<1>3. server.files \in Directories
  BY <1>1, ServerFacts DEF Registered
<1>4. \A n \in DOMAIN Client(work.client_id).metadata :
        Client(work.client_id).metadata[n].text \in Seq(STRING)
  BY <1>2, <1>3, PlansAreDirectories
<1>5. \A n \in DOMAIN Client(work.client_id).metadata :
        IsText(Client(work.client_id).metadata[n].text)
  BY <1>4, SequenceIsText
<1>6. IsText(work.subject)
  BY DEF WorkOK, RenderingOK, IsText
<1>7. IsText(IF work.scope = None THEN <<>> ELSE SetToSeq(work.scope))
  <2>1. IsText(<<>>)
    BY DEF IsText
  <2>2. work.scope # None => IsText(SetToSeq(work.scope))
    BY SequenceOfSet, SequenceIsText DEF WorkOK, RenderingOK
  <2> QED
    BY <2>1, <2>2
<1> QED
  BY <1>5, <1>6, <1>7, BindingsAreTexts DEF Context

(* A key that start-up took but ring does not sign with. *)
LEMMA UnfitKey ==
  ASSUME NEW key, NEW algorithm \in Algorithms, Suits(key, algorithm), ~CanSign(key)
  PROVE  algorithm = "RS256" \/ (algorithm = "PS256" /\ key.bits >= 2048)
<1>1. CASE algorithm = "PS256"
  BY <1>1 DEF Suits
<1>2. CASE algorithm = "ES256"
  BY <1>2 DEF Suits, CanSign
<1> QED
  BY <1>1, <1>2 DEF Algorithms

(* The step of a rendering. *)
LEMMA RenderingStep ==
  ASSUME ProcessOK, WorkOK, Work, UNCHANGED server
  PROVE  WorkOK'
<1>1. /\ work.phase = "rendering" /\ work # Idle
      /\ DOMAIN work = WorkFields
      /\ Registered(work.client_id)
      /\ work.scope # None => work.scope \subseteq Client(work.client_id).scopes
  BY DEF Work, RenderString, ExpandString, Sign, WorkOK, RenderingOK, WorkFields, Idle
<1>2. \A id : /\ Registered(id)' <=> Registered(id)
              /\ Client(id)' = Client(id)
  BY DEF Registered, Running, Client
<1>3. ASSUME NEW text, text = None \/ (work.todo # <<>> /\ IsText(text)),
             work' = [work EXCEPT !.text = text]
      PROVE  WorkOK'
  <2>1. /\ DOMAIN work' = WorkFields /\ work'.text = text
        /\ \A f \in WorkFields \ {"text"} : work'[f] = work[f]
    BY <1>1, <1>3, TextChanges
  <2>2. /\ work'.phase = "rendering" /\ work'.client_id = work.client_id
        /\ work'.subject = work.subject /\ work'.scope = work.scope
        /\ work'.issued_at = work.issued_at /\ work'.todo = work.todo
        /\ work'.rendered = work.rendered
    BY <1>1, <2>1 DEF WorkFields
  <2>3. RenderingOK'
    BY <1>1, <1>3, <2>1, <2>2 DEF WorkOK, RenderingOK, WorkFields, IsText
  <2>4. Registered(work.client_id)' /\ Client(work.client_id)' = Client(work.client_id)
    BY <1>1, <1>2, <2>2 DEF Registered, Running, Client
  <2> QED
    BY <1>1, <2>2, <2>3, <2>4 DEF WorkOK, AnswerOK
<1>4. ASSUME NEW value, work.todo # <<>>, work' = Rendered(Head(work.todo), value)
      PROVE  WorkOK'
  <2>1. /\ DOMAIN work' = WorkFields
        /\ work'.text = None /\ work'.todo = Tail(work.todo)
        /\ work'.rendered =
             Append(work.rendered, [source |-> Head(work.todo), value |-> value])
        /\ \A f \in WorkFields \ {"text", "todo", "rendered"} : work'[f] = work[f]
    BY <1>1, <1>4, RenderedChanges
  <2>2. /\ work'.phase = "rendering" /\ work'.client_id = work.client_id
        /\ work'.subject = work.subject /\ work'.scope = work.scope
        /\ work'.issued_at = work.issued_at
    BY <1>1, <2>1 DEF WorkFields
  <2>3. work'.todo \in Seq(Seq(STRING))
    <3> DEFINE S == Seq(STRING)
    <3>1. work.todo \in Seq(S)
      BY <1>1 DEF WorkOK, RenderingOK
    <3> HIDE DEF S
    <3>2. Tail(work.todo) \in Seq(S)
      BY <1>4, <3>1, HeadTailProperties
    <3> QED
      BY <2>1, <3>2 DEF S
  <2>4. IsText(work'.rendered)
    BY <1>1, <2>1, AppendIsText DEF WorkOK, RenderingOK, IsText
  <2>5. RenderingOK'
    BY <1>1, <2>1, <2>2, <2>3, <2>4 DEF WorkOK, RenderingOK, WorkFields, IsText
  <2>6. Registered(work.client_id)' /\ Client(work.client_id)' = Client(work.client_id)
    BY <1>1, <1>2, <2>2 DEF Registered, Running, Client
  <2> QED
    BY <1>1, <2>2, <2>5, <2>6 DEF WorkOK, AnswerOK
<1>5. ASSUME NEW reason, reason # "key",
             reason = "sign" => LeftOpen(EffectiveAlgorithm(server.files.provider,
                                                            Client(work.client_id))),
             Fail(reason)
      PROVE  WorkOK'
  <2>1. /\ work'.phase = "failed" /\ work'.client_id = work.client_id
        /\ work'.scope = work.scope /\ work'.reason = reason
    BY <1>5 DEF Fail
  <2>2. Registered(work.client_id)' /\ Client(work.client_id)' = Client(work.client_id)
    BY <1>1, <1>2, <2>1 DEF Registered, Running, Client
  <2>3. EffectiveAlgorithm(server.files.provider, Client(work.client_id))'
          = EffectiveAlgorithm(server.files.provider, Client(work.client_id))
    BY <2>2 DEF EffectiveAlgorithm
  <2>4. AnswerOK'
    BY <1>5, <2>1, <2>3 DEF AnswerOK, LeftOpen
  <2> QED
    BY <1>1, <2>1, <2>2, <2>4 DEF WorkOK, RenderingOK
<1>6. CASE RenderString
  <2>1. work.text = None /\ work.todo # <<>>
    BY <1>6 DEF RenderString
  <2>2. IsText(Head(work.todo))
    <3>1. Head(work.todo) \in Seq(STRING)
      BY <1>1, <2>1, HeadTailProperties DEF WorkOK, RenderingOK
    <3> QED
      BY <3>1, SequenceIsText
  <2>3. \/ work' = [work EXCEPT !.text = Head(work.todo)]
        \/ Fail("template")
        \/ work' = Rendered(Head(work.todo), Whole(Head(work.todo), Context))
    BY <1>6 DEF RenderString
  <2> QED
    BY <1>3, <1>4, <1>5, <2>1, <2>2, <2>3
<1>7. CASE ExpandString
  <2>1. /\ work.text # None /\ work.todo # <<>> /\ IsText(work.text)
    BY <1>1, <1>7 DEF ExpandString, WorkOK, RenderingOK, IsText
  <2>2. CASE Opens(work.text) = {}
    BY <1>4, <1>7, <2>1, <2>2 DEF ExpandString
  <2>3. CASE Opens(work.text) # {} /\ ExpandFirst(work.text, Context) # Error
    <3>1. work' = [work EXCEPT !.text = ExpandFirst(work.text, Context).text]
      BY <1>7, <2>3 DEF ExpandString
    <3>2. IsText(ExpandFirst(work.text, Context).text)
      BY <1>1, <2>1, <2>3, ContextIsTexts, ExpandedIsText
    <3> QED
      BY <1>3, <2>1, <3>1, <3>2
  <2>4. CASE Opens(work.text) # {} /\ ExpandFirst(work.text, Context) = Error
    BY <1>5, <1>7, <2>4 DEF ExpandString
  <2> QED
    BY <2>2, <2>3, <2>4
<1>8. CASE Sign
  <2> DEFINE client    == Client(work.client_id)
             algorithm == EffectiveAlgorithm(server.files.provider, client)
             expires   == work.issued_at + Lifetime(client)
  <2>1. algorithm \in SigningAlgorithms(server.files) /\ client.client_id = work.client_id
    BY <1>1, ServerFacts, EffectiveAlgorithms, ClientFacts DEF Registered, Client
  <2>2. CASE Fail("template")
    BY <1>5, <2>2
  <2>3. CASE Fail("sign") /\ ~CanSign(KeyFor(server.files, algorithm))
    <3>1. /\ Suits(KeyFor(server.files, algorithm), algorithm)
          /\ algorithm \in Algorithms
      BY <1>1, <2>1, ServerFacts, EffectiveAlgorithms, PublishedKeys DEF Registered
    <3>2. LeftOpen(algorithm)
      BY <2>3, <3>1, UnfitKey DEF LeftOpen
    <3> QED
      BY <1>5, <2>3, <3>2
  <2>4. CASE ~ Fail("template") /\ CanSign(KeyFor(server.files, algorithm))
    <3> DEFINE claims == [iss |-> server.files.provider.issuer,
                          sub |-> work.subject, aud |-> client.client_id,
                          iat |-> work.issued_at, exp |-> expires,
                          nonce |-> work.nonce]
    <3>1. work' = [phase |-> "answered", client_id |-> work.client_id,
                   scope |-> work.scope, openid |-> work.openid,
                   access_token |-> Signed(algorithm, [exp |-> expires]),
                   id_token |-> IF ~work.openid THEN None
                                ELSE Signed(algorithm, claims)]
      BY <1>8, <2>1, <2>4 DEF Sign
    <3> HIDE DEF client, algorithm, expires
    <3>2. /\ work'.phase = "answered" /\ work'.client_id = work.client_id
          /\ work'.scope = work.scope /\ work'.openid = work.openid
          /\ work'.access_token = Signed(algorithm, [exp |-> expires])
          /\ work.openid => work'.id_token = Signed(algorithm, claims)
      BY <3>1
    <3>3. Registered(work.client_id)' /\ Client(work.client_id)' = client
      BY <1>1, <1>2, <3>2 DEF Registered, Running, Client, client
    <3>4. /\ Lifetime(Client(work.client_id))' = Lifetime(client)
          /\ EffectiveAlgorithm(server.files.provider, Client(work.client_id))' = algorithm
      BY <1>1, <3>3 DEF Lifetime, Ttl, algorithm, client, EffectiveAlgorithm
    <3>5. Made(work.access_token, work.client_id)'
      BY <2>1, <3>2, <3>4, SignedFields DEF Made
    <3>6. ASSUME work.openid PROVE MadeIdToken(work.id_token, work.client_id)'
      <4>1. /\ DOMAIN claims = {"iss", "sub", "aud", "iat", "exp", "nonce"}
            /\ claims.iss = server.files.provider.issuer /\ claims.aud = work.client_id
            /\ claims.iat = work.issued_at /\ claims.exp = expires
        BY <2>1 DEF client
      <4> HIDE DEF claims
      <4>2. LET t == work'.id_token IN
            /\ t.alg = algorithm
            /\ t.kid = Kid(KeyFor(server.files, algorithm))
            /\ t.public = KeyFor(server.files, algorithm).public
            /\ t.iss = claims.iss /\ t.aud = claims.aud
            /\ t.iat = claims.iat /\ t.exp = claims.exp
        BY <3>2, <3>6, <4>1, SignedFields
      <4>3. work.issued_at \in Nat
        BY <1>1 DEF WorkOK, RenderingOK
      <4>4. Made(work.id_token, work.client_id)'
        BY <2>1, <3>2, <3>4, <4>2 DEF Made
      <4>5. /\ work'.id_token.iss = server'.files.provider.issuer
            /\ work'.id_token.aud = work'.client_id
        BY <3>2, <4>1, <4>2
      <4>6. /\ work'.id_token.iat \in Nat
            /\ work'.id_token.exp = work'.id_token.iat + Lifetime(Client(work.client_id))'
        BY <3>3, <3>4, <4>1, <4>2, <4>3 DEF expires
      <4> QED
        BY <4>4, <4>5, <4>6 DEF MadeIdToken
    <3>7. AnswerOK'
      BY <3>2, <3>5, <3>6 DEF AnswerOK
    <3> QED
      BY <1>1, <3>2, <3>3, <3>7 DEF WorkOK, RenderingOK, client
  <2> QED
    BY <1>8, <2>1, <2>2, <2>3, <2>4 DEF Sign
<1> QED
  BY <1>6, <1>7, <1>8 DEF Work

LEMMA RegisteredClients ==
  ASSUME ProcessOK, NEW id, Registered(id)
  PROVE  /\ IsFiniteSet(Client(id).scopes)
         /\ Client(id).client_id = id
<1>1. PICK i \in DOMAIN server.files.clients :
        Client(id) = server.files.clients[i] /\ server.files.clients[i].client_id = id
  BY ClientEntries DEF Registered, Client
<1>2. server.files \in Directories
  BY ServerFacts DEF Registered
<1> QED
  BY <1>1, <1>2, PlansAreDirectories

(* The re-auth client of a request. *)
LEMMA RequestFacts ==
  ASSUME ProcessOK, RequestOK, request # Idle,
         request.client_id \in DOMAIN Clients(party.files)
  PROVE  /\ ReAuth(request.client_id).provider_id \in DOMAIN Providers
         /\ "openid" \in ReAuth(request.client_id).upstream_scopes
         /\ ReAuth(request.client_id).upstream_scopes # None
  BY ServerFacts, ReAuthClients DEF RequestOK, ReAuth, Providers

(* A request is worked on with scopes its client has. *)
LEMMA ExchangeIssues ==
  ASSUME ProcessOK, WorkOK, RequestOK, CodeOK, Exchange, UNCHANGED server,
         request.client_id \in DOMAIN Clients(party.files)
  PROVE  WorkOK' \/ UNCHANGED work
<1> DEFINE id == Provider.client_id
<1>1. request # Idle /\ request.phase = "returned"
  BY DEF Exchange, Idle
<1>2. CASE IssueToken(id, request.code.subject, request.code.scope,
                      request.nonce, "openid" \in request.code.scope)
           /\ Running /\ request.code.starts = starts
  <2>1. Registered(id) /\ ScopesAllowed(Client(id), request.code.scope)
    BY <1>1, <1>2 DEF CodeOK
  <2>2. request.code.scope # None
    BY <1>1, RequestFacts DEF CodeOK
  <2>3. request.code.scope \subseteq Client(id).scopes
    BY <2>1, <2>2 DEF ScopesAllowed
  <2>4. IsFiniteSet(request.code.scope)
    BY <2>1, <2>3, RegisteredClients, FS_Subset
  <2>5. IsText(request.code.subject)
    BY <1>1, SubjectsAreTexts, SequenceIsText DEF CodeOK
  <2> HIDE DEF id
  <2> QED
    BY <1>2, <2>1, <2>3, <2>4, <2>5, IssueStep
<1> QED
  BY <1>2 DEF Exchange

LEMMA CredentialsIssue ==
  ASSUME ProcessOK, WorkOK, UNCHANGED server, NEW id, NEW requested,
         ClientCredentials(id, requested)
  PROVE  WorkOK'
<1> DEFINE scope == GrantedScopes(Client(id), requested)
<1>1. Registered(id) /\ ScopesAllowed(Client(id), requested)
  BY DEF ClientCredentials
<1>2. scope # None => scope \subseteq Client(id).scopes
  BY <1>1 DEF GrantedScopes, ScopesAllowed
<1>3. scope # None => IsFiniteSet(scope)
  BY <1>1, <1>2, RegisteredClients, FS_Subset
<1>4. IsText(<<id>>)
  BY DEF IsText, Range
<1>5. IssueToken(id, <<id>>, scope, None, FALSE)
  BY DEF ClientCredentials
<1> HIDE DEF scope
<1> QED
  BY <1>1, <1>2, <1>3, <1>4, <1>5, IssueStep

LEMMA KeptWork ==
  ASSUME WorkOK, UNCHANGED <<server, work>>
  PROVE  WorkOK'
BY DEF WorkOK, Registered, Running, Client, RenderingOK, AnswerOK, LeftOpen, Made,
       MadeIdToken, Lifetime, Ttl

LEMMA IdleWork ==
  ASSUME work' = Idle
  PROVE  WorkOK'
BY DEF WorkOK, RenderingOK, AnswerOK, Idle

(* The work of the server stays in order. *)
LEMMA WorkStep ==
  ASSUME ProcessOK, WorkOK, RequestOK, CodeOK, [Next]_vars,
         request # Idle => request.client_id \in DOMAIN Clients(party.files)
  PROVE  WorkOK'
<1>1. CASE Background
  BY <1>1, KeptWork DEF Background
<1>2. CASE Started
  <2>1. work = Idle
    BY <1>2 DEF Started, WorkOK, Registered
  <2> QED
    BY <1>2, <2>1, IdleWork DEF Started
<1>3. CASE Ended
  BY <1>3, IdleWork DEF Ended
<1>4. CASE Served /\ UNCHANGED <<clock, files, planned, server, starts>>
  <2>1. CASE Work
    BY <1>4, <2>1, RenderingStep
  <2>2. CASE SentElsewhere \/ ReceiveTokens
    BY <2>2, IdleWork DEF SentElsewhere, Sent, ReceiveTokens
  <2>3. ASSUME NEW id, NEW scopes, ClientCredentials(id, scopes)
        PROVE  WorkOK'
    BY <1>4, <2>3, CredentialsIssue
  <2>4. CASE Exchange
    <3>1. request # Idle
      BY <2>4 DEF Exchange, Idle
    <3> QED
      BY <1>4, <2>4, <3>1, ExchangeIssues, KeptWork
  <2>5. CASE UNCHANGED work
    BY <1>4, <2>5, KeptWork
  <2> QED
    BY <1>4, <2>1, <2>2, <2>3, <2>4, <2>5
    DEF Served, BeginReAuth, SignIn, Deny, TimeOut, FetchKeys, Validate, Answered,
        ReceiveForeign, issuerVars
<1> QED
  BY <1>1, <1>2, <1>3, <1>4, StepKinds

-----------------------------------------------------------------------------
(* The re-authentication request.                                           *)
AskedOK ==
  /\ request.phase \in
       {"idle", "away", "returned", "exchanging", "validating", "identified", "refused"}
  /\ request # Idle => request.client_id \in DOMAIN Clients(party.files)
  /\ request.phase = "identified" => request.id_token.sub # None
  /\ RequestOK /\ CodeOK

LEMMA NotIdle == request.phase # "idle" => request # Idle
BY DEF Idle

(* What holds of the client holds for every phase of its request.           *)
LEMMA SameClient ==
  ASSUME UNCHANGED party, request'.client_id = request.client_id
  PROVE  /\ Provider' = Provider /\ AtUpstream' = AtUpstream
         /\ ReAuth(request.client_id)' = ReAuth(request.client_id)
         /\ Clients(party.files)' = Clients(party.files)
BY DEF Provider, AtUpstream, ReAuth, Providers

(* A request that waits while the upstream starts or stops. *)
LEMMA KeptRequest ==
  ASSUME ProcessOK, AskedOK, UNCHANGED <<party, request>>,
         Background \/ Started \/ Ended \/ UNCHANGED <<server, starts>>
  PROVE  AskedOK'
<1>1. /\ starts' \in Nat /\ starts \in Nat /\ starts <= starts'
      /\ starts' = starts /\ Running' => server' = server
  BY BoundsAreNatural DEF ProcessOK, Background, Started, Ended, Running, Stopped
<1>2. /\ Provider' = Provider /\ AtUpstream' = AtUpstream
      /\ ReAuth(request.client_id)' = ReAuth(request.client_id)
      /\ Clients(party.files)' = Clients(party.files)
  BY SameClient
<1>3. RequestOK'
  BY <1>1, <1>2 DEF AskedOK, RequestOK
<1>4. CodeOK'
  <2> SUFFICES ASSUME request.phase \in {"returned", "exchanging"}
               PROVE  CodeOK'
    BY DEF CodeOK
  <2>1. /\ request.starts \in Nat /\ request.code.starts \in Nat
        /\ request.code.starts <= starts /\ request.starts <= request.code.starts
    BY <1>1, NotIdle DEF AskedOK, RequestOK, CodeOK
  <2>2. request.code.starts = starts' /\ Running' => starts' = starts /\ server' = server
    BY <1>1, <2>1
  <2>3. request.code.starts = starts' /\ Running' =>
          /\ Registered(Provider.client_id)'
          /\ ScopesAllowed(Client(Provider.client_id), request.code.scope)'
    BY <1>2, <2>2 DEF AskedOK, CodeOK, Registered, Running, Client, ScopesAllowed
  <2> QED
    BY <1>1, <1>2, <2>1, <2>3 DEF AskedOK, CodeOK
<1> QED
  BY <1>2, <1>3, <1>4 DEF AskedOK

LEMMA RefusedRequest ==
  ASSUME AskedOK, UNCHANGED <<party, starts>>, request # Idle, NEW why, Refuse(why)
  PROVE  AskedOK'
<1>1. /\ request'.phase = "refused" /\ request'.client_id = request.client_id
      /\ request'.starts = request.starts
  BY DEF Refuse
<1> QED
  BY <1>1, SameClient DEF AskedOK, RequestOK, CodeOK

LEMMA RequestStep ==
  ASSUME ProcessOK, AskedOK, [Next]_vars
  PROVE  AskedOK'
<1>p. UNCHANGED party
  BY StepKinds
<1>n. starts \in Nat
  BY BoundsAreNatural DEF ProcessOK
<1>c. clock + CodeTtl \in Nat
  BY BoundsAreNatural, PartiesAreServers DEF ProcessOK
<1>1. CASE Background \/ Started \/ Ended
  BY <1>1, <1>p, KeptRequest DEF Background, Started, Ended
<1>2. CASE Served /\ UNCHANGED <<clock, files, planned, server, starts>>
  <2>1. CASE UNCHANGED request
    BY <1>2, <1>p, <2>1, KeptRequest
  <2>2. ASSUME NEW id \in DOMAIN Clients(party.files), BeginReAuth(id)
        PROVE  AskedOK'
    <3> DEFINE provider == Providers[ReAuth(id).provider_id]
    <3>1. Clients(party.files)[id].auth_mode = "re_auth"
      BY <2>2 DEF BeginReAuth
    <3>2. CASE request' = [phase |-> "away", client_id |-> id,
                           issuer |-> provider.issuer, nonce |-> "nonce",
                           starts |-> starts]
      <4>1. /\ request'.phase = "away" /\ request'.client_id = id
            /\ request'.starts = starts /\ request'.issuer = provider.issuer
        BY <3>2
      <4>2. Provider'.issuer = provider.issuer
        BY <1>p, <4>1 DEF Provider, Providers, ReAuth
      <4>3. RequestOK'
        BY <1>2, <1>n, <1>p, <3>1, <4>1, <4>2 DEF RequestOK
      <4> QED
        BY <1>p, <4>1, <4>3 DEF AskedOK, CodeOK
    <3>3. ASSUME NEW why, Refused(id, why)
          PROVE  AskedOK'
      <4>1. /\ request'.phase = "refused" /\ request'.client_id = id
            /\ request'.starts = starts
        BY <3>3 DEF Refused
      <4> QED
        BY <1>2, <1>n, <1>p, <3>1, <4>1 DEF AskedOK, RequestOK, CodeOK
    <3> QED
      BY <2>2, <3>2, <3>3 DEF BeginReAuth
  <2>3. ASSUME NEW subject \in Subjects, SignIn(subject)
        PROVE  AskedOK'
    <3> DEFINE scopes == ReAuth(request.client_id).upstream_scopes
               code   == [subject |-> subject, scope |-> scopes,
                          client_id |-> Provider.client_id,
                          redirect_uri |-> Provider.redirect_uri,
                          challenged |-> Provider.require_pkce,
                          expires_at |-> clock + CodeTtl, starts |-> starts]
    <3>1. request.phase = "away" /\ AtUpstream /\ Running /\ request # Idle
      BY <2>3, NotIdle DEF SignIn, AwayAtUpstream
    <3>2. CASE Redirects /\ Authorizes
      <4>0. /\ Registered(Provider.client_id)
            /\ ScopesAllowed(Client(Provider.client_id), scopes)
        BY <3>2 DEF Redirects, Authorizes
      <4>1. request' = [phase |-> "returned", client_id |-> request.client_id,
                        issuer |-> request.issuer, nonce |-> request.nonce,
                        starts |-> request.starts, code |-> code]
        BY <2>3, <3>2 DEF SignIn
      <4> HIDE DEF code
      <4>2. /\ request'.phase = "returned" /\ request'.client_id = request.client_id
            /\ request'.issuer = request.issuer /\ request'.starts = request.starts
            /\ request'.code = code
            /\ DOMAIN request' = {"phase", "client_id", "issuer", "nonce", "starts", "code"}
        BY <4>1
      <4>3. /\ code.subject = subject /\ code.scope = scopes /\ code.starts = starts
            /\ code.redirect_uri = Provider.redirect_uri
            /\ code.challenged = Provider.require_pkce
            /\ code.expires_at \in Nat
        BY <1>c DEF code
      <4>4. /\ Provider' = Provider /\ AtUpstream' = AtUpstream
            /\ ReAuth(request.client_id)' = ReAuth(request.client_id)
            /\ Clients(party.files)' = Clients(party.files)
        BY <1>p, <4>2, SameClient
      <4>5. RequestOK'
        BY <1>2, <1>n, <3>1, <4>2, <4>4 DEF AskedOK, RequestOK
      <4>6. /\ Registered(Provider.client_id)'
            /\ ScopesAllowed(Client(Provider.client_id), request.code.scope)'
        BY <1>2, <4>0, <4>2, <4>3, <4>4 DEF Registered, Running, Client, ScopesAllowed
      <4>7. request.starts \in 0 .. starts
        BY <3>1 DEF AskedOK, RequestOK
      <4>8. CodeOK'
        BY <1>2, <1>n, <3>1, <4>2, <4>3, <4>4, <4>6, <4>7 DEF CodeOK
      <4> QED
        BY <3>1, <4>2, <4>4, <4>5, <4>8 DEF AskedOK
    <3>3. CASE Refuse("stranded") \/ Refuse("access")
      BY <1>2, <1>p, <3>1, <3>3, RefusedRequest
    <3> QED
      BY <2>3, <3>2, <3>3 DEF SignIn
  <2>4. CASE Exchange
    <3>1. request.phase = "returned" /\ request # Idle
      BY <2>4, NotIdle DEF Exchange
    <3>2. CASE request' = [request EXCEPT !.phase = "exchanging"]
      <4>1. DOMAIN request = {"phase", "client_id", "issuer", "nonce", "starts", "code"}
        BY <3>1 DEF AskedOK, CodeOK
      <4>2. /\ request'.phase = "exchanging" /\ request'.client_id = request.client_id
            /\ request'.issuer = request.issuer /\ request'.starts = request.starts
            /\ request'.code = request.code /\ DOMAIN request' = DOMAIN request
        BY <3>2, <4>1
      <4>3. /\ Provider' = Provider /\ AtUpstream' = AtUpstream
            /\ ReAuth(request.client_id)' = ReAuth(request.client_id)
            /\ Clients(party.files)' = Clients(party.files)
        BY <1>p, <4>2, SameClient
      <4>4. RequestOK'
        BY <1>2, <3>1, <4>2, <4>3 DEF AskedOK, RequestOK
      <4>5. CodeOK'
        BY <1>2, <3>1, <4>1, <4>2, <4>3
        DEF AskedOK, CodeOK, Registered, Running, Client, ScopesAllowed
      <4> QED
        BY <3>1, <4>2, <4>3, <4>4, <4>5 DEF AskedOK
    <3>3. CASE Refuse("exchange")
      BY <1>2, <1>p, <3>1, <3>3, RefusedRequest
    <3> QED
      BY <2>4, <3>2, <3>3 DEF Exchange
  <2>5. CASE Deny \/ ReceiveTokens \/ TimeOut
    <3>1. request.phase \in {"away", "exchanging", "validating"} /\ request # Idle
      BY <2>5, NotIdle DEF Deny, AwayAtUpstream, ReceiveTokens, TimeOut, Waiting
    <3>2. CASE Refuse("denied") \/ Refuse("exchange") \/ Refuse("timeout")
      BY <1>2, <1>p, <3>1, <3>2, RefusedRequest
    <3>3. CASE request' = [phase |-> "validating", client_id |-> request.client_id,
                           issuer |-> request.issuer, nonce |-> request.nonce,
                           starts |-> request.starts, id_token |-> work.id_token,
                           subject |-> request.code.subject]
               /\ request.phase = "exchanging"
      <4>1. /\ request'.phase = "validating" /\ request'.client_id = request.client_id
            /\ request'.issuer = request.issuer /\ request'.starts = request.starts
        BY <3>3
      <4> QED
        BY <1>2, <1>p, <3>1, <4>1, SameClient DEF AskedOK, RequestOK, CodeOK
    <3> QED
      BY <2>5, <3>2, <3>3 DEF Deny, ReceiveTokens, TimeOut, Waiting
  <2>6. ASSUME NEW token, ReceiveForeign(token)
        PROVE  AskedOK'
    <3>1. request.phase = "away" /\ request # Idle
      BY <2>6, NotIdle DEF ReceiveForeign
    <3>2. /\ request'.phase = "validating" /\ request'.client_id = request.client_id
          /\ request'.issuer = request.issuer /\ request'.starts = request.starts
      BY <2>6 DEF ReceiveForeign
    <3> QED
      BY <1>2, <1>p, <3>1, <3>2, SameClient DEF AskedOK, RequestOK, CodeOK
  <2>7. ASSUME NEW jwks, Validate(jwks)
        PROVE  AskedOK'
    <3>1. request.phase = "validating" /\ request # Idle
      BY <2>7, NotIdle DEF Validate
    <3>2. CASE Refuse("token")
      BY <1>2, <1>p, <3>1, <3>2, RefusedRequest
    <3>3. CASE ~ Refuse("token")
      <4>1. /\ ValidIdToken(request.id_token, jwks)
            /\ request'.phase = "identified" /\ request'.client_id = request.client_id
            /\ request'.starts = request.starts /\ request'.id_token = request.id_token
        BY <2>7, <3>3 DEF Validate
      <4>2. request.id_token.sub # None
        BY <4>1 DEF ValidIdToken
      <4> QED
        BY <1>2, <1>p, <3>1, <4>1, <4>2, SameClient DEF AskedOK, RequestOK, CodeOK
    <3> QED
      BY <3>2, <3>3
  <2>8. CASE FetchKeys
    <3>1. request.phase = "validating" /\ request # Idle
      BY <2>8, NotIdle DEF FetchKeys
    <3> QED
      BY <1>2, <1>p, <2>7, <2>8, <3>1, RefusedRequest DEF FetchKeys
  <2>9. CASE Answered
    <3>1. request' = Idle /\ request'.phase = "idle"
      BY <2>9 DEF Answered, Idle
    <3> QED
      BY <3>1 DEF AskedOK, RequestOK, CodeOK
  <2> QED
    BY <1>2, <2>1, <2>2, <2>3, <2>4, <2>5, <2>6, <2>7, <2>8, <2>9
    DEF Served
<1> QED
  BY <1>1, <1>2, StepKinds

-----------------------------------------------------------------------------
(* What the worker does next, and what it leaves alone.                     *)
SameRequest ==
  /\ work'.phase = "rendering" /\ work'.client_id = work.client_id
  /\ work'.subject = work.subject /\ work'.scope = work.scope
  /\ work'.nonce = work.nonce /\ work'.openid = work.openid

(* The next string is taken up. *)
TakesText ==
  /\ SameRequest /\ work.text = None /\ work.todo # <<>>
  /\ ~IsPlaceholder(Head(work.todo))
  /\ work'.text = Head(work.todo) /\ work'.todo = work.todo
  /\ work'.rendered = work.rendered

(* A placeholder of the string gives way to its value. *)
Expands1 ==
  /\ SameRequest /\ work.text # None /\ Opens(work.text) # {}
  /\ ExpandFirst(work.text, Context) # Error
  /\ work'.text = ExpandFirst(work.text, Context).text /\ work'.todo = work.todo
  /\ work'.rendered = work.rendered

(* A string is done: a placeholder as a whole, or one without any.          *)
Finishes(value) ==
  /\ SameRequest /\ work.todo # <<>>
  /\ \/ /\ work.text = None /\ IsPlaceholder(Head(work.todo))
        /\ value = Whole(Head(work.todo), Context) /\ value # Error
     \/ /\ work.text # None /\ Opens(work.text) = {}
        /\ value = String(work.text)
  /\ work'.text = None /\ work'.todo = Tail(work.todo)
  /\ work'.rendered = Append(work.rendered, [source |-> Head(work.todo), value |-> value])

Fails ==
  /\ work'.phase = "failed" /\ work'.client_id = work.client_id
  /\ \/ /\ work.text = None /\ work.todo # <<>>
        /\ IsPlaceholder(Head(work.todo)) /\ Whole(Head(work.todo), Context) = Error
     \/ /\ work.text # None /\ Opens(work.text) # {}
        /\ ExpandFirst(work.text, Context) = Error
     \/ ~HasRequiredClaims(server.files.template.claims)
     \/ ~CanSign(KeyFor(server.files, EffectiveAlgorithm(server.files.provider,
                                                         Client(work.client_id))))

Answers ==
  /\ work'.phase = "answered" /\ work'.client_id = work.client_id
  /\ work'.openid = work.openid
  /\ work.openid => /\ work'.id_token.sub = work.subject
                    /\ work'.id_token.nonce = work.nonce

LEMMA WorkOutcomes ==
  ASSUME ProcessOK, WorkOK, Work
  PROVE  /\ work.phase = "rendering"
         /\ TakesText \/ Expands1 \/ (\E value : Finishes(value)) \/ Fails \/ Answers
<1>1. /\ work.phase = "rendering" /\ work # Idle
      /\ DOMAIN work = WorkFields
      /\ Registered(work.client_id)
  BY DEF Work, RenderString, ExpandString, Sign, WorkOK, RenderingOK, WorkFields, Idle
<1>2. ASSUME NEW text, work' = [work EXCEPT !.text = text]
      PROVE  /\ SameRequest
             /\ work'.text = text /\ work'.todo = work.todo /\ work'.rendered = work.rendered
  <2>1. /\ work'.text = text
        /\ \A f \in WorkFields \ {"text"} : work'[f] = work[f]
    BY <1>1, <1>2, TextChanges
  <2> QED
    BY <1>1, <2>1 DEF WorkFields, SameRequest
<1>3. ASSUME NEW value, work' = Rendered(Head(work.todo), value)
      PROVE  /\ SameRequest
             /\ work'.text = None /\ work'.todo = Tail(work.todo)
             /\ work'.rendered =
                  Append(work.rendered, [source |-> Head(work.todo), value |-> value])
  <2>1. /\ work'.text = None /\ work'.todo = Tail(work.todo)
        /\ work'.rendered =
             Append(work.rendered, [source |-> Head(work.todo), value |-> value])
        /\ \A f \in WorkFields \ {"text", "todo", "rendered"} : work'[f] = work[f]
    BY <1>1, <1>3, RenderedChanges
  <2> QED
    BY <1>1, <2>1 DEF WorkFields, SameRequest
<1>4. ASSUME NEW reason, Fail(reason)
      PROVE  work'.phase = "failed" /\ work'.client_id = work.client_id
  BY <1>4 DEF Fail
<1>5. CASE RenderString
  <2> DEFINE text  == Head(work.todo)
             value == Whole(text, Context)
  <2>1. work.text = None /\ work.todo # <<>>
    BY <1>5 DEF RenderString
  <2>2. CASE ~IsPlaceholder(text)
    <3>1. work' = [work EXCEPT !.text = text]
      BY <1>5, <2>2 DEF RenderString
    <3>2. TakesText
      BY <1>2, <2>1, <2>2, <3>1 DEF TakesText
    <3> QED
      BY <1>1, <3>2
  <2>3. CASE IsPlaceholder(text) /\ value = Error
    <3>1. Fail("template")
      BY <1>5, <2>3 DEF RenderString
    <3> QED
      BY <1>1, <1>4, <2>1, <2>3, <3>1 DEF Fails
  <2>4. CASE IsPlaceholder(text) /\ value # Error
    <3>1. work' = Rendered(text, value)
      BY <1>5, <2>4 DEF RenderString
    <3>2. Finishes(value)
      BY <1>3, <2>1, <2>4, <3>1 DEF Finishes
    <3> QED
      BY <1>1, <3>2
  <2> QED
    BY <2>2, <2>3, <2>4
<1>6. CASE ExpandString
  <2>1. work.text # None /\ work.todo # <<>>
    BY <1>1, <1>6 DEF ExpandString, WorkOK, RenderingOK
  <2>2. CASE Opens(work.text) = {}
    <3>1. work' = Rendered(Head(work.todo), String(work.text))
      BY <1>6, <2>2 DEF ExpandString
    <3>2. Finishes(String(work.text))
      BY <1>3, <2>1, <2>2, <3>1 DEF Finishes
    <3> QED
      BY <1>1, <3>2
  <2>3. CASE Opens(work.text) # {} /\ ExpandFirst(work.text, Context) = Error
    <3>1. Fail("template")
      BY <1>6, <2>3 DEF ExpandString
    <3> QED
      BY <1>1, <1>4, <2>1, <2>3, <3>1 DEF Fails
  <2>4. CASE Opens(work.text) # {} /\ ExpandFirst(work.text, Context) # Error
    <3>1. work' = [work EXCEPT !.text = ExpandFirst(work.text, Context).text]
      BY <1>6, <2>4 DEF ExpandString
    <3>2. Expands1
      BY <1>2, <2>1, <2>4, <3>1 DEF Expands1
    <3> QED
      BY <1>1, <3>2
  <2> QED
    BY <2>2, <2>3, <2>4
<1>7. CASE Sign
  <2> DEFINE client    == Client(work.client_id)
             algorithm == EffectiveAlgorithm(server.files.provider, client)
             expires   == work.issued_at + Lifetime(client)
             claims    == [iss |-> server.files.provider.issuer,
                           sub |-> work.subject, aud |-> client.client_id,
                           iat |-> work.issued_at, exp |-> expires,
                           nonce |-> work.nonce]
  <2>1. algorithm \in SigningAlgorithms(server.files)
    BY <1>1, ServerFacts, EffectiveAlgorithms DEF Registered, Client
  <2>2. CASE ~HasRequiredClaims(server.files.template.claims)
    <3>1. Fail("template")
      BY <1>7, <2>2 DEF Sign
    <3> QED
      BY <1>1, <1>4, <2>2, <3>1 DEF Fails
  <2>3. CASE /\ HasRequiredClaims(server.files.template.claims)
             /\ ~CanSign(KeyFor(server.files, algorithm))
    <3>1. Fail("sign")
      BY <1>7, <2>1, <2>3 DEF Sign
    <3> QED
      BY <1>1, <1>4, <2>3, <3>1 DEF Fails
  <2>4. CASE /\ HasRequiredClaims(server.files.template.claims)
             /\ CanSign(KeyFor(server.files, algorithm))
    <3>1. work' = [phase |-> "answered", client_id |-> work.client_id,
                   scope |-> work.scope, openid |-> work.openid,
                   access_token |-> Signed(algorithm, [exp |-> expires]),
                   id_token |-> IF ~work.openid THEN None
                                ELSE Signed(algorithm, claims)]
      BY <1>7, <2>1, <2>4 DEF Sign
    <3>2. /\ DOMAIN claims = {"iss", "sub", "aud", "iat", "exp", "nonce"}
          /\ claims.sub = work.subject /\ claims.nonce = work.nonce
      OBVIOUS
    <3> HIDE DEF client, algorithm, expires, claims
    <3>3. /\ work'.phase = "answered" /\ work'.client_id = work.client_id
          /\ work'.openid = work.openid
          /\ work.openid => work'.id_token = Signed(algorithm, claims)
      BY <3>1
    <3>4. work.openid => /\ work'.id_token.sub = work.subject
                         /\ work'.id_token.nonce = work.nonce
      BY <3>2, <3>3, SignedFields
    <3> QED
      BY <1>1, <3>3, <3>4 DEF Answers
  <2> QED
    BY <2>2, <2>3, <2>4
<1> QED
  BY <1>5, <1>6, <1>7 DEF Work

-----------------------------------------------------------------------------
(* The work belongs to the request that waits for it.                       *)
LEMMA OwnWorkStep ==
  ASSUME ProcessOK, WorkOK, AskedOK, OwnWork, [Next]_vars
  PROVE  OwnWork'
<1>p. UNCHANGED party
  BY StepKinds
<1>1. CASE Background
  BY <1>1, <1>p, SameClient DEF Background, OwnWork, Waiting, Running
<1>2. CASE Started
  <2>1. request.phase = "exchanging" => request.code.starts # starts'
    BY <1>2, BoundsAreNatural, NotIdle DEF Started, AskedOK, CodeOK, RequestOK, ProcessOK
  <2> QED
    BY <1>2, <2>1 DEF Started, OwnWork, Waiting
<1>3. CASE Ended
  BY <1>3 DEF Ended, OwnWork, Running, Stopped
<1>4. CASE Served /\ UNCHANGED <<clock, files, planned, server, starts>>
  <2>1. CASE Work /\ UNCHANGED request
    <3> SUFFICES ASSUME Waiting, Running PROVE OwnWork'
      BY <1>4, <2>1 DEF OwnWork, Waiting, Running
    <3>1. work.client_id = Provider.client_id /\ Provider' = Provider
      BY <1>p, <2>1, SameClient DEF OwnWork
    <3>2. /\ work.phase = "rendering"
          /\ work.subject = request.code.subject /\ work.scope = request.code.scope
          /\ work.nonce = request.nonce /\ work.openid
      BY <2>1, WorkOutcomes DEF OwnWork
    <3>3. CASE SameRequest
      BY <2>1, <3>1, <3>2, <3>3 DEF SameRequest, OwnWork, Idle
    <3>4. CASE Fails
      BY <2>1, <3>1, <3>4 DEF Fails, OwnWork, Idle
    <3>5. CASE Answers
      BY <2>1, <3>1, <3>2, <3>5 DEF Answers, OwnWork, Idle
    <3> QED
      BY <2>1, <3>3, <3>4, <3>5, WorkOutcomes DEF TakesText, Expands1, Finishes
  <2>2. CASE SentElsewhere /\ UNCHANGED request
    BY <1>4, <2>2 DEF SentElsewhere, OwnWork, Waiting
  <2>3. ASSUME NEW id, NEW scopes, ClientCredentials(id, scopes), UNCHANGED request
        PROVE  OwnWork'
    <3>1. work = Idle
      BY <2>3 DEF ClientCredentials, IssueToken
    <3> QED
      BY <1>4, <2>3, <3>1 DEF OwnWork, Waiting, Running
  <2>4. CASE Exchange
    <3>1. request.phase = "returned" /\ request # Idle
      BY <2>4, NotIdle DEF Exchange
    <3>2. CASE /\ IssueToken(Provider.client_id, request.code.subject, request.code.scope,
                             request.nonce, "openid" \in request.code.scope)
               /\ request' = [request EXCEPT !.phase = "exchanging"]
      <4>1. DOMAIN request = {"phase", "client_id", "issuer", "nonce", "starts", "code"}
        BY <3>1 DEF AskedOK, CodeOK
      <4>2. /\ request'.client_id = request.client_id
            /\ request'.code = request.code /\ request'.nonce = request.nonce
        BY <3>2, <4>1
      <4>3. Provider' = Provider
        BY <1>p, <4>2, SameClient
      <4>4. "openid" \in request.code.scope
        BY <3>1, RequestFacts DEF AskedOK, CodeOK
      <4>5. /\ work'.phase = "rendering" /\ work'.client_id = Provider.client_id
            /\ work'.subject = request.code.subject /\ work'.scope = request.code.scope
            /\ work'.nonce = request.nonce
            /\ work'.openid = ("openid" \in request.code.scope)
        BY <3>2 DEF IssueToken
      <4>6. work'.openid
        <5>1. ("openid" \in request.code.scope) = TRUE
          BY <4>4
        <5> QED
          BY <4>5, <5>1
      <4>7. work' # Idle
        BY <4>5 DEF Idle
      <4>8. /\ work'.phase = "rendering" /\ work'.client_id = Provider'.client_id
            /\ work'.subject = request'.code.subject /\ work'.scope = request'.code.scope
            /\ work'.nonce = request'.nonce
        BY <4>2, <4>3, <4>5
      <4>9. ~(work'.phase = "answered")
        BY <4>8
      <4> QED
        BY <4>6, <4>7, <4>8, <4>9 DEF OwnWork
    <3>3. CASE Refuse("exchange")
      BY <3>3 DEF Refuse, OwnWork, Waiting
    <3> QED
      BY <2>4, <3>2, <3>3 DEF Exchange
  <2>5. CASE request'.phase # "exchanging"
    BY <2>5 DEF OwnWork, Waiting
  <2>6. ASSUME NEW id \in DOMAIN Clients(party.files), BeginReAuth(id)
        PROVE  request'.phase # "exchanging"
    BY <2>6 DEF BeginReAuth, Refused
  <2>7. ASSUME NEW subject, SignIn(subject)
        PROVE  request'.phase # "exchanging"
    BY <2>7 DEF SignIn, Refuse
  <2>8. CASE Deny \/ ReceiveTokens \/ TimeOut \/ FetchKeys \/ Answered
    BY <2>5, <2>8 DEF Deny, ReceiveTokens, TimeOut, FetchKeys, Validate, Answered, Refuse, Idle
  <2>9. ASSUME NEW token, ReceiveForeign(token)
        PROVE  request'.phase # "exchanging"
    BY <2>9 DEF ReceiveForeign
  <2> QED
    BY <1>4, <2>1, <2>2, <2>3, <2>4, <2>5, <2>6, <2>7, <2>8, <2>9 DEF Served
<1> QED
  BY <1>1, <1>2, <1>3, <1>4, StepKinds

(* The token that is validated comes from whoever signed in, and from this  *)
(* run of the upstream if it was not restarted.                             *)
LEMMA ValidatingStep ==
  ASSUME ProcessOK, WorkOK, AskedOK, OwnWork, ValidatingOK, [Next]_vars
  PROVE  ValidatingOK'
<1>p. UNCHANGED party
  BY StepKinds
<1>n. starts \in Nat
  BY BoundsAreNatural DEF ProcessOK
<1>1. ASSUME UNCHANGED request, Background \/ Started \/ Ended \/ UNCHANGED <<server, starts>>
      PROVE  ValidatingOK'
  <2>1. Provider' = Provider /\ AtUpstream' = AtUpstream
    BY <1>1, <1>p, SameClient
  <2>2. request.phase = "validating" /\ request.starts = starts' /\ Running' =>
          server' = server /\ starts' = starts
    BY <1>1, <1>n, NotIdle
    DEF Background, Started, Ended, AskedOK, RequestOK, Running, Stopped
  <2> QED
    BY <1>1, <2>1, <2>2
    DEF ValidatingOK, Registered, Running, Client, MadeIdToken, Made, Lifetime, Ttl
<1>2. CASE Served /\ UNCHANGED <<clock, files, planned, server, starts>>
  <2>1. CASE ReceiveTokens /\ request'.phase = "validating"
    <3>1. /\ Waiting /\ request.phase = "exchanging"
          /\ work.phase = "answered" /\ work.openid
          /\ request'.client_id = request.client_id /\ request'.nonce = request.nonce
          /\ request'.starts = request.starts /\ request'.id_token = work.id_token
          /\ request'.subject = request.code.subject
      BY <2>1 DEF ReceiveTokens, Refuse, Waiting
    <3>2. Registered(work.client_id) /\ Running
      BY <3>1 DEF WorkOK, Registered, Idle
    <3>3. /\ work.client_id = Provider.client_id
          /\ work.id_token.sub = request.code.subject
          /\ work.id_token.nonce = request.nonce
      BY <3>1, <3>2 DEF OwnWork
    <3>4. request.code.subject \in Subjects
      BY <3>1 DEF AskedOK, CodeOK
    <3>5. MadeIdToken(work.id_token, Provider.client_id)
      BY <3>1, <3>3 DEF WorkOK, AnswerOK
    <3>6. Provider' = Provider
      BY <1>p, <3>1, SameClient
    <3>7. /\ Registered(Provider.client_id)'
          /\ MadeIdToken(request.id_token, Provider.client_id)'
      BY <1>2, <3>1, <3>2, <3>3, <3>5, <3>6
      DEF Registered, Running, Client, MadeIdToken, Made, Lifetime, Ttl
    <3> QED
      BY <3>1, <3>3, <3>4, <3>7 DEF ValidatingOK
  <2>2. ASSUME NEW token, ReceiveForeign(token)
        PROVE  ValidatingOK'
    <3>1. /\ ~AtUpstream /\ request'.client_id = request.client_id
          /\ request'.id_token = token /\ request'.subject = token.sub
      BY <2>2 DEF ReceiveForeign
    <3> QED
      BY <1>p, <3>1, SameClient DEF ValidatingOK
  <2>3. CASE UNCHANGED request
    BY <1>1, <1>2, <2>3
  <2>4. CASE request'.phase # "validating"
    BY <2>4 DEF ValidatingOK
  <2>5. ASSUME NEW id \in DOMAIN Clients(party.files), BeginReAuth(id)
        PROVE  request'.phase # "validating"
    BY <2>5 DEF BeginReAuth, Refused
  <2>6. ASSUME NEW subject, SignIn(subject)
        PROVE  request'.phase # "validating"
    BY <2>6 DEF SignIn, Refuse
  <2>7. CASE Exchange
    <3>1. DOMAIN request = {"phase", "client_id", "issuer", "nonce", "starts", "code"}
      BY <2>7 DEF Exchange, AskedOK, CodeOK
    <3> QED
      BY <2>4, <2>7, <3>1 DEF Exchange, Refuse
  <2>8. CASE Deny \/ TimeOut \/ FetchKeys \/ Answered
    BY <2>4, <2>8 DEF Deny, TimeOut, FetchKeys, Validate, Answered, Refuse, Idle
  <2> QED
    BY <1>2, <2>1, <2>2, <2>3, <2>4, <2>5, <2>6, <2>7, <2>8 DEF Served
<1> QED
  BY <1>1, <1>2, StepKinds DEF Background, Started, Ended

-----------------------------------------------------------------------------
(* The invariant so far: the process, its work, the request, and the work   *)
(* done for it.                                                             *)
Core == ProcessOK /\ WorkOK /\ AskedOK /\ OwnWork /\ ValidatingOK

LEMMA CoreInit ==
  ASSUME Init
  PROVE  Core
<1>1. request = Idle /\ request.phase = "idle" /\ work = Idle /\ work.phase = "idle"
  BY DEF Init, IssuerInit, Idle
<1>2. ProcessOK
  <2>1. files \in Directories /\ planned \in Directories
    BY DEF Init, IssuerInit, Directories
  <2>2. server = Stopped /\ ~server.running
    BY DEF Init, IssuerInit, Stopped
  <2> QED
    BY <2>1, <2>2, BoundsAreNatural DEF Init, IssuerInit, ProcessOK, ServerOK, Running
<1> QED
  BY <1>1, <1>2
  DEF Core, WorkOK, RenderingOK, AnswerOK, AskedOK, RequestOK, CodeOK, OwnWork, Waiting,
      ValidatingOK

LEMMA CoreStep ==
  ASSUME Core, [Next]_vars
  PROVE  Core'
<1>1. request # Idle => request.client_id \in DOMAIN Clients(party.files)
  BY DEF Core, AskedOK
<1>2. WorkOK'
  BY <1>1, WorkStep DEF Core, AskedOK
<1> QED
  BY <1>2, ProcessStep, RequestStep, OwnWorkStep, ValidatingStep DEF Core

LEMMA CoreInvariant == Spec => []Core
<1>1. Init => Core
  BY CoreInit
<1>2. Core /\ [Next]_vars => Core'
  BY CoreStep
<1> QED
  BY <1>1, <1>2, PTL DEF Spec

(* The type invariant holds: the clock and the starts keep their bounds, a  *)
(* running server was started from files it accepts, a token request is of  *)
(* a registered client and for its scopes, and a request for an identity is *)
(* of a client of the relying server.                                       *)
THEOREM TypeCorrect == Spec => []TypeOK
<1>1. Core => TypeOK
  BY DEF Core, ProcessOK, WorkOK, AskedOK, TypeOK, IssuerTypeOK
<1> QED
  BY <1>1, CoreInvariant, PTL

(* What is signed can be checked with the keys that are published.          *)
LEMMA MadeVerifies ==
  ASSUME ProcessOK, Running, NEW token, NEW client_id, Made(token, client_id)
  PROVE  /\ token.alg \in Discovery(server.files).id_token_signing_alg_values_supported
         /\ \E k \in JwkSet(server.files) :
              /\ k.public = token.public /\ k.alg = token.alg
              /\ \A other \in JwkSet(server.files) : other.kid = token.kid => other = k
<1> DEFINE a == token.alg
           k == Jwk(KeyFor(server.files, a), a)
<1>1. /\ a \in SigningAlgorithms(server.files)
      /\ token.kid = Kid(KeyFor(server.files, a))
      /\ token.public = KeyFor(server.files, a).public
  BY DEF Made
<1>2. /\ k \in JwkSet(server.files)
      /\ \A other \in JwkSet(server.files) :
           other.kid = Kid(KeyFor(server.files, a)) => other = k
  BY <1>1, ServerFacts, PublishedKeys
<1>3. k.public = KeyFor(server.files, a).public /\ k.alg = a
  BY DEF Jwk
<1> HIDE DEF k
<1> QED
  BY <1>1, <1>2, <1>3 DEF Discovery

(* Whatever algorithms and key files the operator combines, the tokens that *)
(* leave the server are verified by exactly one of the keys it publishes    *)
(* (sign_token and load_signing_keys agree).                                *)
THEOREM Verifiable == Spec => []TokensVerify
<1>1. ASSUME Core PROVE TokensVerify
  <2> SUFFICES ASSUME work.phase = "answered" PROVE TokensVerify
    BY DEF TokensVerify
  <2>1. Running /\ ProcessOK
    BY <1>1 DEF Core, WorkOK, Registered, Idle
  <2>2. /\ Made(work.access_token, work.client_id)
        /\ work.openid => Made(work.id_token, work.client_id)
    BY <1>1 DEF Core, WorkOK, AnswerOK, MadeIdToken
  <2> QED
    BY <2>1, <2>2, MadeVerifies DEF TokensVerify
<1> QED
  BY <1>1, CoreInvariant, PTL

(* No request fails because a key or a provider is missing: start-up would  *)
(* have refused (load_signing_keys, validate_reauth_clients); and none      *)
(* because an ES256 key, or a short one for PS256, does not sign.           *)
THEOREM Sufficient == Spec => []StartupSuffices
<1>1. Init => StartupSuffices
  BY DEF Init, IssuerInit, StartupSuffices, Idle
<1>2. ASSUME Core, StartupSuffices, [Next]_vars, Core'
      PROVE  StartupSuffices'
  <2>1. (work.phase = "failed" =>
           /\ work.reason # "key"
           /\ work.reason = "sign" =>
                LeftOpen(EffectiveAlgorithm(server.files.provider, Client(work.client_id))))'
    BY <1>2 DEF Core, WorkOK, AnswerOK
  <2>2. UNCHANGED request => StartupSuffices'
    BY <1>2, <2>1 DEF StartupSuffices
  <2>3. ASSUME NEW id \in DOMAIN Clients(party.files), BeginReAuth(id)
        PROVE  ~(request'.phase = "refused" /\ request'.why = "server_error")
    <3>1. ReAuth(id).provider_id \in DOMAIN Providers
      BY <1>2, <2>3, ServerFacts, ReAuthClients DEF Core, BeginReAuth, ReAuth, Providers
    <3> QED
      BY <2>3, <3>1 DEF BeginReAuth, Refused
  <2>4. \A why : Refuse(why) => request'.phase = "refused" /\ request'.why = why
    BY DEF Refuse
  <2>5. ASSUME Exchange
        PROVE  ~(request'.phase = "refused" /\ request'.why = "server_error")
    <3>1. DOMAIN request = {"phase", "client_id", "issuer", "nonce", "starts", "code"}
      BY <1>2, <2>5 DEF Exchange, Core, AskedOK, CodeOK
    <3> QED
      BY <2>4, <2>5, <3>1 DEF Exchange
  <2>6. \/ UNCHANGED request
        \/ ~(request'.phase = "refused" /\ request'.why = "server_error")
    BY <1>2, <2>3, <2>4, <2>5, StepKinds
    DEF Background, Started, Ended, Served, SignIn, Deny, ReceiveTokens, TimeOut, FetchKeys,
        Validate, Answered, ReceiveForeign, Idle
  <2> QED
    BY <2>1, <2>2, <2>6 DEF StartupSuffices
<1>3. Core /\ StartupSuffices /\ [Next]_vars /\ Core' => StartupSuffices'
  BY <1>2
<1> QED
  BY <1>1, <1>3, CoreInvariant, PTL DEF Spec

-----------------------------------------------------------------------------
(* Only a token that passes validation makes an identity.                   *)
LEMMA ValidTokens ==
  ASSUME ProcessOK, NEW token, NEW jwks, ValidIdToken(token, jwks),
         Len(jwks) \in Nat /\ DOMAIN jwks = 1 .. Len(jwks)
  PROVE  /\ \E i \in DOMAIN jwks :
              LET k == jwks[i] IN
              /\ k.public = token.public
              /\ k.kty = (IF token.alg = "ES256" THEN "EC" ELSE "RSA")
              /\ k.alg = None \/ k.alg = token.alg
              /\ k.use # "enc" /\ k.key_ops \notin {{}, {"sign"}}
         /\ token.exp + Leeway >= Now
<1> DEFINE named == {i \in DOMAIN jwks : jwks[i].kid = token.kid}
           k == jwks[Min(named)]
<1>1. /\ named # {} /\ IsVerificationKey(k, token.alg) /\ Verifies(k, token)
      /\ InTime(token, Now)
  BY DEF ValidIdToken
<1>2. Min(named) \in named
  <2>1. named \subseteq Nat
    OBVIOUS
  <2> HIDE DEF named
  <2> QED
    BY <1>1, <2>1, LeastNatural
<1>3. Min(named) \in DOMAIN jwks
  BY <1>2
<1>4. k.public = token.public /\ k.kty = (IF token.alg = "ES256" THEN "EC" ELSE "RSA")
  BY <1>1 DEF IsVerificationKey, Verifies
<1>5. k.alg = None \/ k.alg = token.alg
  BY <1>1 DEF IsVerificationKey
<1>6. k.use # "enc"
  BY <1>1, NoneIsNoValue DEF IsVerificationKey
<1>7. k.key_ops \notin {{}, {"sign"}}
  BY <1>1, NoneIsNoValue DEF IsVerificationKey
<1>8. token.exp + Leeway >= Now
  BY <1>1 DEF InTime
<1> HIDE DEF k
<1> QED
  BY <1>3, <1>4, <1>5, <1>6, <1>7, <1>8 DEF k

(* An identity the relying server accepts is that of the user who signed in *)
(* for the request, in a token that a published signing key verifies and    *)
(* that had not expired (validate_id_token, whatever the provider answers). *)
THEOREM Genuine == Spec => []AcceptedIsGenuine
<1>1. Init => AcceptedIsGenuine
  BY DEF Init, AcceptedIsGenuine, Idle
<1>2. ASSUME Core, AcceptedIsGenuine, [Next]_vars
      PROVE  AcceptedIsGenuine'
  <2>1. CASE UNCHANGED request
    BY <1>2, <2>1 DEF AcceptedIsGenuine
  <2>2. CASE request'.phase # "identified"
    BY <2>2 DEF AcceptedIsGenuine
  <2>3. ASSUME NEW jwks, Validate(jwks), Len(jwks) \in Nat /\ DOMAIN jwks = 1 .. Len(jwks)
        PROVE  AcceptedIsGenuine'
    <3>1. CASE Refuse("token")
      BY <2>2, <3>1 DEF Refuse
    <3>2. CASE ~Refuse("token")
      <4>1. /\ ValidIdToken(request.id_token, jwks) /\ request.phase = "validating"
            /\ request'.id_token = request.id_token /\ request'.jwks = jwks
            /\ request'.subject = request.subject /\ request'.at = Now
        BY <2>3, <3>2 DEF Validate
      <4>2. request.id_token.sub = request.subject
        BY <1>2, <4>1 DEF Core, ValidatingOK
      <4>3. ProcessOK
        BY <1>2 DEF Core
      <4>4. /\ \E i \in DOMAIN jwks :
                 LET k == jwks[i] IN
                 /\ k.public = request.id_token.public
                 /\ k.kty = (IF request.id_token.alg = "ES256" THEN "EC" ELSE "RSA")
                 /\ k.alg = None \/ k.alg = request.id_token.alg
                 /\ k.use # "enc" /\ k.key_ops \notin {{}, {"sign"}}
            /\ request.id_token.exp + Leeway >= Now
        BY <2>3, <4>1, <4>3, ValidTokens
      <4> QED
        BY <4>1, <4>2, <4>4 DEF AcceptedIsGenuine
    <3> QED
      BY <3>1, <3>2
  <2>4. CASE FetchKeys
    <3>1. ASSUME Running, Validate(SetToSeq(JwkSet(server.files)))
          PROVE  AcceptedIsGenuine'
      <4>1. IsFiniteSet(JwkSet(server.files))
        BY <1>2, <3>1, ServerFacts, PublishedKeys DEF Core
      <4> DEFINE jwks == SetToSeq(JwkSet(server.files))
      <4>2. Len(jwks) \in Nat /\ DOMAIN jwks = 1 .. Len(jwks)
        BY <4>1, SequenceOfSet
      <4> QED
        BY <2>3, <3>1, <4>2
    <3>2. CASE Refuse("keys")
      BY <2>2, <3>2 DEF Refuse
    <3>3. ASSUME NEW jwks \in ForeignJwks, Validate(jwks)
          PROVE  AcceptedIsGenuine'
      BY <2>3, <3>3, JwksAreLists
    <3> QED
      BY <2>4, <3>1, <3>2, <3>3 DEF FetchKeys
  <2>5. CASE Exchange
    <3>1. DOMAIN request = {"phase", "client_id", "issuer", "nonce", "starts", "code"}
      BY <1>2, <2>5 DEF Exchange, Core, AskedOK, CodeOK
    <3> QED
      BY <2>2, <2>5, <3>1 DEF Exchange, Refuse
  <2>6. \A id, why : Refused(id, why) \/ Refuse(why) => request'.phase # "identified"
    BY DEF Refuse, Refused
  <2>7. /\ \A id : BeginReAuth(id) => request'.phase # "identified"
        /\ \A subject : SignIn(subject) => request'.phase # "identified"
        /\ \A token : ReceiveForeign(token) => request'.phase # "identified"
    BY <2>6 DEF BeginReAuth, SignIn, ReceiveForeign
  <2>8. Deny \/ ReceiveTokens \/ TimeOut \/ Answered => request'.phase # "identified"
    BY <2>6 DEF Deny, ReceiveTokens, TimeOut, Answered, Idle
  <2>9. FetchKeys \/ Exchange \/ UNCHANGED request \/ request'.phase # "identified"
    BY <1>2, <2>7, <2>8, StepKinds DEF Background, Started, Ended, Served
  <2> QED
    BY <2>1, <2>2, <2>4, <2>5, <2>9
<1>3. Core /\ AcceptedIsGenuine /\ [Next]_vars => AcceptedIsGenuine'
  BY <1>2
<1> QED
  BY <1>1, <1>3, CoreInvariant, PTL DEF Spec

-----------------------------------------------------------------------------
(* What a round of the loop over a text leaves.                             *)

(* A placeholder, four symbols from the given one on, gives way to a value. *)
Replaced(text, open, value) ==
  SubSeq(text, 1, open - 1) \o value \o SubSeq(text, open + 4, Len(text))

LEMMA ReplacedText ==
  ASSUME NEW text, IsText(text), NEW value, IsText(value),
         NEW open \in 1 .. Len(text) - 3
  PROVE  /\ IsText(Replaced(text, open, value))
         /\ Len(Replaced(text, open, value)) = Len(text) - 4 + Len(value)
         /\ \A i \in 1 .. Len(text) - 4 + Len(value) :
              Replaced(text, open, value)[i] =
                IF i < open THEN text[i]
                ELSE IF i < open + Len(value) THEN value[i - open + 1]
                ELSE text[i - Len(value) + 4]
<1> DEFINE n == Len(text)
           m == Len(value)
           a == SubSeq(text, 1, open - 1)
           b == SubSeq(text, open + 4, n)
           c == a \o value
<1>1. n \in Nat /\ m \in Nat /\ open \in Nat /\ 1 <= open /\ open + 3 <= n
  <2>1. Len(text) \in Nat /\ Len(value) \in Nat
    BY TextFacts
  <2> QED
    BY <2>1
<1> HIDE DEF n, m
<1>2. /\ IsText(a) /\ Len(a) = open - 1
      /\ \A i \in 1 .. open - 1 : a[i] = text[i]
  <2>1. /\ open - 1 \in Int /\ 1 <= (open - 1) + 1 /\ open - 1 <= Len(text) /\ 1 \in Int
    BY <1>1 DEF n
  <2>2. /\ IsText(a) /\ Len(a) = (open - 1) - 1 + 1
        /\ \A i \in 1 .. (open - 1) - 1 + 1 : a[i] = text[1 + i - 1]
    BY <2>1, PartIsText
  <2>3. (open - 1) - 1 + 1 = open - 1 /\ \A i \in 1 .. open - 1 : 1 + i - 1 = i
    BY <1>1
  <2> HIDE DEF a
  <2> QED
    BY <2>2, <2>3
<1>3. /\ IsText(b) /\ Len(b) = n - open - 3
      /\ \A i \in 1 .. n - open - 3 : b[i] = text[open + 3 + i]
  <2>1. open + 4 \in Int /\ 1 <= open + 4 /\ open + 4 <= n + 1 /\ n \in Int /\ n <= Len(text)
    BY <1>1 DEF n
  <2>2. /\ IsText(b) /\ Len(b) = n - (open + 4) + 1
        /\ \A i \in 1 .. n - (open + 4) + 1 : b[i] = text[(open + 4) + i - 1]
    BY <2>1, PartIsText
  <2>3. /\ n - (open + 4) + 1 = n - open - 3
        /\ \A i \in 1 .. n - open - 3 : (open + 4) + i - 1 = open + 3 + i
    BY <1>1
  <2> HIDE DEF b
  <2> QED
    BY <2>2, <2>3
<1> HIDE DEF a, b
<1>4. /\ IsText(c) /\ Len(c) = open - 1 + m
      /\ \A i \in 1 .. open - 1 + m :
           c[i] = IF i <= open - 1 THEN a[i] ELSE value[i - (open - 1)]
  BY <1>2, JoinIsText DEF m
<1> HIDE DEF c
<1>5. /\ IsText(c \o b) /\ Len(c \o b) = (open - 1 + m) + (n - open - 3)
      /\ \A i \in 1 .. (open - 1 + m) + (n - open - 3) :
           (c \o b)[i] = IF i <= open - 1 + m THEN c[i] ELSE b[i - (open - 1 + m)]
  <2>1. /\ IsText(c \o b) /\ Len(c \o b) = Len(c) + Len(b)
        /\ \A i \in 1 .. Len(c) + Len(b) :
             (c \o b)[i] = IF i <= Len(c) THEN c[i] ELSE b[i - Len(c)]
    BY <1>3, <1>4, JoinIsText
  <2>2. Len(c) = open - 1 + m /\ Len(b) = n - open - 3
    BY <1>3, <1>4
  <2> QED
    BY <2>1, <2>2
<1>6. Replaced(text, open, value) = c \o b
  BY DEF Replaced, a, b, c, n
<1>7. (open - 1 + m) + (n - open - 3) = n - 4 + m
  BY <1>1
<1>8. ASSUME NEW i \in 1 .. n - 4 + m
      PROVE  (c \o b)[i] = IF i < open THEN text[i]
                           ELSE IF i < open + m THEN value[i - open + 1]
                           ELSE text[i - m + 4]
  <2>1. CASE i < open
    <3>1. i \in 1 .. open - 1 /\ i \in 1 .. open - 1 + m /\ i <= open - 1 /\ i <= open - 1 + m
      BY <1>1, <2>1
    <3>2. (c \o b)[i] = text[i]
      BY <1>2, <1>4, <1>5, <1>7, <3>1
    <3> QED
      BY <2>1, <3>2
  <2>2. CASE i >= open /\ i < open + m
    <3>1. /\ i \in 1 .. open - 1 + m /\ ~ i <= open - 1 /\ i <= open - 1 + m
          /\ i - (open - 1) = i - open + 1 /\ ~ i < open
      BY <1>1, <2>2
    <3>2. (c \o b)[i] = c[i]
      BY <1>5, <1>7, <3>1
    <3>3. c[i] = value[i - (open - 1)]
      BY <1>4, <3>1
    <3> QED
      BY <2>2, <3>1, <3>2, <3>3
  <2>3. CASE i >= open + m
    <3>1. /\ ~ i <= open - 1 + m /\ ~ i < open /\ ~ i < open + m
          /\ i - (open - 1 + m) \in 1 .. n - open - 3
          /\ open + 3 + (i - (open - 1 + m)) = i - m + 4
      BY <1>1, <2>3
    <3>2. (c \o b)[i] = b[i - (open - 1 + m)]
      BY <1>5, <1>7, <3>1
    <3>3. b[i - (open - 1 + m)] = text[open + 3 + (i - (open - 1 + m))]
      BY <1>3, <3>1
    <3> QED
      BY <3>1, <3>2, <3>3
  <2>4. i < open \/ (i >= open /\ i < open + m) \/ i >= open + m
    BY <1>1
  <2> QED
    BY <2>1, <2>2, <2>3, <2>4
<1> QED
  BY <1>5, <1>6, <1>7, <1>8 DEF n, m

(* A text of one symbol. *)
IsSymbol(text, symbol) == Len(text) = 1 /\ text[1] = symbol

(* A placeholder of a text without loose dollars is four symbols long.      *)
LEMMA PlaceholderAt ==
  ASSUME NEW text, IsText(text), Complete(text), NEW open \in Opens(text)
  PROVE  /\ open \in 1 .. Len(text) - 3 /\ open \in Nat /\ Len(text) \in Nat
         /\ text[open] = "$" /\ text[open + 1] = "{"
         /\ Closes(text, open) # {} /\ Min(Closes(text, open)) = open + 3
         /\ IsSymbol(SubSeq(text, open + 2, open + 2), text[open + 2])
         /\ text[open + 2] \in Mentions(text)
<1> DEFINE n == Len(text)
           close == Min(Closes(text, open))
           p == SubSeq(text, open + 2, open + 2)
<1>1. text[open] = "$" /\ text[open + 1] = "{" /\ DOMAIN text = 1 .. n
  BY TextFacts DEF Opens
<1>n. open \in 1 .. n - 1 /\ n \in Nat
  BY TextFacts DEF Opens
<1>2. open \in Nat /\ open \in 1 .. n
  <2> HIDE DEF n
  <2> QED
    BY <1>n
<1>3. open + 3 <= n /\ text[open + 2] # "}" /\ text[open + 3] = "}"
  BY <1>1, <1>2 DEF Complete
<1>4. open \in 1 .. n - 3 /\ open + 3 \in open + 2 .. n /\ open + 2 <= n
  <2>1. open + 3 <= n
    BY <1>3
  <2> HIDE DEF n
  <2> QED
    BY <1>n, <1>2, <2>1
<1>5. open + 3 \in Closes(text, open)
  BY <1>3, <1>4 DEF Closes
<1>6. /\ close \in open + 2 .. n
      /\ text[close] = "}"
      /\ close <= open + 3
  BY <1>2, <1>5, Closings
<1>7. close = open + 3
  <2> HIDE DEF close, n
  <2>1. close # open + 2
    BY <1>3, <1>6
  <2>2. close \in open + 2 .. n /\ close <= open + 3
    BY <1>6
  <2> QED
    BY <1>n, <1>2, <2>1, <2>2
<1>8. Len(p) = 1 /\ p[1] = text[open + 2]
  <2>1. open + 2 \in Int /\ 1 <= open + 2 /\ open + 2 <= (open + 2) + 1
    BY <1>2
  <2>2. /\ Len(p) = (open + 2) - (open + 2) + 1
        /\ \A i \in 1 .. (open + 2) - (open + 2) + 1 : p[i] = text[(open + 2) + i - 1]
    BY <1>4, <2>1, PartIsText
  <2> HIDE DEF p
  <2>3. (open + 2) - (open + 2) + 1 = 1 /\ (open + 2) + 1 - 1 = open + 2 /\ 1 \in 1 .. 1
    BY <1>2
  <2> QED
    BY <2>2, <2>3
<1>9. text[open + 2] \in Mentions(text)
  BY <1>4 DEF Mentions
<1>10. IsSymbol(p, text[open + 2])
  BY <1>8 DEF IsSymbol
<1> HIDE DEF p
<1> QED
  BY <1>1, <1>n, <1>2, <1>4, <1>5, <1>7, <1>9, <1>10 DEF p

(* Its value takes its place, if it has one that can stand in a text.       *)
LEMMA FirstExpansion ==
  ASSUME NEW text, NEW bindings, IsText(text), Complete(text), Opens(text) # {},
         text[Min(Opens(text)) + 2] \in DOMAIN bindings,
         bindings[text[Min(Opens(text)) + 2]].kind \notin {"error", "structure"}
  PROVE  /\ ExpandFirst(text, bindings) # Error
         /\ ExpandFirst(text, bindings).text =
              Replaced(text, Min(Opens(text)), bindings[text[Min(Opens(text)) + 2]].text)
<1> DEFINE open  == Min(Opens(text))
           close == Min(Closes(text, open))
           name  == text[open + 2]
           p     == SubSeq(text, open + 2, close - 1)
           value == Resolve(p, bindings)
           a     == SubSeq(text, 1, open - 1) \o value.text
                      \o SubSeq(text, close + 1, Len(text))
<1>1. open \in Opens(text)
  BY Openings
<1>2. /\ close = open + 3 /\ Closes(text, open) # {} /\ open \in Nat
      /\ IsSymbol(SubSeq(text, open + 2, open + 2), name)
  BY <1>1, PlaceholderAt
<1>3. close - 1 = open + 2 /\ close + 1 = open + 4
  BY <1>2
<1>4. IsSymbol(p, name)
  BY <1>2, <1>3
<1>5. value = bindings[name]
  <2> HIDE DEF p, name
  <2> QED
    BY <1>4 DEF Resolve, IsSymbol, name
<1>6. value.kind \notin {"error", "structure"}
  BY <1>5
<1>7. ExpandFirst(text, bindings) = String(a)
  BY <1>2, <1>6 DEF ExpandFirst
<1>8. a = Replaced(text, open, bindings[name].text)
  BY <1>3, <1>5 DEF Replaced
<1> HIDE DEF a
<1>9. String(a) # Error /\ String(a).text = a
  BY DEF String, Error
<1> QED
  BY <1>7, <1>8, <1>9

(* A value without loose dollars leaves none, and no name that is neither   *)
(* of the text nor of the value.                                            *)
LEMMA CompleteExpansion ==
  ASSUME NEW text, NEW value, IsText(text), IsText(value), Complete(text), Complete(value),
         Opens(text) # {}
  PROVE  /\ Complete(Replaced(text, Min(Opens(text)), value))
         /\ Mentions(Replaced(text, Min(Opens(text)), value))
              \subseteq Mentions(text) \cup Mentions(value)
<1> DEFINE open == Min(Opens(text))
           r == Replaced(text, open, value)
           n == Len(text)
           m == Len(value)
<1>1. /\ open \in Opens(text) /\ \A i \in Opens(text) : open <= i
      /\ open \in 1 .. n - 3 /\ open \in Nat /\ n \in Nat /\ m \in Nat
  BY Openings, PlaceholderAt, TextFacts
<1>d. DOMAIN text = 1 .. n /\ DOMAIN value = 1 .. m /\ text[open] = "$"
  BY <1>1, PlaceholderAt, TextFacts
<1>n. open \in 1 .. n - 3 /\ open \in Nat /\ n \in Nat /\ m \in Nat
  BY <1>1
<1>2. /\ IsText(r) /\ Len(r) = n - 4 + m
      /\ \A i \in 1 .. n - 4 + m :
           r[i] = IF i < open THEN text[i]
                  ELSE IF i < open + m THEN value[i - open + 1]
                  ELSE text[i - m + 4]
  BY <1>1, ReplacedText
<1>3. DOMAIN r = 1 .. n - 4 + m
  BY <1>2, TextFacts
<1> HIDE DEF open, r, n, m
<1>4. ASSUME NEW i \in 1 .. n - 4 + m, r[i] = "$"
      PROVE  /\ i < n - 4 + m /\ r[i + 1] # "$"
             /\ r[i + 1] = "{" => /\ i + 3 <= n - 4 + m /\ r[i + 2] # "}" /\ r[i + 3] = "}"
                                  /\ r[i + 2] \in Mentions(text) \cup Mentions(value)
  <2>1. CASE i < open
    <3>0. i \in 1 .. n
      BY <1>n, <2>1
    <3>1. text[i] = "$" /\ i \in DOMAIN text
      BY <1>d, <1>2, <1>4, <2>1, <3>0
    <3>2. i < n /\ text[i + 1] # "$"
      BY <3>1 DEF Complete, n
    <3>3. i + 1 # open
      BY <1>d, <3>2
    <3>4. i + 1 < open /\ i + 1 \in 1 .. n - 4 + m /\ i < n - 4 + m /\ i \in 1 .. n - 1
      BY <1>n, <2>1, <3>3
    <3>5. r[i + 1] = text[i + 1]
      BY <1>2, <3>4
    <3>6. text[i + 1] # "{"
      <4>1. SUFFICES ASSUME text[i + 1] = "{" PROVE FALSE
        OBVIOUS
      <4>2. i \in Opens(text)
        BY <3>1, <3>4, <4>1 DEF Opens, n
      <4> QED
        <5>1. open <= i
          BY <1>1, <4>2
        <5> QED
          BY <1>n, <2>1, <5>1
    <3> QED
      BY <3>2, <3>4, <3>5, <3>6
  <2>2. CASE i >= open /\ i < open + m
    <3> DEFINE j == i - open + 1
    <3>0. j \in 1 .. m /\ j \in Int
      BY <1>n, <2>2
    <3>1. j \in DOMAIN value /\ value[j] = "$"
      <4>1. ~ i < open
        BY <1>n, <2>2
      <4> QED
        BY <1>d, <1>2, <1>4, <2>2, <3>0, <4>1
    <3>2. /\ j < m /\ value[j + 1] # "$"
          /\ value[j + 1] = "{" => j + 3 <= m /\ value[j + 2] # "}" /\ value[j + 3] = "}"
      BY <3>1 DEF Complete, m
    <3>3. ASSUME NEW k \in {1, 2, 3}, j + k <= m
          PROVE  i + k <= n - 4 + m /\ r[i + k] = value[j + k]
      <4>1. /\ i + k \in 1 .. n - 4 + m /\ ~ i + k < open /\ i + k < open + m
            /\ (i + k) - open + 1 = j + k
        BY <1>n, <2>2, <3>3
      <4>2. r[i + k] = value[(i + k) - open + 1]
        BY <1>2, <4>1
      <4> QED
        BY <4>1, <4>2
    <3>4. i + 1 <= n - 4 + m /\ r[i + 1] = value[j + 1]
      <4>1. j < m
        BY <3>2
      <4>2. j + 1 <= m /\ 1 \in {1, 2, 3}
        BY <1>n, <3>0, <4>1
      <4> QED
        BY <3>3, <4>2
    <3>5. ASSUME r[i + 1] = "{"
          PROVE  /\ i + 3 <= n - 4 + m /\ r[i + 2] = value[j + 2] /\ r[i + 3] = value[j + 3]
                 /\ value[j + 2] \in Mentions(value)
      <4>1. j + 3 <= m /\ value[j + 1] = "{"
        BY <3>2, <3>4, <3>5
      <4>2. j + 2 <= m /\ j \in 1 .. m - 1
        <5>1. j + 3 <= m
          BY <4>1
        <5> HIDE DEF j
        <5> QED
          BY <1>n, <3>0, <5>1
      <4>3. j \in Opens(value)
        BY <3>1, <4>1, <4>2 DEF Opens, m
      <4>4. value[j + 2] \in Mentions(value)
        BY <4>2, <4>3 DEF Mentions, m
      <4> QED
        BY <3>3, <4>1, <4>2, <4>4
    <3>6. i < n - 4 + m
      BY <1>n, <3>4
    <3> HIDE DEF j
    <3> QED
      BY <3>2, <3>4, <3>5, <3>6
  <2>3. CASE i >= open + m
    <3> DEFINE j == i - m + 4
    <3>0. j \in 1 .. n /\ j \in Int
      BY <1>n, <2>3
    <3>1. j \in DOMAIN text /\ text[j] = "$"
      <4>1. ~ i < open /\ ~ i < open + m
        BY <1>n, <2>3
      <4> QED
        BY <1>d, <1>2, <1>4, <2>3, <3>0, <4>1
    <3>2. /\ j < n /\ text[j + 1] # "$"
          /\ text[j + 1] = "{" => j + 3 <= n /\ text[j + 2] # "}" /\ text[j + 3] = "}"
      BY <3>1 DEF Complete, n
    <3>3. ASSUME NEW k \in {1, 2, 3}, j + k <= n
          PROVE  i + k <= n - 4 + m /\ r[i + k] = text[j + k]
      <4>1. /\ i + k \in 1 .. n - 4 + m /\ ~ i + k < open /\ ~ i + k < open + m
            /\ (i + k) - m + 4 = j + k
        BY <1>n, <2>3, <3>3
      <4>2. r[i + k] = text[(i + k) - m + 4]
        BY <1>2, <4>1
      <4> QED
        BY <4>1, <4>2
    <3>4. i + 1 <= n - 4 + m /\ r[i + 1] = text[j + 1]
      <4>1. j < n
        BY <3>2
      <4>2. j + 1 <= n /\ 1 \in {1, 2, 3}
        BY <1>n, <3>0, <4>1
      <4> QED
        BY <3>3, <4>2
    <3>5. ASSUME r[i + 1] = "{"
          PROVE  /\ i + 3 <= n - 4 + m /\ r[i + 2] = text[j + 2] /\ r[i + 3] = text[j + 3]
                 /\ text[j + 2] \in Mentions(text)
      <4>1. j + 3 <= n /\ text[j + 1] = "{"
        BY <3>2, <3>4, <3>5
      <4>2. j + 2 <= n /\ j \in 1 .. n - 1
        <5>1. j + 3 <= n
          BY <4>1
        <5> HIDE DEF j
        <5> QED
          BY <1>n, <3>0, <5>1
      <4>3. j \in Opens(text)
        BY <3>1, <4>1, <4>2 DEF Opens, n
      <4>4. text[j + 2] \in Mentions(text)
        BY <4>2, <4>3 DEF Mentions, n
      <4> QED
        BY <3>3, <4>1, <4>2, <4>4
    <3>6. i < n - 4 + m
      BY <1>n, <3>4
    <3> HIDE DEF j
    <3> QED
      BY <3>2, <3>4, <3>5, <3>6
  <2>4. i < open \/ (i >= open /\ i < open + m) \/ i >= open + m
    BY <1>n
  <2> QED
    BY <2>1, <2>2, <2>3, <2>4
<1>5. Complete(r)
  BY <1>2, <1>3, <1>4 DEF Complete
<1>6. ASSUME NEW name \in Mentions(r)
      PROVE  name \in Mentions(text) \cup Mentions(value)
  <2>1. PICK i \in Opens(r) : name = r[i + 2]
    BY DEF Mentions
  <2>2. /\ i \in 1 .. (n - 4 + m) - 1 /\ r[i] = "$" /\ r[i + 1] = "{"
    BY <1>2 DEF Opens
  <2>3. i \in 1 .. n - 4 + m
    <3>1. i \in 1 .. (n - 4 + m) - 1
      BY <2>2
    <3> QED
      BY <1>n, <3>1
  <2> QED
    BY <1>4, <2>1, <2>2, <2>3
<1> QED
  BY <1>5, <1>6 DEF r, open

(* A text that expands does so round by round.                              *)
LEMMA ExpandsOn ==
  ASSUME NEW text, NEW bindings, IsText(text), AreTexts(bindings),
         Expands(text, bindings), Opens(text) # {}
  PROVE  /\ ExpandFirst(text, bindings) # Error
         /\ Expands(ExpandFirst(text, bindings).text, bindings)
<1> DEFINE open  == Min(Opens(text))
           name  == text[open + 2]
           value == bindings[name].text
           r     == Replaced(text, open, value)
<1>1. PICK met \in SUBSET DOMAIN bindings :
        /\ LeadsInto(Mentions(text), met, bindings)
        /\ \A n \in met : /\ Complete(bindings[n].text)
                          /\ bindings[n].kind \in {"string", "scalar"}
  BY DEF Expands
<1>2. Complete(text)
  BY DEF Expands
<1>3. name \in Mentions(text)
  BY <1>2, Openings, PlaceholderAt
<1>4. name \in met /\ name \in DOMAIN bindings
  BY <1>1, <1>3 DEF LeadsInto
<1>5. /\ Complete(value) /\ bindings[name].kind \in {"string", "scalar"}
      /\ IsText(value) /\ Mentions(value) \subseteq met
  BY <1>1, <1>4 DEF LeadsInto, AreTexts
<1>6. ExpandFirst(text, bindings) # Error /\ ExpandFirst(text, bindings).text = r
  BY <1>2, <1>4, <1>5, FirstExpansion
<1>7. Complete(r) /\ Mentions(r) \subseteq Mentions(text) \cup Mentions(value)
  BY <1>2, <1>5, CompleteExpansion
<1> HIDE DEF r, value, name
<1>8. LeadsInto(Mentions(r), met, bindings)
  BY <1>1, <1>5, <1>7 DEF LeadsInto
<1>9. Expands(r, bindings)
  BY <1>1, <1>7, <1>8 DEF Expands
<1> QED
  BY <1>6, <1>9

-----------------------------------------------------------------------------
(* The upstream succeeds when the two configurations match.                 *)

(* They match for as long as the upstream runs and the request lasts.       *)
LEMMA SameMatch ==
  ASSUME UNCHANGED <<server, party>>, request'.client_id = request.client_id
  PROVE  Match' = Match
<1>1. Provider' = Provider /\ ReAuth(request.client_id)' = ReAuth(request.client_id)
  BY SameClient
<1>2. /\ Registered(Provider.client_id)' = Registered(Provider.client_id)
      /\ Client(Provider.client_id)' = Client(Provider.client_id)
  BY <1>1 DEF Registered, Running, Client
<1>3. /\ Ttl(Client(Provider.client_id))' = Ttl(Client(Provider.client_id))
      /\ \A now : HasExpiry(Client(Provider.client_id), now)'
                    = HasExpiry(Client(Provider.client_id), now)
  BY <1>2 DEF HasExpiry, Lifetime, Ttl
<1> QED
  BY <1>1, <1>2, <1>3 DEF Match

(* The names a template may use, for whoever asks through the request.      *)
OwnBindings ==
  Bindings(Client(Provider.client_id), request.code.subject,
           SetToSeq(ReAuth(request.client_id).upstream_scopes))

LEMMA OwnContext ==
  ProcessOK /\ AskedOK /\ OwnWork /\ Waiting /\ Running /\ work.phase = "rendering"
    => Context = OwnBindings
<1> SUFFICES ASSUME ProcessOK, AskedOK, OwnWork, Waiting, Running, work.phase = "rendering"
             PROVE  Context = OwnBindings
  OBVIOUS
<1>1. request # Idle /\ request.phase = "exchanging"
  BY NotIdle DEF Waiting
<1>2. ReAuth(request.client_id).upstream_scopes # None
  BY <1>1, RequestFacts DEF AskedOK
<1>3. /\ work.client_id = Provider.client_id /\ work.subject = request.code.subject
      /\ work.scope = request.code.scope
      /\ request.code.scope = ReAuth(request.client_id).upstream_scopes
  BY <1>1 DEF OwnWork, AskedOK, CodeOK
<1> QED
  BY <1>2, <1>3 DEF Context, OwnBindings

(* A rendering of a request whose configurations match does not fail.       *)
LEMMA WorkSucceedsStep ==
  ASSUME ProcessOK, WorkOK, AskedOK, OwnWork, OwnWork', AskedOK', ProcessOK',
         WorkSucceeds, [Next]_vars
  PROVE  WorkSucceeds'
<1>p. UNCHANGED party
  BY StepKinds
<1>1. CASE Background
  <2>1. Match' = Match
    BY <1>1, <1>p, SameMatch DEF Background
  <2>2. Context' = Context
    BY <1>1 DEF Background, Context, Client
  <2> QED
    BY <1>1, <2>1, <2>2 DEF Background, WorkSucceeds, Waiting, Running
<1>2. CASE Started
  <2>1. request.phase = "exchanging" => request.code.starts # starts'
    BY <1>2, BoundsAreNatural, NotIdle DEF Started, AskedOK, CodeOK, RequestOK, ProcessOK
  <2> QED
    BY <1>2, <2>1 DEF Started, WorkSucceeds, Waiting
<1>3. CASE Ended
  BY <1>3 DEF Ended, WorkSucceeds, Running, Stopped
<1>4. CASE Served /\ UNCHANGED <<clock, files, planned, server, starts>>
  <2>1. CASE Work /\ UNCHANGED request
    <3> SUFFICES ASSUME (Waiting /\ Running /\ request.starts = starts /\ Match)'
                 PROVE  WorkSucceeds'
      BY DEF WorkSucceeds
    <3>1. Waiting /\ Running /\ request.starts = starts /\ Match
      BY <1>4, <1>p, <2>1, SameMatch DEF Waiting, Running
    <3>2. /\ work.phase = "rendering"
          /\ \A i \in DOMAIN work.todo : Renders(work.todo[i], Context)
          /\ work.text # None => Expands(work.text, Context)
      BY <2>1, <3>1, WorkOutcomes DEF WorkSucceeds
    <3>3. SameRequest => Context' = Context
      BY <1>4 DEF SameRequest, Context, Client
    <3>4. CASE TakesText
      <4>1. /\ work'.phase = "rendering" /\ work'.todo = work.todo
            /\ work'.text = Head(work.todo) /\ ~IsPlaceholder(Head(work.todo))
            /\ work.todo # <<>>
        BY <3>4 DEF TakesText, SameRequest
      <4>2. 1 \in DOMAIN work.todo /\ Head(work.todo) = work.todo[1]
        <5> DEFINE S == Seq(STRING)
        <5>1. work.todo \in Seq(S)
          BY <3>2 DEF WorkOK, RenderingOK
        <5> HIDE DEF S
        <5> QED
          BY <4>1, <5>1
      <4>3. Expands(Head(work.todo), Context)
        BY <3>2, <4>1, <4>2 DEF Renders
      <4>4. Context' = Context
        BY <3>3, <3>4 DEF TakesText
      <4> QED
        BY <3>2, <4>1, <4>3, <4>4 DEF WorkSucceeds
    <3>5. CASE Expands1
      <4>1. /\ work'.phase = "rendering" /\ work'.todo = work.todo
            /\ work'.text = ExpandFirst(work.text, Context).text
            /\ work.text # None /\ Opens(work.text) # {}
        BY <3>5 DEF Expands1, SameRequest
      <4>2. IsText(work.text) /\ AreTexts(Context)
        BY <3>2, <4>1, ContextIsTexts DEF WorkOK, RenderingOK, IsText
      <4>3. Expands(ExpandFirst(work.text, Context).text, Context)
        BY <3>2, <4>1, <4>2, ExpandsOn
      <4>4. Context' = Context
        BY <3>3, <3>5 DEF Expands1
      <4> QED
        BY <3>2, <4>1, <4>3, <4>4 DEF WorkSucceeds
    <3>6. ASSUME NEW value, Finishes(value) PROVE WorkSucceeds'
      <4>1. /\ work'.phase = "rendering" /\ work'.todo = Tail(work.todo)
            /\ work'.text = None /\ work.todo # <<>>
        BY <3>6 DEF Finishes, SameRequest
      <4>2. \A i \in DOMAIN Tail(work.todo) :
              i + 1 \in DOMAIN work.todo /\ Tail(work.todo)[i] = work.todo[i + 1]
        <5> DEFINE S == Seq(STRING)
        <5>1. work.todo \in Seq(S)
          BY <3>2 DEF WorkOK, RenderingOK
        <5> HIDE DEF S
        <5> QED
          BY <4>1, <5>1, HeadTailProperties
      <4>3. Context' = Context
        BY <3>3, <3>6 DEF Finishes
      <4> QED
        BY <3>2, <4>1, <4>2, <4>3 DEF WorkSucceeds
    <3>7. CASE Fails
      <4>1. /\ HasRequiredClaims(server.files.template.claims)
            /\ CanSign(KeyFor(server.files, EffectiveAlgorithm(server.files.provider,
                                                               Client(work.client_id))))
        BY <2>1, <3>1, WorkOutcomes DEF Match, OwnWork
      <4>2. CASE /\ work.text = None /\ work.todo # <<>>
                 /\ IsPlaceholder(Head(work.todo)) /\ Whole(Head(work.todo), Context) = Error
        <5> DEFINE S == Seq(STRING)
        <5>1. work.todo \in Seq(S)
          BY <3>2 DEF WorkOK, RenderingOK
        <5> HIDE DEF S
        <5>2. 1 \in DOMAIN work.todo /\ Head(work.todo) = work.todo[1]
          BY <4>2, <5>1
        <5> QED
          BY <3>2, <4>2, <5>2 DEF Renders
      <4>3. CASE /\ work.text # None /\ Opens(work.text) # {}
                 /\ ExpandFirst(work.text, Context) = Error
        <5>1. IsText(work.text) /\ AreTexts(Context)
          BY <3>2, <4>3, ContextIsTexts DEF WorkOK, RenderingOK, IsText
        <5> QED
          BY <3>2, <4>3, <5>1, ExpandsOn
      <4> QED
        BY <3>7, <4>1, <4>2, <4>3 DEF Fails
    <3>8. CASE Answers
      BY <3>8 DEF Answers, WorkSucceeds
    <3> QED
      BY <2>1, <3>4, <3>5, <3>6, <3>7, <3>8, WorkOutcomes
  <2>2. CASE SentElsewhere /\ UNCHANGED request
    BY <1>4, <2>2 DEF SentElsewhere, WorkSucceeds, Waiting
  <2>3. ASSUME NEW id, NEW scopes, ClientCredentials(id, scopes), UNCHANGED request
        PROVE  WorkSucceeds'
    <3>1. work = Idle
      BY <2>3 DEF ClientCredentials, IssueToken
    <3> QED
      BY <1>4, <2>3, <3>1 DEF OwnWork, WorkSucceeds, Waiting, Running
  <2>4. CASE Exchange
    <3> SUFFICES ASSUME (Waiting /\ Running /\ request.starts = starts /\ Match)'
                 PROVE  WorkSucceeds'
      BY DEF WorkSucceeds
    <3>1. CASE IssueToken(Provider.client_id, request.code.subject, request.code.scope,
                          request.nonce, "openid" \in request.code.scope)
      <4>1. /\ work'.phase = "rendering" /\ work'.text = None
            /\ work'.todo = server'.files.template.strings
        BY <1>4, <3>1 DEF IssueToken
      <4>2. Context' = OwnBindings'
        <5>1. (ProcessOK /\ AskedOK /\ OwnWork /\ Waiting /\ Running
                 /\ work.phase = "rendering" => Context = OwnBindings)'
          BY OwnContext, PTL
        <5> QED
          BY <4>1, <5>1
      <4>3. request'.code.subject \in Subjects
        BY NotIdle DEF Waiting, AskedOK, CodeOK
      <4>4. \A text \in Range(server'.files.template.strings) : Renders(text, OwnBindings')
        BY <4>3 DEF Match, OwnBindings
      <4> QED
        BY <4>1, <4>2, <4>4 DEF WorkSucceeds, Range
    <3>2. CASE Refuse("exchange")
      BY <3>2 DEF Refuse, Waiting
    <3> QED
      BY <2>4, <3>1, <3>2 DEF Exchange
  <2>5. CASE request'.phase # "exchanging"
    BY <2>5 DEF WorkSucceeds, Waiting
  <2>6. ASSUME NEW id \in DOMAIN Clients(party.files), BeginReAuth(id)
        PROVE  request'.phase # "exchanging"
    BY <2>6 DEF BeginReAuth, Refused
  <2>7. ASSUME NEW subject, SignIn(subject)
        PROVE  request'.phase # "exchanging"
    BY <2>7 DEF SignIn, Refuse
  <2>8. CASE Deny \/ ReceiveTokens \/ TimeOut \/ FetchKeys \/ Answered
    BY <2>5, <2>8 DEF Deny, ReceiveTokens, TimeOut, FetchKeys, Validate, Answered, Refuse, Idle
  <2>9. ASSUME NEW token, ReceiveForeign(token)
        PROVE  request'.phase # "exchanging"
    BY <2>9 DEF ReceiveForeign
  <2> QED
    BY <1>4, <2>1, <2>2, <2>3, <2>4, <2>5, <2>6, <2>7, <2>8, <2>9 DEF Served
<1> QED
  BY <1>1, <1>2, <1>3, <1>4, StepKinds

-----------------------------------------------------------------------------
(* Why requests are refused.                                                *)

LEMMA TokenTimes ==
  ASSUME ProcessOK, NEW id, Registered(id)
  PROVE  Lifetime(Client(id)) \in Int
<1>1. IsDirectory(server.files) /\ IsClient(Client(id))
  BY ServerFacts, ClientFacts DEF Registered, Client
<1> QED
  BY <1>1, WordIsPositive DEF IsDirectory, IsClient, U64, Lifetime, AsSigned, Ttl

LEMMA KindOfKey ==
  ASSUME NEW key, NEW algorithm \in Algorithms, Suits(key, algorithm)
  PROVE  IF algorithm = "ES256" THEN key.kty = "EC" /\ key.crv = "P-256"
         ELSE key.kty = "RSA"
<1>1. CASE algorithm = "RS256"
  BY <1>1 DEF Suits
<1>2. CASE algorithm = "PS256"
  BY <1>2 DEF Suits
<1>3. CASE algorithm = "ES256"
  BY <1>3 DEF Suits
<1> QED
  BY <1>1, <1>2, <1>3 DEF Algorithms

(* A token the upstream made for the request passes validation with the     *)
(* keys it publishes, if the two configurations and the clocks match.       *)
LEMMA MadeTokensPass ==
  ASSUME ProcessOK, AskedOK, ValidatingOK, Running, AtUpstream,
         request.phase = "validating", request.starts = starts, Match,
         request.id_token.iat <= Now + Leeway,
         Now <= request.id_token.iat + Lifetime(Client(Provider.client_id)) + Leeway
  PROVE  ValidIdToken(request.id_token, SetToSeq(JwkSet(server.files)))
<1> DEFINE token  == request.id_token
           id     == Provider.client_id
           jwks   == SetToSeq(JwkSet(server.files))
           named  == {i \in DOMAIN jwks : jwks[i].kid = token.kid}
           a      == token.alg
           k      == Jwk(KeyFor(server.files, a), a)
           ttl    == Lifetime(Client(id))
<1>1. /\ request.subject = token.sub /\ request.subject \in Subjects
      /\ Registered(id) /\ MadeIdToken(token, id) /\ token.nonce = request.nonce
  BY DEF ValidatingOK
<1>2. /\ a = EffectiveAlgorithm(server.files.provider, Client(id))
      /\ a \in SigningAlgorithms(server.files)
      /\ token.kid = KeyFor(server.files, a).public
      /\ token.public = KeyFor(server.files, a).public
  BY <1>1 DEF MadeIdToken, Made, Kid
<1>3. /\ IsFiniteSet(JwkSet(server.files)) /\ k \in JwkSet(server.files)
      /\ KeyFor(server.files, a).public # None /\ Suits(KeyFor(server.files, a), a)
      /\ \A other \in JwkSet(server.files) :
           other.kid = Kid(KeyFor(server.files, a)) => other = k
  BY <1>2, ServerFacts, PublishedKeys
<1>4. a \in Algorithms
  BY <1>2, ServerFacts, EffectiveAlgorithms
<1>5. /\ k.kty = KeyFor(server.files, a).kty /\ k.crv = KeyFor(server.files, a).crv
      /\ k.use = "sig" /\ k.key_ops = None /\ k.alg = a
      /\ k.kid = token.kid /\ k.public = token.public
  BY <1>2 DEF Jwk, Kid
<1> HIDE DEF k
<1>6. IsVerificationKey(k, a) /\ Verifies(k, token)
  <2>1. IF a = "ES256" THEN k.kty = "EC" /\ k.crv = "P-256" ELSE k.kty = "RSA"
    BY <1>3, <1>4, <1>5, KindOfKey
  <2> QED
    BY <1>2, <1>3, <1>5, <2>1 DEF IsVerificationKey, Verifies
<1>7. /\ Len(jwks) = Cardinality(JwkSet(server.files))
      /\ Cardinality(JwkSet(server.files)) \in Nat
      /\ DOMAIN jwks = 1 .. Cardinality(JwkSet(server.files))
      /\ \E i \in DOMAIN jwks : jwks[i] = k
      /\ \A i \in DOMAIN jwks : jwks[i] \in JwkSet(server.files)
  BY <1>3, SequenceOfSet
<1> HIDE DEF jwks
<1>8. named # {} /\ named \subseteq Nat
  BY <1>5, <1>7
<1>9. Min(named) \in named
  <2> HIDE DEF named
  <2> QED
    BY <1>8, LeastNatural
<1>10. jwks[Min(named)] = k
  <2>1. jwks[Min(named)].kid = token.kid /\ jwks[Min(named)] \in JwkSet(server.files)
    BY <1>7, <1>9
  <2> QED
    BY <1>2, <1>3, <2>1 DEF Kid
<1>11. token.alg \in Provider.allowed_signing_algorithms /\ token.kid # None
  BY <1>2, <1>3 DEF Match
<1>12. token.iss = request.issuer /\ token.aud = id
  BY <1>1, NotIdle DEF MadeIdToken, Match, AskedOK, RequestOK
<1>13. ttl \in Int /\ token.iat \in Nat /\ token.exp = token.iat + ttl
  BY <1>1, TokenTimes DEF MadeIdToken
<1>14. None \notin {token.exp, token.iat}
  BY <1>13, NoneIsNoValue
<1>15. InTime(token, Now)
  <2>1. clock \in Int /\ party.skew \in Int /\ Leeway \in Nat
    BY PartiesAreServers DEF ProcessOK
  <2>2. Now \in Int /\ token.iat <= Now + Leeway /\ Now <= token.iat + ttl + Leeway
    BY <2>1 DEF Now
  <2> HIDE DEF ttl, token
  <2> QED
    BY <1>13, <2>1, <2>2 DEF InTime
<1>16. token.sub \notin {None, <<>>}
  BY <1>1, SubjectsAreTexts
<1>17. /\ named = {i \in DOMAIN jwks : jwks[i].kid = token.kid}
       /\ token = request.id_token /\ id = Provider.client_id
  OBVIOUS
<1> HIDE DEF named, token, id
<1> QED
  BY <1>1, <1>6, <1>8, <1>10, <1>11, <1>12, <1>14, <1>15, <1>16, <1>17
  DEF ValidIdToken, jwks

LEMMA RefusedFields ==
  ASSUME NEW why, Refuse(why)
  PROVE  /\ request'.phase = "refused" /\ request'.why = why
         /\ request'.client_id = request.client_id /\ request'.starts = request.starts
         /\ request'.at = clock
         /\ request.phase = "validating" =>
              /\ request'.issued_at = request.id_token.iat /\ request'.code_expires_at = None
         /\ request.phase = "returned" =>
              /\ request'.issued_at = None /\ request'.code_expires_at = request.code.expires_at
BY DEF Refuse

(* A refusal of the relying server has a reason. *)
LEMMA RefusalStep ==
  ASSUME ProcessOK, WorkOK, AskedOK, OwnWork, ValidatingOK, WorkSucceeds,
         RefusalsHaveReasons, [Next]_vars
  PROVE  RefusalsHaveReasons'
<1>p. UNCHANGED party
  BY StepKinds
<1>n. starts \in Nat /\ (request # Idle => request.starts \in Nat /\ request.starts <= starts)
  BY BoundsAreNatural DEF ProcessOK, AskedOK, RequestOK
<1>m. ASSUME UNCHANGED <<server, request>>
      PROVE  /\ Match' = Match /\ Timely' = Timely
             /\ AtUpstream' = AtUpstream /\ Running' = Running
  <2>1. Provider' = Provider /\ AtUpstream' = AtUpstream
    BY <1>p, <1>m, SameClient
  <2> QED
    BY <1>p, <1>m, <2>1, SameMatch DEF Timely, Lifetime, Ttl, Client, Running
<1>1. CASE Background
  BY <1>1, <1>m DEF Background, RefusalsHaveReasons
<1>2. CASE Started
  <2>1. request.phase = "refused" => request'.starts # starts'
    BY <1>2, <1>n, NotIdle DEF Started
  <2> QED
    BY <1>2, <2>1 DEF Started, RefusalsHaveReasons
<1>3. CASE Ended
  BY <1>3 DEF Ended, RefusalsHaveReasons, Running, Stopped
<1>4. CASE Served /\ UNCHANGED <<clock, files, planned, server, starts>>
  <2>1. CASE UNCHANGED request
    BY <1>4, <1>m, <2>1 DEF RefusalsHaveReasons
  <2>2. CASE request'.phase # "refused"
    BY <2>2 DEF RefusalsHaveReasons
  <2>3. ASSUME NEW id \in DOMAIN Clients(party.files), BeginReAuth(id)
        PROVE  RefusalsHaveReasons'
    <3> DEFINE provider == Providers[ReAuth(id).provider_id]
    <3> SUFFICES ASSUME request'.phase = "refused", AtUpstream', Running', Match'
                 PROVE  FALSE
      BY DEF RefusalsHaveReasons
    <3>1. ReAuth(id).provider_id \in DOMAIN Providers
      BY <2>3, ServerFacts, ReAuthClients DEF BeginReAuth, ReAuth, Providers
    <3>2. request'.client_id = id
      BY <2>3 DEF BeginReAuth, Refused
    <3>3. Provider' = provider
      BY <1>p, <3>2 DEF Provider, Providers, ReAuth
    <3>4. provider.issuer.host # Foreign /\ Running
      BY <1>4, <3>3 DEF AtUpstream, Running
    <3>5. provider.issuer = server.files.provider.issuer /\ ~provider.issuer.slash
      BY <1>4, <3>3 DEF Match
    <3>6. server.files.provider.issuer \in [host : STRING, slash : BOOLEAN]
      BY <3>4, ServerFacts DEF IsDirectory
    <3>7. Trimmed(server.files.provider.issuer) = server.files.provider.issuer
      BY <3>5, <3>6 DEF Trimmed
    <3>8. provider.issuer = Discovery(server.files).issuer
      BY <3>5, <3>7 DEF Discovery
    <3>9. request'.phase = "away"
      BY <2>3, <3>1, <3>4, <3>8 DEF BeginReAuth
    <3> QED
      BY <3>9
  <2>4. ASSUME NEW subject \in Subjects, SignIn(subject)
        PROVE  RefusalsHaveReasons'
    <3> SUFFICES ASSUME request'.phase = "refused", Match'
                 PROVE  FALSE
      BY DEF RefusalsHaveReasons
    <3>1. request.phase = "away" /\ request'.client_id = request.client_id
      BY <2>4 DEF SignIn, AwayAtUpstream, Refuse
    <3>2. Match
      BY <1>4, <1>p, <3>1, SameMatch
    <3>3. "openid" \in ReAuth(request.client_id).upstream_scopes
      BY <3>1, NotIdle, RequestFacts DEF AskedOK
    <3>4. Redirects /\ Authorizes
      BY <3>2, <3>3 DEF Match, Redirects, Authorizes, ScopesAllowed
    <3> QED
      BY <2>4, <3>4 DEF SignIn
  <2>5. CASE Exchange
    <3> SUFFICES ASSUME Refuse("exchange"), Running, Match', Timely', request'.starts = starts
                 PROVE  FALSE
      <4>1. DOMAIN request = {"phase", "client_id", "issuer", "nonce", "starts", "code"}
        BY <2>5 DEF Exchange, AskedOK, CodeOK
      <4> QED
        BY <1>4, <2>5, <4>1 DEF Exchange, RefusalsHaveReasons, Running
    <3>1. /\ request.phase = "returned" /\ request # Idle
          /\ request'.client_id = request.client_id /\ request.starts = starts
      BY <2>5, NotIdle, RefusedFields DEF Exchange
    <3>2. Match
      BY <1>4, <1>p, <3>1, SameMatch
    <3>3. request.code.starts = starts
      BY <1>n, <3>1 DEF AskedOK, CodeOK
    <3>4. /\ Provider.client_secret = Client(Provider.client_id).client_secret
          /\ Ttl(Client(Provider.client_id)) # 0
          /\ HasExpiry(Client(Provider.client_id), clock)
      BY <3>2 DEF Match, ProcessOK
    <3>5. /\ Provider.redirect_uri = request.code.redirect_uri
          /\ PkceHolds(Client(Provider.client_id), request.code.challenged)
      BY <3>1, <3>2 DEF AskedOK, CodeOK, Match, PkceHolds
    <3>6. clock < request.code.expires_at
      <4>1. /\ request'.at = clock
            /\ request'.code_expires_at = request.code.expires_at
        BY <3>1, RefusedFields
      <4>2. request.code.expires_at # None
        BY <3>1, NoneIsNoValue DEF AskedOK, CodeOK
      <4> QED
        BY <4>1, <4>2 DEF Timely
    <3>7. request' = [request EXCEPT !.phase = "exchanging"]
      BY <2>5, <3>3, <3>4, <3>5, <3>6 DEF Exchange
    <3>8. DOMAIN request = {"phase", "client_id", "issuer", "nonce", "starts", "code"}
      BY <3>1 DEF AskedOK, CodeOK
    <3> QED
      BY <3>7, <3>8, RefusedFields
  <2>6. CASE ReceiveTokens
    <3> SUFFICES ASSUME request'.phase = "refused", Match', request'.starts = starts
                 PROVE  FALSE
      BY <1>4 DEF RefusalsHaveReasons
    <3>1. /\ Refuse("exchange") /\ Waiting
          /\ work.phase = "failed" \/ (work.phase = "answered" /\ ~work.openid)
      BY <2>6 DEF ReceiveTokens
    <3>2. Running
      BY <3>1 DEF WorkOK, Idle, Registered
    <3>3. request'.client_id = request.client_id /\ request.starts = starts
      BY <3>1, RefusedFields
    <3>4. Match
      BY <1>4, <1>p, <3>3, SameMatch
    <3> QED
      BY <3>1, <3>2, <3>3, <3>4 DEF OwnWork, WorkSucceeds
  <2>7. CASE TimeOut \/ Deny
    BY <2>7, RefusedFields DEF TimeOut, Deny, RefusalsHaveReasons
  <2>8. CASE FetchKeys
    <3> SUFFICES ASSUME request'.phase = "refused", AtUpstream', Running', Match', Timely',
                        request'.starts = starts
                 PROVE  FALSE
      BY <1>4 DEF RefusalsHaveReasons
    <3>1. request.phase = "validating" /\ Running
      BY <1>4, <2>8 DEF FetchKeys, Running
    <3>2. request'.client_id = request.client_id
      BY <2>8, <3>1 DEF FetchKeys, Validate, Refuse
    <3>3. AtUpstream /\ Match
      BY <1>4, <1>p, <3>2, SameClient, SameMatch
    <3>4. Validate(SetToSeq(JwkSet(server.files)))
      BY <2>8, <3>1, <3>3 DEF FetchKeys
    <3>5. Refuse("token") /\ ~ValidIdToken(request.id_token, SetToSeq(JwkSet(server.files)))
      BY <3>4 DEF Validate
    <3>6. /\ request'.issued_at = request.id_token.iat /\ request'.at = clock
          /\ request.starts = starts
      BY <3>1, <3>5, RefusedFields
    <3>7. /\ Registered(Provider.client_id) /\ request.id_token.iat \in Nat
      BY <3>1, <3>3, <3>6 DEF ValidatingOK, MadeIdToken
    <3>8. request.id_token.iat # None
      BY <3>7, NoneIsNoValue
    <3>9. Lifetime(Client(Provider.client_id))' = Lifetime(Client(Provider.client_id))
      BY <1>4, <1>p, <3>2, SameClient DEF Lifetime, Ttl, Client
    <3>10. /\ request.id_token.iat <= Now + Leeway
           /\ Now <= request.id_token.iat + Lifetime(Client(Provider.client_id)) + Leeway
      BY <1>p, <3>6, <3>8, <3>9 DEF Timely, Now
    <3> QED
      BY <3>1, <3>3, <3>5, <3>6, <3>10, MadeTokensPass
  <2>9. CASE Answered
    BY <2>2, <2>9 DEF Answered, Idle
  <2>10. ASSUME NEW token, ReceiveForeign(token)
         PROVE  RefusalsHaveReasons'
    BY <2>2, <2>10 DEF ReceiveForeign
  <2> QED
    BY <1>4, <2>1, <2>3, <2>4, <2>5, <2>6, <2>7, <2>8, <2>9, <2>10 DEF Served
<1> QED
  BY <1>1, <1>2, <1>3, <1>4, StepKinds

(* Every refusal of a request has a reason: the user said no, the upstream  *)
(* was restarted, a call timed out, the code came too late, or the          *)
(* configurations or clocks do not fit (begin_reauth and reauth_callback    *)
(* against validate_authorize_request, token and sign_token).               *)
THEOREM Reasons == Spec => []RefusalsHaveReasons
<1> DEFINE Inv == Core /\ WorkSucceeds /\ RefusalsHaveReasons
<1>1. Init => Inv
  <2>1. Init => request.phase = "idle"
    BY DEF Init, Idle
  <2> QED
    BY <2>1, CoreInit DEF WorkSucceeds, Waiting, RefusalsHaveReasons
<1>2. Inv /\ [Next]_vars => Inv'
  <2> SUFFICES ASSUME Inv, [Next]_vars PROVE Inv'
    OBVIOUS
  <2>1. Core'
    BY CoreStep
  <2>2. WorkSucceeds'
    BY <2>1, WorkSucceedsStep DEF Core
  <2>3. RefusalsHaveReasons'
    BY RefusalStep DEF Core
  <2> QED
    BY <2>1, <2>2, <2>3
<1>3. Inv => RefusalsHaveReasons
  OBVIOUS
<1> HIDE DEF Inv
<1> QED
  BY <1>1, <1>2, <1>3, PTL DEF Spec

-----------------------------------------------------------------------------
(* What one pass over a text makes of it.                                   *)

(* The text a name is replaced by. *)
Value(name, bindings) == IF name \in DOMAIN bindings THEN bindings[name].text ELSE <<>>

LEMMA ValueOfName ==
  ASSUME NEW text, NEW bindings, IsText(text), Complete(text), NEW open \in Opens(text)
  PROVE  Resolve(SubSeq(text, open + 2, Min(Closes(text, open)) - 1), bindings).text
           = Value(text[open + 2], bindings)
<1> DEFINE p == SubSeq(text, open + 2, open + 2)
<1>1. /\ open \in Nat /\ Min(Closes(text, open)) = open + 3
      /\ IsSymbol(p, text[open + 2])
  BY PlaceholderAt
<1> HIDE DEF p
<1>2. Resolve(p, bindings).text = Value(text[open + 2], bindings)
  BY <1>1 DEF IsSymbol, Resolve, Error, Value
<1>3. Min(Closes(text, open)) - 1 = open + 2
  BY <1>1
<1> QED
  BY <1>2, <1>3 DEF p

(* The pass is defined at each place by what it is further on.              *)
LEMMA PassDefined ==
  ASSUME NEW text, NEW bindings, IsText(text), Complete(text)
  PROVE  \A i \in 1 .. Len(text) + 1 :
           Pass(text, bindings)[i] =
             IF i > Len(text) THEN <<>>
             ELSE IF i \notin Opens(text) THEN <<text[i]>> \o Pass(text, bindings)[i + 1]
             ELSE Value(text[i + 2], bindings) \o Pass(text, bindings)[i + 4]
<1> DEFINE n == Len(text)
           D == 1 .. n + 1
           pass == Pass(text, bindings)
           Body(f, i) ==
             IF i > Len(text) THEN <<>>
             ELSE IF i \notin Opens(text) THEN <<text[i]>> \o f[i + 1]
             ELSE Resolve(SubSeq(text, i + 2, Min(Closes(text, i)) - 1), bindings).text
                    \o f[Min(Closes(text, i)) + 1]
           Part(i) == IF i \notin Opens(text) THEN <<text[i]>>
                      ELSE Value(text[i + 2], bindings)
           After(i) == IF i \notin Opens(text) THEN i + 1 ELSE i + 4
<1>1. n \in Nat
  BY TextFacts
<1>2. ASSUME NEW i \in D, i <= n
      PROVE  After(i) \in D /\ After(i) > i
  <2>1. CASE i \notin Opens(text)
    <3> HIDE DEF n
    <3> QED
      BY <1>1, <1>2, <2>1
  <2>2. CASE i \in Opens(text)
    <3>1. i \in 1 .. n - 3
      BY <2>2, PlaceholderAt
    <3> HIDE DEF n
    <3> QED
      BY <1>1, <2>2, <3>1
  <2> QED
    BY <2>1, <2>2
<1>3. ASSUME NEW f, NEW i \in D
      PROVE  Body(f, i) = IF i > n THEN <<>> ELSE Part(i) \o f[After(i)]
  <2>1. CASE i \in Opens(text)
    <3>1. i \in Nat /\ Min(Closes(text, i)) = i + 3
      BY <2>1, PlaceholderAt
    <3>2. Min(Closes(text, i)) + 1 = i + 4
      BY <3>1
    <3> QED
      BY <2>1, <3>2, ValueOfName
  <2>2. CASE i \notin Opens(text)
    BY <2>2
  <2> QED
    BY <2>1, <2>2
<1>4. pass = CHOOSE f : f = [i \in D |-> Body(f, i)]
  BY DEF Pass
<1> HIDE DEF n, Body, Part, After
<1>5. \E f : f = [i \in D |-> Body(f, i)]
  <2> DEFINE Partial(k) == \E f : /\ f = [i \in D |-> f[i]]
                                  /\ \A i \in D : i > n + 1 - k => f[i] = Body(f, i)
             S == {k \in 0 .. n + 1 : ~Partial(k)}
  <2>1. S = {}
    <3> SUFFICES ASSUME S # {} PROVE FALSE
      OBVIOUS
    <3>1. S \subseteq Nat
      BY <1>1
    <3>2. PICK k \in S : \A j \in S : k <= j
      <4> HIDE DEF S
      <4> QED
        BY <3>1, LeastNatural
    <3>3. k \in 0 .. n + 1 /\ ~Partial(k)
      OBVIOUS
    <3>4. k # 0
      <4> SUFFICES ASSUME k = 0 PROVE FALSE
        OBVIOUS
      <4> DEFINE z == [i \in D |-> 0]
      <4>1. z = [i \in D |-> z[i]]
        OBVIOUS
      <4>2. \A i \in D : ~ i > n + 1 - 0
        BY <1>1
      <4> HIDE DEF z
      <4>3. Partial(0)
        BY <4>1, <4>2
      <4> QED
        BY <3>3, <4>3
    <3>5. k - 1 \in 0 .. n + 1 /\ ~ k <= k - 1
      BY <1>1, <3>3, <3>4
    <3>6. Partial(k - 1)
      BY <3>2, <3>5
    <3>7. PICK f : /\ f = [i \in D |-> f[i]]
                   /\ \A i \in D : i > n + 1 - (k - 1) => f[i] = Body(f, i)
      BY <3>6
    <3> DEFINE j == n + 2 - k
               g == [i \in D |-> IF i = j THEN Body(f, i) ELSE f[i]]
    <3>8. ASSUME NEW i \in D, i > n + 1 - k
          PROVE  g[i] = Body(g, i)
      <4>1. g[i] = Body(f, i)
        <5>1. CASE i = j
          BY <5>1
        <5>2. CASE i # j
          <6>1. i > n + 1 - (k - 1)
            BY <1>1, <3>3, <3>8, <5>2
          <6> QED
            BY <3>7, <5>2, <6>1
        <5> QED
          BY <5>1, <5>2
      <4>2. CASE i > n
        BY <1>3, <4>1, <4>2
      <4>3. CASE i <= n
        <5>1. After(i) \in D /\ After(i) > i
          BY <1>2, <4>3
        <5>2. After(i) # j
          BY <1>1, <3>3, <3>8, <5>1
        <5>3. g[After(i)] = f[After(i)]
          BY <5>1, <5>2
        <5> HIDE DEF g
        <5>4. ~ i > n
          BY <1>1, <4>3
        <5> QED
          BY <1>3, <4>1, <5>3, <5>4
      <4>4. i > n \/ i <= n
        BY <1>1
      <4> QED
        BY <4>2, <4>3, <4>4
    <3>9. g = [i \in D |-> g[i]]
      OBVIOUS
    <3> HIDE DEF g
    <3>10. Partial(k)
      BY <3>8, <3>9
    <3> QED
      BY <3>3, <3>10
  <2>2. n + 1 \in 0 .. n + 1
    BY <1>1
  <2>3. Partial(n + 1)
    BY <2>1, <2>2
  <2>4. PICK f : /\ f = [i \in D |-> f[i]]
                 /\ \A i \in D : i > n + 1 - (n + 1) => f[i] = Body(f, i)
    BY <2>3
  <2>5. \A i \in D : f[i] = Body(f, i)
    <3>1. \A i \in D : i > n + 1 - (n + 1)
      BY <1>1
    <3> QED
      BY <2>4, <3>1
  <2>6. f = [i \in D |-> Body(f, i)]
    BY <2>4, <2>5
  <2> QED
    BY <2>6
<1>6. pass = [i \in D |-> Body(pass, i)]
  <2> HIDE DEF pass
  <2> QED
    BY <1>4, <1>5
<1>7. \A i \in D : pass[i] = Body(pass, i)
  <2> HIDE DEF pass
  <2> QED
    BY <1>6
<1>8. \A i \in D : pass[i] = IF i > n THEN <<>> ELSE Part(i) \o pass[After(i)]
  <2> HIDE DEF pass
  <2> QED
    BY <1>3, <1>7
<1> QED
  BY <1>8 DEF n, Part, After

(* All its results are texts.                                               *)
LEMMA PassIsText ==
  ASSUME NEW T, NEW text \in Seq(T), NEW bindings, Complete(text),
         \A n \in DOMAIN bindings : bindings[n].text \in Seq(T)
  PROVE  \A i \in 1 .. Len(text) + 1 : Pass(text, bindings)[i] \in Seq(T)
<1> DEFINE n == Len(text)
           pass == Pass(text, bindings)
           S == {k \in 0 .. n : pass[n + 1 - k] \notin Seq(T)}
<1>1. n \in Nat /\ \A i \in 1 .. n : text[i] \in T
  OBVIOUS
<1>2. \A i \in 1 .. n + 1 :
        pass[i] = IF i > n THEN <<>>
                  ELSE IF i \notin Opens(text) THEN <<text[i]>> \o pass[i + 1]
                  ELSE Value(text[i + 2], bindings) \o pass[i + 4]
  BY SequenceIsText, PassDefined
<1>3. \A i \in Opens(text) : i \in 1 .. n - 3
  BY SequenceIsText, PlaceholderAt
<1>4. \A name : Value(name, bindings) \in Seq(T)
  BY DEF Value
<1> HIDE DEF n, pass
<1>5. S = {}
  <2> SUFFICES ASSUME S # {} PROVE FALSE
    OBVIOUS
  <2>1. S \subseteq Nat
    BY <1>1
  <2>2. PICK k \in S : \A j \in S : k <= j
    <3> HIDE DEF S
    <3> QED
      BY <2>1, LeastNatural
  <2> DEFINE i == n + 1 - k
  <2>3. k \in 0 .. n /\ i \in 1 .. n + 1 /\ pass[i] \notin Seq(T)
    BY <1>1, <2>2
  <2>4. ASSUME NEW j \in 1 .. n + 1, j > i
        PROVE  pass[j] \in Seq(T)
    <3>1. n + 1 - j \in 0 .. n /\ ~ k <= n + 1 - j /\ n + 1 - (n + 1 - j) = j
      BY <1>1, <2>3, <2>4
    <3>2. n + 1 - j \notin S
      BY <2>2, <3>1
    <3> QED
      BY <3>1, <3>2
  <2> HIDE DEF i, S
  <2>5. CASE i > n
    <3>1. pass[i] = <<>> /\ <<>> \in Seq(T)
      BY <1>2, <2>3, <2>5, EmptySeq DEF i
    <3> QED
      BY <2>3, <3>1 DEF i
  <2>6. CASE ~ i > n /\ i \notin Opens(text)
    <3>1. i + 1 \in 1 .. n + 1 /\ i + 1 > i /\ i \in 1 .. n
      BY <1>1, <2>3, <2>6
    <3>2. pass[i + 1] \in Seq(T) /\ <<text[i]>> \in Seq(T)
      BY <1>1, <2>4, <3>1
    <3>3. <<text[i]>> \o pass[i + 1] \in Seq(T)
      BY <3>2, ConcatProperties
    <3> QED
      BY <1>2, <2>3, <2>6, <3>3
  <2>7. CASE ~ i > n /\ i \in Opens(text)
    <3>1. i + 4 \in 1 .. n + 1 /\ i + 4 > i
      BY <1>1, <1>3, <2>3, <2>7
    <3>2. Value(text[i + 2], bindings) \o pass[i + 4] \in Seq(T)
      BY <1>4, <2>4, <3>1, ConcatProperties
    <3> QED
      BY <1>2, <2>3, <2>7, <3>2
  <2> QED
    BY <2>5, <2>6, <2>7
<1>6. ASSUME NEW i \in 1 .. n + 1
      PROVE  pass[i] \in Seq(T)
  <2>1. n + 1 - i \in 0 .. n /\ n + 1 - (n + 1 - i) = i
    BY <1>1
  <2> QED
    BY <1>5, <2>1
<1> QED
  BY <1>6 DEF n, pass

(* Where no placeholder begins, it copies.                                  *)
Copies(text, bindings) ==
  \A first \in 1 .. Len(text) + 1 : \A next \in first .. Len(text) + 1 :
    (\A i \in first .. next - 1 : i \notin Opens(text))
      => Pass(text, bindings)[first]
           = SubSeq(text, first, next - 1) \o Pass(text, bindings)[next]

LEMMA PassCopies ==
  ASSUME NEW T, NEW text \in Seq(T), NEW bindings, Complete(text),
         \A n \in DOMAIN bindings : bindings[n].text \in Seq(T)
  PROVE  Copies(text, bindings)
<1> SUFFICES ASSUME NEW first \in 1 .. Len(text) + 1, NEW next \in first .. Len(text) + 1,
                    \A i \in first .. next - 1 : i \notin Opens(text)
             PROVE  Pass(text, bindings)[first]
                      = SubSeq(text, first, next - 1) \o Pass(text, bindings)[next]
  BY DEF Copies
<1> DEFINE n == Len(text)
           pass == Pass(text, bindings)
           part(i) == SubSeq(text, i, next - 1)
           S == {k \in 0 .. next - first : pass[next - k] # part(next - k) \o pass[next]}
<1>1. n \in Nat /\ (\A i \in 1 .. n : text[i] \in T)
  OBVIOUS
<1>2. \A i \in 1 .. n + 1 :
        pass[i] = IF i > n THEN <<>>
                  ELSE IF i \notin Opens(text) THEN <<text[i]>> \o pass[i + 1]
                  ELSE Value(text[i + 2], bindings) \o pass[i + 4]
  BY SequenceIsText, PassDefined
<1>3. \A i \in 1 .. n + 1 : pass[i] \in Seq(T)
  BY PassIsText
<1>4. first \in 1 .. n + 1 /\ next \in first .. n + 1
  OBVIOUS
<1>5. part(next) = <<>>
  <2>1. next \in Int /\ next - 1 \in Int /\ next - 1 < next
    OBVIOUS
  <2> QED
    BY <2>1, SubSeqEmpty
<1>6. ASSUME NEW i \in first .. next - 1
      PROVE  /\ part(i) = <<text[i]>> \o part(i + 1)
             /\ part(i + 1) \in Seq(T)
  <2>1. /\ i \in 1 .. Len(text) /\ next - 1 \in i .. Len(text)
        /\ i + 1 \in Int /\ next - 1 \in Int
    <3> HIDE DEF n
    <3>1. i \in 1 .. n /\ next - 1 \in i .. n /\ i + 1 \in Int /\ next - 1 \in Int
      BY <1>1, <1>4
    <3> QED
      BY <3>1 DEF n
  <2>2. \A j \in i + 1 .. next - 1 : text[j] \in T
    <3>1. \A j \in i + 1 .. next - 1 : j \in 1 .. n
      <4> HIDE DEF n
      <4> QED
        BY <1>1, <1>4
    <3> QED
      BY <1>1, <3>1
  <2>3. part(i + 1) \in Seq(T)
    BY <2>1, <2>2, SubSeqProperties
  <2> QED
    BY <2>1, <2>3, SubSeqRecursiveFirst
<1> HIDE DEF n, pass, part
<1>7. S = {}
  <2> SUFFICES ASSUME S # {} PROVE FALSE
    OBVIOUS
  <2>1. S \subseteq Nat
    <3>1. next - first \in Int
      BY <1>1, <1>4
    <3>2. 0 .. next - first \subseteq Nat
      BY <3>1
    <3> QED
      BY <3>2
  <2>2. PICK k \in S : \A j \in S : k <= j
    <3> HIDE DEF S
    <3> QED
      BY <2>1, LeastNatural
  <2>3. k \in 0 .. next - first /\ pass[next - k] # part(next - k) \o pass[next]
    BY <2>2
  <2>4. k # 0
    <3> SUFFICES ASSUME k = 0 PROVE FALSE
      OBVIOUS
    <3>1. next - k = next /\ next \in 1 .. n + 1
      BY <1>1, <1>4
    <3>2. <<>> \o pass[next] = pass[next]
      BY <1>3, <3>1, ConcatEmptySeq
    <3> QED
      BY <1>5, <2>3, <3>1, <3>2
  <2> DEFINE i == next - k
  <2>5. /\ i \in first .. next - 1 /\ i \in 1 .. n + 1 /\ ~ i > n /\ i \in 1 .. n
        /\ k - 1 \in 0 .. next - first /\ next - (k - 1) = i + 1 /\ ~ k <= k - 1
        /\ i + 1 \in 1 .. n + 1
    BY <1>1, <1>4, <2>3, <2>4
  <2> HIDE DEF i
  <2>6. pass[i + 1] = part(i + 1) \o pass[next]
    <3>1. k - 1 \notin S
      BY <2>2, <2>5
    <3> QED
      BY <2>5, <3>1
  <2>7. pass[i] = <<text[i]>> \o pass[i + 1]
    BY <1>2, <2>5
  <2>8. /\ <<text[i]>> \in Seq(T) /\ part(i + 1) \in Seq(T) /\ pass[next] \in Seq(T)
        /\ part(i) = <<text[i]>> \o part(i + 1)
    BY <1>1, <1>3, <1>4, <1>6, <2>5
  <2>9. (<<text[i]>> \o part(i + 1)) \o pass[next]
          = <<text[i]>> \o (part(i + 1) \o pass[next])
    <3> DEFINE x == <<text[i]>>
    <3>1. x \in Seq(T)
      BY <2>8
    <3>2. part(i + 1) \in Seq(T) /\ pass[next] \in Seq(T)
      BY <2>8
    <3> HIDE DEF x
    <3>3. Associates(T)
      BY Associative
    <3>4. (x \o part(i + 1)) \o pass[next] = x \o (part(i + 1) \o pass[next])
      BY <3>1, <3>2, <3>3, ZenonT(30) DEF Associates
    <3> QED
      BY <3>4 DEF x
  <2>10. pass[i] = part(i) \o pass[next]
    BY <2>6, <2>7, <2>8, <2>9
  <2> QED
    BY <2>3, <2>10 DEF i
<1>8. next - first \in 0 .. next - first /\ next - (next - first) = first
  BY <1>4
<1>9. pass[first] = part(first) \o pass[next]
  BY <1>7, <1>8
<1> QED
  BY <1>9 DEF pass, part

(* Texts without loose dollars, put together, form no new placeholder.      *)
LEMMA CompleteJoin ==
  ASSUME NEW a, NEW b, IsText(a), IsText(b), Complete(a), Complete(b)
  PROVE  /\ Complete(a \o b)
         /\ \A i \in Opens(a \o b) : \/ i <= Len(a) /\ i \in Opens(a)
                                     \/ i > Len(a) /\ i - Len(a) \in Opens(b)
         /\ \A i \in Opens(b) : Len(a) + i \in Opens(a \o b)
<1> DEFINE m == Len(a)
           n == Len(b)
           c == a \o b
<1>1. m \in Nat /\ n \in Nat
  BY TextFacts
<1>2. DOMAIN a = 1 .. m /\ DOMAIN b = 1 .. n
  BY TextFacts
<1>3. /\ IsText(c) /\ Len(c) = m + n
      /\ \A i \in 1 .. m + n : c[i] = IF i <= m THEN a[i] ELSE b[i - m]
  BY JoinIsText
<1>4. DOMAIN c = 1 .. m + n
  BY <1>3, TextFacts
<1> HIDE DEF m, n, c
<1>5. ASSUME NEW i \in 1 .. m, a[i] = "$"
      PROVE  /\ i < m /\ i < m + n /\ c[i + 1] = a[i + 1] /\ c[i + 1] # "$"
             /\ c[i + 1] = "{" => i + 3 <= m + n /\ c[i + 2] # "}" /\ c[i + 3] = "}"
  <2>1. /\ i < m /\ a[i + 1] # "$"
        /\ a[i + 1] = "{" => i + 3 <= m /\ a[i + 2] # "}" /\ a[i + 3] = "}"
    BY <1>2, <1>5 DEF Complete, m
  <2>2. ASSUME NEW k \in {1, 2, 3}, i + k <= m
        PROVE  i + k <= m + n /\ c[i + k] = a[i + k]
    <3>1. i + k \in 1 .. m + n
      BY <1>1, <2>2
    <3> QED
      BY <1>1, <1>3, <2>2, <3>1
  <2>3. i + 1 <= m
    <3>1. i < m
      BY <2>1
    <3> QED
      BY <1>1, <3>1
  <2>4. i < m + n /\ c[i + 1] = a[i + 1]
    BY <1>1, <2>2, <2>3
  <2>5. ASSUME a[i + 1] = "{"
        PROVE  i + 3 <= m + n /\ c[i + 2] = a[i + 2] /\ c[i + 3] = a[i + 3]
    <3>1. i + 3 <= m
      BY <2>1, <2>5
    <3>2. i + 2 <= m
      BY <1>1, <3>1
    <3> QED
      BY <2>2, <3>1, <3>2
  <2> QED
    BY <2>1, <2>4, <2>5
<1>6. ASSUME NEW i \in 1 .. n
      PROVE  m + i \in 1 .. m + n /\ c[m + i] = b[i]
  <2>1. m + i \in 1 .. m + n /\ ~ m + i <= m /\ (m + i) - m = i
    BY <1>1
  <2>2. c[m + i] = b[(m + i) - m]
    BY <1>3, <2>1
  <2> QED
    BY <2>1, <2>2
<1>7. ASSUME NEW i \in 1 .. n, b[i] = "$"
      PROVE  /\ m + i < m + n /\ i < n /\ c[(m + i) + 1] = b[i + 1] /\ c[(m + i) + 1] # "$"
             /\ c[(m + i) + 1] = "{" =>
                  (m + i) + 3 <= m + n /\ c[(m + i) + 2] # "}" /\ c[(m + i) + 3] = "}"
  <2>1. /\ i < n /\ b[i + 1] # "$"
        /\ b[i + 1] = "{" => i + 3 <= n /\ b[i + 2] # "}" /\ b[i + 3] = "}"
    BY <1>2, <1>7 DEF Complete, n
  <2>2. ASSUME NEW k \in {1, 2, 3}, i + k <= n
        PROVE  (m + i) + k <= m + n /\ c[(m + i) + k] = b[i + k]
    <3>1. /\ i + k \in 1 .. n /\ m + (i + k) = (m + i) + k
          /\ (m + i) + k <= m + n
      BY <1>1, <2>2
    <3> QED
      BY <1>6, <3>1
  <2>3. i + 1 <= n /\ m + i < m + n
    <3>1. i < n
      BY <2>1
    <3> QED
      BY <1>1, <3>1
  <2>4. c[(m + i) + 1] = b[i + 1]
    BY <2>2, <2>3
  <2>5. ASSUME b[i + 1] = "{"
        PROVE  /\ (m + i) + 3 <= m + n
               /\ c[(m + i) + 2] = b[i + 2] /\ c[(m + i) + 3] = b[i + 3]
    <3>1. i + 3 <= n
      BY <2>1, <2>5
    <3>2. i + 2 <= n
      BY <1>1, <3>1
    <3> QED
      BY <2>2, <3>1, <3>2
  <2> QED
    BY <2>1, <2>3, <2>4, <2>5
<1>8. ASSUME NEW i \in 1 .. m + n
      PROVE  \/ i \in 1 .. m /\ i <= m /\ c[i] = a[i]
             \/ i > m /\ i - m \in 1 .. n /\ m + (i - m) = i /\ c[i] = b[i - m]
  <2>1. CASE i <= m
    <3>1. i \in 1 .. m
      BY <1>1, <2>1
    <3> QED
      BY <1>3, <2>1, <3>1
  <2>2. CASE ~ i <= m
    <3>1. i > m /\ i - m \in 1 .. n /\ m + (i - m) = i
      BY <1>1, <2>2
    <3> QED
      BY <1>3, <2>2, <3>1
  <2> QED
    BY <2>1, <2>2
<1>9. Complete(c)
  <2>1. ASSUME NEW i \in 1 .. m + n, c[i] = "$"
        PROVE  /\ i < m + n /\ c[i + 1] # "$"
               /\ c[i + 1] = "{" => i + 3 <= m + n /\ c[i + 2] # "}" /\ c[i + 3] = "}"
    <3>1. CASE i \in 1 .. m /\ c[i] = a[i]
      BY <1>5, <2>1, <3>1
    <3>2. CASE i - m \in 1 .. n /\ m + (i - m) = i /\ c[i] = b[i - m]
      <4> DEFINE j == i - m
      <4>1. j \in 1 .. n /\ b[j] = "$" /\ m + j = i
        BY <2>1, <3>2
      <4> HIDE DEF j
      <4> QED
        BY <1>7, <4>1
    <3> QED
      BY <1>8, <3>1, <3>2
  <2> QED
    BY <1>3, <1>4, <2>1 DEF Complete
<1>10. ASSUME NEW i \in Opens(c)
       PROVE  \/ i <= m /\ i \in Opens(a)
              \/ i > m /\ i - m \in Opens(b)
  <2>1. i \in 1 .. (m + n) - 1 /\ c[i] = "$" /\ c[i + 1] = "{"
    BY <1>3 DEF Opens
  <2>2. i \in 1 .. m + n
    <3>1. i \in 1 .. (m + n) - 1
      BY <2>1
    <3> QED
      BY <1>1, <3>1
  <2>3. CASE i \in 1 .. m /\ i <= m /\ c[i] = a[i]
    <3>1. i < m /\ a[i + 1] = "{" /\ a[i] = "$"
      BY <1>5, <2>1, <2>3
    <3>2. i \in 1 .. m - 1
      <4>1. i \in 1 .. m /\ i < m
        BY <2>3, <3>1
      <4> QED
        BY <1>1, <4>1
    <3>3. i \in Opens(a)
      BY <3>1, <3>2 DEF Opens, m
    <3>4. i <= m
      BY <2>3
    <3> QED
      BY <3>3, <3>4
  <2>4. CASE i > m /\ i - m \in 1 .. n /\ m + (i - m) = i /\ c[i] = b[i - m]
    <3> DEFINE j == i - m
    <3>1. j \in 1 .. n /\ b[j] = "$" /\ m + j = i
      BY <2>1, <2>4
    <3> HIDE DEF j
    <3>2. j < n /\ b[j + 1] = "{"
      BY <1>7, <2>1, <3>1
    <3>3. j \in 1 .. n - 1
      <4>1. j \in 1 .. n /\ j < n
        BY <3>1, <3>2
      <4> QED
        BY <1>1, <4>1
    <3>4. j \in Opens(b)
      BY <3>1, <3>2, <3>3 DEF Opens, n
    <3> QED
      BY <2>4, <3>4 DEF j
  <2> QED
    BY <1>8, <2>2, <2>3, <2>4
<1>11. ASSUME NEW i \in Opens(b)
       PROVE  m + i \in Opens(c)
  <2>1. i \in 1 .. n - 1 /\ b[i] = "$" /\ b[i + 1] = "{"
    BY DEF Opens, n
  <2>2. i \in 1 .. n /\ m + i \in 1 .. (m + n) - 1
    <3>1. i \in 1 .. n - 1
      BY <2>1
    <3> QED
      BY <1>1, <3>1
  <2>3. c[m + i] = "$" /\ c[(m + i) + 1] = "{"
    BY <1>6, <1>7, <2>1, <2>2
  <2> QED
    BY <1>3, <2>2, <2>3 DEF Opens
<1> QED
  BY <1>9, <1>10, <1>11 DEF m, c

(* The end of a text without loose dollars has none either.                 *)
LEMMA CompleteSuffix ==
  ASSUME NEW text, IsText(text), Complete(text), NEW next \in 1 .. Len(text) + 1
  PROVE  LET end == SubSeq(text, next, Len(text)) IN
         /\ IsText(end) /\ Complete(end)
         /\ Len(end) = Len(text) - next + 1
         /\ \A i \in 1 .. Len(text) - next + 1 : end[i] = text[next + i - 1]
         /\ \A i \in Opens(end) : next + i - 1 \in Opens(text)
         /\ \A i \in Opens(text) : i >= next => i - next + 1 \in Opens(end)
<1> DEFINE n == Len(text)
           m == n - next + 1
           end == SubSeq(text, next, n)
<1>1. n \in Nat /\ next \in 1 .. n + 1 /\ m \in Nat /\ next \in Nat
  <2>1. n \in Nat /\ next \in 1 .. n + 1
    BY TextFacts
  <2> HIDE DEF n
  <2> QED
    BY <2>1
<1>2. DOMAIN text = 1 .. n
  BY TextFacts
<1>3. /\ IsText(end) /\ Len(end) = m
      /\ \A i \in 1 .. m : end[i] = text[next + i - 1]
  <2>1. next \in Int /\ n \in Int /\ 1 <= next /\ next <= n + 1 /\ n <= n
    <3> HIDE DEF n
    <3> QED
      BY <1>1
  <2> QED
    BY <2>1, PartIsText
<1>4. DOMAIN end = 1 .. m
  BY <1>3, TextFacts
<1>m. m = n - next + 1
  OBVIOUS
<1> HIDE DEF n, m, end
<1>5. ASSUME NEW i \in 1 .. m, end[i] = "$"
      PROVE  /\ i < m /\ end[i + 1] # "$"
             /\ end[i + 1] = "{" => i + 3 <= m /\ end[i + 2] # "}" /\ end[i + 3] = "}"
  <2> DEFINE j == next + i - 1
  <2>1. j \in 1 .. n /\ j \in Int
    BY <1>1, <1>m
  <2>2. text[j] = "$" /\ j \in DOMAIN text
    BY <1>2, <1>3, <1>5, <2>1
  <2>3. /\ j < n /\ text[j + 1] # "$"
        /\ text[j + 1] = "{" => j + 3 <= n /\ text[j + 2] # "}" /\ text[j + 3] = "}"
    BY <2>2 DEF Complete, n
  <2>4. ASSUME NEW k \in {1, 2, 3}, j + k <= n
        PROVE  i + k <= m /\ end[i + k] = text[j + k]
    <3>1. i + k \in 1 .. m /\ next + (i + k) - 1 = j + k /\ i + k <= m
      BY <1>1, <1>m, <2>4
    <3>2. end[i + k] = text[next + (i + k) - 1]
      BY <1>3, <3>1
    <3> QED
      BY <3>1, <3>2
  <2>5. j + 1 <= n /\ i < m
    <3>1. j < n
      BY <2>3
    <3> QED
      BY <1>1, <1>m, <2>1, <3>1
  <2>6. end[i + 1] = text[j + 1]
    BY <2>4, <2>5
  <2>7. ASSUME end[i + 1] = "{"
        PROVE  i + 3 <= m /\ end[i + 2] = text[j + 2] /\ end[i + 3] = text[j + 3]
    <3>1. j + 3 <= n
      BY <2>3, <2>6, <2>7
    <3>2. j + 2 <= n
      BY <1>1, <2>1, <3>1
    <3> QED
      BY <2>4, <3>1, <3>2
  <2> HIDE DEF j
  <2> QED
    BY <2>3, <2>5, <2>6, <2>7
<1>6. Complete(end)
  BY <1>3, <1>4, <1>5 DEF Complete
<1>7. ASSUME NEW i \in Opens(end)
      PROVE  next + i - 1 \in Opens(text)
  <2>1. i \in 1 .. m - 1 /\ end[i] = "$" /\ end[i + 1] = "{"
    BY <1>3 DEF Opens
  <2>2. i \in 1 .. m - 1
    BY <2>1
  <2>3. /\ i \in 1 .. m /\ i + 1 \in 1 .. m /\ next + i - 1 \in 1 .. n - 1
        /\ next + (i + 1) - 1 = (next + i - 1) + 1
    BY <1>1, <1>m, <2>2
  <2>4. text[next + i - 1] = "$" /\ text[(next + i - 1) + 1] = "{"
    BY <1>3, <2>1, <2>3
  <2> QED
    BY <2>3, <2>4 DEF Opens, n
<1>8. ASSUME NEW i \in Opens(text), i >= next
      PROVE  i - next + 1 \in Opens(end)
  <2>1. i \in 1 .. n - 1 /\ text[i] = "$" /\ text[i + 1] = "{"
    BY DEF Opens, n
  <2>2. i \in 1 .. n - 1
    BY <2>1
  <2> DEFINE j == i - next + 1
  <2>3. /\ j \in 1 .. m - 1 /\ j \in 1 .. m /\ j + 1 \in 1 .. m
        /\ next + j - 1 = i /\ next + (j + 1) - 1 = i + 1
    BY <1>1, <1>m, <1>8, <2>2
  <2> HIDE DEF j
  <2>4. end[j] = "$" /\ end[j + 1] = "{"
    BY <1>3, <2>1, <2>3
  <2>5. j \in Opens(end)
    BY <1>3, <2>3, <2>4 DEF Opens
  <2> QED
    BY <2>5 DEF j
<1> QED
  BY <1>3, <1>6, <1>7, <1>8 DEF n, m, end

(* So has the beginning of one up to its first placeholder.                 *)
LEMMA CompletePrefix ==
  ASSUME NEW text, IsText(text), Complete(text), NEW open \in Opens(text),
         \A i \in Opens(text) : open <= i
  PROVE  LET start == SubSeq(text, 1, open - 1) IN
         IsText(start) /\ Complete(start) /\ Opens(start) = {} /\ Len(start) = open - 1
<1> DEFINE n == Len(text)
           start == SubSeq(text, 1, open - 1)
<1>1. n \in Nat /\ open \in 1 .. n - 3 /\ open \in Nat
  BY PlaceholderAt
<1>2. DOMAIN text = 1 .. n /\ text[open] = "$"
  BY TextFacts, PlaceholderAt
<1>3. /\ IsText(start) /\ Len(start) = open - 1
      /\ \A i \in 1 .. open - 1 : start[i] = text[i]
  <2>1. /\ open - 1 \in Int /\ 1 \in Int /\ 1 <= (open - 1) + 1 /\ open - 1 <= n
        /\ (open - 1) - 1 + 1 = open - 1 /\ \A i \in 1 .. open - 1 : 1 + i - 1 = i
    <3> HIDE DEF n
    <3> QED
      BY <1>1
  <2>2. /\ IsText(start) /\ Len(start) = (open - 1) - 1 + 1
        /\ \A i \in 1 .. (open - 1) - 1 + 1 : start[i] = text[1 + i - 1]
    BY <2>1, PartIsText
  <2> HIDE DEF start
  <2> QED
    BY <2>1, <2>2
<1>4. DOMAIN start = 1 .. open - 1
  BY <1>3, TextFacts
<1> HIDE DEF n, start
<1>5. ASSUME NEW i \in 1 .. open - 1, start[i] = "$"
      PROVE  i < open - 1 /\ start[i + 1] # "$" /\ start[i + 1] # "{"
  <2>0. i \in 1 .. n /\ i \in Nat
    BY <1>1
  <2>1. text[i] = "$" /\ i \in DOMAIN text
    BY <1>2, <1>3, <1>5, <2>0
  <2>2. i < n /\ text[i + 1] # "$"
    BY <2>1 DEF Complete, n
  <2>3. i + 1 # open
    BY <1>2, <2>2
  <2>4. i < open - 1 /\ i + 1 \in 1 .. open - 1 /\ i \in 1 .. n - 1 /\ ~ open <= i
    BY <1>1, <2>3
  <2>5. start[i + 1] = text[i + 1]
    BY <1>3, <2>4
  <2>6. text[i + 1] # "{"
    <3> SUFFICES ASSUME text[i + 1] = "{" PROVE FALSE
      OBVIOUS
    <3>1. i \in Opens(text)
      BY <2>1, <2>4 DEF Opens, n
    <3> QED
      BY <2>4, <3>1
  <2> QED
    BY <2>2, <2>4, <2>5, <2>6
<1>6. Complete(start)
  BY <1>3, <1>4, <1>5 DEF Complete
<1>7. Opens(start) = {}
  <2> SUFFICES ASSUME NEW i \in Opens(start) PROVE FALSE
    OBVIOUS
  <2>1. i \in 1 .. (open - 1) - 1 /\ start[i] = "$" /\ start[i + 1] = "{"
    BY <1>3 DEF Opens
  <2>2. i \in 1 .. open - 1
    <3>1. i \in 1 .. (open - 1) - 1
      BY <2>1
    <3> QED
      BY <1>1, <3>1
  <2> QED
    BY <1>5, <2>1, <2>2
<1> QED
  BY <1>3, <1>6, <1>7 DEF start

(* The name of the first placeholder is known, if it gives way.             *)
LEMMA FirstValue ==
  ASSUME NEW text, NEW bindings, IsText(text), Complete(text), Opens(text) # {},
         ExpandFirst(text, bindings) # Error
  PROVE  LET name == text[Min(Opens(text)) + 2] IN
         name \in DOMAIN bindings /\ bindings[name].kind \notin {"error", "structure"}
<1> DEFINE open  == Min(Opens(text))
           close == Min(Closes(text, open))
           name  == text[open + 2]
           p     == SubSeq(text, open + 2, close - 1)
<1>1. open \in Opens(text)
  BY Openings
<1>2. /\ close = open + 3 /\ open \in Nat
      /\ IsSymbol(SubSeq(text, open + 2, open + 2), name)
  BY <1>1, PlaceholderAt
<1>3. close - 1 = open + 2
  BY <1>2
<1>4. IsSymbol(p, name)
  BY <1>2, <1>3
<1>5. Resolve(p, bindings).kind \notin {"error", "structure"}
  BY DEF ExpandFirst
<1> HIDE DEF p, name
<1> QED
  BY <1>4, <1>5 DEF Resolve, IsSymbol, Error, name

(* A text that ends with part of another one, cut within that part.         *)
Cuts(T, text, out, source, next, cut) ==
  /\ text \in Seq(T) /\ Len(text) = Len(out) + (Len(source) - next + 1)
  /\ SubSeq(text, 1, Len(out) + (cut - next)) = out \o SubSeq(source, next, cut - 1)
  /\ SubSeq(text, Len(out) + (cut - next) + 1, Len(text)) = SubSeq(source, cut, Len(source))
  /\ SubSeq(source, next, cut - 1) \in Seq(T)

LEMMA CutJoin ==
  ASSUME NEW T, NEW out \in Seq(T), NEW source \in Seq(T),
         NEW next \in 1 .. Len(source) + 1, NEW cut \in next .. Len(source) + 1
  PROVE  Cuts(T, out \o SubSeq(source, next, Len(source)), out, source, next, cut)
<1> DEFINE m == Len(out)
           n == Len(source)
           end == SubSeq(source, next, n)
           mid == SubSeq(source, next, cut - 1)
           tail == SubSeq(source, cut, n)
           text == out \o end
           d == cut - next
<1>1. m \in Nat /\ n \in Nat /\ next \in 1 .. n + 1 /\ cut \in next .. n + 1
  OBVIOUS
<1>2. \A i \in 1 .. n : source[i] \in T
  OBVIOUS
<1>3. /\ \A i \in next .. n : source[i] \in T
      /\ \A i \in next .. cut - 1 : source[i] \in T
      /\ \A i \in cut .. n : source[i] \in T
  <2>1. /\ \A i \in next .. n : i \in 1 .. n
        /\ \A i \in next .. cut - 1 : i \in 1 .. n
        /\ \A i \in cut .. n : i \in 1 .. n
    <3> HIDE DEF n
    <3> QED
      BY <1>1
  <2> QED
    BY <1>2, <2>1
<1>d. d = cut - next /\ d \in Nat /\ next + d = cut
  <2> HIDE DEF n
  <2> QED
    BY <1>1
<1>4. next \in Int /\ n \in Int /\ cut - 1 \in Int /\ cut \in Int
  <2> HIDE DEF n
  <2> QED
    BY <1>1
<1>5. /\ end \in Seq(T) /\ Len(end) = n - next + 1
      /\ \A i \in 1 .. n - next + 1 : end[i] = source[next + i - 1]
  <2>1. /\ end \in Seq(T) /\ Len(end) = IF next <= n THEN n - next + 1 ELSE 0
        /\ \A i \in 1 .. n - next + 1 : end[i] = source[next + i - 1]
    BY <1>3, <1>4, SubSeqProperties
  <2>2. (IF next <= n THEN n - next + 1 ELSE 0) = n - next + 1
    <3> HIDE DEF n
    <3> QED
      BY <1>1
  <2> QED
    BY <2>1, <2>2
<1>6. /\ mid \in Seq(T) /\ Len(mid) = d
      /\ \A i \in 1 .. d : mid[i] = source[next + i - 1]
  <2>1. /\ mid \in Seq(T)
        /\ Len(mid) = IF next <= cut - 1 THEN (cut - 1) - next + 1 ELSE 0
        /\ \A i \in 1 .. (cut - 1) - next + 1 : mid[i] = source[next + i - 1]
    BY <1>3, <1>4, SubSeqProperties
  <2>2. /\ (IF next <= cut - 1 THEN (cut - 1) - next + 1 ELSE 0) = d
        /\ (cut - 1) - next + 1 = d
    <3> HIDE DEF n
    <3> QED
      BY <1>1
  <2> HIDE DEF mid, d
  <2> QED
    BY <2>1, <2>2
<1>7. /\ tail \in Seq(T) /\ Len(tail) = n - cut + 1
      /\ \A i \in 1 .. n - cut + 1 : tail[i] = source[cut + i - 1]
  <2>1. /\ tail \in Seq(T) /\ Len(tail) = IF cut <= n THEN n - cut + 1 ELSE 0
        /\ \A i \in 1 .. n - cut + 1 : tail[i] = source[cut + i - 1]
    BY <1>3, <1>4, SubSeqProperties
  <2>2. (IF cut <= n THEN n - cut + 1 ELSE 0) = n - cut + 1
    <3> HIDE DEF n
    <3> QED
      BY <1>1
  <2> QED
    BY <2>1, <2>2
<1> HIDE DEF end, mid, tail, d
<1>8. /\ text \in Seq(T) /\ Len(text) = m + (n - next + 1)
      /\ \A i \in 1 .. m + (n - next + 1) :
           text[i] = IF i <= m THEN out[i] ELSE end[i - m]
  <2>1. /\ text \in Seq(T) /\ Len(text) = m + Len(end)
        /\ \A i \in 1 .. m + Len(end) : text[i] = IF i <= m THEN out[i] ELSE end[i - m]
    BY <1>5, ConcatProperties
  <2> HIDE DEF text, m, n
  <2> QED
    BY <1>5, <2>1
<1>9. /\ out \o mid \in Seq(T) /\ Len(out \o mid) = m + d
      /\ \A i \in 1 .. m + d : (out \o mid)[i] = IF i <= m THEN out[i] ELSE mid[i - m]
  <2> DEFINE join == out \o mid
  <2>1. /\ join \in Seq(T) /\ Len(join) = m + Len(mid)
        /\ \A i \in 1 .. m + Len(mid) : join[i] = IF i <= m THEN out[i] ELSE mid[i - m]
    BY <1>6, ConcatProperties
  <2> HIDE DEF join, m
  <2>2. /\ join \in Seq(T) /\ Len(join) = m + d
        /\ \A i \in 1 .. m + d : join[i] = IF i <= m THEN out[i] ELSE mid[i - m]
    BY <1>6, <2>1
  <2> QED
    BY <2>2 DEF join
<1> DEFINE join == out \o mid
<1>10. /\ join \in Seq(T) /\ Len(join) = m + d
       /\ \A i \in 1 .. m + d : join[i] = IF i <= m THEN out[i] ELSE mid[i - m]
  BY <1>9
<1> HIDE DEF text, m, n, join
<1>11. \A i \in 1 .. m + (n - next + 1) : text[i] \in T
  BY <1>8
<1>12. SubSeq(text, 1, m + d) = join
  <2> DEFINE part == SubSeq(text, 1, m + d)
  <2>1. \A i \in 1 .. m + d : i \in 1 .. m + (n - next + 1)
    BY <1>1, <1>d
  <2>2. 1 \in Int /\ m + d \in Int /\ \A i \in 1 .. m + d : text[i] \in T
    BY <1>1, <1>d, <1>11, <2>1
  <2>3. /\ part \in Seq(T) /\ Len(part) = IF 1 <= m + d THEN (m + d) - 1 + 1 ELSE 0
        /\ \A i \in 1 .. (m + d) - 1 + 1 : part[i] = text[1 + i - 1]
    BY <2>2, SubSeqProperties
  <2>4. /\ (IF 1 <= m + d THEN (m + d) - 1 + 1 ELSE 0) = m + d /\ (m + d) - 1 + 1 = m + d
        /\ \A i \in 1 .. m + d : 1 + i - 1 = i
    BY <1>1, <1>d
  <2> HIDE DEF part
  <2>5. part \in Seq(T) /\ Len(part) = m + d /\ \A i \in 1 .. m + d : part[i] = text[i]
    BY <2>3, <2>4
  <2>6. ASSUME NEW i \in 1 .. m + d
        PROVE  text[i] = join[i]
    <3>1. CASE i <= m
      BY <1>8, <1>10, <2>1, <3>1
    <3>2. CASE ~ i <= m
      <4>1. i - m \in 1 .. d /\ i - m \in 1 .. n - next + 1
        BY <1>1, <1>d, <3>2
      <4>2. end[i - m] = mid[i - m]
        BY <1>5, <1>6, <4>1
      <4> QED
        BY <1>8, <1>10, <2>1, <3>2, <4>2
    <3> QED
      BY <3>1, <3>2
  <2>7. part = join
    BY <1>10, <2>5, <2>6, SeqEqual
  <2> QED
    BY <2>7 DEF part
<1>13. SubSeq(text, m + d + 1, Len(text)) = tail
  <2> DEFINE part == SubSeq(text, m + d + 1, m + (n - next + 1))
  <2>1. /\ m + d + 1 \in Int /\ m + (n - next + 1) \in Int
        /\ \A i \in m + d + 1 .. m + (n - next + 1) : i \in 1 .. m + (n - next + 1)
    BY <1>1, <1>d
  <2>2. \A i \in m + d + 1 .. m + (n - next + 1) : text[i] \in T
    BY <1>11, <2>1
  <2>3. /\ part \in Seq(T)
        /\ Len(part) = IF m + d + 1 <= m + (n - next + 1)
                       THEN (m + (n - next + 1)) - (m + d + 1) + 1 ELSE 0
        /\ \A i \in 1 .. (m + (n - next + 1)) - (m + d + 1) + 1 :
             part[i] = text[(m + d + 1) + i - 1]
    BY <2>1, <2>2, SubSeqProperties
  <2>4. /\ (IF m + d + 1 <= m + (n - next + 1)
            THEN (m + (n - next + 1)) - (m + d + 1) + 1 ELSE 0) = n - cut + 1
        /\ (m + (n - next + 1)) - (m + d + 1) + 1 = n - cut + 1
    BY <1>1, <1>d
  <2> HIDE DEF part
  <2>5. /\ part \in Seq(T) /\ Len(part) = n - cut + 1
        /\ \A i \in 1 .. n - cut + 1 : part[i] = text[(m + d + 1) + i - 1]
    BY <2>3, <2>4
  <2>6. ASSUME NEW i \in 1 .. n - cut + 1
        PROVE  part[i] = tail[i]
    <3> DEFINE j == (m + d + 1) + i - 1
    <3>1. /\ j \in 1 .. m + (n - next + 1) /\ ~ j <= m /\ j - m \in 1 .. n - next + 1
          /\ next + (j - m) - 1 = cut + i - 1
      BY <1>1, <1>d
    <3>2. part[i] = text[j]
      BY <2>5
    <3> HIDE DEF j
    <3>3. text[j] = end[j - m]
      BY <1>8, <3>1
    <3>4. end[j - m] = source[next + (j - m) - 1]
      BY <1>5, <3>1
    <3>5. tail[i] = source[cut + i - 1]
      BY <1>7
    <3> QED
      BY <3>1, <3>2, <3>3, <3>4, <3>5
  <2>7. part = tail
    BY <1>7, <2>5, <2>6, SeqEqual
  <2> QED
    BY <1>8, <2>7 DEF part
<1> QED
  BY <1>6, <1>8, <1>12, <1>13 DEF Cuts, text, m, n, join, mid, tail, end, d

(* What has been made of a source so far, and how far that is.              *)
SoFar(T, text, source, bindings, out, next) ==
  /\ out \in Seq(T) /\ next \in 1 .. Len(source) + 1
  /\ text = out \o SubSeq(source, next, Len(source))
  /\ OnePass(source, bindings) = out \o Pass(source, bindings)[next]
  /\ Complete(out) /\ Opens(out) = {}

(* A value that can stand in a text for a placeholder, and begins none.     *)
PlainTexts(bindings) ==
  \A n \in DOMAIN bindings : Complete(bindings[n].text) /\ Opens(bindings[n].text) = {}

(* At the end the text is what one pass makes of the source.                *)
LEMMA LastRound ==
  ASSUME NEW T, NEW source \in Seq(T), NEW bindings, NEW text, NEW out, NEW next,
         \A n \in DOMAIN bindings : bindings[n].text \in Seq(T), Complete(source),
         SoFar(T, text, source, bindings, out, next), Opens(text) = {}
  PROVE  text = OnePass(source, bindings)
<1> DEFINE n == Len(source)
           end == SubSeq(source, next, n)
           pass == Pass(source, bindings)
<1>1. /\ out \in Seq(T) /\ next \in 1 .. n + 1 /\ n \in Nat
      /\ text = out \o end /\ OnePass(source, bindings) = out \o pass[next]
      /\ Complete(out)
  BY DEF SoFar
<1>2. IsText(source) /\ IsText(out)
  BY <1>1, SequenceIsText
<1>3. /\ IsText(end) /\ Complete(end)
      /\ \A i \in Opens(source) : i >= next => i - next + 1 \in Opens(end)
  BY <1>1, <1>2, CompleteSuffix
<1>4. \A i \in Opens(end) : Len(out) + i \in Opens(text)
  <2> HIDE DEF end
  <2> QED
    BY <1>1, <1>2, <1>3, CompleteJoin
<1>5. \A i \in next .. (n + 1) - 1 : i \notin Opens(source)
  <2>1. \A i \in next .. (n + 1) - 1 : i >= next
    BY <1>1
  <2> HIDE DEF end, n
  <2> QED
    BY <1>3, <1>4, <2>1
<1>6. n + 1 \in next .. n + 1 /\ n + 1 \in 1 .. n + 1 /\ (n + 1) - 1 = n /\ n + 1 > n
  <2>1. next \in 1 .. n + 1 /\ n \in Nat
    BY <1>1
  <2> HIDE DEF n
  <2> QED
    BY <2>1
<1>7. pass[next] = SubSeq(source, next, (n + 1) - 1) \o pass[n + 1]
  <2>0. Copies(source, bindings)
    BY PassCopies
  <2>1. next \in 1 .. Len(source) + 1 /\ n + 1 \in next .. Len(source) + 1
    BY <1>1, <1>6
  <2>2. \A i \in next .. (n + 1) - 1 : i \notin Opens(source)
    BY <1>5
  <2> DEFINE last == n + 1
  <2>3. last \in next .. Len(source) + 1 /\ \A i \in next .. last - 1 : i \notin Opens(source)
    BY <2>1, <2>2
  <2> HIDE DEF last, n
  <2>4. Pass(source, bindings)[next]
          = SubSeq(source, next, last - 1) \o Pass(source, bindings)[last]
    BY <2>1, <2>3, <2>0 DEF Copies
  <2> QED
    BY <2>4 DEF last
<1>8. pass[n + 1] = <<>>
  BY <1>2, <1>6, PassDefined
<1>9. SubSeq(source, next, (n + 1) - 1) = end
  BY <1>6
<1>10. end \in Seq(T)
  BY <1>1, <1>6, CutJoin DEF Cuts
<1>11. end \o <<>> = end
  <2> HIDE DEF end
  <2> QED
    BY <1>10, ConcatEmptySeq
<1>12. pass[next] = end
  <2> HIDE DEF end, pass, n
  <2> QED
    BY <1>7, <1>8, <1>9, <1>11
<1> QED
  BY <1>1, <1>12

(* A round of the loop goes on in the source.                               *)
LEMMA NextRound ==
  ASSUME NEW T, NEW source \in Seq(T), NEW bindings, NEW text, NEW out, NEW next,
         \A n \in DOMAIN bindings : bindings[n].text \in Seq(T), Complete(source),
         PlainTexts(bindings),
         SoFar(T, text, source, bindings, out, next),
         Opens(text) # {}, ExpandFirst(text, bindings) # Error
  PROVE  \E made, place :
           SoFar(T, ExpandFirst(text, bindings).text, source, bindings, made, place)
<1> DEFINE m == Len(out)
           n == Len(source)
           end == SubSeq(source, next, n)
           pass == Pass(source, bindings)
           open == Min(Opens(text))
           cut == open - m + next - 1
           value == bindings[text[open + 2]].text
           mid == SubSeq(source, next, cut - 1)
           start == SubSeq(text, 1, open - 1)
           made == start \o value
           place == cut + 4
<1>1. /\ out \in Seq(T) /\ next \in 1 .. n + 1 /\ n \in Nat /\ m \in Nat
      /\ text = out \o end /\ OnePass(source, bindings) = out \o pass[next]
      /\ Complete(out) /\ Opens(out) = {}
  BY DEF SoFar
<1>2. IsText(source) /\ IsText(out)
  BY <1>1, SequenceIsText
<1>3. /\ IsText(end) /\ Complete(end) /\ Len(end) = n - next + 1
      /\ \A i \in 1 .. n - next + 1 : end[i] = source[next + i - 1]
      /\ \A i \in Opens(end) : next + i - 1 \in Opens(source)
      /\ \A i \in Opens(source) : i >= next => i - next + 1 \in Opens(end)
  BY <1>1, <1>2, CompleteSuffix
<1> HIDE DEF end
<1>4. /\ IsText(text) /\ Len(text) = m + Len(end)
      /\ \A i \in 1 .. m + Len(end) : text[i] = IF i <= m THEN out[i] ELSE end[i - m]
  BY <1>1, <1>2, <1>3, JoinIsText
<1>5. /\ Complete(text)
      /\ \A i \in Opens(text) : i > m /\ i - m \in Opens(end)
      /\ \A i \in Opens(end) : m + i \in Opens(text)
  BY <1>1, <1>2, <1>3, CompleteJoin
<1>6. open \in Opens(text) /\ \A i \in Opens(text) : open <= i
  BY <1>4, Openings
<1>7. open > m /\ open - m \in Opens(end)
  BY <1>5, <1>6
<1>8. open \in Nat
  BY <1>4, <1>5, <1>6, PlaceholderAt
<1>9. cut \in Opens(source)
  <2>1. next + (open - m) - 1 \in Opens(source)
    BY <1>3, <1>7
  <2>2. next + (open - m) - 1 = cut
    <3>1. next \in Int /\ m \in Int
      BY <1>1
    <3> HIDE DEF open, m
    <3> QED
      BY <1>8, <3>1
  <2> QED
    BY <2>1, <2>2
<1>10. cut \in 1 .. n - 3 /\ cut \in Nat
  BY <1>2, <1>9, PlaceholderAt
<1>n. /\ open \in Nat /\ m \in Nat /\ n \in Nat /\ next \in 1 .. n + 1 /\ open > m
      /\ cut = open - m + next - 1 /\ cut \in 1 .. n - 3 /\ place = cut + 4
  BY <1>1, <1>7, <1>8, <1>10
<1> HIDE DEF m, n, open, cut, place
<1>11. /\ cut \in next .. n + 1 /\ place \in next .. n + 1 /\ place \in 1 .. n + 1
       /\ cut \in 1 .. n + 1 /\ ~ cut > n
       /\ m + (cut - next) = open - 1 /\ m + (place - next) + 1 = open + 4
  BY <1>n
(* Up to the placeholder the pass copies the source. *)
<1>12. ASSUME NEW i \in next .. cut - 1
       PROVE  i \notin Opens(source)
  <2> SUFFICES ASSUME i \in Opens(source) PROVE FALSE
    OBVIOUS
  <2>0. i >= next
    BY <1>n
  <2>1. i - next + 1 \in Opens(end)
    BY <1>3, <2>0
  <2>2. m + (i - next + 1) \in Opens(text)
    BY <1>5, <2>1
  <2>3. open <= m + (i - next + 1)
    BY <1>6, <2>2
  <2> QED
    BY <1>n, <2>3
<1>13. pass[next] = mid \o pass[cut]
  <2>0. Copies(source, bindings)
    BY PassCopies
  <2>1. next \in 1 .. Len(source) + 1 /\ cut \in next .. Len(source) + 1
    BY <1>1, <1>11 DEF n
  <2>2. \A i \in next .. cut - 1 : i \notin Opens(source)
    BY <1>12
  <2> QED
    BY <2>0, <2>1, <2>2 DEF Copies
<1>14. pass[cut] = Value(source[cut + 2], bindings) \o pass[cut + 4]
  BY <1>2, <1>9, <1>11, PassDefined DEF n
<1>15. text[open + 2] = source[cut + 2]
  <2>1. /\ open + 2 \in 1 .. m + (n - next + 1) /\ ~ open + 2 <= m
        /\ (open + 2) - m \in 1 .. n - next + 1
        /\ next + ((open + 2) - m) - 1 = cut + 2
    BY <1>n
  <2>2. text[open + 2] = end[(open + 2) - m]
    BY <1>3, <1>4, <2>1
  <2>3. end[(open + 2) - m] = source[next + ((open + 2) - m) - 1]
    BY <1>3, <2>1
  <2> QED
    BY <2>1, <2>2, <2>3
<1>16. /\ text[open + 2] \in DOMAIN bindings
       /\ bindings[text[open + 2]].kind \notin {"error", "structure"}
  BY <1>4, <1>5, FirstValue DEF open
<1>17. ExpandFirst(text, bindings).text = Replaced(text, open, value)
  BY <1>4, <1>5, <1>16, FirstExpansion DEF open
<1>18. pass[cut] = value \o pass[place]
  BY <1>14, <1>15, <1>16, <1>n DEF Value
(* So does the loop. *)
<1>19. /\ start = out \o mid /\ mid \in Seq(T)
       /\ SubSeq(text, open + 4, Len(text)) = SubSeq(source, place, n)
  <2>1. /\ out \in Seq(T) /\ next \in 1 .. Len(source) + 1
        /\ cut \in next .. Len(source) + 1 /\ place \in next .. Len(source) + 1
    BY <1>1, <1>11 DEF n
  <2>2. text = out \o SubSeq(source, next, Len(source))
    BY <1>1 DEF end, n
  <2>5. Cuts(T, text, out, source, next, cut) /\ Cuts(T, text, out, source, next, place)
    BY <2>1, <2>2, CutJoin
  <2>3. /\ SubSeq(text, 1, Len(out) + (cut - next)) = out \o SubSeq(source, next, cut - 1)
        /\ SubSeq(source, next, cut - 1) \in Seq(T)
    BY <2>5 DEF Cuts
  <2>4. SubSeq(text, Len(out) + (place - next) + 1, Len(text))
          = SubSeq(source, place, Len(source))
    BY <2>5 DEF Cuts
  <2> QED
    BY <1>11, <2>3, <2>4 DEF m, n
<1>20. ExpandFirst(text, bindings).text = made \o SubSeq(source, place, n)
  BY <1>17, <1>19 DEF Replaced
<1>21. value \in Seq(T) /\ Complete(value) /\ Opens(value) = {}
  BY <1>16 DEF PlainTexts
<1>22. IsText(start) /\ Complete(start) /\ Opens(start) = {}
  BY <1>4, <1>5, <1>6, CompletePrefix
<1>23. pass[place] \in Seq(T)
  BY <1>11, PassIsText DEF n
<1> HIDE DEF start, value, mid, pass
<1>24. Complete(made) /\ Opens(made) = {}
  BY <1>21, <1>22, SequenceIsText, CompleteJoin
<1>25. /\ out \o mid \in Seq(T) /\ made \in Seq(T)
  <2>1. out \o mid \in Seq(T)
    BY <1>1, <1>19, ConcatProperties
  <2>2. start \in Seq(T)
    BY <1>19, <2>1
  <2> QED
    BY <1>21, <2>1, <2>2, ConcatProperties
<1>26. out \o pass[next] = made \o pass[place]
  <2> DEFINE rest == pass[place]
  <2>1. Associates(T)
    BY Associative
  <2>2. rest \in Seq(T)
    BY <1>23
  <2>3. value \o rest \in Seq(T)
    BY <1>21, <2>2, ConcatProperties
  <2>4. pass[next] = mid \o (value \o rest)
    BY <1>13, <1>18
  <2>5. made = (out \o mid) \o value
    BY <1>19
  <2> HIDE DEF rest, made
  <2>6. out \o (mid \o (value \o rest)) = (out \o mid) \o (value \o rest)
    BY <1>1, <1>19, <2>1, <2>3, ZenonT(30) DEF Associates
  <2>7. (out \o mid) \o (value \o rest) = ((out \o mid) \o value) \o rest
    BY <1>21, <1>25, <2>1, <2>2, ZenonT(30) DEF Associates
  <2> QED
    BY <2>4, <2>5, <2>6, <2>7 DEF rest
<1>27. OnePass(source, bindings) = made \o pass[place]
  BY <1>1, <1>26
<1>28. SoFar(T, ExpandFirst(text, bindings).text, source, bindings, made, place)
  <2> HIDE DEF made
  <2> QED
    BY <1>11, <1>20, <1>24, <1>25, <1>27 DEF SoFar, n, pass
<1> QED
  BY <1>28

(* A placeholder as a whole is replaced by the value the pass has for it.   *)
LEMMA WholeOnce ==
  ASSUME NEW T, NEW text \in Seq(T), NEW bindings, Complete(text),
         \A n \in DOMAIN bindings : bindings[n].text \in Seq(T),
         IsPlaceholder(text), Whole(text, bindings) # Error
  PROVE  Whole(text, bindings).text = OnePass(text, bindings)
<1> DEFINE n == Len(text)
           p == SubSeq(text, 3, n - 1)
           name == text[3]
           pass == Pass(text, bindings)
<1>1. n \in Nat /\ n > 3 /\ 1 \in Opens(text)
  <2>1. n > 3 /\ 1 \in Opens(text)
    <3> HIDE DEF n
    <3>1. Len(text) > 3 /\ 1 \in Opens(text)
      BY Zenon DEF IsPlaceholder
    <3> QED
      BY <3>1, Zenon DEF n
  <2>2. n \in Nat
    BY SequenceIsText, TextFacts
  <2> QED
    BY <2>1, <2>2, Zenon
<1>2. IsText(text)
  BY SequenceIsText
<1>3. Len(p) = 1 /\ p[1] \in DOMAIN bindings /\ Whole(text, bindings) = bindings[p[1]]
  BY DEF Whole, Resolve
<1>4. Len(p) = n - 3 /\ p[1] = name
  <2>1. \A i \in 3 .. n - 1 : text[i] \in T
    <3>1. \A i \in 3 .. n - 1 : i \in 1 .. n
      <4> HIDE DEF n
      <4> QED
        BY <1>1
    <3> QED
      BY <3>1
  <2>2. 3 \in Int /\ n - 1 \in Int /\ 3 <= n - 1 /\ (n - 1) - 3 + 1 = n - 3 /\ 1 \in 1 .. n - 3
        /\ 3 + 1 - 1 = 3
    <3> HIDE DEF n
    <3> QED
      BY <1>1
  <2>3. /\ Len(p) = IF 3 <= n - 1 THEN (n - 1) - 3 + 1 ELSE 0
        /\ \A i \in 1 .. (n - 1) - 3 + 1 : p[i] = text[3 + i - 1]
    BY <2>1, <2>2, SubSeqProperties
  <2> HIDE DEF p, n
  <2>4. Len(p) = n - 3 /\ p[1] = text[3 + 1 - 1]
    BY <2>2, <2>3
  <2> QED
    BY <2>2, <2>4
<1>5. /\ \A i \in 1 .. n + 1 :
           pass[i] = IF i > n THEN <<>>
                     ELSE IF i \notin Opens(text) THEN <<text[i]>> \o pass[i + 1]
                     ELSE Value(text[i + 2], bindings) \o pass[i + 4]
  BY <1>2, PassDefined
<1> HIDE DEF n, p, pass, name
<1>6. n = 4
  <2>1. 1 = n - 3
    BY <1>3, <1>4, Zenon
  <2> QED
    BY <1>1, <2>1
<1>7. 1 \in 1 .. n + 1 /\ ~ 1 > n /\ 5 \in 1 .. n + 1 /\ 5 > n
  BY <1>6
<1>8. pass[5] = <<>>
  BY <1>5, <1>7
<1>9. pass[1] = Value(text[1 + 2], bindings) \o pass[1 + 4]
  BY <1>1, <1>5, <1>7
<1>10. name \in DOMAIN bindings /\ Whole(text, bindings).text = bindings[name].text
  BY <1>3, <1>4
<1>11. 1 + 2 = 3 /\ 1 + 4 = 5
  OBVIOUS
<1>12. pass[1] = bindings[name].text \o <<>>
  BY <1>8, <1>9, <1>10, <1>11 DEF Value, name
<1>13. bindings[name].text \o <<>> = bindings[name].text
  <2> DEFINE value == bindings[name].text
  <2>1. value \in Seq(T)
    BY <1>10
  <2> HIDE DEF value
  <2>2. value \o <<>> = value
    BY <2>1, ConcatEmptySeq
  <2> QED
    BY <2>2 DEF value
<1> QED
  BY <1>10, <1>12, <1>13 DEF OnePass, pass

(* The loop starts with the source and nothing made of it.                  *)
LEMMA FirstRound ==
  ASSUME NEW T, NEW source \in Seq(T), NEW bindings, Complete(source),
         \A n \in DOMAIN bindings : bindings[n].text \in Seq(T)
  PROVE  SoFar(T, source, source, bindings, <<>>, 1)
<1> DEFINE n == Len(source)
           pass == Pass(source, bindings)
           end == SubSeq(source, 1, n)
<1>1. n \in Nat /\ 1 \in 1 .. n + 1
  BY TextFacts, SequenceIsText
<1>2. pass[1] \in Seq(T)
  BY <1>1, PassIsText
<1>3. end = source
  BY SubSeqFull
<1>4. <<>> \in Seq(T) /\ <<>> \o pass[1] = pass[1] /\ <<>> \o source = source
  <2> HIDE DEF pass
  <2> QED
    BY <1>2, ConcatEmptySeq
<1>5. Complete(<<>>) /\ Opens(<<>>) = {}
  <2>1. DOMAIN <<>> = {} /\ Len(<<>>) = 0
    OBVIOUS
  <2>2. Complete(<<>>)
    BY <2>1, Zenon DEF Complete
  <2>3. 1 .. Len(<<>>) - 1 = {}
    BY <2>1
  <2>4. Opens(<<>>) = {}
    BY <2>3, Zenon DEF Opens
  <2> QED
    BY <2>2, <2>4
<1> QED
  BY <1>1, <1>3, <1>4, <1>5 DEF SoFar, OnePass

-----------------------------------------------------------------------------
(* The server renders its template in one pass.                             *)

(* What texts are made of during a rendering. *)
Symbols == STRING \cup UNION {Range(Context[n].text) : n \in DOMAIN Context}

(* The text on the way is made of the next string of the template. *)
TextSoFar ==
  work.phase = "rendering" /\ PlainValues /\ work.text # None /\ Complete(Head(work.todo)) =>
    \E out, next : SoFar(Symbols, work.text, Head(work.todo), Context, out, next)

LEMMA RenderingSymbols ==
  ASSUME ProcessOK, WorkOK, work.phase = "rendering"
  PROVE  /\ \A n \in DOMAIN Context : Context[n].text \in Seq(Symbols)
         /\ work.todo # <<>> => Head(work.todo) \in Seq(Symbols)
<1>1. AreTexts(Context)
  BY ContextIsTexts
<1>2. ASSUME NEW n \in DOMAIN Context
      PROVE  Context[n].text \in Seq(Symbols)
  <2> DEFINE text == Context[n].text
  <2>1. text \in Seq(Range(text))
    BY <1>1 DEF AreTexts, IsText
  <2>2. Range(text) \subseteq Symbols
    BY DEF Symbols
  <2> HIDE DEF text
  <2>3. text \in Seq(Symbols)
    BY <2>1, <2>2, SeqMonotonic
  <2> QED
    BY <2>3 DEF text
<1>3. ASSUME work.todo # <<>>
      PROVE  Head(work.todo) \in Seq(Symbols)
  <2> DEFINE S == Seq(STRING)
  <2>1. work.todo \in Seq(S)
    BY DEF WorkOK, RenderingOK
  <2> HIDE DEF S
  <2>2. Head(work.todo) \in S
    BY <1>3, <2>1
  <2>3. STRING \subseteq Symbols
    BY DEF Symbols
  <2> QED
    BY <2>2, <2>3, SeqMonotonic DEF S
<1> QED
  BY <1>2, <1>3

LEMMA SameContext ==
  ASSUME SameRequest, UNCHANGED server
  PROVE  Context' = Context /\ Symbols' = Symbols /\ (PlainValues' <=> PlainValues)
<1>1. Context' = Context
  BY DEF SameRequest, Context, Client
<1> QED
  BY <1>1 DEF Symbols, PlainValues

LEMMA TextStep ==
  ASSUME ProcessOK, WorkOK, TextSoFar, RenderedInOnePass, Work, UNCHANGED server
  PROVE  TextSoFar' /\ RenderedInOnePass'
<1>1. work.phase = "rendering"
  BY WorkOutcomes
<1> DEFINE source == Head(work.todo)
<1>s. /\ \A n \in DOMAIN Context : Context[n].text \in Seq(Symbols)
      /\ work.todo # <<>> => source \in Seq(Symbols)
  BY <1>1, RenderingSymbols
<1>2. CASE TakesText
  <2>1. Context' = Context /\ Symbols' = Symbols /\ (PlainValues' <=> PlainValues)
    BY <1>2, SameContext DEF TakesText
  <2>2. RenderedInOnePass'
    BY <1>1, <1>2, <2>1 DEF TakesText, RenderedInOnePass
  <2>3. ASSUME Complete(source)
        PROVE  SoFar(Symbols, source, source, Context, <<>>, 1)
    BY <1>2, <1>s, <2>3, FirstRound DEF TakesText
  <2>4. work'.text = source /\ work'.todo = work.todo
    BY <1>2 DEF TakesText
  <2> QED
    BY <2>1, <2>2, <2>3, <2>4 DEF TextSoFar
<1>3. CASE Expands1
  <2>1. Context' = Context /\ Symbols' = Symbols /\ (PlainValues' <=> PlainValues)
    BY <1>3, SameContext DEF Expands1
  <2>2. RenderedInOnePass'
    BY <1>1, <1>3, <2>1 DEF Expands1, RenderedInOnePass
  <2>3. /\ work'.text = ExpandFirst(work.text, Context).text /\ work'.todo = work.todo
        /\ work.text # None /\ Opens(work.text) # {}
        /\ ExpandFirst(work.text, Context) # Error
    BY <1>3 DEF Expands1
  <2>4. work.todo # <<>>
    BY <1>1, <2>3 DEF WorkOK, RenderingOK
  <2>5. ASSUME PlainValues, Complete(source)
        PROVE  \E made, place :
                 SoFar(Symbols, ExpandFirst(work.text, Context).text, source, Context,
                       made, place)
    <3>1. PICK out, next : SoFar(Symbols, work.text, source, Context, out, next)
      BY <1>1, <2>3, <2>5 DEF TextSoFar
    <3>2. source \in Seq(Symbols) /\ PlainTexts(Context)
      BY <1>s, <2>4, <2>5 DEF PlainTexts, PlainValues
    <3> HIDE DEF source
    <3> QED
      BY <1>s, <2>3, <2>5, <3>1, <3>2, NextRound
  <2> QED
    BY <2>1, <2>2, <2>3, <2>5 DEF TextSoFar
<1>4. ASSUME NEW value, Finishes(value)
      PROVE  TextSoFar' /\ RenderedInOnePass'
  <2>1. Context' = Context /\ Symbols' = Symbols /\ (PlainValues' <=> PlainValues)
    BY <1>4, SameContext DEF Finishes
  <2>2. work'.text = None
    BY <1>4 DEF Finishes
  <2>3. ASSUME PlainValues, Complete(source)
        PROVE  value.text = OnePass(source, Context)
    <3>0. source \in Seq(Symbols)
      BY <1>4, <1>s DEF Finishes
    <3>1. CASE /\ IsPlaceholder(source)
               /\ value = Whole(source, Context) /\ value # Error
      <4> HIDE DEF source
      <4> QED
        BY <1>s, <2>3, <3>0, <3>1, WholeOnce
    <3>2. CASE work.text # None /\ Opens(work.text) = {} /\ value = String(work.text)
      <4>1. PICK out, next : SoFar(Symbols, work.text, source, Context, out, next)
        BY <1>1, <2>3, <3>2 DEF TextSoFar
      <4> HIDE DEF source
      <4>2. work.text = OnePass(source, Context)
        BY <1>s, <2>3, <3>0, <3>2, <4>1, LastRound
      <4> QED
        BY <3>2, <4>2 DEF String
    <3> QED
      BY <1>4, <3>1, <3>2 DEF Finishes
  <2>4. RenderedInOnePass'
    <3> DEFINE last == [source |-> source, value |-> value]
               old == work.rendered
    <3>1. old \in Seq(Range(old)) /\ work'.rendered = Append(old, last)
      BY <1>1, <1>4 DEF WorkOK, RenderingOK, Finishes
    <3>2. last.source = source /\ last.value = value
      OBVIOUS
    <3> HIDE DEF last
    <3> SUFFICES ASSUME PlainValues, NEW i \in DOMAIN work'.rendered,
                        work'.rendered[i].value.kind = "string",
                        Complete(work'.rendered[i].source)
                 PROVE  work'.rendered[i].value.text
                          = OnePass(work'.rendered[i].source, Context)
      BY <2>1 DEF RenderedInOnePass
    <3>3. (i \in DOMAIN old /\ work'.rendered[i] = old[i]) \/ work'.rendered[i] = last
      <4> HIDE DEF old
      <4> QED
        BY <3>1
    <3>4. CASE i \in DOMAIN old /\ work'.rendered[i] = old[i]
      BY <1>1, <3>4 DEF RenderedInOnePass
    <3>5. CASE work'.rendered[i] = last
      BY <2>3, <3>2, <3>5
    <3> QED
      BY <3>3, <3>4, <3>5
  <2> QED
    BY <2>2, <2>4 DEF TextSoFar
<1>5. CASE Fails \/ Answers
  BY <1>5 DEF Fails, Answers, TextSoFar, RenderedInOnePass
<1> QED
  BY <1>2, <1>3, <1>4, <1>5, WorkOutcomes

(* The other steps render nothing. *)
LEMMA OnePassStep ==
  ASSUME Core, TextSoFar, RenderedInOnePass, [Next]_vars
  PROVE  TextSoFar' /\ RenderedInOnePass'
<1>1. ASSUME UNCHANGED <<server, work>>
      PROVE  TextSoFar' /\ RenderedInOnePass'
  <2>1. Context' = Context /\ work' = work
    BY <1>1 DEF Context, Client
  <2>2. Symbols' = Symbols /\ (PlainValues' <=> PlainValues)
    BY <2>1 DEF Symbols, PlainValues
  <2> QED
    BY <2>1, <2>2 DEF TextSoFar, RenderedInOnePass
<1>2. work'.phase # "rendering" => TextSoFar' /\ RenderedInOnePass'
  BY DEF TextSoFar, RenderedInOnePass
<1>3. work' = Idle => work'.phase # "rendering"
  BY DEF Idle
<1>4. ASSUME NEW id, NEW subject, NEW scope, NEW nonce, NEW openid,
             IssueToken(id, subject, scope, nonce, openid)
      PROVE  TextSoFar' /\ RenderedInOnePass'
  <2>1. work'.text = None /\ work'.rendered = <<>>
    BY <1>4 DEF IssueToken
  <2>2. DOMAIN work'.rendered = {}
    BY <2>1
  <2> QED
    BY <2>1, <2>2 DEF TextSoFar, RenderedInOnePass
<1>5. CASE Started
  <2>1. work = Idle
    BY <1>5 DEF Started, Core, WorkOK, Registered
  <2> QED
    BY <1>2, <1>3, <1>5, <2>1 DEF Started
<1>6. CASE Served /\ UNCHANGED <<clock, files, planned, server, starts>>
  <2>1. CASE Work
    BY <1>6, <2>1, TextStep DEF Core
  <2>2. CASE SentElsewhere \/ ReceiveTokens
    BY <1>2, <1>3, <2>2 DEF SentElsewhere, Sent, ReceiveTokens
  <2>3. ASSUME NEW id, NEW scopes, ClientCredentials(id, scopes)
        PROVE  TextSoFar' /\ RenderedInOnePass'
    BY <1>4, <2>3 DEF ClientCredentials
  <2>4. CASE Exchange
    BY <1>1, <1>4, <1>6, <2>4 DEF Exchange
  <2>5. CASE UNCHANGED work
    BY <1>1, <1>6, <2>5
  <2> QED
    BY <1>6, <2>1, <2>2, <2>3, <2>4, <2>5
    DEF Served, BeginReAuth, SignIn, Deny, TimeOut, FetchKeys, Validate, Answered,
        ReceiveForeign, issuerVars
<1> QED
  BY <1>1, <1>2, <1>3, <1>5, <1>6, StepKinds DEF Background, Ended

(* A string of the template is rendered in one pass (substitute_value):     *)
(* each of its placeholders is replaced once, and what a value brings in is *)
(* not taken for one, for every template, client and user whose texts have  *)
(* no loose dollars.                                                        *)
THEOREM OnePassRendered == Spec => []RenderedInOnePass
<1> DEFINE Inv == Core /\ TextSoFar /\ RenderedInOnePass
<1>1. Init => Inv
  <2>1. Init => work.phase # "rendering"
    BY DEF Init, IssuerInit, Idle
  <2> QED
    BY <2>1, CoreInit DEF TextSoFar, RenderedInOnePass
<1>2. Inv /\ [Next]_vars => Inv'
  BY CoreStep, OnePassStep
<1>3. Inv => RenderedInOnePass
  OBVIOUS
<1> HIDE DEF Inv
<1> QED
  BY <1>1, <1>2, <1>3, PTL DEF Spec

-----------------------------------------------------------------------------
(* The invariant of Federation as a whole.                                  *)

LEMMA MadeIsPrefix ==
  ASSUME NEW T, NEW text, NEW source \in Seq(T), NEW bindings, NEW out, NEW next,
         SoFar(T, text, source, bindings, out, next)
  PROVE  Len(out) \in 0 .. Len(text) /\ SubSeq(text, 1, Len(out)) = out
<1> DEFINE m == Len(out)
           n == Len(source)
           none == SubSeq(source, next, next - 1)
<1>1. /\ out \in Seq(T) /\ next \in 1 .. Len(source) + 1
      /\ text = out \o SubSeq(source, next, Len(source))
  BY DEF SoFar
<1>2. m \in Nat /\ n \in Nat /\ next \in 1 .. n + 1
  BY <1>1
<1>3. next \in next .. n + 1 /\ next - next = 0 /\ m + 0 = m /\ next - 1 < next
      /\ next \in Int /\ next - 1 \in Int
  <2> HIDE DEF m, n
  <2> QED
    BY <1>2
<1>4. Cuts(T, text, out, source, next, next)
  BY <1>1, <1>3, CutJoin
<1>5. /\ Len(text) = m + (n - next + 1)
      /\ SubSeq(text, 1, m + (next - next)) = out \o none
  BY <1>4 DEF Cuts
<1>6. none = <<>>
  BY <1>3, SubSeqEmpty
<1>7. out \o <<>> = out
  BY <1>1, ConcatEmptySeq
<1> HIDE DEF none, m, n
<1>8. SubSeq(text, 1, m) = out
  BY <1>3, <1>5, <1>6, <1>7
<1>9. m \in 0 .. Len(text)
  BY <1>2, <1>5
<1> QED
  BY <1>8, <1>9 DEF m

(* All the parts of IInv hold together: what TypeOK says of every variable, *)
(* and what each party knows of the other while a login is under way.       *)
THEOREM Invariance == Spec => []IInv
<1> DEFINE Inv == Core /\ WorkSucceeds /\ TextSoFar /\ RenderedInOnePass
<1>1. Init => Inv
  <2>1. Init => work.phase # "rendering" /\ request.phase = "idle"
    BY DEF Init, IssuerInit, Idle
  <2> QED
    BY <2>1, CoreInit DEF TextSoFar, RenderedInOnePass, WorkSucceeds, Waiting
<1>2. Inv /\ [Next]_vars => Inv'
  <2> SUFFICES ASSUME Inv, [Next]_vars PROVE Inv'
    OBVIOUS
  <2>1. Core'
    BY CoreStep
  <2>2. WorkSucceeds'
    BY <2>1, WorkSucceedsStep DEF Core
  <2> QED
    BY <2>1, <2>2, OnePassStep
<1>3. Inv => IInv
  <2> SUFFICES ASSUME Inv PROVE IInv
    OBVIOUS
  <2>1. TypeOK
    BY DEF Core, ProcessOK, WorkOK, AskedOK, TypeOK, IssuerTypeOK
  <2>2. OnePassOK
    <3> SUFFICES ASSUME work.phase = "rendering", PlainValues, work.text # None,
                        Complete(Head(work.todo))
                 PROVE  OnePassOK
      BY DEF OnePassOK
    <3> DEFINE source == Head(work.todo)
    <3>1. PICK out, next : SoFar(Symbols, work.text, source, Context, out, next)
      BY DEF TextSoFar
    <3>2. source \in Seq(Symbols)
      BY RenderingSymbols DEF Core, WorkOK, RenderingOK
    <3> HIDE DEF source
    <3>3. Len(out) \in 0 .. Len(work.text) /\ SubSeq(work.text, 1, Len(out)) = out
      BY <3>1, <3>2, MadeIsPrefix
    <3>4. /\ next \in 1 .. Len(source) + 1
          /\ work.text = out \o SubSeq(source, next, Len(source))
          /\ OnePass(source, Context) = out \o Pass(source, Context)[next]
          /\ Complete(out) /\ Opens(out) = {}
      BY <3>1 DEF SoFar
    <3> QED
      BY <3>3, <3>4, Zenon DEF OnePassOK, source
  <2> QED
    BY <2>1, <2>2 DEF Core, ProcessOK, WorkOK, AskedOK, IInv
<1> HIDE DEF Inv
<1> QED
  BY <1>1, <1>2, <1>3, PTL DEF Spec
=============================================================================
