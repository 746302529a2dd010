---------------------------- MODULE UserStore_proofs ----------------------------
(***************************************************************************)
(* Proofs about UserStore, for any tables of users, any number of permits   *)
(* and any finite number of logins in progress.                             *)
(***************************************************************************)
EXTENDS UserStore, FiniteSetTheorems, SequenceTheorems, TLAPS

-----------------------------------------------------------------------------
(* Facts about lookups and logins.                                          *)

(* A lookup finds one of the users, or nobody. *)
LEMMA FindsUsers ==
  ASSUME NEW S \in SUBSET UNION Tables, NEW name
  PROVE  Find(S, name) \in S \cup {None}
BY DEF Find

(* What a login deserves is the id of a user, None or Failed. *)
LEMMA RightIsVerdict ==
  ASSUME NEW S \in SUBSET UNION Tables, NEW login
  PROVE  Right(S, login) \in Verdict
<1> DEFINE u == Find(S, login.user)
<1>1. u \in S \cup {None}
  BY FindsUsers
<1>2. u # None => u.id \in Ids
  BY <1>1 DEF Ids
<1> HIDE DEF u
<1> QED
  BY <1>2 DEF Right, Verdict, u

(* Only the name and the password of a login count. *)
LEMMA RightReadsTheForm ==
  ASSUME NEW S, NEW l, NEW m, l.user = m.user, l.password = m.password
  PROVE  Right(S, l) = Right(S, m)
BY DEF Right

(* The fields of a login in each phase. *)
LEMMA LoginFields ==
  ASSUME NEW l \in Login
  PROVE  /\ l.phase \in {"idle", "waiting", "granted", "looking_up",
                         "verifying", "answered"}
         /\ l.phase = "idle" <=> l = Idle
         /\ l.phase # "idle" => l.user \in Names /\ l.password \in Passwords
         /\ l.phase \in {"looking_up", "verifying"} => l.connected \in BOOLEAN
         /\ l.phase = "verifying" => l.found \in (UNION Tables) \cup {None}
         /\ l.phase = "answered" => l.verdict \in Verdict
BY DEF Login, Idle

(* The server looks its users up among those an operator could write. *)
LEMMA SourceIsKnown ==
  ASSUME TypeOK
  PROVE  Source \in SUBSET UNION Tables
BY DEF TypeOK, Source

-----------------------------------------------------------------------------
(* Facts about the queue.                                                   *)

Members(q) == {q[i] : i \in DOMAIN q}

Distinct(q) == \A i, j \in DOMAIN q : q[i] = q[j] => i = j

(* The first waiter leaves. *)
LEMMA QueueTail ==
  ASSUME NEW q \in Seq(Requests), q # <<>>, Distinct(q)
  PROVE  /\ Head(q) \in Members(q) \cap Requests
         /\ Tail(q) \in Seq(Requests)
         /\ Members(Tail(q)) = Members(q) \ {Head(q)}
         /\ Distinct(Tail(q))
<1>1. /\ Len(q) \in Nat \ {0} /\ DOMAIN q = 1 .. Len(q)
      /\ Head(q) = q[1] /\ Head(q) \in Requests
      /\ Tail(q) \in Seq(Requests)
      /\ Len(Tail(q)) = Len(q) - 1
      /\ \A i \in 1 .. Len(Tail(q)) : Tail(q)[i] = q[i + 1]
  BY HeadTailProperties, LenProperties
<1>2. DOMAIN Tail(q) = 1 .. Len(q) - 1
  BY <1>1, LenProperties
<1>3. Distinct(Tail(q))
  BY <1>1, <1>2 DEF Distinct
<1>4. Members(Tail(q)) \subseteq Members(q) \ {Head(q)}
  BY <1>1, <1>2 DEF Distinct, Members
<1>5. ASSUME NEW i \in 2 .. Len(q)
      PROVE  q[i] \in Members(Tail(q))
  <2>1. i - 1 \in DOMAIN Tail(q) /\ Tail(q)[i - 1] = q[i]
    BY <1>1, <1>2
  <2> QED
    BY <2>1 DEF Members
<1>6. Members(q) \ {Head(q)} \subseteq Members(Tail(q))
  BY <1>1, <1>5 DEF Members
<1>7. Head(q) \in Members(q)
  BY <1>1 DEF Members
<1> QED
  BY <1>1, <1>3, <1>4, <1>6, <1>7

(* A waiter arrives. *)
LEMMA QueueAppend ==
  ASSUME NEW q \in Seq(Requests), Distinct(q), NEW r \in Requests, r \notin Members(q)
  PROVE  /\ Append(q, r) \in Seq(Requests)
         /\ Members(Append(q, r)) = Members(q) \cup {r}
         /\ Distinct(Append(q, r))
<1>1. /\ Append(q, r) \in Seq(Requests)
      /\ Len(Append(q, r)) = Len(q) + 1
      /\ \A i \in 1 .. Len(q) : Append(q, r)[i] = q[i]
      /\ Append(q, r)[Len(q) + 1] = r
  BY AppendProperties
<1>2. /\ Len(q) \in Nat /\ DOMAIN q = 1 .. Len(q)
      /\ DOMAIN Append(q, r) = 1 .. Len(q) + 1
  BY <1>1, LenProperties
<1>3. Distinct(Append(q, r))
  BY <1>1, <1>2 DEF Distinct, Members
<1>4. Members(Append(q, r)) \subseteq Members(q) \cup {r}
  BY <1>1, <1>2 DEF Members
<1>5. ASSUME NEW i \in DOMAIN q
      PROVE  q[i] \in Members(Append(q, r))
  <2>1. i \in DOMAIN Append(q, r) /\ Append(q, r)[i] = q[i]
    BY <1>1, <1>2
  <2> QED
    BY <2>1 DEF Members
<1>6. r \in Members(Append(q, r))
  BY <1>1, <1>2 DEF Members
<1> QED
  BY <1>1, <1>3, <1>4, <1>5, <1>6 DEF Members

(* A waiter leaves from anywhere. *)
LEMMA QueueRemove ==
  ASSUME NEW q \in Seq(Requests), Distinct(q), NEW k \in DOMAIN q
  PROVE  /\ RemoveAt(q, k) \in Seq(Requests)
         /\ Members(RemoveAt(q, k)) = Members(q) \ {q[k]}
         /\ Distinct(RemoveAt(q, k))
<1> DEFINE before == SubSeq(q, 1, k - 1)
           after  == SubSeq(q, k + 1, Len(q))
           left   == RemoveAt(q, k)
<1>1. /\ Len(q) \in Nat /\ k \in 1 .. Len(q) /\ DOMAIN q = 1 .. Len(q)
      /\ \A i \in 1 .. Len(q) : q[i] \in Requests
  BY LenProperties, ElementOfSeq
<1>2. /\ before \in Seq(Requests) /\ Len(before) = k - 1
      /\ \A i \in 1 .. k - 1 : before[i] = q[i]
  BY <1>1, SubSeqProperties
<1>3. /\ after \in Seq(Requests) /\ Len(after) = Len(q) - k
      /\ \A i \in 1 .. Len(q) - k : after[i] = q[k + i]
  BY <1>1, SubSeqProperties
<1>4. left = before \o after
  BY DEF RemoveAt
<1> HIDE DEF before, after, left
<1>5. /\ left \in Seq(Requests)
      /\ DOMAIN left = 1 .. Len(q) - 1
      /\ \A i \in 1 .. Len(q) - 1 :
           left[i] = IF i < k THEN q[i] ELSE q[i + 1]
  <2>1. /\ left \in Seq(Requests) /\ Len(left) = Len(before) + Len(after)
        /\ \A i \in 1 .. Len(before) + Len(after) :
             left[i] = IF i <= Len(before) THEN before[i] ELSE after[i - Len(before)]
    BY <1>2, <1>3, <1>4, ConcatProperties
  <2>2. Len(before) + Len(after) = Len(q) - 1
    BY <1>1, <1>2, <1>3
  <2>3. DOMAIN left = 1 .. Len(q) - 1
    BY <2>1, <2>2, LenProperties
  <2>4. ASSUME NEW i \in 1 .. Len(q) - 1
        PROVE  left[i] = IF i < k THEN q[i] ELSE q[i + 1]
    <3>1. left[i] = IF i <= k - 1 THEN before[i] ELSE after[i - (k - 1)]
      BY <2>1, <2>2, <1>2
    <3>2. CASE i < k
      BY <3>1, <3>2, <1>1, <1>2
    <3>3. CASE ~(i < k)
      <4>1. i - (k - 1) \in 1 .. Len(q) - k /\ k + (i - (k - 1)) = i + 1
        BY <3>3, <1>1
      <4> QED
        BY <3>1, <3>3, <4>1, <1>1, <1>3
    <3> QED
      BY <3>2, <3>3
  <2> QED
    BY <2>1, <2>3, <2>4
<1>6. ASSUME NEW i \in DOMAIN left, NEW j \in DOMAIN left, left[i] = left[j]
      PROVE  i = j
  <2>1. /\ i \in Int /\ j \in Int
        /\ (IF i < k THEN i ELSE i + 1) \in DOMAIN q
        /\ (IF j < k THEN j ELSE j + 1) \in DOMAIN q
    BY <1>1, <1>5
  <2>2. (IF i < k THEN i ELSE i + 1) = (IF j < k THEN j ELSE j + 1)
    BY <2>1, <1>5, <1>6 DEF Distinct
  <2> QED
    BY <2>1, <2>2, <1>1
<1>7. Members(left) \subseteq Members(q) \ {q[k]}
  BY <1>1, <1>5 DEF Members, Distinct
<1>8. ASSUME NEW i \in DOMAIN q, i # k
      PROVE  q[i] \in Members(left)
  <2>1. \E j \in DOMAIN left : left[j] = q[i]
    <3>1. CASE i < k
      BY <3>1, <1>1, <1>5
    <3>2. CASE i > k
      <4>1. i - 1 \in DOMAIN left /\ left[i - 1] = q[i]
        BY <3>2, <1>1, <1>5
      <4> QED
        BY <4>1
    <3> QED
      BY <3>1, <3>2, <1>1, <1>8
  <2> QED
    BY <2>1 DEF Members
<1>9. Members(q) \ {q[k]} \subseteq Members(left)
  BY <1>8 DEF Members
<1> QED
  BY <1>5, <1>6, <1>7, <1>9 DEF left, Distinct

-----------------------------------------------------------------------------
(* The inductive invariant.                                                 *)

(* A waiter stands in the queue once. *)
NobodyTwice == Distinct(queue)

(* There are no logins without a server. *)
DownIsEmpty == ~up => \A r \in Requests : logins[r] = Idle

(* What verifying a login will say. *)
Judged(login) ==
  IF login.found # None /\ HasPassword(login.found, login.password)
  THEN login.found.id ELSE None

(* What a login deserves now is among the verdicts of its time, and so is   *)
(* what it will get for the user it found.                                  *)
VerdictsAreKept ==
  \A r \in Requests :
    /\ Running(r) => Right(Source, logins[r]) \in truths[r]
    /\ In(r, "verifying") => Judged(logins[r]) \in truths[r]

IInv ==
  /\ TypeOK
  /\ PermitsBalanced /\ WaitsOnlyWhenBusy /\ NobodyTwice
  /\ DownIsEmpty /\ VerdictsAreKept /\ VerdictIsRecent

Busy == {r \in Requests : Running(r)}

WaitingNow == {r \in Requests : In(r, "waiting")}

-----------------------------------------------------------------------------
(* What a step does to the permits, the queue and the logins.               *)

(* A login is over and its permit free again. *)
Freed(r, l) ==
  /\ queue = <<>> /\ queue' = <<>>
  /\ permits' = permits + 1
  /\ logins' = [logins EXCEPT ![r] = l]
  /\ truths' = truths

(* A login is over and its permit with the next one. *)
PassedOn(r, l, next) ==
  /\ next # r /\ In(next, "waiting")
  /\ permits' = permits
  /\ logins' = [logins EXCEPT ![r] = l, ![next] = Asked(next, "granted")]
  /\ truths' = [truths EXCEPT ![next] = {Right(Source, logins[next])}]
  /\ queue' \in Seq(Requests) /\ NobodyTwice'
  /\ Members(queue') = Members(queue) \ {next}

(* A permit that comes back is free, or with the first waiter. *)
LEMMA ReleaseEffect ==
  ASSUME IInv, NEW r \in Requests, Running(r), NEW l,
         Release([logins EXCEPT ![r] = l])
  PROVE  Freed(r, l) \/ \E next \in Requests : PassedOn(r, l, next)
<1> DEFINE next == Head(queue)
<1>1. CASE queue = <<>>
  BY <1>1 DEF Release, Freed
<1>2. CASE queue # <<>>
  <2>1. /\ next \in Members(queue) \cap Requests
        /\ Tail(queue) \in Seq(Requests)
        /\ Members(Tail(queue)) = Members(queue) \ {next}
        /\ Distinct(Tail(queue))
    BY <1>2, QueueTail DEF IInv, TypeOK, NobodyTwice
  <2>2. next \in WaitingNow
    BY <2>1 DEF IInv, WaitsOnlyWhenBusy, Members, WaitingNow
  <2>3. next # r
    BY <2>2 DEF WaitingNow, Running, In
  <2>4. /\ permits' = permits /\ queue' = Tail(queue)
        /\ Handover(next, [logins EXCEPT ![r] = l])
    BY <1>2 DEF Release
  <2> HIDE DEF next
  <2>5. PassedOn(r, l, next)
    BY <2>1, <2>2, <2>3, <2>4 DEF PassedOn, Handover, NobodyTwice, WaitingNow
  <2> QED
    BY <2>1, <2>5
<1> QED
  BY <1>1, <1>2

(* A login that is over is idle or has its answer. *)
Over(l) == l \in Login /\ l.phase \in {"idle", "answered"}

(* The actions that give a permit back. *)
LEMMA AnswerEffect ==
  ASSUME IInv, NEW r \in Requests, Running(r), NEW verdict \in Verdict,
         Answer(r, verdict)
  PROVE  \E l : /\ Over(l)
                /\ l.phase = "answered" => l.verdict = verdict
                /\ Freed(r, l) \/ \E next \in Requests : PassedOn(r, l, next)
<1> DEFINE login == logins[r]
           l == IF login.connected
                THEN [phase |-> "answered", user |-> login.user,
                      password |-> login.password, verdict |-> verdict]
                ELSE Idle
<1>1. login.user \in Names /\ login.password \in Passwords
  BY LoginFields DEF IInv, TypeOK, Running
<1>2. Over(l)
  BY <1>1 DEF Over, Login, Idle
<1>3. l.phase = "answered" => l.verdict = verdict
  BY DEF Idle
<1>4. Release([logins EXCEPT ![r] = l])
  BY DEF Answer
<1> HIDE DEF l
<1> QED
  BY <1>2, <1>3, <1>4, ReleaseEffect

(* A login that gets its permit is well formed. *)
LEMMA GrantedLogin ==
  ASSUME TypeOK, NEW r \in Requests, In(r, "waiting")
  PROVE  /\ Asked(r, "granted") \in Login
         /\ Asked(r, "granted").phase = "granted"
         /\ Asked(r, "granted").user = logins[r].user
         /\ Asked(r, "granted").password = logins[r].password
<1>1. logins[r].user \in Names /\ logins[r].password \in Passwords
  BY LoginFields DEF TypeOK, In
<1> QED
  BY <1>1 DEF Asked, Login

(* The sets of logins are finite. *)
LEMMA BusyIsFinite == IsFiniteSet(Busy) /\ IsFiniteSet(Busy')
BY RequestsAreFinite, FS_Subset DEF Busy

(* Giving a permit back keeps the invariant. *)
LEMMA GivingBack ==
  ASSUME IInv, NEW r \in Requests, Running(r), NEW l, Over(l),
         l.phase = "answered" => l.verdict \in truths[r],
         Freed(r, l) \/ \E next \in Requests : PassedOn(r, l, next),
         UNCHANGED <<server, table>>
  PROVE  IInv'
<1>1. l.phase \notin {"waiting", "granted", "looking_up", "verifying"}
  BY LoginFields DEF Over
<1>2. Source' = Source /\ UNCHANGED <<provider, users, up, table>>
  BY DEF server, Source
<1>3. up
  BY LoginFields DEF IInv, TypeOK, DownIsEmpty, Running, Idle
<1>4. r \in Busy /\ Cardinality(Busy) \in Nat \ {0}
      /\ Cardinality(Busy \ {r}) = Cardinality(Busy) - 1
      /\ IsFiniteSet(Busy \ {r})
  BY BusyIsFinite, FS_CardinalityType, FS_EmptySet, FS_RemoveElement DEF Busy
<1>5. permits + Cardinality(Busy) = Limit /\ permits \in Nat /\ Limit \in Nat
  BY ParametersAreWellFormed DEF IInv, PermitsBalanced, TypeOK, Busy
<1>6. CASE Freed(r, l)
  <2>1. /\ logins' = [logins EXCEPT ![r] = l] /\ logins' \in [Requests -> Login]
        /\ \A q \in Requests : logins'[q] = IF q = r THEN l ELSE logins[q]
    BY <1>6 DEF Freed, IInv, TypeOK, Over
  <2>2. Busy' = Busy \ {r}
    BY <2>1, <1>1 DEF Busy, Running
  <2>3. PermitsBalanced' /\ permits' \in 0 .. Limit
    <3>1. Cardinality(Busy') = Cardinality(Busy) - 1
      BY <2>2, <1>4
    <3>2. permits' + Cardinality(Busy') = Limit /\ permits' \in 0 .. Limit
      BY <3>1, <1>4, <1>5, <1>6 DEF Freed
    <3> QED
      BY <3>2 DEF PermitsBalanced, Busy
  <2>4. TypeOK'
    BY <2>1, <2>3, <1>2, <1>6 DEF Freed, IInv, TypeOK
  <2>5. Members(queue) = {} /\ WaitingNow = {}
    BY <1>6 DEF Freed, Members, IInv, WaitsOnlyWhenBusy, WaitingNow
  <2>6. WaitsOnlyWhenBusy'
    BY <2>1, <2>5, <1>1, <1>6
    DEF Freed, WaitsOnlyWhenBusy, Members, WaitingNow, In
  <2>7. NobodyTwice'
    BY <1>6 DEF Freed, NobodyTwice, IInv
  <2>8. VerdictsAreKept'
    BY <2>1, <1>1, <1>2, <1>6, RightReadsTheForm
    DEF Freed, IInv, VerdictsAreKept, Running, In, Right, Judged
  <2>9. VerdictIsRecent'
    BY <2>1, <1>6 DEF Freed, IInv, VerdictIsRecent, In
  <2> QED
    BY <2>3, <2>4, <2>6, <2>7, <2>8, <2>9, <1>2, <1>3 DEF IInv, DownIsEmpty
<1>7. ASSUME NEW next \in Requests, PassedOn(r, l, next)
      PROVE  IInv'
  <2> DEFINE g == Asked(next, "granted")
  <2>1. /\ g \in Login /\ g.phase = "granted"
        /\ g.user = logins[next].user /\ g.password = logins[next].password
    BY <1>7, GrantedLogin DEF PassedOn, IInv
  <2> HIDE DEF g
  <2>2. /\ next # r
        /\ logins' \in [Requests -> Login]
        /\ \A q \in Requests : logins'[q] = IF q = r THEN l
                                            ELSE IF q = next THEN g ELSE logins[q]
    BY <1>7, <2>1 DEF PassedOn, IInv, TypeOK, Over, g
  <2>3. /\ truths' \in [Requests -> SUBSET Verdict]
        /\ truths'[next] = {Right(Source, logins[next])}
        /\ \A q \in Requests : q # next => truths'[q] = truths[q]
    <3>1. Right(Source, logins[next]) \in Verdict
      BY RightIsVerdict, SourceIsKnown DEF IInv
    <3> QED
      BY <3>1, <1>7 DEF PassedOn, IInv, TypeOK
  <2>4. TypeOK'
    BY <2>2, <2>3, <1>2, <1>7 DEF PassedOn, IInv, TypeOK
  <2>5. next \notin Busy /\ Busy' = (Busy \ {r}) \cup {next}
    BY <2>1, <2>2, <1>1, <1>7 DEF Busy, Running, PassedOn, In
  <2>6. Cardinality(Busy') = Cardinality(Busy)
    BY <2>5, <1>4, FS_AddElement
  <2>7. PermitsBalanced'
    BY <2>6, <1>5, <1>7 DEF PassedOn, PermitsBalanced, Busy
  <2>8. WaitingNow' = WaitingNow \ {next}
    BY <2>1, <2>2, <1>1 DEF WaitingNow, In, Running
  <2>9. WaitsOnlyWhenBusy'
    BY <2>8, <1>7 DEF PassedOn, IInv, WaitsOnlyWhenBusy, WaitingNow, Members
  <2>10. VerdictsAreKept'
    <3>1. Right(Source, g) = Right(Source, logins[next])
      BY <2>1, RightReadsTheForm
    <3> QED
      BY <3>1, <2>1, <2>2, <2>3, <1>1, <1>2
      DEF IInv, VerdictsAreKept, Running, In, Right, Judged
  <2>11. VerdictIsRecent'
    BY <2>1, <2>2, <2>3 DEF IInv, VerdictIsRecent, In
  <2> QED
    BY <2>4, <2>7, <2>9, <2>10, <2>11, <1>2, <1>3, <1>7
    DEF PassedOn, IInv, DownIsEmpty
<1> QED
  BY <1>6, <1>7

-----------------------------------------------------------------------------
(* The invariant holds at first, and every step keeps it.                   *)

(* A server that has not started satisfies the invariant. *)
LEMMA InitIInv == Init => IInv
<1> SUFFICES ASSUME Init PROVE IInv
  OBVIOUS
<1>1. /\ \A r \in Requests : logins[r] = Idle /\ truths[r] = {}
      /\ queue = <<>> /\ permits = Limit
  BY DEF Init
<1>2. TypeOK
  <2>1. Limit \in 0 .. Limit
    BY ParametersAreWellFormed
  <2>2. logins \in [Requests -> Login]
    BY DEF Init, Login
  <2>3. queue \in Seq(Requests)
    BY <1>1
  <2>4. truths \in [Requests -> SUBSET Verdict]
    BY DEF Init
  <2> QED
    BY <2>1, <2>2, <2>3, <2>4 DEF Init, TypeOK
<1>3. Busy = {} /\ WaitingNow = {} /\ Members(queue) = {}
  BY <1>1 DEF Busy, WaitingNow, Members, Running, In, Idle
<1>4. PermitsBalanced
  <2>1. permits + Cardinality(Busy) = Limit
    BY <1>1, <1>3, FS_EmptySet, ParametersAreWellFormed
  <2> QED
    BY <2>1 DEF PermitsBalanced, Busy
<1>5. WaitsOnlyWhenBusy
  BY <1>3 DEF WaitsOnlyWhenBusy, WaitingNow, Members
<1>6. NobodyTwice
  BY <1>1 DEF NobodyTwice, Distinct
<1> QED
  BY <1>1, <1>2, <1>4, <1>5, <1>6
  DEF IInv, DownIsEmpty, VerdictsAreKept, VerdictIsRecent, Running, In, Idle

(* A login that waits for no permit and has none yet. *)
LEMMA SubmitStep ==
  ASSUME IInv, NEW r \in Requests, NEW user \in Names, NEW password \in Passwords,
         Submit(r, user, password)
  PROVE  IInv'
<1> DEFINE login(phase) == [phase |-> phase, user |-> user, password |-> password]
<1>1. Source' = Source /\ UNCHANGED <<provider, users, up, table>> /\ up
  BY DEF Submit, server, Source
<1>2. r \notin Busy /\ r \notin WaitingNow /\ logins[r].phase = "idle"
  BY DEF Submit, In, Busy, WaitingNow, Running
<1>3. permits + Cardinality(Busy) = Limit /\ permits \in Nat /\ Limit \in Nat
      /\ Cardinality(Busy) \in Nat
  BY ParametersAreWellFormed, BusyIsFinite, FS_CardinalityType
  DEF IInv, PermitsBalanced, TypeOK, Busy
<1>4. CASE permits > 0
  <2> DEFINE l == login("granted")
  <2>1. l \in Login /\ l.phase = "granted"
    BY DEF Login
  <2>2. Right(Source, l) \in Verdict
    BY RightIsVerdict, SourceIsKnown DEF IInv
  <2>3. /\ permits' = permits - 1 /\ queue' = queue
        /\ logins' = [logins EXCEPT ![r] = l]
        /\ truths' = [truths EXCEPT ![r] = {Right(Source, l)}]
    BY <1>4 DEF Submit
  <2> HIDE DEF l
  <2>4. /\ logins' \in [Requests -> Login]
        /\ \A q \in Requests : logins'[q] = IF q = r THEN l ELSE logins[q]
        /\ truths' \in [Requests -> SUBSET Verdict]
        /\ \A q \in Requests : truths'[q] = IF q = r THEN {Right(Source, l)}
                                            ELSE truths[q]
    BY <2>1, <2>2, <2>3 DEF IInv, TypeOK
  <2>5. Busy' = Busy \cup {r} /\ WaitingNow' = WaitingNow
    BY <2>1, <2>4, <1>2 DEF Busy, WaitingNow, Running, In
  <2>6. PermitsBalanced' /\ permits' \in 0 .. Limit
    <3>1. Cardinality(Busy') = Cardinality(Busy) + 1
      BY <2>5, <1>2, BusyIsFinite, FS_AddElement
    <3>2. permits' + Cardinality(Busy') = Limit /\ permits' \in 0 .. Limit
      BY <3>1, <2>3, <1>3, <1>4
    <3> QED
      BY <3>2 DEF PermitsBalanced, Busy
  <2>7. TypeOK'
    BY <2>3, <2>4, <2>6, <1>1 DEF IInv, TypeOK
  <2>8. WaitingNow = {}
    BY <1>4 DEF IInv, WaitsOnlyWhenBusy, WaitingNow, TypeOK
  <2>9. WaitsOnlyWhenBusy'
    BY <2>3, <2>5, <2>8 DEF IInv, WaitsOnlyWhenBusy, WaitingNow
  <2>10. VerdictsAreKept' /\ VerdictIsRecent'
    BY <2>1, <2>4, <1>1
    DEF IInv, VerdictsAreKept, VerdictIsRecent, Running, In, Right, Judged
  <2> QED
    BY <2>3, <2>6, <2>7, <2>9, <2>10, <1>1 DEF IInv, NobodyTwice, DownIsEmpty
<1>5. CASE ~(permits > 0)
  <2> DEFINE l == login("waiting")
  <2>1. l \in Login /\ l.phase = "waiting"
    BY DEF Login
  <2>2. /\ permits' = permits /\ queue' = Append(queue, r)
        /\ logins' = [logins EXCEPT ![r] = l] /\ truths' = truths
    BY <1>5 DEF Submit
  <2> HIDE DEF l
  <2>3. /\ logins' \in [Requests -> Login]
        /\ \A q \in Requests : logins'[q] = IF q = r THEN l ELSE logins[q]
    BY <2>1, <2>2 DEF IInv, TypeOK
  <2>4. r \notin Members(queue)
    BY <1>2 DEF IInv, WaitsOnlyWhenBusy, WaitingNow, Members
  <2>5. /\ queue' \in Seq(Requests) /\ NobodyTwice'
        /\ Members(queue') = Members(queue) \cup {r}
    BY <2>2, <2>4, QueueAppend DEF IInv, TypeOK, NobodyTwice
  <2>6. TypeOK'
    BY <2>2, <2>3, <2>5, <1>1 DEF IInv, TypeOK
  <2>7. Busy' = Busy /\ WaitingNow' = WaitingNow \cup {r}
    BY <2>1, <2>3, <1>2 DEF Busy, WaitingNow, Running, In
  <2>8. PermitsBalanced'
    BY <2>2, <2>7, <1>3 DEF PermitsBalanced, Busy
  <2>9. WaitsOnlyWhenBusy'
    <3>1. permits' = 0
      BY <2>2, <1>3, <1>5
    <3>2. Members(queue') = WaitingNow'
      BY <2>5, <2>7 DEF IInv, WaitsOnlyWhenBusy, WaitingNow, Members
    <3> QED
      BY <3>1, <3>2 DEF WaitsOnlyWhenBusy, WaitingNow, Members
  <2>10. VerdictsAreKept' /\ VerdictIsRecent'
    BY <2>1, <2>2, <2>3, <1>1
    DEF IInv, VerdictsAreKept, VerdictIsRecent, Running, In, Right, Judged
  <2> QED
    BY <2>5, <2>6, <2>8, <2>9, <2>10, <1>1 DEF IInv, DownIsEmpty
<1> QED
  BY <1>4, <1>5

(* Nothing but the phase of a login changes, and its answer is in order. *)
LEMMA PhaseStep ==
  ASSUME IInv, NEW r \in Requests, NEW l \in Login,
         logins' = [logins EXCEPT ![r] = l],
         UNCHANGED <<server, table, permits, queue, truths>>,
         ~In(r, "waiting"), l.phase # "waiting", up,
         Running(r) <=> l.phase \in {"granted", "looking_up", "verifying"},
         Running(r) => l.user = logins[r].user /\ l.password = logins[r].password,
         l.phase = "verifying" => Judged(l) \in truths[r],
         l.phase # "answered"
  PROVE  IInv'
<1>1. /\ \A q \in Requests : logins'[q] = IF q = r THEN l ELSE logins[q]
      /\ logins' \in [Requests -> Login]
  BY DEF IInv, TypeOK
<1>2. Source' = Source /\ UNCHANGED <<provider, users, up, table>>
  BY DEF server, Source
<1>3. TypeOK'
  BY <1>1, <1>2 DEF IInv, TypeOK
<1>4. Busy' = Busy /\ WaitingNow' = WaitingNow
  BY <1>1 DEF Busy, WaitingNow, Running, In
<1>5. PermitsBalanced' /\ WaitsOnlyWhenBusy'
  BY <1>4 DEF IInv, PermitsBalanced, WaitsOnlyWhenBusy, Busy, WaitingNow
<1>6. VerdictsAreKept'
  <2>1. Running(r) => Right(Source, l) = Right(Source, logins[r])
    BY RightReadsTheForm
  <2> QED
    BY <2>1, <1>1, <1>2 DEF IInv, VerdictsAreKept, Running, In, Right, Judged
<1>7. VerdictIsRecent'
  BY <1>1 DEF IInv, VerdictIsRecent, In
<1> QED
  BY <1>2, <1>3, <1>5, <1>6, <1>7 DEF IInv, NobodyTwice, DownIsEmpty

(* Where there is a login, there is a server. *)
LEMMA UpWhenLoggingIn ==
  ASSUME IInv, NEW r \in Requests, ~In(r, "idle")
  PROVE  up
BY DEF IInv, DownIsEmpty, In, Idle, TypeOK

(* Spawn: the login keeps its permit. *)
LEMMA SpawnStep ==
  ASSUME IInv, NEW r \in Requests, Spawn(r)
  PROVE  IInv'
<1> DEFINE l == [phase |-> "looking_up", user |-> logins[r].user,
                 password |-> logins[r].password, connected |-> TRUE]
<1>1. logins[r].user \in Names /\ logins[r].password \in Passwords
  BY LoginFields DEF Spawn, In, IInv, TypeOK
<1>2. l \in Login /\ up
  BY <1>1, UpWhenLoggingIn DEF Login, Spawn, In
<1> QED
  BY <1>2, PhaseStep DEF Spawn, In, Running

(* What a lookup finds, and what the login deserves by it. *)
LEMMA LookUpStep ==
  ASSUME IInv, NEW r \in Requests, LookUp(r)
  PROVE  IInv'
<1> DEFINE login == logins[r]
           found == FindEnabledUser(login.user)
<1>1. /\ login.user \in Names /\ login.password \in Passwords
      /\ login.connected \in BOOLEAN /\ Running(r) /\ ~In(r, "idle")
  BY LoginFields DEF LookUp, In, IInv, TypeOK, Running
<1>2. found = Find(Source, login.user) /\ found \in (UNION Tables) \cup {None}
  <2>1. Source \in SUBSET UNION Tables
    BY SourceIsKnown DEF IInv
  <2>2. found = Find(Source, login.user)
    BY DEF FindEnabledUser
  <2>3. Find(Source, login.user) \in Source \cup {None}
    BY <2>1, FindsUsers
  <2>4. Source \subseteq UNION Tables
    BY <2>1
  <2> HIDE DEF found, login
  <2> QED
    BY <2>2, <2>3, <2>4
<1>3. Right(Source, login) \in truths[r] /\ UNCHANGED <<server, table>>
  BY <1>1 DEF IInv, VerdictsAreKept, LookUp
<1>4. CASE provider = "sqlite" /\ found # None /\ ~WellFormed(found)
  <2>1. Right(Source, login) = Failed
    BY <1>2, <1>4 DEF Right
  <2>2. Answer(r, Failed) /\ Failed \in Verdict
    BY <1>4 DEF LookUp, Verdict
  <2> QED
    BY <2>1, <2>2, <1>1, <1>3, AnswerEffect, GivingBack
<1>5. CASE ~(provider = "sqlite" /\ found # None /\ ~WellFormed(found))
  <2> DEFINE l == [phase |-> "verifying", user |-> login.user,
                   password |-> login.password, found |-> found,
                   connected |-> login.connected]
  <2>1. l \in Login
    BY <1>1, <1>2 DEF Login
  <2>2. Judged(l) = Right(Source, login)
    BY <1>2, <1>5 DEF Judged, Right
  <2>3. logins' = [logins EXCEPT ![r] = l] /\ UNCHANGED <<permits, queue, truths>>
    BY <1>5 DEF LookUp
  <2>4. l.phase = "verifying" /\ l.user = login.user /\ l.password = login.password
    OBVIOUS
  <2>5. up /\ ~In(r, "waiting")
    BY <1>1, UpWhenLoggingIn DEF Running, In
  <2> HIDE DEF l, found, login
  <2> QED
    BY <2>1, <2>2, <2>3, <2>4, <2>5, <1>1, <1>3, PhaseStep DEF login
<1> QED
  BY <1>4, <1>5

(* The verdict was kept since the lookup. *)
LEMMA VerifyStep ==
  ASSUME IInv, NEW r \in Requests, Verify(r)
  PROVE  IInv'
<1>1. Running(r) /\ Judged(logins[r]) \in truths[r] /\ UNCHANGED <<server, table>>
  BY DEF Verify, In, Running, IInv, VerdictsAreKept
<1>2. Judged(logins[r]) \in Verdict
  BY <1>1 DEF IInv, TypeOK
<1>3. Answer(r, Judged(logins[r]))
  BY DEF Verify, Judged
<1> QED
  BY <1>1, <1>2, <1>3, AnswerEffect, GivingBack

(* Done: an answered login has no permit any more. *)
LEMMA DoneStep ==
  ASSUME IInv, NEW r \in Requests, Done(r)
  PROVE  IInv'
<1>1. Idle \in Login /\ Idle.phase = "idle"
  BY DEF Login, Idle
<1>2. up
  BY UpWhenLoggingIn DEF Done, In
<1> QED
  BY <1>1, <1>2, PhaseStep DEF Done, In, Running

(* Disconnect: a waiter leaves the queue, a permit goes on. *)
LEMMA DisconnectStep ==
  ASSUME IInv, NEW r \in Requests, Disconnect(r)
  PROVE  IInv'
<1>1. UNCHANGED <<server, table>> /\ Source' = Source
      /\ UNCHANGED <<provider, users, up>>
  BY DEF Disconnect, server, Source
<1>2. Idle \in Login /\ Idle.phase = "idle" /\ Over(Idle)
  BY DEF Login, Idle, Over
<1>3. ASSUME In(r, "waiting"), NEW i \in DOMAIN queue, queue[i] = r,
             queue' = RemoveAt(queue, i), logins' = [logins EXCEPT ![r] = Idle],
             UNCHANGED <<permits, truths>>
      PROVE  IInv'
  <2>1. /\ queue' \in Seq(Requests) /\ NobodyTwice'
        /\ Members(queue') = Members(queue) \ {r}
    BY <1>3, QueueRemove DEF IInv, TypeOK, NobodyTwice
  <2>2. /\ logins' \in [Requests -> Login]
        /\ \A q \in Requests : logins'[q] = IF q = r THEN Idle ELSE logins[q]
    BY <1>2, <1>3 DEF IInv, TypeOK
  <2>3. TypeOK'
    BY <2>1, <2>2, <1>1, <1>3 DEF IInv, TypeOK
  <2>4. Busy' = Busy /\ WaitingNow' = WaitingNow \ {r}
    BY <2>2, <1>2, <1>3 DEF Busy, WaitingNow, Running, In
  <2>5. PermitsBalanced'
    BY <2>4, <1>3 DEF IInv, PermitsBalanced, Busy
  <2>6. WaitsOnlyWhenBusy'
    BY <2>1, <2>4, <1>3 DEF IInv, WaitsOnlyWhenBusy, WaitingNow, Members
  <2>7. VerdictsAreKept' /\ VerdictIsRecent'
    BY <2>2, <1>1, <1>2, <1>3
    DEF IInv, VerdictsAreKept, VerdictIsRecent, Running, In, Right, Judged
  <2> QED
    BY <2>1, <2>2, <2>3, <2>5, <2>6, <2>7, <1>1 DEF IInv, DownIsEmpty
<1>4. CASE In(r, "granted") /\ Release([logins EXCEPT ![r] = Idle])
  <2>1. Running(r)
    BY <1>4 DEF In, Running
  <2> QED
    BY <2>1, <1>1, <1>2, <1>4, ReleaseEffect, GivingBack
<1>5. CASE /\ logins[r].phase \in {"looking_up", "verifying"} /\ logins[r].connected
           /\ logins' = [logins EXCEPT ![r].connected = FALSE]
           /\ UNCHANGED <<permits, queue, truths>>
  <2> DEFINE l == [logins[r] EXCEPT !.connected = FALSE]
  <2>0. logins[r] \in Login
    BY DEF IInv, TypeOK
  <2>1. l \in Login /\ logins' = [logins EXCEPT ![r] = l]
    <3>1. ASSUME logins[r].phase = "looking_up" PROVE l \in Login
      BY <3>1, <2>0 DEF Login, Idle
    <3>2. ASSUME logins[r].phase = "verifying" PROVE l \in Login
      BY <3>2, <2>0 DEF Login, Idle
    <3>3. logins' = [logins EXCEPT ![r] = l]
      BY <1>5
    <3> QED
      BY <3>1, <3>2, <3>3, <1>5
  <2>2. /\ l.phase = logins[r].phase /\ l.user = logins[r].user
        /\ l.password = logins[r].password
        /\ l.phase = "verifying" => Judged(l) = Judged(logins[r])
    BY <1>5 DEF IInv, TypeOK, Login, Idle, Judged
  <2>3. l.phase = "verifying" => Judged(l) \in truths[r]
    BY <2>2 DEF IInv, VerdictsAreKept, In
  <2>4. up
    BY <1>5, UpWhenLoggingIn DEF In
  <2> HIDE DEF l
  <2> QED
    BY <2>1, <2>2, <2>3, <2>4, <1>1, <1>5, PhaseStep DEF Running, In
<1> QED
  BY <1>3, <1>4, <1>5 DEF Disconnect

(* An edit adds to what counts as right, and takes nothing away. *)
LEMMA EditStep ==
  ASSUME IInv, NEW edited \in Tables, EditUsers(edited)
  PROVE  IInv'
<1>1. /\ provider' = provider /\ users' = users /\ up' = up /\ permits' = permits
      /\ queue' = queue /\ logins' = logins /\ table' = edited
  BY DEF EditUsers, server
<1>2. \A r \in Requests : truths'[r] =
        IF Running(r) /\ provider = "sqlite"
        THEN truths[r] \cup {Right(edited, logins[r])} ELSE truths[r]
  BY DEF EditUsers
<1>3. TypeOK'
  <2>1. \A r \in Requests : Right(edited, logins[r]) \in Verdict
    BY RightIsVerdict
  <2>2. truths' \in [Requests -> SUBSET Verdict]
    BY <2>1 DEF EditUsers, IInv, TypeOK
  <2> QED
    BY <2>2, <1>1 DEF IInv, TypeOK
<1>4. PermitsBalanced' /\ WaitsOnlyWhenBusy' /\ NobodyTwice' /\ DownIsEmpty'
  BY <1>1 DEF IInv, PermitsBalanced, WaitsOnlyWhenBusy, NobodyTwice, DownIsEmpty,
              Running, In
<1>5. VerdictsAreKept'
  BY <1>1, <1>2
  DEF IInv, TypeOK, VerdictsAreKept, Running, In, Right, Judged, Source
<1>6. VerdictIsRecent'
  BY <1>1, <1>2 DEF IInv, VerdictIsRecent, In
<1> QED
  BY <1>3, <1>4, <1>5, <1>6 DEF IInv

(* The server starts without logins. *)
LEMMA StartStep ==
  ASSUME IInv, Start
  PROVE  IInv'
<1>1. /\ provider' = provider /\ table' = table /\ permits' = permits
      /\ queue' = queue /\ logins' = logins /\ truths' = truths /\ up'
      /\ users' \in Tables \cup {{}}
      /\ \A r \in Requests : logins[r] = Idle
  BY DEF Start, IInv, TypeOK, DownIsEmpty
<1>2. TypeOK'
  BY <1>1 DEF IInv, TypeOK, Start
<1> QED
  BY <1>1, <1>2
  DEF IInv, PermitsBalanced, WaitsOnlyWhenBusy, NobodyTwice, DownIsEmpty,
      VerdictsAreKept, VerdictIsRecent, Running, In, Idle

(* A server that stops leaves what it began with. *)
LEMMA StopStep ==
  ASSUME IInv, Stop
  PROVE  IInv'
<1>1. /\ \A r \in Requests : logins'[r] = Idle /\ truths'[r] = {}
      /\ queue' = <<>> /\ permits' = Limit
  BY DEF Stop
<1>2. TypeOK'
  <2>1. Limit \in 0 .. Limit
    BY ParametersAreWellFormed
  <2>2. logins' \in [Requests -> Login]
    BY DEF Stop, Login
  <2>3. queue' \in Seq(Requests)
    BY <1>1
  <2>4. truths' \in [Requests -> SUBSET Verdict]
    BY DEF Stop
  <2> QED
    BY <2>1, <2>2, <2>3, <2>4 DEF IInv, TypeOK, Stop
<1>3. Busy' = {} /\ WaitingNow' = {} /\ Members(queue') = {}
  BY <1>1 DEF Busy, WaitingNow, Members, Running, In, Idle
<1>4. PermitsBalanced'
  <2>1. permits' + Cardinality(Busy') = Limit
    BY <1>1, <1>3, FS_EmptySet, ParametersAreWellFormed
  <2> QED
    BY <2>1 DEF PermitsBalanced, Busy
<1>5. WaitsOnlyWhenBusy'
  BY <1>3 DEF WaitsOnlyWhenBusy, WaitingNow, Members
<1>6. NobodyTwice'
  BY <1>1 DEF NobodyTwice, Distinct
<1> QED
  BY <1>1, <1>2, <1>4, <1>5, <1>6
  DEF IInv, DownIsEmpty, VerdictsAreKept, VerdictIsRecent, Running, In, Idle

(* Every step keeps the invariant. *)
LEMMA NextIInv == IInv /\ [Next]_vars => IInv'
<1> SUFFICES ASSUME IInv, [Next]_vars PROVE IInv'
  OBVIOUS
<1>1. CASE UNCHANGED vars
  <2>1. /\ provider' = provider /\ users' = users /\ up' = up /\ table' = table
        /\ permits' = permits /\ queue' = queue /\ logins' = logins
        /\ truths' = truths
    BY <1>1 DEF vars, server
  <2> QED
    BY <2>1
    DEF IInv, TypeOK, PermitsBalanced, WaitsOnlyWhenBusy, NobodyTwice, DownIsEmpty,
        VerdictsAreKept, VerdictIsRecent, Running, In, Right, Judged, Source
<1>2. CASE Next
  BY <1>2, SpawnStep, LookUpStep, VerifyStep, DoneStep, DisconnectStep, SubmitStep,
     EditStep, StartStep, StopStep DEF Next, Step
<1> QED
  BY <1>1, <1>2

(* The invariant holds at all times. *)
THEOREM Invariance == Spec => []IInv
BY InitIInv, NextIInv, PTL DEF Spec

(* The users, the permits, the queue and the logins are what they should    *)
(* be.                                                                      *)
THEOREM TypeCorrect == Spec => []TypeOK
<1>1. IInv => TypeOK
  BY DEF IInv
<1> QED
  BY <1>1, Invariance, PTL

(* No permit is lost or doubled, whoever leaves when. *)
THEOREM Balance == Spec => []PermitsBalanced
<1>1. IInv => PermitsBalanced
  BY DEF IInv
<1> QED
  BY <1>1, Invariance, PTL

(* Nobody waits for a permit that is free, and the queue holds just those   *)
(* that wait.                                                               *)
THEOREM NoLostWakeUp == Spec => []WaitsOnlyWhenBusy
<1>1. IInv => WaitsOnlyWhenBusy
  BY DEF IInv
<1> QED
  BY <1>1, Invariance, PTL

(* An answer was right at some time since the login had its permit. *)
THEOREM Recency == Spec => []VerdictIsRecent
<1>1. IInv => VerdictIsRecent
  BY DEF IInv
<1> QED
  BY <1>1, Invariance, PTL
=============================================================================
