-------------------------- MODULE AdminConsole_proofs --------------------------
(***************************************************************************)
(* Proofs about AdminConsole, for any administrators, passwords, browsers   *)
(* and tokens, any finite number of requests, and any limits and lifetimes. *)
(***************************************************************************)
EXTENDS AdminConsole, ExpiringMap_proofs, FiniteSetTheorems, SequenceTheorems,
        WellFoundedInduction, TLAPS

-----------------------------------------------------------------------------
(* Facts about the rate limit.                                              *)

(* Instants in the order of their entry, none of them in the future. *)
Ordered(s) ==
  /\ \A i, j \in DOMAIN s : i <= j => s[i] <= s[j]
  /\ \A i \in DOMAIN s : s[i] <= clock

AttemptsInOrder == Ordered(attempts)

(* The recent starts are covered, from the last one back, by attempts that  *)
(* are as recent: every start was an attempt.                               *)
StartsAreAttempts ==
  \A k \in 1 .. Len(starts) :
    Recent(starts[Len(starts) + 1 - k]) =>
      /\ k <= Len(attempts)
      /\ starts[Len(starts) + 1 - k] <= attempts[Len(attempts) + 1 - k]

Rates == AttemptsInOrder /\ StartsAreAttempts /\ RateLimited

(* Every nonempty set of natural numbers has a least element. *)
LEMMA LeastNumber ==
  ASSUME NEW S \in SUBSET Nat, S # {}
  PROVE  \E n \in S : \A m \in S : n <= m
<1>1. PICK n \in S : \A m \in S : ~(<<m, n>> \in OpToRel(<, Nat))
  BY NatLessThanWellFounded, WFMin
<1>2. \A m \in S : ~(m < n)
  BY <1>1 DEF OpToRel
<1> QED
  BY <1>2

(* Forgetting the old attempts leaves the recent ones, in their order. *)
LEMMA Forgetting ==
  ASSUME TypeOK, AttemptsInOrder
  PROVE  \E d \in 0 .. Len(attempts) :
           /\ RecentAttempts \in Seq(Nat)
           /\ Len(RecentAttempts) = Len(attempts) - d
           /\ \A i \in 1 .. Len(attempts) - d : RecentAttempts[i] = attempts[d + i]
           /\ \A i \in 1 .. Len(attempts) : Recent(attempts[i]) => i > d
<1> DEFINE n == Len(attempts)
           First(i) == /\ i \in DOMAIN attempts => Recent(attempts[i])
                       /\ \A j \in 1 .. i - 1 : ~Recent(attempts[j])
           S == {i \in 1 .. n + 1 : i \in DOMAIN attempts => Recent(attempts[i])}
           first == CHOOSE i \in 1 .. n + 1 : First(i)
<1>1. /\ n \in Nat /\ DOMAIN attempts = 1 .. n
      /\ attempts \in Seq(Nat) /\ \A i \in 1 .. n : attempts[i] \in Nat
  BY LenProperties, ElementOfSeq DEF TypeOK
<1> HIDE DEF n
<1>2. \E i \in 1 .. n + 1 : First(i)
  <2>1. S \in SUBSET Nat /\ n + 1 \in S
    BY <1>1
  <2>2. PICK i \in S : \A m \in S : i <= m
    BY <2>1, LeastNumber
  <2>3. i \in 1 .. n + 1 /\ (i \in DOMAIN attempts => Recent(attempts[i]))
    OBVIOUS
  <2>4. ASSUME NEW j \in 1 .. i - 1 PROVE ~Recent(attempts[j])
    <3>1. j \in 1 .. n + 1 /\ j \notin S
      BY <2>2, <2>3, <1>1
    <3> QED
      BY <3>1
  <2> QED
    BY <2>3, <2>4
<1>3. first \in 1 .. n + 1 /\ First(first)
  BY <1>2
<1>4. RecentAttempts = SubSeq(attempts, first, n)
  BY DEF RecentAttempts, n
<1> HIDE DEF first
<1>5. /\ RecentAttempts \in Seq(Nat)
      /\ Len(RecentAttempts) = n - (first - 1)
      /\ \A i \in 1 .. n - (first - 1) : RecentAttempts[i] = attempts[(first - 1) + i]
  BY <1>1, <1>3, <1>4, SubSeqProperties DEF n
<1>6. ASSUME NEW i \in 1 .. n, Recent(attempts[i])
      PROVE  i > first - 1
  BY <1>1, <1>3, <1>6
<1>7. first - 1 \in 0 .. n
  BY <1>1, <1>3
<1> QED
  BY <1>5, <1>6, <1>7 DEF n

(* Forgetting old attempts keeps the order and the recent starts covered.   *)
LEMMA ForgettingKeepsRates ==
  ASSUME TypeOK, Rates
  PROVE  LET b == RecentAttempts IN
         /\ b \in Seq(Nat)
         /\ Ordered(b)
         /\ \A k \in 1 .. Len(starts) :
              Recent(starts[Len(starts) + 1 - k]) =>
                /\ k <= Len(b)
                /\ starts[Len(starts) + 1 - k] <= b[Len(b) + 1 - k]
<1> DEFINE n == Len(attempts)  l == Len(starts)  b == RecentAttempts
<1>1. /\ n \in Nat /\ DOMAIN attempts = 1 .. n
      /\ \A i \in 1 .. n : attempts[i] \in Nat
      /\ l \in Nat /\ \A i \in 1 .. l : starts[i] \in Nat
      /\ clock \in Nat /\ Window \in Nat
  BY LenProperties, ElementOfSeq, LimitsArePositive DEF TypeOK
<1>2. PICK d \in 0 .. n :
        /\ b \in Seq(Nat) /\ Len(b) = n - d
        /\ \A i \in 1 .. n - d : b[i] = attempts[d + i]
        /\ \A i \in 1 .. n : Recent(attempts[i]) => i > d
  BY Forgetting DEF Rates
<1>3. DOMAIN b = 1 .. n - d
  BY <1>2, LenProperties
<1> HIDE DEF n, l, b
<1>4. Ordered(b)
  <2>1. /\ \A i, j \in 1 .. n : i <= j => attempts[i] <= attempts[j]
        /\ \A i \in 1 .. n : attempts[i] <= clock
    BY <1>1 DEF Rates, AttemptsInOrder, Ordered
  <2>2. \A i \in 1 .. n - d : d + i \in 1 .. n /\ b[i] = attempts[d + i]
    BY <1>1, <1>2
  <2>3. ASSUME NEW i \in 1 .. n - d, NEW j \in 1 .. n - d, i <= j
        PROVE  b[i] <= b[j]
    BY <2>1, <2>2, <2>3, <1>1
  <2> QED
    BY <2>1, <2>2, <2>3, <1>3 DEF Ordered
<1>5. ASSUME NEW k \in 1 .. l, Recent(starts[l + 1 - k])
      PROVE  k <= Len(b) /\ starts[l + 1 - k] <= b[Len(b) + 1 - k]
  <2>1. k <= n /\ starts[l + 1 - k] <= attempts[n + 1 - k]
    BY <1>5 DEF Rates, StartsAreAttempts, n, l
  <2>2. n + 1 - k \in 1 .. n /\ l + 1 - k \in 1 .. l
    BY <2>1, <1>1
  <2>3. Recent(attempts[n + 1 - k])
    BY <2>1, <2>2, <1>1, <1>5 DEF Recent
  <2>4. n + 1 - k > d
    BY <2>2, <2>3, <1>2
  <2>5. Len(b) + 1 - k \in 1 .. n - d /\ d + (Len(b) + 1 - k) = n + 1 - k
    BY <2>2, <2>4, <1>1, <1>2
  <2>6. b[Len(b) + 1 - k] = attempts[n + 1 - k]
    BY <2>5, <1>2
  <2> QED
    BY <2>1, <2>5, <2>6, <1>1, <1>2
<1> QED
  BY <1>2, <1>4, <1>5 DEF b, l

(* A new attempt keeps the order, and takes every other one a place further *)
(* from the end.                                                            *)
LEMMA Appending ==
  ASSUME NEW b \in Seq(Nat), Ordered(b), clock \in Nat
  PROVE  LET a == Append(b, clock) IN
         /\ a \in Seq(Nat) /\ Len(a) = Len(b) + 1 /\ Len(b) \in Nat
         /\ a[Len(a)] = clock
         /\ Ordered(a)
         /\ \A k \in 1 .. Len(b) : /\ a[Len(a) - k] = b[Len(b) + 1 - k]
                                   /\ b[Len(b) + 1 - k] \in Nat
                                   /\ b[Len(b) + 1 - k] <= a[Len(a) + 1 - k]
                                   /\ b[Len(b) + 1 - k] <= clock
<1> DEFINE n == Len(b)  a == Append(b, clock)
<1>1. /\ n \in Nat /\ DOMAIN b = 1 .. n /\ \A i \in 1 .. n : b[i] \in Nat
      /\ a \in Seq(Nat) /\ Len(a) = n + 1 /\ DOMAIN a = 1 .. n + 1
      /\ \A i \in 1 .. n : a[i] = b[i]
      /\ a[n + 1] = clock
  BY LenProperties, ElementOfSeq, AppendProperties
<1> HIDE DEF n, a
<1>2. /\ \A i, j \in 1 .. n : i <= j => b[i] <= b[j]
      /\ \A i \in 1 .. n : b[i] <= clock
  BY <1>1 DEF Ordered
<1>3. ASSUME NEW i \in 1 .. n + 1
      PROVE  a[i] <= clock
  BY <1>1, <1>2
<1>4. ASSUME NEW i \in 1 .. n + 1, NEW j \in 1 .. n + 1, i <= j
      PROVE  a[i] <= a[j]
  <2>1. CASE j = n + 1
    BY <2>1, <1>1, <1>3
  <2>2. CASE j # n + 1
    <3>1. i \in 1 .. n /\ j \in 1 .. n
      BY <2>2, <1>4, <1>1
    <3> QED
      BY <3>1, <1>4, <1>1, <1>2
  <2> QED
    BY <2>1, <2>2
<1>5. Ordered(a)
  BY <1>1, <1>3, <1>4 DEF Ordered
<1>6. ASSUME NEW k \in 1 .. n
      PROVE  /\ a[Len(a) - k] = b[n + 1 - k]
             /\ b[n + 1 - k] \in Nat
             /\ b[n + 1 - k] <= a[Len(a) + 1 - k]
             /\ b[n + 1 - k] <= clock
  <2>1. /\ n + 1 - k \in 1 .. n /\ Len(a) - k = n + 1 - k
        /\ Len(a) + 1 - k \in 1 .. n + 1 /\ n + 1 - k <= Len(a) + 1 - k
        /\ n + 1 - k \in 1 .. n + 1
    BY <1>1
  <2>2. a[n + 1 - k] <= a[Len(a) + 1 - k]
    BY <2>1, <1>4
  <2> QED
    BY <2>1, <2>2, <1>1, <1>2
<1> QED
  BY <1>1, <1>5, <1>6 DEF a, n

(* An attempt that starts no verification. *)
LEMMA AttemptWithoutStart ==
  ASSUME TypeOK, Rates, Attempt, UNCHANGED <<clock, starts>>
  PROVE  attempts' \in Seq(Nat) /\ Rates'
<1> DEFINE l == Len(starts)  b == RecentAttempts  a == Append(b, clock)
<1>1. /\ b \in Seq(Nat) /\ Ordered(b) /\ clock \in Nat
      /\ \A k \in 1 .. l :
           Recent(starts[l + 1 - k]) =>
             k <= Len(b) /\ starts[l + 1 - k] <= b[Len(b) + 1 - k]
  BY ForgettingKeepsRates DEF TypeOK
<1>2. RateLimited'
  BY DEF Rates, RateLimited
<1>3. attempts' = b \/ attempts' = a
  BY DEF Attempt
<1>4. /\ l \in Nat /\ \A i \in 1 .. l : starts[i] \in Nat
  BY LenProperties, ElementOfSeq DEF TypeOK
<1>5. /\ a \in Seq(Nat) /\ Len(a) = Len(b) + 1 /\ Len(b) \in Nat /\ Ordered(a)
      /\ \A k \in 1 .. Len(b) : /\ b[Len(b) + 1 - k] \in Nat
                                /\ b[Len(b) + 1 - k] <= a[Len(a) + 1 - k]
  BY <1>1, Appending
<1>6. \A k \in 1 .. Len(b) : a[Len(a) + 1 - k] \in Nat
  <2>1. \A k \in 1 .. Len(b) : Len(a) + 1 - k \in 1 .. Len(a)
    BY <1>5
  <2> QED
    BY <2>1, <1>5, ElementOfSeq
<1> HIDE DEF l, b, a
<1>7. ASSUME NEW k \in 1 .. l, Recent(starts[l + 1 - k])
      PROVE  k <= Len(a) /\ starts[l + 1 - k] <= a[Len(a) + 1 - k]
  <2>1. k <= Len(b) /\ starts[l + 1 - k] <= b[Len(b) + 1 - k]
    BY <1>1, <1>7
  <2>2. k \in 1 .. Len(b) /\ l + 1 - k \in 1 .. l
    BY <2>1, <1>4, <1>5
  <2>3. starts[l + 1 - k] \in Nat
    BY <2>2, <1>4
  <2>4. /\ b[Len(b) + 1 - k] \in Nat /\ a[Len(a) + 1 - k] \in Nat
        /\ b[Len(b) + 1 - k] <= a[Len(a) + 1 - k]
    BY <2>2, <1>5, <1>6
  <2>5. starts[l + 1 - k] <= a[Len(a) + 1 - k]
    BY <2>1, <2>3, <2>4
  <2> QED
    BY <2>1, <2>5, <1>5
<1>8. AttemptsInOrder'
  BY <1>1, <1>3, <1>5 DEF AttemptsInOrder, Ordered
<1>9. StartsAreAttempts'
  BY <1>1, <1>3, <1>7 DEF StartsAreAttempts, Recent, l
<1> QED
  BY <1>1, <1>2, <1>3, <1>5, <1>8, <1>9 DEF Rates

(* An attempt that starts a verification. *)
LEMMA AttemptWithStart ==
  ASSUME TypeOK, Rates, Attempt, Allowed, starts' = Append(starts, clock),
         clock' = clock
  PROVE  attempts' \in Seq(Nat) /\ starts' \in Seq(Nat) /\ Rates'
<1> DEFINE l == Len(starts)  b == RecentAttempts
           a == Append(b, clock)  s == Append(starts, clock)
<1>1. /\ b \in Seq(Nat) /\ Ordered(b) /\ clock \in Nat
      /\ \A k \in 1 .. l :
           Recent(starts[l + 1 - k]) =>
             k <= Len(b) /\ starts[l + 1 - k] <= b[Len(b) + 1 - k]
  BY ForgettingKeepsRates DEF TypeOK
<1>2. attempts' = a /\ starts' = s
  BY DEF Attempt
<1>3. /\ a \in Seq(Nat) /\ Len(a) = Len(b) + 1 /\ Len(b) \in Nat
      /\ a[Len(a)] = clock /\ Ordered(a)
      /\ \A k \in 1 .. Len(b) : a[Len(a) - k] = b[Len(b) + 1 - k]
  BY <1>1, Appending
<1>4. /\ l \in Nat /\ DOMAIN starts = 1 .. l
      /\ \A i \in 1 .. l : starts[i] \in Nat
      /\ s \in Seq(Nat) /\ Len(s) = l + 1 /\ DOMAIN s = 1 .. l + 1
      /\ \A i \in 1 .. l : s[i] = starts[i]
      /\ s[l + 1] = clock
  BY <1>1, LenProperties, ElementOfSeq, AppendProperties DEF TypeOK
<1>5. Len(b) < MaxAttempts /\ MaxAttempts \in Nat \ {0} /\ Window \in Nat
  BY LimitsArePositive DEF Allowed
<1>6. RateLimited
  BY DEF Rates
<1> HIDE DEF l, b, a, s
<1>7. ASSUME NEW k \in 1 .. Len(s), Recent(s[Len(s) + 1 - k])
      PROVE  k <= Len(a) /\ s[Len(s) + 1 - k] <= a[Len(a) + 1 - k]
  <2>1. CASE k = 1
    <3>1. Len(s) + 1 - k = l + 1 /\ Len(a) + 1 - k = Len(a) /\ k <= Len(a)
      BY <2>1, <1>3, <1>4
    <3> QED
      BY <3>1, <1>1, <1>3, <1>4
  <2>2. CASE k # 1
    <3> DEFINE j == k - 1
    <3>1. /\ j \in 1 .. l /\ Len(s) + 1 - k = l + 1 - j /\ l + 1 - j \in 1 .. l
          /\ Len(a) + 1 - k = Len(a) - j
      BY <2>2, <1>3, <1>4
    <3> HIDE DEF j
    <3>2. s[l + 1 - j] = starts[l + 1 - j]
      BY <3>1, <1>4
    <3>3. j <= Len(b) /\ starts[l + 1 - j] <= b[Len(b) + 1 - j]
      BY <3>1, <3>2, <1>1, <1>7
    <3>4. a[Len(a) - j] = b[Len(b) + 1 - j]
      BY <3>1, <3>3, <1>3
    <3>5. k <= Len(a)
      BY <3>3, <1>3 DEF j
    <3> QED
      BY <3>1, <3>2, <3>3, <3>4, <3>5
  <2> QED
    BY <2>1, <2>2
<1>8. ASSUME NEW i \in 1 .. l + 1, i + MaxAttempts \in 1 .. l + 1
      PROVE  s[i] + Window <= s[i + MaxAttempts]
  <2>1. CASE i + MaxAttempts = l + 1
    <3>1. /\ MaxAttempts \in 1 .. l /\ i = l + 1 - MaxAttempts /\ i \in 1 .. l
      BY <2>1, <1>4, <1>5
    <3>2. ~Recent(starts[i])
      <4>1. l + 1 - MaxAttempts = i /\ ~(MaxAttempts <= Len(b))
        BY <3>1, <1>3, <1>4, <1>5
      <4>2. ~Recent(starts[l + 1 - MaxAttempts])
        BY <3>1, <4>1, <1>1
      <4> QED
        BY <4>1, <4>2
    <3>3. starts[i] + Window <= clock
      BY <3>1, <3>2, <1>1, <1>4, <1>5 DEF Recent
    <3> QED
      BY <3>1, <3>3, <2>1, <1>4
  <2>2. CASE i + MaxAttempts # l + 1
    <3>1. i \in 1 .. l /\ i + MaxAttempts \in 1 .. l
      BY <2>2, <1>4, <1>5, <1>8
    <3>2. starts[i] + Window <= starts[i + MaxAttempts]
      BY <3>1, <1>4, <1>6 DEF RateLimited
    <3> QED
      BY <3>1, <3>2, <1>4
  <2> QED
    BY <2>1, <2>2
<1>9. RateLimited'
  BY <1>2, <1>4, <1>8 DEF RateLimited
<1>10. AttemptsInOrder'
  BY <1>2, <1>3 DEF AttemptsInOrder, Ordered
<1>11. StartsAreAttempts'
  BY <1>2, <1>7 DEF StartsAreAttempts, Recent
<1> QED
  BY <1>2, <1>3, <1>4, <1>9, <1>10, <1>11 DEF Rates

-----------------------------------------------------------------------------
(* Facts about requests.                                                    *)

(* What a request holds at its stages. *)
LEMMA RequestFields ==
  ASSUME NEW q \in RequestStates
  PROVE  /\ q.stage \in {"idle", "page", "verifying", "verified", "authorizing",
                         "authorized", "reading", "hashing", "changed", "reply"}
         /\ q.stage = "idle" <=> q = Idle
         /\ q.stage # "idle" => q.browser \in Browsers
         /\ q.stage \notin {"idle", "page", "reply"} => q.admin \in Admins
         /\ q.stage = "page" =>
              /\ q.token \in Tokens \cup {None}
              /\ q.admin \in Admins \cup {None} /\ q.version \in Nat
         /\ q.stage \in {"verifying", "verified"} =>
              q.token \in Tokens /\ q.password \in Passwords
         /\ q.stage \in {"authorizing", "authorized"} =>
              /\ q.token \in Tokens /\ q.at \in Nat
              /\ q.purpose \in {"view", "change"} /\ q.form \in Tokens \cup {None}
         /\ q.stage \in {"reading", "hashing"} =>
              q.current \in Passwords /\ q.new \in Passwords
         /\ q.stage \in {"verifying", "reading", "hashing"} =>
              q.connected \in BOOLEAN
         /\ q.stage \in {"verified", "authorizing", "authorized", "hashing"} =>
              q.version \in Nat
         /\ q.stage = "reply" =>
              /\ q.cookie \in Tokens \cup {None, Keep}
              /\ q.form \in Tokens \cup {None}
<1>1. /\ q.stage \in {"idle", "page", "verifying", "verified", "authorizing",
                      "authorized", "reading", "hashing", "changed", "reply"}
      /\ q.stage = "idle" <=> q = Idle
  BY DEF RequestStates, Idle
<1>2. /\ q.stage # "idle" => q.browser \in Browsers
      /\ q.stage \notin {"idle", "page", "reply"} => q.admin \in Admins
  BY DEF RequestStates, Idle
<1>3. /\ q.stage = "page" =>
           /\ q.token \in Tokens \cup {None}
           /\ q.admin \in Admins \cup {None} /\ q.version \in Nat
      /\ q.stage = "reply" =>
           /\ q.cookie \in Tokens \cup {None, Keep}
           /\ q.form \in Tokens \cup {None}
  BY DEF RequestStates, Idle
<1>4. /\ q.stage \in {"verifying", "verified"} =>
           q.token \in Tokens /\ q.password \in Passwords
      /\ q.stage \in {"authorizing", "authorized"} =>
           /\ q.token \in Tokens /\ q.at \in Nat
           /\ q.purpose \in {"view", "change"} /\ q.form \in Tokens \cup {None}
  BY DEF RequestStates, Idle
<1>5. /\ q.stage \in {"reading", "hashing"} =>
           q.current \in Passwords /\ q.new \in Passwords
      /\ q.stage \in {"verifying", "reading", "hashing"} => q.connected \in BOOLEAN
      /\ q.stage \in {"verified", "authorizing", "authorized", "hashing"} =>
           q.version \in Nat
  BY DEF RequestStates, Idle
<1> QED
  BY <1>1, <1>2, <1>3, <1>4, <1>5

(* A connection that drops, a check that lets a request through: only one   *)
(* field changes.                                                           *)
LEMMA RequestUpdates ==
  ASSUME NEW q \in RequestStates
  PROVE  /\ q.stage \in {"verifying", "reading", "hashing"} =>
              LET p == [q EXCEPT !.connected = FALSE] IN
              /\ p \in RequestStates /\ p.stage = q.stage
              /\ p.stage = "verifying" => p.token = q.token
         /\ q.stage = "authorizing" =>
              LET p == [q EXCEPT !.stage = "authorized"] IN
              /\ p \in RequestStates /\ p.stage = "authorized"
              /\ p.token = q.token /\ p.admin = q.admin /\ p.version = q.version
              /\ p.at = q.at
<1>1. ASSUME q.stage \in {"verifying", "reading", "hashing"}
      PROVE  LET p == [q EXCEPT !.connected = FALSE] IN
             /\ p \in RequestStates /\ p.stage = q.stage
             /\ p.stage = "verifying" => p.token = q.token
  BY <1>1 DEF RequestStates, Idle
<1>2. ASSUME q.stage = "authorizing"
      PROVE  LET p == [q EXCEPT !.stage = "authorized"] IN
             /\ p \in RequestStates /\ p.stage = "authorized"
             /\ p.token = q.token /\ p.admin = q.admin /\ p.version = q.version
             /\ p.at = q.at
  BY <1>2 DEF RequestStates, Idle
<1> QED
  BY <1>1, <1>2

(* A request goes on; the others do not move. *)
LEMMA GotoEffect ==
  ASSUME requests \in [Requests -> RequestStates], NEW r \in Requests,
         NEW q \in RequestStates, Goto(r, q)
  PROVE  /\ requests' \in [Requests -> RequestStates]
         /\ requests'[r] = q
         /\ \A o \in Requests \ {r} : requests'[o] = requests[o]
BY DEF Goto

(* The states of a request are states. *)
LEMMA RepliesAreStates ==
  ASSUME NEW b \in Browsers, NEW cookie \in Tokens \cup {None, Keep},
         NEW form \in Tokens \cup {None}
  PROVE  /\ Reply(b, cookie, form) \in RequestStates
         /\ Reply(b, cookie, form).stage = "reply"
         /\ Reply(b, cookie, form).browser = b
         /\ Idle \in RequestStates /\ Idle.stage = "idle"
BY DEF RequestStates, Reply, Idle

-----------------------------------------------------------------------------
(* The inductive invariant.                                                 *)

(* The session table is finite. *)
Capacity == IsFiniteSet(DOMAIN sessions) /\ SessionCapacity

(* An administrator's session is what its login made it. *)
SessionsAreLogins ==
  /\ DOMAIN sessions \subseteq drawn /\ DOMAIN verified \subseteq drawn
  /\ \A t \in DOMAIN sessions :
       sessions[t].admin_id # None =>
         /\ t \in DOMAIN verified
         /\ verified[t].admin = sessions[t].admin_id
         /\ verified[t].version = sessions[t].version
         /\ sessions[t].expires_at = verified[t].at + AdminTtl

Checking(q) == q.stage \in {"authorizing", "authorized"}

(* A page works with what it read in a session of that kind, while that     *)
(* session lived.                                                           *)
ChecksAreLogins ==
  \A r \in Requests :
    Checking(requests[r]) =>
      LET q == requests[r] IN
      /\ q.token \in DOMAIN verified
      /\ verified[q.token].admin = q.admin
      /\ verified[q.token].version = q.version
      /\ q.at < verified[q.token].at + AdminTtl

(* At version v of the account `id`, `password` was its password. *)
Was(id, v, password) ==
  /\ id \in DOMAIN admins
  /\ v <= admins[id].version
  /\ v = admins[id].version => password = admins[id].password

(* A login is the proof of a password at a version. *)
LoginsAreProofs ==
  /\ \A t \in DOMAIN verified :
       Was(verified[t].admin, verified[t].version, verified[t].password)
  /\ \A r \in Requests :
       At(r, "verified") =>
         Was(requests[r].admin, requests[r].version, requests[r].password)

LoggingIn(q) == q.stage \in {"verifying", "verified"}

(* A login knows the token of a session nobody is signed in to. *)
LoginsComeFromForms ==
  \A r \in Requests :
    LoggingIn(requests[r]) =>
      LET token == requests[r].token IN
      /\ token \in drawn
      /\ token \in DOMAIN sessions => sessions[token].admin_id = None

Access ==
  SessionsAreLogins /\ ChecksAreLogins /\ LoginsAreProofs /\ LoginsComeFromForms

IInv == TypeOK /\ PermitsBalanced /\ Capacity /\ Rates /\ Access

-----------------------------------------------------------------------------
(* What steps have in common.                                               *)

(* Sessions end, none is made. *)
SessionsShrink ==
  \A t \in DOMAIN sessions' : t \in DOMAIN sessions /\ sessions'[t] = sessions[t]

(* A table that only loses sessions stays a table within its capacity. *)
LEMMA Shrinking ==
  ASSUME TypeOK, Capacity, SessionsShrink
  PROVE  IsTable(sessions', Tokens, Session) /\ Capacity'
<1>1. DOMAIN sessions' \subseteq DOMAIN sessions
  BY DEF SessionsShrink
<1>2. /\ IsFiniteSet(DOMAIN sessions')
      /\ Cardinality(DOMAIN sessions') <= Cardinality(DOMAIN sessions)
      /\ Cardinality(DOMAIN sessions') \in Nat /\ Cardinality(DOMAIN sessions) \in Nat
  BY <1>1, FS_Subset, FS_CardinalityType DEF Capacity
<1>3. Capacity'
  BY <1>2, LimitsArePositive DEF Capacity, SessionCapacity
<1> QED
  BY <1>3 DEF TypeOK, IsTable, SessionsShrink

(* A session is made where there is room for it. *)
LEMMA MakingASession ==
  ASSUME TypeOK, Capacity, HasRoom, NEW new \in Unused,
         NEW admin \in Admins \cup {None}, NEW version \in Nat
  PROVE  LET s == NewSession(new, admin, version)
             life == IF admin = None THEN PreAuthTtl ELSE AdminTtl IN
         /\ IsTable(s, Tokens, Session)
         /\ IsFiniteSet(DOMAIN s) /\ Cardinality(DOMAIN s) <= MaxSessions
         /\ \A t \in DOMAIN s :
              \/ t = new
              \/ t \in DOMAIN sessions /\ s[t] = sessions[t]
         /\ new \in DOMAIN s
         /\ s[new] = [admin_id |-> admin, version |-> version,
                      expires_at |-> clock + life]
<1> DEFINE live == Live(sessions, clock)
           life == IF admin = None THEN PreAuthTtl ELSE AdminTtl
           entry == [admin_id |-> admin, version |-> version,
                     expires_at |-> clock + life]
           s == Put(live, new, entry)
<1>1. s = NewSession(new, admin, version)
  BY DEF NewSession
<1>2. entry \in Session /\ new \in Tokens
  <2>1. clock \in Nat /\ life \in Nat /\ new \in Tokens
    BY LimitsArePositive DEF TypeOK, Unused
  <2>2. clock + life \in Nat
    BY <2>1
  <2> HIDE DEF life
  <2> QED
    BY <2>1, <2>2 DEF Session
<1>3. IsTable(live, Tokens, Session)
  BY TablesStayTables DEF TypeOK
<1> HIDE DEF entry
<1>4. IsTable(s, Tokens, Session)
  BY <1>2, <1>3, TablesStayTables
<1>5. /\ DOMAIN live \subseteq DOMAIN sessions
      /\ \A t \in DOMAIN live : live[t] = sessions[t]
  BY LiveEntries
<1> DEFINE L == DOMAIN live
<1>6. IsFiniteSet(L) /\ Cardinality(L) \in Nat /\ Cardinality(L) < MaxSessions
  BY <1>5, FS_Subset, FS_CardinalityType DEF Capacity, HasRoom
<1>7. DOMAIN s = L \cup {new}
  BY PutEntries
<1> HIDE DEF live, s, L
<1>8. /\ IsFiniteSet(L \cup {new})
      /\ Cardinality(L \cup {new}) = IF new \in L THEN Cardinality(L)
                                                ELSE Cardinality(L) + 1
  BY <1>6, FS_AddElement
<1>9. IsFiniteSet(DOMAIN s) /\ Cardinality(DOMAIN s) <= MaxSessions
  BY <1>6, <1>7, <1>8, LimitsArePositive
<1>10. /\ \A t \in DOMAIN s :
            \/ t = new
            \/ t \in DOMAIN sessions /\ s[t] = sessions[t]
       /\ new \in DOMAIN s /\ s[new] = entry
  BY <1>5, <1>7, PutEntries DEF s, L
<1> QED
  BY <1>1, <1>4, <1>9, <1>10 DEF entry

(* The holders of permits. *)
Held == {r \in Requests : Holding(r)}

HoldingStages == {"verifying", "reading", "hashing"}

(* A request goes on: it keeps its permit, takes one or gives it back. *)
LEMMA PermitsMove ==
  ASSUME TypeOK, PermitsBalanced, NEW r \in Requests, NEW q \in RequestStates,
         Goto(r, q),
         \/ permits' = permits /\ (Holding(r) <=> q.stage \in HoldingStages)
         \/ /\ permits > 0 /\ permits' = permits - 1
            /\ ~Holding(r) /\ q.stage \in HoldingStages
         \/ permits' = permits + 1 /\ Holding(r) /\ q.stage \notin HoldingStages
  PROVE  /\ requests' \in [Requests -> RequestStates]
         /\ permits' \in 0 .. Verifications
         /\ PermitsBalanced'
<1>1. requests' \in [Requests -> RequestStates]
  BY GotoEffect DEF TypeOK
<1>2. /\ IsFiniteSet(Held) /\ IsFiniteSet(Held')
      /\ Cardinality(Held) \in Nat /\ Cardinality(Held') \in Nat
      /\ permits \in Nat /\ Verifications \in Nat
      /\ permits + Cardinality(Held) = Verifications
  <2>1. IsFiniteSet(Held) /\ IsFiniteSet(Held')
    BY RequestsAreFinite, FS_Subset DEF Held
  <2>2. Cardinality(Held) \in Nat /\ Cardinality(Held') \in Nat
    BY <2>1, FS_CardinalityType
  <2>3. permits \in Nat /\ Verifications \in Nat
    BY LimitsArePositive DEF TypeOK
  <2>4. permits + Cardinality(Held) = Verifications
    BY DEF PermitsBalanced, Held
  <2> QED
    BY <2>1, <2>2, <2>3, <2>4
<1>3. /\ r \in Held <=> Holding(r)
      /\ Held' = IF q.stage \in HoldingStages THEN Held \cup {r} ELSE Held \ {r}
  BY GotoEffect DEF Held, Holding, HoldingStages, TypeOK
<1> HIDE DEF Held
<1>4. permits' \in Nat /\ permits' + Cardinality(Held') = Verifications
  <2>1. CASE permits' = permits /\ Held' = Held
    BY <2>1, <1>2
  <2>2. CASE permits > 0 /\ permits' = permits - 1 /\ r \notin Held /\ Held' = Held \cup {r}
    <3>1. Cardinality(Held') = Cardinality(Held) + 1
      BY <2>2, <1>2, FS_AddElement
    <3> QED
      BY <2>2, <3>1, <1>2
  <2>3. CASE permits' = permits + 1 /\ r \in Held /\ Held' = Held \ {r}
    <3>1. Cardinality(Held') = Cardinality(Held) - 1
      BY <2>3, <1>2, FS_RemoveElement
    <3> QED
      BY <2>3, <3>1, <1>2
  <2> QED
    BY <1>3, <2>1, <2>2, <2>3
<1> QED
  BY <1>1, <1>2, <1>4 DEF Held, PermitsBalanced

(* Nothing that counts for the rate limit happens. *)
LEMMA RatesStay ==
  ASSUME Rates, UNCHANGED <<clock, attempts, starts>>
  PROVE  Rates'
BY DEF Rates, AttemptsInOrder, StartsAreAttempts, RateLimited, Ordered, Recent

(* At q a request knows no login, or one that is verified as before. *)
NoNewLogin(r, q) ==
  \/ ~LoggingIn(q) /\ ~Checking(q)
  \/ /\ q.stage = "verifying" /\ At(r, "verifying")
     /\ q.token = requests[r].token

(* Sessions end, and no request learns of a login. *)
LEMMA AccessStays ==
  ASSUME Access, SessionsShrink, UNCHANGED <<admins, drawn, verified>>,
         \A r \in Requests :
           requests'[r] = requests[r] \/ NoNewLogin(r, requests'[r])
  PROVE  Access'
<1>1. SessionsAreLogins'
  BY DEF Access, SessionsAreLogins, SessionsShrink
<1>2. ChecksAreLogins'
  BY DEF Access, ChecksAreLogins, NoNewLogin, Checking
<1>3. LoginsAreProofs'
  BY DEF Access, LoginsAreProofs, LoggingIn, Was, At, NoNewLogin
<1>4. LoginsComeFromForms'
  BY DEF Access, LoginsComeFromForms, SessionsShrink, NoNewLogin, LoggingIn, At
<1> QED
  BY <1>1, <1>2, <1>3, <1>4 DEF Access

(* What a step of the server leaves alone. *)
Quiet ==
  /\ SessionsShrink
  /\ UNCHANGED <<clock, admins, restarts, drawn, verified>>
  /\ cookies' \in [Browsers -> Tokens \cup {None}]
  /\ forms' \in [Browsers -> SUBSET Tokens]
  /\ \/ UNCHANGED <<attempts, starts>>
     \/ attempts' \in Seq(Nat) /\ starts' \in Seq(Nat) /\ Rates'

(* Such a step keeps the invariant, when the request does not move ... *)
LEMMA RefusedStep ==
  ASSUME IInv, Quiet, UNCHANGED <<requests, permits>>
  PROVE  IInv'
<1>1. Capacity' /\ IsTable(sessions', Tokens, Session)
  BY Shrinking DEF IInv, Quiet
<1>2. Rates'
  BY RatesStay DEF IInv, Quiet
<1>3. Access'
  BY AccessStays DEF IInv, Quiet
<1>4. TypeOK'
  BY <1>1 DEF IInv, TypeOK, Quiet
<1>5. PermitsBalanced'
  BY DEF IInv, PermitsBalanced, Holding
<1> QED
  BY <1>1, <1>2, <1>3, <1>4, <1>5 DEF IInv

(* ... and when it goes on without knowing a new login. *)
LEMMA QuietStep ==
  ASSUME IInv, Quiet, NEW r \in Requests, NEW q \in RequestStates, Goto(r, q),
         NoNewLogin(r, q),
         \/ permits' = permits /\ (Holding(r) <=> q.stage \in HoldingStages)
         \/ /\ permits > 0 /\ permits' = permits - 1
            /\ ~Holding(r) /\ q.stage \in HoldingStages
         \/ permits' = permits + 1 /\ Holding(r) /\ q.stage \notin HoldingStages
  PROVE  IInv'
<1>1. Capacity' /\ IsTable(sessions', Tokens, Session)
  BY Shrinking DEF IInv, Quiet
<1>2. Rates'
  BY RatesStay DEF IInv, Quiet
<1>3. /\ requests' \in [Requests -> RequestStates]
      /\ permits' \in 0 .. Verifications
      /\ PermitsBalanced'
  BY PermitsMove DEF IInv
<1>4. \A o \in Requests :
        requests'[o] = requests[o] \/ NoNewLogin(o, requests'[o])
  BY GotoEffect DEF IInv, TypeOK
<1>5. Access'
  BY <1>4, AccessStays DEF IInv, Quiet
<1>6. TypeOK'
  BY <1>1, <1>3 DEF IInv, TypeOK, Quiet
<1> QED
  BY <1>1, <1>2, <1>3, <1>5, <1>6 DEF IInv

-----------------------------------------------------------------------------
(* The actions, one after the other.                                        *)

(* What the table operations take away is gone, the rest is as it was. *)
LEMMA TableSteps ==
  ASSUME \/ sessions' = sessions
         \/ sessions' = Live(sessions, clock)
         \/ \E token : \/ sessions' = AfterLookup(token)
                       \/ sessions' = Drop(Live(sessions, clock), token)
         \/ \E S : sessions' = Restrict(sessions, DOMAIN sessions \cap S)
  PROVE  SessionsShrink
<1>1. CASE sessions' = Live(sessions, clock)
  BY <1>1, LiveEntries DEF SessionsShrink
<1>2. CASE sessions' = sessions
  BY <1>2 DEF SessionsShrink
<1>3. ASSUME NEW token, sessions' = Drop(Live(sessions, clock), token)
      PROVE  SessionsShrink
  BY <1>3, LiveEntries, DropEntries DEF SessionsShrink
<1>4. ASSUME NEW S, sessions' = Restrict(sessions, DOMAIN sessions \cap S)
      PROVE  SessionsShrink
  BY <1>4 DEF SessionsShrink, Restrict
<1> QED
  BY <1>1, <1>2, <1>3, <1>4 DEF AfterLookup

(* The browsers' sides of the state. *)
LEMMA BrowsersStay ==
  ASSUME IInv, UNCHANGED browser
  PROVE  /\ cookies' \in [Browsers -> Tokens \cup {None}]
         /\ forms' \in [Browsers -> SUBSET Tokens]
BY DEF IInv, TypeOK, browser

(* Receive: the reply is gone, and only the browser has changed. *)
LEMMA ReceiveStep ==
  ASSUME IInv, NEW r \in Requests, Receive(r)
  PROVE  IInv'
<1> DEFINE q == requests[r]
<1>1. /\ q.browser \in Browsers
      /\ q.cookie \in Tokens \cup {None, Keep} /\ q.form \in Tokens \cup {None}
  BY RequestFields DEF IInv, TypeOK, Receive, At
<1>2. cookies' \in [Browsers -> Tokens \cup {None}]
  BY <1>1 DEF IInv, TypeOK, Receive
<1>3. forms' \in [Browsers -> SUBSET Tokens]
  <2>1. {q.form} \ {None} \subseteq Tokens
    BY <1>1
  <2>2. forms[q.browser] \cup ({q.form} \ {None}) \in SUBSET Tokens
    BY <1>1, <2>1 DEF IInv, TypeOK
  <2> QED
    BY <2>2 DEF IInv, TypeOK, Receive
<1>4. Quiet
  BY <1>2, <1>3, TableSteps DEF Receive, Quiet, server, history
<1>5. /\ Goto(r, Idle) /\ Idle \in RequestStates /\ permits' = permits
      /\ ~Holding(r) /\ Idle.stage \notin HoldingStages /\ NoNewLogin(r, Idle)
  BY DEF Receive, End, Idle, RequestStates, server, Holding, At, HoldingStages,
         NoNewLogin, LoggingIn, Checking
<1> QED
  BY <1>4, <1>5, QuietStep

(* Disconnect: a request that holds a permit holds it still. *)
LEMMA DisconnectStep ==
  ASSUME IInv, NEW r \in Requests, Disconnect(r)
  PROVE  IInv'
<1>1. Quiet /\ permits' = permits
  BY TableSteps, BrowsersStay DEF Disconnect, Quiet, server, history
<1>2. requests[r] \in RequestStates
  BY DEF IInv, TypeOK
<1>3. CASE Holding(r)
  <2> DEFINE q == [requests[r] EXCEPT !.connected = FALSE]
  <2>1. Goto(r, q)
    BY <1>3 DEF Disconnect, Goto, IInv, TypeOK
  <2>2. /\ q \in RequestStates /\ q.stage = requests[r].stage
        /\ q.stage = "verifying" => q.token = requests[r].token
    BY <1>2, <1>3, RequestUpdates DEF Holding
  <2> HIDE DEF q
  <2>3. q.stage \in HoldingStages /\ NoNewLogin(r, q)
    BY <1>3, <2>2 DEF Holding, HoldingStages, NoNewLogin, LoggingIn, Checking, At
  <2> QED
    BY <1>1, <1>3, <2>1, <2>2, <2>3, QuietStep
<1>4. CASE ~Holding(r)
  <2>1. /\ Goto(r, Idle) /\ Idle \in RequestStates
        /\ Idle.stage \notin HoldingStages /\ NoNewLogin(r, Idle)
    BY <1>4 DEF Disconnect, End, Idle, RequestStates, HoldingStages,
                NoNewLogin, LoggingIn, Checking
  <2> QED
    BY <1>1, <1>4, <2>1, QuietStep
<1> QED
  BY <1>3, <1>4

(* Tick: what was recent may be so no more, nothing becomes recent. *)
LEMMA TickStep ==
  ASSUME IInv, Tick
  PROVE  IInv'
<1>0. /\ UNCHANGED <<admins, sessions, attempts, permits, requests, cookies,
                     forms, restarts, drawn, verified, starts>>
      /\ clock \in Nat /\ clock' = clock + 1
      /\ attempts \in Seq(Nat) /\ starts \in Seq(Nat)
  BY DEF IInv, TypeOK, Tick, server, browser, history
<1>1. /\ clock \in Nat /\ clock' = clock + 1 /\ Window \in Nat
      /\ DOMAIN attempts = 1 .. Len(attempts) /\ Len(attempts) \in Nat
      /\ \A i \in DOMAIN attempts : attempts[i] \in Nat
      /\ Len(starts) \in Nat
      /\ \A i \in 1 .. Len(starts) : starts[i] \in Nat
      /\ UNCHANGED <<admins, sessions, attempts, permits, requests, cookies,
                     forms, restarts, drawn, verified, starts>>
  <2>1. \A s \in Seq(Nat) :
          /\ Len(s) \in Nat /\ DOMAIN s = 1 .. Len(s)
          /\ \A i \in 1 .. Len(s) : s[i] \in Nat
    BY LenProperties, ElementOfSeq
  <2>2. Window \in Nat
    BY LimitsArePositive
  <2> QED
    BY <1>0, <2>1, <2>2
<1>2. TypeOK'
  BY <1>1 DEF IInv, TypeOK
<1>3. AttemptsInOrder'
  BY <1>1 DEF IInv, Rates, AttemptsInOrder, Ordered
<1>4. \A k \in 1 .. Len(starts) :
        Recent(starts[Len(starts) + 1 - k])' => Recent(starts[Len(starts) + 1 - k])
  <2>1. \A k \in 1 .. Len(starts) : starts[Len(starts) + 1 - k] \in Nat
    BY <1>1
  <2> QED
    BY <2>1, <1>1 DEF Recent
<1>5. StartsAreAttempts'
  BY <1>1, <1>4 DEF IInv, Rates, StartsAreAttempts
<1>6. RateLimited'
  BY <1>1 DEF IInv, Rates, RateLimited
<1>7. Access'
  BY <1>1
  DEF IInv, Access, SessionsAreLogins, ChecksAreLogins, LoginsAreProofs,
      LoginsComeFromForms, Was, At
<1>8. PermitsBalanced' /\ Capacity'
  BY <1>1 DEF IInv, PermitsBalanced, Holding, Capacity, SessionCapacity
<1> QED
  BY <1>2, <1>3, <1>5, <1>6, <1>7, <1>8 DEF IInv, Rates

(* What administrators proved stays proved when an account is created or    *)
(* enabled, and when its version goes up.                                   *)
AccountsGrow ==
  \A id \in DOMAIN admins :
    /\ id \in DOMAIN admins' /\ admins'[id].version \in Nat
    /\ \/ /\ admins'[id].version = admins[id].version
          /\ admins'[id].password = admins[id].password
       \/ admins'[id].version = admins[id].version + 1

(* What was proved of a version stays true of it. *)
LEMMA ProofsStay ==
  ASSUME TypeOK, AccountsGrow, NEW id, NEW v \in Nat, NEW password,
         Was(id, v, password)
  PROVE  Was(id, v, password)'
<1>1. id \in DOMAIN admins /\ admins[id].version \in Nat
  BY DEF Was, TypeOK, IsTable, Admin
<1> QED
  BY <1>1 DEF Was, AccountsGrow

(* A step that only changes accounts. *)
LEMMA AccountStep ==
  ASSUME IInv, AccountsGrow, IsTable(admins', Admins, Admin),
         UNCHANGED <<clock, server, requests, browser, restarts, history>>
  PROVE  IInv'
<1>1. UNCHANGED <<clock, sessions, attempts, permits, requests, cookies,
                  forms, restarts, drawn, verified, starts>>
  BY DEF server, browser, history
<1>2. TypeOK'
  BY <1>1 DEF IInv, TypeOK
<1>3. Rates'
  BY <1>1, RatesStay DEF IInv
<1>4. \A t \in DOMAIN verified : verified[t].version \in Nat
  BY DEF IInv, TypeOK, IsTable, Login
<1>5. \A r \in Requests : At(r, "verified") => requests[r].version \in Nat
  BY RequestFields DEF IInv, TypeOK, At
<1>6. LoginsAreProofs'
  <2>1. ASSUME NEW t \in DOMAIN verified
        PROVE  Was(verified[t].admin, verified[t].version, verified[t].password)'
    <3>1. Was(verified[t].admin, verified[t].version, verified[t].password)
      BY DEF IInv, Access, LoginsAreProofs
    <3> QED
      BY <3>1, <1>1, <1>4, ProofsStay DEF IInv, Was
  <2>2. ASSUME NEW r \in Requests, At(r, "verified")
        PROVE  Was(requests[r].admin, requests[r].version, requests[r].password)'
    <3>1. Was(requests[r].admin, requests[r].version, requests[r].password)
      BY <2>2 DEF IInv, Access, LoginsAreProofs
    <3> QED
      BY <3>1, <2>2, <1>1, <1>5, ProofsStay DEF IInv, Was
  <2> QED
    BY <2>1, <2>2, <1>1 DEF LoginsAreProofs, At
<1>7. SessionsAreLogins' /\ ChecksAreLogins' /\ LoginsComeFromForms'
  BY <1>1 DEF IInv, Access, SessionsAreLogins, ChecksAreLogins, LoginsComeFromForms
<1>8. PermitsBalanced' /\ Capacity'
  BY <1>1 DEF IInv, PermitsBalanced, Holding, Capacity, SessionCapacity
<1> QED
  BY <1>2, <1>3, <1>6, <1>7, <1>8 DEF IInv, Access

(* Create: no account changes. *)
LEMMA CreateStep ==
  ASSUME IInv, NEW id \in Admins, NEW password \in Passwords, Create(id, password)
  PROVE  IInv'
<1> DEFINE row == [enabled |-> TRUE, password |-> password, version |-> 1]
<1>1. row \in Admin
  BY DEF Admin
<1>2. admins' = Put(admins, id, row)
  BY DEF Create
<1> HIDE DEF row
<1>3. IsTable(admins', Admins, Admin)
  BY <1>1, <1>2, TablesStayTables DEF IInv, TypeOK
<1>4. AccountsGrow
  BY <1>2, <1>3, PutEntries DEF AccountsGrow, Create, IsTable, Admin
<1> QED
  BY <1>3, <1>4, AccountStep DEF Create

(* SetEnabled: neither a version nor a password changes. *)
LEMMA SetEnabledStep ==
  ASSUME IInv, NEW id \in Admins, SetEnabled(id)
  PROVE  IInv'
<1>1. admins' = [admins EXCEPT ![id].enabled = ~@] /\ id \in DOMAIN admins
  BY DEF SetEnabled
<1>2. \A i \in DOMAIN admins : admins[i] \in Admin
  BY DEF IInv, TypeOK, IsTable
<1>3. /\ DOMAIN admins' = DOMAIN admins
      /\ \A i \in DOMAIN admins :
           /\ admins'[i] \in Admin
           /\ admins'[i].version = admins[i].version
           /\ admins'[i].password = admins[i].password
  BY <1>1, <1>2 DEF Admin
<1>4. IsTable(admins', Admins, Admin) /\ AccountsGrow
  BY <1>3 DEF IInv, TypeOK, IsTable, AccountsGrow, Admin
<1> QED
  BY <1>4, AccountStep DEF SetEnabled

(* Restart: no request is left to know anything. *)
LEMMA RestartStep ==
  ASSUME IInv, Restart
  PROVE  IInv'
<1>1. /\ sessions' = NoEntries /\ attempts' = <<>> /\ starts' = <<>>
      /\ permits' = Verifications /\ requests' = [r \in Requests |-> Idle]
      /\ restarts' = restarts + 1
      /\ UNCHANGED <<clock, admins, cookies, forms, drawn, verified>>
  BY DEF Restart, browser
<1>2. /\ <<>> \in Seq(Nat) /\ Len(<<>>) = 0 /\ DOMAIN <<>> = {}
  BY EmptySeq, LenProperties
<1>3. DOMAIN NoEntries = {}
  BY DEF NoEntries
<1>4. TypeOK'
  BY <1>1, <1>2, <1>3, LimitsArePositive
  DEF IInv, TypeOK, IsTable, RequestStates
<1>5. Capacity'
  BY <1>1, <1>3, FS_EmptySet, LimitsArePositive DEF Capacity, SessionCapacity
<1>6. PermitsBalanced'
  <2>1. Held' = {}
    BY <1>1 DEF Held, Holding, Idle
  <2>2. permits' + Cardinality(Held') = Verifications
    BY <1>1, <2>1, FS_EmptySet, LimitsArePositive
  <2> QED
    BY <2>2 DEF PermitsBalanced, Held
<1>7. Rates'
  BY <1>1, <1>2 DEF Rates, AttemptsInOrder, StartsAreAttempts, RateLimited, Ordered
<1>8. Access'
  <2>1. \A r \in Requests : ~Checking(requests'[r]) /\ ~LoggingIn(requests'[r])
    BY <1>1 DEF Checking, LoggingIn, Idle
  <2>2. SessionsShrink
    BY <1>1, <1>3 DEF SessionsShrink
  <2> QED
    BY <1>1, <2>1, <2>2, AccessStays DEF IInv, NoNewLogin
<1> QED
  BY <1>4, <1>5, <1>6, <1>7, <1>8 DEF IInv

(* OpenLogin: the request knows no login. *)
LEMMA OpenLoginStep ==
  ASSUME IInv, NEW r \in Requests, NEW b \in Browsers, OpenLogin(r, b)
  PROVE  IInv'
<1> DEFINE token == cookies[b]
           found == Found(token) /\ sessions[token].admin_id # None
           q == [stage |-> "page", browser |-> b, token |-> token,
                 admin |-> IF found THEN sessions[token].admin_id ELSE None,
                 version |-> IF found THEN sessions[token].version ELSE 0]
<1>1. Quiet /\ permits' = permits
  BY TableSteps, BrowsersStay DEF OpenLogin, Quiet, history
<1>2. token \in Tokens \cup {None}
  BY DEF IInv, TypeOK
<1>3. found => sessions[token] \in Session
  BY LiveEntries DEF IInv, TypeOK, IsTable, Found
<1>4. q \in RequestStates
  BY <1>2, <1>3 DEF RequestStates, Session
<1>5. Goto(r, q) /\ requests[r] = Idle
  BY DEF OpenLogin
<1>6. ~Holding(r) /\ q.stage \notin HoldingStages /\ NoNewLogin(r, q)
  BY <1>5 DEF Holding, Idle, HoldingStages, NoNewLogin, LoggingIn, Checking
<1> HIDE DEF q
<1> QED
  BY <1>1, <1>4, <1>5, <1>6, QuietStep

(* A reply ends the part of a handler that holds no permit quietly. *)
LEMMA ReplyStep ==
  ASSUME IInv, Quiet, NEW r \in Requests, ~Holding(r), permits' = permits,
         NEW q \in RequestStates, q.stage \in {"idle", "reply"}, Goto(r, q)
  PROVE  IInv'
<1>1. q.stage \notin HoldingStages /\ NoNewLogin(r, q)
  BY DEF HoldingStages, NoNewLogin, LoggingIn, Checking
<1> QED
  BY <1>1, QuietStep

(* What a new session means for access: nothing, when nobody is signed in   *)
(* to it; it is a login otherwise.                                          *)
LEMMA AccessGrows ==
  ASSUME IInv, NEW new \in Unused, NEW r \in Requests, NEW q \in RequestStates,
         Goto(r, q), q.stage = "reply",
         UNCHANGED admins, drawn' = drawn \cup {new},
         \A t \in DOMAIN sessions' :
           \/ t = new
           \/ t \in DOMAIN sessions /\ sessions'[t] = sessions[t],
         \/ /\ verified' = verified
            /\ sessions'[new].admin_id = None
         \/ \E login :
              /\ verified' = Put(verified, new, login)
              /\ Was(login.admin, login.version, login.password)
              /\ sessions'[new].admin_id = login.admin
              /\ sessions'[new].version = login.version
              /\ sessions'[new].expires_at = login.at + AdminTtl
  PROVE  Access'
<1>1. /\ new \notin drawn /\ new \notin DOMAIN verified
      /\ DOMAIN verified \subseteq drawn /\ DOMAIN sessions \subseteq drawn
  BY DEF Unused, IInv, Access, SessionsAreLogins
<1>2. /\ \A t \in DOMAIN verified : t \in DOMAIN verified' /\ verified'[t] = verified[t]
      /\ \A t \in DOMAIN verified' : t \in DOMAIN verified \/ t = new
  BY <1>1, PutEntries
<1>3. sessions'[new].admin_id # None =>
        /\ new \in DOMAIN verified'
        /\ verified'[new].admin = sessions'[new].admin_id
        /\ verified'[new].version = sessions'[new].version
        /\ sessions'[new].expires_at = verified'[new].at + AdminTtl
  BY PutEntries
<1>4. new \in DOMAIN verified' =>
        Was(verified'[new].admin, verified'[new].version, verified'[new].password)
  BY <1>1, PutEntries
<1>5. /\ requests'[r].stage = "reply"
      /\ \A o \in Requests \ {r} : requests'[o] = requests[o]
  BY GotoEffect DEF IInv, TypeOK
<1>6. SessionsAreLogins'
  BY <1>1, <1>2, <1>3 DEF IInv, Access, SessionsAreLogins
<1>7. ChecksAreLogins'
  BY <1>2, <1>5 DEF IInv, Access, ChecksAreLogins, Checking
<1>8. LoginsAreProofs'
  <2>1. \A id, v, password : Was(id, v, password)' <=> Was(id, v, password)
    BY DEF Was
  <2> QED
    BY <1>2, <1>4, <1>5, <2>1 DEF IInv, Access, LoginsAreProofs, At
<1>9. LoginsComeFromForms'
  <2>1. ASSUME NEW o \in Requests, LoggingIn(requests'[o])
        PROVE  LET token == requests'[o].token IN
               /\ token \in drawn'
               /\ token \in DOMAIN sessions' => sessions'[token].admin_id = None
    <3>1. o # r /\ requests'[o] = requests[o]
      BY <2>1, <1>5 DEF LoggingIn
    <3>2. /\ requests[o].token \in drawn
          /\ requests[o].token \in DOMAIN sessions =>
               sessions[requests[o].token].admin_id = None
      BY <3>1, <2>1 DEF IInv, Access, LoginsComeFromForms
    <3> QED
      BY <3>1, <3>2, <1>1
  <2> QED
    BY <2>1 DEF LoginsComeFromForms
<1> QED
  BY <1>6, <1>7, <1>8, <1>9 DEF Access

(* LoginPage: a session it makes is nobody's. *)
LEMMA LoginPageStep ==
  ASSUME IInv, NEW r \in Requests, LoginPage(r)
  PROVE  IInv'
<1> DEFINE q == requests[r]
<1>1. /\ q.browser \in Browsers /\ q.token \in Tokens \cup {None}
      /\ ~Holding(r) /\ q.stage = "page"
  BY RequestFields DEF IInv, TypeOK, LoginPage, At, Holding
<1>2. /\ UNCHANGED <<clock, admins, attempts, permits, restarts, verified, starts>>
      /\ UNCHANGED browser
      /\ cookies' \in [Browsers -> Tokens \cup {None}]
      /\ forms' \in [Browsers -> SUBSET Tokens]
  BY BrowsersStay DEF LoginPage
<1>3. CASE /\ SessionsShrink /\ drawn' = drawn
           /\ \E form \in Tokens \cup {None} : Goto(r, Reply(q.browser, Keep, form))
  <2>1. PICK form \in Tokens \cup {None} : Goto(r, Reply(q.browser, Keep, form))
    BY <1>3
  <2>2. Quiet
    BY <1>2, <1>3 DEF Quiet
  <2> DEFINE reply == Reply(q.browser, Keep, form)
  <2>3. reply \in RequestStates /\ reply.stage = "reply" /\ Goto(r, reply)
    <3>1. Keep \in Tokens \cup {None, Keep} /\ form \in Tokens \cup {None}
      OBVIOUS
    <3>2. q.browser \in Browsers
      BY <1>1
    <3> HIDE DEF q
    <3>3. reply \in RequestStates /\ reply.stage = "reply"
      BY <3>1, <3>2, RepliesAreStates
    <3> QED
      BY <2>1, <3>3 DEF q
  <2> HIDE DEF reply
  <2> QED
    BY <1>1, <1>2, <2>2, <2>3, ReplyStep
<1>4. ASSUME HasRoom, NEW new \in Unused, sessions' = NewSession(new, None, 0),
             drawn' = drawn \cup {new}, Goto(r, Reply(q.browser, new, new))
      PROVE  IInv'
  <2> DEFINE reply == Reply(q.browser, new, new)
  <2>1. new \in Tokens
    BY DEF Unused
  <2>2. reply \in RequestStates /\ reply.stage = "reply"
    BY <1>1, <2>1, RepliesAreStates
  <2>3. /\ IsTable(sessions', Tokens, Session)
        /\ IsFiniteSet(DOMAIN sessions') /\ Cardinality(DOMAIN sessions') <= MaxSessions
        /\ \A t \in DOMAIN sessions' :
             \/ t = new
             \/ t \in DOMAIN sessions /\ sessions'[t] = sessions[t]
        /\ sessions'[new].admin_id = None
    <3> DEFINE s == NewSession(new, None, 0)
    <3>1. /\ IsTable(s, Tokens, Session)
          /\ IsFiniteSet(DOMAIN s) /\ Cardinality(DOMAIN s) <= MaxSessions
          /\ \A t \in DOMAIN s :
               \/ t = new
               \/ t \in DOMAIN sessions /\ s[t] = sessions[t]
          /\ s[new] = [admin_id |-> None, version |-> 0,
                       expires_at |-> clock + PreAuthTtl]
      BY <1>4, MakingASession DEF IInv
    <3> HIDE DEF s
    <3> QED
      BY <3>1, <1>4 DEF s
  <2> HIDE DEF reply
  <2>4. Access'
    BY <1>2, <1>4, <2>2, <2>3, AccessGrows DEF reply
  <2>5. /\ requests' \in [Requests -> RequestStates]
        /\ permits' \in 0 .. Verifications /\ PermitsBalanced'
    <3>1. ~(reply.stage \in HoldingStages)
      BY <2>2 DEF HoldingStages
    <3> QED
      BY <1>1, <1>2, <1>4, <2>2, <3>1, PermitsMove DEF reply, IInv
  <2>6. TypeOK'
    BY <1>2, <1>4, <2>1, <2>3, <2>5 DEF IInv, TypeOK
  <2>7. Rates'
    BY <1>2, RatesStay DEF IInv
  <2>8. Capacity'
    BY <2>3 DEF Capacity, SessionCapacity
  <2> QED
    BY <2>4, <2>5, <2>6, <2>7, <2>8 DEF IInv
<1> QED
  <2>1. CASE sessions' = sessions /\ drawn' = drawn /\ Goto(r, Reply(q.browser, Keep, None))
    BY <2>1, <1>3, TableSteps
  <2>2. CASE /\ sessions' = AfterLookup(q.token) /\ drawn' = drawn
             /\ Found(q.token) /\ Goto(r, Reply(q.browser, Keep, q.token))
    BY <2>2, <1>1, <1>3, TableSteps
  <2>3. CASE /\ sessions' = Live(sessions, clock) /\ drawn' = drawn
             /\ Goto(r, Reply(q.browser, Keep, None))
    BY <2>3, <1>3, TableSteps
  <2> QED
    BY <2>1, <2>2, <2>3, <1>4 DEF LoginPage

(* What a request knows of logins at q is true. *)
Knows(q) ==
  /\ Checking(q) =>
       /\ q.token \in DOMAIN verified
       /\ verified[q.token].admin = q.admin
       /\ verified[q.token].version = q.version
       /\ q.at < verified[q.token].at + AdminTtl
  /\ q.stage = "verified" => Was(q.admin, q.version, q.password)
  /\ LoggingIn(q) =>
       /\ q.token \in drawn
       /\ q.token \in DOMAIN sessions => sessions[q.token].admin_id = None

(* A request goes on and knows more of a login. *)
LEMMA LoginStep ==
  ASSUME IInv, Quiet, NEW r \in Requests, NEW q \in RequestStates, Goto(r, q),
         Knows(q),
         \/ permits' = permits /\ (Holding(r) <=> q.stage \in HoldingStages)
         \/ /\ permits > 0 /\ permits' = permits - 1
            /\ ~Holding(r) /\ q.stage \in HoldingStages
         \/ permits' = permits + 1 /\ Holding(r) /\ q.stage \notin HoldingStages
  PROVE  IInv'
<1>1. Capacity' /\ IsTable(sessions', Tokens, Session)
  BY Shrinking DEF IInv, Quiet
<1>2. Rates'
  BY RatesStay DEF IInv, Quiet
<1>3. /\ requests' \in [Requests -> RequestStates]
      /\ permits' \in 0 .. Verifications
      /\ PermitsBalanced'
  BY PermitsMove DEF IInv
<1>4. /\ requests'[r] = q
      /\ \A o \in Requests \ {r} : requests'[o] = requests[o]
  BY GotoEffect DEF IInv, TypeOK
<1>5. UNCHANGED <<admins, drawn, verified>> /\ SessionsShrink
  BY DEF Quiet
<1>6. SessionsAreLogins'
  BY <1>5 DEF IInv, Access, SessionsAreLogins, SessionsShrink
<1>7. ChecksAreLogins'
  BY <1>4, <1>5 DEF IInv, Access, ChecksAreLogins, Knows
<1>8. LoginsAreProofs'
  <2>1. \A id, v, password : Was(id, v, password)' <=> Was(id, v, password)
    BY <1>5 DEF Was
  <2> QED
    BY <1>4, <1>5, <2>1 DEF IInv, Access, LoginsAreProofs, Knows, At
<1>9. LoginsComeFromForms'
  BY <1>4, <1>5 DEF IInv, Access, LoginsComeFromForms, Knows, SessionsShrink
<1>10. TypeOK'
  BY <1>1, <1>3 DEF IInv, TypeOK, Quiet
<1> QED
  BY <1>1, <1>2, <1>3, <1>6, <1>7, <1>8, <1>9, <1>10 DEF IInv, Access

(* StartLogin: the token is that of a session nobody is signed in to. *)
LEMMA StartLoginStep ==
  ASSUME IInv, NEW r \in Requests, NEW b \in Browsers, NEW form,
         NEW id \in Admins, NEW password \in Passwords,
         StartLogin(r, b, form, id, password)
  PROVE  IInv'
<1> DEFINE token == cookies[b]
           q == [stage |-> "verifying", browser |-> b, token |-> token,
                 admin |-> id, password |-> password, connected |-> TRUE]
<1>1. /\ requests[r] = Idle /\ token \in Tokens
      /\ sessions' = Live(sessions, clock)
      /\ UNCHANGED <<clock, admins, restarts, drawn, verified>>
      /\ cookies' \in [Browsers -> Tokens \cup {None}]
      /\ forms' \in [Browsers -> SUBSET Tokens]
  BY BrowsersStay DEF StartLogin, IInv, TypeOK
<1>2. SessionsShrink /\ ~Holding(r)
  BY <1>1, TableSteps DEF Holding, Idle
<1>3. CASE UNCHANGED <<attempts, permits, requests, starts>>
  <2>1. Quiet
    BY <1>1, <1>2, <1>3 DEF Quiet
  <2> QED
    BY <1>3, <2>1, RefusedStep
<1>4. CASE Attempt /\ UNCHANGED <<permits, requests, starts>>
  <2>1. attempts' \in Seq(Nat) /\ starts' \in Seq(Nat) /\ Rates'
    BY <1>1, <1>4, AttemptWithoutStart DEF IInv, TypeOK
  <2>2. Quiet
    BY <1>1, <1>2, <2>1 DEF Quiet
  <2> QED
    BY <1>4, <2>2, RefusedStep
<1>5. CASE /\ Found(token) /\ sessions[token].admin_id = None
           /\ Attempt /\ Allowed /\ permits > 0 /\ permits' = permits - 1
           /\ starts' = Append(starts, clock) /\ Goto(r, q)
  <2>1. attempts' \in Seq(Nat) /\ starts' \in Seq(Nat) /\ Rates'
    BY <1>1, <1>5, AttemptWithStart DEF IInv
  <2>2. Quiet
    BY <1>1, <1>2, <2>1 DEF Quiet
  <2>3. q \in RequestStates /\ q.stage \in HoldingStages
    BY <1>1 DEF RequestStates, HoldingStages
  <2>4. token \in DOMAIN sessions /\ token \in drawn
    BY <1>5, LiveEntries DEF Found, IInv, Access, SessionsAreLogins
  <2>5. Knows(q)
    BY <1>5, <2>4 DEF Knows, Checking
  <2> HIDE DEF q
  <2> QED
    BY <1>2, <1>5, <2>2, <2>3, <2>5, LoginStep
<1> QED
  BY <1>3, <1>4, <1>5 DEF StartLogin

(* Authenticate: the password is the current one of the version read. *)
LEMMA AuthenticateStep ==
  ASSUME IInv, NEW r \in Requests, Authenticate(r)
  PROVE  IInv'
<1> DEFINE q == requests[r]
           row == admins[q.admin]
           to == [stage |-> "verified", browser |-> q.browser, token |-> q.token,
                  admin |-> q.admin, password |-> q.password,
                  version |-> row.version]
<1>1. /\ q \in RequestStates /\ q.stage = "verifying" /\ Holding(r)
      /\ q.browser \in Browsers /\ q.token \in Tokens /\ q.admin \in Admins
      /\ q.password \in Passwords
  BY RequestFields DEF IInv, TypeOK, Authenticate, At, Holding
<1>2. permits' = permits + 1 /\ Quiet
  BY TableSteps, BrowsersStay DEF Authenticate, Quiet, history
<1>3. CASE Goto(r, Idle)
  <2>1. /\ Idle \in RequestStates /\ Idle.stage \notin HoldingStages
        /\ NoNewLogin(r, Idle)
    BY DEF Idle, RequestStates, HoldingStages, NoNewLogin, LoggingIn, Checking
  <2> QED
    BY <1>1, <1>2, <1>3, <2>1, QuietStep
<1>4. CASE Enabled(q.admin) /\ row.password = q.password /\ Goto(r, to)
  <2>1. q.admin \in DOMAIN admins /\ row \in Admin
    BY <1>4 DEF Enabled, IInv, TypeOK, IsTable
  <2>2. row.version \in Nat
    BY <2>1 DEF Admin
  <2>3. to \in RequestStates /\ to.stage \notin HoldingStages
    BY <1>1, <2>2 DEF RequestStates, HoldingStages
  <2>4. Was(q.admin, row.version, q.password)
    BY <1>4, <2>1, <2>2 DEF Was
  <2>5. /\ q.token \in drawn
        /\ q.token \in DOMAIN sessions => sessions[q.token].admin_id = None
    BY <1>1 DEF IInv, Access, LoginsComeFromForms, LoggingIn
  <2>6. Knows(to)
    BY <2>4, <2>5 DEF Knows, Checking
  <2> HIDE DEF to
  <2> QED
    BY <1>1, <1>2, <1>4, <2>3, <2>6, LoginStep
<1> QED
  BY <1>3, <1>4 DEF Authenticate, End

(* FinishLogin: the session it makes is the login that was verified. *)
LEMMA FinishLoginStep ==
  ASSUME IInv, NEW r \in Requests, FinishLogin(r)
  PROVE  IInv'
<1> DEFINE q == requests[r]
<1>1. /\ q.browser \in Browsers /\ q.admin \in Admins /\ q.version \in Nat
      /\ q.password \in Passwords /\ q.token \in Tokens
      /\ ~Holding(r) /\ q.stage = "verified"
  BY RequestFields DEF IInv, TypeOK, FinishLogin, At, Holding
<1>2. /\ UNCHANGED <<clock, admins, attempts, permits, restarts, starts>>
      /\ cookies' \in [Browsers -> Tokens \cup {None}]
      /\ forms' \in [Browsers -> SUBSET Tokens]
  BY BrowsersStay DEF FinishLogin
<1>3. Was(q.admin, q.version, q.password)
  BY <1>1 DEF IInv, Access, LoginsAreProofs, At
<1>4. CASE /\ sessions' = Live(sessions, clock) /\ UNCHANGED <<drawn, verified>>
           /\ Goto(r, Reply(q.browser, Keep, None))
  <2> DEFINE reply == Reply(q.browser, Keep, None)
  <2>1. Quiet
    BY <1>2, <1>4, TableSteps DEF Quiet
  <2>2. reply \in RequestStates /\ reply.stage = "reply"
    <3>1. Keep \in Tokens \cup {None, Keep} /\ None \in Tokens \cup {None}
      OBVIOUS
    <3> QED
      BY <1>1, <3>1, RepliesAreStates
  <2> HIDE DEF reply
  <2> QED
    BY <1>1, <1>2, <1>4, <2>1, <2>2, ReplyStep DEF reply
<1>5. ASSUME HasRoom, NEW new \in Unused,
             sessions' = Drop(NewSession(new, q.admin, q.version), q.token),
             drawn' = drawn \cup {new},
             verified' = Put(verified, new,
               [admin |-> q.admin, version |-> q.version,
                password |-> q.password, at |-> clock]),
             Goto(r, Reply(q.browser, new, None))
      PROVE  IInv'
  <2> DEFINE reply == Reply(q.browser, new, None)
             s == NewSession(new, q.admin, q.version)
             login == [admin |-> q.admin, version |-> q.version,
                       password |-> q.password, at |-> clock]
  <2>1. new \in Tokens /\ q.token # new /\ q.admin # None
    BY <1>1, LimitsArePositive
    DEF Unused, IInv, Access, LoginsComeFromForms, LoggingIn
  <2>2. reply \in RequestStates /\ reply.stage = "reply"
    <3>1. new \in Tokens \cup {None, Keep} /\ None \in Tokens \cup {None}
      BY <2>1
    <3> QED
      BY <1>1, <3>1, RepliesAreStates
  <2>3. /\ IsTable(s, Tokens, Session)
        /\ IsFiniteSet(DOMAIN s) /\ Cardinality(DOMAIN s) <= MaxSessions
        /\ \A t \in DOMAIN s :
             \/ t = new
             \/ t \in DOMAIN sessions /\ s[t] = sessions[t]
        /\ new \in DOMAIN s
        /\ s[new] = [admin_id |-> q.admin, version |-> q.version,
                     expires_at |-> clock + AdminTtl]
    BY <1>1, <1>5, <2>1, MakingASession DEF IInv
  <2>4. login \in Login
    BY <1>1 DEF Login, IInv, TypeOK
  <2> HIDE DEF reply, s
  <2>5. /\ DOMAIN sessions' \subseteq DOMAIN s
        /\ new \in DOMAIN sessions'
        /\ \A t \in DOMAIN sessions' : sessions'[t] = s[t]
    BY <1>5, <2>1, <2>3, DropEntries DEF s
  <2>6. /\ IsTable(sessions', Tokens, Session)
        /\ \A t \in DOMAIN sessions' :
             \/ t = new
             \/ t \in DOMAIN sessions /\ sessions'[t] = sessions[t]
        /\ sessions'[new].admin_id = login.admin
        /\ sessions'[new].version = login.version
        /\ sessions'[new].expires_at = login.at + AdminTtl
    BY <2>3, <2>5 DEF IsTable
  <2>7. Capacity'
    <3>1. /\ IsFiniteSet(DOMAIN sessions')
          /\ Cardinality(DOMAIN sessions') <= Cardinality(DOMAIN s)
          /\ Cardinality(DOMAIN sessions') \in Nat /\ Cardinality(DOMAIN s) \in Nat
      BY <2>3, <2>5, FS_Subset, FS_CardinalityType
    <3> QED
      BY <2>3, <3>1, LimitsArePositive DEF Capacity, SessionCapacity
  <2>8. Access'
    <3>1. Was(login.admin, login.version, login.password)
      BY <1>3
    <3>2. verified' = Put(verified, new, login)
      BY <1>5
    <3>3. Goto(r, reply)
      BY <1>5 DEF reply
    <3> HIDE DEF login
    <3> QED
      BY <1>2, <1>5, <2>2, <2>6, <3>1, <3>2, <3>3, AccessGrows
  <2>9. /\ requests' \in [Requests -> RequestStates]
        /\ permits' \in 0 .. Verifications /\ PermitsBalanced'
    <3>1. ~(reply.stage \in HoldingStages)
      BY <2>2 DEF HoldingStages
    <3> QED
      BY <1>1, <1>2, <1>5, <2>2, <3>1, PermitsMove DEF reply, IInv
  <2>10. IsTable(verified', Tokens, Login)
    BY <1>5, <2>1, <2>4, TablesStayTables DEF IInv, TypeOK
  <2>11. TypeOK'
    BY <1>2, <1>5, <2>1, <2>6, <2>9, <2>10 DEF IInv, TypeOK
  <2>12. Rates'
    BY <1>2, RatesStay DEF IInv
  <2> QED
    BY <2>7, <2>8, <2>9, <2>11, <2>12 DEF IInv
<1> QED
  BY <1>4, <1>5 DEF FinishLogin

(* StartPage: the request knows the login of the session it found. *)
LEMMA StartPageStep ==
  ASSUME IInv, NEW r \in Requests, NEW b \in Browsers,
         NEW purpose \in {"view", "change"}, NEW form \in Tokens \cup {None},
         StartPage(r, b, purpose, form)
  PROVE  IInv'
<1> DEFINE token == cookies[b]
           s == sessions[token]
           q == [stage |-> "authorizing", purpose |-> purpose, browser |-> b,
                 token |-> token, admin |-> s.admin_id, version |-> s.version,
                 at |-> clock, form |-> form]
<1>1. Quiet /\ permits' = permits /\ requests[r] = Idle /\ token \in Tokens
  BY TableSteps, BrowsersStay DEF StartPage, Quiet, history, IInv, TypeOK
<1>2. CASE UNCHANGED requests
  BY <1>1, <1>2, RefusedStep
<1>3. CASE Found(token) /\ s.admin_id # None /\ Goto(r, q)
  <2>1. token \in DOMAIN sessions /\ s.expires_at > clock
    BY <1>3, LiveEntries DEF Found
  <2>2. s \in Session
    BY <2>1 DEF IInv, TypeOK, IsTable
  <2>3. s.admin_id \in Admins /\ s.version \in Nat /\ clock \in Nat
    BY <1>3, <2>2 DEF Session, IInv, TypeOK
  <2>4. q \in RequestStates
    BY <1>1, <2>3 DEF RequestStates
  <2>5. /\ token \in DOMAIN verified /\ verified[token].admin = s.admin_id
        /\ verified[token].version = s.version
        /\ s.expires_at = verified[token].at + AdminTtl
    BY <1>3, <2>1 DEF IInv, Access, SessionsAreLogins
  <2>6. clock < verified[token].at + AdminTtl
    BY <2>1, <2>5
  <2>7. Knows(q)
    BY <2>5, <2>6 DEF Knows, LoggingIn
  <2>8. ~Holding(r) /\ q.stage \notin HoldingStages
    BY <1>1 DEF Holding, Idle, HoldingStages
  <2> HIDE DEF q
  <2> QED
    BY <1>1, <1>3, <2>4, <2>7, <2>8, LoginStep
<1> QED
  BY <1>2, <1>3 DEF StartPage

(* Authorize: the request knows what it knew. *)
LEMMA AuthorizeStep ==
  ASSUME IInv, NEW r \in Requests, Authorize(r)
  PROVE  IInv'
<1> DEFINE q == requests[r]
           to == [q EXCEPT !.stage = "authorized"]
<1>1. /\ Quiet /\ permits' = permits /\ ~Holding(r)
      /\ q \in RequestStates /\ q.stage = "authorizing"
  BY TableSteps, BrowsersStay
  DEF Authorize, Quiet, server, history, At, Holding, IInv, TypeOK
<1>2. CASE Goto(r, Idle)
  <2>1. Idle \in RequestStates /\ Idle.stage \in {"idle", "reply"}
    BY DEF Idle, RequestStates
  <2> QED
    BY <1>1, <1>2, <2>1, ReplyStep
<1>3. CASE Goto(r, to)
  <2>1. /\ to \in RequestStates /\ to.stage = "authorized"
        /\ to.token = q.token /\ to.admin = q.admin /\ to.version = q.version
        /\ to.at = q.at
    BY <1>1, RequestUpdates
  <2>2. /\ q.token \in DOMAIN verified /\ verified[q.token].admin = q.admin
        /\ verified[q.token].version = q.version
        /\ q.at < verified[q.token].at + AdminTtl
    BY <1>1 DEF IInv, Access, ChecksAreLogins, Checking
  <2> HIDE DEF to
  <2>3. Knows(to) /\ to.stage \notin HoldingStages
    BY <2>1, <2>2 DEF Knows, LoggingIn, HoldingStages
  <2> QED
    BY <1>1, <1>3, <2>1, <2>3, LoginStep
<1> QED
  BY <1>2, <1>3 DEF Authorize, End

(* ShowPage: the request knows no login any more. *)
LEMMA ShowPageStep ==
  ASSUME IInv, NEW r \in Requests, ShowPage(r)
  PROVE  IInv'
<1> DEFINE q == requests[r]
           reply == Reply(q.browser, Keep, q.token)
<1>1. /\ Quiet /\ permits' = permits /\ ~Holding(r)
      /\ q.browser \in Browsers /\ q.token \in Tokens
  BY TableSteps, BrowsersStay, RequestFields
  DEF ShowPage, Quiet, server, history, At, Holding, IInv, TypeOK
<1>2. reply \in RequestStates /\ reply.stage = "reply"
  <2>1. Keep \in Tokens \cup {None, Keep} /\ q.token \in Tokens \cup {None}
    BY <1>1
  <2> QED
    BY <1>1, <2>1, RepliesAreStates
<1>3. Goto(r, reply)
  BY DEF ShowPage
<1> HIDE DEF reply
<1> QED
  BY <1>1, <1>2, <1>3, ReplyStep

(* StartChange: an attempt and, if it is let in, a permit. *)
LEMMA StartChangeStep ==
  ASSUME IInv, NEW r \in Requests, NEW current \in Passwords, NEW new \in Passwords,
         StartChange(r, current, new)
  PROVE  IInv'
<1> DEFINE q == requests[r]
           reply == Reply(q.browser, Keep, q.token)
           to == [stage |-> "reading", browser |-> q.browser, admin |-> q.admin,
                  current |-> current, new |-> new, connected |-> TRUE]
<1>1. /\ q.browser \in Browsers /\ q.token \in Tokens /\ q.admin \in Admins
      /\ ~Holding(r)
      /\ UNCHANGED <<clock, admins, sessions, restarts, drawn, verified>>
      /\ cookies' \in [Browsers -> Tokens \cup {None}]
      /\ forms' \in [Browsers -> SUBSET Tokens]
  BY BrowsersStay, RequestFields
  DEF StartChange, At, Holding, IInv, TypeOK
<1>2. SessionsShrink
  BY <1>1, TableSteps
<1>3. /\ reply \in RequestStates /\ reply.stage = "reply"
      /\ Idle \in RequestStates /\ Idle.stage \in {"idle", "reply"}
  <2>1. Keep \in Tokens \cup {None, Keep} /\ q.token \in Tokens \cup {None}
    BY <1>1
  <2> QED
    BY <1>1, <2>1, RepliesAreStates
<1> HIDE DEF reply
<1>4. CASE Goto(r, reply) /\ UNCHANGED <<attempts, permits, starts>>
  <2>1. Quiet
    BY <1>1, <1>2, <1>4 DEF Quiet
  <2> QED
    BY <1>1, <1>3, <1>4, <2>1, ReplyStep
<1>5. CASE Attempt /\ Goto(r, Idle) /\ UNCHANGED <<permits, starts>>
  <2>1. attempts' \in Seq(Nat) /\ starts' \in Seq(Nat) /\ Rates'
    BY <1>1, <1>5, AttemptWithoutStart DEF IInv, TypeOK
  <2>2. Quiet
    BY <1>1, <1>2, <2>1 DEF Quiet
  <2> QED
    BY <1>1, <1>3, <1>5, <2>2, ReplyStep
<1>6. CASE /\ Attempt /\ Allowed /\ permits > 0 /\ permits' = permits - 1
           /\ starts' = Append(starts, clock) /\ Goto(r, to)
  <2>1. attempts' \in Seq(Nat) /\ starts' \in Seq(Nat) /\ Rates'
    BY <1>1, <1>6, AttemptWithStart DEF IInv
  <2>2. Quiet
    BY <1>1, <1>2, <2>1 DEF Quiet
  <2>3. to \in RequestStates /\ to.stage \in HoldingStages /\ NoNewLogin(r, to)
    BY <1>1 DEF RequestStates, HoldingStages, NoNewLogin, LoggingIn, Checking
  <2> HIDE DEF to
  <2> QED
    BY <1>1, <1>6, <2>2, <2>3, QuietStep
<1> QED
  BY <1>4, <1>5, <1>6 DEF StartChange, End, reply

(* ReadCredentials: the permit is kept or given back. *)
LEMMA ReadCredentialsStep ==
  ASSUME IInv, NEW r \in Requests, ReadCredentials(r)
  PROVE  IInv'
<1> DEFINE q == requests[r]
           row == admins[q.admin]
           reply == Reply(q.browser, None, None)
           to == [stage |-> "hashing", browser |-> q.browser, admin |-> q.admin,
                  current |-> q.current, new |-> q.new,
                  version |-> row.version, connected |-> q.connected]
<1>1. /\ q.stage = "reading" /\ Holding(r) /\ q.browser \in Browsers
      /\ q.admin \in Admins /\ q.current \in Passwords /\ q.new \in Passwords
      /\ q.connected \in BOOLEAN
  BY RequestFields DEF IInv, TypeOK, ReadCredentials, At, Holding
<1>2. Quiet
  BY TableSteps, BrowsersStay DEF ReadCredentials, Quiet, history
<1>3. /\ reply \in RequestStates /\ Idle \in RequestStates
      /\ reply.stage \notin HoldingStages /\ NoNewLogin(r, reply)
      /\ Idle.stage \notin HoldingStages /\ NoNewLogin(r, Idle)
  <2>1. None \in Tokens \cup {None, Keep} /\ None \in Tokens \cup {None}
    OBVIOUS
  <2>2. /\ reply \in RequestStates /\ reply.stage = "reply"
        /\ Idle \in RequestStates /\ Idle.stage = "idle"
    BY <1>1, <2>1, RepliesAreStates
  <2> HIDE DEF reply
  <2> QED
    BY <2>2 DEF HoldingStages, NoNewLogin, LoggingIn, Checking
<1> HIDE DEF reply
<1>4. CASE permits' = permits + 1 /\ (Goto(r, reply) \/ Goto(r, Idle))
  BY <1>1, <1>2, <1>3, <1>4, QuietStep
<1>5. CASE Enabled(q.admin) /\ Goto(r, to) /\ permits' = permits
  <2>1. row.version \in Nat
    BY <1>5 DEF Enabled, IInv, TypeOK, IsTable, Admin
  <2>2. to \in RequestStates /\ to.stage \in HoldingStages /\ NoNewLogin(r, to)
    BY <1>1, <2>1
    DEF RequestStates, HoldingStages, NoNewLogin, LoggingIn, Checking
  <2> HIDE DEF to
  <2> QED
    BY <1>1, <1>2, <1>5, <2>2, QuietStep
<1> QED
  BY <1>4, <1>5 DEF ReadCredentials, End, reply

(* UpdateCredentials: the version goes up, so that older logins are stale. *)
LEMMA UpdateCredentialsStep ==
  ASSUME IInv, NEW r \in Requests, UpdateCredentials(r)
  PROVE  IInv'
<1> DEFINE q == requests[r]
           to == [stage |-> "changed", browser |-> q.browser, admin |-> q.admin]
<1>1. /\ q.stage = "hashing" /\ Holding(r) /\ q.browser \in Browsers
      /\ q.admin \in Admins /\ q.new \in Passwords
  BY RequestFields DEF IInv, TypeOK, UpdateCredentials, At, Holding
<1>2. /\ permits' = permits + 1
      /\ UNCHANGED <<clock, sessions, attempts, restarts, drawn, verified, starts>>
      /\ cookies' \in [Browsers -> Tokens \cup {None}]
      /\ forms' \in [Browsers -> SUBSET Tokens]
  BY BrowsersStay DEF UpdateCredentials, history
<1>3. PICK p \in RequestStates : Goto(r, p) /\ p.stage \in {"idle", "changed"}
  <2>1. to \in RequestStates /\ Idle \in RequestStates /\ Idle.stage = "idle"
    BY <1>1 DEF RequestStates, Idle
  <2> QED
    BY <2>1 DEF UpdateCredentials, End
<1>4. /\ requests' \in [Requests -> RequestStates]
      /\ permits' \in 0 .. Verifications /\ PermitsBalanced'
      /\ requests'[r] = p
      /\ \A o \in Requests \ {r} : requests'[o] = requests[o]
  <2>1. p.stage \notin HoldingStages
    BY <1>3 DEF HoldingStages
  <2> QED
    BY <1>1, <1>2, <1>3, <2>1, PermitsMove, GotoEffect DEF IInv, TypeOK
<1>5. AccountsGrow /\ IsTable(admins', Admins, Admin)
  <2>1. CASE UNCHANGED admins
    BY <2>1 DEF AccountsGrow, IInv, TypeOK, IsTable, Admin
  <2>2. CASE /\ q.admin \in DOMAIN admins
             /\ admins' = [admins EXCEPT ![q.admin].password = q.new,
                                         ![q.admin].version = @ + 1]
    <3>1. \A i \in DOMAIN admins : admins[i] \in Admin
      BY DEF IInv, TypeOK, IsTable
    <3>2. /\ DOMAIN admins' = DOMAIN admins
          /\ \A i \in DOMAIN admins \ {q.admin} : admins'[i] = admins[i]
          /\ admins'[q.admin] \in Admin
          /\ admins'[q.admin].version = admins[q.admin].version + 1
      <4> DEFINE row == admins[q.admin]
                 changed == [[row EXCEPT !.password = q.new] EXCEPT !.version = @ + 1]
      <4>1. row \in Admin /\ changed \in Admin /\ changed.version = row.version + 1
        BY <1>1, <2>2, <3>1 DEF Admin
      <4> HIDE DEF changed
      <4>2. admins'[q.admin] = changed
        BY <2>2 DEF changed
      <4> QED
        BY <2>2, <4>1, <4>2
    <3>3. \A i \in DOMAIN admins : admins[i].version \in Nat /\ admins'[i] \in Admin
      BY <3>1, <3>2 DEF Admin
    <3>4. IsTable(admins', Admins, Admin)
      BY <3>2, <3>3 DEF IInv, TypeOK, IsTable
    <3>5. AccountsGrow
      <4>1. ASSUME NEW i \in DOMAIN admins
            PROVE  /\ i \in DOMAIN admins' /\ admins'[i].version \in Nat
                   /\ \/ /\ admins'[i].version = admins[i].version
                         /\ admins'[i].password = admins[i].password
                      \/ admins'[i].version = admins[i].version + 1
        BY <3>2, <3>3 DEF Admin
      <4> QED
        BY <4>1 DEF AccountsGrow
    <3> QED
      BY <3>4, <3>5
  <2> QED
    BY <2>1, <2>2 DEF UpdateCredentials
<1>6. TypeOK'
  BY <1>2, <1>4, <1>5 DEF IInv, TypeOK
<1>7. Rates'
  BY <1>2, RatesStay DEF IInv
<1>8. Capacity'
  BY <1>2 DEF IInv, Capacity, SessionCapacity
<1>9. LoginsAreProofs'
  <2>1. ASSUME NEW t \in DOMAIN verified
        PROVE  Was(verified[t].admin, verified[t].version, verified[t].password)'
    <3>1. Was(verified[t].admin, verified[t].version, verified[t].password)
      BY DEF IInv, Access, LoginsAreProofs
    <3>2. verified[t].version \in Nat
      BY DEF IInv, TypeOK, IsTable, Login
    <3> QED
      BY <3>1, <3>2, <1>2, <1>5, ProofsStay DEF IInv, Was
  <2>2. ASSUME NEW o \in Requests, At(o, "verified")'
        PROVE  Was(requests[o].admin, requests[o].version, requests[o].password)'
    <3>1. o # r /\ requests'[o] = requests[o] /\ At(o, "verified")
      BY <2>2, <1>3, <1>4 DEF At
    <3>2. Was(requests[o].admin, requests[o].version, requests[o].password)
      BY <3>1 DEF IInv, Access, LoginsAreProofs
    <3>3. requests[o].version \in Nat
      BY <3>1, RequestFields DEF IInv, TypeOK, At
    <3> QED
      BY <3>1, <3>2, <3>3, <1>5, ProofsStay DEF IInv, Was
  <2> QED
    BY <2>1, <2>2, <1>2 DEF LoginsAreProofs
<1>10. SessionsAreLogins' /\ ChecksAreLogins' /\ LoginsComeFromForms'
  BY <1>2, <1>3, <1>4
  DEF IInv, Access, SessionsAreLogins, ChecksAreLogins, LoginsComeFromForms,
      Checking, LoggingIn
<1> QED
  BY <1>4, <1>6, <1>7, <1>8, <1>9, <1>10 DEF IInv, Access

(* FinishChange: sessions only end. *)
LEMMA FinishChangeStep ==
  ASSUME IInv, NEW r \in Requests, FinishChange(r)
  PROVE  IInv'
<1> DEFINE q == requests[r]
           reply == Reply(q.browser, None, None)
           others == {t \in DOMAIN sessions : sessions[t].admin_id # q.admin}
<1>1. q.browser \in Browsers /\ ~Holding(r)
  BY RequestFields DEF IInv, TypeOK, FinishChange, At, Holding
<1>2. SessionsShrink
  <2>1. sessions' = Restrict(sessions, DOMAIN sessions \cap others)
    <3>1. DOMAIN sessions \cap others = others
      OBVIOUS
    <3> QED
      BY <3>1 DEF FinishChange
  <2> QED
    BY <2>1, TableSteps
<1>3. Quiet /\ permits' = permits
  BY <1>2, BrowsersStay DEF FinishChange, Quiet, history
<1>4. reply \in RequestStates /\ reply.stage = "reply"
  <2>1. None \in Tokens \cup {None, Keep} /\ None \in Tokens \cup {None}
    OBVIOUS
  <2> QED
    BY <1>1, <2>1, RepliesAreStates
<1>5. Goto(r, reply)
  BY DEF FinishChange
<1> HIDE DEF reply
<1> QED
  BY <1>1, <1>3, <1>4, <1>5, ReplyStep

(* Logout: sessions only end. *)
LEMMA LogoutStep ==
  ASSUME IInv, NEW r \in Requests, NEW b \in Browsers, NEW form, Logout(r, b, form)
  PROVE  IInv'
<1> DEFINE reply == Reply(b, None, None)
<1>1. Quiet /\ permits' = permits /\ ~Holding(r)
  BY TableSteps, BrowsersStay DEF Logout, Quiet, history, Holding, Idle
<1>2. reply \in RequestStates /\ reply.stage = "reply"
  <2>1. None \in Tokens \cup {None, Keep} /\ None \in Tokens \cup {None}
    OBVIOUS
  <2> QED
    BY <2>1, RepliesAreStates
<1>3. Goto(r, reply) \/ UNCHANGED requests
  BY DEF Logout
<1> HIDE DEF reply
<1> QED
  BY <1>1, <1>2, <1>3, ReplyStep, RefusedStep

-----------------------------------------------------------------------------
(* The invariant holds in every behaviour.                                  *)

(* A server without sessions and requests satisfies the invariant. *)
LEMMA InitIInv == Init => IInv
<1> SUFFICES ASSUME Init PROVE IInv
  OBVIOUS
<1>1. /\ <<>> \in Seq(Nat) /\ Len(<<>>) = 0 /\ DOMAIN <<>> = {}
  BY EmptySeq, LenProperties
<1>2. DOMAIN NoEntries = {}
  BY DEF NoEntries
<1>3. TypeOK
  BY <1>1, <1>2, LimitsArePositive DEF Init, TypeOK, IsTable, RequestStates
<1>4. PermitsBalanced
  <2>1. Held = {}
    BY DEF Init, Held, Holding, Idle
  <2>2. permits + Cardinality(Held) = Verifications
    BY <2>1, FS_EmptySet, LimitsArePositive DEF Init
  <2> QED
    BY <2>2 DEF Held, PermitsBalanced
<1>5. Capacity
  BY <1>2, FS_EmptySet, LimitsArePositive DEF Init, Capacity, SessionCapacity
<1>6. Rates
  BY <1>1 DEF Init, Rates, AttemptsInOrder, StartsAreAttempts, RateLimited, Ordered
<1>7. Access
  BY <1>2
  DEF Init, Access, SessionsAreLogins, ChecksAreLogins, LoginsAreProofs,
      LoginsComeFromForms, Checking, LoggingIn, At, Idle
<1> QED
  BY <1>3, <1>4, <1>5, <1>6, <1>7 DEF IInv

(* Every step keeps the invariant. *)
LEMMA NextIInv == IInv /\ [Next]_vars => IInv'
<1> SUFFICES ASSUME IInv, [Next]_vars PROVE IInv'
  OBVIOUS
<1>1. CASE UNCHANGED vars
  <2>1. UNCHANGED <<clock, admins, sessions, attempts, permits, requests, cookies,
                    forms, restarts, drawn, verified, starts>>
    BY <1>1 DEF vars, server, browser, history
  <2>2. Quiet
    BY <2>1, TableSteps DEF Quiet, IInv, TypeOK
  <2> QED
    BY <2>1, <2>2, RefusedStep
<1>2. CASE Tick \/ Restart
  BY <1>2, TickStep, RestartStep
<1>3. CASE \E id \in Admins :
             SetEnabled(id) \/ \E password \in Passwords : Create(id, password)
  BY <1>3, SetEnabledStep, CreateStep
<1>4. ASSUME NEW r \in Requests,
             \/ Disconnect(r) \/ Receive(r) \/ LoginPage(r)
             \/ Authenticate(r) \/ FinishLogin(r) \/ Authorize(r) \/ ShowPage(r)
             \/ ReadCredentials(r) \/ UpdateCredentials(r) \/ FinishChange(r)
             \/ \E current, new \in Passwords : StartChange(r, current, new)
      PROVE  IInv'
  BY <1>4, DisconnectStep, ReceiveStep, LoginPageStep, AuthenticateStep,
     FinishLoginStep, AuthorizeStep, ShowPageStep, ReadCredentialsStep,
     UpdateCredentialsStep, FinishChangeStep, StartChangeStep
<1>5. ASSUME NEW r \in Requests, NEW b \in Browsers,
             \/ OpenLogin(r, b) \/ StartPage(r, b, "view", None)
             \/ \E form \in forms[b] : StartPage(r, b, "change", form)
             \/ \E form \in forms[b] : Logout(r, b, form)
             \/ \E form \in forms[b], id \in Admins, password \in Passwords :
                  StartLogin(r, b, form, id, password)
      PROVE  IInv'
  <2>1. forms[b] \subseteq Tokens
    BY DEF IInv, TypeOK
  <2> QED
    BY <1>5, <2>1, OpenLoginStep, StartPageStep, LogoutStep, StartLoginStep
<1> QED
  BY <1>1, <1>2, <1>3, <1>4, <1>5 DEF Next

(* The invariant holds in every reachable state. *)
THEOREM Invariance == Spec => []IInv
<1>1. Init => IInv
  BY InitIInv
<1>2. IInv /\ [Next]_vars => IInv'
  BY NextIInv
<1> QED
  BY <1>1, <1>2, PTL DEF Spec

(* Every variable has its type: in particular no permit appears from        *)
(* nowhere, and a token names at most one session.                          *)
THEOREM TypeCorrect == Spec => []TypeOK
<1>1. IInv => TypeOK
  BY DEF IInv
<1> QED
  BY <1>1, Invariance, PTL

(* No interleaving of refusals, dropped connections and endings of tasks    *)
(* loses or doubles a permit, for any number of permits and requests.       *)
THEOREM Balance == Spec => []PermitsBalanced
<1>1. IInv => PermitsBalanced
  BY DEF IInv
<1> QED
  BY <1>1, Invariance, PTL

(* The session table keeps to its capacity, also when logins that were      *)
(* verified together finish together.                                       *)
THEOREM Capped == Spec => []SessionCapacity
<1>1. IInv => SessionCapacity
  BY DEF IInv, Capacity
<1> QED
  BY <1>1, Invariance, PTL

(* The attempts the server remembers are enough: whatever it has forgotten, *)
(* it starts no more than MaxAttempts verifications in a Window.            *)
THEOREM Limited == Spec => []RateLimited
<1>1. IInv => RateLimited
  BY DEF IInv, Rates
<1> QED
  BY <1>1, Invariance, PTL

-----------------------------------------------------------------------------
(* What a step may do.                                                      *)

(* Only the check of the account lets a page through. *)
LEMMA GrantedByCheck ==
  ASSUME IInv, Next, NEW r \in Requests, Granted(r)
  PROVE  Authorize(r) /\ Authorized(requests[r].admin, requests[r].version)
<1>1. /\ requests \in [Requests -> RequestStates]
      /\ requests[r].stage = "authorizing" /\ requests'[r].stage = "authorized"
  BY DEF IInv, TypeOK, Granted, At
<1>2. ~(Tick \/ Restart)
  BY <1>1 DEF Tick, Restart, Idle
<1>3. \A id \in Admins :
        ~SetEnabled(id) /\ \A password \in Passwords : ~Create(id, password)
  BY <1>1 DEF SetEnabled, Create
<1>4. ASSUME NEW o \in Requests, o # r
      PROVE  /\ ~Disconnect(o) /\ ~Receive(o) /\ ~LoginPage(o)
             /\ ~Authenticate(o) /\ ~FinishLogin(o) /\ ~Authorize(o) /\ ~ShowPage(o)
             /\ ~ReadCredentials(o) /\ ~UpdateCredentials(o) /\ ~FinishChange(o)
             /\ \A current, new \in Passwords : ~StartChange(o, current, new)
  <2>1. \A q : Goto(o, q) => requests'[r] = requests[r]
    BY <1>1, <1>4 DEF Goto
  <2>2. ~Disconnect(o) /\ ~Receive(o) /\ ~LoginPage(o) /\ ~Authenticate(o)
    BY <1>1, <1>4, <2>1 DEF Disconnect, Receive, LoginPage, Authenticate, End
  <2>3. ~FinishLogin(o) /\ ~Authorize(o) /\ ~ShowPage(o) /\ ~ReadCredentials(o)
    BY <1>1, <2>1 DEF FinishLogin, Authorize, ShowPage, ReadCredentials, End
  <2>4. /\ ~UpdateCredentials(o) /\ ~FinishChange(o)
        /\ \A current, new \in Passwords : ~StartChange(o, current, new)
    BY <1>1, <2>1 DEF UpdateCredentials, FinishChange, StartChange, End
  <2> QED
    BY <2>2, <2>3, <2>4
<1>5. ASSUME NEW o \in Requests, NEW b \in Browsers, NEW form
      PROVE  /\ ~OpenLogin(o, b) /\ ~Logout(o, b, form)
             /\ \A purpose : ~StartPage(o, b, purpose, form)
             /\ \A id, password : ~StartLogin(o, b, form, id, password)
  <2>1. requests[o] = Idle => o # r
    BY <1>1 DEF Idle
  <2>2. o # r => \A q : Goto(o, q) => requests'[r] = requests[r]
    BY <1>1 DEF Goto
  <2> QED
    BY <1>1, <2>1, <2>2 DEF OpenLogin, Logout, StartPage, StartLogin
<1>6. /\ ~Disconnect(r) /\ ~Receive(r) /\ ~LoginPage(r)
      /\ ~Authenticate(r) /\ ~FinishLogin(r) /\ ~ShowPage(r)
      /\ ~ReadCredentials(r) /\ ~UpdateCredentials(r) /\ ~FinishChange(r)
      /\ \A current, new \in Passwords : ~StartChange(r, current, new)
  <2>1. ~Disconnect(r)
    BY <1>1 DEF Disconnect, Holding, End, Goto, Idle
  <2> QED
    BY <1>1, <2>1
    DEF Receive, LoginPage, Authenticate, FinishLogin, ShowPage, ReadCredentials,
        UpdateCredentials, FinishChange, StartChange, At
<1>7. Authorize(r)
  <2>1. \A o \in Requests, b \in Browsers :
          /\ ~OpenLogin(o, b) /\ ~StartPage(o, b, "view", None)
          /\ \A form \in forms[b] :
               /\ ~StartPage(o, b, "change", form) /\ ~Logout(o, b, form)
               /\ \A id \in Admins, password \in Passwords :
                    ~StartLogin(o, b, form, id, password)
    BY <1>5
  <2>2. PICK o \in Requests :
          \/ Disconnect(o) \/ Receive(o) \/ LoginPage(o)
          \/ Authenticate(o) \/ FinishLogin(o) \/ Authorize(o) \/ ShowPage(o)
          \/ ReadCredentials(o) \/ UpdateCredentials(o) \/ FinishChange(o)
          \/ \E current, new \in Passwords : StartChange(o, current, new)
    BY <1>2, <1>3, <2>1 DEF Next
  <2>3. o = r
    BY <2>2, <1>4
  <2> QED
    BY <2>2, <2>3, <1>6
<1>8. Authorized(requests[r].admin, requests[r].version)
  BY <1>1, <1>7 DEF Authorize, End, Goto, Idle
<1> QED
  BY <1>7, <1>8

(* A page is served only to somebody who proved the password that is        *)
(* current when the account is checked, less than AdminTtl before, and of   *)
(* an account that is enabled then: whatever was verified, changed, purged, *)
(* restarted or lost in between, and for any number of administrators.      *)
THEOREM CurrentAccess == Spec => CurrentCredentialAccess
<1>1. ASSUME IInv, Next, NEW r \in Requests, Granted(r)
      PROVE  LET q     == requests[r]
                 login == verified[q.token]
             IN
             /\ login.admin = q.admin
             /\ login.password = admins[q.admin].password
             /\ admins[q.admin].enabled
             /\ q.at < login.at + AdminTtl
  <2> DEFINE q == requests[r]
             login == verified[q.token]
  <2>1. Authorized(q.admin, q.version)
    BY <1>1, GrantedByCheck
  <2>2. /\ q.token \in DOMAIN verified
        /\ login.admin = q.admin /\ login.version = q.version
        /\ q.at < login.at + AdminTtl
    BY <1>1 DEF IInv, Access, ChecksAreLogins, Checking, Granted, At
  <2>3. Was(login.admin, login.version, login.password)
    BY <1>1, <2>2 DEF IInv, Access, LoginsAreProofs
  <2> QED
    BY <2>1, <2>2, <2>3 DEF Authorized, Enabled, Was
<1>2. IInv /\ [Next]_vars =>
        [\A r \in Requests :
           Granted(r) =>
             LET q     == requests[r]
                 login == verified[q.token]
             IN
             /\ login.admin = q.admin
             /\ login.password = admins[q.admin].password
             /\ admins[q.admin].enabled
             /\ q.at < login.at + AdminTtl]_vars
  BY <1>1
<1> QED
  BY <1>2, Invariance, PTL DEF Spec, CurrentCredentialAccess

(* Only three actions change the table of accounts. *)
LEMMA AccountsChange ==
  ASSUME Next
  PROVE  \/ UNCHANGED admins
         \/ \E id \in Admins, password \in Passwords : Create(id, password)
         \/ \E id \in Admins : SetEnabled(id)
         \/ \E r \in Requests : UpdateCredentials(r)
<1>1. Tick \/ Restart => UNCHANGED admins
  BY DEF Tick, Restart
<1>2. ASSUME NEW r \in Requests
      PROVE  \/ Disconnect(r) \/ Receive(r) \/ LoginPage(r) \/ Authenticate(r)
             \/ FinishLogin(r) \/ Authorize(r) \/ ShowPage(r)
             \/ ReadCredentials(r) \/ FinishChange(r)
             \/ \E current, new \in Passwords : StartChange(r, current, new)
             => UNCHANGED admins
  BY DEF Disconnect, Receive, LoginPage, Authenticate, FinishLogin, Authorize,
         ShowPage, ReadCredentials, FinishChange, StartChange
<1>3. ASSUME NEW r \in Requests, NEW b \in Browsers, NEW form
      PROVE  /\ OpenLogin(r, b) \/ Logout(r, b, form) => UNCHANGED admins
             /\ \A purpose : StartPage(r, b, purpose, form) => UNCHANGED admins
             /\ \A id, password :
                  StartLogin(r, b, form, id, password) => UNCHANGED admins
  BY DEF OpenLogin, Logout, StartPage, StartLogin
<1> QED
  BY <1>1, <1>2, <1>3 DEF Next

(* An account's password and version change together, one version at a      *)
(* time, and only by a request that verified the password of that very      *)
(* version; of concurrent changes of one version at most one succeeds.      *)
THEOREM ProvenChanges == Spec => ChangesAreProven
<1> DEFINE Proven(id) ==
      /\ admins'[id].version = admins[id].version + 1
      /\ admins[id].enabled
      /\ \E r \in Requests :
           /\ At(r, "hashing") /\ requests'[r] # requests[r]
           /\ requests[r].admin = id
           /\ requests[r].current = admins[id].password
           /\ requests[r].new = admins'[id].password
<1>1. ASSUME IInv, Next, NEW id \in DOMAIN admins,
             \/ admins'[id].password # admins[id].password
             \/ admins'[id].version # admins[id].version
      PROVE  Proven(id)
  <2>1. \A i \in DOMAIN admins : admins[i] \in Admin
    BY <1>1 DEF IInv, TypeOK, IsTable
  <2>2. \A i \in Admins, password \in Passwords : ~Create(i, password)
    BY <1>1, PutEntries DEF Create
  <2>3. \A i \in Admins : ~SetEnabled(i)
    BY <1>1, <2>1 DEF SetEnabled, Admin
  <2>4. PICK r \in Requests : UpdateCredentials(r)
    BY <1>1, <2>2, <2>3, AccountsChange
  <2> DEFINE q == requests[r]
  <2>5. /\ q.stage = "hashing" /\ q \in RequestStates
        /\ admins # admins'
    BY <1>1, <2>4 DEF UpdateCredentials, At, IInv, TypeOK
  <2>6. /\ q.admin \in DOMAIN admins
        /\ admins[q.admin].enabled /\ admins[q.admin].password = q.current
        /\ admins' = [admins EXCEPT ![q.admin].password = q.new,
                                    ![q.admin].version = @ + 1]
    BY <2>4, <2>5 DEF UpdateCredentials, StillCurrent
  <2>7. id = q.admin
    BY <1>1, <2>6
  <2>8. /\ admins'[id].password = q.new
        /\ admins'[id].version = admins[id].version + 1
    <3> DEFINE row == admins[id]
               changed == [[row EXCEPT !.password = q.new] EXCEPT !.version = @ + 1]
    <3>1. changed.password = q.new /\ changed.version = row.version + 1
      BY <2>1 DEF Admin
    <3> HIDE DEF changed
    <3>2. admins'[id] = changed
      BY <2>6, <2>7 DEF changed
    <3> QED
      BY <3>1, <3>2
  <2>9. requests'[r] # q
    <3>1. requests \in [Requests -> RequestStates]
      BY <1>1 DEF IInv, TypeOK
    <3>2. requests'[r].stage \in {"idle", "changed"}
      BY <2>4, <3>1 DEF UpdateCredentials, End, Goto, Idle
    <3> QED
      BY <2>5, <3>2
  <2> QED
    BY <2>5, <2>6, <2>7, <2>8, <2>9 DEF At
<1>2. IInv /\ [Next]_vars =>
        [\A id \in DOMAIN admins :
           admins'[id].password # admins[id].password \/
           admins'[id].version # admins[id].version => Proven(id)]_vars
  BY <1>1
<1> QED
  BY <1>2, Invariance, PTL DEF Spec, ChangesAreProven

(* A session that retain() takes away has expired. *)
LEMMA TakenAwayExpired ==
  ASSUME TypeOK, NEW t \in DOMAIN sessions, t \notin DOMAIN Live(sessions, clock)
  PROVE  sessions[t].expires_at <= clock
<1>1. sessions[t] \in Session /\ clock \in Nat
  BY DEF TypeOK, IsTable
<1>2. ~(sessions[t].expires_at > clock)
  BY LiveEntries
<1>3. sessions[t].expires_at \in Nat
  BY <1>1 DEF Session
<1> QED
  BY <1>1, <1>2, <1>3

(* Nothing but time, a restart, its own logout or a password change of its  *)
(* administrator ends an administrator's session: in particular no login    *)
(* takes another administrator's session away, whatever cookie it carries.  *)
THEOREM SessionsEnd == Spec => SessionsEndForAReason
<1> DEFINE Reason(t) ==
      LET s == sessions[t] IN
      s.admin_id # None =>
        \/ s.expires_at <= clock
        \/ restarts' # restarts
        \/ \E r \in Requests :
             /\ requests[r] = Idle /\ At(r, "reply")'
             /\ LET b == requests'[r].browser IN
                  cookies[b] = t /\ t \in forms[b]
        \/ \E r \in Requests :
             /\ At(r, "changed") /\ At(r, "reply")'
             /\ requests[r].admin = s.admin_id
<1>1. ASSUME IInv, Next, NEW t \in DOMAIN sessions \ DOMAIN sessions',
             sessions[t].admin_id # None
      PROVE  Reason(t)
  <2>1. TypeOK /\ requests \in [Requests -> RequestStates]
    BY <1>1 DEF IInv, TypeOK
  <2>2. t \in DOMAIN Live(sessions, clock) \/ Reason(t)
    BY <1>1, <2>1, TakenAwayExpired
  <2>3. \A token : t \in DOMAIN AfterLookup(token) \/ Reason(t)
    BY <1>1, <2>2 DEF AfterLookup
  <2>4. \A new, admin, version :
          t \in DOMAIN NewSession(new, admin, version) \/ Reason(t)
    BY <2>2, PutEntries DEF NewSession
  <2>5. CASE Tick \/ Restart
    <3>1. CASE Tick
      BY <1>1, <3>1 DEF Tick, server
    <3>2. CASE Restart
      BY <2>1, <3>2 DEF Restart, TypeOK
    <3> QED
      BY <2>5, <3>1, <3>2
  <2>6. \A id \in Admins :
          ~SetEnabled(id) /\ \A password \in Passwords : ~Create(id, password)
    BY <1>1 DEF SetEnabled, Create, server
  <2>7. ASSUME NEW r \in Requests,
               \/ Disconnect(r) \/ Receive(r) \/ Authenticate(r)
               \/ Authorize(r) \/ ShowPage(r)
               \/ ReadCredentials(r) \/ UpdateCredentials(r)
               \/ \E current, new \in Passwords : StartChange(r, current, new)
        PROVE  FALSE
    <3>1. sessions' = sessions
      BY <2>7
      DEF Disconnect, Receive, Authenticate, Authorize, ShowPage, ReadCredentials,
          UpdateCredentials, StartChange, server
    <3> QED
      BY <1>1, <3>1
  <2>8. ASSUME NEW r \in Requests, NEW b \in Browsers, NEW form,
               \/ OpenLogin(r, b)
               \/ \E purpose : StartPage(r, b, purpose, form)
               \/ \E id, password : StartLogin(r, b, form, id, password)
        PROVE  Reason(t)
    <3>1. \/ sessions' = AfterLookup(cookies[b])
          \/ sessions' = Live(sessions, clock)
      BY <2>8 DEF OpenLogin, StartPage, StartLogin
    <3> QED
      BY <1>1, <2>2, <2>3, <3>1
  <2>9. ASSUME NEW r \in Requests, LoginPage(r)
        PROVE  Reason(t)
    <3>1. \/ sessions' = sessions
          \/ sessions' = AfterLookup(requests[r].token)
          \/ sessions' = Live(sessions, clock)
          \/ \E new \in Unused : sessions' = NewSession(new, None, 0)
      BY <2>9 DEF LoginPage
    <3> QED
      BY <1>1, <2>2, <2>3, <2>4, <3>1
  <2>10. ASSUME NEW r \in Requests, FinishLogin(r)
         PROVE  Reason(t)
    <3> DEFINE q == requests[r]
    <3>1. CASE sessions' = Live(sessions, clock)
      BY <1>1, <2>2, <3>1
    <3>2. ASSUME NEW new \in Unused,
                 sessions' = Drop(NewSession(new, q.admin, q.version), q.token)
          PROVE  Reason(t)
      <4>1. t # q.token
        BY <1>1, <2>10
        DEF IInv, Access, LoginsComeFromForms, LoggingIn, FinishLogin, At
      <4> QED
        BY <1>1, <2>4, <3>2, <4>1, DropEntries
    <3> QED
      BY <2>10, <3>1, <3>2 DEF FinishLogin
  <2>11. ASSUME NEW r \in Requests, FinishChange(r)
         PROVE  Reason(t)
    <3>1. sessions[t].admin_id = requests[r].admin
      BY <1>1, <2>11 DEF FinishChange, Restrict
    <3>2. At(r, "changed") /\ At(r, "reply")'
      BY <2>1, <2>11 DEF FinishChange, Goto, Reply, At
    <3> QED
      BY <3>1, <3>2
  <2>12. ASSUME NEW r \in Requests, NEW b \in Browsers, NEW form, Logout(r, b, form)
         PROVE  Reason(t)
    <3>1. CASE sessions' = Live(sessions, clock)
      BY <1>1, <2>2, <3>1
    <3>2. CASE /\ form = cookies[b]
               /\ sessions' = Drop(Live(sessions, clock), cookies[b])
               /\ Goto(r, Reply(b, None, None))
      <4>1. CASE t # cookies[b]
        BY <1>1, <2>2, <3>2, <4>1, DropEntries
      <4>2. CASE t = cookies[b]
        <5>1. requests[r] = Idle /\ t \in forms[b]
          BY <2>12, <3>2, <4>2 DEF Logout
        <5>2. At(r, "reply")' /\ requests'[r].browser = b
          BY <2>1, <3>2 DEF Goto, Reply, At
        <5> QED
          BY <4>2, <5>1, <5>2
      <4> QED
        BY <4>1, <4>2
    <3> QED
      BY <2>12, <3>1, <3>2 DEF Logout
  <2> QED
    BY <1>1, <2>5, <2>6, <2>7, <2>8, <2>9, <2>10, <2>11, <2>12 DEF Next
<1>2. IInv /\ [Next]_vars =>
        [\A t \in DOMAIN sessions \ DOMAIN sessions' : Reason(t)]_vars
  BY <1>1
<1> QED
  BY <1>2, Invariance, PTL DEF Spec, SessionsEndForAReason
=============================================================================
