------------------------------ MODULE SingleUse ------------------------------
(***************************************************************************)
(* What the server promises about every credential it hands out once: an    *)
(* authorization code, a pending re-authentication, a pending consent.  A   *)
(* grant is issued, then it is delivered to exactly one caller or lapses;   *)
(* both are final.  Concurrent callers, the purge of expired entries and    *)
(* the clock are all invisible at this level.                               *)
(***************************************************************************)
EXTENDS Naturals

CONSTANT Grants        \* the single-use credentials that may ever be issued

VARIABLES status,      \* where each grant is in its life
          delivered    \* how many callers each grant was delivered to

vars == <<status, delivered>>

Statuses == {"unissued", "live", "spent", "lapsed"}

TypeOK ==
  /\ status \in [Grants -> Statuses]
  /\ delivered \in [Grants -> Nat]

Init ==
  /\ status = [g \in Grants |-> "unissued"]
  /\ delivered = [g \in Grants |-> 0]

LiveGrants == {g \in Grants : status[g] = "live"}

(* Any operation may find that some live grants have expired. *)
Moved(g, to, lapsed) ==
  status' = [h \in Grants |-> IF h = g THEN to
                              ELSE IF h \in lapsed THEN "lapsed"
                              ELSE status[h]]

Issue(g) ==
  /\ status[g] = "unissued"
  /\ \E lapsed \in SUBSET LiveGrants : Moved(g, "live", lapsed)
  /\ UNCHANGED delivered

Spend(g) ==
  /\ status[g] = "live"
  /\ \E lapsed \in SUBSET LiveGrants : Moved(g, "spent", lapsed)
  /\ delivered' = [delivered EXCEPT ![g] = @ + 1]

Lapse ==
  /\ \E lapsed \in SUBSET LiveGrants :
       status' = [h \in Grants |-> IF h \in lapsed THEN "lapsed" ELSE status[h]]
  /\ UNCHANGED delivered

Next == Lapse \/ \E g \in Grants : Issue(g) \/ Spend(g)

Spec == Init /\ [][Next]_vars

(* A grant is delivered at most once, and only a spent one was delivered. *)
DeliveredOnce ==
  \A g \in Grants : delivered[g] = IF status[g] = "spent" THEN 1 ELSE 0
=============================================================================
