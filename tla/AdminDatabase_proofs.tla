-------------------------- MODULE AdminDatabase_proofs --------------------------
(***************************************************************************)
(* Proofs about AdminDatabase, for any number of processes, any accounts    *)
(* and any number of crashes.                                               *)
(***************************************************************************)
EXTENDS AdminDatabase, TLAPS

(* The version says what is in the file. *)
FileIsSound ==
  /\ file.version = 0 <=> ~file.table
  /\ file.column <=> file.version >= 2

(* The open transaction holds a schema that validates, and all accounts.    *)
DraftIsComplete ==
  writer # None => Validates(draft) /\ draft.accounts = file.accounts

(* A process works only on a file of a version it supports.                 *)
WorkIsSupported ==
  \A p \in Processes :
    /\ phase[p] \in {"create", "migrate", "commit"} => file.version # 3
    /\ phase[p] = "open" => Current(file)

(* A file of a later release stays one. *)
LaterStays == first.version = 3 => file.version = 3

IInv == TypeOK /\ FileIsSound /\ DraftIsComplete /\ WorkIsSupported /\ LaterStays

(* What the file may become: nothing is taken away, and an unsupported file *)
(* does not change.                                                         *)
Survives ==
  /\ file.accounts \subseteq file'.accounts
  /\ first.version = 3 => file' = file

-----------------------------------------------------------------------------
(* A file as it was found satisfies the invariant. *)
LEMMA InitIInv == Init => IInv
BY ParametersAreWellFormed
DEF Init, IInv, TypeOK, Found, Database, FileIsSound, DraftIsComplete,
    WorkIsSupported, LaterStays, Phases

(* The holder of the write lock is the process in its transaction. *)
LEMMA WriterCommits ==
  ASSUME TypeOK, NEW p \in Processes, phase[p] = "commit"
  PROVE  writer = p /\ writer # None
BY ParametersAreWellFormed DEF TypeOK

(* The fields of a database. *)
LEMMA DatabaseFields ==
  ASSUME NEW d \in Database
  PROVE  /\ d.version \in 0 .. 3 /\ d.table \in BOOLEAN /\ d.column \in BOOLEAN
         /\ d.accounts \subseteq Accounts
BY DEF Database

(* What creating and migrating make of a sound file. *)
LEMMA SchemaChanges ==
  ASSUME NEW d \in Database
  PROVE  /\ Created(d) \in Database /\ Created(d).accounts = d.accounts
         /\ Migrated(d) \in Database /\ Migrated(d).accounts = d.accounts
BY DEF Database, Created, Migrated

-----------------------------------------------------------------------------
(* A step of a process that leaves the database alone. *)
LEMMA PhaseStep ==
  ASSUME IInv, NEW p \in Processes, NEW to \in Phases \ {"commit"}, Goto(p, to),
         phase[p] # "commit",
         to \in {"create", "migrate"} => file.version # 3,
         to = "open" => Current(file),
         crashes' \in Nat, UNCHANGED <<file, draft, writer, first>>
  PROVE  IInv' /\ Survives
<1>1. /\ phase' \in [Processes -> Phases]
      /\ \A q \in Processes : phase'[q] = IF q = p THEN to ELSE phase[q]
  BY DEF Goto, IInv, TypeOK
<1>2. TypeOK'
  BY <1>1 DEF IInv, TypeOK
<1>3. WorkIsSupported'
  BY <1>1 DEF IInv, WorkIsSupported, Current
<1> QED
  BY <1>2, <1>3 DEF IInv, FileIsSound, DraftIsComplete, LaterStays, Validates, Survives

(* A transaction begins, or fails at once. *)
LEMMA WriteStep ==
  ASSUME IInv, NEW p \in Processes, phase[p] \in {"create", "migrate"}, writer = None,
         NEW d \in Database, d.accounts = file.accounts, Write(p, d),
         UNCHANGED <<file, first, crashes>>
  PROVE  IInv' /\ Survives
<1>1. CASE Validates(d)
  <2>1. /\ writer' = p /\ draft' = d /\ p # None
        /\ phase' = [phase EXCEPT ![p] = "commit"]
    BY <1>1, ParametersAreWellFormed DEF Write, Goto
  <2>2. \A q \in Processes : phase'[q] = IF q = p THEN "commit" ELSE phase[q]
    BY <2>1 DEF IInv, TypeOK
  <2>3. TypeOK'
    <3>1. \A q \in Processes : phase'[q] = "commit" <=> writer' = q
      BY <2>1, <2>2, ParametersAreWellFormed DEF IInv, TypeOK
    <3>2. phase' \in [Processes -> Phases]
      BY <2>1 DEF IInv, TypeOK, Phases
    <3> QED
      BY <3>1, <3>2, <2>1 DEF IInv, TypeOK
  <2>4. WorkIsSupported'
    BY <2>2 DEF IInv, WorkIsSupported, Current
  <2> QED
    BY <2>1, <2>3, <2>4, <1>1
    DEF IInv, FileIsSound, DraftIsComplete, LaterStays, Validates, Survives
<1>2. CASE ~Validates(d)
  <2>1. Goto(p, "failed") /\ UNCHANGED <<writer, draft>>
    BY <1>2 DEF Write
  <2>2. crashes' \in Nat /\ "failed" \in Phases \ {"commit"}
    BY DEF IInv, TypeOK, Phases
  <2> QED
    BY <2>1, <2>2, PhaseStep
<1> QED
  BY <1>1, <1>2

(* Inspect: a process goes on only with a version it supports. *)
LEMMA InspectStep ==
  ASSUME IInv, NEW p \in Processes, Inspect(p)
  PROVE  IInv' /\ Survives
<1> DEFINE to == CASE file.version = 0 -> "create"
                   [] file.version = 1 -> "migrate"
                   [] file.version = 2 -> IF Validates(file) THEN "open" ELSE "failed"
                   [] file.version = 3 -> "failed"
<1>1. file.version \in 0 .. 3
  BY DatabaseFields DEF IInv, TypeOK
<1>2. /\ to \in Phases \ {"commit"}
      /\ to \in {"create", "migrate"} => file.version # 3
      /\ to = "open" => Current(file)
  <2>1. file.version = 0 \/ file.version = 1 \/ file.version = 2 \/ file.version = 3
    BY <1>1
  <2> QED
    BY <2>1 DEF Phases, Validates, Current
<1>3. Goto(p, to) /\ phase[p] # "commit" /\ crashes' \in Nat
  BY DEF Inspect, IInv, TypeOK
<1> HIDE DEF to
<1> QED
  BY <1>2, <1>3, PhaseStep DEF Inspect

(* Create: the draft has the accounts of the file. *)
LEMMA CreateStep ==
  ASSUME IInv, NEW p \in Processes, Create(p)
  PROVE  IInv' /\ Survives
<1>1. Created(file) \in Database /\ Created(file).accounts = file.accounts
  BY SchemaChanges DEF IInv, TypeOK
<1> QED
  BY <1>1, WriteStep DEF Create

(* Migrate: the draft has the accounts of the file. *)
LEMMA MigrateStep ==
  ASSUME IInv, NEW p \in Processes, Migrate(p)
  PROVE  IInv' /\ Survives
<1>1. CASE file.column
  <2>1. Goto(p, "failed") /\ UNCHANGED <<file, draft, writer, first>>
    BY <1>1 DEF Migrate
  <2>2. /\ crashes' \in Nat /\ "failed" \in Phases \ {"commit"}
        /\ phase[p] # "commit"
    BY DEF IInv, TypeOK, Phases, Migrate
  <2> QED
    BY <2>1, <2>2, PhaseStep
<1>2. CASE ~file.column
  <2>1. Migrated(file) \in Database /\ Migrated(file).accounts = file.accounts
    BY SchemaChanges DEF IInv, TypeOK
  <2> QED
    BY <2>1, <1>2, WriteStep DEF Migrate
<1> QED
  BY <1>1, <1>2

(* The draft becomes the file. *)
LEMMA CommitStep ==
  ASSUME IInv, NEW p \in Processes, Commit(p)
  PROVE  IInv' /\ Survives
<1>1. /\ writer = p /\ writer # None /\ file.version # 3
      /\ draft \in Database /\ Validates(draft) /\ draft.accounts = file.accounts
  BY WriterCommits DEF Commit, IInv, TypeOK, DraftIsComplete, WorkIsSupported
<1>2. /\ file' = [draft EXCEPT !.version = 2] /\ writer' = None
      /\ phase' = [phase EXCEPT ![p] = "open"]
      /\ draft' = draft /\ first' = first /\ crashes' = crashes
  BY DEF Commit, Goto
<1>3. /\ file' \in Database /\ file'.version = 2 /\ Current(file')
      /\ file'.accounts = file.accounts
  BY <1>1, <1>2 DEF Database, Validates, Current
<1>4. \A q \in Processes : phase'[q] = IF q = p THEN "open" ELSE phase[q]
  BY <1>2 DEF IInv, TypeOK
<1>5. TypeOK'
  <2>1. \A q \in Processes : phase'[q] = "commit" <=> writer' = q
    BY <1>1, <1>2, <1>4, ParametersAreWellFormed DEF IInv, TypeOK
  <2>2. phase' \in [Processes -> Phases]
    BY <1>2 DEF IInv, TypeOK, Phases
  <2> QED
    BY <2>1, <2>2, <1>2, <1>3 DEF IInv, TypeOK
<1>6. WorkIsSupported'
  BY <1>3 DEF WorkIsSupported
<1>7. FileIsSound' /\ DraftIsComplete' /\ LaterStays' /\ Survives
  BY <1>1, <1>2, <1>3
  DEF IInv, FileIsSound, DraftIsComplete, LaterStays, Current, Survives
<1> QED
  BY <1>5, <1>6, <1>7 DEF IInv

(* Whatever a killed process had in its transaction is gone. *)
LEMMA KillStep ==
  ASSUME IInv, NEW p \in Processes, Kill(p)
  PROVE  IInv' /\ Survives
<1>1. /\ file' = file /\ draft' = draft /\ first' = first
      /\ crashes' = crashes + 1
      /\ writer' = IF writer = p THEN None ELSE writer
      /\ phase' = [phase EXCEPT ![p] = "closed"]
  BY DEF Kill, Goto
<1>2. \A q \in Processes : phase'[q] = IF q = p THEN "closed" ELSE phase[q]
  BY <1>1 DEF IInv, TypeOK
<1>3. TypeOK'
  <2>1. \A q \in Processes : phase'[q] = "commit" <=> writer' = q
    BY <1>1, <1>2, ParametersAreWellFormed DEF IInv, TypeOK
  <2>2. phase' \in [Processes -> Phases] /\ crashes' \in Nat
    BY <1>1 DEF IInv, TypeOK, Phases
  <2> QED
    BY <2>1, <2>2, <1>1 DEF IInv, TypeOK
<1>4. WorkIsSupported'
  BY <1>1, <1>2 DEF IInv, WorkIsSupported, Current
<1> QED
  BY <1>1, <1>3, <1>4
  DEF IInv, FileIsSound, DraftIsComplete, LaterStays, Validates, Survives

(* AddAccount: an account joins those of the file. *)
LEMMA AddAccountStep ==
  ASSUME IInv, NEW p \in Processes, NEW account \in Accounts, AddAccount(p, account)
  PROVE  IInv' /\ Survives
<1>1. /\ phase[p] = "open" /\ writer = None /\ Current(file)
      /\ file' = [file EXCEPT !.accounts = @ \cup {account}]
      /\ draft' = draft /\ writer' = writer /\ phase' = phase
      /\ first' = first /\ crashes' = crashes
  BY DEF AddAccount, IInv, WorkIsSupported
<1>2. /\ file' \in Database /\ file'.version = file.version
      /\ file'.table = file.table /\ file'.column = file.column
      /\ file.accounts \subseteq file'.accounts
  BY <1>1 DEF IInv, TypeOK, Database
<1>3. TypeOK'
  BY <1>1, <1>2 DEF IInv, TypeOK
<1>4. WorkIsSupported'
  BY <1>1, <1>2 DEF IInv, WorkIsSupported, Current
<1> QED
  BY <1>1, <1>2, <1>3, <1>4
  DEF IInv, FileIsSound, DraftIsComplete, LaterStays, Current, Survives

(* Every step keeps the invariant, and the accounts. *)
LEMMA NextIInv ==
  ASSUME IInv, [Next]_vars
  PROVE  IInv' /\ (Survives \/ UNCHANGED vars)
<1>1. CASE UNCHANGED vars
  BY <1>1
  DEF vars, IInv, TypeOK, FileIsSound, DraftIsComplete, WorkIsSupported, LaterStays,
      Current, Validates
<1>2. ASSUME NEW p \in Processes,
             Retry(p) \/ GiveUp(p) \/ Close(p)
      PROVE  IInv' /\ Survives
  <2>1. \E to \in {"closed", "gave_up"} : Goto(p, to)
    BY <1>2 DEF Retry, GiveUp, Close
  <2>2. /\ phase[p] # "commit" /\ crashes' \in Nat
        /\ UNCHANGED <<file, draft, writer, first>>
    BY <1>2 DEF Retry, GiveUp, Close, IInv, TypeOK
  <2> QED
    BY <2>1, <2>2, PhaseStep DEF Phases
<1>3. CASE Next
  BY <1>2, <1>3, InspectStep, CreateStep, MigrateStep, CommitStep, KillStep,
     AddAccountStep DEF Next, Proceed
<1> QED
  BY <1>1, <1>3

-----------------------------------------------------------------------------
(* The invariant holds at all times. *)
THEOREM Invariance == Spec => []IInv
<1>1. IInv /\ [Next]_vars => IInv'
  BY NextIInv
<1> QED
  BY <1>1, InitIInv, PTL DEF Spec

(* The file, the transaction and the processes are what they should be. *)
THEOREM TypeCorrect == Spec => []TypeOK
<1>1. IInv => TypeOK
  BY DEF IInv
<1> QED
  BY <1>1, Invariance, PTL

(* The version tells what is in the file, whoever is killed when. *)
THEOREM Versions == Spec => []VersionTellsTheSchema
<1>1. IInv => VersionTellsTheSchema
  BY DEF IInv, FileIsSound, WorkIsSupported, VersionTellsTheSchema
<1> QED
  BY <1>1, Invariance, PTL

(* No account is lost, and a file of a later release is left alone. *)
THEOREM Survival == Spec => AccountsSurvive
<1>1. IInv /\ [Next]_vars => [Survives]_vars
  BY NextIInv
<1>2. Spec => [][Survives]_vars
  BY <1>1, Invariance, PTL DEF Spec
<1> QED
  BY <1>2 DEF AccountsSurvive, Survives
=============================================================================
