---------------------------- MODULE AdminDatabase ----------------------------
(***************************************************************************)
(* Opening the administrator database (src/src/admins.rs): the server and   *)
(* the command line each open it in a process of their own, create its      *)
(* schema or migrate it, wait at most five seconds for each other's lock,   *)
(* and may be killed at any time.                                           *)
(*                                                                         *)
(* SQLite is external: one writer at a time, a transaction that is          *)
(* committed as a whole or not at all.                                      *)
(***************************************************************************)
EXTENDS Naturals, FiniteSets

CONSTANTS
  Processes,   \* runs of the server and of the command line
  Accounts,    \* accounts a database may already have
  None,        \* nobody has the write lock
  MaxCrashes   \* bound on killed processes

ASSUME ParametersAreWellFormed == None \notin Processes /\ MaxCrashes \in Nat

VARIABLES
  file,      \* the committed database
  draft,     \* what the open write transaction would make of it
  writer,    \* who has the write transaction
  phase,     \* where each process is
  first,     \* history: the database as it was found
  crashes

vars == <<file, draft, writer, phase, first, crashes>>

-----------------------------------------------------------------------------
(* user_version; whether there is a table admins; whether it has the column *)
(* credential_version; the accounts in it.                                  *)
Database ==
  [version : 0 .. 3, table : BOOLEAN, column : BOOLEAN, accounts : SUBSET Accounts]

(* What earlier releases, this one, or a later one left behind. *)
Found ==
  {d \in Database :
     /\ d.version = 0 <=> ~d.table
     /\ d.column <=> d.version >= 2
     /\ ~d.table => d.accounts = {}}

Current(d) == d.version = 2 /\ d.table /\ d.column

Phases == {"closed", "create", "migrate", "commit", "open", "failed", "gave_up"}

TypeOK ==
  /\ file \in Database
  /\ draft \in Database
  /\ writer \in Processes \cup {None}
  /\ phase \in [Processes -> Phases]
  /\ \A p \in Processes : phase[p] = "commit" <=> writer = p
  /\ first \in Database
  /\ crashes \in Nat

Init ==
  /\ file \in Found
  /\ draft = file
  /\ writer = None
  /\ phase = [p \in Processes |-> "closed"]
  /\ first = file
  /\ crashes = 0

-----------------------------------------------------------------------------
Goto(p, to) == phase' = [phase EXCEPT ![p] = to]

(* validate_schema selects every column it needs. *)
Validates(d) == d.table /\ d.column

(* initialize_schema reads the version before it begins a transaction. *)
Inspect(p) ==
  /\ phase[p] = "closed"
  /\ Goto(p, CASE file.version = 0 -> "create"
               [] file.version = 1 -> "migrate"
               [] file.version = 2 -> IF Validates(file) THEN "open" ELSE "failed"
               [] file.version = 3 -> "failed")
  /\ UNCHANGED <<file, draft, writer, first, crashes>>

(* Seeded fault: the table is made anew. *)
Recreated(d) == [d EXCEPT !.table = TRUE, !.column = TRUE, !.accounts = {}]

(* CREATE TABLE IF NOT EXISTS *)
Created(d) == IF d.table THEN d ELSE [d EXCEPT !.table = TRUE, !.column = TRUE]

(* ALTER TABLE admins ADD COLUMN *)
Migrated(d) == [d EXCEPT !.column = TRUE]

(* The batch runs in a transaction that takes the write lock at its first   *)
(* write; an error, in the batch or in the validation, rolls it back.       *)
Write(p, database) ==
  IF Validates(database)
  THEN /\ writer' = p
       /\ draft' = database
       /\ Goto(p, "commit")
  ELSE /\ Goto(p, "failed")
       /\ UNCHANGED <<writer, draft>>

Create(p) ==
  /\ phase[p] = "create"
  /\ writer = None
  /\ Write(p, Created(file))
  /\ UNCHANGED <<file, first, crashes>>

(* Seeded fault: the failed transaction is left open. *)
MigrateHolding(p) ==
  /\ phase[p] = "migrate"
  /\ writer = None
  /\ writer' = p
  /\ IF file.column THEN Goto(p, "failed") /\ UNCHANGED draft
     ELSE Goto(p, "commit") /\ draft' = Migrated(file)
  /\ UNCHANGED <<file, first, crashes>>

(* A column that is there already is an error. *)
Migrate(p) ==
  /\ phase[p] = "migrate"
  /\ writer = None
  /\ IF file.column THEN Goto(p, "failed") /\ UNCHANGED <<writer, draft>>
     ELSE Write(p, Migrated(file))
  /\ UNCHANGED <<file, first, crashes>>

(* Seeded fault: the version is not part of the transaction. *)
CommitSchemaOnly(p) ==
  /\ phase[p] = "commit"
  /\ file' = draft
  /\ writer' = None
  /\ Goto(p, "open")
  /\ UNCHANGED <<draft, first, crashes>>

(* The version is set in the transaction, which is then committed. *)
Commit(p) ==
  /\ phase[p] = "commit"
  /\ file' = [draft EXCEPT !.version = 2]
  /\ writer' = None
  /\ Goto(p, "open")
  /\ UNCHANGED <<draft, first, crashes>>

(* busy_timeout: another process had the lock for five seconds. *)
GiveUp(p) ==
  /\ phase[p] \in {"create", "migrate"}
  /\ writer # None
  /\ Goto(p, "gave_up")
  /\ UNCHANGED <<file, draft, writer, first, crashes>>

(* Seeded fault: the lock outlives the process. *)
KillHolding(p) ==
  /\ crashes < MaxCrashes
  /\ phase[p] # "closed"
  /\ crashes' = crashes + 1
  /\ Goto(p, "closed")
  /\ UNCHANGED <<file, draft, writer, first>>

(* The process is killed; SQLite forgets its transaction. *)
Kill(p) ==
  /\ crashes < MaxCrashes
  /\ phase[p] # "closed"
  /\ crashes' = crashes + 1
  /\ writer' = IF writer = p THEN None ELSE writer
  /\ Goto(p, "closed")
  /\ UNCHANGED <<file, draft, first>>

(* A command that failed is run again. *)
Retry(p) ==
  /\ phase[p] \in {"failed", "gave_up"}
  /\ Goto(p, "closed")
  /\ UNCHANGED <<file, draft, writer, first, crashes>>

(* The command has done its work, or the server was stopped. *)
Close(p) ==
  /\ phase[p] = "open"
  /\ Goto(p, "closed")
  /\ UNCHANGED <<file, draft, writer, first, crashes>>

(* AdminStore::create, once the store is open: an account more. *)
AddAccount(p, account) ==
  /\ phase[p] = "open"
  /\ writer = None
  /\ account \notin file.accounts
  /\ file' = [file EXCEPT !.accounts = @ \cup {account}]
  /\ UNCHANGED <<draft, writer, phase, first, crashes>>

Proceed(p) == Inspect(p) \/ Create(p) \/ Migrate(p) \/ Commit(p) \/ Retry(p)

Next ==
  \E p \in Processes :
    \/ Proceed(p) \/ GiveUp(p) \/ Kill(p) \/ Close(p)
    \/ \E account \in Accounts : AddAccount(p, account)

Spec == Init /\ [][Next]_vars

(* A process that runs makes progress, and whoever failed tries again. *)
FairSpec == Spec /\ \A p \in Processes : WF_vars(Proceed(p))

-----------------------------------------------------------------------------
(* Between any two steps, killed processes included, the version says what  *)
(* is in the file, and nobody works on a file of another version.           *)
VersionTellsTheSchema ==
  /\ file.version = 0 <=> ~file.table
  /\ file.column <=> file.version >= 2
  /\ \A p \in Processes : phase[p] = "open" => Current(file)

(* Opening, creating and migrating take no account away, whoever else has   *)
(* added one since the version was read; an unsupported file stays as it is.*)
AccountsSurvive ==
  [][/\ file.accounts \subseteq file'.accounts
     /\ first.version = 3 => file' = file]_vars

(* Whatever happened to others, whoever keeps trying gets a supported       *)
(* database open.                                                           *)
RetriesSucceed ==
  first.version # 3 =>
    \A p \in Processes : []<>(phase[p] = "open")

-----------------------------------------------------------------------------
(* "Existing version-1 administrator databases are migrated automatically": *)
(* opening one is no error.  The code does not always do that.              *)
MigrationIsNoError ==
  first.version = 1 => \A p \in Processes : phase[p] # "failed"
=============================================================================
