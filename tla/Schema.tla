------------------------------- MODULE Schema -------------------------------
(***************************************************************************)
(* Opening the database (store/sqlite.py: connect, _apply_schema,          *)
(* _install_id): a fresh file gets the script _SCHEMA and then its         *)
(* version, an older one gets one transaction per migration with the       *)
(* version written inside it, a newer one is refused.                      *)
(*                                                                         *)
(* The schema is the set of the objects that tell its versions apart.      *)
(* Each statement outside a transaction is durable by itself (autocommit,  *)
(* executescript included), so the process may be killed between any two.  *)
(***************************************************************************)
EXTENDS Naturals, Sequences, FiniteSets, FiniteSetsExt, Functions

CONSTANTS
  InstallId,   \* values of secrets.token_hex; the size of the set is a bound
  NoId,        \* meta has no row install_id
  NoTxn,       \* no transaction is open
  MaxStops,    \* bound of the model: crashes and restarts in a behaviour
  MaxFaults    \* bound of the model: statements that fail for want of disk or lock

ASSUME SchemaAssumption ==
  /\ InstallId # {} /\ NoId \notin InstallId
  /\ MaxStops \in Nat /\ MaxFaults \in Nat

(* CREATE ... IF NOT EXISTS does nothing to a name that is there; ALTER     *)
(* TABLE ... ADD COLUMN fails on a column that is.                          *)
Create(name, columns) == [op |-> "create", name |-> name, adds |-> {name} \cup columns]
Alter(column) == [op |-> "alter", name |-> column, adds |-> {column}]

(* _SCHEMA, the statements that no version distinguishes left out. *)
Script ==
  <<Create("events", {"untrusted_fields_json", "detection_json", "quarantined_at", "sinks_json"}),
    Create("idx_events_status", {}), Create("deliveries", {}), Create("dlq", {}),
    Create("meta", {})>>

Migrations == [v \in {2, 3} |->
  IF v = 2
  THEN <<Alter("untrusted_fields_json"), Alter("detection_json"), Alter("quarantined_at"),
         Create("idx_events_status", {})>>
  ELSE <<Alter("sinks_json"), Create("meta", {})>>]

SCHEMA_VERSION == Max(DOMAIN Migrations)

Baseline == {"events", "deliveries", "dlq"}
Adds(statements) == UNION {s.adds : s \in Range(statements)}
Current == Adds(Script)
SchemaOf(v) == Baseline \cup UNION {Adds(Migrations[w]) : w \in {w \in DOMAIN Migrations : w <= v}}

VARIABLES
  disk,      \* what is committed: objects, PRAGMA user_version, the install_id row
  txn,       \* the same as the open transaction sees it, or NoTxn
  pc,        \* where connect is
  target,    \* version _apply_schema is migrating to, and before that, the one it read
  index,     \* statement of the script or the migration that comes next
  id,        \* SqliteStore.install_id
  stops,     \* history: crashes and restarts so far
  faults,    \* history: statements that failed for an outside reason
  used       \* history: ids an open store has handed to its sinks

vars == <<disk, txn, pc, target, index, id, stops, faults, used>>

Pc == {"off", "script", "stamp", "begin", "migrate", "pragma", "commit", "install",
       "ready", "refused", "failed"}

Database == [objects : SUBSET (Current \cup {"newer"}), version : 0..(SCHEMA_VERSION + 1),
             id : InstallId \cup {NoId}]

TypeOK ==
  /\ disk \in Database
  /\ txn \in Database \cup {NoTxn}
  /\ pc \in Pc
  /\ target \in 0..(SCHEMA_VERSION + 1)
  /\ index \in 1..(Len(Script) + 1)
  /\ id \in InstallId \cup {NoId}
  /\ stops \in 0..MaxStops
  /\ faults \in 0..MaxFaults
  /\ used \subseteq InstallId

Populated(objects, version) == [objects |-> objects, version |-> version, id |-> NoId]

(* Files connect may find: none, those every release left, one of a newer  *)
(* build.  The baseline may carry version 0.                               *)
Files ==
  {Populated({}, 0), Populated(Baseline, 0),
   Populated(Current \cup {"newer"}, SCHEMA_VERSION + 1)}
  \cup {Populated(SchemaOf(v), v) : v \in 1..SCHEMA_VERSION}

Init ==
  /\ disk \in Files
  /\ txn = NoTxn
  /\ pc = "off"
  /\ target = 0
  /\ index = 1
  /\ id = NoId
  /\ stops = 0
  /\ faults = 0
  /\ used = {}

-----------------------------------------------------------------------------
Apply(s, db) ==
  IF s.name \in db.objects THEN db ELSE [db EXCEPT !.objects = @ \cup s.adds]

(* Mutant: a populated file without a version is taken for a fresh one. *)
ReadAsCurrent(v) == IF v = 0 THEN SCHEMA_VERSION ELSE v

(* The version a populated file is taken to have. *)
ReadVersion(v) == IF v = 0 THEN 1 ELSE v

(* Mutant: a newer file is opened like a current one. *)
OpenNewer(v) == IF v >= SCHEMA_VERSION THEN "install" ELSE "begin"

(* What _apply_schema does with a populated file of version v. *)
Decide(v) ==
  CASE v > SCHEMA_VERSION -> "refused"
    [] v = SCHEMA_VERSION -> "install"
    [] OTHER -> "begin"

(* connect up to the decision: only reads, of a file nobody else writes. *)
Probe ==
  /\ pc = "off"
  /\ IF "events" \notin disk.objects
     THEN pc' = "script" /\ target' = SCHEMA_VERSION
     ELSE pc' = Decide(ReadVersion(disk.version)) /\ target' = ReadVersion(disk.version)
  /\ index' = 1
  /\ UNCHANGED <<disk, txn, id, stops, faults, used>>

RunScript ==
  /\ pc = "script"
  /\ disk' = Apply(Script[index], disk)
  /\ index' = index + 1
  /\ pc' = IF index = Len(Script) THEN "stamp" ELSE "script"
  /\ UNCHANGED <<txn, target, id, stops, faults, used>>

StampFresh ==
  /\ pc = "stamp"
  /\ disk' = [disk EXCEPT !.version = SCHEMA_VERSION]
  /\ pc' = "install"
  /\ UNCHANGED <<txn, target, index, id, stops, faults, used>>

(* BEGIN of the next migration in order. *)
Begin ==
  /\ pc = "begin"
  /\ txn' = disk
  /\ target' = Min({v \in DOMAIN Migrations : v > target})
  /\ index' = 1
  /\ pc' = "migrate"
  /\ UNCHANGED <<disk, id, stops, faults, used>>

Clash(s, db) == s.op = "alter" /\ s.name \in db.objects

(* Mutant: a statement that raises leaves what ran before it committed. *)
KeepPartial ==
  disk' = (IF txn = NoTxn THEN disk ELSE txn) /\ txn' = NoTxn /\ pc' = "failed"

(* except: ROLLBACK; raise.  The exception ends connect and the process. *)
Rollback == disk' = disk /\ txn' = NoTxn /\ pc' = "failed"

MigrateStep ==
  /\ pc = "migrate"
  /\ LET s == Migrations[target][index] IN
       IF Clash(s, txn)
       THEN Rollback /\ index' = index
       ELSE /\ txn' = Apply(s, txn)
            /\ index' = index + 1
            /\ pc' = IF index = Len(Migrations[target]) THEN "pragma" ELSE "migrate"
            /\ UNCHANGED disk
  /\ UNCHANGED <<target, id, stops, faults, used>>

(* Mutant: the version is written outside the transaction. *)
WriteVersionNow ==
  /\ pc = "pragma"
  /\ disk' = [disk EXCEPT !.version = target]
  /\ txn' = [txn EXCEPT !.version = target]
  /\ pc' = "commit"
  /\ UNCHANGED <<target, index, id, stops, faults, used>>

WriteVersion ==
  /\ pc = "pragma"
  /\ txn' = [txn EXCEPT !.version = target]
  /\ pc' = "commit"
  /\ UNCHANGED <<disk, target, index, id, stops, faults, used>>

Commit ==
  /\ pc = "commit"
  /\ disk' = txn
  /\ txn' = NoTxn
  /\ pc' = IF target = SCHEMA_VERSION THEN "install" ELSE "begin"
  /\ UNCHANGED <<target, index, id, stops, faults, used>>

(* INSERT OR IGNORE of a fresh id, skipped when the row is there. *)
KeepId(new) == IF disk.id = NoId THEN [disk EXCEPT !.id = new] ELSE disk

(* _install_id, which ends connect. *)
InstallIdStep ==
  /\ pc = "install"
  /\ \E new \in InstallId : disk' = KeepId(new)
  /\ id' = disk'.id
  /\ used' = used \cup {disk'.id}
  /\ pc' = "ready"
  /\ UNCHANGED <<txn, target, index, stops, faults>>

(* A statement, BEGIN, pragma or COMMIT that raises: disk full, locked file. *)
Fault ==
  /\ faults < MaxFaults
  /\ pc \in {"script", "stamp", "begin", "migrate", "pragma", "commit", "install"}
  /\ Rollback
  /\ faults' = faults + 1
  /\ UNCHANGED <<target, index, id, stops, used>>

(* The process is killed or stopped; an open transaction is rolled back. *)
Stop ==
  /\ pc # "off"
  /\ stops < MaxStops
  /\ pc' = "off"
  /\ txn' = NoTxn
  /\ id' = NoId
  /\ stops' = stops + 1
  /\ UNCHANGED <<disk, target, index, faults, used>>

(* A start that failed is tried again by whatever supervises the process. *)
Retry ==
  /\ pc \in {"failed", "refused"}
  /\ pc' = "off"
  /\ UNCHANGED <<disk, txn, target, index, id, stops, faults, used>>

ConnectStep ==
  \/ Probe \/ RunScript \/ StampFresh \/ Begin \/ MigrateStep
  \/ WriteVersion \/ Commit \/ InstallIdStep

Next == ConnectStep \/ Fault \/ Stop \/ Retry

Spec == Init /\ [][Next]_vars

FairSpec == Spec /\ WF_vars(ConnectStep) /\ WF_vars(Retry)

-----------------------------------------------------------------------------
(* Properties. *)

(* A store that reports ready has the schema of _SCHEMA, whichever file it *)
(* started from and however often connect was interrupted on the way, a    *)
(* version that says so, and the install id that every earlier start of    *)
(* the same database has put in the idempotency keys of its sinks.         *)
ReadyIsCurrent ==
  pc = "ready" =>
    /\ disk.objects = Current
    /\ disk.version = SCHEMA_VERSION
    /\ txn = NoTxn
    /\ used = {id}

(* The version on disk never names a migration that is not there in full   *)
(* (no crash, failing statement or restart makes the number lie).          *)
VersionHonest ==
  disk.version \in 1..SCHEMA_VERSION => SchemaOf(disk.version) \subseteq disk.objects

(* A file of a newer build is never written to. *)
NewerUntouched == [][disk.version > SCHEMA_VERSION => disk' = disk]_vars

(* An existing database of any release is opened in the end, once the      *)
(* crashes and failing statements are over.                                *)
UpgradeCompletes ==
  (disk \in Files /\ disk.objects # {} /\ disk.version <= SCHEMA_VERSION) ~> (pc = "ready")

(* Version 0 with tables is "a file predating `user_version`, or one whose *)
(* pragma write was rolled back [...] so it is at least the baseline"      *)
(* (sqlite.py:220): a database that was new is opened in the end.          *)
FreshCompletes == (disk.objects = {}) ~> (pc = "ready")
=============================================================================
