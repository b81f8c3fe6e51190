---------------------------- MODULE Schema_proofs ----------------------------
(* Theorems about Schema, for every number of crashes, restarts and        *)
(* failing statements, and every set of install ids.                       *)
EXTENDS Schema, TLAPS

-----------------------------------------------------------------------------
(* The inductive invariant: which files a crash can leave behind.          *)

(* What the first n statements have added. *)
Added(statements, n) == UNION {statements[i].adds : i \in 1..n}

(* A file of a version has the objects of that version, one without a      *)
(* version is the baseline or a script that was interrupted, and one of a  *)
(* newer build is as that build left it.                                   *)
FileKnown ==
  \/ disk.version = 0 /\ disk.objects = Baseline
  \/ disk.version = 0 /\ \E n \in 0..Len(Script) : disk.objects = Added(Script, n)
  \/ disk.version \in 1..SCHEMA_VERSION /\ disk.objects = SchemaOf(disk.version)
  \/ disk.version = SCHEMA_VERSION + 1 /\ disk.objects = Current \cup {"newer"}

(* The migration under way can run: the file has the version before it.    *)
Fit == ReadVersion(disk.version) = target - 1 /\ disk.objects = SchemaOf(target - 1)

(* It cannot: its first column is there, from a script without a version.  *)
Unfit ==
  /\ disk.version = 0 /\ target = 2 /\ index = 1
  /\ \E n \in 1..Len(Script) : disk.objects = Added(Script, n)

(* What connect may rely on where it is. *)
Place ==
  /\ pc = "script" =>
       /\ disk.version = 0 /\ index \in 1..Len(Script)
       /\ disk.objects = Added(Script, index - 1)
  /\ pc = "stamp" => disk.version = 0 /\ disk.objects = Current
  /\ pc = "begin" =>
       /\ target \in 1..(SCHEMA_VERSION - 1) /\ ReadVersion(disk.version) = target
       /\ "events" \in disk.objects
  /\ pc \in {"migrate", "pragma", "commit"} => target \in DOMAIN Migrations
  /\ pc = "migrate" =>
       /\ index \in 1..Len(Migrations[target])
       /\ Fit \/ Unfit
       /\ txn = [disk EXCEPT !.objects = disk.objects \cup Added(Migrations[target], index - 1)]
  /\ pc \in {"pragma", "commit"} => Fit
  /\ pc = "pragma" => txn = [disk EXCEPT !.objects = SchemaOf(target)]
  /\ pc = "commit" => txn = [disk EXCEPT !.objects = SchemaOf(target), !.version = target]
  /\ pc \in {"install", "ready"} => disk.version = SCHEMA_VERSION
  /\ pc \notin {"migrate", "pragma", "commit"} => txn = NoTxn

SInv ==
  /\ TypeOK
  /\ FileKnown
  /\ Place
  /\ used = IF disk.id = NoId THEN {} ELSE {disk.id}
  /\ pc = "ready" => id = disk.id /\ id # NoId

-----------------------------------------------------------------------------
(* The numbers of the migrations and of their statements. *)
LEMMA Versions ==
  /\ DOMAIN Migrations = {2, 3} /\ SCHEMA_VERSION = 3
  /\ Min({v \in DOMAIN Migrations : v > 1}) = 2
  /\ Min({v \in DOMAIN Migrations : v > 2}) = 3
<1>1. DOMAIN Migrations = {2, 3}
  BY DEF Migrations
<1>2. Max({2, 3}) = 3
  BY DEF Max
<1>3. {v \in {2, 3} : v > 1} = {2, 3} /\ {v \in {2, 3} : v > 2} = {3}
  OBVIOUS
<1>4. Min({2, 3}) = 2 /\ Min({3}) = 3
  BY DEF Min
<1> QED
  BY <1>1, <1>2, <1>3, <1>4 DEF SCHEMA_VERSION

(* The statements of the script. *)
LEMMA ScriptIs ==
  /\ Len(Script) = 5
  /\ Script[1].name = "events"
  /\ Script[1].adds =
       {"events", "untrusted_fields_json", "detection_json", "quarantined_at", "sinks_json"}
  /\ Script[2].name = "idx_events_status" /\ Script[2].adds = {"idx_events_status"}
  /\ Script[3].name = "deliveries" /\ Script[3].adds = {"deliveries"}
  /\ Script[4].name = "dlq" /\ Script[4].adds = {"dlq"}
  /\ Script[5].name = "meta" /\ Script[5].adds = {"meta"}
BY DEF Script, Create

(* The migrations of this release, written out. *)
LEMMA MigrationsAre ==
  /\ Len(Migrations[2]) = 4 /\ Len(Migrations[3]) = 2
  /\ Migrations[2][1] = Alter("untrusted_fields_json") /\ Migrations[2][2] = Alter("detection_json")
  /\ Migrations[2][3] = Alter("quarantined_at") /\ Migrations[2][4] = Create("idx_events_status", {})
  /\ Migrations[3][1] = Alter("sinks_json") /\ Migrations[3][2] = Create("meta", {})
BY DEF Migrations

(* A statement more. *)
LEMMA AddedStep ==
  ASSUME NEW statements, NEW n \in Nat
  PROVE  /\ Added(statements, 0) = {}
         /\ Added(statements, n + 1) = Added(statements, n) \cup statements[n + 1].adds
<1>1. 1..(n + 1) = 1..n \cup {n + 1} /\ 1..0 = {}
  OBVIOUS
<1> QED
  BY <1>1 DEF Added

(* What the script has added, one statement after the other. *)
LEMMA ScriptAdds ==
  /\ Added(Script, 0) = {}
  /\ Added(Script, 1) =
       {"events", "untrusted_fields_json", "detection_json", "quarantined_at", "sinks_json"}
  /\ Added(Script, 2) = Added(Script, 1) \cup {"idx_events_status"}
  /\ Added(Script, 3) = Added(Script, 2) \cup {"deliveries"}
  /\ Added(Script, 4) = Added(Script, 3) \cup {"dlq"}
  /\ Added(Script, 5) = Added(Script, 4) \cup {"meta"}
  /\ Added(Script, 5) = Current
<1>1. /\ Added(Script, 0) = {}
      /\ Added(Script, 1) = Added(Script, 0) \cup Script[1].adds
      /\ Added(Script, 2) = Added(Script, 1) \cup Script[2].adds
      /\ Added(Script, 3) = Added(Script, 2) \cup Script[3].adds
      /\ Added(Script, 4) = Added(Script, 3) \cup Script[4].adds
      /\ Added(Script, 5) = Added(Script, 4) \cup Script[5].adds
  <2>1. /\ Added(Script, 0 + 1) = Added(Script, 0) \cup Script[0 + 1].adds
        /\ Added(Script, 1 + 1) = Added(Script, 1) \cup Script[1 + 1].adds
        /\ Added(Script, 2 + 1) = Added(Script, 2) \cup Script[2 + 1].adds
        /\ Added(Script, 3 + 1) = Added(Script, 3) \cup Script[3 + 1].adds
        /\ Added(Script, 4 + 1) = Added(Script, 4) \cup Script[4 + 1].adds
    BY AddedStep
  <2> QED
    BY <2>1, AddedStep
<1>2. Added(Script, 5) = Current
  <2>1. DOMAIN Script = 1..5
    BY DEF Script
  <2> QED
    BY <2>1 DEF Added, Current, Adds, Range
<1> QED
  BY <1>1, <1>2, ScriptIs

(* A migration adds objects and removes none. *)
LEMMA MigrationsAdd ==
  /\ Added(Migrations[2], 0) = {}
  /\ Added(Migrations[2], 1) = {"untrusted_fields_json"}
  /\ Added(Migrations[2], 2) = {"untrusted_fields_json", "detection_json"}
  /\ Added(Migrations[2], 3) = {"untrusted_fields_json", "detection_json", "quarantined_at"}
  /\ Added(Migrations[2], 4) =
       {"untrusted_fields_json", "detection_json", "quarantined_at", "idx_events_status"}
  /\ Added(Migrations[3], 0) = {}
  /\ Added(Migrations[3], 1) = {"sinks_json"}
  /\ Added(Migrations[3], 2) = {"sinks_json", "meta"}
<1>1. /\ Added(Migrations[2], 0 + 1) = Added(Migrations[2], 0) \cup Migrations[2][0 + 1].adds
      /\ Added(Migrations[2], 1 + 1) = Added(Migrations[2], 1) \cup Migrations[2][1 + 1].adds
      /\ Added(Migrations[2], 2 + 1) = Added(Migrations[2], 2) \cup Migrations[2][2 + 1].adds
      /\ Added(Migrations[2], 3 + 1) = Added(Migrations[2], 3) \cup Migrations[2][3 + 1].adds
      /\ Added(Migrations[3], 0 + 1) = Added(Migrations[3], 0) \cup Migrations[3][0 + 1].adds
      /\ Added(Migrations[3], 1 + 1) = Added(Migrations[3], 1) \cup Migrations[3][1 + 1].adds
  BY AddedStep
<1>2. Added(Migrations[2], 0) = {} /\ Added(Migrations[3], 0) = {}
  BY AddedStep
<1>3. /\ Migrations[2][1].adds = {"untrusted_fields_json"} /\ Migrations[2][2].adds = {"detection_json"}
      /\ Migrations[2][3].adds = {"quarantined_at"} /\ Migrations[2][4].adds = {"idx_events_status"}
      /\ Migrations[3][1].adds = {"sinks_json"} /\ Migrations[3][2].adds = {"meta"}
  BY MigrationsAre DEF Alter, Create
<1> QED
  BY <1>1, <1>2, <1>3

(* What a version has, written out. *)
LEMMA SchemaIs ==
  /\ SchemaOf(1) = Baseline
  /\ SchemaOf(2) = SchemaOf(1) \cup Added(Migrations[2], 4)
  /\ SchemaOf(3) = SchemaOf(2) \cup Added(Migrations[3], 2)
  /\ SchemaOf(3) = Current
<1>1. DOMAIN Migrations[2] = 1..4 /\ DOMAIN Migrations[3] = 1..2
  BY DEF Migrations
<1>2. Adds(Migrations[2]) = Added(Migrations[2], 4) /\ Adds(Migrations[3]) = Added(Migrations[3], 2)
  BY <1>1 DEF Adds, Added, Range
<1>3. /\ {w \in {2, 3} : w <= 1} = {} /\ {w \in {2, 3} : w <= 2} = {2}
      /\ {w \in {2, 3} : w <= 3} = {2, 3}
  OBVIOUS
<1>4. SchemaOf(1) = Baseline /\ SchemaOf(2) = Baseline \cup Adds(Migrations[2])
      /\ SchemaOf(3) = Baseline \cup Adds(Migrations[2]) \cup Adds(Migrations[3])
  BY <1>3, Versions DEF SchemaOf
<1>5. SchemaOf(3) = Current
  BY <1>2, <1>4, MigrationsAdd, ScriptAdds DEF Baseline
<1> QED
  BY <1>2, <1>4, <1>5

(* Every step of connect keeps the invariant. *)
LEMMA ConnectKeeps ==
  ASSUME SInv, ConnectStep
  PROVE  SInv'
<1> USE SchemaAssumption, Versions
<1>a. /\ disk \in Database /\ Database = [objects : SUBSET (Current \cup {"newer"}), version : 0..4,
                                          id : InstallId \cup {NoId}]
      /\ target \in 0..4 /\ index \in 1..6 /\ Len(Script) = 5
  BY ScriptIs DEF SInv, TypeOK, Database
<1>b. /\ "events" \in Baseline /\ "events" \in SchemaOf(1) /\ "events" \in SchemaOf(2)
      /\ "events" \in SchemaOf(3) /\ "events" \in Current
      /\ \A n \in 1..5 : "events" \in Added(Script, n) /\ "untrusted_fields_json" \in Added(Script, n)
      /\ Added(Script, 0) = {} /\ Added(Script, 5) = Current
  <2>1. \A n \in 1..5 : n = 1 \/ n = 2 \/ n = 3 \/ n = 4 \/ n = 5
    OBVIOUS
  <2> QED
    BY <2>1, ScriptAdds, SchemaIs DEF Baseline
<1>c. /\ Baseline \subseteq Current /\ SchemaOf(1) \subseteq Current /\ SchemaOf(2) \subseteq Current
      /\ \A n \in 0..5 : Added(Script, n) \subseteq Current
  <2>1. \A n \in 0..5 : n = 0 \/ n = 1 \/ n = 2 \/ n = 3 \/ n = 4 \/ n = 5
    OBVIOUS
  <2> QED
    BY <2>1, ScriptAdds, SchemaIs DEF Baseline
<1>1. CASE Probe
  <2>1. UNCHANGED <<disk, txn, id, used, stops, faults>> /\ index' = 1 /\ pc = "off"
    BY <1>1 DEF Probe
  <2>2. CASE "events" \notin disk.objects
    <3>1. disk.version = 0 /\ disk.objects = {}
      BY <1>a, <1>b, <2>2 DEF SInv, FileKnown
    <3>2. pc' = "script" /\ target' = 3
      BY <1>1, <2>2 DEF Probe
    <3> QED
      BY <1>a, <1>b, <2>1, <3>1, <3>2 DEF SInv, TypeOK, FileKnown, Place, Pc
  <2>3. CASE "events" \in disk.objects
    <3>1. target' = ReadVersion(disk.version) /\ pc' = Decide(target')
      BY <1>1, <2>3 DEF Probe
    <3>2. target' \in 1..4 /\ target' # 0
      BY <3>1, <1>a DEF ReadVersion
    <3>3. \/ target' = 4 /\ pc' = "refused"
          \/ target' = 3 /\ pc' = "install"
          \/ target' \in 1..2 /\ pc' = "begin"
      BY <3>1, <3>2 DEF Decide
    <3>4. target' = 3 => disk.version = 3
      BY <3>1 DEF ReadVersion
    <3> QED
      BY <1>a, <2>1, <2>3, <3>1, <3>2, <3>3, <3>4 DEF SInv, TypeOK, FileKnown, Place, Pc
  <2> QED
    BY <2>2, <2>3
<1>2. CASE RunScript
  <2>1. /\ disk.version = 0 /\ index \in 1..5 /\ disk.objects = Added(Script, index - 1)
        /\ disk' = Apply(Script[index], disk) /\ index' = index + 1
        /\ pc' = IF index = 5 THEN "stamp" ELSE "script"
        /\ UNCHANGED <<txn, target, id, used, stops, faults>> /\ txn = NoTxn
    BY <1>2, <1>a DEF RunScript, SInv, Place
  <2>2. Script[index].name \notin disk.objects
    <3>1. index = 1 \/ index = 2 \/ index = 3 \/ index = 4 \/ index = 5
      BY <2>1
    <3> QED
      BY <2>1, <3>1, ScriptIs, ScriptAdds
  <2>3. disk' = [disk EXCEPT !.objects = Added(Script, index)]
    <3>1. Added(Script, index) = Added(Script, index - 1) \cup Script[index].adds
      <4>1. index - 1 \in Nat /\ index - 1 + 1 = index
        BY <2>1
      <4> QED
        BY <4>1, AddedStep
    <3> QED
      BY <2>1, <2>2, <3>1, <1>a DEF Apply
  <2>4. /\ disk'.objects = Added(Script, index) /\ disk'.version = 0
        /\ disk'.id = disk.id /\ disk' \in Database
    BY <1>a, <1>c, <2>1, <2>3
  <2>5. FileKnown'
    BY <1>a, <2>1, <2>4 DEF FileKnown
  <2>6. Place'
    BY <1>a, <1>b, <2>1, <2>4 DEF Place
  <2> QED
    BY <1>a, <2>1, <2>4, <2>5, <2>6, <1>2 DEF SInv, TypeOK, RunScript, Pc
<1>3. CASE StampFresh
  <2>1. disk' = [disk EXCEPT !.version = 3] /\ disk.objects = Current /\ pc' = "install"
        /\ UNCHANGED <<txn, target, index, id, stops, faults, used>> /\ txn = NoTxn /\ pc = "stamp"
    BY <1>3 DEF StampFresh, SInv, Place
  <2>2. disk'.objects = SchemaOf(3) /\ disk'.version = 3 /\ disk'.id = disk.id /\ disk' \in Database
    BY <1>a, <2>1, SchemaIs
  <2> QED
    BY <1>a, <2>1, <2>2 DEF SInv, TypeOK, FileKnown, Place, Pc
<1>4. CASE Begin
  <2>1. txn' = disk /\ index' = 1 /\ pc' = "migrate" /\ UNCHANGED <<disk, id, stops, faults, used>>
        /\ target \in {1, 2} /\ ReadVersion(disk.version) = target /\ "events" \in disk.objects
    BY <1>4 DEF Begin, SInv, Place
  <2>2. target' = target + 1
    BY <1>4, <2>1 DEF Begin
  <2>3. disk.version = target \/ (disk.version = 0 /\ target = 1)
    BY <2>1 DEF ReadVersion
  <2>4. (Fit \/ Unfit)'
    BY <1>a, <1>b, <2>1, <2>2, <2>3, SchemaIs DEF SInv, FileKnown, Fit, Unfit
  <2>5. Added(Migrations[target'], index' - 1) = {} /\ index' \in 1..Len(Migrations[target'])
    BY <2>1, <2>2, MigrationsAdd, MigrationsAre
  <2>6. txn' = [disk' EXCEPT !.objects = disk'.objects \cup Added(Migrations[target'], index' - 1)]
    BY <1>a, <2>1, <2>5
  <2>7. target' \in {2, 3}
    BY <2>1, <2>2
  <2>8. Place'
    BY <2>1, <2>4, <2>5, <2>6, <2>7 DEF Place
  <2> QED
    BY <1>a, <2>1, <2>7, <2>8 DEF SInv, TypeOK, FileKnown, Pc
<1>5. CASE MigrateStep
  <2> DEFINE s == Migrations[target][index]
  <2>1. /\ target \in {2, 3} /\ index \in 1..Len(Migrations[target])
        /\ Fit \/ Unfit
        /\ txn = [disk EXCEPT !.objects = disk.objects \cup Added(Migrations[target], index - 1)]
        /\ pc = "migrate" /\ UNCHANGED <<target, id, stops, faults, used>>
    BY <1>5 DEF MigrateStep, SInv, Place
  <2>a. \/ target = 2 /\ index \in {1, 2, 3, 4}
        \/ target = 3 /\ index \in {1, 2}
    <3>1. CASE target = 2
      BY <2>1, <3>1, MigrationsAre
    <3>2. CASE target = 3
      BY <2>1, <3>2, MigrationsAre
    <3> QED
      BY <2>1, <3>1, <3>2
  <2>2. PICK column : s = Alter(column) \/ s = Create(column, {})
    <3>1. CASE target = 2
      BY <2>a, <3>1, MigrationsAre
    <3>2. CASE target = 3
      BY <2>a, <3>2, MigrationsAre
    <3> QED
      BY <2>a, <3>1, <3>2
  <2>b. s.name = column /\ s.adds = {column}
    BY <2>2 DEF Alter, Create
  <2>3. CASE Clash(s, txn)
    <3>1. Rollback /\ index' = index
      BY <1>5, <2>3 DEF MigrateStep
    <3> QED
      BY <1>a, <2>1, <3>1 DEF Rollback, SInv, TypeOK, FileKnown, Place, Pc
  <2>4. CASE ~Clash(s, txn)
    <3>1. /\ txn' = Apply(s, txn) /\ index' = index + 1 /\ disk' = disk
          /\ pc' = IF index = Len(Migrations[target]) THEN "pragma" ELSE "migrate"
      BY <1>5, <2>4 DEF MigrateStep
    <3>2. Fit
      BY <1>a, <1>b, <2>1, <2>4, MigrationsAre DEF Unfit, Clash, Alter
    <3>3. Added(Migrations[target], index) = Added(Migrations[target], index - 1) \cup {column}
      <4>1. index - 1 \in Nat /\ index - 1 + 1 = index
        BY <2>a
      <4> QED
        BY <4>1, <2>b, AddedStep
    <3>4. txn.objects = disk.objects \cup Added(Migrations[target], index - 1)
      BY <1>a, <2>1
    <3>5. txn' = [disk EXCEPT !.objects = disk.objects \cup Added(Migrations[target], index)]
      <4>1. CASE column \in txn.objects
        <5>1. txn' = txn
          BY <2>b, <3>1, <4>1 DEF Apply
        <5>2. disk.objects \cup Added(Migrations[target], index)
                = disk.objects \cup Added(Migrations[target], index - 1)
          BY <3>3, <3>4, <4>1
        <5> QED
          BY <2>1, <5>1, <5>2
      <4>2. CASE column \notin txn.objects
        <5>1. txn' = [txn EXCEPT !.objects = txn.objects \cup {column}]
          BY <2>b, <3>1, <4>2 DEF Apply
        <5> QED
          BY <1>a, <2>1, <3>3, <3>4, <5>1
      <4> QED
        BY <4>1, <4>2
    <3>6. /\ disk.objects \cup Added(Migrations[target], Len(Migrations[target])) = SchemaOf(target)
          /\ SchemaOf(target) \subseteq Current
      <4>1. CASE target = 2
        BY <4>1, <3>2, MigrationsAre, SchemaIs, <1>c DEF Fit
      <4>2. CASE target = 3
        BY <4>2, <3>2, MigrationsAre, SchemaIs, <1>c DEF Fit
      <4> QED
        BY <2>1, <4>1, <4>2
    <3>7. Added(Migrations[target], index) \subseteq Current
      BY <2>a, MigrationsAdd, SchemaIs, <1>c
    <3>8. txn' \in Database
      BY <1>a, <3>5, <3>7
    <3>9. index' \in 1..6 /\ index' - 1 = index
          /\ (index # Len(Migrations[target]) => index' \in 1..Len(Migrations[target]))
      <4>1. CASE target = 2
        <5>1. Len(Migrations[target]) = 4 /\ index \in {1, 2, 3, 4}
          BY <2>a, <4>1, MigrationsAre
        <5> QED
          BY <3>1, <5>1
      <4>2. CASE target = 3
        <5>1. Len(Migrations[target]) = 2 /\ index \in {1, 2}
          BY <2>a, <4>2, MigrationsAre
        <5> QED
          BY <3>1, <5>1
      <4> QED
        BY <2>a, <4>1, <4>2
    <3>10. Place'
      BY <2>1, <3>1, <3>2, <3>5, <3>6, <3>9 DEF Place, Fit
    <3>11. FileKnown'
      BY <3>1 DEF SInv, FileKnown
    <3>12. pc' \in {"migrate", "pragma"}
      BY <3>1
    <3>13. TypeOK'
      <4>1. index' \in 1..(Len(Script) + 1)
        BY <1>a, <3>9
      <4>2. UNCHANGED <<disk, target, id, stops, faults, used>>
        BY <2>1, <3>1
      <4> QED
        BY <3>8, <3>12, <4>1, <4>2 DEF SInv, TypeOK, Pc
    <3> QED
      BY <2>1, <3>1, <3>10, <3>11, <3>12, <3>13 DEF SInv
  <2> QED
    BY <2>3, <2>4
<1>6. CASE WriteVersion
  <2>1. /\ txn = [disk EXCEPT !.objects = SchemaOf(target)] /\ target \in {2, 3}
        /\ txn' = [txn EXCEPT !.version = target] /\ pc' = "commit"
        /\ UNCHANGED <<disk, target, index, id, stops, faults, used>> /\ pc = "pragma" /\ Fit
    BY <1>6 DEF WriteVersion, SInv, Place
  <2>2. SchemaOf(target) \subseteq Current
    BY <2>1, <1>c, SchemaIs
  <2>3. txn' = [disk EXCEPT !.objects = SchemaOf(target), !.version = target] /\ txn' \in Database
    BY <1>a, <2>1, <2>2
  <2> QED
    BY <1>a, <2>1, <2>3 DEF SInv, TypeOK, FileKnown, Place, Pc, Fit
<1>7. CASE Commit
  <2>1. /\ txn = [disk EXCEPT !.objects = SchemaOf(target), !.version = target] /\ target \in {2, 3}
        /\ disk' = txn /\ txn' = NoTxn /\ pc' = IF target = 3 THEN "install" ELSE "begin"
        /\ UNCHANGED <<target, index, id, stops, faults, used>> /\ pc = "commit"
    BY <1>7 DEF Commit, SInv, Place
  <2>2. /\ disk'.objects = SchemaOf(target) /\ disk'.version = target /\ disk'.id = disk.id
        /\ disk' \in Database
    <3>1. SchemaOf(target) \subseteq Current
      BY <2>1, <1>c, SchemaIs
    <3> QED
      BY <1>a, <2>1, <3>1
  <2> QED
    BY <1>a, <1>b, <2>1, <2>2 DEF SInv, TypeOK, FileKnown, Place, Pc, ReadVersion
<1>8. CASE InstallIdStep
  <2>1. PICK new \in InstallId : disk' = KeepId(new)
    BY <1>8 DEF InstallIdStep
  <2>2. /\ disk'.objects = disk.objects /\ disk'.version = disk.version /\ disk' \in Database
        /\ disk'.id \in InstallId /\ (disk.id # NoId => disk'.id = disk.id)
    BY <1>a, <2>1 DEF KeepId
  <2>3. /\ id' = disk'.id /\ used' = used \cup {disk'.id} /\ pc' = "ready" /\ pc = "install"
        /\ UNCHANGED <<txn, target, index, stops, faults>>
    BY <1>8 DEF InstallIdStep
  <2> QED
    BY <1>a, <2>2, <2>3 DEF SInv, TypeOK, FileKnown, Place, Pc
<1> QED
  BY <1>1, <1>2, <1>3, <1>4, <1>5, <1>6, <1>7, <1>8 DEF ConnectStep

(* And so do the steps that interrupt it. *)
LEMMA InterruptKeeps ==
  ASSUME SInv, Fault \/ Stop \/ Retry \/ UNCHANGED vars
  PROVE  SInv'
<1> USE SchemaAssumption
<1>1. CASE Fault
  BY <1>1 DEF Fault, Rollback, SInv, TypeOK, FileKnown, Place, Pc
<1>2. CASE Stop
  BY <1>2 DEF Stop, SInv, TypeOK, FileKnown, Place, Pc
<1>3. CASE Retry
  BY <1>3 DEF Retry, SInv, TypeOK, FileKnown, Place, Pc
<1>4. CASE UNCHANGED vars
  BY <1>4 DEF vars, SInv, TypeOK, FileKnown, Place, Fit, Unfit
<1> QED
  BY <1>1, <1>2, <1>3, <1>4

(* Every file connect may find satisfies it. *)
LEMMA FilesKnown == Init => SInv
<1> SUFFICES ASSUME Init PROVE SInv
  OBVIOUS
<1> USE SchemaAssumption, Versions
<1>1. disk.id = NoId /\ FileKnown
  <2>1. PICK objects, version :
          /\ disk = Populated(objects, version)
          /\ \/ objects = {} /\ version = 0
             \/ objects = Baseline /\ version = 0
             \/ objects = Current \cup {"newer"} /\ version = 4
             \/ objects = SchemaOf(version) /\ version \in 1..3
    BY DEF Init, Files
  <2>2. disk.objects = objects /\ disk.version = version /\ disk.id = NoId
    BY <2>1 DEF Populated
  <2>3. {} = Added(Script, 0) /\ 0 \in 0..Len(Script)
    BY ScriptAdds, ScriptIs
  <2>4. CASE objects = {} /\ version = 0
    BY <2>2, <2>3, <2>4 DEF FileKnown
  <2>5. CASE objects = SchemaOf(version) /\ version \in 1..3
    BY <2>2, <2>5 DEF FileKnown
  <2> QED
    BY <2>1, <2>2, <2>4, <2>5 DEF FileKnown
<1>2. disk \in Database
  <2>1. SchemaOf(1) \subseteq Current /\ SchemaOf(2) \subseteq Current /\ Baseline \subseteq Current
    BY SchemaIs
  <2> QED
    BY <2>1, SchemaIs DEF Init, Files, Populated, Database
<1> QED
  BY <1>1, <1>2, ScriptIs DEF Init, SInv, TypeOK, Place, Pc

(* SInv is an invariant. *)
THEOREM SchemaInvariance == Spec => []SInv
<1>1. SInv /\ [Next]_vars => SInv'
  BY ConnectKeeps, InterruptKeeps DEF Next
<1> QED
  BY <1>1, FilesKnown, PTL DEF Spec

-----------------------------------------------------------------------------
(* The properties. *)

(* The variables of Schema keep their types: no statement leaves the file  *)
(* or the open transaction with anything but known objects, a version and  *)
(* an id (_apply_schema).                                                  *)
THEOREM SchemaTypes == Spec => []TypeOK
BY SchemaInvariance, PTL DEF SInv

(* The version in the file never promises a migration that is not there    *)
(* (_apply_schema: PRAGMA user_version inside the transaction).            *)
THEOREM Honest == Spec => []VersionHonest
<1>1. SInv => VersionHonest
  BY Versions DEF SInv, FileKnown, VersionHonest
<1> QED
  BY <1>1, SchemaInvariance, PTL

(* A store that opens has the schema of _SCHEMA, its version, and the one  *)
(* install id it ever had (connect, _install_id).                          *)
THEOREM Ready == Spec => []ReadyIsCurrent
<1>1. SInv => ReadyIsCurrent
  BY Versions, SchemaIs DEF SInv, FileKnown, Place, ReadyIsCurrent
<1> QED
  BY <1>1, SchemaInvariance, PTL

(* A file of a newer build is refused and left as it is (_apply_schema).   *)
THEOREM NewerSafe == Spec => NewerUntouched
<1>1. SInv /\ [Next]_vars => [disk.version > SCHEMA_VERSION => disk' = disk]_vars
  <2> USE Versions
  <2> SUFFICES ASSUME SInv, Next, disk.version > 3, disk' # disk PROVE FALSE
    BY DEF vars
  <2>1. disk.version \in 0..4 /\ target \in 0..4
    BY DEF SInv, TypeOK, Database
  <2>2. pc \in {"script", "stamp", "commit", "install"}
    BY DEF Next, ConnectStep, Probe, RunScript, StampFresh, Begin, MigrateStep, WriteVersion,
           Commit, InstallIdStep, Fault, Rollback, Stop, Retry
  <2>3. pc = "commit" => disk.version \in 0..2
    BY <2>1 DEF SInv, Place, Fit, ReadVersion
  <2> QED
    BY <2>1, <2>2, <2>3 DEF SInv, Place
<1> QED
  BY <1>1, SchemaInvariance, PTL DEF Spec, NewerUntouched
=============================================================================
