------------------------------- MODULE Backup ------------------------------
(***************************************************************************)
(* The copy of the data that exists on one machine (ops/backup.py), what   *)
(* brings it back (ops/restore.py), and the migrations a process that      *)
(* starts applies (db/migrate.py).  The night goes on writing, and a       *)
(* command may be killed between any two of its steps.                     *)
(*                                                                         *)
(* A piece is an artifact or a retained payload: a file in its tree, then  *)
(* a row.  Copying the database is one step, because SQLite's backup       *)
(* restarts what a writer changes; a tree is copied in one step too, as    *)
(* its files are only ever added.                                          *)
(***************************************************************************)
EXTENDS Naturals, FiniteSets

CONSTANTS
    Artifacts, Payloads,  \* pieces, by the tree their files are in
    Slots,        \* destinations of backups
    OldSlots,     \* those holding one taken before payloads were copied
    Starters,     \* processes that migrate when they start
    Latest,       \* the newest migration
    MaxAccidents    \* bound: kills, unmounts, damaged copies, lost disks

ASSUME BackupConstants ==
    /\ Artifacts \cap Payloads = {}
    /\ OldSlots \subseteq Slots
    /\ Latest \in Nat \ {0} /\ MaxAccidents \in Nat

Pieces == Artifacts \cup Payloads

\* What a process that does not run has read of the version.
Down == Latest + 1

VARIABLES
    live,     \* the database, its write-ahead log, and the two trees
    copies,   \* what is at each destination
    mounted,  \* whether the share is: its mount point is a local directory else
    backup,   \* the backup under way
    restore,  \* the restore under way
    starter,  \* the version each starting process has read
    accidents

opsVars == <<live, copies, mounted, backup, restore, starter, accidents>>

NoDatabase == [exists |-> FALSE, rows |-> {}, scripts |-> {}, schema |-> 0,
               log |-> "none", mixed |-> FALSE]

\* "lost": rows whose file was gone already when the database was copied.
NoCopy == [database |-> FALSE, rows |-> {}, lost |-> {}, schema |-> 0, files |-> {}, trees |-> {},
           on |-> "nowhere", manifest |-> FALSE, damaged |-> FALSE]

\* What the first release took: one artifact, and no payload directory.
OldCopy == [NoCopy EXCEPT !.database = TRUE, !.rows = Artifacts, !.schema = 1, !.files = Artifacts,
                          !.trees = {"artifacts"}, !.on = "share", !.manifest = TRUE]

NotBacking == [at |-> "idle", slot |-> "none"]
NotRestoring == [at |-> "idle", slot |-> "none", overwrite |-> FALSE]

OpsInit ==
    /\ live = [db |-> NoDatabase, files |-> {}]
    /\ copies = [s \in Slots |-> IF s \in OldSlots THEN OldCopy ELSE NoCopy]
    /\ mounted = TRUE
    /\ backup = NotBacking
    /\ restore = NotRestoring
    /\ starter = [p \in Starters |-> Down]
    /\ accidents = 0

-----------------------------------------------------------------------------
(* Processes that start, and the night's writes.                           *)

\* A log left beside a database it does not belong to is read as its tail.
Opened(db) == [db EXCEPT !.exists = TRUE, !.mixed = @ \/ db.log = "foreign"]

Written(db) == [Opened(db) EXCEPT !.log = "own"]

Script(db, n) == [Written(db) EXCEPT !.scripts = @ \cup {n}, !.schema = n]

\* A script lands with its version row or not at all.
CutShort(db, n) == db

\* The version is read outside the transactions that follow.
Start(p) ==
    /\ restore.at = "idle"
    /\ starter[p] = Down
    /\ starter' = [starter EXCEPT ![p] = live.db.schema]
    /\ live' = [live EXCEPT !.db = Opened(@)]
    /\ UNCHANGED <<copies, mounted, backup, restore, accidents>>

Migrating(p) == starter[p] < Latest

\* What another process has applied in the meantime is there already: the
\* script fails, is rolled back, and the process does not start.
Migrate(p) ==
    /\ Migrating(p)
    /\ LET next == starter[p] + 1
       IN IF next \in live.db.scripts
          THEN starter' = [starter EXCEPT ![p] = Down] /\ live' = live
          ELSE /\ starter' = [starter EXCEPT ![p] = next]
               /\ live' = [live EXCEPT !.db = Script(@, next)]
    /\ UNCHANGED <<copies, mounted, backup, restore, accidents>>

KillStarter(p) ==
    /\ Migrating(p) /\ accidents < MaxAccidents
    /\ starter' = [starter EXCEPT ![p] = Down]
    /\ live' = IF starter[p] + 1 \in live.db.scripts THEN live
               ELSE [live EXCEPT !.db = CutShort(@, starter[p] + 1)]
    /\ accidents' = accidents + 1
    /\ UNCHANGED <<copies, mounted, backup, restore>>

Serving == \E p \in Starters : starter[p] = Latest

Inserted(db, w) == [Written(db) EXCEPT !.rows = @ \cup {w}]

\* The file, then the row that points at it.
WriteFile(w) ==
    /\ Serving
    /\ w \notin live.files
    /\ live' = [live EXCEPT !.files = @ \cup {w}]
    /\ UNCHANGED <<copies, mounted, backup, restore, starter, accidents>>

InsertRow(w) ==
    /\ Serving
    /\ w \in live.files /\ w \notin live.db.rows
    /\ live' = [live EXCEPT !.db = Inserted(@, w)]
    /\ UNCHANGED <<copies, mounted, backup, restore, starter, accidents>>

\* The last connection to close moves the log into the database.
Stop(p) ==
    /\ starter[p] = Latest
    /\ starter' = [starter EXCEPT ![p] = Down]
    /\ live' = IF \A q \in Starters \ {p} : starter[q] = Down
               THEN [live EXCEPT !.db.log = "none"] ELSE live
    /\ UNCHANGED <<copies, mounted, backup, restore, accidents>>

\* Killed, the log stays.
Die(p) ==
    /\ starter[p] = Latest /\ accidents < MaxAccidents
    /\ starter' = [starter EXCEPT ![p] = Down]
    /\ accidents' = accidents + 1
    /\ UNCHANGED <<live, copies, mounted, backup, restore>>

-----------------------------------------------------------------------------
(* A backup: the database, the artifacts, the payloads, the manifest.      *)

Device(destination) == IF mounted THEN "share" ELSE "disk"

\* A copy on the disk it protects is not a copy.
RefusesTheSameDisk(s) == Device(s) = "disk"

\* Mutant: the trees before the database.  What a row of the copy points at may have
\* been written after its tree was read.
TreesFirst == <<"artifacts", "payloads", "database", "manifest">>

Order == <<"database", "artifacts", "payloads", "manifest">>

Following(step) == CHOOSE next \in {"artifacts", "payloads", "database", "manifest", "idle"} :
    \/ \E k \in 1 .. 3 : Order[k] = step /\ next = Order[k + 1]
    \/ step = "manifest" /\ next = "idle"

\* A destination with no manifest is written over: what a killed backup left
\* there is not a backup.
CreateBackup(s) ==
    /\ backup.at = "idle" /\ restore.at = "idle"
    /\ live.db.exists
    /\ ~RefusesTheSameDisk(s)
    /\ ~copies[s].manifest
    /\ backup' = [at |-> Order[1], slot |-> s]
    /\ copies' = [copies EXCEPT ![s].on = Device(s)]
    /\ UNCHANGED <<live, mounted, restore, starter, accidents>>

Step(step) ==
    /\ backup.at = step
    /\ backup' = IF step = "manifest" THEN NotBacking ELSE [backup EXCEPT !.at = Following(step)]
    /\ UNCHANGED <<mounted, restore, starter, accidents>>

BackUpDatabase ==
    /\ Step("database")
    /\ copies' = [copies EXCEPT ![backup.slot].database = TRUE, ![backup.slot].rows = live.db.rows,
                                ![backup.slot].lost = live.db.rows \ live.files,
                                ![backup.slot].schema = live.db.schema]
    /\ live' = [live EXCEPT !.db = Opened(@)]

\* A machine with no such tree has an empty one in its copy.
CopyTree(name, pieces) ==
    /\ Step(name)
    /\ copies' = [copies EXCEPT ![backup.slot].files = @ \cup (live.files \cap pieces),
                                ![backup.slot].trees = @ \cup {name}]
    /\ UNCHANGED live

WriteManifest ==
    /\ Step("manifest")
    /\ copies' = [copies EXCEPT ![backup.slot].manifest = TRUE]
    /\ UNCHANGED live

KillBackup ==
    /\ backup.at # "idle" /\ accidents < MaxAccidents
    /\ backup' = NotBacking
    /\ accidents' = accidents + 1
    /\ UNCHANGED <<live, copies, mounted, restore, starter>>

\* No manifest, a file missing, altered or unaccounted for, or a database that
\* does not hold what was counted.
VerifyBackup(s) == copies[s].manifest /\ ~copies[s].damaged

-----------------------------------------------------------------------------
(* A restore: verified before anything is written.                         *)

\* No service runs: a restore does not look, and the person does.
RestoreBackup(s, overwrite) ==
    /\ restore.at \in {"idle", "done"} /\ backup.at = "idle"
    /\ \A p \in Starters : starter[p] = Down
    /\ copies[s].on = Device(s) /\ VerifyBackup(s)
    /\ live.db.exists => overwrite
    /\ restore' = [at |-> "database", slot |-> s, overwrite |-> overwrite]
    /\ UNCHANGED <<live, copies, mounted, backup, starter, accidents>>

Source == copies[restore.slot]

Proceed(from, to) ==
    /\ restore.at = from
    /\ restore' = [restore EXCEPT !.at = to]
    /\ UNCHANGED <<copies, mounted, backup, starter, accidents>>

\* Whatever log was there is beside another database now.
PutDatabase ==
    /\ Proceed("database", "sidecars")
    /\ live' = [live EXCEPT !.db =
                  [exists |-> TRUE, rows |-> Source.rows, schema |-> Source.schema,
                   scripts |-> 1 .. Source.schema, mixed |-> FALSE,
                   log |-> IF @.log = "none" THEN "none" ELSE "foreign"]]

\* Mutant: the log of the previous database stays where it is.
LeftAlone(log) == log

LogAfterwards(log) == "none"

DropSidecars ==
    /\ Proceed("sidecars", "artifacts")
    /\ live' = [live EXCEPT !.db.log = LogAfterwards(@)]

\* With --overwrite the tree is removed first, whether or not the copy has one.
Kept(pieces) == IF restore.overwrite THEN live.files \ pieces ELSE live.files

Restored(name, pieces) ==
    IF name \in Source.trees THEN Kept(pieces) \cup (Source.files \cap pieces) ELSE Kept(pieces)

PutArtifacts ==
    /\ Proceed("artifacts", "payloads")
    /\ live' = [live EXCEPT !.files = Restored("artifacts", Artifacts)]

PutPayloads ==
    /\ Proceed("payloads", "check")
    /\ live' = [live EXCEPT !.files = Restored("payloads", Payloads)]

\* Opened, counted, and compared with the manifest.
Check ==
    /\ Proceed("check", "done")
    /\ live' = [live EXCEPT !.db = Opened(@)]

Leave ==
    /\ restore.at = "done"
    /\ restore' = NotRestoring
    /\ UNCHANGED <<live, copies, mounted, backup, starter, accidents>>

KillRestore ==
    /\ restore.at \notin {"idle", "done"} /\ accidents < MaxAccidents
    /\ restore' = NotRestoring
    /\ accidents' = accidents + 1
    /\ UNCHANGED <<live, copies, mounted, backup, starter>>

-----------------------------------------------------------------------------
(* The disk, the share and the copies.                                     *)

\* A share in use is not unmounted.
Mount ==
    /\ backup.at = "idle" /\ restore.at \in {"idle", "done"}
    /\ mounted => accidents < MaxAccidents
    /\ mounted' = ~mounted
    /\ accidents' = IF mounted THEN accidents + 1 ELSE accidents
    /\ UNCHANGED <<live, copies, backup, restore, starter>>

\* A file of a finished copy is altered, removed or added.
Damage(s) ==
    /\ copies[s].manifest /\ ~copies[s].damaged
    /\ restore.at \in {"idle", "done"} /\ accidents < MaxAccidents
    /\ copies' = [copies EXCEPT ![s].damaged = TRUE]
    /\ accidents' = accidents + 1
    /\ UNCHANGED <<live, mounted, backup, restore, starter>>

\* Everything on it is gone, with every copy that is on it too.
LoseDisk ==
    /\ backup.at = "idle" /\ restore.at = "idle" /\ accidents < MaxAccidents
    /\ live' = [db |-> NoDatabase, files |-> {}]
    /\ copies' = [s \in Slots |-> IF copies[s].on = "disk" THEN NoCopy ELSE copies[s]]
    /\ starter' = [p \in Starters |-> Down]
    /\ accidents' = accidents + 1
    /\ UNCHANGED <<mounted, backup, restore>>

OpsNext ==
    \/ \E p \in Starters : Start(p) \/ Migrate(p) \/ KillStarter(p) \/ Stop(p) \/ Die(p)
    \/ \E w \in Pieces : WriteFile(w) \/ InsertRow(w)
    \/ \E s \in Slots : CreateBackup(s) \/ Damage(s)
    \/ BackUpDatabase \/ CopyTree("artifacts", Artifacts) \/ CopyTree("payloads", Payloads)
    \/ WriteManifest \/ KillBackup
    \/ \E s \in Slots, overwrite \in BOOLEAN : RestoreBackup(s, overwrite)
    \/ PutDatabase \/ DropSidecars \/ PutArtifacts \/ PutPayloads \/ Check \/ Leave \/ KillRestore
    \/ Mount \/ LoseDisk

OpsSpec == OpsInit /\ [][OpsNext]_opsVars

-----------------------------------------------------------------------------

Database ==
    [exists : BOOLEAN, rows : SUBSET Pieces, scripts : SUBSET (1 .. Latest), schema : 0 .. Latest,
     log : {"none", "own", "foreign"}, mixed : BOOLEAN]
CopyRecord ==
    [database : BOOLEAN, rows : SUBSET Pieces, lost : SUBSET Pieces, schema : 0 .. Latest,
     files : SUBSET Pieces, trees : SUBSET {"artifacts", "payloads"},
     on : {"nowhere", "share", "disk"}, manifest : BOOLEAN, damaged : BOOLEAN]

OpsTypeOK ==
    /\ live \in [db : Database, files : SUBSET Pieces]
    /\ copies \in [Slots -> CopyRecord]
    /\ mounted \in BOOLEAN
    /\ backup \in [at : {"idle", "database", "artifacts", "payloads", "manifest"},
                   slot : Slots \cup {"none"}]
    /\ restore \in [at : {"idle", "database", "sidecars", "artifacts", "payloads", "check", "done"},
                    slot : Slots \cup {"none"}, overwrite : BOOLEAN]
    /\ starter \in [Starters -> 0 .. Down]
    /\ accidents \in 0 .. MaxAccidents

\* A copy that can be restored has the file of every one of its rows that had
\* one, taken though it was while the night was writing; it is on another device
\* than what it protects; and what it copies is at a version that is known.
WholeCopies == \A s \in Slots : VerifyBackup(s) => copies[s].rows \subseteq copies[s].files \cup copies[s].lost
ElsewhereCopies == \A s \in Slots : VerifyBackup(s) => copies[s].on = "share"
KnownVersion == live.db.scripts = 1 .. live.db.schema

CopiesAreWorthRestoring == WholeCopies /\ ElsewhereCopies /\ KnownVersion

\* A restore that says it is done has put back exactly the rows of its copy,
\* with their files, beside no log of another database; whatever earlier
\* restores were killed half way.
RestoredIsTheCopy ==
    restore.at = "done" =>
        /\ live.db.rows = Source.rows /\ live.db.schema = Source.schema
        /\ live.db.rows \subseteq live.files \cup Source.lost
        /\ ~live.db.mixed /\ live.db.log # "foreign"

\* "A restore of one must succeed, leaving the payload root as it found it"
\* (restore.py:149-152), of a copy taken before payloads were copied.
OldCopyLeavesPayloads ==
    [][restore.at # "idle" /\ "payloads" \notin Source.trees =>
         live'.files \cap Payloads = live.files \cap Payloads]_opsVars
=============================================================================
