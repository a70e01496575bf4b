----------------------------- MODULE Maintenance -----------------------------
(***************************************************************************)
(* The operator's commands on the database file (enfold.ops): migrate,     *)
(* backup, restore, verify --check-fts, erase-fact, rebuild-vector-index,  *)
(* rehearse, and the restore drill of enfold.backup_rehearsal, run while   *)
(* the daemon and the legacy in-process provider come and go.              *)
(*                                                                         *)
(* A database is abstracted to what the commands compare: its two schema   *)
(* version records, whether its shape is complete, how many rows it has    *)
(* and which commit it holds.  Two side files serialise writers: the       *)
(* daemon's (<db>.enfold.lock), held while it runs, and the legacy         *)
(* writer's (<db>.mcp-write.lock), held for one add; a maintenance command *)
(* takes both without waiting.  A write-ahead log stays next to the file   *)
(* until the last read-write connection closes cleanly: replacing the file *)
(* while a log of the previous generation holds frames tears the database. *)
(* A torn database is taken to fail the integrity check.                   *)
(***************************************************************************)
EXTENDS Naturals, FiniteSets

CONSTANTS
  Operators,       \* processes running python -m enfold.ops
  Commands,        \* the commands they run
  InitialStores,   \* the databases the system may start from
  MaxWrites,       \* bound on the writes of the daemon and the provider
  MaxJobs,         \* bound on the commands started
  Tolerance,       \* --fact-count-tolerance of the restore drill
  NoFile, None

\* schema is MAX(version) of schema_migrations and meta the value of
\* enfold_meta (0: no such tables), shape what verify_schema_shape requires,
\* patched the snapshot columns of extract_queue, flaw a reason for a
\* migration to refuse.
Store == [schema: 0..1, meta: 0..1, shape: BOOLEAN, patched: BOOLEAN,
          flaw: {"none", "object", "slots", "queue"},
          rows: Nat, commit: Nat, torn: BOOLEAN]

Command == {"migrate", "backup", "restore", "verify", "erase", "rebuild",
            "rehearse", "drill"}

\* verify_schema_shape: every table, column, index and trigger of version 1.
Complete(s) == s.schema = 1 => s.shape

\* At MaxWrites the daemon and the provider stop writing, at MaxJobs the
\* operators stop starting commands.  The version records of the databases
\* to start from agree, with each other and with the shape.
ASSUME MaintenanceAssumption ==
  /\ MaxWrites \in Nat /\ MaxJobs \in Nat /\ Tolerance \in Nat
  /\ IsFiniteSet(Operators) /\ Operators \cap {"daemon", "legacy"} = {}
  /\ None \notin Operators \cup {"daemon", "legacy", "ok", "failed"}
  /\ Commands \subseteq Command
  /\ InitialStores \subseteq Store
  /\ \A s \in InitialStores : s.schema = s.meta /\ Complete(s)

VARIABLES
  files,       \* [Path -> database or NoFile]
  second,      \* the secondary copy of the backup, or NoFile
  wal,         \* the side log of the live database, and whose frames it has
  backupLog,   \* the backup has a side log
  daemonLock,  \* holder of <live>.enfold.lock
  writerLock,  \* holder of <live>.mcp-write.lock
  txn,         \* the operator inside a write transaction on live
  daemon,      \* "off", "owning", "up"
  legacy,      \* the legacy provider: where it is, and which file it has open
  op,          \* [Operators -> the command being run]
  commits,     \* commits so far, the identity of the last one
  writes,      \* writes of the daemon and of the provider
  jobs,        \* commands started so far
  committed    \* history: every sound database the live path has held

vars == <<files, second, backupLog, wal, daemonLock, writerLock, txn, daemon, legacy, op,
          commits, writes, jobs, committed>>
locks == <<daemonLock, writerLock, txn>>
content == <<files, commits, committed>>
copies == <<second, backupLog>>
others == <<daemon, legacy, writes>>

Path == {"live", "backup", "candidate", "rollback"}

Idle == [cmd |-> None, target |-> 1, over |-> FALSE, pc |-> "idle",
         src |-> "live", dst |-> "backup", rows |-> 0, pin |-> NoFile,
         tmp |-> NoFile, mark |-> NoFile, result |-> None]
Step == {"idle", "lock_daemon", "lock_legacy", "migrate", "apply",
         "ledger", "commit", "patch", "check", "erase", "rebuild", "verify",
         "stage", "copy", "publish", "counted", "second", "fingerprint", "read",
         "artifact", "upgrade", "smoke", "restore", "compare", "last", "count", "drill"}

\* The type invariant; a lock or a transaction belongs to a command that is
\* running (maintenance_database_lock releases on every path).
TypeOK ==
  /\ files \in [Path -> Store \cup {NoFile}]
  /\ second = NoFile \/ second \in [store: Store, sealed: BOOLEAN]
  /\ wal \in {"none", "empty", "daemon", "legacy", "operator"} /\ backupLog \in BOOLEAN
  /\ daemonLock \in Operators \cup {"daemon", None}
  /\ writerLock \in Operators \cup {"legacy", None}
  /\ txn \in Operators \cup {None}
  /\ daemon \in {"off", "owning", "up"} /\ (daemon # "off" <=> daemonLock = "daemon")
  /\ legacy \in [pc: {"off", "probed", "idle", "locked", "added"},
                 file: {"current", "replaced"}]
  /\ (legacy.pc \in {"locked", "added"} <=> writerLock = "legacy")
  /\ \A o \in Operators :
       /\ op[o].cmd \in Command \cup {None} /\ op[o].pc \in Step
       /\ op[o].src \in Path /\ op[o].dst \in Path /\ op[o].rows \in Nat
       /\ {op[o].tmp, op[o].mark, op[o].pin} \subseteq Store \cup {NoFile}
       /\ op[o].result \in {None, "ok", "failed"}
       /\ (op[o].pc = "idle" => daemonLock # o /\ writerLock # o /\ txn # o)
  /\ commits \in Nat /\ writes \in 0..MaxWrites /\ jobs \in 0..MaxJobs

\* A database, and perhaps a backup of it.
Init ==
  /\ \E s \in InitialStores, b \in BOOLEAN :
       /\ files = [p \in Path |-> IF p = "live" \/ (b /\ p = "backup") THEN s ELSE NoFile]
       /\ committed = {s}
  /\ second = NoFile /\ wal = "none" /\ backupLog = FALSE
  /\ daemonLock = None /\ writerLock = None /\ txn = None
  /\ daemon = "off" /\ legacy = [pc |-> "off", file |-> "current"]
  /\ op = [o \in Operators |-> Idle]
  /\ commits = 0 /\ writes = 0 /\ jobs = 0

-----------------------------------------------------------------------------
(* What the commands read of a database. *)

\* schema_version and require_compatible_schema: both records must be there
\* and agree, and the shape must be the one they claim.
Readable(s) == s # NoFile /\ ~s.torn /\ s.schema = s.meta /\ Complete(s)

\* verify_database: integrity, foreign keys and FTS.
Sound(s) == s # NoFile /\ ~s.torn

\* _migration_001_complete_schema refuses a database with an object it does
\* not know on the facts table, with two active facts of one state slot, or
\* with queue rows it cannot keep, and otherwise leaves the complete shape.
Refuses(s) == s.flaw # "none"
Upgraded(s) == [s EXCEPT !.shape = TRUE, !.patched = TRUE]

\* The queue patch of a store that already is version 1 fails on queue rows
\* it cannot keep (_ensure_extraction_queue_schema).
PatchRefuses(s) == s.flaw = "queue"

\* What migrate leaves of a database that it does not refuse.
Migrated(s) == IF s.schema = 0 THEN [Upgraded(s) EXCEPT !.schema = 1, !.meta = 1]
                               ELSE [s EXCEPT !.patched = TRUE]
Migratable(s) == /\ Readable(s)
                 /\ IF s.schema = 0 THEN ~Refuses(s) ELSE s.patched \/ ~PatchRefuses(s)

\* The database file s becomes the content of the live path.
Becomes(s) ==
  LET next == [s EXCEPT !.commit = commits + 1] IN
  /\ files' = [files EXCEPT !["live"] = next]
  /\ commits' = commits + 1
  /\ committed' = committed \cup {next}

-----------------------------------------------------------------------------
(* The life of a command. *)

At(o, pc) == op[o].pc = pc
Go(o, pc) == op' = [op EXCEPT ![o].pc = pc]

\* Locked commands start after maintenance_database_lock.
FirstStep(cmd) ==
  CASE cmd = "migrate" -> "migrate" [] cmd = "verify" -> "check"
    [] cmd = "erase" -> "erase" [] cmd = "rebuild" -> "rebuild"
    [] cmd = "rehearse" -> "fingerprint" [] cmd = "drill" -> "count"
    [] OTHER -> "verify"
Unlocked == {"backup", "drill"}

\* backup copies live to backup and restore copies it back; rehearse refuses
\* a workdir with files in it before it asks for the locks.  The drill needs
\* a backup to restore.
Start(o, cmd, over, target) ==
  /\ At(o, "idle") /\ jobs < MaxJobs
  /\ cmd \in Commands
  /\ cmd = "rehearse" => files["candidate"] = NoFile /\ files["rollback"] = NoFile
  /\ cmd = "drill" => files["backup"] # NoFile
  /\ (over => cmd \in {"backup", "restore"}) /\ (target = 0 => cmd = "migrate")
  /\ jobs' = jobs + 1
  /\ op' = [op EXCEPT ![o] =
       [Idle EXCEPT !.cmd = cmd, !.over = over, !.target = target,
                    !.pc = IF cmd \in Unlocked THEN FirstStep(cmd) ELSE "lock_daemon",
                    !.src = IF cmd = "restore" THEN "backup" ELSE "live",
                    !.dst = CASE cmd = "restore" -> "live" [] cmd = "rehearse" -> "candidate"
                              [] OTHER -> "backup"]]
  /\ UNCHANGED <<content, copies, wal, locks, others>>

\* The handler returns or raises: an open transaction is rolled back and the
\* lock context closes both side files.  The result of the last command of
\* o is kept.
Unlock(o) ==
  /\ daemonLock' = IF daemonLock = o THEN None ELSE daemonLock
  /\ writerLock' = IF writerLock = o THEN None ELSE writerLock
  /\ txn' = IF txn = o THEN None ELSE txn
Finish(o, result) ==
  /\ op' = [op EXCEPT ![o] = [Idle EXCEPT !.result = result]]
  /\ Unlock(o)

\* Someone else than o has the live database open.
Opened(o) == \/ legacy.pc \notin {"off", "probed"} /\ legacy.file = "current"
             \/ daemon = "up"
             \/ \E p \in Operators \ {o} :
                  op[p].src = "live" /\ op[p].pc \in {"stage", "copy"}
\* The log after o closed a read-write connection to live: the last one to
\* close checkpoints it and removes it.
Checkpointed(o) == IF Opened(o) THEN wal ELSE "none"
\* A read-only connection cannot remove the log it makes for itself; it makes
\* none when the database is not in WAL mode.
ReaderLog == {wal} \cup (IF wal = "none" THEN {"empty"} ELSE {})
Read(path) == IF path = "live" THEN wal' \in ReaderLog /\ UNCHANGED backupLog
                               ELSE backupLog' \in {backupLog, TRUE} /\ UNCHANGED wal

\* maintenance_database_lock with no wait: the daemon's side file, then the
\* legacy writer's.
LockDaemon(o) ==
  /\ At(o, "lock_daemon")
  /\ IF daemonLock = None
       THEN daemonLock' = o /\ Go(o, "lock_legacy") /\ UNCHANGED <<writerLock, txn>>
       ELSE Finish(o, "failed")
  /\ UNCHANGED <<content, copies, wal, others, jobs>>
\* Mutant: a refusal by the second side file keeps the first.
LockLegacyLeak(o) ==
  /\ At(o, "lock_legacy")
  /\ IF writerLock = None
       THEN writerLock' = o /\ Go(o, FirstStep(op[o].cmd))
       ELSE op' = [op EXCEPT ![o] = Idle] /\ UNCHANGED writerLock
  /\ UNCHANGED <<content, copies, wal, daemonLock, txn, others, jobs>>
LockLegacy(o) ==
  /\ At(o, "lock_legacy")
  /\ IF writerLock = None
       THEN /\ writerLock' = o /\ Go(o, FirstStep(op[o].cmd))
            /\ UNCHANGED <<daemonLock, txn>>
       ELSE Finish(o, "failed")
  /\ UNCHANGED <<content, copies, wal, others, jobs>>

-----------------------------------------------------------------------------
(* _copy: backup, restore and the first step of a rehearsal. *)

\* The source is opened read-only and verified; its counts are remembered.
CopyVerify(o) ==
  /\ At(o, "verify")
  /\ LET s == files[op[o].src] IN
     IF Sound(s)
       THEN op' = [op EXCEPT ![o].pc = "stage", ![o].rows = s.rows] /\ UNCHANGED locks
       ELSE Finish(o, "failed")
  /\ Read(op[o].src)
  /\ UNCHANGED <<content, second, others, jobs>>

\* _atomic_path_destination: the destination must not be there unless it may
\* be overwritten, and must have no log.
\* Mutant: the side log of the destination is not looked at.
CopyStageBlind(o) ==
  /\ At(o, "stage")
  /\ IF files[op[o].dst] # NoFile /\ ~op[o].over
       THEN Finish(o, "failed") ELSE Go(o, "copy") /\ UNCHANGED locks
  /\ UNCHANGED <<content, copies, wal, others, jobs>>
CopyStage(o) ==
  /\ At(o, "stage")
  /\ IF \/ files[op[o].dst] # NoFile /\ ~op[o].over
        \/ op[o].dst = "live" /\ wal # "none"
        \/ op[o].dst = "backup" /\ backupLog
       THEN Finish(o, "failed")
       ELSE Go(o, "copy") /\ UNCHANGED locks
  /\ UNCHANGED <<content, copies, wal, others, jobs>>

\* One transaction of the source, which is the file that was opened even if
\* another one has its name by now.
Source(o) == IF op[o].pin # NoFile THEN op[o].pin ELSE files[op[o].src]
\* Mutant: the copy is written to its final name.
CopyInPlace(o) ==
  /\ At(o, "copy")
  /\ op' = [op EXCEPT ![o].pc = "publish", ![o].tmp = Source(o)]
  /\ files' = [files EXCEPT ![op[o].dst] = [Source(o) EXCEPT !.torn = TRUE]]
  /\ UNCHANGED <<commits, committed, copies, wal, locks, others, jobs>>
CopyCopy(o) ==
  /\ At(o, "copy")
  /\ IF Sound(Source(o))
       THEN op' = [op EXCEPT ![o].pc = "publish", ![o].tmp = Source(o)] /\ UNCHANGED locks
       ELSE Finish(o, "failed")
  /\ UNCHANGED <<content, copies, wal, others, jobs>>

\* Whoever reads the replaced file goes on reading it, and so does the legacy
\* provider when it is the live one.  A log with frames is replayed into the
\* file that now has its name.
Replaced(o, path) ==
  [p \in Operators |->
     IF p # o /\ op[p].src = path /\ op[p].pc \in {"stage", "copy"} /\ op[p].pin = NoFile
       THEN [op[p] EXCEPT !.pin = files[path]] ELSE op[p]]
Published(o, path, s) ==
  LET next == [s EXCEPT !.torn = path = "live" /\ wal \notin {"none", "empty"}] IN
  /\ files' = [files EXCEPT ![path] = next]
  /\ committed' = committed \cup (IF path = "live" /\ Sound(next) THEN {next} ELSE {})
  /\ legacy' = IF path = "live" /\ legacy.pc \notin {"off", "probed"}
                 THEN [legacy EXCEPT !.file = "replaced"] ELSE legacy
CopyPublish(o) ==
  /\ At(o, "publish")
  /\ \/ /\ files[op[o].dst] # NoFile /\ ~op[o].over
        /\ Finish(o, "failed")
        /\ UNCHANGED <<files, committed, legacy>>
     \/ /\ files[op[o].dst] = NoFile \/ op[o].over
        /\ Published(o, op[o].dst, op[o].tmp)
        /\ op' = [Replaced(o, op[o].dst) EXCEPT ![o].pc = "counted"]
        /\ UNCHANGED locks
  /\ UNCHANGED <<commits, copies, wal, daemon, writes, jobs>>

\* The counts of the source, taken before the copy, against those of the copy.
CopyCompare(o) ==
  /\ At(o, "counted")
  /\ IF op[o].tmp.rows # op[o].rows THEN Finish(o, "failed")
     ELSE CASE op[o].cmd = "backup" -> Go(o, "second") /\ UNCHANGED locks
            [] op[o].cmd = "rehearse" -> Go(o, "artifact") /\ UNCHANGED locks
            [] OTHER -> Finish(o, "ok")
  /\ UNCHANGED <<content, copies, wal, others, jobs>>

\* The secondary copy is best effort: none when it is not configured, fails or
\* would have to be made in the clear although it should be sealed; the backup
\* has succeeded all the same.
Secondary(o, mode) ==
  /\ At(o, "second")
  /\ second' = IF mode \in {"plain", "sealed"} /\ files["backup"] # NoFile
                 THEN [store |-> files["backup"], sealed |-> mode = "sealed"] ELSE second
  /\ Finish(o, "ok")
  /\ UNCHANGED <<content, backupLog, wal, others, jobs>>

-----------------------------------------------------------------------------
(* migrate *)

\* The connection, require_compatible_schema and the checks of migrate; then
\* BEGIN IMMEDIATE when there is a version to apply.
Migrate(o) ==
  /\ At(o, "migrate")
  /\ LET s == files["live"] IN
     \/ /\ ~Readable(s) \/ op[o].target < s.schema
        /\ Finish(o, "failed") /\ wal' = Checkpointed(o)
     \/ /\ Readable(s) /\ s.schema < op[o].target
        /\ txn' = o /\ op' = [op EXCEPT ![o].pc = "apply", ![o].tmp = s]
        /\ UNCHANGED <<daemonLock, writerLock, wal>>
     \/ /\ Readable(s) /\ s.schema = op[o].target
        /\ IF op[o].target = 0 THEN Finish(o, "ok") /\ wal' = Checkpointed(o)
                               ELSE Go(o, "patch") /\ UNCHANGED <<locks, wal>>
  /\ UNCHANGED <<content, copies, others, jobs>>

\* Mutant: the migration commits before its version is recorded.
ApplyCommits(o) ==
  /\ At(o, "apply") /\ ~Refuses(op[o].tmp)
  /\ Becomes([Upgraded(op[o].tmp) EXCEPT !.schema = 1])
  /\ op' = [op EXCEPT ![o].pc = "ledger", ![o].tmp = Upgraded(op[o].tmp)]
  /\ UNCHANGED <<copies, wal, locks, others, jobs>>
Apply(o) ==
  /\ At(o, "apply")
  /\ IF Refuses(op[o].tmp)
       THEN Finish(o, "failed") /\ wal' = Checkpointed(o)
       ELSE /\ op' = [op EXCEPT ![o].pc = "ledger", ![o].tmp = Upgraded(op[o].tmp)]
            /\ UNCHANGED <<locks, wal>>
  /\ UNCHANGED <<content, copies, others, jobs>>

\* The ledger row and the metadata row, in the transaction of the migration.
Ledger(o) ==
  /\ At(o, "ledger")
  /\ op' = [op EXCEPT ![o].pc = "commit", ![o].tmp.schema = 1, ![o].tmp.meta = 1]
  /\ UNCHANGED <<content, copies, wal, locks, others, jobs>>

Commit(o) ==
  /\ At(o, "commit")
  /\ IF Complete(op[o].tmp)
       THEN /\ Becomes(op[o].tmp) /\ Go(o, "patch")
            /\ txn' = None /\ UNCHANGED <<daemonLock, writerLock, wal>>
       ELSE Finish(o, "failed") /\ wal' = Checkpointed(o) /\ UNCHANGED content
  /\ UNCHANGED <<copies, others, jobs>>

\* _apply_extraction_queue_patch, a transaction of its own.
Patch(o) ==
  /\ At(o, "patch")
  /\ LET s == files["live"] IN
     CASE s.patched -> Finish(o, "ok") /\ UNCHANGED content
       [] ~s.patched /\ PatchRefuses(s) -> Finish(o, "failed") /\ UNCHANGED content
       [] OTHER -> Becomes([s EXCEPT !.patched = TRUE]) /\ Finish(o, "ok")
  /\ wal' = Checkpointed(o)
  /\ UNCHANGED <<copies, others, jobs>>

-----------------------------------------------------------------------------
(* The commands of one transaction. *)

\* verify --check-fts: the savepoint is rolled back.
Verify(o) ==
  /\ At(o, "check")
  /\ Finish(o, IF Sound(files["live"]) THEN "ok" ELSE "failed")
  /\ wal' = Checkpointed(o)
  /\ UNCHANGED <<content, copies, others, jobs>>

\* erase_fact wants version 1 and adds a row to the erasure ledger; a fact
\* that is not there fails.
Erase(o) ==
  /\ At(o, "erase")
  /\ LET s == files["live"] IN
     \/ /\ Readable(s) /\ s.schema = 1
        /\ Becomes([s EXCEPT !.rows = s.rows + 1]) /\ Finish(o, "ok")
     \/ UNCHANGED content /\ Finish(o, "failed")
  /\ wal' = Checkpointed(o)
  /\ UNCHANGED <<copies, others, jobs>>

\* rebuild_sqlite_vec_index fills the inactive table and makes it the active
\* one in one transaction, or fails on a vector it cannot use.
Rebuild(o) ==
  /\ At(o, "rebuild")
  /\ LET s == files["live"] IN
     \/ Readable(s) /\ s.schema = 1 /\ Becomes(s) /\ Finish(o, "ok")
     \/ UNCHANGED content /\ Finish(o, "failed")
  /\ wal' = Checkpointed(o)
  /\ UNCHANGED <<copies, others, jobs>>

-----------------------------------------------------------------------------
(* rehearse_snapshot and the restore drill. *)

\* database_fingerprint of the source reads one table after another, outside
\* any transaction: tmp is the database when it begins.  When a commit falls
\* into it, the digest is the one of before (what changed had been read), the
\* one of after, or that of no database.
Fingerprint(o) ==
  /\ At(o, "fingerprint")
  /\ IF ~Sound(files["live"]) THEN Finish(o, "failed")
     ELSE /\ op' = [op EXCEPT ![o].pc = "read", ![o].tmp = files["live"]]
          /\ UNCHANGED locks
  /\ wal' \in ReaderLog
  /\ UNCHANGED <<content, copies, others, jobs>>
Digests(o) == {op[o].tmp, files["live"]} \cup (IF files["live"] = op[o].tmp THEN {} ELSE {NoFile})
\* The source fingerprint is kept; the copy to the candidate follows.
FingerprintRead(o) ==
  /\ At(o, "read")
  /\ \E d \in Digests(o) : op' = [op EXCEPT ![o].pc = "verify", ![o].mark = d]
  /\ UNCHANGED <<content, copies, wal, locks, others, jobs>>

\* The candidate is copied to the rollback artifact, which is compared with
\* the source fingerprint.
Artifact(o) ==
  /\ At(o, "artifact")
  /\ LET c == files["candidate"] IN
     IF Sound(c) /\ files["rollback"] = NoFile
       THEN /\ files' = [files EXCEPT !["rollback"] = c]
            /\ IF c = op[o].mark THEN Go(o, "upgrade") /\ UNCHANGED locks
                                 ELSE Finish(o, "failed")
       ELSE Finish(o, "failed") /\ UNCHANGED files
  /\ UNCHANGED <<commits, committed, copies, wal, others, jobs>>

\* The candidate is migrated, and then gets the smoke write.
Upgrade(o) ==
  /\ At(o, "upgrade")
  /\ LET c == files["candidate"] IN
     IF Migratable(c)
       THEN /\ files' = [files EXCEPT !["candidate"] = Migrated(c)]
            /\ Go(o, "smoke") /\ UNCHANGED locks
       ELSE Finish(o, "failed") /\ UNCHANGED files
  /\ UNCHANGED <<commits, committed, copies, wal, others, jobs>>
Smoke(o) ==
  /\ At(o, "smoke")
  /\ \/ /\ Sound(files["candidate"])
        /\ files' = [files EXCEPT !["candidate"].rows = @ + 1]
        /\ Go(o, "restore") /\ UNCHANGED locks
     \/ Finish(o, "failed") /\ UNCHANGED files
  /\ UNCHANGED <<commits, committed, copies, wal, others, jobs>>

\* restore_database puts the rollback artifact in the place of the candidate.
Rollback(o) ==
  /\ At(o, "restore")
  /\ IF Sound(files["rollback"])
       THEN /\ files' = [files EXCEPT !["candidate"] = files["rollback"]]
            /\ Go(o, "compare") /\ UNCHANGED locks
       ELSE Finish(o, "failed") /\ UNCHANGED files
  /\ UNCHANGED <<commits, committed, copies, wal, others, jobs>>

\* The restored candidate is compared with the source fingerprint; then the
\* source is read once more, from tmp on.
RollbackCompare(o) ==
  /\ At(o, "compare")
  /\ IF files["candidate"] = op[o].mark
       THEN op' = [op EXCEPT ![o].pc = "last", ![o].tmp = files["live"]] /\ UNCHANGED locks
       ELSE Finish(o, "failed")
  /\ wal' \in ReaderLog
  /\ UNCHANGED <<content, copies, others, jobs>>

\* Mutant: the source is read once more and not compared.
UnchangedAssumed(o) ==
  /\ At(o, "last")
  /\ Finish(o, "ok")
  /\ UNCHANGED <<content, copies, wal, others, jobs>>
Unchanged(o) ==
  /\ At(o, "last")
  /\ \E d \in Digests(o) : Finish(o, IF d = op[o].mark THEN "ok" ELSE "failed")
  /\ UNCHANGED <<content, copies, wal, others, jobs>>

\* rehearse_latest_backup: live is counted before the backup is restored to a
\* temporary directory.
Count(o) ==
  /\ At(o, "count")
  /\ IF files["live"] = NoFile \/ files["live"].torn THEN Finish(o, "failed")
     ELSE /\ op' = [op EXCEPT ![o].pc = "drill", ![o].rows = files["live"].rows]
          /\ UNCHANGED locks
  /\ wal' \in ReaderLog
  /\ UNCHANGED <<content, copies, others, jobs>>
Near(m, n) == m <= n + Tolerance /\ n <= m + Tolerance
Drill(o) ==
  /\ At(o, "drill")
  /\ Finish(o, IF Sound(files["backup"]) /\ Near(op[o].rows, files["backup"].rows)
                 THEN "ok" ELSE "failed")
  /\ Read("backup")
  /\ UNCHANGED <<content, second, others, jobs>>

\* An operator process dies: the kernel drops its locks, SQLite its transaction.
\* The log of its read-write connection to live stays, with frames or without.
Connected(o) == op[o].pc \in {"migrate", "apply", "ledger", "commit", "patch", "check",
                             "erase", "rebuild"}
OperatorDies(o) ==
  /\ ~At(o, "idle")
  /\ op' = [op EXCEPT ![o] = Idle]
  /\ Unlock(o)
  /\ wal' \in {wal} \cup (IF Connected(o) /\ wal \in {"none", "empty"}
                            THEN {"empty", "operator"} ELSE {})
  /\ UNCHANGED <<content, copies, others, jobs>>

-----------------------------------------------------------------------------
(* The daemon: ServerApplication as the commands see it. *)

DaemonAcquire ==
  /\ daemon = "off" /\ daemonLock = None
  /\ daemon' = "owning" /\ daemonLock' = "daemon"
  /\ UNCHANGED <<content, copies, wal, writerLock, txn, legacy, op, writes, jobs>>

\* It serves version 1 only and releases the lock otherwise.
DaemonOpen ==
  /\ daemon = "owning"
  /\ LET s == files["live"] IN
     IF Readable(s) /\ s.schema = 1
       THEN /\ daemon' = "up" /\ UNCHANGED daemonLock
            /\ wal' = IF wal = "none" THEN "empty" ELSE wal
       ELSE daemon' = "off" /\ daemonLock' = None /\ UNCHANGED wal
  /\ UNCHANGED <<content, copies, writerLock, txn, legacy, op, writes, jobs>>

Write == writes < MaxWrites /\ writes' = writes + 1
DaemonWrite ==
  /\ daemon = "up" /\ txn = None /\ Write
  /\ Becomes([files["live"] EXCEPT !.rows = @ + 1])
  /\ wal' = "daemon"
  /\ UNCHANGED <<copies, locks, daemon, legacy, op, jobs>>

DaemonClose ==
  /\ daemon # "off"
  /\ daemon' = "off" /\ daemonLock' = None
  /\ wal' \in {IF daemon = "up" /\ legacy.pc \in {"off", "probed"} THEN "none" ELSE wal, wal}
  /\ UNCHANGED <<content, copies, writerLock, txn, legacy, op, writes, jobs>>

-----------------------------------------------------------------------------
(* The legacy provider: a version 0 writer in the agent's process. *)

\* What initialize, and before it the start of the MCP server, accept; the
\* version is read through a connection that is closed again.
LegacyMode == Readable(files["live"]) /\ files["live"].schema = 0
LegacyProbe ==
  /\ legacy.pc = "off" /\ LegacyMode
  /\ legacy' = [pc |-> "probed", file |-> "current"]
  /\ UNCHANGED <<content, copies, wal, locks, daemon, op, writes, jobs>>

LegacyOpen ==
  /\ legacy.pc = "probed"
  /\ legacy' = [legacy EXCEPT !.pc = "idle"]
  /\ wal' = IF wal = "none" THEN "empty" ELSE wal
  /\ UNCHANGED <<content, copies, locks, daemon, op, writes, jobs>>

\* A commit of the provider; on a file that was replaced it is lost.
LegacyCommit(s) ==
  /\ txn = None
  /\ IF legacy.file = "current" /\ Sound(files["live"])
       THEN Becomes(s) /\ wal' = IF wal = "daemon" THEN wal ELSE "legacy"
       ELSE UNCHANGED <<content, wal>>

\* memory_write_lock waits for the side file; an add commits the fact and
\* then, in a second transaction, what it supersedes.
LegacyLock ==
  /\ legacy.pc = "idle" /\ writerLock = None
  /\ writerLock' = "legacy" /\ legacy' = [legacy EXCEPT !.pc = "locked"]
  /\ UNCHANGED <<content, copies, wal, daemonLock, txn, daemon, op, writes, jobs>>
LegacyAdd ==
  /\ legacy.pc = "locked" /\ Write
  /\ LegacyCommit([files["live"] EXCEPT !.rows = @ + 1])
  /\ legacy' = [legacy EXCEPT !.pc = "added"]
  /\ UNCHANGED <<copies, locks, daemon, op, jobs>>
LegacySupersede ==
  /\ legacy.pc \in {"locked", "added"}
  /\ \/ legacy.pc = "added" /\ LegacyCommit(files["live"])
     \/ UNCHANGED <<content, wal>>
  /\ legacy' = [legacy EXCEPT !.pc = "idle"] /\ writerLock' = None
  /\ UNCHANGED <<copies, daemonLock, txn, daemon, op, writes, jobs>>

\* update and remove, the vectors and the queue: no lock.
LegacyUpdate ==
  /\ legacy.pc = "idle" /\ Write
  /\ LegacyCommit(files["live"])
  /\ UNCHANGED <<copies, locks, daemon, legacy, op, jobs>>

LegacyClose ==
  /\ legacy.pc # "off"
  /\ legacy' = [pc |-> "off", file |-> "current"]
  /\ writerLock' = IF writerLock = "legacy" THEN None ELSE writerLock
  /\ wal' \in {wal, IF legacy.pc # "probed" /\ legacy.file = "current" /\ daemon # "up"
                      THEN "none" ELSE wal}
  /\ UNCHANGED <<content, copies, daemonLock, txn, daemon, op, writes, jobs>>

-----------------------------------------------------------------------------
CopyStep(o) == \/ CopyVerify(o) \/ CopyStage(o) \/ CopyCopy(o) \/ CopyPublish(o)
               \/ CopyCompare(o)
               \/ \E mode \in {"none", "plain", "sealed"} : Secondary(o, mode)
OperatorStep(o) ==
  \/ LockDaemon(o) \/ LockLegacy(o) \/ CopyStep(o)
  \/ Migrate(o) \/ Apply(o) \/ Ledger(o) \/ Commit(o) \/ Patch(o)
  \/ Verify(o) \/ Erase(o) \/ Rebuild(o)
  \/ Fingerprint(o) \/ FingerprintRead(o) \/ Artifact(o) \/ Upgrade(o) \/ Smoke(o)
  \/ Rollback(o) \/ RollbackCompare(o) \/ Unchanged(o) \/ Count(o) \/ Drill(o)
DaemonStep == DaemonAcquire \/ DaemonOpen \/ DaemonWrite \/ DaemonClose
LegacyStep == \/ LegacyProbe \/ LegacyOpen \/ LegacyLock \/ LegacyAdd
              \/ LegacySupersede \/ LegacyUpdate \/ LegacyClose

Next ==
  \/ \E o \in Operators :
       \/ \E cmd \in Commands, over \in BOOLEAN, target \in 0..1 : Start(o, cmd, over, target)
       \/ OperatorStep(o) \/ OperatorDies(o)
  \/ DaemonStep \/ LegacyStep

Spec == Init /\ [][Next]_vars

-----------------------------------------------------------------------------
(* Properties. *)

\* What is published as a backup, or as its secondary copy, is a whole
\* database that the live path once held, whatever was written, replaced or
\* killed while it was made (_atomic_path_destination).
PublishedComplete ==
  /\ files["backup"] # NoFile => files["backup"] \in committed
  /\ second # NoFile => second.store \in committed

\* The two version records agree and a database that claims version 1 has its
\* shape, wherever a migration is interrupted and whatever is copied from it
\* (migrate: "succeed or roll back together").
LedgerHonest ==
  \A p \in Path : files[p] # NoFile =>
    files[p].schema = files[p].meta /\ Complete(files[p])

\* A command changes the live database only while no daemon serves it and no
\* provider is inside an add, and never replaces it next to a log that holds
\* commits of a daemon, one that crashed included
\* (maintenance_database_lock, _assert_no_destination_sidecars).
LiveChangedAtRest ==
  [][op' # op /\ files'["live"] # files["live"] =>
       /\ daemon # "up" /\ legacy.pc \notin {"locked", "added"}
       /\ \A o \in Operators : op'[o].pc = "counted" /\ op[o].pc = "publish"
                               /\ op[o].dst = "live" => wal # "daemon"]_vars

\* A rehearsal that reports success leaves the candidate and the rollback
\* artifact alike, and both as the live database was while it was read for the
\* last time, although the provider writes without the lock between any two of
\* its steps and another operator may have been killed in a rehearsal before it
\* (rehearse_snapshot: "source snapshot changed during rehearsal").
RehearsalHonest ==
  [][\A o \in Operators : At(o, "last") /\ op'[o].result = "ok" =>
       /\ files'["candidate"] = files'["rollback"]
       /\ files'["candidate"] \in {op[o].tmp, files["live"]}]_vars
=============================================================================
