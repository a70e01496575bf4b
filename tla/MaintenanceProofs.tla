------------------------- MODULE MaintenanceProofs -------------------------
(***************************************************************************)
(* Machine-checked theorems about the operator's commands: the side files, *)
(* what is published as a backup, the version records of every database,   *)
(* and what a rehearsal reports.                                           *)
(***************************************************************************)
EXTENDS Maintenance, TLAPS

-----------------------------------------------------------------------------
(* The inductive invariant                                                 *)

Op == [cmd: Command \cup {None}, target: 0..1, over: BOOLEAN, pc: Step,
       src: Path, dst: Path, rows: Nat, pin: Store \cup {NoFile},
       tmp: Store \cup {NoFile}, mark: Store \cup {NoFile}, result: {None, "ok", "failed"}]

\* The version records agree and claim no more than the shape has.
Honest(s) == s.schema = s.meta /\ Complete(s)

\* The transaction of a migration, step by step, and what a copy carries.
OpInv(r) ==
  /\ r \in Op
  /\ r.pc # "idle" => r.result = None
  /\ r.src \in {"live", "backup"}
  /\ r.pin # NoFile => Honest(r.pin)
  /\ r.pc \in {"apply", "ledger", "commit", "publish"} => r.tmp \in Store
  /\ r.pc = "apply" => r.tmp.schema = 0 /\ r.tmp.meta = 0
  /\ r.pc = "ledger" => r.tmp.shape
  /\ r.pc \in {"commit", "publish"} => Honest(r.tmp)
  /\ r.pc = "publish" => Sound(r.tmp)

\* The steps that write the live database, or the files of a rehearsal.
Alone(r) == \/ r.pc \in {"migrate", "apply", "ledger", "commit", "patch", "erase", "rebuild"}
            \/ r.dst # "backup" /\ r.pc \notin {"idle", "lock_daemon", "lock_legacy"}

\* What operator o relies on: what it copies was committed, it has both side
\* files before it writes the live database, and no daemon writes since it
\* looked for a log.
OpState(o) ==
  /\ Sound(op[o].pin) => op[o].pin \in committed
  /\ op[o].pc = "publish" => op[o].tmp \in committed
  /\ op[o].pc = "idle" => daemonLock # o /\ writerLock # o
  /\ txn = o => op[o].pc \in {"apply", "ledger", "commit"}
  /\ op[o].pc = "lock_legacy" => daemonLock = o
  /\ Alone(op[o]) => daemonLock = o /\ writerLock = o
  /\ op[o].dst = "live" /\ op[o].pc \in {"copy", "publish"} => wal # "daemon"

OpsInv == op \in [Operators -> Op] /\ \A o \in Operators : OpInv(op[o]) /\ OpState(o)

FilesInv ==
  /\ files \in [Path -> Store \cup {NoFile}] /\ files["live"] \in Store
  /\ Honest(files["live"])
  /\ \A p \in Path : files[p] # NoFile => Honest(files[p])
  /\ Sound(files["live"]) => files["live"] \in committed
  /\ files["backup"] # NoFile => files["backup"] \in committed
  /\ second = NoFile \/ second \in [store: Store, sealed: BOOLEAN]
  /\ second # NoFile => second.store \in committed
  /\ commits \in Nat

LockTypes ==
  /\ daemonLock \in Operators \cup {"daemon", None}
  /\ writerLock \in Operators \cup {"legacy", None}
  /\ txn \in Operators \cup {None}

EnvInv ==
  /\ wal \in {"none", "empty", "daemon", "legacy", "operator"} /\ backupLog \in BOOLEAN
  /\ daemon \in {"off", "owning", "up"} /\ (daemon # "off" <=> daemonLock = "daemon")
  /\ legacy \in [pc: {"off", "probed", "idle", "locked", "added"},
                 file: {"current", "replaced"}]
  /\ (legacy.pc \in {"locked", "added"} <=> writerLock = "legacy")
  /\ writes \in 0..MaxWrites /\ jobs \in 0..MaxJobs

IInv == FilesInv /\ LockTypes /\ EnvInv /\ OpsInv

-----------------------------------------------------------------------------
(* The side files                                                          *)

\* A step of operator o leaves what the others hold.
LocksFollow(o) ==
  /\ LockTypes'
  /\ \A u \in (Operators \cup {"daemon", "legacy"}) \ {o} :
       /\ daemonLock' = u <=> daemonLock = u
       /\ writerLock' = u <=> writerLock = u
       /\ txn' = u <=> txn = u

LEMMA LocksSame ==
  ASSUME LockTypes, UNCHANGED locks, NEW o
  PROVE  LocksFollow(o)
  <1>1. daemonLock' = daemonLock /\ writerLock' = writerLock /\ txn' = txn
    BY DEF locks
  <1> QED BY <1>1 DEF LocksFollow, LockTypes

LEMMA UnlockFollow ==
  ASSUME LockTypes, NEW o \in Operators, Unlock(o)
  PROVE  LocksFollow(o) /\ daemonLock' # o /\ writerLock' # o /\ txn' # o
  <1>1. None \notin Operators \cup {"daemon", "legacy"}
    BY MaintenanceAssumption
  <1>2. /\ LockTypes' /\ daemonLock' # o /\ writerLock' # o /\ txn' # o
    BY <1>1 DEF Unlock, LockTypes
  <1>3. ASSUME NEW u \in (Operators \cup {"daemon", "legacy"}) \ {o}
        PROVE  /\ daemonLock' = u <=> daemonLock = u
               /\ writerLock' = u <=> writerLock = u
               /\ txn' = u <=> txn = u
    BY <1>1 DEF Unlock
  <1> QED BY <1>2, <1>3 DEF LocksFollow

-----------------------------------------------------------------------------
(* The commands                                                            *)

\* Operator u is where it was; a file it reads may have been replaced.
Waits(u) ==
  /\ OpInv(op'[u]) /\ op'[u].pc = op[u].pc /\ op'[u].dst = op[u].dst
  /\ op'[u].tmp = op[u].tmp /\ op'[u].result = op[u].result
  /\ Sound(op'[u].pin) => op'[u].pin \in committed'

\* The body of the action property.
ChangedAtRest ==
  op' # op /\ files'["live"] # files["live"] =>
    /\ daemon # "up" /\ legacy.pc \notin {"locked", "added"}
    /\ \A o \in Operators : op'[o].pc = "counted" /\ op[o].pc = "publish"
                            /\ op[o].dst = "live" => wal # "daemon"

\* What every step is shown to do.
Kept == IInv' /\ ChangedAtRest

LEMMA IdleSound ==
  ASSUME NEW result \in {None, "ok", "failed"}, NEW r, r = [Idle EXCEPT !.result = result]
  PROVE  OpInv(r) /\ r.pc = "idle" /\ r.dst = "backup" /\ r.pin = NoFile /\ r.result = result
  <1>1. PICK i : i = Idle
    OBVIOUS
  <1>2. /\ i \in Op /\ i.pc = "idle" /\ i.dst = "backup" /\ i.pin = NoFile /\ i.result = None
        /\ i.src = "live"
    BY <1>1 DEF Idle, Op, Step, Path
  <1>3. r = [i EXCEPT !.result = result]
    BY <1>1
  <1>4. /\ r \in Op /\ r.pc = "idle" /\ r.dst = "backup" /\ r.pin = NoFile /\ r.result = result
        /\ r.src = "live"
    BY <1>2, <1>3 DEF Op
  <1> QED BY <1>4 DEF OpInv

LEMMA OpPut ==
  ASSUME OpsInv, NEW o \in Operators, NEW r, OpInv(r), op' = [op EXCEPT ![o] = r],
         committed \subseteq committed'
  PROVE  /\ op' \in [Operators -> Op] /\ op'[o] = r
         /\ \A u \in Operators \ {o} : Waits(u)
  <1>1. r \in Op
    BY DEF OpInv
  <1>2. op' \in [Operators -> Op] /\ op'[o] = r /\ \A u \in Operators \ {o} : op'[u] = op[u]
    BY <1>1 DEF OpsInv
  <1>3. \A u \in Operators \ {o} : Waits(u)
    BY <1>2 DEF OpsInv, OpState, Waits
  <1> QED BY <1>2, <1>3

\* A step of operator o.
LEMMA OperatorKeeps ==
  ASSUME IInv, NEW o \in Operators, LocksFollow(o), FilesInv',
         op' \in [Operators -> Op], OpInv(op'[o]), OpState(o)',
         \A u \in Operators \ {o} : Waits(u),
         committed \subseteq committed',
         wal' \in {"none", "empty", "daemon", "legacy", "operator"}, wal' = "daemon" => wal = "daemon",
         backupLog' \in BOOLEAN, UNCHANGED <<daemon, writes>>, jobs' \in 0..MaxJobs,
         legacy' \in [pc: {"off", "probed", "idle", "locked", "added"},
                      file: {"current", "replaced"}],
         legacy'.pc = legacy.pc,
         files'["live"] = files["live"] \/ Alone(op[o])
  PROVE  Kept
  <1>1. "daemon" \notin Operators /\ "legacy" \notin Operators /\ None # "ok"
    BY MaintenanceAssumption
  <1>2. EnvInv'
    <2>1. (daemonLock' = "daemon" <=> daemonLock = "daemon") /\ (writerLock' = "legacy" <=> writerLock = "legacy")
      BY <1>1 DEF LocksFollow
    <2> QED BY <2>1 DEF IInv, EnvInv
  <1>3. ASSUME NEW u \in Operators, u # o
        PROVE  OpInv(op[u])' /\ OpState(u)'
    <2>1. /\ daemonLock' = u <=> daemonLock = u
          /\ writerLock' = u <=> writerLock = u
          /\ txn' = u <=> txn = u
      BY <1>3 DEF LocksFollow
    <2>2. Waits(u) /\ OpState(u)
      BY <1>3 DEF IInv, OpsInv
    <2>3. OpInv(op[u])'
      BY <2>2 DEF Waits, OpInv, Sound, Honest, Complete
    <2>4. OpState(u)'
      BY <2>1, <2>2 DEF Waits, OpState, Alone, Sound
    <2> QED BY <2>3, <2>4
  <1>4. OpInv(op[o])'
    BY DEF OpInv, Sound, Honest, Complete
  <1>5. OpsInv'
    BY <1>3, <1>4 DEF OpsInv
  <1>6. IInv'
    BY <1>2, <1>5 DEF IInv, LocksFollow
  <1>7. ChangedAtRest
    <2> SUFFICES ASSUME files'["live"] # files["live"]
                 PROVE  /\ daemon # "up" /\ legacy.pc \notin {"locked", "added"}
                        /\ \A u \in Operators : op[u].pc = "publish" /\ op[u].dst = "live"
                                                  => wal # "daemon"
      BY DEF ChangedAtRest
    <2>1. daemonLock = o /\ writerLock = o
      BY DEF IInv, OpsInv, OpState
    <2> QED BY <1>1, <2>1 DEF IInv, EnvInv, OpsInv, OpState
  <1> QED BY <1>6, <1>7 DEF Kept

\* The ways a command leaves the side log.
LogFollows == wal' \in {"none", "empty", "daemon", "legacy", "operator"} /\ (wal' = "daemon" => wal = "daemon")

LEMMA LogSame ==
  ASSUME EnvInv, wal' = wal
  PROVE  LogFollows
  BY DEF EnvInv, LogFollows

LEMMA LogClosed ==
  ASSUME EnvInv, NEW o, wal' = Checkpointed(o)
  PROVE  LogFollows
  BY DEF EnvInv, LogFollows, Checkpointed

LEMMA LogRead ==
  ASSUME EnvInv, wal' \in ReaderLog
  PROVE  LogFollows
  BY DEF EnvInv, LogFollows, ReaderLog

LEMMA FilesSame ==
  ASSUME FilesInv, UNCHANGED <<content, second>>
  PROVE  FilesInv' /\ committed \subseteq committed' /\ files' = files
  <1>1. files' = files /\ commits' = commits /\ committed' = committed /\ second' = second
    BY DEF content
  <1> QED BY <1>1 DEF FilesInv, Sound, Honest, Complete

\* The command of o ends.
LEMMA FinishKeeps ==
  ASSUME IInv, NEW o \in Operators, NEW result \in {None, "ok", "failed"},
         op' = [op EXCEPT ![o] = [Idle EXCEPT !.result = result]], Unlock(o),
         FilesInv', committed \subseteq committed', LogFollows, backupLog' \in BOOLEAN,
         UNCHANGED <<others, jobs>>, files'["live"] = files["live"] \/ Alone(op[o])
  PROVE  Kept
  <1>1. PICK r : r = [Idle EXCEPT !.result = result]
    OBVIOUS
  <1>2. OpInv(r) /\ r.pc = "idle" /\ r.dst = "backup" /\ r.pin = NoFile /\ r.result = result
    BY <1>1, IdleSound
  <1>3. op' \in [Operators -> Op] /\ op'[o] = r /\ \A u \in Operators \ {o} : Waits(u)
    BY <1>1, <1>2, OpPut DEF IInv
  <1>4. LocksFollow(o) /\ daemonLock' # o /\ writerLock' # o /\ txn' # o
    BY UnlockFollow DEF IInv
  <1>5. OpState(o)'
    BY <1>2, <1>3, <1>4 DEF OpState, Alone, Sound
  <1>6. UNCHANGED <<daemon, writes>> /\ jobs' \in 0..MaxJobs /\ legacy' = legacy
    BY DEF others, IInv, EnvInv
  <1>7. /\ legacy' \in [pc: {"off", "probed", "idle", "locked", "added"},
                        file: {"current", "replaced"}]
        /\ legacy'.pc = legacy.pc
    BY <1>6 DEF IInv, EnvInv
  <1> QED BY <1>2, <1>3, <1>4, <1>5, <1>6, <1>7, OperatorKeeps DEF LogFollows

\* The command of o goes on to r, with the locks it has.
LEMMA GoKeeps ==
  ASSUME IInv, NEW o \in Operators, NEW r, OpInv(r), op' = [op EXCEPT ![o] = r],
         r.pc \notin {"idle", "lock_legacy"}, Alone(r) => Alone(op[o]),
         r.pin = op[o].pin, r.pc = "publish" => r.tmp \in committed,
         r.dst = "live" /\ r.pc \in {"copy", "publish"} => wal # "daemon",
         daemonLock' = daemonLock, writerLock' = writerLock, txn' \in Operators \cup {None},
         \A u \in Operators \ {o} : txn' = u <=> txn = u,
         txn' = o => r.pc \in {"apply", "ledger", "commit"},
         FilesInv', committed \subseteq committed', LogFollows, backupLog' \in BOOLEAN,
         UNCHANGED <<others, jobs>>, files'["live"] = files["live"] \/ Alone(op[o])
  PROVE  Kept
  <1>1. op' \in [Operators -> Op] /\ op'[o] = r /\ \A u \in Operators \ {o} : Waits(u)
    BY OpPut DEF IInv
  <1>2. LocksFollow(o)
    <2>1. LockTypes'
      BY DEF IInv, LockTypes
    <2>2. txn' \notin {"daemon", "legacy"} /\ txn \notin {"daemon", "legacy"}
      BY MaintenanceAssumption DEF IInv, LockTypes
    <2> QED BY <2>1, <2>2 DEF LocksFollow
  <1>3. OpState(o)'
    <2>1. OpState(o)
      BY DEF IInv, OpsInv
    <2>2. Sound(op'[o].pin) => op'[o].pin \in committed'
      BY <1>1, <2>1 DEF OpState
    <2>3. Alone(op'[o]) => daemonLock' = o /\ writerLock' = o
      BY <1>1, <2>1 DEF OpState
    <2>4. op'[o].dst = "live" /\ op'[o].pc \in {"copy", "publish"} => wal' # "daemon"
      BY <1>1 DEF LogFollows
    <2> QED BY <1>1, <2>2, <2>3, <2>4 DEF OpState, Alone, Sound
  <1>4. UNCHANGED <<daemon, writes>> /\ jobs' \in 0..MaxJobs /\ legacy' = legacy
    BY DEF others, IInv, EnvInv
  <1>5. /\ legacy' \in [pc: {"off", "probed", "idle", "locked", "added"},
                        file: {"current", "replaced"}]
        /\ legacy'.pc = legacy.pc
    BY <1>4 DEF IInv, EnvInv
  <1> QED BY <1>1, <1>2, <1>3, <1>4, <1>5, OperatorKeeps DEF LogFollows

\* What Finish and Unlock leave, for a step that leaves the files alone.
LEMMA QuietFinish ==
  ASSUME IInv, NEW o \in Operators, NEW result \in {"ok", "failed"}, Finish(o, result),
         UNCHANGED <<content, second, others, jobs>>, LogFollows, backupLog' \in BOOLEAN
  PROVE  Kept
  <1>1. FilesInv' /\ committed \subseteq committed' /\ files' = files
    BY FilesSame DEF IInv
  <1>2. op' = [op EXCEPT ![o] = [Idle EXCEPT !.result = result]] /\ Unlock(o) /\ UNCHANGED <<others, jobs>>
    BY DEF Finish
  <1> QED BY <1>1, <1>2, FinishKeeps

\* A command that goes on and leaves files and locks alone.
LEMMA QuietGo ==
  ASSUME IInv, NEW o \in Operators, NEW r, OpInv(r), op' = [op EXCEPT ![o] = r],
         r.pc \notin {"idle", "lock_legacy"}, Alone(r) => Alone(op[o]),
         op[o].pc \notin {"apply", "ledger", "commit"} \/ r.pc \in {"apply", "ledger", "commit"},
         r.pin = op[o].pin, r.pc = "publish" => r.tmp \in committed,
         r.dst = "live" /\ r.pc \in {"copy", "publish"} => wal # "daemon",
         UNCHANGED locks, UNCHANGED <<content, second, others, jobs>>, LogFollows,
         backupLog' \in BOOLEAN
  PROVE  Kept
  <1>1. FilesInv' /\ committed \subseteq committed' /\ files' = files
    BY FilesSame DEF IInv
  <1>2. /\ daemonLock' = daemonLock /\ writerLock' = writerLock /\ txn' \in Operators \cup {None}
        /\ \A u \in Operators \ {o} : txn' = u <=> txn = u
        /\ txn' = o => r.pc \in {"apply", "ledger", "commit"}
    BY DEF locks, IInv, LockTypes, OpsInv, OpState
  <1>3. UNCHANGED <<others, jobs>>
    OBVIOUS
  <1> QED BY <1>1, <1>2, <1>3, GoKeeps

LEMMA GoIs ==
  ASSUME OpsInv, NEW o \in Operators, op[o].pc # "idle",
         NEW pc \in Step \ {"idle", "apply", "ledger", "commit", "publish"}, Go(o, pc)
  PROVE  \E r : /\ OpInv(r) /\ op' = [op EXCEPT ![o] = r] /\ r.pc = pc
                /\ r.dst = op[o].dst /\ r.pin = op[o].pin
  <1>1. PICK v : v = op[o] /\ v \in Op /\ OpInv(v)
    BY DEF OpsInv
  <1>2. PICK r : r = [v EXCEPT !.pc = pc]
    OBVIOUS
  <1>3. /\ r \in Op /\ r.pc = pc /\ r.dst = v.dst /\ r.pin = v.pin /\ r.src = v.src
        /\ r.result = v.result
    BY <1>1, <1>2 DEF Op
  <1>4. OpInv(r)
    BY <1>1, <1>3 DEF OpInv
  <1>5. op' = [op EXCEPT ![o] = r]
    BY <1>1, <1>2 DEF Go
  <1> QED BY <1>1, <1>3, <1>4, <1>5

-----------------------------------------------------------------------------
(* Starting and locking                                                    *)

LEMMA StartKeeps ==
  ASSUME IInv, NEW o \in Operators, NEW cmd \in Commands, NEW over \in BOOLEAN,
         NEW target \in 0..1, Start(o, cmd, over, target)
  PROVE  Kept
  <1>1. PICK pc, src, dst :
          /\ pc = IF cmd \in Unlocked THEN FirstStep(cmd) ELSE "lock_daemon"
          /\ src = IF cmd = "restore" THEN "backup" ELSE "live"
          /\ dst = CASE cmd = "restore" -> "live" [] cmd = "rehearse" -> "candidate"
                     [] OTHER -> "backup"
    OBVIOUS
  <1>2. /\ pc \in {"lock_daemon", "verify", "count"} /\ src \in {"live", "backup"}
        /\ dst \in {"live", "candidate", "backup"} /\ (dst # "backup" => pc = "lock_daemon")
        /\ cmd \in Command
    <2>1. cmd \in {"backup", "drill"} => pc \in {"verify", "count"}
      BY <1>1 DEF FirstStep, Unlocked
    <2>2. cmd \notin {"backup", "drill"} => pc = "lock_daemon"
      BY <1>1 DEF Unlocked
    <2>3. dst \in {"live", "candidate", "backup"} /\ (dst # "backup" => cmd \in {"restore", "rehearse"})
      BY <1>1
    <2> QED BY <1>1, <2>1, <2>2, <2>3, MaintenanceAssumption
  <1>3. PICK i, r : /\ i = Idle
                    /\ r = [i EXCEPT !.cmd = cmd, !.over = over, !.target = target,
                                     !.pc = pc, !.src = src, !.dst = dst]
    OBVIOUS
  <1>4. i \in Op /\ i.result = None /\ i.pin = NoFile
    BY <1>3 DEF Idle, Op, Step, Path
  <1>5. /\ r \in Op /\ r.result = None /\ r.pin = NoFile /\ r.pc = pc /\ r.src = src /\ r.dst = dst
    <2>1. pc \in Step /\ src \in Path /\ dst \in Path /\ cmd \in Command \cup {None}
      BY <1>2 DEF Step, Path
    <2> QED BY ZenonT(60), <1>3, <1>4, <2>1 DEF Op
  <1>6. OpInv(r)
    BY <1>2, <1>5 DEF OpInv
  <1>7. op' = [op EXCEPT ![o] = r]
    BY <1>1, <1>3 DEF Start
  <1>8. FilesInv' /\ committed \subseteq committed' /\ files' = files
    BY FilesSame DEF IInv, Start, copies
  <1>9. op' \in [Operators -> Op] /\ op'[o] = r /\ \A u \in Operators \ {o} : Waits(u)
    BY <1>6, <1>7, <1>8, OpPut DEF IInv
  <1>10. LocksFollow(o)
    BY LocksSame DEF IInv, Start
  <1>11. OpState(o)'
    <2>1. txn' # o
      BY DEF Start, At, IInv, OpsInv, OpState, locks
    <2> QED BY <1>2, <1>5, <1>9, <2>1 DEF OpState, Alone, Sound
  <1>12. /\ wal' = wal /\ backupLog' = backupLog /\ daemon' = daemon /\ legacy' = legacy
         /\ writes' = writes /\ jobs' \in 0..MaxJobs
    BY MaintenanceAssumption DEF Start, others, copies, IInv, EnvInv
  <1>14. /\ wal' \in {"none", "empty", "daemon", "legacy", "operator"} /\ (wal' = "daemon" => wal = "daemon")
         /\ backupLog' \in BOOLEAN /\ legacy'.pc = legacy.pc
         /\ legacy' \in [pc: {"off", "probed", "idle", "locked", "added"},
                         file: {"current", "replaced"}]
    BY <1>12 DEF IInv, EnvInv
  <1> QED BY <1>6, <1>8, <1>9, <1>10, <1>11, <1>12, <1>14, OperatorKeeps

LEMMA LockDaemonKeeps ==
  ASSUME IInv, NEW o \in Operators, LockDaemon(o)
  PROVE  Kept
  <1>1. /\ UNCHANGED <<content, second, others, jobs>> /\ wal' = wal /\ backupLog' = backupLog
        /\ op[o].pc = "lock_daemon" /\ LogFollows /\ backupLog' \in BOOLEAN
    BY LogSame DEF LockDaemon, At, copies, IInv, EnvInv
  <1>2. CASE Finish(o, "failed")
    BY <1>1, <1>2, QuietFinish
  <1>3. CASE daemonLock = None /\ daemonLock' = o /\ Go(o, "lock_legacy") /\ UNCHANGED <<writerLock, txn>>
    <2>1. PICK r : /\ OpInv(r) /\ op' = [op EXCEPT ![o] = r] /\ r.pc = "lock_legacy"
                   /\ r.dst = op[o].dst /\ r.pin = op[o].pin
      BY <1>1, <1>3, GoIs DEF IInv, Step
    <2>2. FilesInv' /\ committed \subseteq committed' /\ files' = files
      BY <1>1, FilesSame DEF IInv
    <2>3. op' \in [Operators -> Op] /\ op'[o] = r /\ \A u \in Operators \ {o} : Waits(u)
      BY <2>1, <2>2, OpPut DEF IInv
    <2>4. LocksFollow(o)
      BY <1>3, MaintenanceAssumption DEF LocksFollow, IInv, LockTypes
    <2>5. OpState(o)'
      <3>1. OpState(o)
        BY DEF IInv, OpsInv
      <3> QED BY <1>1, <1>3, <2>1, <2>2, <2>3, <3>1 DEF OpState, Alone, Sound
    <2>6. /\ daemon' = daemon /\ legacy' = legacy /\ writes' = writes /\ jobs' \in 0..MaxJobs
          /\ legacy' \in [pc: {"off", "probed", "idle", "locked", "added"},
                          file: {"current", "replaced"}]
      BY <1>1 DEF others, IInv, EnvInv
    <2>7. OpInv(op'[o])
      BY <1>1, <2>1, <2>3
    <2> QED BY <1>1, <2>2, <2>3, <2>4, <2>5, <2>6, <2>7, OperatorKeeps DEF LogFollows
  <1> QED BY <1>2, <1>3 DEF LockDaemon

LEMMA LockLegacyKeeps ==
  ASSUME IInv, NEW o \in Operators, LockLegacy(o)
  PROVE  Kept
  <1>1. /\ UNCHANGED <<content, second, others, jobs>> /\ wal' = wal /\ backupLog' = backupLog
        /\ op[o].pc = "lock_legacy" /\ LogFollows /\ backupLog' \in BOOLEAN
    BY LogSame DEF LockLegacy, At, copies, IInv, EnvInv
  <1>2. CASE Finish(o, "failed")
    BY <1>1, <1>2, QuietFinish
  <1>3. CASE /\ writerLock = None /\ writerLock' = o /\ Go(o, FirstStep(op[o].cmd))
             /\ UNCHANGED <<daemonLock, txn>>
    <2>0. PICK pc : pc = FirstStep(op[o].cmd)
      OBVIOUS
    <2>1. /\ pc \in {"migrate", "check", "erase", "rebuild", "fingerprint", "count", "verify"}
          /\ pc \in Step \ {"idle", "apply", "ledger", "commit", "publish"}
      BY <2>0 DEF FirstStep, Step
    <2>2. PICK r : /\ OpInv(r) /\ op' = [op EXCEPT ![o] = r] /\ r.pc = pc
                   /\ r.dst = op[o].dst /\ r.pin = op[o].pin
      BY <1>1, <1>3, <2>0, <2>1, GoIs DEF IInv
    <2>3. FilesInv' /\ committed \subseteq committed' /\ files' = files
      BY <1>1, FilesSame DEF IInv
    <2>4. op' \in [Operators -> Op] /\ op'[o] = r /\ \A u \in Operators \ {o} : Waits(u)
      BY <2>2, <2>3, OpPut DEF IInv
    <2>5. LocksFollow(o)
      BY <1>3, MaintenanceAssumption DEF LocksFollow, IInv, LockTypes
    <2>6. OpState(o)'
      <3>1. OpState(o)
        BY DEF IInv, OpsInv
      <3>2. daemonLock' = o /\ writerLock' = o
        BY <1>1, <1>3, <3>1 DEF OpState
      <3> QED BY <1>1, <1>3, <2>1, <2>2, <2>3, <2>4, <3>1, <3>2 DEF OpState, Alone, Sound
    <2>7. /\ daemon' = daemon /\ legacy' = legacy /\ writes' = writes /\ jobs' \in 0..MaxJobs
          /\ legacy' \in [pc: {"off", "probed", "idle", "locked", "added"},
                          file: {"current", "replaced"}]
      BY <1>1 DEF others, IInv, EnvInv
    <2>8. OpInv(op'[o])
      BY <1>1, <2>2, <2>4
    <2> QED BY <1>1, <2>3, <2>4, <2>5, <2>6, <2>7, <2>8, OperatorKeeps DEF LogFollows
  <1> QED BY <1>2, <1>3 DEF LockLegacy

LEMMA DiesKeeps ==
  ASSUME IInv, NEW o \in Operators, OperatorDies(o)
  PROVE  Kept
  <1>1. /\ UNCHANGED <<content, second>> /\ UNCHANGED <<others, jobs>>
        /\ backupLog' = backupLog /\ LogFollows /\ backupLog' \in BOOLEAN /\ Unlock(o)
    BY DEF OperatorDies, copies, IInv, EnvInv, LogFollows
  <1>2. FilesInv' /\ committed \subseteq committed' /\ files' = files
    BY <1>1, FilesSame DEF IInv
  <1>3. op' = [op EXCEPT ![o] = [Idle EXCEPT !.result = None]]
    <2>1. PICK i : i = Idle
      OBVIOUS
    <2>2. i \in Op /\ i.result = None
      BY <2>1 DEF Idle, Op, Step, Path
    <2>3. [i EXCEPT !.result = None] = i
      BY <2>2 DEF Op
    <2> QED BY <2>1, <2>3 DEF OperatorDies
  <1> QED BY <1>1, <1>2, <1>3, FinishKeeps

-----------------------------------------------------------------------------
(* Copying                                                                 *)

LEMMA ReadFollows ==
  ASSUME EnvInv, NEW path, Read(path)
  PROVE  LogFollows /\ backupLog' \in BOOLEAN
  <1>1. CASE path = "live"
    BY <1>1, LogRead DEF Read, EnvInv
  <1>2. CASE path # "live"
    BY <1>2, LogSame DEF Read, EnvInv
  <1> QED BY <1>1, <1>2

\* What a copy reads of a sound source was committed.
LEMMA SourceSound ==
  ASSUME FilesInv, NEW path \in {"live", "backup"}, Sound(files[path])
  PROVE  files[path] \in Store /\ Honest(files[path]) /\ files[path] \in committed
  BY DEF FilesInv, Sound, Path

LEMMA CopyVerifyKeeps ==
  ASSUME IInv, NEW o \in Operators, CopyVerify(o)
  PROVE  Kept
  <1>1. PICK v, s : v = op[o] /\ v \in Op /\ OpInv(v) /\ v.pc = "verify" /\ s = files[v.src]
    BY DEF IInv, OpsInv, CopyVerify, At
  <1>2. UNCHANGED <<content, second, others, jobs>> /\ LogFollows /\ backupLog' \in BOOLEAN
    BY ReadFollows DEF CopyVerify, IInv
  <1>3. CASE Finish(o, "failed")
    BY <1>2, <1>3, QuietFinish
  <1>4. CASE /\ Sound(s) /\ op' = [op EXCEPT ![o].pc = "stage", ![o].rows = s.rows]
             /\ UNCHANGED locks
    <2>1. s.rows \in Nat
      <3>1. s \in Store
        BY <1>1, <1>4, SourceSound DEF IInv, OpInv
      <3> QED BY <3>1 DEF Store
    <2>2. PICK r : r = [v EXCEPT !.pc = "stage", !.rows = s.rows]
      OBVIOUS
    <2>3. /\ r \in Op /\ r.pc = "stage" /\ r.dst = v.dst /\ r.pin = v.pin /\ r.src = v.src
          /\ r.result = v.result
      BY ZenonT(60), <1>1, <2>1, <2>2 DEF Op, Step
    <2>4. OpInv(r)
      BY <1>1, <2>3 DEF OpInv
    <2>5. op' = [op EXCEPT ![o] = r]
      BY <1>1, <1>4, <2>2
    <2>6. Alone(r) => Alone(op[o])
      BY <1>1, <2>3 DEF Alone
    <2> QED BY <1>1, <1>2, <1>4, <2>3, <2>4, <2>5, <2>6, QuietGo
  <1> QED BY <1>1, <1>3, <1>4 DEF CopyVerify

LEMMA CopyStageKeeps ==
  ASSUME IInv, NEW o \in Operators, CopyStage(o)
  PROVE  Kept
  <1>1. /\ UNCHANGED <<content, second, others, jobs>> /\ LogFollows /\ backupLog' \in BOOLEAN
        /\ op[o].pc = "stage"
    BY LogSame DEF CopyStage, IInv, EnvInv, At, copies
  <1>2. CASE Finish(o, "failed")
    BY <1>1, <1>2, QuietFinish
  <1>3. CASE (op[o].dst = "live" => wal = "none") /\ Go(o, "copy") /\ UNCHANGED locks
    <2>1. PICK r : /\ OpInv(r) /\ op' = [op EXCEPT ![o] = r] /\ r.pc = "copy"
                   /\ r.dst = op[o].dst /\ r.pin = op[o].pin
      BY <1>1, <1>3, GoIs DEF IInv, Step
    <2>2. Alone(r) => Alone(op[o])
      BY <1>1, <2>1 DEF Alone
    <2>3. r.dst = "live" => wal # "daemon"
      BY <1>3, <2>1
    <2> QED BY <1>1, <1>3, <2>1, <2>2, <2>3, QuietGo
  <1> QED BY <1>2, <1>3 DEF CopyStage

LEMMA CopyCopyKeeps ==
  ASSUME IInv, NEW o \in Operators, CopyCopy(o)
  PROVE  Kept
  <1>1. PICK v, s : v = op[o] /\ v \in Op /\ OpInv(v) /\ v.pc = "copy" /\ s = Source(o)
    BY DEF IInv, OpsInv, CopyCopy, At
  <1>2. /\ UNCHANGED <<content, second, others, jobs>> /\ LogFollows /\ backupLog' \in BOOLEAN
    BY LogSame DEF CopyCopy, IInv, EnvInv, copies
  <1>3. CASE Finish(o, "failed")
    BY <1>1, <1>2, <1>3, QuietFinish
  <1>4. CASE /\ Sound(s) /\ op' = [op EXCEPT ![o].pc = "publish", ![o].tmp = s]
             /\ UNCHANGED locks
    <2>1. s \in Store /\ Honest(s) /\ s \in committed
      <3>1. CASE v.pin # NoFile
        <4>1. s = v.pin
          BY <1>1, <3>1 DEF Source
        <4>2. OpState(o)
          BY DEF IInv, OpsInv
        <4> QED BY <1>1, <1>4, <3>1, <4>1, <4>2 DEF OpInv, Op, OpState
      <3>2. CASE v.pin = NoFile
        <4>1. s = files[v.src] /\ v.src \in {"live", "backup"}
          BY <1>1, <3>2 DEF Source, OpInv
        <4> QED BY <1>4, <4>1, SourceSound DEF IInv
      <3> QED BY <3>1, <3>2
    <2>2. PICK r : r = [v EXCEPT !.pc = "publish", !.tmp = s]
      OBVIOUS
    <2>3. /\ r \in Op /\ r.pc = "publish" /\ r.dst = v.dst /\ r.pin = v.pin /\ r.src = v.src
          /\ r.result = v.result /\ r.tmp = s
      BY <1>1, <2>1, <2>2 DEF Op, Step
    <2>4. OpInv(r)
      BY <1>1, <1>4, <2>1, <2>3 DEF OpInv
    <2>5. op' = [op EXCEPT ![o] = r]
      BY <1>1, <1>4, <2>2
    <2>6. Alone(r) => Alone(op[o])
      BY <1>1, <2>3 DEF Alone
    <2>7. r.dst = "live" => wal # "daemon"
      BY <1>1, <2>3 DEF IInv, OpsInv, OpState
    <2> QED BY <1>1, <1>2, <1>4, <2>1, <2>3, <2>4, <2>5, <2>6, <2>7, QuietGo
  <1> QED BY <1>1, <1>3, <1>4 DEF CopyCopy

LEMMA CopyCompareKeeps ==
  ASSUME IInv, NEW o \in Operators, CopyCompare(o)
  PROVE  Kept
  <1>1. /\ UNCHANGED <<content, second, others, jobs>> /\ LogFollows /\ backupLog' \in BOOLEAN
        /\ op[o].pc = "counted"
    BY LogSame DEF CopyCompare, IInv, EnvInv, At, copies
  <1>2. CASE Finish(o, "failed") \/ Finish(o, "ok")
    BY <1>1, <1>2, QuietFinish
  <1>3. ASSUME NEW pc \in {"second", "artifact"}, Go(o, pc), UNCHANGED locks
        PROVE  Kept
    <2>1. PICK r : /\ OpInv(r) /\ op' = [op EXCEPT ![o] = r] /\ r.pc = pc
                   /\ r.dst = op[o].dst /\ r.pin = op[o].pin
      BY <1>1, <1>3, GoIs DEF IInv, Step
    <2>2. Alone(r) => Alone(op[o])
      BY <1>1, <2>1 DEF Alone
    <2>3. r.pc \notin {"idle", "lock_legacy", "copy", "publish"}
      BY <2>1
    <2> QED BY <1>1, <1>3, <2>1, <2>2, <2>3, QuietGo
  <1>4. \/ Finish(o, "failed") \/ Finish(o, "ok")
        \/ \E pc \in {"second", "artifact"} : Go(o, pc) /\ UNCHANGED locks
    BY DEF CopyCompare
  <1> QED BY <1>2, <1>3, <1>4

LEMMA SecondaryKeeps ==
  ASSUME IInv, NEW o \in Operators, NEW mode, Secondary(o, mode)
  PROVE  Kept
  <1>1. /\ UNCHANGED <<others, jobs>> /\ LogFollows /\ backupLog' \in BOOLEAN
        /\ op[o].pc = "second" /\ Unlock(o)
        /\ op' = [op EXCEPT ![o] = [Idle EXCEPT !.result = "ok"]]
    BY LogSame DEF Secondary, IInv, EnvInv, At, Finish
  <1>2. files' = files /\ committed' = committed /\ commits' = commits
    BY DEF Secondary, content
  <1>3. \/ second' = second
        \/ /\ files["backup"] # NoFile
           /\ second' = [store |-> files["backup"], sealed |-> mode = "sealed"]
    BY DEF Secondary
  <1>4. /\ second' = NoFile \/ second' \in [store: Store, sealed: BOOLEAN]
        /\ second' # NoFile => second'.store \in committed
    <2>1. CASE second' = second
      BY <2>1 DEF IInv, FilesInv
    <2>2. CASE /\ files["backup"] # NoFile
               /\ second' = [store |-> files["backup"], sealed |-> mode = "sealed"]
      <3>1. files["backup"] \in Store /\ files["backup"] \in committed
        BY <2>2 DEF IInv, FilesInv, Path
      <3>2. (mode = "sealed") \in BOOLEAN
        OBVIOUS
      <3> QED BY <2>2, <3>1, <3>2
    <2> QED BY <1>3, <2>1, <2>2
  <1>5. FilesInv'
    BY <1>2, <1>4 DEF IInv, FilesInv, Sound, Honest, Complete
  <1> QED BY <1>1, <1>2, <1>5, FinishKeeps

\* The published file, in place of what had its name.
LEMMA PublishedFollow ==
  ASSUME FilesInv, EnvInv, NEW o, NEW path \in Path, NEW s \in Store, Honest(s), Sound(s),
         s \in committed, Published(o, path, s), UNCHANGED <<commits, second>>
  PROVE  /\ FilesInv' /\ committed \subseteq committed'
         /\ files'["live"] = files["live"] \/ path = "live"
         /\ legacy' \in [pc: {"off", "probed", "idle", "locked", "added"},
                         file: {"current", "replaced"}]
         /\ legacy'.pc = legacy.pc
  <1>1. PICK b \in BOOLEAN : b = (path = "live" /\ wal \notin {"none", "empty"})
    OBVIOUS
  <1>2. PICK z : z = [s EXCEPT !.torn = b]
    OBVIOUS
  <1>3. /\ files' = [files EXCEPT ![path] = z]
        /\ committed' = committed \cup (IF path = "live" /\ Sound(z) THEN {z} ELSE {})
        /\ legacy' = IF path = "live" /\ legacy.pc \notin {"off", "probed"}
                       THEN [legacy EXCEPT !.file = "replaced"] ELSE legacy
    BY <1>1, <1>2 DEF Published
  <1>4. z \in Store /\ z.schema = s.schema /\ z.meta = s.meta /\ z.shape = s.shape
    BY <1>2 DEF Store
  <1>5. Honest(z)
    BY <1>4 DEF Honest, Complete
  <1>6. ~b => z = s
    BY <1>2 DEF Sound, Store
  <1>7. /\ files' \in [Path -> Store \cup {NoFile}] /\ files'[path] = z
        /\ \A p \in Path : p # path => files'[p] = files[p]
    BY <1>3, <1>4 DEF FilesInv
  <1>8. committed \subseteq committed' /\ (path = "live" /\ Sound(z) => z \in committed')
    BY <1>3
  <1>9. "live" \in Path /\ "backup" \in Path
    BY DEF Path
  <1>10. path # "live" => z \in committed
    BY <1>1, <1>6
  <1>11. \A p \in Path : files'[p] # NoFile => Honest(files'[p])
    BY <1>5, <1>7 DEF FilesInv
  <1>12. FilesInv'
    <2>1. /\ files'["live"] \in Store /\ Honest(files'["live"])
          /\ (Sound(files'["live"]) => files'["live"] \in committed')
      BY <1>4, <1>5, <1>7, <1>8, <1>9 DEF FilesInv
    <2>2. files'["backup"] # NoFile => files'["backup"] \in committed'
      BY <1>7, <1>8, <1>9, <1>10 DEF FilesInv
    <2>3. second' = second /\ commits' = commits
      OBVIOUS
    <2> QED BY <1>7, <1>8, <1>11, <2>1, <2>2, <2>3 DEF FilesInv, Sound, Honest, Complete
  <1>13. /\ legacy' \in [pc: {"off", "probed", "idle", "locked", "added"},
                         file: {"current", "replaced"}]
         /\ legacy'.pc = legacy.pc
    BY <1>3 DEF EnvInv
  <1> QED BY <1>7, <1>8, <1>9, <1>12, <1>13

LEMMA CopyPublishKeeps ==
  ASSUME IInv, NEW o \in Operators, CopyPublish(o)
  PROVE  Kept
  <1>1. PICK v : v = op[o] /\ v \in Op /\ OpInv(v) /\ v.pc = "publish"
    BY DEF IInv, OpsInv, CopyPublish, At
  <1>2. /\ UNCHANGED <<commits, second>> /\ UNCHANGED <<daemon, writes>> /\ jobs' = jobs
        /\ LogFollows /\ backupLog' \in BOOLEAN
    BY LogSame DEF CopyPublish, copies, IInv, EnvInv
  <1>3. CASE Finish(o, "failed") /\ UNCHANGED <<files, committed, legacy>>
    <2>1. UNCHANGED <<content, second, others, jobs>>
      BY <1>2, <1>3 DEF content, others
    <2> QED BY <1>1, <1>2, <1>3, <2>1, QuietFinish
  <1>4. CASE /\ Published(o, v.dst, v.tmp)
             /\ op' = [Replaced(o, v.dst) EXCEPT ![o].pc = "counted"] /\ UNCHANGED locks
    <2>1. OpState(o) /\ v.dst \in Path /\ v.tmp \in Store /\ Honest(v.tmp) /\ Sound(v.tmp)
          /\ v.tmp \in committed
      BY <1>1 DEF IInv, OpsInv, OpInv, OpState, Op
    <2>2. /\ FilesInv' /\ committed \subseteq committed'
          /\ files'["live"] = files["live"] \/ v.dst = "live"
          /\ legacy' \in [pc: {"off", "probed", "idle", "locked", "added"},
                          file: {"current", "replaced"}]
          /\ legacy'.pc = legacy.pc
      BY <1>2, <1>4, <2>1, PublishedFollow DEF IInv
    <2>3. PICK rep : rep = Replaced(o, v.dst)
      OBVIOUS
    <2>4. rep[o] = v
      BY <1>1, <2>3 DEF Replaced
    <2>5. PICK r : r = [v EXCEPT !.pc = "counted"]
      OBVIOUS
    <2>6. /\ r \in Op /\ r.pc = "counted" /\ r.dst = v.dst /\ r.pin = v.pin /\ r.src = v.src
          /\ r.result = v.result
      BY <1>1, <2>5 DEF Op, Step
    <2>7. OpInv(r)
      BY <1>1, <2>6 DEF OpInv
    <2>8. op' = [rep EXCEPT ![o] = r]
      BY <1>4, <2>3, <2>4, <2>5
    <2>9. ASSUME NEW u \in Operators, u # o
          PROVE  rep[u] \in Op /\ (op'[u] = rep[u] => Waits(u))
      <3>1. PICK w : w = op[u] /\ w \in Op /\ OpInv(w) /\ OpState(u)
        BY DEF IInv, OpsInv
      <3>2. CASE rep[u] = op[u]
        BY <2>2, <3>1, <3>2 DEF Waits, OpState
      <3>3. CASE w.src = v.dst /\ rep[u] = [w EXCEPT !.pin = files[v.dst]]
        <4>1. PICK f, x : f = files[v.dst] /\ x = [w EXCEPT !.pin = f]
          OBVIOUS
        <4>2. /\ f \in Store \cup {NoFile} /\ (f # NoFile => Honest(f))
              /\ (Sound(f) => f \in committed)
          <5>1. v.dst \in {"live", "backup"}
            BY <3>1, <3>3 DEF OpInv
          <5> QED BY <2>1, <4>1, <5>1, SourceSound DEF IInv, FilesInv
        <4>3. /\ x \in Op /\ x.pin = f /\ x.pc = w.pc /\ x.dst = w.dst /\ x.tmp = w.tmp
              /\ x.result = w.result /\ x.src = w.src
          BY <3>1, <4>1, <4>2 DEF Op
        <4>4. OpInv(x)
          BY <3>1, <4>2, <4>3 DEF OpInv
        <4> QED BY ZenonT(60), <2>2, <3>1, <3>3, <4>1, <4>2, <4>3, <4>4 DEF Waits
      <3> QED BY <2>3, <2>9, <3>1, <3>2, <3>3 DEF Replaced
    <2>10. op' \in [Operators -> Op] /\ op'[o] = r /\ \A u \in Operators \ {o} : op'[u] = rep[u]
      <3>1. rep = [u \in Operators |-> rep[u]]
        BY <2>3 DEF Replaced
      <3>2. rep \in [Operators -> Op]
        BY <1>1, <2>4, <2>9, <3>1
      <3> QED BY <2>6, <2>8, <3>2
    <2>11. \A u \in Operators \ {o} : Waits(u)
      BY <2>9, <2>10
    <2>12. LocksFollow(o)
      BY <1>4, LocksSame DEF IInv
    <2>13. OpState(o)'
      <3>1. daemonLock' = daemonLock /\ writerLock' = writerLock
        BY <1>4 DEF locks
      <3>2. Alone(r) => Alone(v)
        BY <1>1, <2>6 DEF Alone
      <3>3. Alone(op'[o]) => daemonLock' = o /\ writerLock' = o
        BY <1>1, <2>1, <2>10, <3>1, <3>2 DEF OpState
      <3>4. Sound(op'[o].pin) => op'[o].pin \in committed'
        BY <1>1, <2>1, <2>2, <2>6, <2>10 DEF OpState
      <3>5. txn' # o
        BY <1>1, <1>4, <2>1 DEF OpState, locks
      <3> QED BY <2>6, <2>10, <3>3, <3>4, <3>5 DEF OpState, Alone, Sound
    <2>14. /\ OpInv(op'[o]) /\ jobs' \in 0..MaxJobs
           /\ files'["live"] = files["live"] \/ Alone(op[o])
      BY <1>1, <1>2, <2>2, <2>7, <2>10 DEF Alone, IInv, EnvInv
    <2> QED BY <1>2, <2>2, <2>10, <2>11, <2>12, <2>13, <2>14, OperatorKeeps DEF LogFollows
  <1> QED BY <1>1, <1>3, <1>4 DEF CopyPublish

-----------------------------------------------------------------------------
(* Migrating, and the commands of one transaction                          *)

\* A commit on the live database.
LEMMA BecomesFollow ==
  ASSUME FilesInv, NEW s \in Store, Honest(s), Becomes(s), second' = second
  PROVE  FilesInv' /\ committed \subseteq committed'
  <1>1. PICK z : z = [s EXCEPT !.commit = commits + 1]
    OBVIOUS
  <1>2. z \in Store /\ z.schema = s.schema /\ z.meta = s.meta /\ z.shape = s.shape
    BY <1>1 DEF Store, FilesInv
  <1>3. Honest(z)
    BY <1>2 DEF Honest, Complete
  <1>4. /\ files' = [files EXCEPT !["live"] = z] /\ commits' = commits + 1
        /\ committed' = committed \cup {z}
    BY <1>1 DEF Becomes
  <1>5. /\ files' \in [Path -> Store \cup {NoFile}] /\ files'["live"] = z
        /\ \A p \in Path : p # "live" => files'[p] = files[p]
        /\ files'["backup"] = files["backup"]
    BY <1>2, <1>4 DEF FilesInv, Path
  <1>6. \A p \in Path : files'[p] # NoFile => Honest(files'[p])
    BY <1>3, <1>5 DEF FilesInv
  <1>7. commits' \in Nat
    BY <1>4 DEF FilesInv
  <1> QED BY <1>2, <1>3, <1>4, <1>5, <1>6, <1>7 DEF FilesInv, Sound, Honest, Complete

\* What the commands and the writers commit.
LEMMA RowAdded ==
  ASSUME NEW s \in Store, Honest(s), NEW x, x = [s EXCEPT !.rows = s.rows + 1]
  PROVE  x \in Store /\ Honest(x)
  <1>1. PICK n \in Nat : n = s.rows + 1
    BY DEF Store
  <1>2. x \in Store /\ x.schema = s.schema /\ x.meta = s.meta /\ x.shape = s.shape
    BY <1>1 DEF Store
  <1> QED BY <1>2 DEF Honest, Complete

LEMMA QueuePatched ==
  ASSUME NEW s \in Store, Honest(s), NEW x, x = [s EXCEPT !.patched = TRUE]
  PROVE  x \in Store /\ Honest(x)
  <1>1. x \in Store /\ x.schema = s.schema /\ x.meta = s.meta /\ x.shape = s.shape
    BY DEF Store
  <1> QED BY <1>1 DEF Honest, Complete

\* The command of o ends with a commit s on the live database.
LEMMA CommitKeeps ==
  ASSUME IInv, NEW o \in Operators, op[o].pc \in {"patch", "erase", "rebuild"},
         NEW s \in Store, Honest(s), Becomes(s),
         Finish(o, "ok"), wal' = Checkpointed(o), UNCHANGED <<copies, others, jobs>>
  PROVE  Kept
  <1>1. FilesInv' /\ committed \subseteq committed'
    BY BecomesFollow DEF IInv, copies
  <1>2. LogFollows /\ backupLog' \in BOOLEAN /\ UNCHANGED <<others, jobs>>
    BY LogClosed DEF IInv, EnvInv, copies
  <1>3. op' = [op EXCEPT ![o] = [Idle EXCEPT !.result = "ok"]] /\ Unlock(o)
    BY DEF Finish
  <1>4. Alone(op[o])
    BY DEF Alone
  <1> QED BY <1>1, <1>2, <1>3, <1>4, FinishKeeps

LEMMA MigrateKeeps ==
  ASSUME IInv, NEW o \in Operators, Migrate(o)
  PROVE  Kept
  <1>1. PICK v, s : v = op[o] /\ v \in Op /\ OpInv(v) /\ v.pc = "migrate" /\ s = files["live"]
    BY DEF IInv, OpsInv, Migrate, At
  <1>2. /\ UNCHANGED <<content, second, others, jobs>> /\ backupLog' \in BOOLEAN
        /\ s \in Store
    BY <1>1 DEF Migrate, IInv, EnvInv, FilesInv, copies
  <1>3. CASE (Finish(o, "failed") \/ Finish(o, "ok")) /\ wal' = Checkpointed(o)
    <2>1. LogFollows
      BY <1>3, LogClosed DEF IInv
    <2> QED BY <1>1, <1>2, <1>3, <2>1, QuietFinish
  <1>4. CASE Go(o, "patch") /\ UNCHANGED <<locks, wal>>
    <2>1. LogFollows /\ UNCHANGED locks
      BY <1>4, LogSame DEF IInv
    <2>2. PICK r : /\ OpInv(r) /\ op' = [op EXCEPT ![o] = r] /\ r.pc = "patch"
                   /\ r.dst = op[o].dst /\ r.pin = op[o].pin
      BY <1>1, <1>4, GoIs DEF IInv, Step
    <2>3. Alone(op[o])
      BY <1>1 DEF Alone
    <2> QED BY <1>1, <1>2, <2>1, <2>2, <2>3, QuietGo
  <1>5. CASE /\ Readable(s) /\ s.schema < v.target /\ txn' = o
             /\ op' = [op EXCEPT ![o].pc = "apply", ![o].tmp = s]
             /\ UNCHANGED <<daemonLock, writerLock, wal>>
    <2>1. s.schema = 0 /\ s.meta = 0
      BY <1>1, <1>2, <1>5 DEF Readable, Store, Op
    <2>2. PICK r : r = [v EXCEPT !.pc = "apply", !.tmp = s]
      OBVIOUS
    <2>3. /\ r \in Op /\ r.pc = "apply" /\ r.tmp = s /\ r.pin = v.pin /\ r.src = v.src
          /\ r.result = v.result /\ r.dst = v.dst
      BY <1>1, <1>2, <2>2 DEF Op, Step
    <2>4. OpInv(r)
      BY <1>1, <1>2, <2>1, <2>3 DEF OpInv
    <2>5. op' = [op EXCEPT ![o] = r]
      BY <1>1, <1>5, <2>2
    <2>6. Alone(op[o]) /\ LogFollows
      BY <1>1, <1>5, LogSame DEF Alone, IInv
    <2>7. FilesInv' /\ committed \subseteq committed' /\ files' = files
      BY <1>2, FilesSame DEF IInv
    <2>8. \A u \in Operators \ {o} : txn' = u <=> txn = u
      <3>1. daemonLock = o
        BY <2>6 DEF IInv, OpsInv, OpState
      <3>2. ASSUME NEW u \in Operators \ {o}, txn = u
            PROVE  FALSE
        BY <3>1, <3>2 DEF IInv, OpsInv, OpState, Alone
      <3> QED BY <1>5, <3>2
    <2> QED BY <1>1, <1>2, <1>5, <2>3, <2>4, <2>5, <2>6, <2>7, <2>8, GoKeeps
  <1> QED BY <1>1, <1>3, <1>4, <1>5 DEF Migrate

LEMMA UpgradedSound ==
  ASSUME NEW s \in Store
  PROVE  Upgraded(s) \in Store /\ Upgraded(s).shape
  <1>1. PICK x : x = [s EXCEPT !.shape = TRUE, !.patched = TRUE]
    OBVIOUS
  <1>2. x \in Store /\ x.shape
    BY <1>1 DEF Store
  <1> QED BY <1>1, <1>2 DEF Upgraded

LEMMA ApplyKeeps ==
  ASSUME IInv, NEW o \in Operators, Apply(o)
  PROVE  Kept
  <1>1. PICK v, s : /\ v = op[o] /\ v \in Op /\ OpInv(v) /\ v.pc = "apply"
                    /\ s = Upgraded(v.tmp)
    BY DEF IInv, OpsInv, Apply, At
  <1>2. UNCHANGED <<content, second, others, jobs>> /\ backupLog' \in BOOLEAN
    BY DEF Apply, IInv, EnvInv, copies
  <1>3. CASE Finish(o, "failed") /\ wal' = Checkpointed(o)
    <2>1. LogFollows
      BY <1>3, LogClosed DEF IInv
    <2> QED BY <1>1, <1>2, <1>3, <2>1, QuietFinish
  <1>4. CASE /\ op' = [op EXCEPT ![o].pc = "ledger", ![o].tmp = s]
             /\ UNCHANGED <<locks, wal>>
    <2>1. s \in Store /\ s.shape
      BY <1>1, UpgradedSound DEF OpInv
    <2>2. PICK r : r = [v EXCEPT !.pc = "ledger", !.tmp = s]
      OBVIOUS
    <2>3. /\ r \in Op /\ r.pc = "ledger" /\ r.tmp = s /\ r.pin = v.pin /\ r.src = v.src
          /\ r.result = v.result /\ r.dst = v.dst
      BY <1>1, <2>1, <2>2 DEF Op, Step
    <2>4. OpInv(r)
      BY <1>1, <2>1, <2>3 DEF OpInv
    <2>5. op' = [op EXCEPT ![o] = r]
      BY <1>1, <1>4, <2>2
    <2>6. Alone(op[o]) /\ LogFollows /\ UNCHANGED locks
      BY <1>1, <1>4, LogSame DEF Alone, IInv
    <2> QED BY <1>1, <1>2, <2>3, <2>4, <2>5, <2>6, QuietGo
  <1> QED BY <1>1, <1>3, <1>4 DEF Apply

LEMMA LedgerKeeps ==
  ASSUME IInv, NEW o \in Operators, Ledger(o)
  PROVE  Kept
  <1>1. PICK v, s : /\ v = op[o] /\ v \in Op /\ OpInv(v) /\ v.pc = "ledger"
                    /\ s = [v.tmp EXCEPT !.schema = 1, !.meta = 1]
    BY DEF IInv, OpsInv, Ledger, At
  <1>2. /\ UNCHANGED <<content, second, others, jobs>> /\ backupLog' \in BOOLEAN
        /\ UNCHANGED locks /\ LogFollows
    BY LogSame DEF Ledger, IInv, EnvInv, copies
  <1>3. s \in Store /\ Honest(s)
    <2>1. PICK t : t = v.tmp /\ t \in Store /\ t.shape
      BY <1>1 DEF OpInv
    <2>2. s = [t EXCEPT !.schema = 1, !.meta = 1] /\ 1 \in 0..1
      BY <1>1, <2>1
    <2>3. s \in Store /\ s.schema = 1 /\ s.meta = 1 /\ s.shape
      BY <2>1, <2>2 DEF Store
    <2> QED BY <2>3 DEF Honest, Complete
  <1>4. PICK r : r = [v EXCEPT !.pc = "commit", !.tmp = s]
    OBVIOUS
  <1>5. /\ r \in Op /\ r.pc = "commit" /\ r.tmp = s /\ r.pin = v.pin /\ r.src = v.src
        /\ r.result = v.result /\ r.dst = v.dst
    BY <1>1, <1>3, <1>4 DEF Op, Step
  <1>6. OpInv(r)
    BY <1>1, <1>3, <1>5 DEF OpInv
  <1>7. op' = [op EXCEPT ![o] = r]
    BY <1>1, <1>4 DEF Ledger
  <1>8. Alone(op[o])
    BY <1>1 DEF Alone
  <1> QED BY <1>1, <1>2, <1>5, <1>6, <1>7, <1>8, QuietGo

LEMMA CommitStepKeeps ==
  ASSUME IInv, NEW o \in Operators, Commit(o)
  PROVE  Kept
  <1>1. PICK v : v = op[o] /\ v \in Op /\ OpInv(v) /\ v.pc = "commit" /\ OpState(o)
    BY DEF IInv, OpsInv, Commit, At
  <1>2. UNCHANGED <<others, jobs>> /\ second' = second /\ backupLog' \in BOOLEAN
    BY DEF Commit, IInv, EnvInv, copies
  <1>3. CASE Finish(o, "failed") /\ wal' = Checkpointed(o) /\ UNCHANGED content
    <2>1. LogFollows /\ UNCHANGED <<content, second, others, jobs>>
      BY <1>2, <1>3, LogClosed DEF IInv
    <2> QED BY <1>1, <1>2, <1>3, <2>1, QuietFinish
  <1>4. CASE /\ Becomes(v.tmp) /\ Go(o, "patch") /\ txn' = None
             /\ UNCHANGED <<daemonLock, writerLock, wal>>
    <2>1. FilesInv' /\ committed \subseteq committed'
      BY <1>1, <1>2, <1>4, BecomesFollow DEF IInv, OpInv
    <2>2. PICK r : /\ OpInv(r) /\ op' = [op EXCEPT ![o] = r] /\ r.pc = "patch"
                   /\ r.dst = op[o].dst /\ r.pin = op[o].pin
      BY <1>1, <1>4, GoIs DEF IInv, Step
    <2>3. Alone(op[o]) /\ LogFollows
      BY <1>1, <1>4, LogSame DEF Alone, IInv
    <2>4. \A u \in Operators \ {o} : txn' = u <=> txn = u
      <3>1. daemonLock = o
        BY <1>1, <2>3 DEF OpState
      <3>2. ASSUME NEW u \in Operators \ {o}, txn = u
            PROVE  FALSE
        BY <3>1, <3>2 DEF IInv, OpsInv, OpState, Alone
      <3> QED BY <1>4, <3>2, MaintenanceAssumption
    <2>5. txn' # o
      BY <1>4, MaintenanceAssumption
    <2> QED BY <1>2, <1>4, <2>1, <2>2, <2>3, <2>4, <2>5, GoKeeps
  <1> QED BY <1>1, <1>3, <1>4 DEF Commit

LEMMA PatchKeeps ==
  ASSUME IInv, NEW o \in Operators, Patch(o)
  PROVE  Kept
  <1>1. PICK s, x : /\ s = files["live"] /\ s \in Store /\ Honest(s)
                    /\ x = [s EXCEPT !.patched = TRUE]
    BY DEF IInv, FilesInv
  <1>2. /\ UNCHANGED <<copies, others, jobs>> /\ second' = second /\ backupLog' \in BOOLEAN
        /\ op[o].pc = "patch" /\ wal' = Checkpointed(o) /\ LogFollows
    BY LogClosed DEF Patch, At, IInv, EnvInv, copies
  <1>3. CASE (Finish(o, "ok") \/ Finish(o, "failed")) /\ UNCHANGED content
    <2>1. UNCHANGED <<content, second, others, jobs>>
      BY <1>2, <1>3
    <2> QED BY <1>2, <1>3, <2>1, QuietFinish
  <1>4. CASE Becomes(x) /\ Finish(o, "ok")
    <2>1. x \in Store /\ Honest(x)
      BY <1>1, QueuePatched
    <2> QED BY <1>2, <1>4, <2>1, CommitKeeps
  <1> QED BY <1>1, <1>3, <1>4 DEF Patch

LEMMA VerifyKeeps ==
  ASSUME IInv, NEW o \in Operators, Verify(o)
  PROVE  Kept
  <1>1. /\ UNCHANGED <<content, second, others, jobs>> /\ backupLog' \in BOOLEAN
        /\ op[o].pc = "check" /\ LogFollows
    BY LogClosed DEF Verify, At, IInv, EnvInv, copies
  <1>2. PICK result \in {"ok", "failed"} : Finish(o, result)
    BY DEF Verify
  <1> QED BY <1>1, <1>2, QuietFinish

LEMMA EraseKeeps ==
  ASSUME IInv, NEW o \in Operators, Erase(o)
  PROVE  Kept
  <1>1. PICK s, x : /\ s = files["live"] /\ s \in Store /\ Honest(s)
                    /\ x = [s EXCEPT !.rows = s.rows + 1]
    BY DEF IInv, FilesInv
  <1>2. /\ UNCHANGED <<copies, others, jobs>> /\ second' = second /\ backupLog' \in BOOLEAN
        /\ op[o].pc = "erase" /\ wal' = Checkpointed(o) /\ LogFollows
    BY LogClosed DEF Erase, At, IInv, EnvInv, copies
  <1>3. CASE Finish(o, "failed") /\ UNCHANGED content
    <2>1. UNCHANGED <<content, second, others, jobs>>
      BY <1>2, <1>3
    <2> QED BY <1>2, <1>3, <2>1, QuietFinish
  <1>4. CASE Becomes(x) /\ Finish(o, "ok")
    <2>1. x \in Store /\ Honest(x)
      BY <1>1, RowAdded
    <2> QED BY <1>2, <1>4, <2>1, CommitKeeps
  <1> QED BY <1>1, <1>3, <1>4 DEF Erase

LEMMA RebuildKeeps ==
  ASSUME IInv, NEW o \in Operators, Rebuild(o)
  PROVE  Kept
  <1>1. PICK s : s = files["live"] /\ s \in Store /\ Honest(s)
    BY DEF IInv, FilesInv
  <1>2. /\ UNCHANGED <<copies, others, jobs>> /\ second' = second /\ backupLog' \in BOOLEAN
        /\ op[o].pc = "rebuild" /\ wal' = Checkpointed(o) /\ LogFollows
    BY LogClosed DEF Rebuild, At, IInv, EnvInv, copies
  <1>3. CASE Finish(o, "failed") /\ UNCHANGED content
    <2>1. UNCHANGED <<content, second, others, jobs>>
      BY <1>2, <1>3
    <2> QED BY <1>2, <1>3, <2>1, QuietFinish
  <1>4. CASE Becomes(s) /\ Finish(o, "ok")
    BY <1>1, <1>2, <1>4, CommitKeeps
  <1> QED BY <1>1, <1>3, <1>4 DEF Rebuild

-----------------------------------------------------------------------------
(* Rehearsals and drills                                                   *)

\* A rehearsal goes on and keeps databases in tmp and mark.
LEMMA RehearsalGoes ==
  ASSUME IInv, NEW o \in Operators, op[o].pc \notin {"idle", "apply", "ledger", "commit"},
         NEW r, NEW pc \in {"read", "verify", "last"},
         NEW t \in Store \cup {NoFile}, NEW m \in Store \cup {NoFile},
         r = [op[o] EXCEPT !.pc = pc, !.tmp = t, !.mark = m], op' = [op EXCEPT ![o] = r],
         op[o].pc \notin {"lock_daemon", "lock_legacy"},
         UNCHANGED locks, UNCHANGED <<content, second, others, jobs>>, LogFollows,
         backupLog' \in BOOLEAN
  PROVE  Kept
  <1>1. PICK v : v = op[o] /\ v \in Op /\ OpInv(v)
    BY DEF IInv, OpsInv
  <1>2. /\ r \in Op /\ r.pc = pc /\ r.pin = v.pin /\ r.src = v.src
        /\ r.result = v.result /\ r.dst = v.dst
    BY <1>1 DEF Op, Step
  <1>3. OpInv(r)
    BY <1>1, <1>2 DEF OpInv
  <1>4. Alone(r) => Alone(op[o])
    BY <1>1, <1>2 DEF Alone
  <1> QED BY <1>1, <1>2, <1>3, <1>4, QuietGo

LEMMA FingerprintKeeps ==
  ASSUME IInv, NEW o \in Operators, Fingerprint(o)
  PROVE  Kept
  <1>1. PICK v, s : /\ v = op[o] /\ v \in Op /\ OpInv(v) /\ v.pc = "fingerprint"
                    /\ s = files["live"] /\ s \in Store
    BY DEF IInv, OpsInv, FilesInv, Fingerprint, At
  <1>2. UNCHANGED <<content, second, others, jobs>> /\ backupLog' \in BOOLEAN /\ LogFollows
    BY LogRead DEF Fingerprint, IInv, EnvInv, copies
  <1>3. CASE Finish(o, "failed")
    BY <1>1, <1>2, <1>3, QuietFinish
  <1>4. CASE op' = [op EXCEPT ![o].pc = "read", ![o].tmp = s] /\ UNCHANGED locks
    <2>1. PICK m, r : m = v.mark /\ r = [v EXCEPT !.pc = "read", !.tmp = s, !.mark = m]
      OBVIOUS
    <2>2. r = [v EXCEPT !.pc = "read", !.tmp = s] /\ m \in Store \cup {NoFile}
      BY <1>1, <2>1 DEF Op
    <2>3. op' = [op EXCEPT ![o] = r]
      BY <1>1, <1>4, <2>2
    <2>4. /\ r = [op[o] EXCEPT !.pc = "read", !.tmp = s, !.mark = m]
          /\ s \in Store \cup {NoFile} /\ UNCHANGED locks
          /\ op[o].pc \notin {"idle", "apply", "ledger", "commit", "lock_daemon", "lock_legacy"}
      BY <1>1, <1>4, <2>1
    <2> QED BY <1>2, <2>2, <2>3, <2>4, RehearsalGoes
  <1> QED BY <1>1, <1>3, <1>4 DEF Fingerprint

LEMMA DigestSound ==
  ASSUME IInv, NEW o \in Operators
  PROVE  Digests(o) \subseteq Store \cup {NoFile}
  <1>1. op[o].tmp \in Store \cup {NoFile} /\ files["live"] \in Store
    BY DEF IInv, OpsInv, Op, FilesInv
  <1> QED BY <1>1 DEF Digests

LEMMA FingerprintReadKeeps ==
  ASSUME IInv, NEW o \in Operators, FingerprintRead(o)
  PROVE  Kept
  <1>1. PICK v : v = op[o] /\ v \in Op /\ OpInv(v) /\ v.pc = "read"
    BY DEF IInv, OpsInv, FingerprintRead, At
  <1>2. /\ UNCHANGED <<content, second, others, jobs>> /\ backupLog' \in BOOLEAN
        /\ LogFollows /\ UNCHANGED locks
    BY LogSame DEF FingerprintRead, IInv, EnvInv, copies
  <1>3. PICK d \in Store \cup {NoFile} : op' = [op EXCEPT ![o].pc = "verify", ![o].mark = d]
    BY DigestSound DEF FingerprintRead
  <1>4. PICK t, r : t = v.tmp /\ r = [v EXCEPT !.pc = "verify", !.tmp = t, !.mark = d]
    OBVIOUS
  <1>5. r = [v EXCEPT !.pc = "verify", !.mark = d] /\ t \in Store \cup {NoFile}
    BY <1>1, <1>4 DEF Op
  <1>6. op' = [op EXCEPT ![o] = r]
    BY <1>1, <1>3, <1>5
  <1> QED BY <1>1, <1>2, <1>4, <1>5, <1>6, RehearsalGoes

LEMMA CountKeeps ==
  ASSUME IInv, NEW o \in Operators, Count(o)
  PROVE  Kept
  <1>1. PICK v, n : /\ v = op[o] /\ v \in Op /\ OpInv(v) /\ v.pc = "count"
                    /\ n = files["live"].rows /\ n \in Nat
    <2>1. files["live"] \in Store
      BY DEF IInv, FilesInv
    <2>2. files["live"].rows \in Nat
      BY <2>1 DEF Store
    <2> QED BY <2>2 DEF IInv, OpsInv, Count, At
  <1>2. UNCHANGED <<content, second, others, jobs>> /\ backupLog' \in BOOLEAN /\ LogFollows
    BY LogRead DEF Count, IInv, EnvInv, copies
  <1>3. CASE Finish(o, "failed")
    BY <1>1, <1>2, <1>3, QuietFinish
  <1>4. CASE op' = [op EXCEPT ![o].pc = "drill", ![o].rows = n] /\ UNCHANGED locks
    <2>1. PICK r : r = [v EXCEPT !.pc = "drill", !.rows = n]
      OBVIOUS
    <2>2. /\ r \in Op /\ r.pc = "drill" /\ r.pin = v.pin /\ r.src = v.src
          /\ r.result = v.result /\ r.dst = v.dst
      BY <1>1, <2>1 DEF Op, Step
    <2>3. OpInv(r)
      BY <1>1, <2>2 DEF OpInv
    <2>4. op' = [op EXCEPT ![o] = r]
      BY <1>1, <1>4, <2>1
    <2>5. Alone(r) => Alone(op[o])
      BY <1>1, <2>2 DEF Alone
    <2> QED BY <1>1, <1>2, <1>4, <2>2, <2>3, <2>4, <2>5, QuietGo
  <1> QED BY <1>1, <1>3, <1>4 DEF Count

LEMMA DrillKeeps ==
  ASSUME IInv, NEW o \in Operators, Drill(o)
  PROVE  Kept
  <1>1. /\ UNCHANGED <<content, second, others, jobs>> /\ backupLog' \in BOOLEAN
        /\ op[o].pc = "drill" /\ LogFollows
    BY ReadFollows DEF Drill, At, IInv
  <1>2. PICK result \in {"ok", "failed"} : Finish(o, result)
    BY DEF Drill
  <1> QED BY <1>1, <1>2, QuietFinish

LEMMA MigratedSound ==
  ASSUME NEW s \in Store, Migratable(s)
  PROVE  Migrated(s) \in Store /\ Honest(Migrated(s))
  <1>1. Honest(s)
    BY DEF Migratable, Readable, Honest
  <1>2. CASE s.schema = 0
    <2>1. PICK x, y : x = Upgraded(s) /\ y = [x EXCEPT !.schema = 1, !.meta = 1]
      OBVIOUS
    <2>2. x \in Store /\ x.shape /\ 1 \in 0..1
      BY <2>1, UpgradedSound
    <2>3. y \in Store /\ y.schema = 1 /\ y.meta = 1 /\ y.shape
      BY <2>1, <2>2 DEF Store
    <2>4. Honest(y) /\ Migrated(s) = y
      BY <1>2, <2>1, <2>3 DEF Honest, Complete, Migrated
    <2> QED BY <2>3, <2>4
  <1>3. CASE s.schema # 0
    <2>1. Migrated(s) = [s EXCEPT !.patched = TRUE]
      BY <1>3 DEF Migrated
    <2> QED BY <1>1, <2>1, QueuePatched
  <1> QED BY <1>2, <1>3

\* A step of a rehearsal on its own copies.
LEMMA CopiesKeep ==
  ASSUME IInv, NEW o \in Operators, NEW path \in {"candidate", "rollback"}, NEW c \in Store,
         Honest(c), \/ files' = files
                    \/ files' = [files EXCEPT ![path] = c],
         op[o].pc \notin {"idle", "lock_daemon", "lock_legacy", "apply", "ledger", "commit"},
         UNCHANGED <<commits, committed, copies, others, jobs>>, wal' = wal,
         \/ Finish(o, "failed")
         \/ \E pc \in {"upgrade", "smoke", "restore", "compare"} : Go(o, pc) /\ UNCHANGED locks
  PROVE  Kept
  <1>1. /\ files' \in [Path -> Store \cup {NoFile}] /\ files'["live"] = files["live"]
        /\ files'["backup"] = files["backup"]
    BY DEF IInv, FilesInv, Path
  <1>2. \A p \in Path : files'[p] # NoFile => Honest(files'[p])
    BY DEF IInv, FilesInv, Path
  <1>3. second' = second /\ commits' = commits /\ committed' = committed
    BY DEF copies
  <1>4. FilesInv' /\ committed \subseteq committed'
    BY <1>1, <1>2, <1>3 DEF IInv, FilesInv, Sound, Honest, Complete
  <1>5. /\ UNCHANGED <<others, jobs>> /\ backupLog' \in BOOLEAN /\ LogFollows
    BY LogSame DEF copies, IInv, EnvInv
  <1>6. CASE Finish(o, "failed")
    BY <1>1, <1>4, <1>5, <1>6, FinishKeeps DEF Finish
  <1>7. ASSUME NEW pc \in {"upgrade", "smoke", "restore", "compare"}, Go(o, pc), UNCHANGED locks
        PROVE  Kept
    <2>1. PICK r : /\ OpInv(r) /\ op' = [op EXCEPT ![o] = r] /\ r.pc = pc
                   /\ r.dst = op[o].dst /\ r.pin = op[o].pin
      BY <1>7, GoIs DEF IInv, Step
    <2>2. Alone(r) => Alone(op[o])
      BY <2>1 DEF Alone
    <2>3. /\ daemonLock' = daemonLock /\ writerLock' = writerLock /\ txn' \in Operators \cup {None}
          /\ \A u \in Operators \ {o} : txn' = u <=> txn = u
          /\ txn' # o
      BY <1>7 DEF locks, IInv, LockTypes, OpsInv, OpState
    <2> QED BY <1>1, <1>4, <1>5, <2>1, <2>2, <2>3, GoKeeps
  <1> QED BY <1>6, <1>7

LEMMA ArtifactKeeps ==
  ASSUME IInv, NEW o \in Operators, Artifact(o)
  PROVE  Kept
  <1>1. PICK s : s = files["live"] /\ s \in Store /\ Honest(s)
    BY DEF IInv, FilesInv
  <1>2. PICK c : c = files["candidate"] /\ (Sound(c) => c \in Store /\ Honest(c))
    BY DEF IInv, FilesInv, Path, Sound
  <1>3. /\ op[o].pc = "artifact" /\ UNCHANGED <<commits, committed, copies, others, jobs>>
        /\ wal' = wal
    BY DEF Artifact, At
  <1>4. CASE Sound(c) /\ files' = [files EXCEPT !["rollback"] = c]
    <2>1. \/ Finish(o, "failed")
          \/ \E pc \in {"upgrade", "smoke", "restore", "compare"} : Go(o, pc) /\ UNCHANGED locks
      BY DEF Artifact
    <2> QED BY <1>2, <1>3, <1>4, <2>1, CopiesKeep
  <1>5. CASE Finish(o, "failed") /\ UNCHANGED files
    BY <1>1, <1>3, <1>5, CopiesKeep
  <1> QED BY <1>2, <1>4, <1>5 DEF Artifact

LEMMA UpgradeKeeps ==
  ASSUME IInv, NEW o \in Operators, Upgrade(o)
  PROVE  Kept
  <1>1. PICK s : s = files["live"] /\ s \in Store /\ Honest(s)
    BY DEF IInv, FilesInv
  <1>2. PICK c : /\ c = files["candidate"] /\ c \in Store \cup {NoFile}
                 /\ (c # NoFile => Honest(c))
    BY DEF IInv, FilesInv, Path
  <1>3. /\ op[o].pc = "upgrade" /\ UNCHANGED <<commits, committed, copies, others, jobs>>
        /\ wal' = wal
    BY DEF Upgrade, At
  <1>4. CASE /\ Migratable(c) /\ files' = [files EXCEPT !["candidate"] = Migrated(c)]
             /\ Go(o, "smoke") /\ UNCHANGED locks
    <2>1. c \in Store
      BY <1>2, <1>4 DEF Migratable, Readable
    <2>2. Migrated(c) \in Store /\ Honest(Migrated(c))
      BY <1>2, <1>4, <2>1, MigratedSound
    <2> QED BY <1>3, <1>4, <2>2, CopiesKeep
  <1>5. CASE Finish(o, "failed") /\ UNCHANGED files
    BY <1>1, <1>3, <1>5, CopiesKeep
  <1> QED BY <1>2, <1>4, <1>5 DEF Upgrade

LEMMA SmokeKeeps ==
  ASSUME IInv, NEW o \in Operators, Smoke(o)
  PROVE  Kept
  <1>1. PICK s : s = files["live"] /\ s \in Store /\ Honest(s)
    BY DEF IInv, FilesInv
  <1>2. PICK c, x : /\ c = files["candidate"] /\ c \in Store \cup {NoFile}
                    /\ (c # NoFile => Honest(c)) /\ x = [c EXCEPT !.rows = c.rows + 1]
    BY DEF IInv, FilesInv, Path
  <1>3. /\ op[o].pc = "smoke" /\ UNCHANGED <<commits, committed, copies, others, jobs>>
        /\ wal' = wal
    BY DEF Smoke, At
  <1>4. CASE /\ Sound(c) /\ files' = [files EXCEPT !["candidate"] = x]
             /\ Go(o, "restore") /\ UNCHANGED locks
    <2>1. c \in Store
      BY <1>2, <1>4 DEF Sound
    <2>2. x \in Store /\ Honest(x)
      BY <1>2, <1>4, <2>1, RowAdded DEF Sound
    <2> QED BY <1>3, <1>4, <2>2, CopiesKeep
  <1>5. CASE Finish(o, "failed") /\ UNCHANGED files
    BY <1>1, <1>3, <1>5, CopiesKeep
  <1> QED BY <1>2, <1>4, <1>5 DEF Smoke

LEMMA RollbackKeeps ==
  ASSUME IInv, NEW o \in Operators, Rollback(o)
  PROVE  Kept
  <1>1. PICK s : s = files["live"] /\ s \in Store /\ Honest(s)
    BY DEF IInv, FilesInv
  <1>2. PICK c : c = files["rollback"] /\ (Sound(c) => c \in Store /\ Honest(c))
    BY DEF IInv, FilesInv, Path, Sound
  <1>3. /\ op[o].pc = "restore" /\ UNCHANGED <<commits, committed, copies, others, jobs>>
        /\ wal' = wal
    BY DEF Rollback, At
  <1>4. CASE /\ Sound(c) /\ files' = [files EXCEPT !["candidate"] = c]
             /\ Go(o, "compare") /\ UNCHANGED locks
    BY <1>2, <1>3, <1>4, CopiesKeep
  <1>5. CASE Finish(o, "failed") /\ UNCHANGED files
    BY <1>1, <1>3, <1>5, CopiesKeep
  <1> QED BY <1>2, <1>4, <1>5 DEF Rollback

LEMMA RollbackCompareKeeps ==
  ASSUME IInv, NEW o \in Operators, RollbackCompare(o)
  PROVE  Kept
  <1>1. PICK v, s : /\ v = op[o] /\ v \in Op /\ OpInv(v) /\ v.pc = "compare"
                    /\ s = files["live"] /\ s \in Store
    BY DEF IInv, OpsInv, FilesInv, RollbackCompare, At
  <1>2. UNCHANGED <<content, second, others, jobs>> /\ backupLog' \in BOOLEAN /\ LogFollows
    BY LogRead DEF RollbackCompare, IInv, EnvInv, copies
  <1>3. CASE Finish(o, "failed")
    BY <1>1, <1>2, <1>3, QuietFinish
  <1>4. CASE op' = [op EXCEPT ![o].pc = "last", ![o].tmp = s] /\ UNCHANGED locks
    <2>1. PICK m, r : m = v.mark /\ r = [v EXCEPT !.pc = "last", !.tmp = s, !.mark = m]
      OBVIOUS
    <2>2. r = [v EXCEPT !.pc = "last", !.tmp = s] /\ m \in Store \cup {NoFile}
      BY <1>1, <2>1 DEF Op
    <2>3. op' = [op EXCEPT ![o] = r]
      BY <1>1, <1>4, <2>2
    <2>4. /\ r = [op[o] EXCEPT !.pc = "last", !.tmp = s, !.mark = m]
          /\ s \in Store \cup {NoFile} /\ UNCHANGED locks
          /\ op[o].pc \notin {"idle", "apply", "ledger", "commit", "lock_daemon", "lock_legacy"}
      BY <1>1, <1>4, <2>1
    <2> QED BY <1>2, <2>2, <2>3, <2>4, RehearsalGoes
  <1> QED BY <1>1, <1>3, <1>4 DEF RollbackCompare

LEMMA UnchangedKeeps ==
  ASSUME IInv, NEW o \in Operators, Unchanged(o)
  PROVE  Kept
  <1>1. /\ UNCHANGED <<content, second, others, jobs>> /\ backupLog' \in BOOLEAN
        /\ LogFollows
    BY LogSame DEF Unchanged, IInv, EnvInv, copies
  <1>2. PICK result \in {"ok", "failed"} : Finish(o, result)
    BY DEF Unchanged
  <1> QED BY <1>1, <1>2, QuietFinish

-----------------------------------------------------------------------------
(* The daemon and the legacy provider                                      *)

\* A step of a writer: no command moves, and the log gets frames of a daemon
\* only while no operator has its side file.
LEMMA WriterKeeps ==
  ASSUME IInv, op' = op, FilesInv', committed \subseteq committed', LockTypes', EnvInv',
         \A u \in Operators : /\ daemonLock' = u <=> daemonLock = u
                              /\ writerLock' = u <=> writerLock = u,
         txn' = txn, wal' = "daemon" => wal = "daemon" \/ daemonLock = "daemon"
  PROVE  Kept
  <1>1. "daemon" \notin Operators /\ None # "ok"
    BY MaintenanceAssumption
  <1>2. ASSUME NEW u \in Operators
        PROVE  OpInv(op[u])' /\ OpState(u)'
    <2>1. OpInv(op[u]) /\ OpState(u)
      BY DEF IInv, OpsInv
    <2>2. OpInv(op[u])'
      BY <2>1 DEF OpInv, Sound, Honest, Complete
    <2>3. ASSUME op[u].dst = "live", op[u].pc \in {"copy", "publish"}
          PROVE  wal' # "daemon"
      BY <1>1, <2>1, <2>3 DEF OpState, Alone
    <2>4. OpState(u)'
      BY <2>1, <2>3 DEF OpState, Alone, Sound
    <2> QED BY <2>2, <2>4
  <1>3. OpsInv'
    BY <1>2 DEF IInv, OpsInv
  <1>4. ChangedAtRest
    BY DEF ChangedAtRest
  <1> QED BY <1>3, <1>4 DEF Kept, IInv

LEMMA DaemonAcquireKeeps ==
  ASSUME IInv, DaemonAcquire
  PROVE  Kept
  <1>1. None \notin Operators \cup {"daemon", "legacy"} /\ "daemon" \notin Operators
    BY MaintenanceAssumption
  <1>2. /\ FilesInv' /\ committed \subseteq committed'
    BY FilesSame DEF IInv, DaemonAcquire, copies
  <1>3. /\ daemonLock = None /\ daemonLock' = "daemon" /\ daemon' = "owning" /\ wal' = wal
        /\ writerLock' = writerLock /\ txn' = txn /\ legacy' = legacy /\ op' = op
        /\ writes' = writes /\ jobs' = jobs /\ backupLog' = backupLog
    BY DEF DaemonAcquire, copies
  <1>4. LockTypes' /\ EnvInv'
    BY <1>1, <1>3 DEF IInv, LockTypes, EnvInv
  <1> QED BY <1>1, <1>2, <1>3, <1>4, WriterKeeps

LEMMA DaemonOpenKeeps ==
  ASSUME IInv, DaemonOpen
  PROVE  Kept
  <1>1. None \notin Operators \cup {"daemon", "legacy"} /\ "daemon" \notin Operators
    BY MaintenanceAssumption
  <1>2. FilesInv' /\ committed \subseteq committed'
    BY FilesSame DEF IInv, DaemonOpen, copies
  <1>3. /\ writerLock' = writerLock /\ txn' = txn /\ legacy' = legacy /\ op' = op
        /\ writes' = writes /\ jobs' = jobs /\ backupLog' = backupLog /\ daemon = "owning"
    BY DEF DaemonOpen, copies
  <1>4. /\ \/ daemon' = "up" /\ daemonLock' = daemonLock
           \/ daemon' = "off" /\ daemonLock' = None
        /\ wal' = wal \/ wal' = "empty"
    BY DEF DaemonOpen
  <1>5. daemonLock = "daemon"
    BY <1>3 DEF IInv, EnvInv
  <1>6. LockTypes' /\ EnvInv'
    BY <1>1, <1>3, <1>4, <1>5 DEF IInv, LockTypes, EnvInv
  <1> QED BY <1>1, <1>2, <1>3, <1>4, <1>5, <1>6, WriterKeeps

LEMMA DaemonWriteKeeps ==
  ASSUME IInv, DaemonWrite
  PROVE  Kept
  <1>1. PICK s, x : s = files["live"] /\ x = [s EXCEPT !.rows = s.rows + 1]
    OBVIOUS
  <1>2. s \in Store /\ Honest(s)
    BY <1>1 DEF IInv, FilesInv
  <1>3. x \in Store /\ Honest(x)
    BY <1>1, <1>2, RowAdded
  <1>4. Becomes(x)
    BY <1>1 DEF DaemonWrite
  <1>5. /\ daemonLock' = daemonLock /\ writerLock' = writerLock /\ txn' = txn /\ daemon' = daemon
        /\ legacy' = legacy /\ op' = op /\ jobs' = jobs /\ backupLog' = backupLog
        /\ second' = second /\ daemon = "up" /\ wal' = "daemon"
    BY DEF DaemonWrite, copies, locks
  <1>6. writes' \in 0..MaxWrites
    BY MaintenanceAssumption DEF DaemonWrite, Write, IInv, EnvInv
  <1>7. FilesInv' /\ committed \subseteq committed'
    BY <1>3, <1>4, <1>5, BecomesFollow DEF IInv
  <1>8. LockTypes' /\ EnvInv' /\ daemonLock = "daemon"
    BY <1>5, <1>6 DEF IInv, LockTypes, EnvInv
  <1> QED BY <1>5, <1>7, <1>8, WriterKeeps

LEMMA DaemonCloseKeeps ==
  ASSUME IInv, DaemonClose
  PROVE  Kept
  <1>1. None \notin Operators \cup {"daemon", "legacy"} /\ "daemon" \notin Operators
    BY MaintenanceAssumption
  <1>2. FilesInv' /\ committed \subseteq committed'
    BY FilesSame DEF IInv, DaemonClose, copies
  <1>3. /\ writerLock' = writerLock /\ txn' = txn /\ legacy' = legacy /\ op' = op
        /\ writes' = writes /\ jobs' = jobs /\ backupLog' = backupLog /\ daemon # "off"
        /\ daemon' = "off" /\ daemonLock' = None /\ (wal' = wal \/ wal' = "none")
    BY DEF DaemonClose, copies
  <1>4. daemonLock = "daemon"
    BY <1>3 DEF IInv, EnvInv
  <1>5. LockTypes' /\ EnvInv'
    BY <1>1, <1>3, <1>4 DEF IInv, LockTypes, EnvInv
  <1> QED BY <1>1, <1>2, <1>3, <1>4, <1>5, WriterKeeps

\* A step of the provider that leaves the database alone.
LEMMA ProviderKeeps ==
  ASSUME IInv, FilesInv', committed \subseteq committed',
         legacy' \in [pc: {"off", "probed", "idle", "locked", "added"},
                      file: {"current", "replaced"}],
         legacy'.pc \in {"locked", "added"} <=> writerLock' = "legacy",
         \/ writerLock' = writerLock
         \/ {writerLock, writerLock'} \subseteq {None, "legacy"},
         wal' \in {wal, "none", "empty", "legacy"}, backupLog' = backupLog,
         daemonLock' = daemonLock, txn' = txn, daemon' = daemon, op' = op,
         writes' \in 0..MaxWrites, jobs' = jobs
  PROVE  Kept
  <1>1. None \notin Operators \cup {"daemon", "legacy"} /\ "legacy" \notin Operators
    BY MaintenanceAssumption
  <1>2. LockTypes'
    BY DEF IInv, LockTypes
  <1>3. EnvInv'
    BY DEF IInv, EnvInv
  <1>4. \A u \in Operators : (writerLock' = u <=> writerLock = u) /\ (daemonLock' = u <=> daemonLock = u)
    BY <1>1
  <1>5. wal' = "daemon" => wal = "daemon"
    OBVIOUS
  <1> QED BY <1>2, <1>3, <1>4, <1>5, WriterKeeps

LEMMA LegacyCommitFollows ==
  ASSUME IInv, NEW s, LegacyCommit(s), second' = second,
         Sound(files["live"]) => s \in Store /\ Honest(s)
  PROVE  /\ FilesInv' /\ committed \subseteq committed'
         /\ wal' \in {wal, "none", "empty", "legacy"}
  <1>1. CASE Sound(files["live"]) /\ Becomes(s) /\ wal' = IF wal = "daemon" THEN wal ELSE "legacy"
    BY <1>1, BecomesFollow DEF IInv
  <1>2. CASE UNCHANGED <<content, wal>>
    BY <1>2, FilesSame DEF IInv
  <1> QED BY <1>1, <1>2 DEF LegacyCommit

LEMMA LegacyKeeps ==
  ASSUME IInv, LegacyStep
  PROVE  Kept
  <1>1. PICK l : /\ l = legacy /\ (l.pc \in {"locked", "added"} <=> writerLock = "legacy")
                 /\ l \in [pc: {"off", "probed", "idle", "locked", "added"},
                           file: {"current", "replaced"}]
    BY DEF IInv, EnvInv
  <1>2. None # "legacy"
    BY MaintenanceAssumption
  <1>3. writes \in 0..MaxWrites /\ MaxWrites \in Nat
    BY MaintenanceAssumption DEF IInv, EnvInv
  <1>4. CASE LegacyProbe
    <2>1. /\ UNCHANGED <<content, second>> /\ l.pc = "off"
          /\ legacy' = [pc |-> "probed", file |-> "current"] /\ writerLock' = writerLock
          /\ wal' = wal /\ backupLog' = backupLog /\ daemonLock' = daemonLock /\ txn' = txn
          /\ daemon' = daemon /\ op' = op /\ writes' = writes /\ jobs' = jobs
      BY <1>1, <1>4 DEF LegacyProbe, copies, locks
    <2>2. FilesInv' /\ committed \subseteq committed'
      BY <2>1, FilesSame DEF IInv
    <2>3. /\ legacy' \in [pc: {"off", "probed", "idle", "locked", "added"},
                          file: {"current", "replaced"}]
          /\ legacy'.pc \in {"locked", "added"} <=> writerLock' = "legacy"
      BY <1>1, <2>1
    <2> QED BY <1>3, <2>1, <2>2, <2>3, ProviderKeeps
  <1>5. CASE LegacyOpen
    <2>1. /\ UNCHANGED <<content, second>> /\ l.pc = "probed"
          /\ legacy' = [l EXCEPT !.pc = "idle"] /\ writerLock' = writerLock
          /\ wal' \in {wal, "empty"}
          /\ backupLog' = backupLog /\ daemonLock' = daemonLock /\ txn' = txn
          /\ daemon' = daemon /\ op' = op /\ writes' = writes /\ jobs' = jobs
      BY <1>1, <1>5 DEF LegacyOpen, copies, locks
    <2>2. FilesInv' /\ committed \subseteq committed'
      BY <2>1, FilesSame DEF IInv
    <2>3. /\ legacy' \in [pc: {"off", "probed", "idle", "locked", "added"},
                          file: {"current", "replaced"}]
          /\ legacy'.pc \in {"locked", "added"} <=> writerLock' = "legacy"
      BY <1>1, <2>1
    <2> QED BY <1>3, <2>1, <2>2, <2>3, ProviderKeeps
  <1>6. CASE LegacyLock
    <2>1. /\ UNCHANGED <<content, second>> /\ l.pc = "idle" /\ writerLock = None
          /\ legacy' = [l EXCEPT !.pc = "locked"] /\ writerLock' = "legacy"
          /\ wal' = wal /\ backupLog' = backupLog /\ daemonLock' = daemonLock /\ txn' = txn
          /\ daemon' = daemon /\ op' = op /\ writes' = writes /\ jobs' = jobs
      BY <1>1, <1>6 DEF LegacyLock, copies
    <2>2. FilesInv' /\ committed \subseteq committed'
      BY <2>1, FilesSame DEF IInv
    <2>3. /\ legacy' \in [pc: {"off", "probed", "idle", "locked", "added"},
                          file: {"current", "replaced"}]
          /\ legacy'.pc \in {"locked", "added"} <=> writerLock' = "legacy"
      BY <1>1, <2>1
    <2> QED BY <1>3, <2>1, <2>2, <2>3, ProviderKeeps
  <1>7. CASE LegacyAdd
    <2>1. PICK s, x : s = files["live"] /\ x = [s EXCEPT !.rows = s.rows + 1]
      OBVIOUS
    <2>2. x \in Store /\ Honest(x)
      BY <2>1, RowAdded DEF IInv, FilesInv
    <2>3. /\ LegacyCommit(x) /\ second' = second /\ l.pc = "locked"
          /\ legacy' = [l EXCEPT !.pc = "added"] /\ writerLock' = writerLock
          /\ backupLog' = backupLog /\ daemonLock' = daemonLock /\ txn' = txn
          /\ daemon' = daemon /\ op' = op /\ writes' = writes + 1 /\ writes < MaxWrites
          /\ jobs' = jobs
      BY <1>1, <1>7, <2>1 DEF LegacyAdd, copies, locks, Write
    <2>4. FilesInv' /\ committed \subseteq committed' /\ wal' \in {wal, "none", "empty", "legacy"}
      BY <2>2, <2>3, LegacyCommitFollows
    <2>5. /\ legacy' \in [pc: {"off", "probed", "idle", "locked", "added"},
                          file: {"current", "replaced"}]
          /\ legacy'.pc \in {"locked", "added"} <=> writerLock' = "legacy"
      BY <1>1, <2>3
    <2>6. writes' \in 0..MaxWrites
      BY <1>3, <2>3
    <2> QED BY <2>3, <2>4, <2>5, <2>6, ProviderKeeps
  <1>8. CASE LegacySupersede
    <2>1. /\ LegacyCommit(files["live"]) \/ UNCHANGED <<content, wal>>
          /\ second' = second /\ l.pc \in {"locked", "added"}
          /\ legacy' = [l EXCEPT !.pc = "idle"] /\ writerLock' = None
          /\ backupLog' = backupLog /\ daemonLock' = daemonLock /\ txn' = txn
          /\ daemon' = daemon /\ op' = op /\ writes' = writes /\ jobs' = jobs
      BY <1>1, <1>8 DEF LegacySupersede, copies
    <2>2. FilesInv' /\ committed \subseteq committed' /\ wal' \in {wal, "none", "empty", "legacy"}
      <3>1. files["live"] \in Store /\ Honest(files["live"])
        BY DEF IInv, FilesInv
      <3>2. CASE LegacyCommit(files["live"])
        BY <2>1, <3>1, <3>2, LegacyCommitFollows
      <3>3. CASE UNCHANGED <<content, wal>>
        BY <2>1, <3>3, FilesSame DEF IInv
      <3> QED BY <2>1, <3>2, <3>3
    <2>3. /\ legacy' \in [pc: {"off", "probed", "idle", "locked", "added"},
                          file: {"current", "replaced"}]
          /\ legacy'.pc \in {"locked", "added"} <=> writerLock' = "legacy"
          /\ {writerLock, writerLock'} \subseteq {None, "legacy"}
      BY <1>1, <1>2, <2>1
    <2> QED BY <1>3, <2>1, <2>2, <2>3, ProviderKeeps
  <1>9. CASE LegacyUpdate
    <2>1. /\ LegacyCommit(files["live"]) /\ second' = second
          /\ legacy' = legacy /\ writerLock' = writerLock
          /\ backupLog' = backupLog /\ daemonLock' = daemonLock /\ txn' = txn
          /\ daemon' = daemon /\ op' = op /\ writes' = writes + 1 /\ writes < MaxWrites
          /\ jobs' = jobs
      BY <1>9 DEF LegacyUpdate, copies, locks, Write
    <2>2. files["live"] \in Store /\ Honest(files["live"])
      BY DEF IInv, FilesInv
    <2>3. FilesInv' /\ committed \subseteq committed' /\ wal' \in {wal, "none", "empty", "legacy"}
      BY <2>1, <2>2, LegacyCommitFollows
    <2>4. writes' \in 0..MaxWrites
      BY <1>3, <2>1
    <2> QED BY <1>1, <2>1, <2>3, <2>4, ProviderKeeps
  <1>10. CASE LegacyClose
    <2>1. /\ UNCHANGED <<content, second>>
          /\ legacy' = [pc |-> "off", file |-> "current"]
          /\ writerLock' = IF writerLock = "legacy" THEN None ELSE writerLock
          /\ wal' \in {wal, "none"} /\ backupLog' = backupLog /\ daemonLock' = daemonLock
          /\ txn' = txn /\ daemon' = daemon /\ op' = op /\ writes' = writes /\ jobs' = jobs
      BY <1>10 DEF LegacyClose, copies
    <2>2. FilesInv' /\ committed \subseteq committed'
      BY <2>1, FilesSame DEF IInv
    <2>3. /\ legacy' \in [pc: {"off", "probed", "idle", "locked", "added"},
                          file: {"current", "replaced"}]
          /\ legacy'.pc \in {"locked", "added"} <=> writerLock' = "legacy"
          /\ writerLock' = writerLock \/ {writerLock, writerLock'} \subseteq {None, "legacy"}
      BY <1>2, <2>1
    <2> QED BY <1>3, <2>1, <2>2, <2>3, ProviderKeeps
  <1> QED BY <1>4, <1>5, <1>6, <1>7, <1>8, <1>9, <1>10 DEF LegacyStep

LEMMA StutterKeeps ==
  ASSUME IInv, UNCHANGED vars
  PROVE  Kept
  <1>1. /\ UNCHANGED <<content, second>> /\ backupLog' = backupLog /\ wal' = wal
        /\ daemonLock' = daemonLock /\ writerLock' = writerLock /\ txn' = txn
        /\ daemon' = daemon /\ legacy' = legacy /\ op' = op /\ writes' = writes /\ jobs' = jobs
    BY DEF vars, content
  <1>2. FilesInv' /\ committed \subseteq committed'
    BY <1>1, FilesSame DEF IInv
  <1>3. LockTypes' /\ EnvInv'
    BY <1>1 DEF IInv, LockTypes, EnvInv
  <1> QED BY <1>1, <1>2, <1>3, WriterKeeps

LEMMA StepKeeps ==
  ASSUME IInv, [Next]_vars
  PROVE  Kept
  <1>1. ASSUME NEW o \in Operators, CopyStep(o)
        PROVE  Kept
    BY <1>1, CopyVerifyKeeps, CopyStageKeeps, CopyCopyKeeps, CopyPublishKeeps, CopyCompareKeeps,
       SecondaryKeeps DEF CopyStep
  <1>2. ASSUME NEW o \in Operators, OperatorStep(o)
        PROVE  Kept
    BY <1>1, <1>2, LockDaemonKeeps, LockLegacyKeeps, MigrateKeeps, ApplyKeeps, LedgerKeeps,
       CommitStepKeeps, PatchKeeps, VerifyKeeps, EraseKeeps, RebuildKeeps, FingerprintKeeps,
       FingerprintReadKeeps, ArtifactKeeps, UpgradeKeeps, SmokeKeeps, RollbackKeeps,
       RollbackCompareKeeps, UnchangedKeeps, CountKeeps, DrillKeeps DEF OperatorStep
  <1>3. CASE DaemonStep
    BY <1>3, DaemonAcquireKeeps, DaemonOpenKeeps, DaemonWriteKeeps, DaemonCloseKeeps
       DEF DaemonStep
  <1>4. CASE Next
    BY <1>2, <1>3, <1>4, StartKeeps, DiesKeeps, LegacyKeeps DEF Next
  <1> QED BY <1>4, StutterKeeps

LEMMA InitSound == Init => IInv
  <1> SUFFICES ASSUME Init PROVE IInv
    OBVIOUS
  <1>1. PICK s \in InitialStores, b \in BOOLEAN :
          /\ files = [p \in Path |-> IF p = "live" \/ (b /\ p = "backup") THEN s ELSE NoFile]
          /\ committed = {s}
    BY DEF Init
  <1>2. s \in Store /\ Honest(s)
    BY MaintenanceAssumption DEF Honest
  <1>3. FilesInv
    <2>1. /\ files \in [Path -> Store \cup {NoFile}] /\ files["live"] = s
          /\ \A p \in Path : files[p] \in {s, NoFile}
          /\ "live" \in Path /\ "backup" \in Path
      BY <1>1, <1>2 DEF Path
    <2>2. second = NoFile /\ commits \in Nat
      BY DEF Init
    <2>3. /\ \A p \in Path : files[p] # NoFile => Honest(files[p])
          /\ files["backup"] # NoFile => files["backup"] \in committed
      BY <1>1, <1>2, <2>1
    <2> QED BY <1>1, <1>2, <2>1, <2>2, <2>3 DEF FilesInv
  <1>4. LockTypes /\ EnvInv
    <2>1. /\ wal = "none" /\ backupLog = FALSE /\ daemonLock = None /\ writerLock = None
          /\ txn = None /\ daemon = "off" /\ legacy = [pc |-> "off", file |-> "current"]
          /\ writes = 0 /\ jobs = 0
      BY DEF Init
    <2>2. None # "daemon" /\ None # "legacy" /\ 0 \in 0..MaxWrites /\ 0 \in 0..MaxJobs
      BY MaintenanceAssumption
    <2>3. LockTypes
      BY <2>1 DEF LockTypes
    <2>4. EnvInv
      BY <2>1, <2>2 DEF EnvInv
    <2> QED BY <2>3, <2>4
  <1>5. OpsInv
    <2>1. PICK i : i = Idle
      OBVIOUS
    <2>2. /\ i \in Op /\ i.pc = "idle" /\ i.dst = "backup" /\ i.pin = NoFile /\ i.src = "live"
      BY <2>1 DEF Idle, Op, Step, Path
    <2>3. OpInv(i)
      BY <2>2 DEF OpInv
    <2>4. op = [o \in Operators |-> i] /\ daemonLock = None /\ writerLock = None /\ txn = None
      BY <2>1 DEF Init
    <2>5. \A o \in Operators : OpState(o)
      BY <2>2, <2>4, MaintenanceAssumption DEF OpState, Alone, Sound
    <2> QED BY <2>2, <2>3, <2>4, <2>5 DEF OpsInv
  <1> QED BY <1>3, <1>4, <1>5 DEF IInv

-----------------------------------------------------------------------------
(* What a rehearsal relies on                                              *)

Rehearsing == {"fingerprint", "read", "artifact", "upgrade", "smoke", "restore", "compare",
               "last"}

\* A rehearsal works on its own copies; from the comparison of the rollback
\* artifact on that one is what the source fingerprint says, and during the
\* last reading so is the candidate.
RehearsalAt(o) ==
  /\ op[o].pc # "idle" /\ op[o].cmd = "rehearse" => op[o].dst = "candidate"
  /\ op[o].pc \in Rehearsing => op[o].cmd = "rehearse"
  /\ op[o].pc \in {"upgrade", "smoke", "restore", "compare", "last"}
       => files["rollback"] = op[o].mark /\ op[o].mark # NoFile
  /\ op[o].pc = "last" => files["candidate"] = op[o].mark

RInv == \A o \in Operators : RehearsalAt(o)

\* The body of the action property, for one operator.
Told(o) ==
  At(o, "last") /\ op'[o].result = "ok" =>
    /\ files'["candidate"] = files'["rollback"]
    /\ files'["candidate"] \in {op[o].tmp, files["live"]}
Reported == \A o \in Operators : Told(o)

\* The files of a rehearsal, and operator u, are left alone.
CopiesSame == \A p \in {"candidate", "rollback"} : files'[p] = files[p]
Stays(u) ==
  /\ op'[u].cmd = op[u].cmd /\ op'[u].pc = op[u].pc /\ op'[u].dst = op[u].dst
  /\ op'[u].mark = op[u].mark /\ op'[u].result = op[u].result

\* What operator o does to its own copies disturbs no other rehearsal: it has
\* the side files.
LEMMA RehearsalKeeps ==
  ASSUME IInv, RInv, NEW o \in Operators, \A u \in Operators \ {o} : Stays(u),
         CopiesSame \/ Alone(op[o]), RehearsalAt(o)', Told(o)
  PROVE  RInv' /\ Reported
  <1>1. ASSUME NEW u \in Operators, u # o
        PROVE  RehearsalAt(u)' /\ Told(u)
    <2>1. Stays(u) /\ RehearsalAt(u) /\ OpInv(op[u]) /\ OpState(u) /\ OpState(o)
      BY <1>1 DEF IInv, OpsInv, RInv
    <2>2. Told(u)
      BY <2>1, MaintenanceAssumption DEF Told, At, Stays, OpInv
    <2>3. CASE CopiesSame
      BY <2>1, <2>2, <2>3 DEF RehearsalAt, Stays, CopiesSame
    <2>4. CASE Alone(op[o])
      <3>1. daemonLock = o /\ ~Alone(op[u])
        BY <1>1, <2>1, <2>4 DEF OpState
      <3>2. op[u].pc \notin Rehearsing
        BY <2>1, <3>1 DEF Alone, RehearsalAt, Rehearsing
      <3> QED BY <2>1, <2>2, <3>2 DEF RehearsalAt, Stays, Rehearsing
    <2> QED BY <2>2, <2>3, <2>4
  <1> QED BY <1>1 DEF RInv, Reported

\* A step of o that is none of a rehearsal's.
LEMMA PlainKeeps ==
  ASSUME IInv, RInv, NEW o \in Operators, \A u \in Operators \ {o} : Stays(u),
         CopiesSame \/ Alone(op[o]),
         \/ op'[o].pc = "idle" /\ op[o].pc # "last"
         \/ /\ op'[o].pc \notin Rehearsing /\ op[o].pc # "idle"
            /\ op'[o].cmd = op[o].cmd /\ op'[o].dst = op[o].dst /\ op'[o].result # "ok"
  PROVE  RInv' /\ Reported
  <1>1. RehearsalAt(o)'
    BY DEF RInv, RehearsalAt, Rehearsing
  <1>2. Told(o)
    BY DEF Told, At
  <1> QED BY <1>1, <1>2, RehearsalKeeps

LEMMA OthersStay ==
  ASSUME OpsInv, NEW o \in Operators, NEW r, op' = [op EXCEPT ![o] = r]
  PROVE  op'[o] = r /\ \A u \in Operators \ {o} : Stays(u)
  BY DEF OpsInv, Stays

\* The command of o ends before its last reading of the source.
LEMMA EndKeeps ==
  ASSUME IInv, RInv, NEW o \in Operators, NEW result \in {None, "ok", "failed"},
         op' = [op EXCEPT ![o] = [Idle EXCEPT !.result = result]],
         CopiesSame \/ Alone(op[o]), op[o].pc # "last"
  PROVE  RInv' /\ Reported
  <1>1. PICK r : r = [Idle EXCEPT !.result = result]
    OBVIOUS
  <1>2. r \in Op /\ r.pc = "idle"
    BY <1>1, IdleSound DEF OpInv
  <1>3. op'[o] = r /\ \A u \in Operators \ {o} : Stays(u)
    BY <1>1, <1>2, OthersStay DEF IInv
  <1> QED BY <1>2, <1>3, PlainKeeps

\* The command of o goes on, with the fields of r that changed.
LEMMA OnKeeps ==
  ASSUME IInv, RInv, NEW o \in Operators, NEW r, op' = [op EXCEPT ![o] = r],
         op[o].pc # "idle", r.pc \notin Rehearsing, r.cmd = op[o].cmd, r.dst = op[o].dst,
         r.result = op[o].result, CopiesSame \/ Alone(op[o])
  PROVE  RInv' /\ Reported
  <1>1. op'[o] = r /\ \A u \in Operators \ {o} : Stays(u)
    BY OthersStay DEF IInv
  <1>2. r.result # "ok"
    BY MaintenanceAssumption DEF IInv, OpsInv, OpInv
  <1> QED BY <1>1, <1>2, PlainKeeps

LEMMA GoOn ==
  ASSUME IInv, RInv, NEW o \in Operators, NEW pc \in Step \ Rehearsing, Go(o, pc),
         op[o].pc # "idle", CopiesSame \/ Alone(op[o])
  PROVE  RInv' /\ Reported
  <1>1. PICK v, r : v = op[o] /\ v \in Op /\ r = [v EXCEPT !.pc = pc]
    BY DEF IInv, OpsInv
  <1>2. r \in Op /\ r.pc = pc /\ r.cmd = v.cmd /\ r.dst = v.dst /\ r.result = v.result
    BY <1>1 DEF Op
  <1>3. op' = [op EXCEPT ![o] = r]
    BY <1>1 DEF Go
  <1> QED BY <1>1, <1>2, <1>3, OnKeeps

\* The steps that leave every file alone.
LEMMA SameFiles ==
  ASSUME UNCHANGED content
  PROVE  CopiesSame /\ files' = files
  BY DEF content, CopiesSame

\* Starting a command, taking the side files, copying.
LEMMA StartRehearses ==
  ASSUME IInv, RInv, NEW o \in Operators, NEW cmd \in Commands, NEW over \in BOOLEAN,
         NEW target \in 0..1, Start(o, cmd, over, target), IInv'
  PROVE  RInv' /\ Reported
  <1>1. PICK pc, src, dst :
          /\ pc = IF cmd \in Unlocked THEN FirstStep(cmd) ELSE "lock_daemon"
          /\ src = IF cmd = "restore" THEN "backup" ELSE "live"
          /\ dst = CASE cmd = "restore" -> "live" [] cmd = "rehearse" -> "candidate"
                     [] OTHER -> "backup"
    OBVIOUS
  <1>2. pc \in {"lock_daemon", "verify", "count"} /\ (cmd = "rehearse" => dst = "candidate")
    BY <1>1 DEF FirstStep, Unlocked
  <1>3. PICK i, r : /\ i = Idle
                    /\ r = [i EXCEPT !.cmd = cmd, !.over = over, !.target = target,
                                     !.pc = pc, !.src = src, !.dst = dst]
    OBVIOUS
  <1>4. op' = [op EXCEPT ![o] = r]
    BY <1>1, <1>3 DEF Start
  <1>5. r \in Op
    BY <1>4 DEF IInv, OpsInv
  <1>6. i \in Op
    BY <1>3 DEF Idle, Op, Step, Path
  <1>7. r.cmd = cmd /\ r.pc = pc /\ r.dst = dst
    BY <1>3, <1>6 DEF Op
  <1>8. op'[o] = r /\ (\A u \in Operators \ {o} : Stays(u)) /\ op[o].pc = "idle"
    BY <1>4, <1>5, OthersStay DEF IInv, Start, At
  <1>9. CopiesSame
    BY SameFiles DEF Start
  <1>10. RehearsalAt(o)'
    BY <1>2, <1>7, <1>8 DEF RehearsalAt, Rehearsing
  <1>11. Told(o)
    BY <1>8 DEF Told, At
  <1> QED BY <1>8, <1>9, <1>10, <1>11, RehearsalKeeps

LEMMA LockRehearses ==
  ASSUME IInv, RInv, NEW o \in Operators, LockDaemon(o) \/ LockLegacy(o)
  PROVE  RInv' /\ Reported
  <1>1. CopiesSame /\ files' = files /\ op[o].pc \in {"lock_daemon", "lock_legacy"}
    BY SameFiles DEF LockDaemon, LockLegacy, At
  <1>2. CASE Finish(o, "failed")
    BY <1>1, <1>2, EndKeeps DEF Finish
  <1>3. CASE Go(o, "lock_legacy")
    BY <1>1, <1>3, GoOn DEF Step, Rehearsing
  <1>4. CASE Go(o, FirstStep(op[o].cmd))
    <2>1. PICK v, pc, r : /\ v = op[o] /\ v \in Op /\ pc = FirstStep(v.cmd)
                          /\ r = [v EXCEPT !.pc = pc]
      BY DEF IInv, OpsInv
    <2>2. /\ pc \in {"migrate", "check", "erase", "rebuild", "fingerprint", "count", "verify"}
          /\ (pc = "fingerprint" => v.cmd = "rehearse")
      BY <2>1 DEF FirstStep
    <2>3. r \in Op /\ r.pc = pc /\ r.cmd = v.cmd /\ r.dst = v.dst /\ r.result = v.result
      BY <2>1, <2>2 DEF Op, Step
    <2>4. op' = [op EXCEPT ![o] = r]
      BY <1>4, <2>1 DEF Go
    <2>5. op'[o] = r /\ \A u \in Operators \ {o} : Stays(u)
      BY <2>3, <2>4, OthersStay DEF IInv
    <2>6. RehearsalAt(o)'
      BY <1>1, <2>1, <2>2, <2>3, <2>5 DEF RInv, RehearsalAt, Rehearsing
    <2>7. Told(o)
      BY <1>1 DEF Told, At
    <2> QED BY <1>1, <2>5, <2>6, <2>7, RehearsalKeeps
  <1> QED BY <1>2, <1>3, <1>4 DEF LockDaemon, LockLegacy

LEMMA CopyRehearses ==
  ASSUME IInv, RInv, NEW o \in Operators, CopyVerify(o) \/ CopyStage(o) \/ CopyCopy(o)
  PROVE  RInv' /\ Reported
  <1>1. CopiesSame /\ files' = files /\ op[o].pc \in {"verify", "stage", "copy"}
    BY SameFiles DEF CopyVerify, CopyStage, CopyCopy, At
  <1>2. CASE Finish(o, "failed")
    BY <1>1, <1>2, EndKeeps DEF Finish
  <1>3. CASE Go(o, "copy")
    BY <1>1, <1>3, GoOn DEF Step, Rehearsing
  <1>4. CASE \E n : op' = [op EXCEPT ![o].pc = "stage", ![o].rows = n]
    <2>1. PICK v, n : v = op[o] /\ v \in Op /\ op' = [op EXCEPT ![o].pc = "stage", ![o].rows = n]
      BY <1>4 DEF IInv, OpsInv
    <2>2. PICK r : r = [v EXCEPT !.pc = "stage", !.rows = n]
      OBVIOUS
    <2>3. r.pc = "stage" /\ r.cmd = v.cmd /\ r.dst = v.dst /\ r.result = v.result
      BY <2>1, <2>2 DEF Op
    <2>4. op' = [op EXCEPT ![o] = r]
      BY <2>1, <2>2
    <2> QED BY <1>1, <2>1, <2>3, <2>4, OnKeeps DEF Rehearsing
  <1>5. CASE \E s : op' = [op EXCEPT ![o].pc = "publish", ![o].tmp = s]
    <2>1. PICK v, s : v = op[o] /\ v \in Op /\ op' = [op EXCEPT ![o].pc = "publish", ![o].tmp = s]
      BY <1>5 DEF IInv, OpsInv
    <2>2. PICK r : r = [v EXCEPT !.pc = "publish", !.tmp = s]
      OBVIOUS
    <2>3. r.pc = "publish" /\ r.cmd = v.cmd /\ r.dst = v.dst /\ r.result = v.result
      BY <2>1, <2>2 DEF Op
    <2>4. op' = [op EXCEPT ![o] = r]
      BY <2>1, <2>2
    <2> QED BY <1>1, <2>1, <2>3, <2>4, OnKeeps DEF Rehearsing
  <1> QED BY <1>2, <1>3, <1>4, <1>5 DEF CopyVerify, CopyStage, CopyCopy

LEMMA PublishRehearses ==
  ASSUME IInv, RInv, NEW o \in Operators, CopyPublish(o)
  PROVE  RInv' /\ Reported
  <1>1. PICK v : v = op[o] /\ v \in Op /\ OpInv(v) /\ v.pc = "publish"
    BY DEF IInv, OpsInv, CopyPublish, At
  <1>2. CASE Finish(o, "failed") /\ UNCHANGED <<files, committed, legacy>>
    BY <1>1, <1>2, EndKeeps DEF Finish, CopiesSame
  <1>3. CASE /\ Published(o, v.dst, v.tmp)
             /\ op' = [Replaced(o, v.dst) EXCEPT ![o].pc = "counted"]
    <2>1. PICK rep, r : rep = Replaced(o, v.dst) /\ r = [v EXCEPT !.pc = "counted"]
      OBVIOUS
    <2>2. rep[o] = v /\ DOMAIN rep = Operators
      BY <1>1, <2>1 DEF Replaced
    <2>3. r.pc = "counted" /\ r.cmd = v.cmd /\ r.dst = v.dst /\ r.result = v.result
      BY <1>1, <2>1 DEF Op
    <2>4. op'[o] = r /\ \A u \in Operators \ {o} : op'[u] = rep[u]
      <3>1. op' = [rep EXCEPT ![o] = r]
        BY <1>3, <2>1, <2>2
      <3>2. rep = [u \in Operators |-> rep[u]]
        BY <2>1 DEF Replaced
      <3> QED BY <3>1, <3>2
    <2>5. ASSUME NEW u \in Operators \ {o}
          PROVE  Stays(u)
      <3>1. PICK w, f : w = op[u] /\ w \in Op /\ f = files[v.dst]
        BY DEF IInv, OpsInv
      <3>2. rep[u] = w \/ rep[u] = [w EXCEPT !.pin = f]
        BY <2>1, <3>1 DEF Replaced
      <3>3. CASE rep[u] = w
        BY <2>4, <3>1, <3>3 DEF Stays
      <3>4. CASE rep[u] = [w EXCEPT !.pin = f]
        <4>1. PICK x : x = [w EXCEPT !.pin = f]
          OBVIOUS
        <4>2. /\ x.cmd = w.cmd /\ x.pc = w.pc /\ x.dst = w.dst /\ x.mark = w.mark
              /\ x.result = w.result
          BY <3>1, <4>1 DEF Op
        <4>3. op'[u] = x
          BY <2>4, <3>4, <4>1
        <4> QED BY <3>1, <4>2, <4>3 DEF Stays
      <3> QED BY <3>2, <3>3, <3>4
    <2>6. CopiesSame \/ Alone(op[o])
      <3>1. CASE v.dst = "backup"
        BY <3>1, <1>3 DEF Published, CopiesSame, IInv, FilesInv, Path
      <3>2. CASE v.dst # "backup"
        BY <1>1, <3>2 DEF Alone
      <3> QED BY <3>1, <3>2
    <2>7. r.result # "ok"
      BY <1>1, <2>3, MaintenanceAssumption DEF OpInv
    <2> QED BY <1>1, <2>3, <2>4, <2>5, <2>6, <2>7, PlainKeeps DEF Rehearsing
  <1> QED BY <1>1, <1>2, <1>3 DEF CopyPublish

\* A rehearsal that has copied the source goes on to the rollback artifact.
LEMMA CompareRehearses ==
  ASSUME IInv, RInv, NEW o \in Operators,
         CopyCompare(o) \/ \E mode : Secondary(o, mode)
  PROVE  RInv' /\ Reported
  <1>1. CopiesSame /\ files' = files /\ op[o].pc \in {"counted", "second"}
    BY SameFiles DEF CopyCompare, Secondary, At
  <1>2. CASE Finish(o, "failed") \/ Finish(o, "ok")
    BY <1>1, <1>2, EndKeeps DEF Finish
  <1>3. CASE Go(o, "second")
    BY <1>1, <1>3, GoOn DEF Step, Rehearsing
  <1>4. CASE op[o].cmd = "rehearse" /\ Go(o, "artifact")
    <2>1. PICK v, r : v = op[o] /\ v \in Op /\ r = [v EXCEPT !.pc = "artifact"]
      BY DEF IInv, OpsInv
    <2>2. r.pc = "artifact" /\ r.cmd = v.cmd /\ r.dst = v.dst
      BY <2>1 DEF Op
    <2>3. op'[o] = r /\ \A u \in Operators \ {o} : Stays(u)
      BY <1>4, <2>1, OthersStay DEF IInv, Go
    <2>4. RehearsalAt(o)'
      BY <1>1, <1>4, <2>1, <2>2, <2>3 DEF RInv, RehearsalAt, Rehearsing
    <2>5. Told(o)
      BY <1>1 DEF Told, At
    <2> QED BY <1>1, <2>3, <2>4, <2>5, RehearsalKeeps
  <1> QED BY <1>2, <1>3, <1>4 DEF CopyCompare, Secondary

\* The commands on the live database.
LEMMA MigrateRehearses ==
  ASSUME IInv, RInv, NEW o \in Operators,
         Migrate(o) \/ Apply(o) \/ Ledger(o) \/ Commit(o) \/ Patch(o) \/ Verify(o) \/ Erase(o)
           \/ Rebuild(o) \/ Count(o) \/ Drill(o)
  PROVE  RInv' /\ Reported
  <1>1. op[o].pc \in {"migrate", "apply", "ledger", "commit", "patch", "check", "erase",
                      "rebuild", "count", "drill"}
    BY DEF Migrate, Apply, Ledger, Commit, Patch, Verify, Erase, Rebuild, Count, Drill, At
  <1>2. CopiesSame
    <2>1. CASE UNCHANGED content
      BY <2>1, SameFiles
    <2>2. CASE \E s : Becomes(s)
      <3>1. PICK s : files' = [files EXCEPT !["live"] = s]
        BY <2>2 DEF Becomes
      <3> QED BY <3>1 DEF CopiesSame, IInv, FilesInv, Path
    <2> QED BY <2>1, <2>2 DEF Migrate, Apply, Ledger, Commit, Patch, Verify, Erase, Rebuild,
               Count, Drill
  <1>3. CASE Finish(o, "failed") \/ Finish(o, "ok")
    BY <1>1, <1>2, <1>3, EndKeeps DEF Finish
  <1>4. CASE Go(o, "patch")
    BY <1>1, <1>2, <1>4, GoOn DEF Step, Rehearsing
  <1>5. CASE \E pc \in {"apply", "ledger", "commit"} :
               \E s : op' = [op EXCEPT ![o].pc = pc, ![o].tmp = s]
    <2>1. PICK v, pc, s : /\ v = op[o] /\ v \in Op /\ pc \in {"apply", "ledger", "commit"}
                          /\ op' = [op EXCEPT ![o].pc = pc, ![o].tmp = s]
      BY <1>5 DEF IInv, OpsInv
    <2>2. PICK r : r = [v EXCEPT !.pc = pc, !.tmp = s]
      OBVIOUS
    <2>3. r.pc = pc /\ r.cmd = v.cmd /\ r.dst = v.dst /\ r.result = v.result
      BY <2>1, <2>2 DEF Op
    <2>4. op' = [op EXCEPT ![o] = r]
      BY <2>1, <2>2
    <2> QED BY <1>1, <1>2, <2>1, <2>3, <2>4, OnKeeps DEF Rehearsing
  <1>6. CASE \E n : op' = [op EXCEPT ![o].pc = "drill", ![o].rows = n]
    <2>1. PICK v, n : v = op[o] /\ v \in Op /\ op' = [op EXCEPT ![o].pc = "drill", ![o].rows = n]
      BY <1>6 DEF IInv, OpsInv
    <2>2. PICK r : r = [v EXCEPT !.pc = "drill", !.rows = n]
      OBVIOUS
    <2>3. r.pc = "drill" /\ r.cmd = v.cmd /\ r.dst = v.dst /\ r.result = v.result
      BY <2>1, <2>2 DEF Op
    <2>4. op' = [op EXCEPT ![o] = r]
      BY <2>1, <2>2
    <2> QED BY <1>1, <1>2, <2>1, <2>3, <2>4, OnKeeps DEF Rehearsing
  <1>7. CASE Ledger(o)
    <2>1. PICK v, s : v = op[o] /\ v \in Op /\ s = [v.tmp EXCEPT !.schema = 1, !.meta = 1]
      BY DEF IInv, OpsInv
    <2>2. op' = [op EXCEPT ![o].pc = "commit", ![o].tmp = s]
      BY <1>7, <2>1 DEF Ledger
    <2> QED BY <1>5, <2>2
  <1>8. CASE Migrate(o) \/ Apply(o)
    BY <1>3, <1>4, <1>5, <1>8 DEF Migrate, Apply
  <1>9. CASE Commit(o) \/ Patch(o) \/ Verify(o) \/ Erase(o) \/ Rebuild(o)
    BY <1>3, <1>4, <1>9 DEF Commit, Patch, Verify, Erase, Rebuild
  <1>10. CASE Count(o) \/ Drill(o)
    BY <1>3, <1>6, <1>10 DEF Count, Drill
  <1> QED BY <1>7, <1>8, <1>9, <1>10

\* The steps of a rehearsal: it has the side files, so its copies are its own.
LEMMA ReadRehearses ==
  ASSUME IInv, RInv, NEW o \in Operators, Fingerprint(o) \/ FingerprintRead(o)
  PROVE  RInv' /\ Reported
  <1>1. CopiesSame /\ files' = files /\ op[o].pc \in {"fingerprint", "read"}
    BY SameFiles DEF Fingerprint, FingerprintRead, At
  <1>2. CASE Finish(o, "failed")
    BY <1>1, <1>2, EndKeeps DEF Finish
  <1>3. CASE \E t : op' = [op EXCEPT ![o].pc = "read", ![o].tmp = t]
    <2>1. PICK v, t : v = op[o] /\ v \in Op /\ op' = [op EXCEPT ![o].pc = "read", ![o].tmp = t]
      BY <1>3 DEF IInv, OpsInv
    <2>2. PICK r : r = [v EXCEPT !.pc = "read", !.tmp = t]
      OBVIOUS
    <2>3. r.pc = "read" /\ r.cmd = v.cmd /\ r.dst = v.dst
      BY <2>1, <2>2 DEF Op
    <2>4. op' = [op EXCEPT ![o] = r]
      BY <2>1, <2>2
    <2>5. op'[o] = r /\ \A u \in Operators \ {o} : Stays(u)
      BY <2>4, OthersStay DEF IInv
    <2>6. RehearsalAt(o)'
      BY <1>1, <2>1, <2>3, <2>5 DEF RInv, RehearsalAt, Rehearsing
    <2>7. Told(o)
      BY <1>1 DEF Told, At
    <2> QED BY <1>1, <2>6, <2>7, <2>5, RehearsalKeeps
  <1>4. CASE \E d : op' = [op EXCEPT ![o].pc = "verify", ![o].mark = d]
    <2>1. PICK v, d : v = op[o] /\ v \in Op /\ op' = [op EXCEPT ![o].pc = "verify", ![o].mark = d]
      BY <1>4 DEF IInv, OpsInv
    <2>2. PICK r : r = [v EXCEPT !.pc = "verify", !.mark = d]
      OBVIOUS
    <2>3. r.pc = "verify" /\ r.cmd = v.cmd /\ r.dst = v.dst /\ r.result = v.result
      BY <2>1, <2>2 DEF Op
    <2>4. op' = [op EXCEPT ![o] = r]
      BY <2>1, <2>2
    <2> QED BY <1>1, <2>1, <2>3, <2>4, OnKeeps DEF Rehearsing
  <1> QED BY <1>2, <1>3, <1>4 DEF Fingerprint, FingerprintRead

\* The rehearsal of o goes on to pc and has the artifact its mark asks for.
LEMMA GoRehearses ==
  ASSUME IInv, RInv, NEW o \in Operators, op[o].pc \in Rehearsing \ {"last"},
         NEW pc \in {"upgrade", "smoke", "restore", "compare"}, Go(o, pc),
         files'["rollback"] = op[o].mark, op[o].mark # NoFile
  PROVE  RInv' /\ Reported
  <1>1. PICK v, r : v = op[o] /\ v \in Op /\ r = [v EXCEPT !.pc = pc]
    BY DEF IInv, OpsInv
  <1>2. r.pc = pc /\ r.cmd = v.cmd /\ r.dst = v.dst /\ r.mark = v.mark
    BY <1>1 DEF Op
  <1>3. op'[o] = r /\ \A u \in Operators \ {o} : Stays(u)
    BY <1>1, OthersStay DEF IInv, Go
  <1>4. RehearsalAt(o)'
    BY <1>1, <1>2, <1>3 DEF RInv, RehearsalAt, Rehearsing
  <1>5. Told(o)
    BY DEF Told, At
  <1>6. Alone(op[o])
    BY DEF Alone, RInv, RehearsalAt, Rehearsing
  <1> QED BY <1>3, <1>4, <1>5, <1>6, RehearsalKeeps

LEMMA CopiesRehearse ==
  ASSUME IInv, RInv, NEW o \in Operators, Artifact(o) \/ Upgrade(o) \/ Smoke(o) \/ Rollback(o)
  PROVE  RInv' /\ Reported
  <1>1. op[o].pc \in {"artifact", "upgrade", "smoke", "restore"}
    BY DEF Artifact, Upgrade, Smoke, Rollback, At
  <1>2. op[o].pc \in Rehearsing \ {"last"} /\ Alone(op[o]) /\ RehearsalAt(o)
    BY <1>1 DEF Alone, RInv, RehearsalAt, Rehearsing
  <1>3. CASE Finish(o, "failed")
    BY <1>2, <1>3, EndKeeps DEF Finish
  <1>4. CASE Artifact(o) /\ ~Finish(o, "failed")
    <2>1. /\ files' = [files EXCEPT !["rollback"] = files["candidate"]]
          /\ files["candidate"] = op[o].mark /\ op[o].mark # NoFile /\ Go(o, "upgrade")
      BY <1>4 DEF Artifact, Sound
    <2>2. files'["rollback"] = op[o].mark
      BY <2>1 DEF IInv, FilesInv, Path
    <2> QED BY <1>2, <2>1, <2>2, GoRehearses
  <1>5. CASE (Upgrade(o) \/ Smoke(o) \/ Rollback(o)) /\ ~Finish(o, "failed")
    <2>1. \E c : /\ files' = [files EXCEPT !["candidate"] = c]
                 /\ Go(o, "smoke") \/ Go(o, "restore") \/ Go(o, "compare")
      <3>1. PICK d, x : d = files["candidate"] /\ x = [d EXCEPT !.rows = @ + 1]
        OBVIOUS
      <3>2. [files EXCEPT !["candidate"].rows = @ + 1] = [files EXCEPT !["candidate"] = x]
        BY <3>1
      <3> QED BY <1>5, <3>2 DEF Upgrade, Smoke, Rollback
    <2>2. files'["rollback"] = files["rollback"]
      BY <2>1 DEF IInv, FilesInv, Path
    <2>3. files["rollback"] = op[o].mark /\ op[o].mark # NoFile
      BY <1>2, <1>5 DEF RehearsalAt, Upgrade, Smoke, Rollback, At
    <2> QED BY <1>2, <2>1, <2>2, <2>3, GoRehearses
  <1> QED BY <1>3, <1>4, <1>5

LEMMA LastRehearses ==
  ASSUME IInv, RInv, NEW o \in Operators, RollbackCompare(o)
  PROVE  RInv' /\ Reported
  <1>1. CopiesSame /\ files' = files /\ op[o].pc = "compare" /\ RehearsalAt(o)
    BY SameFiles DEF RollbackCompare, At, RInv
  <1>2. CASE Finish(o, "failed")
    BY <1>1, <1>2, EndKeeps DEF Finish
  <1>3. CASE /\ files["candidate"] = op[o].mark
             /\ op' = [op EXCEPT ![o].pc = "last", ![o].tmp = files["live"]]
    <2>1. PICK v, t : /\ v = op[o] /\ v \in Op /\ t = files["live"]
                      /\ op' = [op EXCEPT ![o].pc = "last", ![o].tmp = t]
      BY <1>3 DEF IInv, OpsInv
    <2>2. PICK r : r = [v EXCEPT !.pc = "last", !.tmp = t]
      OBVIOUS
    <2>3. r.pc = "last" /\ r.cmd = v.cmd /\ r.dst = v.dst /\ r.mark = v.mark
      BY <2>1, <2>2 DEF Op
    <2>4. op' = [op EXCEPT ![o] = r]
      BY <2>1, <2>2
    <2>5. op'[o] = r /\ \A u \in Operators \ {o} : Stays(u)
      BY <2>4, OthersStay DEF IInv
    <2>6. RehearsalAt(o)'
      BY <1>1, <1>3, <2>1, <2>3, <2>5 DEF RehearsalAt, Rehearsing
    <2>7. Told(o)
      BY <1>1 DEF Told, At
    <2> QED BY <1>1, <2>6, <2>7, <2>5, RehearsalKeeps
  <1> QED BY <1>2, <1>3 DEF RollbackCompare

\* The report: candidate and artifact are the mark, and the mark is what the
\* last reading found.
LEMMA UnchangedRehearses ==
  ASSUME IInv, RInv, NEW o \in Operators, Unchanged(o)
  PROVE  RInv' /\ Reported
  <1>1. /\ CopiesSame /\ files' = files /\ op[o].pc = "last" /\ RehearsalAt(o)
        /\ op[o] \in Op
    BY SameFiles DEF Unchanged, At, RInv, IInv, OpsInv
  <1>2. PICK d \in Digests(o), result \in {"ok", "failed"} :
          Finish(o, result) /\ (result = "ok" => d = op[o].mark)
    BY DEF Unchanged
  <1>3. PICK r : r = [Idle EXCEPT !.result = result]
    OBVIOUS
  <1>4. r \in Op /\ r.pc = "idle" /\ r.result = result
    BY <1>3, IdleSound DEF OpInv
  <1>5. op'[o] = r /\ \A u \in Operators \ {o} : Stays(u)
    BY <1>2, <1>3, OthersStay DEF IInv, Finish
  <1>6. RehearsalAt(o)'
    BY <1>4, <1>5 DEF RehearsalAt, Rehearsing
  <1>7. files["candidate"] = op[o].mark /\ files["rollback"] = op[o].mark
    BY <1>1 DEF RehearsalAt
  <1>8. files["candidate"] # NoFile
    <2>1. op[o].mark # NoFile
      BY <1>1 DEF RehearsalAt
    <2> QED BY <1>7, <2>1
  <1>9. Told(o)
    BY <1>1, <1>2, <1>4, <1>5, <1>7, <1>8 DEF Told, Digests
  <1> QED BY <1>1, <1>5, <1>6, <1>9, RehearsalKeeps

\* The writers touch neither the commands nor the files of a rehearsal.
LEMMA WritersRehearse ==
  ASSUME IInv, RInv, DaemonStep \/ LegacyStep \/ UNCHANGED vars
  PROVE  RInv' /\ Reported
  <1>1. op' = op
    BY DEF DaemonStep, DaemonAcquire, DaemonOpen, DaemonWrite, DaemonClose, LegacyStep,
       LegacyProbe, LegacyOpen, LegacyLock, LegacyAdd, LegacySupersede, LegacyUpdate,
       LegacyClose, vars
  <1>2. UNCHANGED content \/ \E s : Becomes(s)
    BY DEF DaemonStep, DaemonAcquire, DaemonOpen, DaemonWrite, DaemonClose, LegacyStep,
       LegacyProbe, LegacyOpen, LegacyLock, LegacyAdd, LegacySupersede, LegacyUpdate,
       LegacyClose, LegacyCommit, vars, content
  <1>3. CopiesSame
    <2>1. CASE UNCHANGED content
      BY <2>1, SameFiles
    <2>2. CASE \E s : Becomes(s)
      <3>1. PICK s : files' = [files EXCEPT !["live"] = s]
        BY <2>2 DEF Becomes
      <3> QED BY <3>1 DEF CopiesSame, IInv, FilesInv, Path
    <2> QED BY <1>2, <2>1, <2>2
  <1>4. RInv'
    BY <1>1, <1>3 DEF RInv, RehearsalAt, CopiesSame
  <1>5. Reported
    BY <1>1, MaintenanceAssumption DEF Reported, Told, At, IInv, OpsInv, OpInv
  <1> QED BY <1>4, <1>5

LEMMA DiesRehearses ==
  ASSUME IInv, RInv, NEW o \in Operators, OperatorDies(o)
  PROVE  RInv' /\ Reported
  <1>0. PICK i : i = Idle
    OBVIOUS
  <1>1. i = Idle /\ i.pc = "idle" /\ i.result = None
    BY <1>0 DEF Idle
  <1>2. op'[o] = i /\ (\A u \in Operators \ {o} : Stays(u)) /\ CopiesSame
    BY <1>1, OthersStay, SameFiles DEF IInv, OperatorDies
  <1>3. RehearsalAt(o)'
    BY <1>1, <1>2 DEF RehearsalAt, Rehearsing
  <1>4. Told(o)
    BY <1>1, <1>2, MaintenanceAssumption DEF Told
  <1> QED BY <1>2, <1>3, <1>4, RehearsalKeeps

LEMMA StepRehearses ==
  ASSUME IInv, RInv, [Next]_vars
  PROVE  RInv' /\ Reported
  <1>1. IInv'
    BY StepKeeps DEF Kept
  <1>2. ASSUME NEW o \in Operators, OperatorStep(o)
        PROVE  RInv' /\ Reported
    BY <1>2, LockRehearses, CopyRehearses, PublishRehearses, CompareRehearses,
       MigrateRehearses, ReadRehearses, CopiesRehearse, LastRehearses, UnchangedRehearses
       DEF OperatorStep, CopyStep
  <1>3. CASE Next
    BY <1>1, <1>2, <1>3, StartRehearses, DiesRehearses, WritersRehearse DEF Next
  <1> QED BY <1>3, WritersRehearse

-----------------------------------------------------------------------------
(* The theorems                                                            *)

LEMMA Inductive == Spec => []IInv
  <1>1. IInv /\ [Next]_vars => IInv'
    BY StepKeeps DEF Kept
  <1> QED BY <1>1, InitSound, PTL DEF Spec

\* Every variable keeps its type, and no side file or transaction is left with
\* a command that has ended, whether it returned, raised or was killed
\* (maintenance_database_lock).
THEOREM TypeCorrect == Spec => []TypeOK
  <1>1. IInv => TypeOK
    <2> SUFFICES ASSUME IInv PROVE TypeOK
      OBVIOUS
    <2>1. ASSUME NEW o \in Operators
          PROVE  /\ op[o].cmd \in Command \cup {None} /\ op[o].pc \in Step
                 /\ op[o].src \in Path /\ op[o].dst \in Path /\ op[o].rows \in Nat
                 /\ {op[o].tmp, op[o].mark, op[o].pin} \subseteq Store \cup {NoFile}
                 /\ op[o].result \in {None, "ok", "failed"}
                 /\ (op[o].pc = "idle" => daemonLock # o /\ writerLock # o /\ txn # o)
      <3>1. PICK v : v = op[o] /\ v \in Op /\ OpState(o)
        BY DEF IInv, OpsInv
      <3>2. /\ v.cmd \in Command \cup {None} /\ v.pc \in Step
            /\ v.src \in Path /\ v.dst \in Path /\ v.rows \in Nat
            /\ v.tmp \in Store \cup {NoFile} /\ v.mark \in Store \cup {NoFile}
            /\ v.pin \in Store \cup {NoFile} /\ v.result \in {None, "ok", "failed"}
        BY <3>1 DEF Op
      <3> QED BY <3>1, <3>2 DEF OpState
    <2> QED BY <2>1 DEF TypeOK, IInv, FilesInv, LockTypes, EnvInv
  <1> QED BY <1>1, Inductive, PTL

\* What is published as a backup, or as its secondary copy, is a database that
\* the live path once held, whatever was written, replaced or killed while it
\* was made (_atomic_path_destination, _copy).
THEOREM BackupsComplete == Spec => []PublishedComplete
  <1>1. IInv => PublishedComplete
    BY DEF IInv, FilesInv, PublishedComplete
  <1> QED BY <1>1, Inductive, PTL

\* In every database file the version records agree and version 1 has its
\* shape, wherever a migration is interrupted and whatever is copied from it
\* (migrate, _atomic_path_destination).
THEOREM LedgersHonest == Spec => []LedgerHonest
  <1>1. IInv => LedgerHonest
    BY DEF IInv, FilesInv, LedgerHonest, Honest
  <1> QED BY <1>1, Inductive, PTL

\* A command changes the live database only while no daemon serves it and no
\* provider is inside an add, and never replaces it next to a log with the
\* commits of a daemon (maintenance_database_lock,
\* _assert_no_destination_sidecars).
THEOREM ChangesAtRest == Spec => LiveChangedAtRest
  <1>1. IInv /\ [Next]_vars =>
          [op' # op /\ files'["live"] # files["live"] =>
             /\ daemon # "up" /\ legacy.pc \notin {"locked", "added"}
             /\ \A o \in Operators : op'[o].pc = "counted" /\ op[o].pc = "publish"
                                     /\ op[o].dst = "live" => wal # "daemon"]_vars
    BY StepKeeps DEF Kept, ChangedAtRest
  <1> QED BY <1>1, Inductive, PTL DEF Spec, LiveChangedAtRest


\* A rehearsal that reports success leaves the candidate and the rollback
\* artifact alike and as the live database was while it was read for the last
\* time (rehearse_snapshot).
THEOREM RehearsalsHonest == Spec => RehearsalHonest
  <1>1. Init => RInv
    <2> SUFFICES ASSUME Init PROVE RInv
      OBVIOUS
    <2>0. PICK i : i = Idle
      OBVIOUS
    <2>1. i = Idle /\ i.pc = "idle"
      BY <2>0 DEF Idle
    <2>2. op = [o \in Operators |-> i]
      BY <2>1 DEF Init
    <2> QED BY <2>1, <2>2 DEF RInv, RehearsalAt, Rehearsing
  <1>2. IInv /\ RInv /\ [Next]_vars => RInv'
    BY StepRehearses
  <1>3. IInv /\ RInv /\ [Next]_vars =>
          [\A o \in Operators : At(o, "last") /\ op'[o].result = "ok" =>
             /\ files'["candidate"] = files'["rollback"]
             /\ files'["candidate"] \in {op[o].tmp, files["live"]}]_vars
    BY StepRehearses DEF Reported, Told
  <1> QED BY <1>1, <1>2, <1>3, Inductive, PTL DEF Spec, RehearsalHonest
=============================================================================
