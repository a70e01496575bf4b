# Enfold in TLA+

Enfold is a local memory service for coding agents. A daemon owns one SQLite
database; agents connect over a Unix socket and write facts, typed state and
corrections, search them, and resolve conflicts. Background workers embed facts
and extract proposals from transcripts. An operator backs up, restores,
migrates and erases while the daemon is down. An older provider, which runs
inside its host and shares its database with MCP servers, is still there for
databases without a schema version. This directory holds TLA+ modules of that
system, TLC configurations that check them on small instances, and proofs that
TLAPS checks for instances of every size.

Run, inside this directory, `tlc -config <cfg> <MC module>` for a run of
`PROJECT.json` and `tlapm <module>Proofs.tla` for the proofs.

## 1. Inventory of the system

| Part | State it keeps | Operations that change it | Hard behaviour | Module |
|---|---|---|---|---|
| Write service (`write_service.py`, `provenance.py`) | facts, observations, provenance edges, clients, sessions, idempotency log | one `write` transaction with about a dozen endings | retries, duplicates, supersession by five routes | `FactStore` |
| State slots (`state_slots.py`) | typed columns of facts, conflicts and their members | open, join, resolve a conflict | long call sequences; a partial unique index | `FactStore`, `StateSlot` |
| Policy (`policy.py`) | immutable grants | none; decides | every route must ask it | `FactStore` |
| Erasure (`erasure.py`, `ops.py`) | rewrites all of the above and the queues | `erase_fact`, with the daemon stopped | shared evidence, old memberships, half-written extraction rows | `FactStore`, `EmbeddingJobs`, `Extraction`, `Maintenance` |
| Embedding outbox (`embedding_jobs.py`) | job rows with leases, stored vectors | enqueue, backfill, claim, settle, fail | a model call between read and write, crashes, expiry, dead letters | `EmbeddingJobs`, `EmbeddingCoverage` |
| Extraction (`extraction_*.py`, `extract_queue.py`, `host_extraction.py`) | queue rows with leases and proposal snapshots | enqueue, claim, renew, persist snapshot, write, complete, fail | lost leases, a model that answers differently each time, re-enqueue | `Extraction` |
| Daemon application (`server.py`) | ownership lock, worker threads | start, serve, close | a start that is refused half way, a stop that fails half way | `Daemon` |
| Socket daemon, protocol, client (`daemon.py`, `protocol.py`, `client.py`, `read_pool.py`) | socket identity, connections, negotiated contexts | bind, accept, negotiate, handle, shut down | threads, stale sockets, shutdown races, retries after a lost answer | `Daemon` |
| Request service (`service.py`) | none of its own | dispatch; resolution and extraction enqueue transactions | | `FactStore`, `Extraction` |
| Backup, restore, rehearsal (`backup*.py`, `rehearsal.py`) | database files and side files | copy, verify, publish, roll back | a kill between two steps, logs of a replaced file | `Maintenance` |
| Schema (`schema.py`) | version ledger and metadata record | migrate, patch | refusals, partly migrated stores | `Maintenance` |
| Operator commands (`ops.py`) | locks taken for one command | all of the above | two operators, a daemon that starts in between | `Maintenance` |
| Write lock (`write_lock.py`) | `flock` and a depth per process | enter, leave | depth shared by threads | `ProviderFacts`, `Maintenance` |
| Legacy provider: background (`__init__.py`, `extract_queue.py`) | sessions, worker, pool and backfill threads, transcript queue | initialize, shutdown, drain, embed | threads of an older session, quota errors, crashes | `ProviderQueue` |
| Legacy provider and MCP server: facts (`__init__.py`, `mcp_server.py`, `temporal.py`, `reflection.py`) | the fact table of a version 0 database | add, update, supersede, batch, reflect | search, insert and supersede are separate transactions, two processes | `ProviderFacts` |
| Retrieval and projections (`hybrid_retrieval.py`, `projections.py`, `context.py`, ...) | none | none | needs vector coverage | none |
| MCP servers, adapters, model subprocesses | none | none | deadlines, degraded reads | partly `Daemon`, `Extraction` |

How they interact. A request reaches `EnfoldService`, which authorises the
context and runs one `BEGIN IMMEDIATE` transaction on the write connection. The
transaction that settles a fact also enqueues its embedding job, so the outbox
is part of the same database. The embedding worker has a connection of its own
and commits separately, which is where interleavings come from. Extraction
workers write through the same write service with idempotency keys derived from
the transcript and the stored answer. Erasure and the other commands run in
another process and take the side file the daemon holds while it runs and the
one the legacy writers take for each add; what erasure leaves uncovered is
repaired by the backfill at the next start.

What makes each part correct:

* store: one settled value per slot; every open conflict can be closed; a
  retry takes effect once; active facts have authorised evidence; history is
  append-only and its chains end; automation never replaces protected truth
  unreviewed;
* erasure: evidence stays blank; conflicts and slots stay consistent; no copy
  of the text is left in a queue;
* outbox: a settled fact never falls out of both the outbox and the vectors;
  no stale vector is stored; every job ends;
* extraction: all writes of a row come from one stored answer, in its order
  and up to the first refusal, a row goes only when all of it is written, every
  row ends;
* daemon: only the owner of the database commits; nobody is served after the
  shutdown; "ok" means committed; the socket path leads to the one who listens;
* maintenance: a published file is complete; the ledger tells the truth; the
  live file changes only at rest; a rehearsal that reports success left a
  candidate and a rollback that are alike and as the live file was when it was
  last read;
* provider: stores are closed only behind the worker and the backfill thread
  (running pool tasks are not waited for); transcripts settle; facts get their
  vectors once the embedding backend is found; nobody gets in between the
  searches and the insert of a gated write; a fact is superseded once; every
  writer gets out of the lock.

## 2. Modules

| Module | Models | State |
|---|---|---|
| `FactStore` | the transactions of the store: `write`, `_resolve_conflict`, `erase_fact`, a settled embedding job, start and stop | one variable per table; row ids are sequence positions |
| `StateSlot` | abstract: what a typed slot promises its readers | the facts a slot shows, and whether they are disputed |
| `EmbeddingCoverage` | abstract: what the outbox promises the store | sets of fact ids |
| `EmbeddingJobs` | the outbox and its processors: leases, attempts, dead letters, crashes | one status and one job per fact, one claim per processor |
| `Extraction` | the daemon's transcript queue and its processors | queue rows, the work of each processor, the write log, the evidence of each content |
| `Daemon` | server processes, their main thread, workers and connection threads, and the clients | ownership, the inode at the socket path, one record per connection and per client, the committed requests |
| `Maintenance` | operators' commands, the daemon and the legacy provider on the database files | files, side logs, two side-file locks, the step of each command |
| `ProviderQueue` | the background work of the legacy provider | sessions with their threads, queue rows, facts and vectors |
| `ProviderFacts` | writes to a version 0 database by two processes and the write lock | fact rows, the operation each thread is in, the three levels of the lock |
| `MC...` | instances for TLC | |
| `FactStoreProofs`, `FactStoreSafetyProofs` | theorems about `FactStore`: types and history; slots, evidence, keys and both refinements | |
| `EmbeddingJobsProofs`, `ExtractionProofs`, `DaemonProofs`, `MaintenanceProofs`, `ProviderQueueProofs`, `ProviderFactsProofs` | theorems about the module each is named after | |

`FactStore` implements `StateSlot` (through `SlotView`) and
`EmbeddingCoverage`; `EmbeddingJobs` implements `EmbeddingCoverage` too. The
contract is thus where the two detailed modules meet: `FactStore` treats an
embedding job as one step, `EmbeddingJobs` reduces a fact to its status.
`Extraction` and `Daemon` rely on `FactStore` for one thing, that a key takes
effect once (`OneEffectPerKey`), and reduce a write to its key and its decision.

A definition marked as a mutant is a plausible mistake in the definition that
follows it. No specification uses one; each shows that a property would notice
the mistake.

### FactStore

A transaction that raises is rolled back, so it has no action. `write` is split
by its ending: `ReplayWrite`, `RefuseWrite` (policy decision without a fact),
`MatchState`, `AddState`, `SupersedeState`, `OpenConflict`, `JoinConflict` for
typed candidates and `DedupUntyped`, `InsertUntyped`, `NearDuplicateLoses`,
`NearDuplicateWins` for the others (named for the stored fact's fate). Each of
them contains everything up to the commit: registering client and session,
recording the observation, the provenance edge, the job and the log row.

Abstractions. Contents, values, slots, scopes and keys are atoms; equality is
all the code uses of them. `slot` is the pair (subject_key, predicate_key).
Similarity of contents is the constant relation `Near`. Authority and trust
are numbers that are only compared. `invalid_at` is a flag. The text of a
credential or secret is the field `screen`. `claim` distinguishes a request
that only asserts a correction from one that also marks the fact. Clocks are
read into `Times`; a later write has a later timestamp. Client disabling,
branch and commit of a session, excerpts, `detail_json`, entity links and the
full text index are left out. `InsertUntyped` may happen next to a near
duplicate, as the gate may be off, fail or miss it; when it does find some it
takes the best of them. The partial unique index on settled slots is
also left out, on purpose: `SlotUnique` shows it never has to refuse a row.

### EmbeddingJobs

`claim` is `ClaimJob` or `ClaimNothing` (the sweep of exhausted jobs is part of
both), the unprotected read of `process_one` is `ReadFact`, and the settling
transactions are `CommitPrepared`, `SettleInactive` and `FailJob`. Each of them
checks the lease token again; without it `LoseLease` happens. Any other database
error is `AbandonJob`: the claim is forgotten and the lease runs out. A crash or
shutdown is `StopServer`. `StartServer` runs the backfill and then refuses to
serve if there is a dead letter. The store's transactions appear as `InsertFact`,
`InsertContested`, `InsertRetired`, `ResolveWinner`, `Retire` and `EraseFact`.

Time is one flag per row, `due`, so any delay is possible; a lease token is the
name of its processor. `EraseFact` is allowed while a processor works, which is
more than the operator's command does: `erase_fact` and the processor are
written to be safe against each other without the ownership lock.

### Extraction

`Enqueue` is the transaction of `extraction_enqueue.py` with its screens and its
early return for a payload that is queued already. A processor goes through
`Claim`, `LoadSnapshot` or `ModelAnswers`, `PersistSnapshot`, one
`WriteProposal` (or `ReplayProposal`, when the key is in the log) per proposal
and `Complete`; every one of them is a transaction, renews the lease or checks
it, and may fail: `PersistFails`, `WriteFails` (also of a replay) and the second
disjunct of `Complete` lead to `Fail`, the recorded failure with back-off or
death. `LoseLease` is the silent exit when that record cannot be made, as the
token is gone or the database fails.
`EraseFact` follows the observations of a fact to the rows that produced them.
The heartbeat thread is `TimePasses`: a lease may expire at any time or never.
Texts are atoms, a snapshot stands for its hash, `flaw` is the reason for which
a proposal is refused and `Quotes` says which transcript contains a fact's text.

### Daemon

The steps of the main thread are those of `ServerApplication` and
`UnixJsonDaemon`: `Start` (ownership), `Open`, `Probe` / `Recheck` /
`UnlinkStale` (the stale socket), `Bind`, `Listen` or `ListenFails`, `Accept`,
`Register`, and
the way down, `StopAccepting`, `CloseListener`, `UnlinkOwned`, `CloseClients`,
`Join`, `StopWorker`, `Disconnect`, `Release`, `Exit`. A connection thread reads
(`HandleFrame`, `HangUp`), waits for the write lane (`EnterLane`), commits or
fails, and sends. A client connects, sends any frame, receives or gives up and
may ask again. A crash leaves the inode at the path and the committed writes. A
socket inode is named after its process; frames are kinds; a request is its
client. The connection limit and its counter are left out: a refused connection
is the same early close as one that comes during the shutdown. All processes
are daemons of one database, so its ownership lock keeps them apart and
`Recheck` always finds the inode that was probed; a process that serves another
database on the same path is not modelled, and `PathIsServed` says nothing of it.

### Maintenance

A database is a record of what the commands compare. `Start` chooses a command;
`LockDaemon` and `LockLegacy` are the two side files; `CopyVerify` to
`Secondary` are the staged copy, shared by backup, restore and rehearsal;
`Migrate` and its successors are the one transaction of `migrate` in the order
of its statements. The rehearsal is `Fingerprint` and `FingerprintRead` of the
source, the copy, `Artifact`, `Upgrade`, `Smoke`, `Rollback`, `RollbackCompare`
and the second fingerprint that ends in `Unchanged`. A fingerprint reads table
by table: a provider that commits meanwhile leaves any mixture of before and
after (`Digests`). `Count` and `Drill` are the restore drill. `OperatorDies` is
a kill at any step, which leaves a log if the operator was connected for
writing. The daemon and the provider appear as far as they hold locks, write and leave a
write-ahead log. A log with frames that meets a replaced file tears the
database; that SQLite would notice is assumed.

### ProviderQueue and ProviderFacts

`ProviderQueue` names threads after the session that started them. `Initialize`,
`Teardown` with `StopThreads` and `JoinThreads`, `Reinitialize`, `Shutdown` and
`Crash` are the host; `Claim`, `Extract`, `Insert`, `Complete`, `Fail` and
`FailUnrecorded` are `_drain_extract_queue`; `WorkerDrained` and `WorkerTicked`
are the periodic backfill; `Task` and `Fill` the pool and the start-up backfill.
A content stands for all facts the near-duplicate gate equates. `available` is
`_embedder_available`, the answer of the embedding backend to the one probe of
an initialize: it guards the start-up backfill, the periodic one and the embed
callback, so a session that did not find the backend embeds nothing.

`ProviderFacts` opens up what `Insert` does: `Gate` and `Check` (searches),
`Add`, `Link`, `Cascade` (the insert, the supersession and the insights that
cite the old fact) under `Enter`, `Flock`, `Exit` and `Unlock`. `StoreFree` is
the lock of the agent's store, which an extraction batch keeps over its inserts.
What the text gates take for a restatement or a value update is two relations
on texts, `Restating` and `Updating`, of which nothing is assumed. A search
returns at most `Limit` facts of the writer's category and may miss facts below
its minimum trust; one of the updates among them, whichever comes first, is the
target, and the history
field `passed` keeps what the gate let pass. The parent store
(`add_fact`, `update_fact`, `remove_fact`, `search_facts`) is not part of the
repository and is modelled from its uses and from `tests/fake_hermes.py`.

## 3. Runs

| Run | Instance | States | Shows |
|---|---|---|---|
| `slots` | three contexts (an automated client, also from another surface, and a human one), two keys, one slot, four typed payloads | 127 thousand | conflicts can always be closed, protected facts are not replaced unreviewed, `StateSlot` is implemented |
| `history` | three contexts with more, fewer and no granted scopes, three keys, ten payloads: ties, insights, near and exact duplicates, targets on both sides, refusals; erasure, restarts, outbox on | 103 thousand | slots unique, chains end, a key takes effect once, evidence attributed, authorised and redacted, coverage, append-only history |
| `outbox` | two facts, two processors, two attempts, fairness | 62 thousand | coverage contract, no vector of an erased fact, a fact that stays settled gets a vector or a dead letter |
| `extraction` | two processors, two rows, two attempts, four answers, a transcript enqueued again, database failures, fairness | 223 thousand | the promises of section 1 and `EventuallyFinished` |
| `daemon` | two processes, one client that sends anything, two connections, one crash | 1.06 million | the promises of section 1 |
| `maintenance` | two operators, two commands of eight, one write, four initial databases with and without a backup | 772 thousand | the promises of section 1 |
| `provider_queue` | one transcript with one fact, two attempts, two sessions, a backend found or not, fairness | 92 thousand | the promises of section 1, two of them liveness |
| `provider_facts` | two texts that update each other, an insight, two categories, three rows, three operations, failures, fairness | 167 thousand | `GateNotRaced`, `SupersededOnce`, `WritersLeave` |
| `erasure_conflict`, `extraction_erasure`, `daemon_stop`, `provider_flip` | smallest instances that reach the disagreement | | violations, see section 6 |

Bounds. A client uses each idempotency key once, so keys times clients bounds
the writes. Four typed writes are enough to open a conflict, join it, resolve it
and write again; three with ten payloads are enough for the interplay of two
conflicts, or of a chain, with an erasure. Two processors and two facts or rows
give every overlap of claims; two attempts distinguish the first, the last and
an exhausted claim. Two server processes give every hand-over of the path and
the database, one crash leaves a stale socket, two connections let a client ask
again while its first request runs. Two commands are what it takes for one to
meet the leftovers of the other. Two sessions are the old threads and the new
ones; with three operations each thread of `ProviderFacts` can be in one. Keys,
processes, connections and operators are symmetric where no liveness is
checked. Deadlock is checked in every passing run except `provider_facts`, where
the last operation ends the run by its bound; the violation run `provider_flip`
shares that bound.

`ConflictsResolvable` holds in `slots`, where nothing is erased, and is violated
in the run that erases. `SupersessionReviewed` states the exception of the first
disagreement without a run of section 6.

### Fairness

* `outbox`: `SupervisedEmbeddingWorker._run` loops until it is stopped and
  catches every exception, so a processor that can step does; model calls end by
  answer or timeout; clocks advance. Nothing is assumed about writers,
  operators, failures or restarts. The antecedent `<>[]serving` says that the
  daemon eventually stays up.
* `extraction`: the same for its worker. A lease need not expire while its
  processor lives, as the heartbeat renews it; the row of a dead one comes due.
* `daemon_stop`: the main thread runs and the workers' jobs end. Nothing else.
* `provider_queue`: the host finishes what it began and starts the provider
  again after a shutdown or a kill; threads run; clocks advance. All weakly.
  Strong fairness is assumed of the periodic backfill of a session that found
  its backend: a worker that is drained again and again finds the interval
  passed at some time, and the embedding model, asked again and again, answers
  at some time. The answer to the probe of an initialize is not constrained, and
  a session asks only once; the antecedent `<>[]available` of `FactsEmbedded`
  says that from some session on it is yes. The extractor may fail for ever,
  which is why `TranscriptsSettle` allows a dead row.
* `provider_facts`: a thread that can step does; the wait for the file lock is
  strongly fair, since `write_lock.py` blocks in `flock`, whose waiters the
  kernel queues.

## 4. Proofs

Every invariant, action property and refinement of the passing runs is a
theorem, for every value of the constants that satisfies the assumptions of its
module. TLC evaluates these assumptions on the instances of section 3:
`ConstantsAssumption` (sets of the right type, positive times, insights have no
slot), `EmbeddingAssumption`, `ExtractionAssumption`, `DaemonAssumption`,
`QueueAssumption` (types, and that markers such as `None` are not members),
`FactsAssumption` (finite sets of texts and categories, nothing of the two
relations between texts) and `MaintenanceAssumption` (the same, and that the initial databases have honest
version records: `migrate` is what makes them so).

A temporal theorem has three parts: the initial states satisfy the inductive
invariant (`IInv`), every step preserves it, it implies the property. What makes
a property not inductive by itself is where its argument lies:

| Module | Theorems | What the strengthening adds, and why it is needed |
|---|---|---|
| `FactStoreProofs` | `TypeCorrect`, `SupersessionAcyclic`, `HistoryPreserved` | `SupersededInvalid`: a superseded fact is invalid. Ids do not order a chain of successors, so the argument is about sets: if every non-empty set of facts has a member whose successor is outside, then a step that gives successors only to active facts, and only one target that is active afterwards, preserves that |
| `FactStoreSafetyProofs` | `SlotUniqueness` | `SlotInv`: flags point to open conflicts (`FlagsOpen`), the members of an open conflict are active facts of its slot and carry its flag unless they are in another conflict too (`OpenConflicts`), two active facts of a slot share an open conflict (`RivalsContested`). Erasure clears the flag of a fact that is contested again, so flags alone do not keep rivals apart; that at most one member of a conflict can have lost its flag does |
| | `EvidenceIsAuthorized`, `EvidenceStaysRedacted` | `EvidenceInv`, both together: what erasure redacts must not be the evidence an active fact depends on; uses `SlotInv` for the rows erasure touches. `OneSession`: a session id has one row, since it is registered again only with the same grants |
| | `KeysTakeEffectOnce` | `KeyInv`: the log is finite, so that its insertions can be counted along with the rows |
| | `SupersessionIsReviewed` | from `SlotInv`: whom a resolution retires carries a flag, and erasure retires but supersedes nothing |
| | `StoreImplementsCoverage` | hypothesis `Embedding`; a step lemma per action |
| | `ConflictsStayResolvable` | hypothesis `Erasable = {}`; `MembersFlagged`, which only erasure breaks |
| | `StoreImplementsStateSlot` | hypotheses `Near = {}` and `Erasable = {}`; `MembersFlagged` |
| `EmbeddingJobsProofs` | `TypeCorrect`, `ErasedNeverEmbedded`, `CoverageImplemented`, `OutboxCovers` | `JobInv`: an absent fact has no job, a fact without a job has no vector (an enqueue opens a job only where no vector is, as the contract asks), and a busy processor has a fact |
| `ExtractionProofs` | `TypeCorrect`, `OneAnswer`, `CompletedWritten`, `InOrder`, `UnsafeUnwritten` | `WorkInv`: no lease protects the writes of a processor, so what it relies on must hold for one that has lost it: its answer is still the stored one, its row still has a transcript, the proposals before its index are accepted. `LogInv`, `DoneInv`: the same for what was written and completed |
| `DaemonProofs` | `TypeCorrect`, `OneWriter`, `ClientsStayClosed`, `AnswersAreTrue`, `PathServed` | `ProcessInv`: each step of the main thread outside `down` and `exit` owns the lock; who owns it alone binds, so `path = p` is equivalent to a range of steps, and no cleanup meets the socket of a successor on the same database. `Fits`: a connection on its way to answer "ok" to a write has committed that write for its client, and the client still asks what the row says |
| `MaintenanceProofs` | `TypeCorrect`, `BackupsComplete`, `LedgersHonest`, `ChangesAtRest`, `RehearsalsHonest` | `OpInv`: the migration's transaction statement by statement, and that a pinned or staged copy is honest. `OpState`: what is copied was committed; both side files are held from before the first write to the live database (`Alone`); since staging found no log of the daemon, no daemon has written. `RInv`, a second layer on top of `IInv`: from the comparison on, the rollback artifact is what the source fingerprint says, and during the last reading so is the candidate, whatever was left by a rehearsal that was killed |
| `ProviderQueueProofs` | `TypeCorrect`, `ClosedQuietly`, `DoneStored` | `JoinInv`: the join and the closing of the store are separate steps, and no thread of the session starts in between. `RowInv`, `WorkerInv`: a worker about to complete has stored its facts, although its row may belong to another |
| `ProviderFactsProofs` | `TypeCorrect`, `SupersededStays`, `GateSerial` | `LockInv`: which thread has the file lock, given the depth per process. `GatedInv`: of every active fact its text is related to, whoever is about to add has passed it or chosen it as target; searches and insert are separate transactions, and only the lock keeps this true between them |

The hypotheses of three theorems name configurations of the program, and are
those of the runs. Without an embedder the store enqueues nothing, so the
contract of the outbox is no promise of it. With erasure `ConflictsResolvable`
is false, which the run `erasure_conflict` shows. A near duplicate or an erasure
can empty a slot that was settled, which `StateSlot` does not allow; what stays
true then is `SlotUniqueness`, without hypotheses.

Each strengthening has also been checked by TLC, as an invariant of the module's
run. The bounds on sessions, rows, commands, crashes and operations are
constants of the proofs too, so they hold for any of them.

Only model-checked, since liveness under fairness is out of the prover's reach:
`EventuallyEmbedded`, `EventuallyFinished`, `TranscriptsSettle`, `FactsEmbedded`
and `WritersLeave`. The runs of section 6 are counterexamples and need no proof.

## 5. Not modelled

* Retrieval, ranking, projections and context assembly: read-only, with floating
  point scores. What they need from the outbox is `EmbeddingCoverage!Covered`.
* Read operations and their output bounds, `fact_history`, `schema-status` and
  `browse-snapshot`: they change nothing. `run_rehearsal` chains commands.
* The rewriting of `detail_json` by `erase_fact`, the connection limit of the
  daemon, the parsing of the configuration and the attestation of artifacts.
* The offline merge of near-duplicate clusters and the backfill script: they run
  alone on a store nobody serves.
* In `ProviderFacts`, the embedding row that follows an update or a removal of a
  fact; `ProviderQueue` has the embedding of inserted facts only. The rebuild of
  all embeddings of the legacy provider is left out.
* Pipes and HTTP of the model subprocesses: a call answers, fails or is killed.
* `memory_eval` and the evaluation tools: measurements, no service state.

## 6. Where documentation and code disagree

With a run that shows it:

* `erasure_conflict`: erasing the loser of a resolved conflict clears the flag
  its winner carries for a newer open conflict, which nobody can resolve any
  more (`erasure.py:263`, against `docs/SECOND_BRAIN_SPEC.md:288`).
* `extraction_erasure`: the proposal snapshot of a row that was stopped between
  two writes keeps the text of a fact that is erased later (`erasure.py:209`,
  against `erasure.py:4`).
* `daemon_stop`: when the extraction worker outlasts the shutdown timeout, its
  `stop` raises and the embedding worker is never stopped, so the process stays
  the owner of the database (`server.py:1112`, against
  `docs/SERVER_DEPLOYMENT.md:71`).
* `provider_flip`: a value changed and changed back ends with two facts that
  supersede each other (`mcp_server.py:340`, against `mcp_server.py:311`).

Met while modelling; the models follow the code and no run is about them:

* The near-duplicate path does not ask the supersession policy, so automation
  retires protected or more authoritative facts (`write_service.py:679`, against
  `docs/SECOND_BRAIN_SPEC.md:363`). `SupersessionReviewed` names this exception.
* A new row that loses to a near duplicate gets no provenance
  (`write_service.py:690`, against `docs/SECOND_BRAIN_SPEC.md:448`).
  `EvidenceAuthorized` therefore asks it of active facts.
* The depth of the write lock belongs to the process: a second thread enters as
  if nested, and the first one's exit unlocks while it is still inside
  (`write_lock.py:22`). `gated` in `ProviderFacts` excludes that case from
  `GateNotRaced`, so no property covers the exclusion that is lost then.
* The gates of an add search the category it is given, above a minimum trust,
  and look at three results (`__init__.py:1731`, `__init__.py:1766`). Two adds
  in different categories, or one whose older fact is missed by the search,
  leave both facts live (against `mcp_server.py:311`). `GateNotRaced` therefore
  speaks of what the searches of the writer returned.
* A re-initialization closes the store behind the worker and the backfill
  thread, but a running pool task is not waited for (`__init__.py:806`), while
  the comment at `__init__.py:625` counts it among those the connection is left
  open for. `ClosedStoresQuiet` is about the two threads.
* A worker that finds a newer generation leaves its row in `processing` until
  the lease of 600 s expires (`__init__.py:762` says the row stays pending).
* A backup whose counts differ from the source is reported after the destination
  was replaced (`backup.py:444`, against `tests/test_backup.py:141`).
* The provider probes the schema version and then opens the database; a
  migration may fall in between (`__init__.py:587`).
* `memory_supersede` with the content of the old fact supersedes it by itself.
* A payload that is enqueued again after its row was completed, and answered
  with the same proposals, ends as a dead letter: its keys repeat with other
  metadata (`extraction_enqueue.py:63`).
* A read-only connection may leave an empty log next to the database, which
  makes a later overwrite refuse.

## 7. Plan

Done: all modules of section 2, their runs, and the theorems of section 4, which
leave no safety property of a passing run unproved. Left, in order of
importance:

1. theorems that say more than a run does: that the slots stay unique and
   covered when `FactStore` and `EmbeddingJobs` are composed through
   `EmbeddingCoverage`, and the weaker contract of a slot that erasure and near
   duplicates leave intact;
2. the safety half of the liveness properties: a row that is neither claimed nor
   final can be claimed, and attempts only grow;
3. common lemmas of the proofs on tables of rows, which several modules state
   for themselves.
