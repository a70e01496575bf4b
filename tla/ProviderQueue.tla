---------------------------- MODULE ProviderQueue ----------------------------
(***************************************************************************)
(* The background work of the legacy in-process provider (EnfoldProvider): *)
(* the persistent queue of transcripts (ExtractQueue), the worker thread   *)
(* that drains it, the embedding pool and the backfill, across initialize, *)
(* shutdown and crashes of the host.                                       *)
(*                                                                         *)
(* Every initialize starts a session: a store connection, a worker, a      *)
(* backfill thread and a pool.  Threads of an earlier session live on      *)
(* until they look at their stop event or at the generation; the           *)
(* generation of a thread is current exactly when its session is.  A       *)
(* content stands for all facts that the near-duplicate gate equates.      *)
(***************************************************************************)
EXTENDS Naturals, FiniteSets

CONSTANTS
  Payload,      \* transcripts
  Answer,       \* Answer[p]: what the model may extract from p
  MaxRows,      \* bound on the rows ever inserted
  MaxAttempts,  \* _queue_max_attempts
  MaxSessions   \* bound on the calls of initialize

ASSUME QueueAssumption ==
  /\ IsFiniteSet(Payload) /\ \A p \in Payload : IsFiniteSet(Answer[p])
  /\ MaxRows \in Nat /\ MaxAttempts \in Nat \ {0} /\ MaxSessions \in Nat

Content == UNION {Answer[p] : p \in Payload}
Session == 1..MaxSessions
RowId == 1..MaxRows

VARIABLES
  host,     \* the host's thread: "down", "up", or inside a teardown
  session,  \* the current session, 0 when there is none
  started,  \* sessions so far
  store,    \* [Session -> the connection: "none", "open", "closed"]
  stop,     \* [Session -> the stop events]
  worker,   \* [Session -> the worker thread]
  fill,     \* [Session -> what its backfill thread has left to embed]
  pool,     \* there is an embed pool
  quiet,    \* what the last _teardown_background returned
  available,\* _embedder_available: what the backend answered to the last initialize
  tasks,    \* embedding tasks that were submitted and not finished
  rows,     \* [RowId -> row of extract_queue]
  mem,      \* _queue_mem_attempts
  facts,    \* contents in the store
  vectors   \* contents with a vector

vars == <<host, session, started, store, stop, worker, fill, pool, quiet, available,
          tasks, rows, mem, facts, vectors>>
lifecycle == <<host, session, started, store, stop, pool, quiet, available>>

\* not_before and the lease are read as due and expired, created_at as old;
\* quota: the last_error of a dead row matches QUOTA_ERROR_PATTERNS.
NoRow == [payload |-> 0, status |-> "none", attempts |-> 0, owner |-> 0,
          expired |-> FALSE, due |-> TRUE, old |-> FALSE, quota |-> FALSE]
Active(row) == row.status \in {"pending", "processing"}
Resting == [pc |-> "off", row |-> 0, facts |-> {}]

\* The type invariant; a worker that is on a row has read that row, and the
\* current session has an open store.
TypeOK ==
  /\ host \in {"down", "up", "reinit", "shutdown"}
  /\ session \in 0..started /\ started \in 0..MaxSessions
  /\ store \in [Session -> {"none", "open", "closed"}]
  /\ stop \in [Session -> BOOLEAN] /\ {pool, quiet, available} \subseteq BOOLEAN
  /\ \A s \in Session :
       /\ worker[s].pc \in {"off", "claim", "llm", "insert", "complete",
                            "failed", "drained", "tick"}
       /\ worker[s].row \in 0..MaxRows /\ worker[s].facts \subseteq Content
       /\ (worker[s].row # 0 => rows[worker[s].row].payload \in Payload)
       /\ fill[s] \subseteq facts
  /\ (session # 0 => pool /\ store[session] = "open" /\ ~stop[session])
  /\ tasks \subseteq [content: Content, session: 0..MaxSessions, store: Session,
                      pc: {"queued", "running"}]
  /\ \A r \in RowId : /\ rows[r].status \in {"none", "pending", "processing", "dead", "done"}
                      /\ rows[r].attempts \in 0..MaxAttempts
                      /\ (rows[r].status = "processing" <=> rows[r].owner # 0)
  /\ facts \subseteq Content /\ vectors \subseteq Content

\* A row that died of quota errors while those still cost attempts.
QuotaDeadRow(p) == [NoRow EXCEPT !.payload = p, !.status = "dead",
                                 !.attempts = MaxAttempts, !.quota = TRUE]

\* The database may hold facts without a vector, and one such row.
Init ==
  /\ host = "down" /\ session = 0 /\ started = 0 /\ pool = FALSE /\ quiet = TRUE
  /\ available = FALSE
  /\ store = [s \in Session |-> "none"] /\ stop = [s \in Session |-> FALSE]
  /\ worker = [s \in Session |-> Resting]
  /\ fill = [s \in Session |-> {}]
  /\ tasks = {} /\ facts \in SUBSET Content /\ vectors = {}
  /\ \E row \in {NoRow} \cup {QuotaDeadRow(p) : p \in Payload} :
       rows = [r \in RowId |-> IF r = 1 THEN row ELSE NoRow]
  /\ mem = [r \in RowId |-> 0]

-----------------------------------------------------------------------------
(* initialize, shutdown, crash. *)

\* is_quota_error, and the age cap.
QuotaDead(row) == row.status = "dead" /\ row.quota /\ ~row.old
\* revive_dead: the oldest dead row of a payload, unless one is active.
Revivable(r) ==
  /\ QuotaDead(rows[r])
  /\ \A q \in RowId : rows[q].payload = rows[r].payload =>
       ~Active(rows[q]) /\ (rows[q].status = "dead" => r <= q)
Revived == [r \in RowId |->
  IF Revivable(r) THEN [rows[r] EXCEPT !.status = "pending", !.attempts = 0, !.due = TRUE,
                                              !.quota = FALSE]
                  ELSE rows[r]]

\* The rest of initialize after the teardown: the store, the embedding layer,
\* which is asked once whether it is available, its backfill if it is, the
\* queue with the revived rows, and the worker.
Begin(s) ==
  /\ host' = "up" /\ session' = s /\ started' = s /\ pool' = TRUE
  /\ worker' = [worker EXCEPT ![s].pc = "claim"]
  /\ available' \in BOOLEAN
  /\ fill' = [fill EXCEPT ![s] = IF available' THEN facts \ vectors ELSE {}]
  /\ rows' = Revived /\ mem' = [r \in RowId |-> 0]

Initialize ==
  /\ host = "down" /\ started < MaxSessions
  /\ Begin(started + 1)
  /\ store' = [store EXCEPT ![started + 1] = "open"]
  /\ UNCHANGED <<stop, quiet, tasks, facts, vectors>>

\* _teardown_background: first the generation changes ...
Teardown(kind) ==
  /\ host = "up" /\ started < MaxSessions
  /\ host' = kind /\ session' = 0
  /\ UNCHANGED <<started, store, stop, worker, fill, pool, quiet, available, tasks,
                 rows, mem, facts, vectors>>

\* ... then the stop events are set ...
StopThreads ==
  /\ host \in {"reinit", "shutdown"} /\ ~stop[started]
  /\ stop' = [stop EXCEPT ![started] = TRUE]
  /\ UNCHANGED <<host, session, started, store, worker, fill, pool, quiet, available, tasks,
                 rows, mem, facts, vectors>>

\* Mutant: the backfill thread is not waited for.
QuiescentWorker(s) == worker[s].pc = "off"

\* ... then each thread is joined for half a second, which tells whether it
\* ended, and the pool goes with the tasks it has not started.
Quiescent(s) == worker[s].pc = "off" /\ fill[s] = {}
JoinThreads ==
  /\ host \in {"reinit", "shutdown"} /\ stop[started] /\ pool
  /\ quiet' = Quiescent(started) /\ pool' = FALSE
  /\ tasks' = {t \in tasks : t.pc # "queued"}
  /\ UNCHANGED <<host, session, started, store, stop, worker, fill, available, rows, mem,
                 facts, vectors>>

\* A re-initialize opens the next store and closes the previous one when the
\* background work had ended, and leaks it otherwise.
Reinitialize ==
  /\ host = "reinit" /\ ~pool
  /\ Begin(started + 1)
  /\ store' = [store EXCEPT ![started + 1] = "open",
                            ![started] = IF quiet THEN "closed" ELSE @]
  /\ UNCHANGED <<stop, quiet, tasks, facts, vectors>>

\* shutdown: the parent drops the store without closing it.
Shutdown ==
  /\ host = "shutdown" /\ ~pool
  /\ host' = "down"
  /\ UNCHANGED <<session, started, store, stop, worker, fill, pool, quiet, available, tasks,
                 rows, mem, facts, vectors>>

\* The host dies at any point; the database stays.
Crash ==
  /\ started > 0 /\ started < MaxSessions
  /\ host' = "down" /\ session' = 0 /\ pool' = FALSE /\ quiet' = TRUE /\ tasks' = {}
  /\ available' = FALSE
  /\ store' = [s \in Session |-> "none"] /\ stop' = [s \in Session |-> FALSE]
  /\ worker' = [s \in Session |-> Resting]
  /\ fill' = [s \in Session |-> {}]
  /\ UNCHANGED <<started, rows, mem, facts, vectors>>

-----------------------------------------------------------------------------
(* Filling the queue, and time. *)

\* enqueue returns the active row of the same payload, if there is one.
Queued(p) == \E r \in RowId : rows[r].payload = p /\ Active(rows[r])

\* on_session_end and on_pre_compress
Enqueue(p) ==
  /\ host = "up" /\ ~Queued(p)
  /\ \E r \in RowId :
       /\ rows[r] = NoRow /\ \A q \in RowId : q < r => rows[q] # NoRow
       /\ rows' = [rows EXCEPT ![r] = [NoRow EXCEPT !.payload = p, !.status = "pending"]]
  /\ UNCHANGED <<lifecycle, worker, fill, tasks, mem, facts, vectors>>

\* A lease of 600 s runs out, a quota window reopens, a row gets 48 h old.
Expire(r) ==
  /\ rows[r].status = "processing" /\ ~rows[r].expired
  /\ rows' = [rows EXCEPT ![r].expired = TRUE]
  /\ UNCHANGED <<lifecycle, worker, fill, tasks, mem, facts, vectors>>
Due(r) ==
  /\ ~rows[r].due /\ rows' = [rows EXCEPT ![r].due = TRUE]
  /\ UNCHANGED <<lifecycle, worker, fill, tasks, mem, facts, vectors>>
Age(r) ==
  /\ rows[r].status \notin {"none", "done"} /\ ~rows[r].old
  /\ rows' = [rows EXCEPT ![r].old = TRUE]
  /\ UNCHANGED <<lifecycle, worker, fill, tasks, mem, facts, vectors>>

-----------------------------------------------------------------------------
(* The worker thread of session s. *)

At(s, pc) == worker[s].pc = pc
Go(s, pc) == worker' = [worker EXCEPT ![s].pc = pc]
\* The drain is left.
Break(s) == worker' = [worker EXCEPT ![s] = [Resting EXCEPT !.pc = "drained"]]
Current(s) == session = s
Kept == <<lifecycle, fill, tasks, facts, vectors>>

\* _queue_worker_loop: drain unless stopped.
Loop(s) == worker' = [worker EXCEPT ![s] = [Resting EXCEPT !.pc = IF stop[s] THEN "off" ELSE "claim"]]

\* What _backfill_embeddings finds missing, unless it is stale.
Missing(s) == IF Current(s) THEN facts \ vectors ELSE {}
\* Its chunks, unless stopped or stale by then; embedding some may fail.  A
\* write to a closed connection raises and is swallowed.
Stored(s, cs) == IF store[s] = "open" THEN vectors \cup cs ELSE vectors
Chunks(s, missing) ==
  \E cs \in SUBSET missing :
    vectors' = IF Current(s) /\ ~stop[s] THEN Stored(s, cs) ELSE vectors

\* Mutant: the only backfill is that of initialize.
WorkerDrainedOnly(s) ==
  /\ At(s, "drained") /\ Loop(s)
  /\ UNCHANGED <<Kept, rows, mem>>

\* After a drain the worker may run a backfill itself, when the last
\* initialize found the backend available.
WorkerDrained(s) ==
  /\ At(s, "drained")
  /\ \/ Loop(s)
     \/ /\ available
        /\ worker' = [worker EXCEPT ![s].pc = "tick", ![s].facts = Missing(s)]
  /\ UNCHANGED <<Kept, rows, mem>>
WorkerTicked(s) ==
  /\ At(s, "tick")
  /\ Chunks(s, worker[s].facts) /\ Loop(s)
  /\ UNCHANGED <<lifecycle, fill, tasks, rows, mem, facts>>

\* Mutant: leases never run out.
ClaimableFree(r) ==
  /\ rows[r].attempts < MaxAttempts /\ rows[r].due /\ mem[r] < MaxAttempts
  /\ rows[r].status = "pending"

\* next_pending: the oldest row that is due and free, or whose lease ran out.
Claimable(r) ==
  /\ rows[r].attempts < MaxAttempts /\ rows[r].due /\ mem[r] < MaxAttempts
  /\ \/ rows[r].status = "pending"
     \/ rows[r].status = "processing" /\ rows[r].expired
Claim(s) ==
  /\ At(s, "claim")
  /\ IF stop[s] \/ ~\E r \in RowId : Claimable(r)
       THEN Break(s) /\ UNCHANGED rows
       ELSE \E r \in RowId :
              /\ Claimable(r) /\ \A q \in RowId : Claimable(q) => r <= q
              /\ rows' = [rows EXCEPT ![r].status = "processing", ![r].owner = s,
                                      ![r].expired = FALSE]
              /\ worker' = [worker EXCEPT ![s].pc = "llm", ![s].row = r]
  /\ UNCHANGED <<Kept, mem>>

\* Mutant: the row is completed before its facts are stored.
ExtractDone(s) ==
  /\ At(s, "llm")
  /\ \E c \in SUBSET Answer[rows[worker[s].row].payload] :
       IF Current(s) THEN worker' = [worker EXCEPT ![s].pc = "complete", ![s].facts = c]
                     ELSE Break(s)
  /\ UNCHANGED <<Kept, rows, mem>>

\* extract_facts_from_transcript.  A stale answer is dropped, also when it is
\* seen to be stale only under the write lock, which is taken if there are
\* facts.
Extract(s) ==
  /\ At(s, "llm")
  /\ \E c \in SUBSET Answer[rows[worker[s].row].payload] :
       IF Current(s)
         THEN worker' = [worker EXCEPT ![s].pc = IF c = {} THEN "complete" ELSE "insert",
                                       ![s].facts = c]
         ELSE Break(s)
  /\ UNCHANGED <<Kept, rows, mem>>
\* _submit_embed, with the provider as it is now: to the pool, inline while
\* there is none.  During a teardown the task gets the generation of the
\* session to come and the store of the last.
Submit(cs) ==
  LET task(c) == [content |-> c, pc |-> "queued", store |-> started,
                  session |-> CASE session # 0 -> session
                                [] host = "reinit" -> started + 1
                                [] OTHER -> 0]
  IN \/ /\ pool
        /\ tasks' = tasks \cup {task(c) : c \in cs} /\ UNCHANGED vectors
     \/ /\ ~pool
        /\ vectors' \in {vectors, Stored(started, cs)} /\ UNCHANGED tasks
\* _embed_cb: nowhere without a backend, or after a shutdown.
EmbedCb(cs) == IF available /\ host # "down" THEN Submit(cs) ELSE UNCHANGED <<tasks, vectors>>

\* insert_facts goes through the facts one by one, and some may fail.
Insert(s) ==
  /\ At(s, "insert")
  /\ \E done \in SUBSET worker[s].facts :
       /\ facts' = facts \cup done
       /\ EmbedCb(done \ facts)
       /\ Go(s, IF done = worker[s].facts THEN "complete" ELSE "failed")
  /\ UNCHANGED <<lifecycle, fill, rows, mem>>

\* Mutant: a settled row keeps its lease.
SettledOwned(row, status) == [row EXCEPT !.status = status, !.expired = FALSE]

\* Only the owner of the lease completes, fails or releases a row.
Owns(s) == rows[worker[s].row].status = "processing" /\ rows[worker[s].row].owner = s
Settled(row, status) == [row EXCEPT !.status = status, !.owner = 0, !.expired = FALSE]
Done(row) == [NoRow EXCEPT !.payload = row.payload, !.status = "done"]

\* mark_done
Complete(s) ==
  /\ At(s, "complete")
  /\ LET r == worker[s].row IN
     IF ~Current(s) THEN Break(s) /\ UNCHANGED <<rows, mem>>
     ELSE /\ \E pc \in {"claim", "drained"} :     \* _extract_drain_batch
               worker' = [worker EXCEPT ![s] = [Resting EXCEPT !.pc = pc]]
          /\ rows' = IF Owns(s) THEN [rows EXCEPT ![r] = Done(@)] ELSE rows
          /\ mem' = [mem EXCEPT ![r] = 0]
  /\ UNCHANGED <<lifecycle, fill, tasks, facts, vectors>>

\* What mark_quota_failed and mark_failed make of a row.
QuotaFailed(row) ==
  IF row.old THEN [Settled(row, "dead") EXCEPT !.due = TRUE, !.quota = TRUE]
             ELSE [Settled(row, "pending") EXCEPT !.due = FALSE]
Failed(row) ==
  [Settled(row, IF row.old \/ row.attempts + 1 >= MaxAttempts THEN "dead" ELSE "pending")
     EXCEPT !.attempts = row.attempts + 1]

\* The model call, insert_facts or mark_done raised.
Raised(s, error) ==
  \/ At(s, "llm")
  \/ error = "other" /\ At(s, "failed")
  \/ error = "other" /\ At(s, "complete") /\ Current(s)

\* The error path.  A stale worker leaves the row as it is; the release that
\* follows for a stopped worker is never reached, since the generation changes
\* before the stop event is set.  A quota error costs no attempt; the wait
\* after any other ends early when the worker is stopped.
Fail(s) ==
  /\ LET r == worker[s].row
         Put(row) == rows' = IF Owns(s) THEN [rows EXCEPT ![r] = row] ELSE rows
         Continue == worker' = [worker EXCEPT ![s] = [Resting EXCEPT !.pc = "claim"]]
     IN
     \/ Raised(s, "other") /\ ~Current(s) /\ Break(s) /\ UNCHANGED <<rows, mem>>
     \/ /\ Raised(s, "quota") /\ Current(s) /\ Continue
        /\ Put(QuotaFailed(rows[r])) /\ UNCHANGED mem
     \/ /\ Raised(s, "other") /\ Current(s) /\ Continue
        /\ Put(Failed(rows[r])) /\ mem' = [mem EXCEPT ![r] = IF @ < MaxAttempts THEN @ + 1 ELSE @]
  /\ UNCHANGED <<lifecycle, fill, tasks, facts, vectors>>

\* The failure cannot be recorded: it is counted in memory, the claim is
\* released if that is possible, and the drain is left.
FailUnrecorded(s) ==
  /\ Raised(s, "other") /\ Current(s)
  /\ LET r == worker[s].row IN
     /\ mem' = [mem EXCEPT ![r] = IF @ < MaxAttempts THEN @ + 1 ELSE @]
     /\ rows' \in {rows, IF Owns(s) THEN [rows EXCEPT ![r] = Settled(@, "pending")] ELSE rows}
  /\ Break(s)
  /\ UNCHANGED <<lifecycle, fill, tasks, facts, vectors>>

WorkerStep(s) ==
  \/ Claim(s) \/ Extract(s) \/ Insert(s) \/ Complete(s) \/ Fail(s)
  \/ FailUnrecorded(s) \/ WorkerDrained(s) \/ WorkerTicked(s)

-----------------------------------------------------------------------------
(* Embedding: the pool and _backfill_embeddings. *)

\* _embed_and_store: the generation is looked at before and after the model,
\* which may fail.
Task(t) ==
  /\ t \in tasks
  /\ LET stale == t.session # session
         rest == tasks \ {t}
     IN
     \/ /\ t.pc = "queued"
        /\ tasks' = IF stale THEN rest ELSE rest \cup {[t EXCEPT !.pc = "running"]}
        /\ UNCHANGED vectors
     \/ /\ t.pc = "running" /\ tasks' = rest
        /\ vectors' \in {vectors, IF stale THEN vectors ELSE Stored(t.store, {t.content})}
  /\ UNCHANGED <<lifecycle, worker, fill, rows, mem, facts>>

\* The backfill thread, which read what is missing when it was started.
Fill(s) ==
  /\ fill[s] # {}
  /\ Chunks(s, fill[s])
  /\ fill' = [fill EXCEPT ![s] = {}]
  /\ UNCHANGED <<lifecycle, worker, tasks, rows, mem, facts>>

\* The host's thread inside initialize or shutdown.
HostStep == Initialize \/ StopThreads \/ JoinThreads \/ Reinitialize \/ Shutdown

Next ==
  \/ HostStep \/ Teardown("reinit") \/ Teardown("shutdown") \/ Crash
  \/ \E p \in Payload : Enqueue(p)
  \/ \E r \in RowId : Expire(r) \/ Due(r) \/ Age(r)
  \/ \E s \in Session : WorkerStep(s) \/ Fill(s)
  \/ \E t \in tasks : Task(t)

\* The host starts the provider again, every thread is scheduled, leases and
\* quota windows end, rows age, a backfill of a session that found its backend
\* comes due again and again, and the embedding model now and then answers it.
\* Neither the extractor nor the answer to the probe is constrained.
Fairness ==
  /\ WF_vars(HostStep)
  /\ \A r \in RowId : WF_vars(Expire(r)) /\ WF_vars(Due(r)) /\ WF_vars(Age(r))
  /\ \A s \in Session :
       /\ WF_vars(WorkerStep(s))
       /\ SF_vars(WorkerDrained(s) /\ worker'[s].pc = "tick")
       /\ SF_vars(WorkerTicked(s) /\ (Current(s) => vectors' = vectors \cup worker[s].facts))

Spec == Init /\ [][Next]_vars
FairSpec == Spec /\ Fairness

-----------------------------------------------------------------------------
(* Properties. *)

\* A row is taken off the queue only when everything that was extracted from
\* it is in the store, whichever session, retry or second owner did it
\* (_drain_extract_queue).
DoneRowsStored ==
  [][\A r \in RowId : rows[r].status # "done" /\ rows'[r].status = "done" =>
       worker[rows[r].owner].facts \subseteq facts]_vars

\* A store is closed only when the worker and the backfill thread of its
\* session have ended (_teardown_background, initialize).
ClosedStoresQuiet == \A s \in Session : store[s] = "closed" => worker[s].pc = "off" /\ fill[s] = {}

\* A transcript that was queued is in the end extracted or given up, through
\* crashes, re-initializations and lost leases, unless the running process
\* dropped it because it could not record its failures (on_session_end: "a
\* crash before extraction completes does not lose the transcript").
TranscriptsSettle ==
  \A r \in RowId : Active(rows[r]) ~> (~Active(rows[r]) \/ mem[r] >= MaxAttempts)

\* Once the sessions that start find the embedding backend, every fact gets
\* its vector, also one of an earlier session whose backend was down, although
\* its task may be cancelled, stale, failed or bound to a closed store
\* (_submit_embed: "a fact is never silently lost"; _teardown_background:
\* "backfill re-embeds them").  A session whose probe failed never asks again.
FactsEmbedded == <>[]available => \A c \in Content : c \in facts ~> c \in vectors
=============================================================================
