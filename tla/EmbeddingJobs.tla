--------------------------- MODULE EmbeddingJobs ---------------------------
(***************************************************************************)
(* The leased embedding outbox of embedding_jobs.py: the rows of           *)
(* embedding_jobs and fact_embeddings, the processors that work on them,   *)
(* and what the rest of the store does to the facts meanwhile.  A           *)
(* processor reads, calls the model and writes in separate transactions,   *)
(* so writes, resolutions, erasures, expiries and crashes fall in between. *)
(*                                                                         *)
(* Time is kept as the flag due of a row: available_at <= now for a        *)
(* pending job, lease_expires_at <= now for a claimed one.  A lease token  *)
(* is fresh for every claim; a processor has one claim at a time, so its   *)
(* name stands for the token of its current claim.  The content of a       *)
(* settled fact never changes (FactStore!HistoryAppendOnly), so the        *)
(* content hash, and the branch that requeues a changed one, are left out. *)
(***************************************************************************)
EXTENDS Naturals, FiniteSets

CONSTANTS
  MaxFacts,     \* bound on the facts of a run
  Worker,       \* processors; the daemon has one
  MaxAttempts,  \* claims before a job is given up
  NoWorker      \* the NULL lease token

ASSUME EmbeddingAssumption ==
  /\ MaxFacts \in Nat
  /\ MaxAttempts \in Nat \ {0}
  /\ NoWorker \notin Worker

Fact == 1..MaxFacts
Status == {"absent", "settled", "contested", "retired", "erased"}
Job == [state: {"none", "pending", "processing", "completed", "dead_letter"},
        attempts: 0..MaxAttempts, token: Worker \cup {NoWorker}, due: BOOLEAN]
Claim == [pc: {"idle", "claimed", "embedding", "settling"},
          fact: 0..MaxFacts, attempts: 0..MaxAttempts]

VARIABLES
  status,   \* what the fact tables say of each fact
  job,      \* the embedding job of each fact
  vectors,  \* facts with a row in fact_embeddings
  claims,   \* what each processor is doing
  serving   \* TRUE while a daemon owns the database

vars == <<status, job, vectors, claims, serving>>

TypeOK ==
  /\ status \in [Fact -> Status]
  /\ job \in [Fact -> Job]
  /\ vectors \subseteq Fact
  /\ claims \in [Worker -> Claim]
  /\ serving \in BOOLEAN

NoJob == [state |-> "none", attempts |-> 0, token |-> NoWorker, due |-> FALSE]
FreshJob == [NoJob EXCEPT !.state = "pending", !.due = TRUE]
Idle == [pc |-> "idle", fact |-> 0, attempts |-> 0]

Known == {f \in Fact : status[f] # "absent"}
SettledFacts == {f \in Fact : status[f] = "settled"}

\* Facts that were stored before the outbox was provisioned have no job.
Init ==
  /\ \E n \in 0..MaxFacts :
       status = [f \in Fact |-> IF f <= n THEN "settled" ELSE "absent"]
  /\ job = [f \in Fact |-> NoJob]
  /\ vectors = {}
  /\ claims = [w \in Worker |-> Idle]
  /\ serving = FALSE
-----------------------------------------------------------------------------
(* The transactions of the service                                         *)

\* enqueue_in_transaction: insert, or reopen a completed job whose vector is
\* missing.  Pending, claimed and dead jobs stay as they are.
Enqueued(f) ==
  IF job[f].state = "none" \/ (job[f].state = "completed" /\ f \notin vectors)
    THEN FreshJob ELSE job[f]

NextFact(f) == f \in Fact \ Known /\ \A g \in Fact \ Known : f <= g

InsertFact(f) ==
  /\ serving
  /\ NextFact(f)
  /\ status' = [status EXCEPT ![f] = "settled"]
  /\ job' = [job EXCEPT ![f] = Enqueued(f)]
  /\ UNCHANGED <<vectors, claims, serving>>

\* A candidate that joins a conflict, or opens one with the settled facts of
\* its slot.  Only the candidate is enqueued.
InsertContested(f) ==
  /\ serving
  /\ NextFact(f)
  /\ \E rivals \in SUBSET SettledFacts :
       /\ rivals # {} \/ \E g \in Fact : status[g] = "contested"
       /\ status' = [g \in Fact |-> IF g \in rivals \cup {f} THEN "contested"
                                    ELSE status[g]]
  /\ job' = [job EXCEPT ![f] = Enqueued(f)]
  /\ UNCHANGED <<vectors, claims, serving>>

\* A near duplicate that lost is stored retired, and gets no job.
InsertRetired(f) ==
  /\ serving
  /\ NextFact(f)
  /\ status' = [status EXCEPT ![f] = "retired"]
  /\ UNCHANGED <<job, vectors, claims, serving>>

\* The winner of a conflict: EnfoldService._resolve_conflict enqueues it.
ResolveWinner(f) ==
  /\ serving
  /\ status[f] = "contested"
  /\ status' = [status EXCEPT ![f] = "settled"]
  /\ job' = [job EXCEPT ![f] = Enqueued(f)]
  /\ UNCHANGED <<vectors, claims, serving>>

Retire(f) ==
  /\ serving
  /\ status[f] \in {"settled", "contested"}
  /\ status' = [status EXCEPT ![f] = "retired"]
  /\ UNCHANGED <<job, vectors, claims, serving>>

\* What erase_fact does to the tables of facts and jobs: f is blanked, and the
\* last members of its conflicts are freed without being enqueued.
Blank(f, freed) ==
  /\ status[f] # "absent"
  /\ status' = [g \in Fact |-> IF g = f THEN "erased"
                               ELSE IF g \in freed THEN "settled" ELSE status[g]]
  /\ job' = [job EXCEPT ![f] =
       IF @.state = "none" THEN @
       ELSE [@ EXCEPT !.state = "completed", !.token = NoWorker, !.due = FALSE]]

\* Mutant of EraseFact: the vector survives.
EraseFactKept(f) ==
  /\ Blank(f, {})
  /\ UNCHANGED <<vectors, claims, serving>>

\* Maintenance erases while no daemon serves; a processor that is run by hand
\* on the same file may be in a model call meanwhile.
EraseFact(f) ==
  /\ \E freed \in SUBSET {g \in Fact \ {f} : status[g] = "contested"} :
       /\ serving => freed = {}
       /\ Blank(f, freed)
  /\ vectors' = vectors \ {f}
  /\ UNCHANGED <<claims, serving>>
-----------------------------------------------------------------------------
(* EmbeddingJobProcessor                                                   *)

\* available_at or lease_expires_at is reached.
TimePasses(f) ==
  /\ job[f].state \in {"pending", "processing"} /\ ~job[f].due
  /\ job' = [job EXCEPT ![f].due = TRUE]
  /\ UNCHANGED <<status, vectors, claims, serving>>

\* The first statement of claim: a pending job is given up even before it is
\* due again, a claimed one only after its lease.
Exhausted(f) ==
  /\ job[f].attempts >= MaxAttempts
  /\ job[f].state = "pending" \/ (job[f].state = "processing" /\ job[f].due)

Swept(f) == IF Exhausted(f)
              THEN [job[f] EXCEPT !.state = "dead_letter",
                                  !.token = NoWorker, !.due = FALSE]
              ELSE job[f]

\* Mutants of Claimable: attempts are not bounded; an expired lease is not
\* taken over.
ClaimableForever(f) ==
  /\ job[f].state \in {"pending", "processing"}
  /\ job[f].due
ClaimablePending(f) ==
  /\ job[f].attempts < MaxAttempts
  /\ job[f].state = "pending" /\ job[f].due
Claimable(f) ==
  /\ job[f].attempts < MaxAttempts
  /\ job[f].state \in {"pending", "processing"}
  /\ job[f].due

\* Jobs are created in the order of their facts, so ORDER BY job_id is f.
ClaimJob(w) ==
  /\ serving
  /\ claims[w].pc = "idle"
  /\ \E f \in Fact :
       /\ Claimable(f) /\ \A g \in Fact : Claimable(g) => f <= g
       /\ job' = [g \in Fact |->
            IF g = f THEN [state |-> "processing", token |-> w, due |-> FALSE,
                           attempts |-> job[f].attempts + 1]
            ELSE Swept(g)]
       /\ claims' = [claims EXCEPT ![w] =
            [pc |-> "claimed", fact |-> f, attempts |-> job[f].attempts + 1]]
  /\ UNCHANGED <<status, vectors, serving>>

\* Nothing to claim: the sweep is committed all the same.
ClaimNothing(w) ==
  /\ serving
  /\ claims[w].pc = "idle"
  /\ \A f \in Fact : ~Claimable(f)
  /\ job' = [f \in Fact |-> Swept(f)]
  /\ UNCHANGED <<status, vectors, claims, serving>>

\* process_one reads the fact outside any transaction.
ReadFact(w) ==
  /\ claims[w].pc = "claimed"
  /\ claims' = [claims EXCEPT ![w].pc =
       IF status[claims[w].fact] = "settled" THEN "embedding" ELSE "settling"]
  /\ UNCHANGED <<status, job, vectors, serving>>

Holds(w) == LET f == claims[w].fact IN
              job[f].state = "processing" /\ job[f].token = w

Release(w) == claims' = [claims EXCEPT ![w] = Idle]

Completed(f) == [job[f] EXCEPT !.state = "completed", !.token = NoWorker,
                               !.due = FALSE]
Requeued(f, due) == [job[f] EXCEPT !.state = "pending", !.token = NoWorker,
                                   !.due = due]

\* Every settling transaction raises, and changes nothing, without the lease.
LoseLease(w) ==
  /\ claims[w].pc \in {"embedding", "settling"}
  /\ ~Holds(w)
  /\ Release(w)
  /\ UNCHANGED <<status, job, vectors, serving>>

\* A busy or failing database makes process_one raise.  The worker logs that
\* and goes on; the job keeps its lease and the attempt is spent.
AbandonJob(w) ==
  /\ claims[w].pc # "idle"
  /\ Release(w)
  /\ UNCHANGED <<status, job, vectors, serving>>

\* The model call raised: _fail.
FailJob(w) ==
  LET f == claims[w].fact IN
  /\ claims[w].pc = "embedding" /\ Holds(w)
  /\ job' = [job EXCEPT ![f] =
       IF claims[w].attempts >= MaxAttempts
         THEN [@ EXCEPT !.state = "dead_letter", !.token = NoWorker,
                        !.due = FALSE]
         ELSE Requeued(f, FALSE)]
  /\ Release(w)
  /\ UNCHANGED <<status, vectors, serving>>

\* The model call returned: _commit_prepared looks at the fact again.
CommitPrepared(w) ==
  LET f == claims[w].fact IN
  /\ claims[w].pc = "embedding" /\ Holds(w)
  /\ vectors' = IF status[f] = "settled" THEN vectors \cup {f} ELSE vectors
  /\ job' = [job EXCEPT ![f] = Completed(f)]
  /\ Release(w)
  /\ UNCHANGED <<status, serving>>

\* Mutant of SettleInactive: the earlier read is trusted.
SettleInactiveBlind(w) ==
  LET f == claims[w].fact IN
  /\ claims[w].pc = "settling" /\ Holds(w)
  /\ job' = [job EXCEPT ![f] = Completed(f)]
  /\ Release(w)
  /\ UNCHANGED <<status, vectors, serving>>

\* _settle_inactive: skip the fact, or requeue it if it was settled meanwhile.
SettleInactive(w) ==
  LET f == claims[w].fact IN
  /\ claims[w].pc = "settling" /\ Holds(w)
  /\ job' = [job EXCEPT ![f] = IF status[f] = "settled" THEN Requeued(f, TRUE)
                               ELSE Completed(f)]
  /\ Release(w)
  /\ UNCHANGED <<status, vectors, serving>>
-----------------------------------------------------------------------------
(* The daemon                                                              *)

\* A crash, or a shutdown: leases outlive the processors that took them.
StopServer ==
  /\ serving
  /\ serving' = FALSE
  /\ claims' = [w \in Worker |-> Idle]
  /\ UNCHANGED <<status, job, vectors>>

\* enqueue_backfill, for one fact.
Backfilled(f) ==
  IF status[f] = "settled" /\ f \notin vectors
       /\ job[f].state \in {"none", "completed"}
    THEN FreshJob ELSE job[f]

\* health()["activation_safe"], after the backfill.  A dead letter counts
\* whatever became of its fact.
ActivationSafe == \A f \in Fact : job[f].state # "dead_letter"

\* The backfill is committed even when the start is then refused.
StartServer ==
  /\ ~serving
  /\ job' = [f \in Fact |-> Backfilled(f)]
  /\ serving' = ActivationSafe
  /\ UNCHANGED <<status, vectors, claims>>

Store(f) == \/ InsertFact(f) \/ InsertContested(f) \/ InsertRetired(f)
            \/ ResolveWinner(f) \/ Retire(f) \/ EraseFact(f)

\* A claim ends one way or the other.
Settle(w) == \/ LoseLease(w) \/ AbandonJob(w) \/ FailJob(w)
             \/ CommitPrepared(w) \/ SettleInactive(w)

Process(w) == ClaimJob(w) \/ ClaimNothing(w) \/ ReadFact(w) \/ Settle(w)

Next ==
  \/ \E f \in Fact : Store(f) \/ TimePasses(f)
  \/ \E w \in Worker : Process(w)
  \/ StopServer
  \/ StartServer

Spec == Init /\ [][Next]_vars

\* The supervised worker polls for ever, a model call has a timeout, and time
\* passes.  Nothing is assumed of writers, operators or restarts.
Fairness ==
  /\ \A w \in Worker : WF_vars(Process(w))
  /\ \A f \in Fact : WF_vars(TimePasses(f))

FairSpec == Spec /\ Fairness
-----------------------------------------------------------------------------
(* Properties                                                              *)

Unfinished ==
  {f \in Fact : job[f].state \in {"pending", "processing", "dead_letter"}}

Coverage == INSTANCE EmbeddingCoverage WITH
  known <- Known, settled <- SettledFacts, outbox <- Unfinished

\* The leases, retries and crashes implement the outbox the store relies on:
\* whatever is committed between the read, the model call and the write, a
\* settled fact never loses both its job and its vector, and a vector is only
\* stored for a fact that is settled at that moment.
ImplementsCoverage == Coverage!Spec

\* Privacy erasure is final: an erased fact has no vector, whichever processor
\* was holding a finished embedding of the old text.
ErasedNotEmbedded == \A f \in vectors : status[f] # "erased"

\* Under a daemon that stays up, a fact that stays settled gets its vector or
\* ends as a visible dead letter, however often earlier daemons crashed.
EventuallyEmbedded ==
  \A f \in Fact :
    <>[](serving /\ status[f] = "settled")
      => <>[](f \in vectors \/ job[f].state = "dead_letter")
=============================================================================
