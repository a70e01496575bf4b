----------------------------- MODULE Extraction -----------------------------
(***************************************************************************)
(* The durable extraction queue of the daemon: extraction_enqueue.py       *)
(* appends transcripts, ExtractionProcessor claims them under a lease,     *)
(* asks a model for proposals, stores the answer as a snapshot, writes its *)
(* proposals through the service and deletes the row.  Each of these is a  *)
(* transaction of its own; expiries, other processors, crashes and         *)
(* erasures fall in between.                                               *)
(*                                                                         *)
(* The position of a row is its id (AUTOINCREMENT), a deleted row stays    *)
(* with the status "done".  A payload stands for its hash, a snapshot for  *)
(* its hash.  A flag stands for a clock: due is not_before <= now, live is *)
(* lease_until > now.  A lease token is fresh for every claim and a        *)
(* processor has one claim at a time, so its name stands for the token.    *)
(***************************************************************************)
EXTENDS Naturals, Sequences, FiniteSets

CONSTANTS
  Submission,    \* transcripts clients submit
  Content,       \* texts of proposals and of the facts made of them
  Answer,        \* what the model may return: sequences of proposals
  Quotes,        \* <<s, c>>: transcript s contains the text c
  Processor,     \* processors; the daemon has one
  MaxRows,       \* bound on the rows of a run
  MaxAttempts,   \* claims before a row is given up
  MaxProposals,  \* MAX_EXTRACTED_MEMORIES
  None,          \* NULL
  Erased,        \* what erasure leaves of a payload; it names the row
  Redacted       \* what erasure leaves of an observation

\* flaw is what is wrong with a proposal, typed what it says of its slot.
Proposal == [content: Content,
             flaw: {"none", "shape", "scope", "credential", "policy"},
             typed: {"none", "weak", "event", "state"}]

ASSUME ExtractionAssumption ==
  /\ Submission \subseteq [name: STRING, scope: STRING, credential: BOOLEAN]
  /\ Answer \subseteq Seq(Proposal)
  /\ Quotes \subseteq Submission \X Content
  /\ MaxRows \in Nat /\ MaxProposals \in Nat /\ MaxAttempts \in Nat \ {0}
  /\ None \notin Processor /\ None \notin Seq(Proposal)
  /\ Erased \notin Submission

\* _make_snapshot: what it refuses, and what it keeps.  A typed payload that
\* does not validate is dropped, its content stays.
Sound(a) ==
  /\ Len(a) <= MaxProposals
  /\ \A i \in DOMAIN a : a[i].flaw \notin {"shape", "scope"}
Normalized(a) ==
  [i \in DOMAIN a |->
     IF a[i].typed = "weak" THEN [a[i] EXCEPT !.typed = "none"] ELSE a[i]]
Snapshot == {Normalized(a) : a \in Answer}

Row == [payload: Submission \cup {Erased},
        status: {"pending", "processing", "dead", "done"},
        attempts: 0..MaxAttempts, due: BOOLEAN, live: BOOLEAN,
        token: Processor \cup {None}, snapshot: Snapshot \cup {None}]
Work == [pc: {"idle", "claimed", "extract", "persist", "write", "failing"},
         row: 0..MaxRows, snapshot: Snapshot \cup {None}, index: Nat,
         permanent: BOOLEAN]
Observation == [row: 1..MaxRows, payload: Submission, snapshot: Snapshot,
                typed: {"none", "event", "state"}]
Write == [row: 1..MaxRows, payload: Submission, snapshot: Snapshot, index: Nat,
          ok: BOOLEAN]

VARIABLES
  queue,    \* extract_queue
  work,     \* what each processor is doing
  log,      \* memory_write_log: the writes that were decided
  support,  \* observations behind the fact of each content, {} without a fact
  serving   \* TRUE while a daemon owns the database

vars == <<queue, work, log, support, serving>>

TypeOK ==
  /\ queue \in Seq(Row) /\ Len(queue) <= MaxRows
  /\ work \in [Processor -> Work]
  /\ log \subseteq Write
  /\ support \in [Content -> SUBSET (Observation \cup {Redacted})]
  /\ serving \in BOOLEAN

Idle == [pc |-> "idle", row |-> 0, snapshot |-> None, index |-> 0,
         permanent |-> FALSE]
Rows == DOMAIN queue
Active(r) == queue[r].status \in {"pending", "processing"}

Init ==
  /\ queue = <<>>
  /\ work = [p \in Processor |-> Idle]
  /\ log = {}
  /\ support = [c \in Content |-> {}]
  /\ serving = TRUE
-----------------------------------------------------------------------------
(* Enqueueing                                                              *)

\* _enqueue_extraction answers "rejected" for secret scopes and credentials.
Accepted(s) == s.scope # "secret" /\ ~s.credential

\* The row that makes an enqueue a replay.
Queued(s) == \E r \in Rows : queue[r].payload = s /\ Active(r)

NewRow(s) == [payload |-> s, status |-> "pending", attempts |-> 0,
              due |-> TRUE, live |-> FALSE, token |-> None, snapshot |-> None]

Enqueue(s) ==
  /\ serving
  /\ Len(queue) < MaxRows
  /\ Accepted(s) /\ ~Queued(s)
  /\ queue' = Append(queue, NewRow(s))
  /\ UNCHANGED <<work, log, support, serving>>
-----------------------------------------------------------------------------
(* ExtractionProcessor: leases                                             *)

Expired(r) == queue[r].status = "processing" /\ ~queue[r].live

Freed(row) == [row EXCEPT !.token = None, !.live = FALSE]

\* The first statement of _claim.
Swept(r) == IF Expired(r) /\ queue[r].attempts >= MaxAttempts
              THEN [Freed(queue[r]) EXCEPT !.status = "dead"] ELSE queue[r]

\* Mutants of Claimable: attempts are not bounded; an expired lease is lost.
ClaimableForever(r) ==
  /\ queue[r].due
  /\ queue[r].status = "pending" \/ Expired(r)
ClaimablePending(r) ==
  /\ queue[r].attempts < MaxAttempts /\ queue[r].due
  /\ queue[r].status = "pending"

Claimable(r) ==
  /\ queue[r].attempts < MaxAttempts /\ queue[r].due
  /\ queue[r].status = "pending" \/ Expired(r)

Claim(p) ==
  /\ serving /\ work[p].pc = "idle"
  /\ \E r \in Rows :
       /\ Claimable(r) /\ \A q \in 1..(r - 1) : ~Claimable(q)
       /\ queue' = [q \in Rows |->
            IF q = r THEN [queue[r] EXCEPT !.status = "processing", !.live = TRUE,
                             !.token = p, !.attempts = @ + 1]
            ELSE Swept(q)]
       /\ work' = [work EXCEPT ![p] = [Idle EXCEPT !.pc = "claimed", !.row = r]]
  /\ UNCHANGED <<log, support, serving>>

\* process_one is idle, but the sweep is committed.
ClaimNothing(p) ==
  /\ serving /\ work[p].pc = "idle"
  /\ \A r \in Rows : ~Claimable(r)
  /\ queue' = [r \in Rows |-> Swept(r)]
  /\ UNCHANGED <<work, log, support, serving>>

Holds(p) == LET r == queue[work[p].row] IN
              r.status = "processing" /\ r.token = p

Failing(p, permanent) ==
  work' = [work EXCEPT ![p].pc = "failing", ![p].permanent = permanent]

\* The heartbeat of a model call finds the lease expired or gone: the call is
\* abandoned.  A renewal that succeeds keeps the lease live.
RenewFails(p) ==
  /\ work[p].pc = "extract"
  /\ ~(Holds(p) /\ queue[work[p].row].live)
  /\ Failing(p, FALSE)
  /\ UNCHANGED <<queue, log, support, serving>>

Failed(p) ==
  LET row == Freed(queue[work[p].row]) IN
    IF work[p].permanent \/ row.attempts >= MaxAttempts
      THEN [row EXCEPT !.status = "dead"]
      ELSE [row EXCEPT !.status = "pending", !.due = FALSE]

Fail(p) ==
  /\ work[p].pc = "failing" /\ Holds(p)
  /\ queue' = [queue EXCEPT ![work[p].row] = Failed(p)]
  /\ work' = [work EXCEPT ![p] = Idle]
  /\ UNCHANGED <<log, support, serving>>

\* _fail raises without the lease, or because the database fails, and leaves
\* the row to its lease; the worker goes on with another row.
LoseLease(p) ==
  /\ work[p].pc = "failing"
  /\ work' = [work EXCEPT ![p] = Idle]
  /\ UNCHANGED <<queue, log, support, serving>>
-----------------------------------------------------------------------------
(* ExtractionProcessor: proposals                                          *)

\* Mutant of Prepared: credentials are left to the writes.
PreparedLate(a) == TRUE

\* _prepare_snapshot screens every proposal before the first is written.
Prepared(a) == \A i \in DOMAIN a : a[i].flaw # "credential"

\* The snapshot is known: write its proposals, or give the row up.
Apply(p, a) ==
  work' = [work EXCEPT ![p].pc = IF Prepared(a) THEN "write" ELSE "failing",
                       ![p].permanent = ~Prepared(a),
                       ![p].snapshot = a, ![p].index = 1]

\* _decode_envelope and _load_snapshot.
LoadSnapshot(p) ==
  LET row == queue[work[p].row] IN
  /\ work[p].pc = "claimed"
  /\ \/ row.payload = Erased /\ Failing(p, TRUE)
     \/ row.payload # Erased /\ ~Holds(p) /\ Failing(p, FALSE)
     \/ /\ row.payload # Erased /\ Holds(p) /\ row.snapshot = None
        /\ work' = [work EXCEPT ![p].pc = "extract"]
     \/ /\ row.payload # Erased /\ Holds(p) /\ row.snapshot # None
        /\ Apply(p, row.snapshot)
  /\ UNCHANGED <<queue, log, support, serving>>

\* The child process answers with valid JSON and exits cleanly.
ModelAnswers(p) ==
  /\ work[p].pc = "extract"
  /\ \E a \in Answer :
       IF Sound(a)
         THEN work' = [work EXCEPT ![p].pc = "persist", ![p].snapshot = Normalized(a)]
         ELSE Failing(p, TRUE)
  /\ UNCHANGED <<queue, log, support, serving>>

\* The child cannot be started, times out, floods its pipes, fails, leaves
\* descendants behind or does not answer in the format; it is killed.
ModelFails(p) ==
  /\ work[p].pc = "extract"
  /\ Failing(p, FALSE)
  /\ UNCHANGED <<queue, log, support, serving>>

\* Mutant of Persistable: the token and the stored snapshot are not looked at.
PersistableAgain(p) == queue[work[p].row].status = "processing"

Persistable(p) == Holds(p) /\ queue[work[p].row].snapshot = None

PersistSnapshot(p) ==
  /\ work[p].pc = "persist" /\ Persistable(p)
  /\ queue' = [queue EXCEPT ![work[p].row].snapshot = work[p].snapshot]
  /\ Apply(p, work[p].snapshot)
  /\ UNCHANGED <<log, support, serving>>

\* The lease was lost, or the database failed.
PersistFails(p) ==
  /\ work[p].pc = "persist"
  /\ Failing(p, FALSE)
  /\ UNCHANGED <<queue, log, support, serving>>
-----------------------------------------------------------------------------
(* ExtractionProcessor: writes.  No lease is checked between them.         *)

\* The request of the next proposal.  Its key is the payload, the snapshot
\* and the index; the row is part of the metadata, hence of the request.
NextWrite(p) ==
  LET w == work[p] IN
    [row |-> w.row, payload |-> queue[w.row].payload, snapshot |-> w.snapshot,
     index |-> w.index, ok |-> w.snapshot[w.index].flaw = "none"]
SameKey(v, w) == <<v.payload, v.snapshot, v.index>> = <<w.payload, w.snapshot, w.index>>
Prior(w) == {v \in log : SameKey(v, w)}

Pending(p) == work[p].pc = "write" /\ work[p].index <= Len(work[p].snapshot)

ObservationOf(p) ==
  LET w == work[p] IN
    [row |-> w.row, payload |-> queue[w.row].payload, snapshot |-> w.snapshot,
     typed |-> w.snapshot[w.index].typed]

\* The answer to a write: go on, or give the row up if policy refused it.
Answered(p, w) ==
  IF w.ok THEN work' = [work EXCEPT ![p].index = @ + 1] ELSE Failing(p, TRUE)

\* A first write is decided and logged; a refusal is logged too.
WriteProposal(p) ==
  LET w == NextWrite(p) IN
  /\ Pending(p) /\ Prior(w) = {}
  /\ log' = log \cup {w}
  /\ support' = IF w.ok THEN [support EXCEPT
                      ![w.snapshot[w.index].content] = @ \cup {ObservationOf(p)}]
                ELSE support
  /\ Answered(p, w)
  /\ UNCHANGED <<queue, serving>>

\* The same write again: the logged outcome is returned.
ReplayProposal(p) ==
  LET w == NextWrite(p) IN
  /\ Pending(p) /\ w \in log
  /\ Answered(p, w)
  /\ UNCHANGED <<queue, log, support, serving>>

\* Mutant of WriteFails: the proposal is skipped.
WriteSkipped(p) ==
  /\ Pending(p) /\ NextWrite(p) \notin log
  /\ work' = [work EXCEPT ![p].index = @ + 1]
  /\ UNCHANGED <<queue, log, support, serving>>

\* The key belongs to another request (IdempotencyConflict: the payload was
\* processed before, under another row), or the database failed.
WriteFails(p) ==
  /\ Pending(p)
  /\ Failing(p, FALSE)
  /\ UNCHANGED <<queue, log, support, serving>>

\* The row is deleted; the lease may be lost, or the database fail.
Deleted(p) ==
  \/ /\ Holds(p)
     /\ queue' = [queue EXCEPT ![work[p].row] = [Freed(@) EXCEPT !.status = "done"]]
     /\ work' = [work EXCEPT ![p] = Idle]
  \/ Failing(p, FALSE) /\ UNCHANGED queue

\* Mutant of Complete: the last proposal is forgotten.
CompleteEarly(p) ==
  /\ work[p].pc = "write" /\ work[p].index >= Len(work[p].snapshot)
  /\ Deleted(p)
  /\ UNCHANGED <<log, support, serving>>

Complete(p) ==
  /\ work[p].pc = "write" /\ work[p].index > Len(work[p].snapshot)
  /\ Deleted(p)
  /\ UNCHANGED <<log, support, serving>>
-----------------------------------------------------------------------------
(* Time, the daemon and privacy erasure                                    *)

TimePasses(r) ==
  /\ \/ /\ queue[r].status = "pending" /\ ~queue[r].due
        /\ queue' = [queue EXCEPT ![r].due = TRUE]
     \/ /\ queue[r].status = "processing" /\ queue[r].live
        /\ queue' = [queue EXCEPT ![r].live = FALSE]
  /\ UNCHANGED <<work, log, support, serving>>

\* A crash, or a shutdown that gave up waiting for the worker.
StopServer ==
  /\ serving
  /\ serving' = FALSE
  /\ work' = [p \in Processor |-> Idle]
  /\ UNCHANGED <<queue, log, support>>

StartServer ==
  /\ ~serving
  /\ serving' = TRUE
  /\ UNCHANGED <<queue, work, log, support>>

\* Rows linked to a fact by the metadata of its evidence, and rows that quote it.
Linked(c) ==
  LET evidence == support[c] \ {Redacted} IN
    {r \in Rows :
       /\ queue[r].status # "done"
       /\ \/ <<queue[r].payload, c>> \in Quotes
          \/ \E o \in evidence : o.row = r \/ o.payload = queue[r].payload}

\* erase_fact: the evidence of c is blanked for every fact that shares it, and
\* the payloads of the linked rows are replaced.
EraseFact(c) ==
  /\ ~serving /\ support[c] # {}
  /\ support' = [d \in Content |->
       IF d = c THEN {}
       ELSE (support[d] \ support[c])
            \cup (IF support[d] \cap support[c] = {} THEN {} ELSE {Redacted})]
  /\ queue' = [r \in Rows |->
       IF r \in Linked(c) THEN [queue[r] EXCEPT !.payload = Erased] ELSE queue[r]]
  /\ UNCHANGED <<work, log, serving>>
-----------------------------------------------------------------------------
Finish(p) == Complete(p) \/ Fail(p) \/ LoseLease(p)

Process(p) ==
  \/ Claim(p) \/ ClaimNothing(p) \/ LoadSnapshot(p)
  \/ RenewFails(p) \/ ModelAnswers(p) \/ ModelFails(p)
  \/ PersistSnapshot(p) \/ PersistFails(p)
  \/ WriteProposal(p) \/ ReplayProposal(p) \/ WriteFails(p)
  \/ Finish(p)

Next ==
  \/ \E s \in Submission : Enqueue(s)
  \/ \E p \in Processor : Process(p)
  \/ \E r \in Rows : TimePasses(r)
  \/ \E c \in Content : EraseFact(c)
  \/ StopServer
  \/ StartServer

Spec == Init /\ [][Next]_vars

\* The supervised worker polls for ever, the host extractor kills a child that
\* does not answer in time, and clocks advance.  A lease need not expire.
Fairness ==
  /\ \A p \in Processor : WF_vars(Process(p))
  /\ \A r \in 1..MaxRows : WF_vars(r \in Rows /\ TimePasses(r))

FairSpec == Spec /\ Fairness
-----------------------------------------------------------------------------
(* Properties                                                              *)

\* However often a row is claimed, lost and claimed again, all its writes come
\* from one answer of the model, and none from an answer that was not stored.
OneAnswerPerRow ==
  \A w \in log : w.snapshot = queue[w.row].snapshot

\* A row is deleted only after every proposal of its snapshot was accepted,
\* by whichever of the processors that worked on it.
CompletedRowsWritten ==
  \A r \in Rows : queue[r].status = "done" =>
    \A i \in DOMAIN queue[r].snapshot :
      \E w \in log : w.row = r /\ w.index = i /\ w.ok

\* What a row has written is a prefix of its answer, all of it accepted but
\* perhaps the last: no proposal is skipped and none is written behind a
\* refused one, whichever processors went on with the row after a crash, a lost
\* lease or a failed write, and also when the key of a proposal already belongs
\* to an earlier row of the same transcript (process_one, IdempotencyConflict).
WritesInOrder ==
  \A w \in log : \A i \in 1..(w.index - 1) :
    \E v \in log : v.row = w.row /\ v.index = i /\ v.ok

\* An answer with a credential in it is refused as a whole: no proposal of it
\* is written, not even the ones before the credential.
UnsafeAnswersUnwritten ==
  \A w \in log : \A i \in DOMAIN w.snapshot : w.snapshot[i].flaw # "credential"

\* Privacy erasure scrubs every materialized copy of the content: a row whose
\* transcript was erased keeps nothing the model derived from it.
ErasedRowsEmpty ==
  \A r \in Rows : queue[r].payload = Erased => queue[r].snapshot = None

\* Once a daemon stays up, every row is completed or becomes a dead letter.
EventuallyFinished ==
  \A r \in 1..MaxRows :
    <>[]serving => <>[](r \in Rows => queue[r].status \in {"done", "dead"})
=============================================================================
