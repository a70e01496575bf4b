-------------------------- MODULE ExtractionProofs --------------------------
(***************************************************************************)
(* Machine-checked theorems about Extraction, for any number of rows,      *)
(* processors and attempts and any answers of the model.                   *)
(***************************************************************************)
EXTENDS Extraction, TLAPS

-----------------------------------------------------------------------------
(* The inductive invariant                                                 *)

\* What a processor may rely on, although no lease protects its writes: the
\* row it works on exists and has a transcript, the answer it writes is the
\* stored and screened one, and the proposals before its index are accepted.
WorkInv(p) ==
  LET w == work[p] IN
  /\ w.pc # "idle" => serving /\ w.row \in Rows
  /\ w.pc \in {"extract", "persist", "write"} => queue[w.row].payload # Erased
  /\ w.pc = "persist" => w.snapshot # None
  /\ w.pc = "write" =>
       /\ w.snapshot # None /\ w.snapshot = queue[w.row].snapshot
       /\ Prepared(w.snapshot) /\ w.index # 0
       /\ \A i \in 1..(w.index - 1) :
            \E v \in log : v.row = w.row /\ v.index = i /\ v.ok

\* What was written is from the stored and screened answer of its row.
LogInv ==
  \A v \in log : /\ v.row \in Rows /\ v.snapshot = queue[v.row].snapshot
                 /\ Prepared(v.snapshot)

\* A deleted row had an answer, and all of it was accepted.
DoneInv ==
  \A r \in Rows : queue[r].status = "done" =>
    /\ queue[r].snapshot # None
    /\ \A i \in DOMAIN queue[r].snapshot :
         \E v \in log : v.row = r /\ v.index = i /\ v.ok

IInv == /\ TypeOK /\ LogInv /\ DoneInv /\ WritesInOrder
        /\ \A p \in Processor : WorkInv(p)

-----------------------------------------------------------------------------
(* Rows, answers and tables                                                *)

\* A function over 1..n is a sequence of length n.
LEMMA FunctionIsSequence ==
  ASSUME NEW T, NEW n \in Nat, NEW f \in [1..n -> T]
  PROVE  f \in Seq(T) /\ Len(f) = n /\ DOMAIN f = 1..n
  OBVIOUS

\* _make_snapshot keeps the shape of an answer and drops weak types.
LEMMA SnapshotTyped ==
  ASSUME NEW a \in Snapshot
  PROVE  /\ a \in Seq(Proposal) /\ a # None
         /\ Len(a) \in Nat /\ DOMAIN a = 1..Len(a)
         /\ \A i \in DOMAIN a : /\ a[i].content \in Content
                                /\ a[i].typed \in {"none", "event", "state"}
  <1>1. PICK b \in Answer : a = Normalized(b)
    BY DEF Snapshot
  <1>2. b \in Seq(Proposal) /\ Len(b) \in Nat /\ DOMAIN b = 1..Len(b)
    BY ExtractionAssumption
  <1>3. ASSUME NEW i \in 1..Len(b)
        PROVE  /\ a[i] \in Proposal
               /\ a[i].typed \in {"none", "event", "state"}
    <2>1. b[i] \in Proposal
      BY <1>2
    <2>2. a[i] = IF b[i].typed = "weak" THEN [b[i] EXCEPT !.typed = "none"]
                                        ELSE b[i]
      BY <1>1, <1>2 DEF Normalized
    <2> QED BY <2>1, <2>2 DEF Proposal
  <1>4. a \in [1..Len(b) -> Proposal]
    BY <1>1, <1>2, <1>3 DEF Normalized
  <1>5. a \in Seq(Proposal) /\ Len(a) = Len(b) /\ DOMAIN a = 1..Len(b)
    BY <1>2, <1>4, FunctionIsSequence
  <1>6. a # None
    BY <1>5, ExtractionAssumption
  <1>7. \A i \in 1..Len(b) : a[i].content \in Content
    BY <1>3 DEF Proposal
  <1> QED BY <1>2, <1>3, <1>5, <1>6, <1>7

\* The queue is a table of rows with ids up to MaxRows.
LEMMA QueueTable ==
  ASSUME TypeOK
  PROVE  /\ Len(queue) \in Nat /\ Rows = 1..Len(queue) /\ Rows \subseteq 1..MaxRows
         /\ queue \in [Rows -> Row]
  BY ExtractionAssumption DEF TypeOK, Rows

\* Rewriting every row keeps the table.
LEMMA RewrittenTyped ==
  ASSUME TypeOK, NEW f \in [Rows -> Row], queue' = f
  PROVE  /\ queue' \in Seq(Row) /\ Len(queue') = Len(queue) /\ Rows' = Rows
         /\ Len(queue') <= MaxRows
  <1>1. f \in [1..Len(queue) -> Row] /\ Len(queue) \in Nat
    BY QueueTable
  <1>2. /\ queue' \in Seq(Row) /\ Len(queue') = Len(queue)
        /\ DOMAIN queue' = 1..Len(queue)
    BY <1>1, FunctionIsSequence
  <1> QED BY <1>2, QueueTable DEF TypeOK, Rows

\* The work of a processor is a record of its type.
LEMMA WorkTyped ==
  ASSUME TypeOK, NEW p \in Processor
  PROVE  /\ work[p] \in Work /\ work[p].row \in 0..MaxRows /\ work[p].index \in Nat
         /\ work[p].snapshot \in Snapshot \cup {None}
         /\ DOMAIN work = Processor
  BY DEF TypeOK, Work

LEMMA IdleTyped == Idle \in Work /\ Idle.pc = "idle"
  BY ExtractionAssumption DEF Idle, Work

-----------------------------------------------------------------------------
(* What a step keeps                                                       *)

\* No row disappears, a stored answer is never replaced, nothing is erased
\* under a daemon that serves, and the log only grows.
Keeps ==
  /\ Rows \subseteq Rows' /\ log \subseteq log'
  /\ \A r \in Rows :
       /\ queue[r].snapshot # None => queue'[r].snapshot = queue[r].snapshot
       /\ serving => queue'[r].payload = queue[r].payload

\* A processor that does not move keeps what it relies on.
LEMMA OthersKeep ==
  ASSUME Keeps, serving' = serving, NEW q, WorkInv(q), work'[q] = work[q]
  PROVE  WorkInv(q)'
  <1>1. ASSUME NEW v \in log PROVE v \in log'
    BY <1>1 DEF Keeps
  <1> QED BY <1>1 DEF WorkInv, Keeps, Prepared

\* An idle processor relies on nothing.
LEMMA IdleRelies ==
  ASSUME NEW q, work'[q] = Idle
  PROVE  WorkInv(q)'
  BY DEF WorkInv, Idle

\* Old log rows stay in order.
LEMMA LogKeeps ==
  ASSUME TypeOK, LogInv, Keeps
  PROVE  \A v \in log : /\ v.row \in Rows' /\ v.snapshot = queue'[v.row].snapshot
                        /\ Prepared(v.snapshot)
  <1> SUFFICES ASSUME NEW v \in log
               PROVE  /\ v.row \in Rows' /\ v.snapshot = queue'[v.row].snapshot
                      /\ Prepared(v.snapshot)
    OBVIOUS
  <1>1. v.snapshot # None
    BY SnapshotTyped DEF TypeOK, Write
  <1> QED BY <1>1 DEF LogInv, Keeps

\* Rows that were deleted before stay complete.
LEMMA DoneKeeps ==
  ASSUME DoneInv, Keeps, NEW r \in Rows, queue[r].status = "done"
  PROVE  /\ queue'[r].snapshot # None
         /\ \A i \in DOMAIN queue'[r].snapshot :
              \E v \in log' : v.row = r /\ v.index = i /\ v.ok
  <1>1. queue[r].snapshot # None /\ queue'[r].snapshot = queue[r].snapshot
    BY DEF DoneInv, Keeps
  <1>2. log \subseteq log'
    BY DEF Keeps
  <1> QED BY <1>1, <1>2 DEF DoneInv

\* A step that deletes no row keeps DoneInv.
LEMMA DoneUnchanged ==
  ASSUME DoneInv, Keeps,
         \A r \in Rows' : queue'[r].status = "done" => r \in Rows /\ queue[r].status = "done"
  PROVE  DoneInv'
  <1> SUFFICES ASSUME NEW r \in Rows', queue'[r].status = "done"
               PROVE  /\ queue'[r].snapshot # None
                      /\ \A i \in DOMAIN queue'[r].snapshot :
                           \E v \in log' : v.row = r /\ v.index = i /\ v.ok
    BY DEF DoneInv
  <1>1. r \in Rows /\ queue[r].status = "done"
    OBVIOUS
  <1> QED BY <1>1, DoneKeeps

\* A step that leaves queue and log alone keeps everything about them.
LEMMA TablesUnchanged ==
  ASSUME TypeOK, LogInv, DoneInv, UNCHANGED <<queue, log>>
  PROVE  Keeps /\ LogInv' /\ DoneInv'
  BY DEF Keeps, LogInv, DoneInv, Rows, Prepared

\* A step that only rewrites the leases of rows, as a claim, a failure or the
\* clock does.
LEMMA LeasesRewritten ==
  ASSUME TypeOK, LogInv, DoneInv, UNCHANGED log,
         NEW f \in [Rows -> Row], queue' = f,
         \A r \in Rows : /\ f[r].snapshot = queue[r].snapshot
                         /\ f[r].payload = queue[r].payload \/ ~serving
                         /\ f[r].status = "done" => queue[r].status = "done"
  PROVE  Keeps /\ LogInv' /\ DoneInv'
  <1>1. Rows' = Rows
    BY RewrittenTyped
  <1>2. Keeps
    BY <1>1 DEF Keeps
  <1>3. LogInv'
    BY <1>2, LogKeeps DEF LogInv
  <1>4. DoneInv'
    BY <1>1, <1>2, DoneUnchanged
  <1> QED BY <1>2, <1>3, <1>4

-----------------------------------------------------------------------------
(* One lemma per step                                                      *)

\* A step of p: the others stand still, so only p is to be looked at.
LEMMA OneMoves ==
  ASSUME IInv, NEW p \in Processor, NEW w \in Work, work' = [work EXCEPT ![p] = w],
         UNCHANGED serving, Keeps, WorkInv(p)'
  PROVE  work' \in [Processor -> Work] /\ \A q \in Processor : WorkInv(q)'
  <1>1. work \in [Processor -> Work] /\ \A q \in Processor : WorkInv(q)
    BY DEF IInv, TypeOK
  <1>2. work' \in [Processor -> Work]
    BY <1>1
  <1>3. ASSUME NEW q \in Processor, q # p PROVE WorkInv(q)'
    <2>1. work'[q] = work[q]
      BY <1>1, <1>3
    <2> QED BY <2>1, <1>1, OthersKeep
  <1> QED BY <1>2, <1>3

\* The worker gives its row up for now or for good.
LEMMA FailingStep ==
  ASSUME IInv, NEW p \in Processor, NEW permanent \in BOOLEAN, work[p].pc # "idle",
         Failing(p, permanent), UNCHANGED <<queue, log, support, serving>>
  PROVE  IInv'
  <1> DEFINE w == [work[p] EXCEPT !.pc = "failing", !.permanent = permanent]
  <1>1. work[p] \in Work /\ DOMAIN work = Processor /\ WorkInv(p)
    BY WorkTyped DEF IInv
  <1>2. w \in Work /\ w.pc = "failing" /\ w.row = work[p].row
    BY <1>1 DEF Work
  <1>3. work' = [work EXCEPT ![p] = w]
    BY DEF Failing
  <1>4. work'[p] = w
    BY <1>1, <1>3
  <1>5. Keeps /\ LogInv' /\ DoneInv'
    BY TablesUnchanged DEF IInv
  <1> HIDE DEF w
  <1>6. WorkInv(p)'
    BY <1>1, <1>2, <1>4 DEF WorkInv, Rows
  <1>7. work' \in [Processor -> Work] /\ \A q \in Processor : WorkInv(q)'
    BY <1>2, <1>3, <1>5, <1>6, OneMoves
  <1> QED BY <1>5, <1>7 DEF IInv, TypeOK, WritesInOrder

\* A step of p that leaves the tables alone.
LEMMA WorkOnly ==
  ASSUME IInv, NEW p \in Processor, NEW w \in Work, work' = [work EXCEPT ![p] = w],
         UNCHANGED <<queue, log, support, serving>>, WorkInv(p)'
  PROVE  IInv'
  <1>1. Keeps /\ LogInv' /\ DoneInv'
    BY TablesUnchanged DEF IInv
  <1>2. work' \in [Processor -> Work] /\ \A q \in Processor : WorkInv(q)'
    BY <1>1, OneMoves
  <1> QED BY <1>1, <1>2 DEF IInv, TypeOK, WritesInOrder

\* A step that rewrites leases, and the work of no processor.
LEMMA LeasesOnly ==
  ASSUME IInv, NEW f \in [Rows -> Row], queue' = f,
         \A r \in Rows : /\ f[r].snapshot = queue[r].snapshot
                         /\ f[r].payload = queue[r].payload
                         /\ f[r].status = "done" => queue[r].status = "done",
         UNCHANGED <<work, log, support, serving>>
  PROVE  IInv'
  <1>1. Keeps /\ LogInv' /\ DoneInv'
    BY LeasesRewritten DEF IInv
  <1>2. queue' \in Seq(Row) /\ Len(queue') <= MaxRows
    BY RewrittenTyped DEF IInv
  <1>3. \A q \in Processor : WorkInv(q)'
    BY <1>1, OthersKeep DEF IInv
  <1> QED BY <1>1, <1>2, <1>3 DEF IInv, TypeOK, WritesInOrder

\* A step of p that rewrites leases.
LEMMA LeasesAndWork ==
  ASSUME IInv, NEW f \in [Rows -> Row], queue' = f,
         \A r \in Rows : /\ f[r].snapshot = queue[r].snapshot
                         /\ f[r].payload = queue[r].payload
                         /\ f[r].status = "done" => queue[r].status = "done",
         UNCHANGED <<log, support, serving>>,
         NEW p \in Processor, NEW w \in Work, work' = [work EXCEPT ![p] = w],
         WorkInv(p)'
  PROVE  IInv'
  <1>1. Keeps /\ LogInv' /\ DoneInv'
    BY LeasesRewritten DEF IInv
  <1>2. queue' \in Seq(Row) /\ Len(queue') <= MaxRows
    BY RewrittenTyped DEF IInv
  <1>3. work' \in [Processor -> Work] /\ \A q \in Processor : WorkInv(q)'
    BY <1>1, OneMoves
  <1> QED BY <1>1, <1>2, <1>3 DEF IInv, TypeOK, WritesInOrder

LEMMA InitStep == Init => IInv
  <1> SUFFICES ASSUME Init PROVE IInv
    OBVIOUS
  <1>1. TypeOK
    BY IdleTyped, ExtractionAssumption DEF Init, TypeOK
  <1>2. \A p \in Processor : work[p].pc = "idle"
    BY DEF Init, Idle
  <1>3. Rows = {} /\ log = {}
    BY DEF Init, Rows
  <1> QED BY <1>1, <1>2, <1>3
          DEF IInv, LogInv, DoneInv, WritesInOrder, WorkInv

\* A new row has no answer and is not done.
LEMMA EnqueueStep ==
  ASSUME IInv, NEW s \in Submission, Enqueue(s)
  PROVE  IInv'
  <1> DEFINE row == NewRow(s)
  <1>1. /\ TypeOK /\ UNCHANGED <<work, log, support, serving>>
        /\ queue' = Append(queue, row) /\ Len(queue) < MaxRows
    BY DEF IInv, Enqueue
  <1>2. row \in Row /\ row.status = "pending"
    BY ExtractionAssumption DEF NewRow, Row
  <1> HIDE DEF row
  <1>3. /\ queue' \in Seq(Row) /\ Len(queue') = Len(queue) + 1 /\ Len(queue) \in Nat
        /\ queue'[Len(queue) + 1] = row
        /\ \A r \in 1..Len(queue) : queue'[r] = queue[r]
    BY <1>1, <1>2 DEF TypeOK
  <1>4. Rows = 1..Len(queue) /\ Rows' = 1..(Len(queue) + 1)
    BY <1>3, QueueTable, <1>1 DEF Rows
  <1>5. Keeps
    BY <1>1, <1>3, <1>4 DEF Keeps
  <1>6. LogInv'
    BY <1>1, <1>5, LogKeeps DEF LogInv, IInv
  <1>7. \A r \in Rows' : queue'[r].status = "done" => r \in Rows /\ queue[r].status = "done"
    BY <1>2, <1>3, <1>4
  <1>8. DoneInv'
    BY <1>5, <1>7, DoneUnchanged DEF IInv
  <1>9. \A q \in Processor : WorkInv(q)'
    BY <1>1, <1>5, OthersKeep DEF IInv
  <1>10. TypeOK'
    BY <1>1, <1>3, ExtractionAssumption DEF TypeOK
  <1> QED BY <1>1, <1>6, <1>8, <1>9, <1>10 DEF IInv, WritesInOrder

\* Freeing a lease keeps the transcript, the answer and the attempts of a row.
LEMMA FreedRow ==
  ASSUME NEW row \in Row
  PROVE  /\ Freed(row) \in Row
         /\ Freed(row).snapshot = row.snapshot /\ Freed(row).payload = row.payload
         /\ Freed(row).status = row.status /\ Freed(row).attempts = row.attempts
  BY ExtractionAssumption DEF Freed, Row

\* Taking the lease of a row keeps its transcript and answer.
LEMMA TakenRow ==
  ASSUME NEW row \in Row, NEW p \in Processor, row.attempts < MaxAttempts, NEW new,
         new = [row EXCEPT !.status = "processing", !.live = TRUE,
                  !.token = p, !.attempts = @ + 1]
  PROVE  /\ new \in Row /\ new.status = "processing"
         /\ new.snapshot = row.snapshot /\ new.payload = row.payload
  <1>1. row.attempts + 1 \in 0..MaxAttempts
    BY ExtractionAssumption DEF Row
  <1>2. new = [row EXCEPT !.status = "processing", !.live = TRUE,
                 !.token = p, !.attempts = row.attempts + 1]
    BY DEF Row
  <1> QED BY <1>1, <1>2 DEF Row

\* The sweep of expired rows.
LEMMA SweptRow ==
  ASSUME TypeOK, NEW r \in Rows
  PROVE  /\ Swept(r) \in Row
         /\ Swept(r).snapshot = queue[r].snapshot /\ Swept(r).payload = queue[r].payload
         /\ Swept(r).status = "done" => queue[r].status = "done"
  <1>1. queue[r] \in Row
    BY QueueTable
  <1> DEFINE row == Freed(queue[r])
             dead == [row EXCEPT !.status = "dead"]
  <1>2. /\ row \in Row /\ row.snapshot = queue[r].snapshot
        /\ row.payload = queue[r].payload
    BY <1>1, FreedRow
  <1>4. Swept(r) = dead \/ Swept(r) = queue[r]
    BY DEF Swept
  <1> HIDE DEF row
  <1>3. /\ dead \in Row /\ dead.status = "dead"
        /\ dead.snapshot = queue[r].snapshot /\ dead.payload = queue[r].payload
    BY <1>2 DEF Row
  <1> HIDE DEF dead
  <1> QED BY <1>1, <1>3, <1>4

\* A claim takes the lease of one row and sweeps the others.
LEMMA ClaimStep ==
  ASSUME IInv, NEW p \in Processor, Claim(p)
  PROVE  IInv'
  <1>1. TypeOK /\ serving /\ UNCHANGED <<log, support, serving>>
    BY DEF IInv, Claim
  <1>2. PICK r \in Rows :
          /\ Claimable(r)
          /\ queue' = [q \in Rows |->
               IF q = r THEN [queue[r] EXCEPT !.status = "processing", !.live = TRUE,
                                !.token = p, !.attempts = @ + 1]
               ELSE Swept(q)]
          /\ work' = [work EXCEPT ![p] = [Idle EXCEPT !.pc = "claimed", !.row = r]]
    BY DEF Claim
  <1> DEFINE row == [queue[r] EXCEPT !.status = "processing", !.live = TRUE,
                       !.token = p, !.attempts = @ + 1]
             f == [q \in Rows |-> IF q = r THEN row ELSE Swept(q)]
             w == [Idle EXCEPT !.pc = "claimed", !.row = r]
  <1>3. queue[r] \in Row /\ queue[r].attempts < MaxAttempts /\ r \in 0..MaxRows
    BY <1>1, <1>2, QueueTable, ExtractionAssumption DEF Claimable
  <1>4. /\ row \in Row /\ row.status = "processing"
        /\ row.snapshot = queue[r].snapshot /\ row.payload = queue[r].payload
    BY ZenonT(60), <1>3, TakenRow
  <1>5. w \in Work /\ w.pc = "claimed" /\ w.row = r
    BY <1>3, IdleTyped DEF Work
  <1>6. queue' = f
    BY <1>2
  <1>7. work' = [work EXCEPT ![p] = w] /\ work'[p] = w
    BY <1>1, <1>2 DEF TypeOK
  <1> HIDE DEF row, w
  <1>8. /\ f \in [Rows -> Row]
        /\ \A q \in Rows : /\ f[q].snapshot = queue[q].snapshot
                           /\ f[q].payload = queue[q].payload
                           /\ f[q].status = "done" => queue[q].status = "done"
    BY <1>1, <1>4, SweptRow
  <1>9. Rows' = Rows
    BY <1>1, <1>6, <1>8, RewrittenTyped
  <1>10. WorkInv(p)'
    BY <1>1, <1>5, <1>7, <1>9 DEF WorkInv
  <1> HIDE DEF f
  <1> QED BY <1>1, <1>5, <1>6, <1>7, <1>8, <1>10, LeasesAndWork

LEMMA ClaimNothingStep ==
  ASSUME IInv, NEW p \in Processor, ClaimNothing(p)
  PROVE  IInv'
  <1> DEFINE f == [r \in Rows |-> Swept(r)]
  <1>1. TypeOK /\ queue' = f /\ UNCHANGED <<work, log, support, serving>>
    BY DEF IInv, ClaimNothing
  <1>2. /\ f \in [Rows -> Row]
        /\ \A q \in Rows : /\ f[q].snapshot = queue[q].snapshot
                           /\ f[q].payload = queue[q].payload
                           /\ f[q].status = "done" => queue[q].status = "done"
    BY <1>1, SweptRow
  <1> HIDE DEF f
  <1> QED BY <1>1, <1>2, LeasesOnly

\* The row of a failed attempt waits or dies.
LEMMA FailedRow ==
  ASSUME IInv, NEW p \in Processor, work[p].row \in Rows
  PROVE  LET old == queue[work[p].row] IN
           /\ Failed(p) \in Row
           /\ Failed(p).snapshot = old.snapshot /\ Failed(p).payload = old.payload
           /\ Failed(p).status # "done"
  <1> DEFINE row == Freed(queue[work[p].row])
             dead == [row EXCEPT !.status = "dead"]
             later == [row EXCEPT !.status = "pending", !.due = FALSE]
  <1>1. queue[work[p].row] \in Row
    BY QueueTable DEF IInv
  <1>2. /\ row \in Row /\ row.snapshot = queue[work[p].row].snapshot
        /\ row.payload = queue[work[p].row].payload
    BY <1>1, FreedRow
  <1>3. Failed(p) = dead \/ Failed(p) = later
    BY DEF Failed
  <1> HIDE DEF row
  <1>4. /\ dead \in Row /\ dead.status = "dead"
        /\ dead.snapshot = row.snapshot /\ dead.payload = row.payload
    BY <1>2 DEF Row
  <1>5. /\ later \in Row /\ later.status = "pending"
        /\ later.snapshot = row.snapshot /\ later.payload = row.payload
    BY <1>2 DEF Row
  <1> HIDE DEF dead, later
  <1> QED BY <1>2, <1>3, <1>4, <1>5

LEMMA FailStep ==
  ASSUME IInv, NEW p \in Processor, Fail(p)
  PROVE  IInv'
  <1> DEFINE f == [queue EXCEPT ![work[p].row] = Failed(p)]
  <1>1. /\ TypeOK /\ queue' = f /\ work' = [work EXCEPT ![p] = Idle]
        /\ UNCHANGED <<log, support, serving>>
    BY DEF IInv, Fail
  <1>2. work[p].row \in Rows
    BY DEF IInv, WorkInv, Fail
  <1>3. queue \in [Rows -> Row]
    BY <1>1, QueueTable
  <1>4. /\ f \in [Rows -> Row]
        /\ \A q \in Rows : /\ f[q].snapshot = queue[q].snapshot
                           /\ f[q].payload = queue[q].payload
                           /\ f[q].status = "done" => queue[q].status = "done"
    BY <1>2, <1>3, FailedRow
  <1>5. work'[p] = Idle
    BY <1>1 DEF TypeOK
  <1> HIDE DEF f
  <1> QED BY <1>1, <1>4, <1>5, IdleTyped, IdleRelies, LeasesAndWork

LEMMA LoseLeaseStep ==
  ASSUME IInv, NEW p \in Processor, LoseLease(p)
  PROVE  IInv'
  <1>1. /\ work' = [work EXCEPT ![p] = Idle] /\ work'[p] = Idle
        /\ UNCHANGED <<queue, log, support, serving>>
    BY DEF IInv, TypeOK, LoseLease
  <1> QED BY <1>1, IdleTyped, IdleRelies, WorkOnly

\* The heartbeat, the model, the store and the writes may fail.
LEMMA GiveUpSteps ==
  ASSUME IInv, NEW p \in Processor,
         RenewFails(p) \/ ModelFails(p) \/ PersistFails(p) \/ WriteFails(p)
  PROVE  IInv'
  <1>1. /\ work[p].pc # "idle" /\ Failing(p, FALSE)
        /\ UNCHANGED <<queue, log, support, serving>>
    BY DEF RenewFails, ModelFails, PersistFails, WriteFails, Pending
  <1> QED BY <1>1, FailingStep

\* The clock: a delay ends or a lease expires.
LEMMA TimePassesStep ==
  ASSUME IInv, NEW r \in Rows, TimePasses(r)
  PROVE  IInv'
  <1> DEFINE f1 == [queue EXCEPT ![r].due = TRUE]
             f2 == [queue EXCEPT ![r].live = FALSE]
  <1>1. TypeOK /\ (queue' = f1 \/ queue' = f2) /\ UNCHANGED <<work, log, support, serving>>
    BY DEF IInv, TimePasses
  <1>2. queue \in [Rows -> Row]
    BY <1>1, QueueTable
  <1>3. ASSUME NEW row \in Row
        PROVE  /\ [row EXCEPT !.due = TRUE] \in Row /\ [row EXCEPT !.live = FALSE] \in Row
               /\ [row EXCEPT !.due = TRUE].snapshot = row.snapshot
               /\ [row EXCEPT !.live = FALSE].snapshot = row.snapshot
               /\ [row EXCEPT !.due = TRUE].payload = row.payload
               /\ [row EXCEPT !.live = FALSE].payload = row.payload
               /\ [row EXCEPT !.due = TRUE].status = row.status
               /\ [row EXCEPT !.live = FALSE].status = row.status
    BY <1>3 DEF Row
  <1>4. f1 \in [Rows -> Row] /\ f2 \in [Rows -> Row]
    BY <1>2, <1>3
  <1>5. \A q \in Rows : /\ f1[q].snapshot = queue[q].snapshot
                        /\ f1[q].payload = queue[q].payload
                        /\ f1[q].status = "done" => queue[q].status = "done"
    BY <1>2, <1>3
  <1>6. \A q \in Rows : /\ f2[q].snapshot = queue[q].snapshot
                        /\ f2[q].payload = queue[q].payload
                        /\ f2[q].status = "done" => queue[q].status = "done"
    BY <1>2, <1>3
  <1> HIDE DEF f1, f2
  <1>7. CASE queue' = f1
    BY <1>1, <1>4, <1>5, <1>7, LeasesOnly
  <1>8. CASE queue' = f2
    BY <1>1, <1>4, <1>6, <1>8, LeasesOnly
  <1> QED BY <1>1, <1>7, <1>8

\* A processor that knows its answer: the answer is the stored one of its row.
LEMMA ApplyTyped ==
  ASSUME IInv, NEW p \in Processor, work[p].pc # "idle", NEW a \in Snapshot, Apply(p, a)
  PROVE  \E w \in Work : /\ work' = [work EXCEPT ![p] = w] /\ work'[p] = w
                         /\ w.row = work[p].row /\ w.snapshot = a /\ w.index = 1
                         /\ w.pc = IF Prepared(a) THEN "write" ELSE "failing"
  <1> DEFINE w == [work[p] EXCEPT !.pc = IF Prepared(a) THEN "write" ELSE "failing",
                     !.permanent = ~Prepared(a), !.snapshot = a, !.index = 1]
  <1>1. work[p] \in Work /\ DOMAIN work = Processor
    BY WorkTyped DEF IInv
  <1>2. (~Prepared(a)) \in BOOLEAN
    BY DEF Prepared
  <1>3. /\ w \in Work /\ w.row = work[p].row /\ w.snapshot = a /\ w.index = 1
        /\ w.pc = IF Prepared(a) THEN "write" ELSE "failing"
    BY <1>1, <1>2 DEF Work
  <1>4. work' = [work EXCEPT ![p] = w]
    BY DEF Apply
  <1> HIDE DEF w
  <1> QED BY <1>1, <1>3, <1>4

\* What the applied answer gives the invariant of its processor.
LEMMA ApplyRelies ==
  ASSUME IInv, NEW p \in Processor, work[p].pc # "idle", NEW a \in Snapshot, Apply(p, a),
         UNCHANGED serving, Keeps, queue'[work[p].row].snapshot = a,
         queue[work[p].row].payload # Erased
  PROVE  WorkInv(p)'
  <1>1. PICK w \in Work : /\ work' = [work EXCEPT ![p] = w] /\ work'[p] = w
                          /\ w.row = work[p].row /\ w.snapshot = a /\ w.index = 1
                          /\ w.pc = IF Prepared(a) THEN "write" ELSE "failing"
    BY ApplyTyped
  <1>2. serving /\ work[p].row \in Rows
    BY DEF IInv, WorkInv
  <1>3. w.row \in Rows' /\ queue'[w.row].payload # Erased
    BY <1>1, <1>2 DEF Keeps
  <1>4. a # None
    BY SnapshotTyped
  <1>5. Prepared(a)' = Prepared(a)
    BY DEF Prepared
  <1>6. 1..(w.index - 1) = {}
    BY <1>1
  <1> QED BY <1>1, <1>2, <1>3, <1>4, <1>5, <1>6 DEF WorkInv

LEMMA LoadSnapshotStep ==
  ASSUME IInv, NEW p \in Processor, LoadSnapshot(p)
  PROVE  IInv'
  <1> DEFINE row == queue[work[p].row]
  <1>1. /\ TypeOK /\ work[p].pc = "claimed" /\ UNCHANGED <<queue, log, support, serving>>
        /\ work[p] \in Work /\ DOMAIN work = Processor
    BY WorkTyped DEF IInv, LoadSnapshot
  <1>2. serving /\ work[p].row \in Rows
    BY <1>1 DEF IInv, WorkInv
  <1>3. ASSUME NEW permanent \in BOOLEAN, Failing(p, permanent) PROVE IInv'
    BY <1>1, <1>3, FailingStep
  <1>4. CASE row.payload # Erased /\ work' = [work EXCEPT ![p].pc = "extract"]
    <2> DEFINE w == [work[p] EXCEPT !.pc = "extract"]
    <2>1. w \in Work /\ w.pc = "extract" /\ w.row = work[p].row
      BY <1>1 DEF Work
    <2>2. work' = [work EXCEPT ![p] = w]
      BY <1>4
    <2> HIDE DEF w
    <2>3. work'[p] = w
      BY <1>1, <2>2
    <2>4. WorkInv(p)'
      BY <1>1, <1>2, <1>4, <2>1, <2>3 DEF WorkInv, Rows
    <2> QED BY <1>1, <2>1, <2>2, <2>4, WorkOnly
  <1>5. CASE row.payload # Erased /\ row.snapshot # None /\ Apply(p, row.snapshot)
    <2>1. row \in Row
      BY <1>1, <1>2, QueueTable
    <2>2. row.snapshot \in Snapshot
      BY <1>5, <2>1 DEF Row
    <2>3. Keeps
      BY <1>1, TablesUnchanged DEF IInv
    <2>4. WorkInv(p)'
      BY <1>1, <1>5, <2>2, <2>3, ApplyRelies
    <2>5. PICK w \in Work : work' = [work EXCEPT ![p] = w]
      BY <1>1, <1>5, <2>2, ApplyTyped
    <2> QED BY <1>1, <2>4, <2>5, WorkOnly
  <1> QED BY <1>3, <1>4, <1>5 DEF LoadSnapshot

LEMMA ModelAnswersStep ==
  ASSUME IInv, NEW p \in Processor, ModelAnswers(p)
  PROVE  IInv'
  <1>1. /\ work[p].pc = "extract" /\ UNCHANGED <<queue, log, support, serving>>
        /\ work[p] \in Work /\ DOMAIN work = Processor /\ WorkInv(p)
    BY WorkTyped DEF IInv, ModelAnswers
  <1>2. PICK a \in Answer :
          \/ work' = [work EXCEPT ![p].pc = "persist", ![p].snapshot = Normalized(a)]
          \/ Failing(p, TRUE)
    BY DEF ModelAnswers
  <1>3. CASE Failing(p, TRUE)
    BY <1>1, <1>3, FailingStep
  <1>4. CASE work' = [work EXCEPT ![p].pc = "persist", ![p].snapshot = Normalized(a)]
    <2> DEFINE n == Normalized(a)
               w == [work[p] EXCEPT !.pc = "persist", !.snapshot = n]
    <2>1. n \in Snapshot
      BY DEF Snapshot
    <2>2. n # None
      BY <2>1, SnapshotTyped
    <2>3. work' = [work EXCEPT ![p] = w]
      BY <1>4
    <2> HIDE DEF n
    <2>4. w \in Work /\ w.pc = "persist" /\ w.row = work[p].row /\ w.snapshot = n
      BY <1>1, <2>1 DEF Work
    <2> HIDE DEF w
    <2>5. work'[p] = w
      BY <1>1, <2>3
    <2>6. WorkInv(p)'
      BY <1>1, <2>2, <2>4, <2>5 DEF WorkInv, Rows
    <2> QED BY <1>1, <2>3, <2>4, <2>6, WorkOnly
  <1> QED BY <1>2, <1>3, <1>4

\* The answer is stored once; only a row without one is written.
LEMMA PersistSnapshotStep ==
  ASSUME IInv, NEW p \in Processor, PersistSnapshot(p)
  PROVE  IInv'
  <1> DEFINE r == work[p].row
             a == work[p].snapshot
             new == [queue[r] EXCEPT !.snapshot = a]
             f == [queue EXCEPT ![r] = new]
  <1>1. /\ TypeOK /\ work[p].pc = "persist" /\ Persistable(p) /\ queue' = f /\ Apply(p, a)
        /\ UNCHANGED <<log, support, serving>> /\ WorkInv(p)
    BY DEF IInv, PersistSnapshot
  <1>2. serving /\ r \in Rows /\ queue[r].payload # Erased /\ a \in Snapshot
    BY <1>1, WorkTyped DEF WorkInv
  <1>3. queue \in [Rows -> Row] /\ queue[r] \in Row
    BY <1>1, <1>2, QueueTable
  <1>4. queue[r].snapshot = None
    BY <1>1 DEF Persistable
  <1>5. /\ new \in Row /\ new.snapshot = a /\ new.payload = queue[r].payload
        /\ new.status = queue[r].status
    BY <1>2, <1>3 DEF Row
  <1> HIDE DEF new, r, a
  <1>6. /\ f \in [Rows -> Row] /\ f[r] = new
        /\ \A q \in Rows : /\ queue[q].snapshot # None => f[q].snapshot = queue[q].snapshot
                           /\ f[q].payload = queue[q].payload
                           /\ f[q].status = queue[q].status
    BY <1>2, <1>3, <1>4, <1>5
  <1> HIDE DEF f
  <1>7. queue' \in Seq(Row) /\ Len(queue') <= MaxRows /\ Rows' = Rows
    BY <1>1, <1>6, RewrittenTyped
  <1>8. Keeps
    BY <1>1, <1>6, <1>7 DEF Keeps
  <1>9. LogInv'
    BY <1>1, <1>8, LogKeeps DEF IInv, LogInv
  <1>10. DoneInv'
    BY <1>1, <1>6, <1>7, <1>8, DoneUnchanged DEF IInv
  <1>11. WorkInv(p)'
    BY <1>1, <1>2, <1>5, <1>6, <1>8, ApplyRelies DEF r
  <1>12. PICK w \in Work : work' = [work EXCEPT ![p] = w]
    BY <1>1, <1>2, ApplyTyped
  <1>13. work' \in [Processor -> Work] /\ \A q \in Processor : WorkInv(q)'
    BY <1>1, <1>8, <1>11, <1>12, OneMoves
  <1> QED BY <1>1, <1>7, <1>9, <1>10, <1>13
          DEF IInv, TypeOK, WritesInOrder

\* A stop leaves nobody at work.
LEMMA ServerSteps ==
  ASSUME IInv, StopServer \/ StartServer
  PROVE  IInv'
  <1>1. UNCHANGED <<queue, log, support>> /\ serving' \in BOOLEAN
    BY DEF StopServer, StartServer
  <1>2. LogInv' /\ DoneInv'
    BY <1>1, TablesUnchanged DEF IInv
  <1>3. CASE StopServer
    <2>1. work' \in [Processor -> Work] /\ \A q \in Processor : work'[q] = Idle
      BY <1>3, IdleTyped DEF StopServer
    <2> QED BY <1>1, <1>2, <2>1, IdleRelies
            DEF IInv, TypeOK, WritesInOrder
  <1>4. CASE StartServer
    <2>1. work' = work /\ \A q \in Processor : WorkInv(q)'
      BY <1>1, <1>4 DEF IInv, WorkInv, StartServer
    <2> QED BY <1>1, <1>2, <2>1 DEF IInv, TypeOK, WritesInOrder
  <1> QED BY <1>3, <1>4

\* Erasure runs when no daemon serves: it changes the transcripts of rows that
\* nobody works on and that are not done, and none of the answers.
LEMMA EraseFactStep ==
  ASSUME IInv, NEW c \in Content, EraseFact(c)
  PROVE  IInv'
  <1> DEFINE f == [r \in Rows |->
                IF r \in Linked(c) THEN [queue[r] EXCEPT !.payload = Erased] ELSE queue[r]]
  <1>1. TypeOK /\ ~serving /\ queue' = f /\ UNCHANGED <<work, log, serving>>
    BY DEF IInv, EraseFact
  <1>2. queue \in [Rows -> Row]
    BY <1>1, QueueTable
  <1>3. ASSUME NEW row \in Row
        PROVE  /\ [row EXCEPT !.payload = Erased] \in Row
               /\ [row EXCEPT !.payload = Erased].snapshot = row.snapshot
               /\ [row EXCEPT !.payload = Erased].status = row.status
    BY <1>3 DEF Row
  <1>4. /\ f \in [Rows -> Row]
        /\ \A r \in Rows : /\ f[r].snapshot = queue[r].snapshot
                           /\ f[r].status = "done" => queue[r].status = "done"
    BY <1>2, <1>3
  <1> HIDE DEF f
  <1>5. Keeps /\ LogInv' /\ DoneInv'
    BY <1>1, <1>4, LeasesRewritten DEF IInv
  <1>6. queue' \in Seq(Row) /\ Len(queue') <= MaxRows
    BY <1>1, <1>4, RewrittenTyped
  <1>7. \A q \in Processor : work'[q].pc = "idle"
    BY <1>1 DEF IInv, WorkInv
  <1>8. \A q \in Processor : WorkInv(q)'
    BY <1>7 DEF WorkInv
  <1>9. support' \in [Content -> SUBSET (Observation \cup {Redacted})]
    BY <1>1 DEF EraseFact, TypeOK
  <1> QED BY <1>1, <1>5, <1>6, <1>8, <1>9 DEF IInv, TypeOK, WritesInOrder

\* The request of a proposal that is still to be written.
LEMMA NextWriteTyped ==
  ASSUME IInv, NEW p \in Processor, Pending(p)
  PROVE  /\ NextWrite(p) \in Write
         /\ NextWrite(p).row = work[p].row /\ NextWrite(p).index = work[p].index
         /\ NextWrite(p).snapshot = work[p].snapshot
         /\ work[p].row \in Rows /\ work[p].snapshot \in Snapshot
         /\ work[p].index \in DOMAIN work[p].snapshot
         /\ queue[work[p].row].payload \in Submission
  <1>1. /\ work[p].pc = "write" /\ work[p].index <= Len(work[p].snapshot)
        /\ work[p].index # 0 /\ work[p].index \in Nat
        /\ work[p].row \in Rows /\ queue[work[p].row].payload # Erased
        /\ work[p].snapshot \in Snapshot
    BY WorkTyped DEF IInv, WorkInv, Pending
  <1>2. work[p].index \in DOMAIN work[p].snapshot
    BY <1>1, SnapshotTyped
  <1>3. queue[work[p].row] \in Row /\ work[p].row \in 1..MaxRows
    BY <1>1, QueueTable DEF IInv
  <1>4. queue[work[p].row].payload \in Submission
    BY <1>1, <1>3 DEF Row
  <1>5. (work[p].snapshot[work[p].index].flaw = "none") \in BOOLEAN
    OBVIOUS
  <1> QED BY <1>1, <1>2, <1>3, <1>4, <1>5 DEF NextWrite, Write

\* The answer to a write: the processor goes on only if the write was accepted.
LEMMA AnsweredStep ==
  ASSUME IInv, NEW p \in Processor, Pending(p), Answered(p, NextWrite(p)),
         UNCHANGED <<queue, serving>>, log \subseteq log', NextWrite(p) \in log'
  PROVE  work' \in [Processor -> Work] /\ \A q \in Processor : WorkInv(q)'
  <1> DEFINE n == NextWrite(p)
             go == [work[p] EXCEPT !.index = work[p].index + 1]
             stop == [work[p] EXCEPT !.pc = "failing", !.permanent = TRUE]
  <1>1. /\ work[p] \in Work /\ DOMAIN work = Processor /\ WorkInv(p) /\ work[p].index \in Nat
        /\ work[p].pc = "write"
    BY WorkTyped DEF IInv, Pending
  <1>2. /\ n.row = work[p].row /\ n.index = work[p].index
        /\ work[p].row \in Rows
    BY NextWriteTyped
  <1>3. Keeps
    BY DEF Keeps, Rows
  <1>4. \/ n.ok /\ work' = [work EXCEPT ![p] = go]
        \/ work' = [work EXCEPT ![p] = stop]
    BY DEF Answered, Failing
  <1>5. /\ go \in Work /\ go.pc = "write" /\ go.row = work[p].row
        /\ go.snapshot = work[p].snapshot /\ go.index = work[p].index + 1
    BY <1>1 DEF Work
  <1>6. stop \in Work /\ stop.pc = "failing" /\ stop.row = work[p].row
    BY <1>1 DEF Work
  <1> HIDE DEF n, go, stop
  <1>7. CASE n.ok /\ work' = [work EXCEPT ![p] = go]
    <2>1. work'[p] = go
      BY <1>1, <1>7
    <2>2. ASSUME NEW i \in 1..(go.index - 1)
          PROVE  \E v \in log' : v.row = go.row /\ v.index = i /\ v.ok
      <3>1. CASE i = work[p].index
        BY <1>2, <1>5, <1>7, <3>1 DEF n
      <3>2. CASE i # work[p].index
        <4>1. i \in 1..(work[p].index - 1)
          BY <1>1, <1>5, <2>2, <3>2
        <4> QED BY <1>1, <1>5, <4>1 DEF WorkInv
      <3> QED BY <3>1, <3>2
    <2>3. go.index # 0
      BY <1>1, <1>5
    <2>4. WorkInv(p)'
      BY <1>1, <1>2, <1>5, <2>1, <2>2, <2>3 DEF WorkInv, Rows, Prepared
    <2> QED BY <1>3, <1>5, <1>7, <2>4, OneMoves
  <1>8. CASE work' = [work EXCEPT ![p] = stop]
    <2>1. work'[p] = stop
      BY <1>1, <1>8
    <2>2. WorkInv(p)'
      BY <1>1, <1>6, <2>1 DEF WorkInv, Rows
    <2> QED BY <1>3, <1>6, <1>8, <2>2, OneMoves
  <1> QED BY <1>4, <1>7, <1>8

LEMMA ReplayProposalStep ==
  ASSUME IInv, NEW p \in Processor, ReplayProposal(p)
  PROVE  IInv'
  <1>1. /\ Pending(p) /\ NextWrite(p) \in log /\ Answered(p, NextWrite(p))
        /\ UNCHANGED <<queue, log, support, serving>>
    BY DEF ReplayProposal
  <1>2. work' \in [Processor -> Work] /\ \A q \in Processor : WorkInv(q)'
    BY <1>1, AnsweredStep
  <1>3. LogInv' /\ DoneInv'
    BY <1>1, TablesUnchanged DEF IInv
  <1> QED BY <1>1, <1>2, <1>3 DEF IInv, TypeOK, WritesInOrder

\* What the service stores of an accepted proposal.
LEMMA ObservationTyped ==
  ASSUME IInv, NEW p \in Processor, Pending(p)
  PROVE  ObservationOf(p) \in Observation
  <1>1. /\ work[p].row \in Rows /\ work[p].snapshot \in Snapshot
        /\ work[p].index \in DOMAIN work[p].snapshot
        /\ queue[work[p].row].payload \in Submission
    BY NextWriteTyped
  <1>2. work[p].snapshot[work[p].index].typed \in {"none", "event", "state"}
    BY <1>1, SnapshotTyped
  <1>3. work[p].row \in 1..MaxRows
    BY <1>1, QueueTable DEF IInv
  <1> QED BY <1>1, <1>2, <1>3 DEF ObservationOf, Observation

\* A first write: its key is new, and its row and answer are the stored ones.
LEMMA WriteProposalStep ==
  ASSUME IInv, NEW p \in Processor, WriteProposal(p)
  PROVE  IInv'
  <1> DEFINE n == NextWrite(p)
  <1>1. /\ Pending(p) /\ Prior(n) = {} /\ log' = log \cup {n} /\ Answered(p, n)
        /\ UNCHANGED <<queue, serving>>
    BY DEF WriteProposal
  <1>2. /\ n \in Write /\ n.row = work[p].row /\ n.snapshot = work[p].snapshot
        /\ work[p].row \in Rows
    BY <1>1, NextWriteTyped
  <1>3. work' \in [Processor -> Work] /\ \A q \in Processor : WorkInv(q)'
    BY <1>1, AnsweredStep
  <1>4. support' \in [Content -> SUBSET (Observation \cup {Redacted})]
    BY <1>1, ObservationTyped DEF WriteProposal, IInv, TypeOK
  <1>5. n.snapshot = queue[n.row].snapshot /\ Prepared(n.snapshot)
    BY <1>1, <1>2 DEF IInv, WorkInv, Pending
  <1>6. n.index = work[p].index
    BY <1>1, NextWriteTyped
  <1> HIDE DEF n
  <1>7. Keeps
    BY <1>1 DEF Keeps, Rows
  <1>8. LogInv'
    <2>1. Rows' = Rows
      BY <1>1 DEF Rows
    <2>2. LogInv /\ \A v \in log' : v \in log \/ v = n
      BY <1>1 DEF IInv
    <2>3. \A v \in log : /\ v.row \in Rows' /\ v.snapshot = queue'[v.row].snapshot
                         /\ Prepared(v.snapshot)
      BY <1>7, LogKeeps DEF IInv
    <2> QED BY <1>1, <1>2, <1>5, <2>1, <2>2, <2>3 DEF LogInv
  <1>9. DoneInv'
    BY <1>1, <1>7, DoneUnchanged DEF IInv, Rows
  <1>10. WritesInOrder'
    <2>1. ASSUME NEW i \in 1..(n.index - 1)
          PROVE  \E v \in log' : v.row = n.row /\ v.index = i /\ v.ok
      BY <1>1, <1>2, <1>6, <2>1 DEF IInv, WorkInv, Pending
    <2>2. ASSUME NEW w \in log, NEW i \in 1..(w.index - 1)
          PROVE  \E v \in log' : v.row = w.row /\ v.index = i /\ v.ok
      BY <1>1, <2>2 DEF IInv, WritesInOrder
    <2> QED BY <1>1, <2>1, <2>2 DEF WritesInOrder
  <1>11. TypeOK'
    BY <1>1, <1>2, <1>3, <1>4 DEF IInv, TypeOK
  <1> QED BY <1>3, <1>8, <1>9, <1>10, <1>11 DEF IInv

\* The row is deleted by a processor that has had all its proposals accepted.
LEMMA CompleteStep ==
  ASSUME IInv, NEW p \in Processor, Complete(p)
  PROVE  IInv'
  <1> DEFINE r == work[p].row
             freed == Freed(queue[r])
             new == [freed EXCEPT !.status = "done"]
             f == [queue EXCEPT ![r] = new]
  <1>1. /\ TypeOK /\ work[p].pc = "write" /\ work[p].index > Len(work[p].snapshot)
        /\ UNCHANGED <<log, support, serving>> /\ WorkInv(p)
        /\ work[p].index \in Nat /\ DOMAIN work = Processor
    BY WorkTyped DEF IInv, Complete
  <1>2. /\ r \in Rows /\ work[p].snapshot \in Snapshot /\ queue[r].snapshot = work[p].snapshot
        /\ \A i \in 1..(work[p].index - 1) : \E v \in log : v.row = r /\ v.index = i /\ v.ok
    BY <1>1, WorkTyped DEF WorkInv
  <1>3. \/ queue' = f /\ work' = [work EXCEPT ![p] = Idle]
        \/ Failing(p, FALSE) /\ UNCHANGED queue
    BY DEF Complete, Deleted
  <1>4. CASE Failing(p, FALSE) /\ UNCHANGED queue
    BY <1>1, <1>4, FailingStep
  <1>5. CASE queue' = f /\ work' = [work EXCEPT ![p] = Idle]
    <2>1. queue \in [Rows -> Row] /\ queue[r] \in Row
      BY <1>1, <1>2, QueueTable
    <2>2. /\ freed \in Row /\ freed.snapshot = queue[r].snapshot
          /\ freed.payload = queue[r].payload
      BY <2>1, FreedRow
    <2> HIDE DEF freed
    <2>3. new \in Row /\ new.snapshot = queue[r].snapshot /\ new.payload = queue[r].payload
      BY <2>2 DEF Row
    <2> HIDE DEF new, r
    <2>4. /\ f \in [Rows -> Row]
          /\ \A q \in Rows : /\ f[q].snapshot = queue[q].snapshot
                             /\ f[q].payload = queue[q].payload
                             /\ q # r => f[q] = queue[q]
      BY <1>2, <2>1, <2>3
    <2> HIDE DEF f
    <2>5. queue' \in Seq(Row) /\ Len(queue') <= MaxRows /\ Rows' = Rows
      BY <1>1, <1>5, <2>4, RewrittenTyped
    <2>6. Keeps
      BY <1>1, <1>5, <2>4, <2>5 DEF Keeps
    <2>7. LogInv'
      BY <1>1, <2>6, LogKeeps DEF IInv, LogInv
    <2>8. DoneInv'
      <3> SUFFICES ASSUME NEW q \in Rows', queue'[q].status = "done"
                   PROVE  /\ queue'[q].snapshot # None
                          /\ \A i \in DOMAIN queue'[q].snapshot :
                               \E v \in log' : v.row = q /\ v.index = i /\ v.ok
        BY DEF DoneInv
      <3>1. CASE q = r
        <4>1. /\ queue'[q].snapshot = work[p].snapshot /\ work[p].snapshot # None
              /\ Len(work[p].snapshot) \in Nat
              /\ DOMAIN work[p].snapshot = 1..Len(work[p].snapshot)
          BY <1>2, <1>5, <2>4, <3>1, SnapshotTyped
        <4>2. \A i \in DOMAIN work[p].snapshot : i \in 1..(work[p].index - 1)
          BY <1>1, <4>1
        <4> QED BY <1>1, <1>2, <3>1, <4>1, <4>2
      <3>2. CASE q # r
        <4>1. q \in Rows /\ queue[q].status = "done"
          BY <1>5, <2>4, <2>5, <3>2
        <4> QED BY <2>6, <4>1, DoneKeeps DEF IInv
      <3> QED BY <3>1, <3>2
    <2>9. work'[p] = Idle
      BY <1>1, <1>5
    <2>10. work' \in [Processor -> Work] /\ \A q \in Processor : WorkInv(q)'
      BY <1>1, <1>5, <2>6, <2>9, IdleTyped, IdleRelies, OneMoves
    <2> QED BY <1>1, <2>5, <2>7, <2>8, <2>10
            DEF IInv, TypeOK, WritesInOrder
  <1> QED BY <1>3, <1>4, <1>5

LEMMA NextStep == IInv /\ [Next]_vars => IInv'
  <1> SUFFICES ASSUME IInv, [Next]_vars PROVE IInv'
    OBVIOUS
  <1>1. CASE UNCHANGED vars
    <2>1. LogInv' /\ DoneInv'
      BY <1>1, TablesUnchanged DEF IInv, vars
    <2> QED BY <1>1, <2>1
            DEF IInv, vars, TypeOK, WorkInv, Rows, Prepared, WritesInOrder
  <1>2. ASSUME NEW s \in Submission, Enqueue(s) PROVE IInv'
    BY <1>2, EnqueueStep
  <1>3. ASSUME NEW p \in Processor, Process(p) PROVE IInv'
    BY <1>3, ClaimStep, ClaimNothingStep, LoadSnapshotStep, GiveUpSteps,
       ModelAnswersStep, PersistSnapshotStep, WriteProposalStep, ReplayProposalStep,
       CompleteStep, FailStep, LoseLeaseStep DEF Process, Finish
  <1>4. ASSUME NEW r \in Rows, TimePasses(r) PROVE IInv'
    BY <1>4, TimePassesStep
  <1>5. ASSUME NEW c \in Content, EraseFact(c) PROVE IInv'
    BY <1>5, EraseFactStep
  <1>6. CASE StopServer \/ StartServer
    BY <1>6, ServerSteps
  <1> QED BY <1>1, <1>2, <1>3, <1>4, <1>5, <1>6 DEF Next

-----------------------------------------------------------------------------
(* Theorems                                                                *)

\* The strengthening is an invariant: what processors rely on between their
\* transactions survives every step of the others, of the clock, of a crash
\* and of erasure.
THEOREM Inductive == Spec => []IInv
  BY InitStep, NextStep, PTL DEF Spec

\* The queue, the work, the log and the evidence stay well-formed; in
\* particular a claim never exceeds the attempts _claim allows.
THEOREM TypeCorrect == Spec => []TypeOK
  <1>1. IInv => TypeOK
    BY DEF IInv
  <1> QED BY <1>1, Inductive, PTL

\* _persist_snapshot and the writes after it: all writes of a row come from the
\* one answer stored with it.
THEOREM OneAnswer == Spec => []OneAnswerPerRow
  <1>1. IInv => OneAnswerPerRow
    BY DEF IInv, LogInv, OneAnswerPerRow
  <1> QED BY <1>1, Inductive, PTL

\* _complete deletes a row only when every proposal of its answer is accepted,
\* whichever processors wrote them.
THEOREM CompletedWritten == Spec => []CompletedRowsWritten
  <1>1. IInv => CompletedRowsWritten
    BY DEF IInv, DoneInv, CompletedRowsWritten
  <1> QED BY <1>1, Inductive, PTL

\* process_one writes the proposals of an answer in order: what a row has
\* written is a prefix of it, ended by the first refusal, across retries,
\* processors and rows of the same transcript.
THEOREM InOrder == Spec => []WritesInOrder
  <1>1. IInv => WritesInOrder
    BY DEF IInv
  <1> QED BY <1>1, Inductive, PTL

\* _prepare_snapshot screens an answer as a whole: what is written never
\* belongs to an answer with a credential.
THEOREM UnsafeUnwritten == Spec => []UnsafeAnswersUnwritten
  <1>1. IInv => UnsafeAnswersUnwritten
    BY DEF IInv, LogInv, Prepared, UnsafeAnswersUnwritten
  <1> QED BY <1>1, Inductive, PTL
=============================================================================
