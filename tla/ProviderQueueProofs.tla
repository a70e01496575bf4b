------------------------ MODULE ProviderQueueProofs ------------------------
(***************************************************************************)
(* Machine-checked theorems about the background work of the provider: a   *)
(* row leaves the queue with its facts stored and a store is closed behind *)
(* the last thread that uses it.                                           *)
(***************************************************************************)
EXTENDS ProviderQueue, TLAPS

-----------------------------------------------------------------------------
(* The inductive invariant                                                 *)

Row == [payload: Payload \cup {0}, status: {"none", "pending", "processing", "dead", "done"},
        attempts: 0..MaxAttempts, owner: 0..MaxSessions,
        expired: BOOLEAN, due: BOOLEAN, old: BOOLEAN, quota: BOOLEAN]
Thread == [pc: {"off", "claim", "llm", "insert", "complete", "failed", "drained", "tick"},
           row: 0..MaxRows, facts: SUBSET Content]
Tasks == [content: Content, session: 0..MaxSessions, store: Session, pc: {"queued", "running"}]

\* A row that is leased has an owner, one that was used has a transcript, and
\* one that can be claimed has attempts left.
RowInv(row) ==
  /\ row \in Row
  /\ row.status = "processing" <=> row.owner # 0
  /\ row.status # "none" => row.payload \in Payload
  /\ Active(row) => row.attempts < MaxAttempts

\* A worker on a row has read it, and completes it with its facts stored.
WorkerInv(w) ==
  /\ w \in Thread
  /\ w.pc \in {"llm", "insert", "complete", "failed"} => w.row # 0
  /\ w.row # 0 => rows[w.row].payload \in Payload
  /\ w.pc = "complete" => w.facts \subseteq facts

\* Where the host is, and what that says of the session, the pool and the
\* join of the threads.
HostInv ==
  /\ host \in {"down", "up", "reinit", "shutdown"}
  /\ started \in 0..MaxSessions /\ pool \in BOOLEAN /\ quiet \in BOOLEAN
  /\ available \in BOOLEAN
  /\ store \in [Session -> {"none", "open", "closed"}] /\ stop \in [Session -> BOOLEAN]
  /\ session = IF host = "up" THEN started ELSE 0
  /\ host = "down" => ~pool
  /\ host # "down" => started # 0
  /\ host = "up" => pool /\ store[started] = "open" /\ ~stop[started]
  /\ host \in {"reinit", "shutdown"} => started < MaxSessions
  /\ \A s \in Session : s > started => ~stop[s]

\* Between the join and the closing of the store no thread of the session
\* starts again.
JoinInv == host = "reinit" /\ ~pool /\ quiet => Quiescent(started)

DataInv ==
  /\ rows \in [RowId -> Row] /\ mem \in [RowId -> 0..MaxAttempts]
  /\ worker \in [Session -> Thread] /\ fill \in [Session -> SUBSET Content]
  /\ tasks \subseteq Tasks /\ facts \subseteq Content /\ vectors \subseteq Content
  /\ \A r \in RowId : RowInv(rows[r])
  /\ \A s \in Session : WorkerInv(worker[s]) /\ fill[s] \subseteq facts

IInv == HostInv /\ JoinInv /\ DataInv /\ ClosedStoresQuiet
-----------------------------------------------------------------------------
(* What a step leaves as it was                                            *)

\* The rows after a step: they are still sound, and keep their transcripts.
RowsFollow ==
  /\ rows' \in [RowId -> Row] /\ \A r \in RowId : RowInv(rows'[r])
  /\ \A r \in RowId : rows[r].payload \in Payload => rows'[r].payload \in Payload

LEMMA RowsSame ==
  ASSUME DataInv, rows' = rows
  PROVE  RowsFollow
  BY DEF RowsFollow, DataInv

LEMMA RowPut ==
  ASSUME DataInv, NEW r \in RowId, NEW z, RowInv(z), z.payload \in Payload,
         rows' = [rows EXCEPT ![r] = z]
  PROVE  RowsFollow
  <1>1. z \in Row
    BY DEF RowInv
  <1> QED BY <1>1 DEF RowsFollow, DataInv

\* A step of a thread: the host does not move and nobody starts.
LEMMA HostKept ==
  ASSUME HostInv, JoinInv, ClosedStoresQuiet, UNCHANGED lifecycle,
         \A s \in Session : Quiescent(s) => Quiescent(s)'
  PROVE  HostInv' /\ JoinInv' /\ ClosedStoresQuiet'
  <1>1. HostInv'
    BY DEF HostInv, lifecycle
  <1>2. JoinInv'
    <2> SUFFICES ASSUME host' = "reinit", ~pool', quiet' PROVE Quiescent(started)'
      BY DEF JoinInv
    <2>1. PICK s \in Session : s = started /\ started' = s /\ Quiescent(s)
      BY QueueAssumption DEF HostInv, JoinInv, lifecycle, Session
    <2>2. Quiescent(s)'
      BY <2>1
    <2> QED BY <2>1, <2>2 DEF Quiescent
  <1>3. ClosedStoresQuiet'
    BY DEF ClosedStoresQuiet, Quiescent, lifecycle
  <1> QED BY <1>1, <1>2, <1>3

\* A step of the worker of session s.
LEMMA WorkerMoves ==
  ASSUME IInv, NEW s \in Session, worker[s].pc # "off", NEW w \in Thread,
         worker' = [worker EXCEPT ![s] = w], UNCHANGED <<lifecycle, fill>>,
         RowsFollow, mem' \in [RowId -> 0..MaxAttempts], tasks' \subseteq Tasks,
         facts \subseteq facts', facts' \subseteq Content, vectors' \subseteq Content,
         w.pc \in {"llm", "insert", "complete", "failed"} => w.row # 0,
         w.row # 0 => rows'[w.row].payload \in Payload,
         w.pc = "complete" => w.facts \subseteq facts'
  PROVE  IInv'
  <1>1. /\ worker' \in [Session -> Thread] /\ worker'[s] = w
        /\ \A t \in Session : t # s => worker'[t] = worker[t]
    BY DEF IInv, DataInv
  <1>2. HostInv' /\ JoinInv' /\ ClosedStoresQuiet'
    <2>1. \A t \in Session : Quiescent(t) => Quiescent(t)'
      BY <1>1 DEF Quiescent
    <2> QED BY <2>1, HostKept DEF IInv
  <1>3. ASSUME NEW t \in Session PROVE WorkerInv(worker[t])'
    <2>1. CASE t = s
      BY <1>1, <2>1 DEF WorkerInv
    <2>2. CASE t # s
      <3>1. PICK v : v = worker[t] /\ v = worker'[t] /\ WorkerInv(v)
        BY <1>1, <2>2 DEF IInv, DataInv
      <3>2. v.row # 0 => v.row \in RowId
        BY <3>1, QueueAssumption DEF WorkerInv, Thread, RowId
      <3>3. v.row # 0 => rows'[v.row].payload \in Payload
        BY <3>1, <3>2 DEF WorkerInv, RowsFollow
      <3> QED BY <3>1, <3>3 DEF WorkerInv
    <2> QED BY <2>1, <2>2
  <1>4. \A t \in Session : fill'[t] \subseteq facts'
    BY DEF IInv, DataInv
  <1>5. DataInv'
    <2>1. \A r \in RowId : RowInv(rows[r])'
      BY DEF RowsFollow, RowInv, Active
    <2> QED BY <1>1, <1>3, <1>4, <2>1 DEF IInv, DataInv, RowsFollow
  <1> QED BY <1>2, <1>5 DEF IInv
-----------------------------------------------------------------------------
(* What becomes of a leased row                                            *)

LEMMA SettledSound ==
  ASSUME NEW row, RowInv(row), row.status = "processing", NEW status \in {"pending", "dead"}
  PROVE  LET z == Settled(row, status) IN
         /\ z \in Row /\ z.payload = row.payload /\ z.payload \in Payload /\ z.status = status
         /\ z.owner = 0 /\ z.attempts = row.attempts /\ row.attempts \in 0..MaxAttempts
         /\ row.attempts < MaxAttempts
  <1>1. 0 \in 0..MaxSessions /\ row \in Row /\ row.payload \in Payload
        /\ row.attempts < MaxAttempts
    BY QueueAssumption DEF RowInv, Active
  <1>2. PICK z : z = [row EXCEPT !.status = status, !.owner = 0, !.expired = FALSE]
    OBVIOUS
  <1>3. /\ z \in Row /\ z.payload = row.payload /\ z.status = status /\ z.owner = 0
        /\ z.attempts = row.attempts /\ row.attempts \in 0..MaxAttempts
    BY <1>1, <1>2 DEF Row
  <1> QED BY <1>1, <1>2, <1>3 DEF Settled

LEMMA LeasedRowSound ==
  ASSUME NEW row, RowInv(row), row.status = "processing"
  PROVE  /\ RowInv(Settled(row, "pending")) /\ Settled(row, "pending").payload \in Payload
         /\ RowInv(QuotaFailed(row)) /\ QuotaFailed(row).payload \in Payload
         /\ RowInv(Failed(row)) /\ Failed(row).payload \in Payload
         /\ RowInv(Done(row)) /\ Done(row).payload \in Payload
  <1>1. RowInv(Settled(row, "pending")) /\ Settled(row, "pending").payload \in Payload
    <2>1. PICK z : z = Settled(row, "pending")
      OBVIOUS
    <2>2. /\ z \in Row /\ z.payload \in Payload /\ z.status = "pending" /\ z.owner = 0
          /\ z.attempts < MaxAttempts
      BY <2>1, SettledSound
    <2> QED BY <2>1, <2>2 DEF RowInv, Active
  <1>2. RowInv(QuotaFailed(row)) /\ QuotaFailed(row).payload \in Payload
    <2>1. CASE row.old
      <3>1. PICK z : z = Settled(row, "dead")
        OBVIOUS
      <3>2. z \in Row /\ z.payload \in Payload /\ z.status = "dead" /\ z.owner = 0
        BY <3>1, SettledSound
      <3>3. PICK y : y = [z EXCEPT !.due = TRUE, !.quota = TRUE]
        OBVIOUS
      <3>4. y \in Row /\ y.payload \in Payload /\ y.status = "dead" /\ y.owner = 0
        BY <3>2, <3>3 DEF Row
      <3>5. QuotaFailed(row) = y
        BY <2>1, <3>1, <3>3 DEF QuotaFailed
      <3> QED BY <3>4, <3>5 DEF RowInv, Active
    <2>2. CASE ~row.old
      <3>1. PICK z : z = Settled(row, "pending")
        OBVIOUS
      <3>2. /\ z \in Row /\ z.payload \in Payload /\ z.status = "pending" /\ z.owner = 0
            /\ z.attempts < MaxAttempts
        BY <3>1, SettledSound
      <3>3. PICK y : y = [z EXCEPT !.due = FALSE]
        OBVIOUS
      <3>4. /\ y \in Row /\ y.payload \in Payload /\ y.status = "pending" /\ y.owner = 0
            /\ y.attempts < MaxAttempts
        BY <3>2, <3>3 DEF Row
      <3>5. QuotaFailed(row) = y
        BY <2>2, <3>1, <3>3 DEF QuotaFailed
      <3> QED BY <3>4, <3>5 DEF RowInv, Active
    <2> QED BY <2>1, <2>2
  <1>3. RowInv(Failed(row)) /\ Failed(row).payload \in Payload
    <2>1. PICK status \in {"pending", "dead"} :
            status = IF row.old \/ row.attempts + 1 >= MaxAttempts THEN "dead" ELSE "pending"
      OBVIOUS
    <2>2. PICK z : z = Settled(row, status)
      OBVIOUS
    <2>3. /\ z \in Row /\ z.payload \in Payload /\ z.status = status /\ z.owner = 0
          /\ row.attempts \in 0..MaxAttempts /\ row.attempts < MaxAttempts
      BY <2>2, SettledSound
    <2>4. PICK n : n = row.attempts + 1
      OBVIOUS
    <2>5. n \in 0..MaxAttempts /\ (status = "pending" => n < MaxAttempts)
      BY <2>1, <2>3, <2>4, QueueAssumption
    <2>6. PICK y : y = [z EXCEPT !.attempts = n]
      OBVIOUS
    <2>7. /\ y \in Row /\ y.payload \in Payload /\ y.status = status /\ y.owner = 0
          /\ y.attempts = n
      BY <2>3, <2>5, <2>6 DEF Row
    <2>8. Failed(row) = y
      BY <2>1, <2>2, <2>4, <2>6 DEF Failed
    <2> QED BY <2>1, <2>5, <2>7, <2>8 DEF RowInv, Active
  <1>4. RowInv(Done(row)) /\ Done(row).payload \in Payload
    <2>1. row.payload \in Payload
      BY DEF RowInv
    <2>2. PICK z : z = Done(row)
      OBVIOUS
    <2>3. z \in Row /\ z.payload \in Payload /\ z.status = "done" /\ z.owner = 0
      <3>1. 0 \in 0..MaxSessions /\ 0 \in 0..MaxAttempts
        BY QueueAssumption
      <3>2. NoRow \in Row /\ NoRow.owner = 0
        BY <3>1 DEF NoRow, Row
      <3>3. PICK y : y = NoRow
        OBVIOUS
      <3>4. z = [y EXCEPT !.payload = row.payload, !.status = "done"]
        BY <2>2, <3>3 DEF Done
      <3> QED BY <2>1, <3>2, <3>3, <3>4 DEF Row
    <2> QED BY <2>2, <2>3 DEF RowInv, Active
  <1> QED BY <1>1, <1>2, <1>3, <1>4
-----------------------------------------------------------------------------
(* The worker thread                                                       *)

\* A worker that lets go of its row.
LEMMA WorkerRests ==
  ASSUME IInv, NEW s \in Session, worker[s].pc # "off",
         NEW pc \in {"off", "claim", "drained"},
         worker' = [worker EXCEPT ![s] = [Resting EXCEPT !.pc = pc]],
         UNCHANGED <<lifecycle, fill, tasks, facts>>,
         RowsFollow, mem' \in [RowId -> 0..MaxAttempts], vectors' \subseteq Content
  PROVE  IInv'
  <1>1. PICK w : w = [Resting EXCEPT !.pc = pc]
    OBVIOUS
  <1>2. w \in Thread /\ w.pc = pc /\ w.row = 0
    BY <1>1, QueueAssumption DEF Resting, Thread
  <1>3. worker' = [worker EXCEPT ![s] = w]
    BY <1>1
  <1>4. tasks' \subseteq Tasks /\ facts \subseteq facts' /\ facts' \subseteq Content
    BY DEF IInv, DataInv
  <1> QED BY <1>2, <1>3, <1>4, WorkerMoves

LEMMA StoredTyped ==
  ASSUME DataInv, NEW s, NEW cs \in SUBSET Content
  PROVE  Stored(s, cs) \subseteq Content
  BY DEF Stored, DataInv

LEMMA ChunksTyped ==
  ASSUME DataInv, NEW s, NEW missing \in SUBSET Content, Chunks(s, missing)
  PROVE  vectors' \subseteq Content
  BY StoredTyped DEF Chunks, DataInv

LEMMA BreakKeeps ==
  ASSUME IInv, NEW s \in Session, worker[s].pc # "off", Break(s) \/ Loop(s),
         UNCHANGED <<lifecycle, fill, tasks, facts, rows, mem>>, vectors' \subseteq Content
  PROVE  IInv'
  <1>1. PICK pc \in {"off", "claim", "drained"} :
          worker' = [worker EXCEPT ![s] = [Resting EXCEPT !.pc = pc]]
    BY DEF Break, Loop
  <1>2. RowsFollow /\ mem' \in [RowId -> 0..MaxAttempts]
    BY RowsSame DEF IInv, DataInv
  <1> QED BY <1>1, <1>2, WorkerRests

LEMMA DrainedKeeps ==
  ASSUME IInv, NEW s \in Session, WorkerDrained(s) \/ WorkerTicked(s)
  PROVE  IInv'
  <1>0. DataInv /\ worker[s] \in Thread /\ vectors \subseteq Content /\ facts \subseteq Content
    BY DEF IInv, DataInv
  <1>1. CASE WorkerTicked(s)
    <2>1. vectors' \subseteq Content
      BY <1>0, <1>1, ChunksTyped DEF WorkerTicked, Thread
    <2> QED BY <1>1, <2>1, BreakKeeps DEF WorkerTicked, At
  <1>2. CASE WorkerDrained(s) /\ Loop(s)
    BY <1>0, <1>2, BreakKeeps DEF WorkerDrained, Kept, At
  <1>3. CASE WorkerDrained(s) /\ ~Loop(s)
    <2>1. PICK v, w : v = worker[s] /\ w = [v EXCEPT !.pc = "tick", !.facts = Missing(s)]
      OBVIOUS
    <2>2. Missing(s) \in SUBSET Content
      BY <1>0 DEF Missing
    <2>3. w \in Thread /\ w.pc = "tick" /\ w.row = v.row
      BY <1>0, <2>1, <2>2 DEF Thread
    <2>4. worker' = [worker EXCEPT ![s] = w] /\ worker[s].pc = "drained"
      BY <1>3, <2>1 DEF WorkerDrained, At
    <2>5. RowsFollow /\ rows' = rows /\ UNCHANGED <<lifecycle, fill, tasks, facts, vectors, mem>>
      BY <1>0, <1>3, RowsSame DEF WorkerDrained, Kept
    <2>6. w.row # 0 => rows'[w.row].payload \in Payload
      BY <2>1, <2>3, <2>5 DEF IInv, DataInv, WorkerInv
    <2>7. /\ mem' \in [RowId -> 0..MaxAttempts] /\ tasks' \subseteq Tasks
          /\ facts \subseteq facts' /\ facts' \subseteq Content /\ vectors' \subseteq Content
      BY <2>5 DEF IInv, DataInv
    <2> QED BY <2>3, <2>4, <2>5, <2>6, <2>7, WorkerMoves
  <1> QED BY <1>1, <1>2, <1>3

LEMMA ClaimKeeps ==
  ASSUME IInv, NEW s \in Session, Claim(s)
  PROVE  IInv'
  <1>0. /\ DataInv /\ worker[s] \in Thread /\ worker[s].pc = "claim"
        /\ UNCHANGED <<lifecycle, fill, tasks, facts, vectors, mem>>
        /\ mem' \in [RowId -> 0..MaxAttempts] /\ tasks' \subseteq Tasks
        /\ facts \subseteq facts' /\ facts' \subseteq Content /\ vectors' \subseteq Content
    BY DEF IInv, DataInv, Claim, At, Kept
  <1>1. CASE Break(s) /\ UNCHANGED rows
    BY <1>0, <1>1, BreakKeeps
  <1>2. ASSUME NEW r \in RowId, Claimable(r),
               rows' = [rows EXCEPT ![r].status = "processing", ![r].owner = s, ![r].expired = FALSE],
               worker' = [worker EXCEPT ![s].pc = "llm", ![s].row = r]
        PROVE  IInv'
    <2>1. PICK row, z : row = rows[r] /\ z = [row EXCEPT !.status = "processing", !.owner = s,
                                                         !.expired = FALSE]
      OBVIOUS
    <2>2. /\ RowInv(row) /\ row \in Row /\ Active(row) /\ row.status # "none" /\ s \in 0..MaxSessions
          /\ s # 0 /\ r \in 0..MaxRows /\ r # 0
      BY <1>0, <1>2, <2>1, QueueAssumption DEF DataInv, Claimable, Active, Session, RowInv, RowId
    <2>3. /\ z \in Row /\ z.status = "processing" /\ z.owner = s /\ z.payload = row.payload
          /\ z.attempts = row.attempts
      BY <2>1, <2>2 DEF Row
    <2>4. RowInv(z) /\ z.payload \in Payload
      BY <2>2, <2>3 DEF RowInv, Active
    <2>5. rows' = [rows EXCEPT ![r] = z]
      BY <1>2, <2>1
    <2>6. RowsFollow /\ rows'[r].payload \in Payload
      BY <1>0, <2>4, <2>5, RowPut DEF DataInv
    <2>7. PICK v, w : v = worker[s] /\ w = [v EXCEPT !.pc = "llm", !.row = r]
      OBVIOUS
    <2>8. w \in Thread /\ w.pc = "llm" /\ w.row = r
      BY <1>0, <2>2, <2>7 DEF Thread
    <2>9. worker' = [worker EXCEPT ![s] = w]
      BY <1>2, <2>7
    <2> QED BY <1>0, <2>2, <2>6, <2>8, <2>9, WorkerMoves
  <1> QED BY <1>1, <1>2 DEF Claim

\* The row a worker is on.
LEMMA OnRow ==
  ASSUME IInv, NEW s \in Session, worker[s].pc \in {"llm", "insert", "complete", "failed"}
  PROVE  /\ worker[s].row \in RowId /\ rows[worker[s].row].payload \in Payload
         /\ RowInv(rows[worker[s].row]) /\ worker[s] \in Thread
  <1>1. worker[s] \in Thread /\ WorkerInv(worker[s])
    BY DEF IInv, DataInv
  <1>2. worker[s].row \in RowId /\ rows[worker[s].row].payload \in Payload
    BY <1>1, QueueAssumption DEF WorkerInv, Thread, RowId
  <1> QED BY <1>1, <1>2 DEF IInv, DataInv

LEMMA ExtractKeeps ==
  ASSUME IInv, NEW s \in Session, Extract(s)
  PROVE  IInv'
  <1>0. /\ DataInv /\ worker[s] \in Thread /\ worker[s].pc = "llm"
        /\ UNCHANGED <<lifecycle, fill, tasks, facts, vectors, mem, rows>>
        /\ mem' \in [RowId -> 0..MaxAttempts] /\ tasks' \subseteq Tasks
        /\ facts \subseteq facts' /\ facts' \subseteq Content /\ vectors' \subseteq Content
    BY DEF IInv, DataInv, Extract, At, Kept
  <1>1. CASE Break(s)
    BY <1>0, <1>1, BreakKeeps
  <1>2. CASE ~Break(s)
    <2>1. PICK c \in SUBSET Answer[rows[worker[s].row].payload] :
            worker' = [worker EXCEPT ![s].pc = IF c = {} THEN "complete" ELSE "insert",
                                     ![s].facts = c]
      BY <1>2 DEF Extract
    <2>2. c \in SUBSET Content
      BY <1>0, <2>1, OnRow DEF Content
    <2>3. PICK pc \in {"complete", "insert"} : pc = IF c = {} THEN "complete" ELSE "insert"
      OBVIOUS
    <2>4. PICK v, w : v = worker[s] /\ w = [v EXCEPT !.pc = pc, !.facts = c]
      OBVIOUS
    <2>5. w \in Thread /\ w.pc = pc /\ w.row = v.row /\ w.facts = c
      BY <1>0, <2>2, <2>4 DEF Thread
    <2>6. worker' = [worker EXCEPT ![s] = w]
      BY <2>1, <2>3, <2>4
    <2>7. RowsFollow
      BY <1>0, RowsSame
    <2>8. w.row # 0 /\ rows'[w.row].payload \in Payload
      BY <1>0, <2>4, <2>5, OnRow, QueueAssumption DEF RowId
    <2>9. w.pc = "complete" => w.facts \subseteq facts'
      BY <2>3, <2>5
    <2> QED BY <1>0, <2>5, <2>6, <2>7, <2>8, <2>9, WorkerMoves
  <1> QED BY <1>1, <1>2

LEMMA SubmitTyped ==
  ASSUME IInv, NEW cs \in SUBSET Content, EmbedCb(cs)
  PROVE  tasks' \subseteq Tasks /\ vectors' \subseteq Content
  <1>0. DataInv /\ tasks \subseteq Tasks /\ vectors \subseteq Content
    BY DEF IInv, DataInv
  <1>1. CASE Submit(cs) /\ pool
    <2>1. PICK n : n = CASE session # 0 -> session
                         [] host = "reinit" -> started + 1
                         [] OTHER -> 0
      OBVIOUS
    <2>2. started \in Session /\ n \in 0..MaxSessions
      BY <1>1, <2>1, QueueAssumption DEF IInv, HostInv, Session
    <2>3. vectors' \subseteq Content /\ \A t \in tasks' : t \in tasks \/ \E c \in cs :
            t = [content |-> c, pc |-> "queued", store |-> started, session |-> n]
      BY <1>0, <1>1, <2>1 DEF Submit
    <2>4. \A c \in cs :
            [content |-> c, pc |-> "queued", store |-> started, session |-> n] \in Tasks
      BY <2>2 DEF Tasks
    <2> QED BY <1>0, <2>3, <2>4
  <1>2. CASE Submit(cs) /\ ~pool
    BY <1>0, <1>2, StoredTyped DEF Submit
  <1>3. CASE UNCHANGED <<tasks, vectors>>
    BY <1>0, <1>3
  <1> QED BY <1>1, <1>2, <1>3 DEF EmbedCb

LEMMA InsertKeeps ==
  ASSUME IInv, NEW s \in Session, Insert(s)
  PROVE  IInv'
  <1>0. /\ DataInv /\ worker[s] \in Thread /\ worker[s].pc = "insert" /\ facts \subseteq Content
        /\ UNCHANGED <<lifecycle, fill, mem, rows>> /\ mem' \in [RowId -> 0..MaxAttempts]
    BY DEF IInv, DataInv, Insert, At
  <1>1. PICK done \in SUBSET worker[s].facts :
          /\ facts' = facts \cup done /\ EmbedCb(done \ facts)
          /\ Go(s, IF done = worker[s].facts THEN "complete" ELSE "failed")
    BY DEF Insert
  <1>2. done \subseteq Content
    BY <1>0 DEF Thread
  <1>3. tasks' \subseteq Tasks /\ vectors' \subseteq Content
    <2>1. PICK cs \in SUBSET Content : cs = done \ facts /\ EmbedCb(cs)
      BY <1>1, <1>2
    <2> QED BY <2>1, SubmitTyped
  <1>4. PICK pc \in {"complete", "failed"} : pc = IF done = worker[s].facts THEN "complete" ELSE "failed"
    OBVIOUS
  <1>5. PICK v, w : v = worker[s] /\ w = [v EXCEPT !.pc = pc]
    OBVIOUS
  <1>6. w \in Thread /\ w.pc = pc /\ w.row = v.row /\ w.facts = v.facts
    BY <1>0, <1>5 DEF Thread
  <1>7. worker' = [worker EXCEPT ![s] = w]
    BY <1>1, <1>4, <1>5 DEF Go
  <1>8. RowsFollow
    BY <1>0, RowsSame
  <1>9. w.row # 0 /\ rows'[w.row].payload \in Payload
    BY <1>0, <1>5, <1>6, OnRow, QueueAssumption DEF RowId
  <1>10. w.pc = "complete" => w.facts \subseteq facts'
    BY <1>1, <1>4, <1>5, <1>6
  <1>11. facts \subseteq facts' /\ facts' \subseteq Content
    BY <1>0, <1>1, <1>2
  <1> QED BY <1>0, <1>3, <1>6, <1>7, <1>8, <1>9, <1>10, <1>11, WorkerMoves

\* The row of a worker that owns it, or none, is put away.
LEMMA PutKeeps ==
  ASSUME IInv, NEW s \in Session, worker[s].pc \in {"llm", "insert", "complete", "failed"},
         NEW z, \/ rows' = rows
                \/ /\ Owns(s) /\ rows' = [rows EXCEPT ![worker[s].row] = z]
                   /\ z \in {Settled(rows[worker[s].row], "pending"),
                             QuotaFailed(rows[worker[s].row]), Failed(rows[worker[s].row]),
                             Done(rows[worker[s].row])}
  PROVE  RowsFollow
  <1>0. DataInv
    BY DEF IInv
  <1>1. PICK r \in RowId : r = worker[s].row /\ RowInv(rows[r])
    BY OnRow
  <1>2. CASE rows' = rows
    BY <1>0, <1>2, RowsSame
  <1>3. CASE rows' # rows
    <2>1. PICK row : row = rows[r] /\ row.status = "processing" /\ RowInv(row)
      BY <1>1, <1>3 DEF Owns
    <2>2. z \in {Settled(row, "pending"), QuotaFailed(row), Failed(row), Done(row)}
      BY <1>1, <1>3, <2>1
    <2>3. RowInv(z) /\ z.payload \in Payload
      BY <2>1, <2>2, LeasedRowSound
    <2> QED BY <1>0, <1>1, <1>3, <2>3, RowPut
  <1> QED BY <1>2, <1>3

LEMMA MemTyped ==
  ASSUME DataInv, NEW r \in RowId
  PROVE  /\ [mem EXCEPT ![r] = 0] \in [RowId -> 0..MaxAttempts]
         /\ [mem EXCEPT ![r] = IF @ < MaxAttempts THEN @ + 1 ELSE @] \in [RowId -> 0..MaxAttempts]
  BY QueueAssumption DEF DataInv

LEMMA CompleteKeeps ==
  ASSUME IInv, NEW s \in Session, Complete(s)
  PROVE  IInv'
  <1>0. /\ DataInv /\ worker[s].pc = "complete" /\ vectors' \subseteq Content
        /\ UNCHANGED <<lifecycle, fill, tasks, facts, vectors>>
    BY DEF IInv, DataInv, Complete, At
  <1>1. CASE ~Current(s)
    BY <1>0, <1>1, BreakKeeps DEF Complete
  <1>2. CASE Current(s)
    <2>1. PICK pc \in {"claim", "drained"} :
            worker' = [worker EXCEPT ![s] = [Resting EXCEPT !.pc = pc]]
      BY <1>2 DEF Complete
    <2>2. PICK r \in RowId : r = worker[s].row
      BY <1>0, OnRow
    <2>3. mem' \in [RowId -> 0..MaxAttempts]
      BY <1>0, <1>2, <2>2, MemTyped DEF Complete
    <2>4. rows' = rows \/ (Owns(s) /\ rows' = [rows EXCEPT ![r] = Done(rows[r])])
      BY <1>2, <2>2 DEF Complete
    <2>5. RowsFollow
      BY <1>0, <2>2, <2>4, PutKeeps
    <2> QED BY <1>0, <2>1, <2>3, <2>5, WorkerRests
  <1> QED BY <1>1, <1>2

LEMMA FailKeeps ==
  ASSUME IInv, NEW s \in Session, Fail(s) \/ FailUnrecorded(s)
  PROVE  IInv'
  <1>0. /\ DataInv /\ worker[s].pc \in {"llm", "complete", "failed"} /\ vectors' \subseteq Content
        /\ UNCHANGED <<lifecycle, fill, tasks, facts, vectors>> /\ mem \in [RowId -> 0..MaxAttempts]
    BY DEF IInv, DataInv, Fail, FailUnrecorded, Raised, At
  <1>1. CASE Break(s) /\ UNCHANGED <<rows, mem>>
    BY <1>0, <1>1, BreakKeeps
  <1>2. PICK r \in RowId : r = worker[s].row
    BY <1>0, OnRow
  <1>3. CASE Fail(s) /\ ~(Break(s) /\ UNCHANGED <<rows, mem>>)
    <2>1. worker' = [worker EXCEPT ![s] = [Resting EXCEPT !.pc = "claim"]]
      BY <1>3 DEF Fail
    <2>2. mem' \in [RowId -> 0..MaxAttempts]
      BY <1>0, <1>2, <1>3, MemTyped DEF Fail
    <2>3. \/ rows' = rows
          \/ Owns(s) /\ rows' = [rows EXCEPT ![r] = QuotaFailed(rows[r])]
          \/ Owns(s) /\ rows' = [rows EXCEPT ![r] = Failed(rows[r])]
      BY <1>2, <1>3 DEF Fail
    <2>4. RowsFollow
      BY <1>0, <1>2, <2>3, PutKeeps
    <2> QED BY <1>0, <2>1, <2>2, <2>4, WorkerRests
  <1>4. CASE FailUnrecorded(s)
    <2>1. worker' = [worker EXCEPT ![s] = [Resting EXCEPT !.pc = "drained"]]
      BY <1>4 DEF FailUnrecorded, Break
    <2>2. mem' \in [RowId -> 0..MaxAttempts]
      BY <1>0, <1>2, <1>4, MemTyped DEF FailUnrecorded
    <2>3. \/ rows' = rows
          \/ Owns(s) /\ rows' = [rows EXCEPT ![r] = Settled(rows[r], "pending")]
      BY <1>2, <1>4 DEF FailUnrecorded
    <2>4. RowsFollow
      BY <1>0, <1>2, <2>3, PutKeeps
    <2> QED BY <1>0, <2>1, <2>2, <2>4, WorkerRests
  <1> QED BY <1>1, <1>3, <1>4
-----------------------------------------------------------------------------
(* The queue, the pool and the backfill                                    *)

\* The invariant of the data depends on the rows, the facts and the threads.
LEMMA DataKept ==
  ASSUME DataInv, RowsFollow, mem' \in [RowId -> 0..MaxAttempts], worker' = worker,
         fill' \in [Session -> SUBSET Content], \A s \in Session : fill'[s] \subseteq facts,
         tasks' \subseteq Tasks, facts' = facts, vectors' \subseteq Content
  PROVE  DataInv'
  <1>1. ASSUME NEW t \in Session PROVE WorkerInv(worker[t])'
    <2>1. PICK v : v = worker[t] /\ v = worker'[t] /\ WorkerInv(v)
      BY DEF DataInv
    <2>2. v.row # 0 => v.row \in RowId
      BY <2>1, QueueAssumption DEF WorkerInv, Thread, RowId
    <2>3. v.row # 0 => rows'[v.row].payload \in Payload
      BY <2>1, <2>2 DEF WorkerInv, RowsFollow
    <2> QED BY <2>1, <2>3 DEF WorkerInv
  <1>2. \A r \in RowId : RowInv(rows[r])'
    BY DEF RowsFollow, RowInv, Active
  <1> QED BY <1>1, <1>2 DEF DataInv, RowsFollow

\* A step that changes rows only.
LEMMA RowStep ==
  ASSUME IInv, RowsFollow, UNCHANGED <<lifecycle, worker, fill, tasks, mem, facts, vectors>>
  PROVE  IInv'
  <1>1. DataInv'
    BY DataKept DEF IInv, DataInv
  <1>2. \A s \in Session : Quiescent(s) => Quiescent(s)'
    BY DEF Quiescent
  <1> QED BY <1>1, <1>2, HostKept DEF IInv

LEMMA NoRowSound == NoRow \in Row /\ NoRow.owner = 0 /\ NoRow.status = "none" /\ NoRow.attempts = 0
  <1>1. 0 \in 0..MaxSessions /\ 0 \in 0..MaxAttempts
    BY QueueAssumption
  <1> QED BY <1>1 DEF NoRow, Row

LEMMA EnqueueKeeps ==
  ASSUME IInv, NEW p \in Payload, Enqueue(p)
  PROVE  IInv'
  <1>1. PICK r \in RowId : rows' = [rows EXCEPT ![r] = [NoRow EXCEPT !.payload = p, !.status = "pending"]]
    BY DEF Enqueue
  <1>2. PICK y, z : y = NoRow /\ z = [y EXCEPT !.payload = p, !.status = "pending"]
    OBVIOUS
  <1>3. z \in Row /\ z.payload = p /\ z.status = "pending" /\ z.owner = 0 /\ z.attempts = 0
    BY <1>2, NoRowSound DEF Row
  <1>4. RowInv(z)
    BY <1>3, QueueAssumption DEF RowInv, Active
  <1>5. RowsFollow
    BY <1>1, <1>2, <1>3, <1>4, RowPut DEF IInv
  <1> QED BY <1>5, RowStep DEF Enqueue

LEMMA TimeKeeps ==
  ASSUME IInv, NEW r \in RowId, Expire(r) \/ Due(r) \/ Age(r)
  PROVE  IInv'
  <1>1. PICK row : row = rows[r] /\ row \in Row /\ RowInv(row)
    BY DEF IInv, DataInv
  <1>2. PICK z : /\ rows' = [rows EXCEPT ![r] = z]
                 /\ \/ z = [row EXCEPT !.expired = TRUE]
                    \/ z = [row EXCEPT !.due = TRUE]
                    \/ z = [row EXCEPT !.old = TRUE]
    BY <1>1 DEF Expire, Due, Age
  <1>3. /\ z \in Row /\ z.payload = row.payload /\ z.status = row.status /\ z.owner = row.owner
        /\ z.attempts = row.attempts
    BY <1>1, <1>2 DEF Row
  <1>4. RowInv(z)
    BY <1>1, <1>3 DEF RowInv, Active
  <1>5. RowsFollow
    <2>1. \A q \in RowId : rows'[q] = IF q = r THEN z ELSE rows[q]
      BY <1>2 DEF IInv, DataInv
    <2>2. rows' \in [RowId -> Row]
      BY <1>2, <1>3 DEF IInv, DataInv
    <2> QED BY <1>1, <1>3, <1>4, <2>1, <2>2 DEF IInv, DataInv, RowsFollow
  <1> QED BY <1>5, RowStep DEF Expire, Due, Age

LEMMA TaskKeeps ==
  ASSUME IInv, NEW t \in tasks, Task(t)
  PROVE  IInv'
  <1>0. /\ DataInv /\ t \in Tasks /\ vectors \subseteq Content /\ tasks \subseteq Tasks
        /\ UNCHANGED <<lifecycle, worker, fill, rows, mem, facts>>
    BY DEF IInv, DataInv, Task
  <1>1. tasks' \subseteq Tasks
    <2>1. PICK u : u = [t EXCEPT !.pc = "running"]
      OBVIOUS
    <2>2. u \in Tasks
      BY <1>0, <2>1 DEF Tasks
    <2>3. tasks' \subseteq tasks \cup {u}
      BY <2>1 DEF Task
    <2> QED BY <1>0, <2>2, <2>3
  <1>2. vectors' \subseteq Content
    <2>1. {t.content} \in SUBSET Content
      BY <1>0 DEF Tasks
    <2> QED BY <1>0, <2>1, StoredTyped DEF Task
  <1>3. DataInv'
    BY <1>0, <1>1, <1>2, RowsSame, DataKept DEF DataInv
  <1>4. \A s \in Session : Quiescent(s) => Quiescent(s)'
    BY <1>0 DEF Quiescent
  <1> QED BY <1>0, <1>3, <1>4, HostKept DEF IInv

LEMMA FillKeeps ==
  ASSUME IInv, NEW s \in Session, Fill(s)
  PROVE  IInv'
  <1>0. /\ DataInv /\ fill \in [Session -> SUBSET Content] /\ fill' = [fill EXCEPT ![s] = {}]
        /\ UNCHANGED <<lifecycle, worker, tasks, rows, mem, facts>>
    BY DEF IInv, DataInv, Fill
  <1>1. vectors' \subseteq Content
    BY <1>0, ChunksTyped DEF Fill
  <1>2. fill' \in [Session -> SUBSET Content] /\ \A t \in Session : fill'[t] \subseteq facts
    BY <1>0 DEF DataInv
  <1>3. DataInv'
    BY <1>0, <1>1, <1>2, RowsSame, DataKept DEF DataInv
  <1>4. \A t \in Session : Quiescent(t) => Quiescent(t)'
    BY <1>0 DEF Quiescent
  <1> QED BY <1>0, <1>3, <1>4, HostKept DEF IInv
-----------------------------------------------------------------------------
(* The host                                                                *)

LEMMA RevivedSound ==
  ASSUME DataInv, rows' = Revived
  PROVE  RowsFollow
  <1>1. ASSUME NEW r \in RowId
        PROVE  /\ RowInv(rows'[r]) /\ (rows[r].payload \in Payload => rows'[r].payload \in Payload)
    <2>1. PICK row : row = rows[r] /\ row \in Row /\ RowInv(row)
      BY DEF DataInv
    <2>2. CASE Revivable(r)
      <3>1. PICK z : z = [row EXCEPT !.status = "pending", !.attempts = 0, !.due = TRUE,
                                     !.quota = FALSE]
        OBVIOUS
      <3>2. row.status = "dead" /\ 0 \in 0..MaxAttempts /\ 0 < MaxAttempts
        BY <2>1, <2>2, QueueAssumption DEF Revivable, QuotaDead
      <3>3. /\ z \in Row /\ z.payload = row.payload /\ z.status = "pending" /\ z.owner = row.owner
            /\ z.attempts = 0
        BY <2>1, <3>1, <3>2 DEF Row
      <3>4. RowInv(z)
        BY <2>1, <3>2, <3>3 DEF RowInv, Active
      <3>5. rows'[r] = z
        BY <2>1, <2>2, <3>1 DEF Revived
      <3> QED BY <2>1, <3>3, <3>4, <3>5
    <2>3. CASE ~Revivable(r)
      BY <2>1, <2>3 DEF Revived
    <2> QED BY <2>2, <2>3
  <1>2. rows' = [r \in RowId |-> rows'[r]] /\ \A r \in RowId : rows'[r] \in Row
    BY <1>1 DEF Revived, RowInv
  <1> QED BY <1>1, <1>2 DEF RowsFollow

\* A new session, whatever became of the store of the last one.
LEMMA BeginKeeps ==
  ASSUME IInv, NEW s \in Session, s = started + 1, Begin(s),
         store' \in [Session -> {"none", "open", "closed"}], store'[s] = "open",
         \A t \in Session : store'[t] = "closed" => t # s /\ Quiescent(t),
         UNCHANGED <<stop, quiet, tasks, facts, vectors>>
  PROVE  IInv'
  <1>0. DataInv /\ HostInv /\ started \in Nat
    BY DEF IInv, HostInv
  <1>1. HostInv'
    BY <1>0, QueueAssumption DEF Begin, HostInv, Session
  <1>2. JoinInv'
    BY DEF Begin, JoinInv
  <1>3. RowsFollow
    BY <1>0, RevivedSound DEF Begin
  <1>4. PICK v, w : v = worker[s] /\ w = [v EXCEPT !.pc = "claim"]
    OBVIOUS
  <1>5. v \in Thread /\ WorkerInv(v)
    BY <1>0, <1>4 DEF DataInv
  <1>6. w \in Thread /\ w.pc = "claim" /\ w.row = v.row
    BY <1>4, <1>5 DEF Thread
  <1>7. worker' \in [Session -> Thread] /\ worker'[s] = w
        /\ \A t \in Session : t # s => worker'[t] = worker[t]
    BY <1>0, <1>4, <1>6 DEF Begin, DataInv
  <1>8. ASSUME NEW t \in Session PROVE WorkerInv(worker[t])'
    <2>1. PICK u : u = worker[t] /\ WorkerInv(u)
      BY <1>0 DEF DataInv
    <2>2. PICK x : x = worker'[t] /\ x \in Thread /\ x.row = u.row /\ (x = u \/ x.pc = "claim")
      BY <1>4, <1>6, <1>7, <2>1
    <2>3. x.row # 0 => rows'[x.row].payload \in Payload
      BY <1>3, <2>1, <2>2, QueueAssumption DEF WorkerInv, Thread, RowsFollow, RowId
    <2> QED BY <2>1, <2>2, <2>3 DEF WorkerInv
  <1>9. /\ fill' \in [Session -> SUBSET Content] /\ \A t \in Session : fill'[t] \subseteq facts
        /\ \A t \in Session : t # s => fill'[t] = fill[t]
    BY <1>0 DEF Begin, DataInv
  <1>10. DataInv'
    <2>1. \A r \in RowId : RowInv(rows[r])'
      BY <1>3 DEF RowsFollow, RowInv, Active
    <2>2. mem' \in [RowId -> 0..MaxAttempts]
      BY QueueAssumption DEF Begin
    <2> QED BY <1>0, <1>3, <1>7, <1>8, <1>9, <2>1, <2>2 DEF DataInv, RowsFollow
  <1>11. ClosedStoresQuiet'
    BY <1>7, <1>9 DEF ClosedStoresQuiet, Quiescent
  <1> QED BY <1>1, <1>2, <1>10, <1>11 DEF IInv

LEMMA DataSame ==
  ASSUME DataInv, UNCHANGED <<rows, mem, worker, fill, facts, vectors>>, tasks' \subseteq Tasks
  PROVE  DataInv'
  BY RowsSame, DataKept DEF DataInv

LEMMA HostStepKeeps ==
  ASSUME IInv, HostStep \/ Teardown("reinit") \/ Teardown("shutdown")
  PROVE  IInv'
  <1>0. DataInv /\ HostInv /\ JoinInv /\ ClosedStoresQuiet /\ started \in 0..MaxSessions
        /\ tasks \subseteq Tasks
    BY DEF IInv, HostInv, DataInv
  <1>1. CASE Initialize
    <2>1. PICK s \in Session : s = started + 1
      BY <1>0, <1>1, QueueAssumption DEF Initialize, Session
    <2>2. /\ store' \in [Session -> {"none", "open", "closed"}] /\ store'[s] = "open"
          /\ \A t \in Session : t # s => store'[t] = store[t]
      BY <1>0, <1>1, <2>1 DEF Initialize, HostInv
    <2>3. \A t \in Session : store'[t] = "closed" => t # s /\ Quiescent(t)
      BY <1>0, <2>2 DEF ClosedStoresQuiet, Quiescent
    <2> QED BY <1>1, <2>1, <2>2, <2>3, BeginKeeps DEF Initialize
  <1>2. CASE Reinitialize
    <2>1. PICK s, b \in Session : s = started + 1 /\ b = started /\ s # b
      BY <1>0, <1>2, QueueAssumption DEF Reinitialize, HostInv, Session
    <2>2. /\ store' \in [Session -> {"none", "open", "closed"}] /\ store'[s] = "open"
          /\ \A t \in Session : t # s /\ t # b => store'[t] = store[t]
          /\ store'[b] = IF quiet THEN "closed" ELSE store[b]
      BY <1>0, <1>2, <2>1 DEF Reinitialize, HostInv
    <2>3. quiet => Quiescent(b)
      BY <1>0, <1>2, <2>1 DEF Reinitialize, JoinInv
    <2>4. \A t \in Session : store'[t] = "closed" => t # s /\ Quiescent(t)
      BY <1>0, <2>2, <2>3 DEF ClosedStoresQuiet, Quiescent
    <2> QED BY <1>2, <2>1, <2>2, <2>4, BeginKeeps DEF Reinitialize
  <1>3. CASE StopThreads
    <2>1. HostInv'
      BY <1>0, <1>3, QueueAssumption DEF StopThreads, HostInv, Session
    <2>2. JoinInv' /\ ClosedStoresQuiet'
      BY <1>0, <1>3 DEF StopThreads, JoinInv, ClosedStoresQuiet, Quiescent
    <2>3. DataInv'
      BY <1>0, <1>3, DataSame DEF StopThreads
    <2> QED BY <2>1, <2>2, <2>3 DEF IInv
  <1>4. CASE JoinThreads
    <2>1. HostInv'
      BY <1>0, <1>4 DEF JoinThreads, HostInv, Quiescent
    <2>2. JoinInv' /\ ClosedStoresQuiet'
      BY <1>0, <1>4 DEF JoinThreads, JoinInv, ClosedStoresQuiet, Quiescent
    <2>3. DataInv'
      BY <1>0, <1>4, DataSame DEF JoinThreads
    <2> QED BY <2>1, <2>2, <2>3 DEF IInv
  <1>5. CASE Shutdown
    <2>1. HostInv'
      BY <1>0, <1>5 DEF Shutdown, HostInv
    <2>2. JoinInv' /\ ClosedStoresQuiet'
      BY <1>0, <1>5 DEF Shutdown, JoinInv, ClosedStoresQuiet, Quiescent
    <2>3. DataInv'
      BY <1>0, <1>5, DataSame DEF Shutdown
    <2> QED BY <2>1, <2>2, <2>3 DEF IInv
  <1>6. ASSUME NEW kind \in {"reinit", "shutdown"}, Teardown(kind) PROVE IInv'
    <2>1. HostInv'
      BY <1>0, <1>6 DEF Teardown, HostInv
    <2>2. JoinInv' /\ ClosedStoresQuiet'
      BY <1>0, <1>6 DEF Teardown, JoinInv, ClosedStoresQuiet, Quiescent, HostInv
    <2>3. DataInv'
      BY <1>0, <1>6, DataSame DEF Teardown
    <2> QED BY <2>1, <2>2, <2>3 DEF IInv
  <1> QED BY <1>1, <1>2, <1>3, <1>4, <1>5, <1>6 DEF HostStep

LEMMA RestingSound == Resting \in Thread /\ Resting.pc = "off" /\ Resting.row = 0
  BY QueueAssumption DEF Resting, Thread

LEMMA CrashKeeps ==
  ASSUME IInv, Crash
  PROVE  IInv'
  <1>1. HostInv' /\ JoinInv' /\ ClosedStoresQuiet'
    BY DEF IInv, Crash, HostInv, JoinInv, ClosedStoresQuiet
  <1>2. \A s \in Session : worker'[s] = Resting /\ fill'[s] = {}
    BY DEF Crash
  <1>3. worker' \in [Session -> Thread] /\ fill' \in [Session -> SUBSET Content] /\ tasks' \subseteq Tasks
    BY RestingSound DEF Crash
  <1>4. \A s \in Session : WorkerInv(worker[s])'
    BY <1>2, RestingSound DEF WorkerInv
  <1>5. \A r \in RowId : RowInv(rows[r])'
    BY DEF IInv, DataInv, Crash, RowInv, Active
  <1> QED BY <1>1, <1>2, <1>3, <1>4, <1>5 DEF IInv, DataInv, Crash
-----------------------------------------------------------------------------
(* The theorems                                                            *)

LEMMA Initially == Init => IInv
  <1> SUFFICES ASSUME Init PROVE IInv
    OBVIOUS
  <1>1. HostInv /\ JoinInv /\ ClosedStoresQuiet
    <2>1. 0 \in 0..MaxSessions
      BY QueueAssumption
    <2>2. store \in [Session -> {"none", "open", "closed"}] /\ stop \in [Session -> BOOLEAN]
          /\ \A s \in Session : store[s] = "none" /\ stop[s] = FALSE
      BY DEF Init
    <2>3. /\ host = "down" /\ session = 0 /\ started = 0 /\ pool = FALSE /\ quiet = TRUE
          /\ available = FALSE
      BY DEF Init
    <2> QED BY <2>1, <2>2, <2>3 DEF HostInv, JoinInv, ClosedStoresQuiet
  <1>2. PICK row \in {NoRow} \cup {QuotaDeadRow(p) : p \in Payload} :
          rows = [r \in RowId |-> IF r = 1 THEN row ELSE NoRow]
    BY DEF Init
  <1>3. RowInv(NoRow)
    BY NoRowSound DEF RowInv, Active
  <1>4. RowInv(row)
    <2>1. ASSUME NEW p \in Payload PROVE RowInv(QuotaDeadRow(p))
      <3>1. PICK y, z : y = NoRow /\ z = [y EXCEPT !.payload = p, !.status = "dead",
                                                   !.attempts = MaxAttempts, !.quota = TRUE]
        OBVIOUS
      <3>2. MaxAttempts \in 0..MaxAttempts
        BY QueueAssumption
      <3>3. z \in Row /\ z.status = "dead" /\ z.owner = 0 /\ z.payload = p
        BY <3>1, <3>2, NoRowSound DEF Row
      <3>4. QuotaDeadRow(p) = z
        BY <3>1 DEF QuotaDeadRow
      <3> QED BY <3>3, <3>4 DEF RowInv, Active
    <2> QED BY <1>2, <1>3, <2>1
  <1>5. /\ \A r \in RowId : RowInv(rows[r])
        /\ rows \in [RowId -> Row]
    BY <1>2, <1>3, <1>4 DEF RowInv
  <1>6. \A s \in Session : WorkerInv(worker[s]) /\ fill[s] \subseteq facts
    BY RestingSound DEF Init, WorkerInv
  <1>7. /\ mem \in [RowId -> 0..MaxAttempts] /\ worker \in [Session -> Thread]
        /\ fill \in [Session -> SUBSET Content] /\ tasks \subseteq Tasks
        /\ facts \subseteq Content /\ vectors \subseteq Content
    BY RestingSound, QueueAssumption DEF Init
  <1> QED BY <1>1, <1>5, <1>6, <1>7 DEF IInv, DataInv

LEMMA Step == IInv /\ [Next]_vars => IInv'
  <1> SUFFICES ASSUME IInv, [Next]_vars PROVE IInv'
    OBVIOUS
  <1>1. CASE UNCHANGED vars
    <2>1. HostInv' /\ JoinInv' /\ ClosedStoresQuiet'
      BY <1>1, HostKept DEF IInv, vars, lifecycle, Quiescent
    <2>2. DataInv'
      BY <1>1, DataSame DEF IInv, DataInv, vars
    <2> QED BY <2>1, <2>2 DEF IInv
  <1>2. ASSUME NEW s \in Session, WorkerStep(s) PROVE IInv'
    BY <1>2, ClaimKeeps, ExtractKeeps, InsertKeeps, CompleteKeeps, FailKeeps, DrainedKeeps
       DEF WorkerStep
  <1> QED BY <1>1, <1>2, HostStepKeeps, CrashKeeps, EnqueueKeeps, TimeKeeps, TaskKeeps, FillKeeps
          DEF Next

LEMMA Inductive == Spec => []IInv
  BY Initially, Step, PTL DEF Spec

\* Every variable has its type, a worker is on a row it has read and the
\* current session has an open store (ExtractQueue, _teardown_background).
THEOREM TypeCorrect == Spec => []TypeOK
  <1>1. IInv => TypeOK
    <2> SUFFICES ASSUME IInv PROVE TypeOK
      OBVIOUS
    <2>1. \A s \in Session :
            /\ worker[s].pc \in {"off", "claim", "llm", "insert", "complete",
                                 "failed", "drained", "tick"}
            /\ worker[s].row \in 0..MaxRows /\ worker[s].facts \subseteq Content
            /\ (worker[s].row # 0 => rows[worker[s].row].payload \in Payload)
            /\ fill[s] \subseteq facts
      BY DEF IInv, DataInv, WorkerInv, Thread
    <2>2. \A r \in RowId : /\ rows[r].status \in {"none", "pending", "processing", "dead", "done"}
                           /\ rows[r].attempts \in 0..MaxAttempts
                           /\ (rows[r].status = "processing" <=> rows[r].owner # 0)
      BY DEF IInv, DataInv, RowInv, Row
    <2>3. /\ session \in 0..started /\ (session # 0 => pool /\ store[session] = "open" /\ ~stop[session])
      BY QueueAssumption DEF IInv, HostInv
    <2> QED BY <2>1, <2>2, <2>3 DEF IInv, HostInv, DataInv, TypeOK, Tasks
  <1> QED BY <1>1, Inductive, PTL

\* A store is closed only behind the worker and the backfill thread of its
\* session, for any number of sessions, crashes and overlapping threads
\* (_teardown_background, initialize).
THEOREM ClosedQuietly == Spec => []ClosedStoresQuiet
  BY Inductive, PTL DEF IInv

\* The only step that takes a row off the queue.
LEMMA DoneByComplete ==
  ASSUME IInv, Next, NEW r \in RowId, rows[r].status # "done", rows'[r].status = "done"
  PROVE  \E s \in Session : Complete(s) /\ Owns(s) /\ r = worker[s].row
  <1>0. rows \in [RowId -> Row] /\ rows' # rows
    BY DEF IInv, DataInv
  <1>1. ASSUME NEW q \in RowId, NEW z, rows' = [rows EXCEPT ![q] = z] PROVE q = r /\ z.status = "done"
    BY <1>0, <1>1
  <1>2. ASSUME rows' = Revived PROVE FALSE
    <2>1. PICK row : row = rows[r] /\ row \in Row
      BY <1>0
    <2>2. [row EXCEPT !.status = "pending", !.attempts = 0, !.due = TRUE, !.quota = FALSE].status = "pending"
      BY <2>1 DEF Row
    <2> QED BY <1>2, <2>1, <2>2 DEF Revived
  <1>3. ASSUME HostStep \/ Teardown("reinit") \/ Teardown("shutdown") \/ Crash PROVE FALSE
    BY <1>0, <1>2, <1>3
       DEF HostStep, Initialize, Reinitialize, Begin, StopThreads, JoinThreads, Shutdown, Teardown, Crash
  <1>4. ASSUME NEW p \in Payload, Enqueue(p) PROVE FALSE
    <2>1. PICK q \in RowId : rows' = [rows EXCEPT ![q] = [NoRow EXCEPT !.payload = p, !.status = "pending"]]
      BY <1>4 DEF Enqueue
    <2>2. [NoRow EXCEPT !.payload = p, !.status = "pending"].status = "pending"
      BY DEF NoRow
    <2> QED BY <1>1, <2>1, <2>2
  <1>5. ASSUME NEW q \in RowId, Expire(q) \/ Due(q) \/ Age(q) PROVE FALSE
    <2>1. rows'[r].status = rows[r].status
      BY <1>0, <1>5 DEF Expire, Due, Age, Row
    <2> QED BY <2>1
  <1>6. ASSUME NEW s \in Session, Claim(s) PROVE FALSE
    <2>1. PICK q \in RowId : rows' = [rows EXCEPT ![q].status = "processing", ![q].owner = s,
                                                   ![q].expired = FALSE]
      BY <1>0, <1>6 DEF Claim
    <2>2. rows'[r].status \in {rows[r].status, "processing"}
      BY <1>0, <2>1 DEF Row
    <2> QED BY <2>2
  <1>7. ASSUME NEW s \in Session, Fail(s) \/ FailUnrecorded(s) PROVE FALSE
    <2>1. worker[s].pc \in {"llm", "complete", "failed"}
      BY <1>7 DEF Fail, FailUnrecorded, Raised, At
    <2>2. PICK q \in RowId : q = worker[s].row /\ RowInv(rows[q])
      BY <2>1, OnRow
    <2>3. PICK z : /\ Owns(s) /\ rows' = [rows EXCEPT ![q] = z]
                   /\ z \in {Settled(rows[q], "pending"), QuotaFailed(rows[q]), Failed(rows[q])}
      BY <1>0, <1>7, <2>2 DEF Fail, FailUnrecorded
    <2>4. PICK row : row = rows[q] /\ row \in Row
      BY <1>0
    <2>5. z.status \in {"pending", "dead"}
      <3>1. z \in {Settled(row, "pending"), QuotaFailed(row), Failed(row)}
        BY <2>3, <2>4
      <3> QED BY <2>4, <3>1 DEF Settled, QuotaFailed, Failed, Row
    <2> QED BY <1>1, <2>3, <2>5
  <1>8. ASSUME NEW s \in Session, Complete(s) PROVE Owns(s) /\ r = worker[s].row
    <2>1. worker[s].pc = "complete"
      BY <1>8 DEF Complete, At
    <2>2. PICK q \in RowId : q = worker[s].row
      BY <2>1, OnRow
    <2>3. Owns(s) /\ rows' = [rows EXCEPT ![q] = Done(rows[q])]
      BY <1>0, <1>8, <2>2 DEF Complete
    <2> QED BY <1>1, <2>2, <2>3
  <1>9. ASSUME NEW s \in Session, WorkerStep(s) \/ Fill(s)
        PROVE  Complete(s) /\ Owns(s) /\ r = worker[s].row
    BY <1>0, <1>6, <1>7, <1>8, <1>9
       DEF WorkerStep, Extract, Insert, WorkerDrained, WorkerTicked, Fill, Kept
  <1>10. ASSUME NEW t \in tasks, Task(t) PROVE FALSE
    BY <1>0, <1>10 DEF Task
  <1> QED BY <1>3, <1>4, <1>5, <1>9, <1>10 DEF Next

\* A row leaves the queue only when what was extracted from it is in the
\* store, whichever session, retry or second owner did it
\* (_drain_extract_queue, mark_done).
THEOREM DoneStored == Spec => DoneRowsStored
  <1>1. IInv /\ [Next]_vars =>
          [\A r \in RowId : rows[r].status # "done" /\ rows'[r].status = "done" =>
             worker[rows[r].owner].facts \subseteq facts]_vars
    <2> SUFFICES ASSUME IInv, Next, NEW r \in RowId, rows[r].status # "done", rows'[r].status = "done"
                 PROVE  worker[rows[r].owner].facts \subseteq facts
      BY DEF vars
    <2>1. PICK s \in Session : Complete(s) /\ Owns(s) /\ r = worker[s].row
      BY DoneByComplete
    <2>2. rows[r].owner = s
      BY <2>1 DEF Owns
    <2>3. worker[s].pc = "complete" /\ WorkerInv(worker[s])
      BY <2>1 DEF Complete, At, IInv, DataInv
    <2> QED BY <2>2, <2>3 DEF WorkerInv
  <1> QED BY <1>1, Inductive, PTL DEF Spec, DoneRowsStored
=============================================================================
