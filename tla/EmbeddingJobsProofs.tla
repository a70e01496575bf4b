------------------------ MODULE EmbeddingJobsProofs ------------------------
(***************************************************************************)
(* Machine-checked theorems about EmbeddingJobs, for every number of       *)
(* facts, processors and attempts.                                         *)
(***************************************************************************)
EXTENDS EmbeddingJobs, TLAPS

\* Jobs and vectors belong to facts that were inserted, a vector never comes
\* before a job, and a processor that is not idle has a fact.
JobInv ==
  /\ \A f \in Fact : status[f] = "absent" => job[f].state = "none"
  /\ \A f \in Fact : job[f].state = "none" => f \notin vectors
  /\ \A w \in Worker : claims[w].pc # "idle" => claims[w].fact \in Fact

IInv == TypeOK /\ JobInv /\ ErasedNotEmbedded
-----------------------------------------------------------------------------
(* Rows                                                                    *)

\* The ways the code writes a job row.
LEMMA JobsTyped ==
  /\ FreshJob \in Job /\ NoJob \in Job
  /\ FreshJob.state = "pending" /\ NoJob.state = "none"
  <1>1. NoJob \in Job /\ NoJob.state = "none"
    BY EmbeddingAssumption DEF NoJob, Job
  <1>2. FreshJob \in Job /\ FreshJob.state = "pending"
    BY <1>1 DEF FreshJob, Job
  <1> QED BY <1>1, <1>2

\* Settling, requeueing and giving up a row change its state and free it.
LEMMA UpdatedJobsTyped ==
  ASSUME NEW j \in Job, NEW s \in {"pending", "completed", "dead_letter"},
         NEW due \in BOOLEAN
  PROVE  LET k == [j EXCEPT !.state = s, !.token = NoWorker, !.due = due]
         IN  k \in Job /\ k.state = s
  BY DEF Job

\* A claim is a row held by its processor.
LEMMA ClaimedJobTyped ==
  ASSUME NEW w \in Worker, NEW n \in 0..MaxAttempts
  PROVE  LET k == [state |-> "processing", token |-> w, due |-> FALSE,
                   attempts |-> n]
         IN  k \in Job /\ k.state = "processing"
  BY DEF Job

\* enqueue_in_transaction leaves a row that is unfinished, or has its vector.
LEMMA EnqueuedTyped ==
  ASSUME TypeOK, NEW f \in Fact
  PROVE  /\ Enqueued(f) \in Job /\ Enqueued(f).state # "none"
         /\ Enqueued(f).state # "completed" \/ f \in vectors
         /\ job[f].state \in {"pending", "processing", "dead_letter"}
              => Enqueued(f) = job[f]
         /\ (job[f].state = "completed" /\ f \in vectors) => Enqueued(f) = job[f]
  BY JobsTyped DEF Enqueued, TypeOK

\* The sweep of claim turns unfinished rows into unfinished rows.
LEMMA SweptTyped ==
  ASSUME TypeOK, NEW f \in Fact
  PROVE  /\ Swept(f) \in Job
         /\ Swept(f).state = "none" <=> job[f].state = "none"
         /\ Swept(f).state = "completed" <=> job[f].state = "completed"
  <1>1. job[f] \in Job
    BY DEF TypeOK
  <1>2. CASE Exhausted(f)
    BY <1>1, <1>2, UpdatedJobsTyped DEF Swept, Exhausted
  <1>3. CASE ~Exhausted(f)
    BY <1>1, <1>3 DEF Swept
  <1> QED BY <1>2, <1>3
-----------------------------------------------------------------------------
(* One step                                                                *)

\* What a step must show: the invariant again, and a step of the contract.
Good == IInv' /\ (Coverage!Next \/ UNCHANGED Coverage!vars)

\* The job states that are not unfinished.
LEMMA UnfinishedStates ==
  ASSUME TypeOK, NEW f \in Fact
  PROVE  /\ job[f] \in Job
         /\ f \in Unfinished <=> job[f].state \notin {"none", "completed"}
  BY DEF TypeOK, Unfinished, Job

\* Inserting or settling one fact with enqueue_in_transaction.
LEMMA EnqueueGood ==
  ASSUME IInv, NEW f \in Fact, NEW rivals \in SUBSET SettledFacts,
         serving, f \notin rivals, status[f] # "erased",
         NEW s \in {"settled", "contested"},
         status' = [g \in Fact |-> IF g = f THEN s
                                   ELSE IF g \in rivals THEN "contested"
                                   ELSE status[g]],
         job' = [job EXCEPT ![f] = Enqueued(f)],
         UNCHANGED <<vectors, claims, serving>>
  PROVE  Good
  <1>0. TypeOK /\ JobInv /\ ErasedNotEmbedded
    BY DEF IInv
  <1>1. /\ Enqueued(f) \in Job /\ Enqueued(f).state # "none"
        /\ Enqueued(f).state # "completed" \/ f \in vectors
        /\ f \in Unfinished => Enqueued(f) = job[f]
        /\ (job[f].state = "completed" /\ f \in vectors) => Enqueued(f) = job[f]
    BY <1>0, EnqueuedTyped DEF Unfinished
  <1>2. job'[f] = Enqueued(f) /\ \A g \in Fact \ {f} : job'[g] = job[g]
    BY <1>0 DEF TypeOK
  <1>3. status'[f] = s /\ \A g \in Fact \ {f} :
          status'[g] = IF g \in rivals THEN "contested" ELSE status[g]
    OBVIOUS
  <1>4. TypeOK'
    BY <1>0, <1>1 DEF TypeOK, Status
  <1>5. JobInv'
    BY <1>0, <1>1, <1>2, <1>3 DEF JobInv, SettledFacts
  <1>6. ErasedNotEmbedded'
    BY <1>0, <1>3, <1>4 DEF ErasedNotEmbedded, TypeOK
  <1>7. Known \subseteq Known' /\ SettledFacts' \subseteq Known'
    BY <1>3 DEF Known, SettledFacts
  <1>8. f \in Known'
    BY <1>3 DEF Known
  <1>9. /\ Unfinished \subseteq Unfinished'
        /\ Unfinished' \subseteq Unfinished \cup (Known' \ vectors)
    <2>1. ASSUME NEW g \in Unfinished PROVE g \in Unfinished'
      BY <1>1, <1>2, <2>1 DEF Unfinished
    <2>2. ASSUME NEW g \in Unfinished', g \notin Unfinished
          PROVE  g \in Known' \ vectors
      <3>1. g = f /\ g \in Fact
        BY <1>2, <2>2 DEF Unfinished
      <3>2. job[f].state \in {"none", "completed"}
        BY <1>0, <2>2, <3>1, UnfinishedStates
      <3>3. CASE job[f].state = "none"
        BY <1>0, <1>8, <3>1, <3>3 DEF JobInv
      <3>4. CASE job[f].state = "completed"
        <4>1. CASE f \in vectors
          BY <1>1, <1>2, <2>2, <3>1, <3>4, <4>1 DEF Unfinished
        <4>2. CASE f \notin vectors
          BY <1>8, <3>1, <4>2
        <4> QED BY <4>1, <4>2
      <3> QED BY <3>2, <3>3, <3>4
    <2> QED BY <2>1, <2>2
  <1>10. SettledFacts' \ SettledFacts \subseteq Unfinished' \cup vectors
    <2>1. SettledFacts' \ SettledFacts \subseteq {f}
      BY <1>3 DEF SettledFacts
    <2>2. f \in Unfinished' \cup vectors
      <3>1. f \in Unfinished' <=> job'[f].state \notin {"none", "completed"}
        BY <1>2, <1>1 DEF Unfinished, Job
      <3> QED BY <3>1, <1>1, <1>2
    <2> QED BY <2>1, <2>2
  <1>11. Coverage!Change
    BY <1>7, <1>9, <1>10 DEF Coverage!Change
  <1> QED BY <1>4, <1>5, <1>6, <1>11 DEF Good, IInv, Coverage!Next

\* Steps that change nothing but the facts that can still be returned.
LEMMA RetireGood ==
  ASSUME IInv, NEW f \in Fact, serving,
         status[f] # "erased",
         status' = [status EXCEPT ![f] = "retired"],
         UNCHANGED <<job, vectors, claims, serving>>
  PROVE  Good
  <1>0. TypeOK /\ JobInv /\ ErasedNotEmbedded
    BY DEF IInv
  <1>1. status'[f] = "retired" /\ \A g \in Fact \ {f} : status'[g] = status[g]
    BY <1>0 DEF TypeOK
  <1>2. TypeOK'
    BY <1>0 DEF TypeOK, Status
  <1>3. JobInv' /\ ErasedNotEmbedded'
    BY <1>0, <1>1, <1>2 DEF JobInv, ErasedNotEmbedded, TypeOK
  <1>4. /\ Known \subseteq Known' /\ SettledFacts' \subseteq SettledFacts
        /\ SettledFacts' \subseteq Known' /\ Unfinished' = Unfinished
    BY <1>1 DEF Known, SettledFacts, Unfinished
  <1>5. Coverage!Change
    BY <1>4 DEF Coverage!Change
  <1> QED BY <1>2, <1>3, <1>5 DEF Good, IInv, Coverage!Next

\* erase_fact.
LEMMA EraseGood ==
  ASSUME IInv, NEW f \in Fact, EraseFact(f)
  PROVE  Good
  <1>0. TypeOK /\ JobInv /\ ErasedNotEmbedded
    BY DEF IInv
  <1>1. PICK freed \in SUBSET {g \in Fact \ {f} : status[g] = "contested"} :
          (serving => freed = {}) /\ Blank(f, freed)
    BY DEF EraseFact
  <1>2. /\ status[f] # "absent" /\ status'[f] = "erased"
        /\ \A g \in Fact \ {f} :
             status'[g] = IF g \in freed THEN "settled" ELSE status[g]
    BY <1>1 DEF Blank
  <1> DEFINE k == [job[f] EXCEPT !.state = "completed", !.token = NoWorker,
                                 !.due = FALSE]
  <1>3. /\ job'[f] = IF job[f].state = "none" THEN job[f] ELSE k
        /\ \A g \in Fact \ {f} : job'[g] = job[g]
        /\ job[f] \in Job
    BY <1>0, <1>1 DEF Blank, TypeOK
  <1>4. k \in Job /\ k.state = "completed"
    BY <1>3, UpdatedJobsTyped
  <1>5. job' \in [Fact -> Job]
    BY <1>0, <1>1, <1>3, <1>4 DEF Blank, TypeOK
  <1> HIDE DEF k
  <1>6. TypeOK'
    BY <1>0, <1>1, <1>5 DEF EraseFact, Blank, TypeOK, Status
  <1>7. vectors' = vectors \ {f} /\ UNCHANGED <<claims, serving>>
    BY DEF EraseFact
  <1>8. JobInv'
    <2>1. ASSUME NEW g \in Fact, status'[g] = "absent"
          PROVE  job'[g].state = "none"
      BY <1>0, <1>2, <1>3, <2>1 DEF JobInv
    <2>2. ASSUME NEW g \in Fact, job'[g].state = "none"
          PROVE  g \notin vectors'
      BY <1>0, <1>3, <1>7, <2>2 DEF JobInv
    <2> QED BY <1>0, <1>7, <2>1, <2>2 DEF JobInv
  <1>9. ErasedNotEmbedded'
    BY <1>0, <1>2, <1>7 DEF ErasedNotEmbedded, TypeOK
  <1>10. /\ f \in Known /\ Known' = Known
         /\ f \notin SettledFacts' /\ SettledFacts' \subseteq Known
         /\ serving => SettledFacts' \subseteq SettledFacts
    BY <1>1, <1>2 DEF Known, SettledFacts
  <1>11. Unfinished' = Unfinished \ {f}
    <2>1. f \notin Unfinished'
      BY <1>3, <1>4 DEF Unfinished
    <2>2. \A g \in Fact \ {f} : g \in Unfinished' <=> g \in Unfinished
      BY <1>3 DEF Unfinished
    <2>3. Unfinished \subseteq Fact /\ Unfinished' \subseteq Fact
      BY DEF Unfinished
    <2> QED BY <2>1, <2>2, <2>3
  <1>12. Coverage!Erase(f)
    BY <1>7, <1>10, <1>11 DEF Coverage!Erase
  <1> QED BY <1>6, <1>8, <1>9, <1>10, <1>12 DEF Good, IInv, Coverage!Next

\* Steps of a processor or of time that finish no job and open none.
LEMMA QuietGood ==
  ASSUME IInv, UNCHANGED <<status, vectors, serving>>,
         job' \in [Fact -> Job], claims' \in [Worker -> Claim],
         \A f \in Fact :
           /\ job'[f].state = "none" <=> job[f].state = "none"
           /\ job'[f].state = "completed" <=> job[f].state = "completed",
         \A w \in Worker : claims'[w].pc # "idle" => claims'[w].fact \in Fact
  PROVE  Good
  <1>0. TypeOK /\ JobInv /\ ErasedNotEmbedded
    BY DEF IInv
  <1>1. TypeOK'
    BY <1>0 DEF TypeOK
  <1>2. JobInv' /\ ErasedNotEmbedded'
    BY <1>0 DEF JobInv, ErasedNotEmbedded
  <1>3. Known' = Known /\ SettledFacts' = SettledFacts
    BY DEF Known, SettledFacts
  <1>4. Unfinished' = Unfinished
    <2>1. \A f \in Fact : job[f] \in Job /\ job'[f] \in Job
      BY <1>0 DEF TypeOK
    <2>2. \A f \in Fact :
            /\ f \in Unfinished <=> job[f].state \notin {"none", "completed"}
            /\ f \in Unfinished' <=> job'[f].state \notin {"none", "completed"}
      BY <2>1 DEF Unfinished, Job
    <2>3. Unfinished \subseteq Fact /\ Unfinished' \subseteq Fact
      BY DEF Unfinished
    <2> QED BY <2>2, <2>3
  <1>5. UNCHANGED Coverage!vars
    BY <1>3, <1>4 DEF Coverage!vars
  <1> QED BY <1>1, <1>2, <1>5 DEF Good, IInv

\* A processor is free again.
LEMMA ReleaseTyped ==
  ASSUME IInv, NEW w \in Worker, Release(w)
  PROVE  /\ claims' \in [Worker -> Claim]
         /\ \A v \in Worker : claims'[v].pc # "idle" => claims'[v].fact \in Fact
  <1>1. Idle \in Claim /\ Idle.pc = "idle"
    BY EmbeddingAssumption DEF Idle, Claim
  <1>2. /\ claims' = [claims EXCEPT ![w] = Idle]
        /\ claims \in [Worker -> Claim]
    BY DEF Release, IInv, TypeOK
  <1>3. claims' \in [Worker -> Claim]
    BY <1>1, <1>2
  <1>4. ASSUME NEW v \in Worker, claims'[v].pc # "idle"
        PROVE  claims'[v].fact \in Fact
    BY <1>1, <1>2, <1>4 DEF IInv, JobInv
  <1> QED BY <1>3, <1>4

\* A processor settles the job it holds, with a vector for a settled fact.
LEMMA CompleteGood ==
  ASSUME IInv, NEW w \in Worker, NEW f \in Fact, f = claims[w].fact, Holds(w),
         job' = [job EXCEPT ![f] = Completed(f)],
         vectors' = IF status[f] = "settled" THEN vectors \cup {f} ELSE vectors,
         Release(w), UNCHANGED <<status, serving>>
  PROVE  Good
  <1>0. TypeOK /\ JobInv /\ ErasedNotEmbedded
    BY DEF IInv
  <1>1. job[f].state = "processing" /\ job[f] \in Job
    BY <1>0 DEF Holds, TypeOK
  <1>2. Completed(f) \in Job /\ Completed(f).state = "completed"
    BY <1>1, UpdatedJobsTyped DEF Completed
  <1>3. job'[f] = Completed(f) /\ \A g \in Fact \ {f} : job'[g] = job[g]
    BY <1>0 DEF TypeOK
  <1>4. TypeOK'
    BY <1>0, <1>2, ReleaseTyped DEF TypeOK
  <1>5. status[f] # "absent"
    BY <1>0, <1>1 DEF JobInv
  <1>6. JobInv'
    <2>1. ASSUME NEW g \in Fact, status'[g] = "absent"
          PROVE  job'[g].state = "none"
      BY <1>0, <1>3, <1>5, <2>1 DEF JobInv
    <2>2. ASSUME NEW g \in Fact, job'[g].state = "none"
          PROVE  g \notin vectors'
      BY <1>0, <1>2, <1>3, <2>2 DEF JobInv
    <2> QED BY <2>1, <2>2, ReleaseTyped DEF JobInv
  <1>7. ErasedNotEmbedded'
    BY <1>0 DEF ErasedNotEmbedded
  <1>8. Known' = Known /\ SettledFacts' = SettledFacts
    BY DEF Known, SettledFacts
  <1>9. f \in Known /\ f \in Unfinished
        /\ (f \in SettledFacts <=> status[f] = "settled")
    BY <1>1, <1>5 DEF Known, Unfinished, SettledFacts
  <1>10. Unfinished' = Unfinished \ {f}
    <2>1. f \notin Unfinished'
      BY <1>2, <1>3 DEF Unfinished
    <2>2. \A g \in Fact \ {f} : g \in Unfinished' <=> g \in Unfinished
      BY <1>3 DEF Unfinished
    <2>3. Unfinished \subseteq Fact /\ Unfinished' \subseteq Fact
      BY DEF Unfinished
    <2> QED BY <2>1, <2>2, <2>3
  <1>11. Coverage!Complete(f)
    BY <1>8, <1>9, <1>10 DEF Coverage!Complete
  <1> QED BY <1>4, <1>6, <1>7, <1>9, <1>11 DEF Good, IInv, Coverage!Next

\* A processor step on one row that leaves it unfinished.
LEMMA UpdateGood ==
  ASSUME IInv, UNCHANGED <<status, vectors, serving>>,
         NEW f \in Fact, NEW k \in Job,
         job[f].state \notin {"none", "completed"},
         k.state \notin {"none", "completed"},
         job' = [job EXCEPT ![f] = k],
         claims' \in [Worker -> Claim],
         \A w \in Worker : claims'[w].pc # "idle" => claims'[w].fact \in Fact
  PROVE  Good
  <1>1. job \in [Fact -> Job]
    BY DEF IInv, TypeOK
  <1>2. job' \in [Fact -> Job] /\ job'[f] = k
        /\ \A g \in Fact \ {f} : job'[g] = job[g]
    BY <1>1
  <1>3. \A g \in Fact :
          /\ job'[g].state = "none" <=> job[g].state = "none"
          /\ job'[g].state = "completed" <=> job[g].state = "completed"
    BY <1>2
  <1> QED BY <1>2, <1>3, QuietGood

\* The transactions of the service.
LEMMA StoreGood ==
  ASSUME IInv, NEW f \in Fact, Store(f)
  PROVE  Good
  <1>0. status \in [Fact -> Status]
    BY DEF IInv, TypeOK
  <1>1. NextFact(f) => status[f] = "absent"
    BY DEF NextFact, Known
  <1>2. CASE InsertFact(f)
    <2>0. PICK rivals \in SUBSET SettledFacts : rivals = {}
      OBVIOUS
    <2>1. status' = [g \in Fact |-> IF g = f THEN "settled"
                                    ELSE IF g \in rivals THEN "contested"
                                    ELSE status[g]]
      BY <1>0, <1>2, <2>0 DEF InsertFact
    <2>2. /\ serving /\ status[f] # "erased"
          /\ job' = [job EXCEPT ![f] = Enqueued(f)]
          /\ UNCHANGED <<vectors, claims, serving>>
      BY <1>1, <1>2 DEF InsertFact
    <2> QED BY <2>0, <2>1, <2>2, EnqueueGood
  <1>3. CASE InsertContested(f)
    <2>1. PICK rivals \in SUBSET SettledFacts :
            status' = [g \in Fact |-> IF g \in rivals \cup {f} THEN "contested"
                                      ELSE status[g]]
      BY <1>3 DEF InsertContested
    <2>2. /\ serving /\ status[f] = "absent"
          /\ job' = [job EXCEPT ![f] = Enqueued(f)]
          /\ UNCHANGED <<vectors, claims, serving>>
      BY <1>1, <1>3 DEF InsertContested
    <2>3. f \notin rivals
      BY <2>2 DEF SettledFacts
    <2>4. status' = [g \in Fact |-> IF g = f THEN "contested"
                                    ELSE IF g \in rivals THEN "contested"
                                    ELSE status[g]]
      BY <2>1
    <2> QED BY <2>2, <2>3, <2>4, EnqueueGood
  <1>4. CASE InsertRetired(f)
    BY <1>1, <1>4, RetireGood DEF InsertRetired
  <1>5. CASE ResolveWinner(f)
    <2>0. PICK rivals \in SUBSET SettledFacts : rivals = {}
      OBVIOUS
    <2>1. status' = [g \in Fact |-> IF g = f THEN "settled"
                                    ELSE IF g \in rivals THEN "contested"
                                    ELSE status[g]]
      BY <1>0, <1>5, <2>0 DEF ResolveWinner
    <2>2. /\ serving /\ status[f] # "erased"
          /\ job' = [job EXCEPT ![f] = Enqueued(f)]
          /\ UNCHANGED <<vectors, claims, serving>>
      BY <1>5 DEF ResolveWinner
    <2> QED BY <2>0, <2>1, <2>2, EnqueueGood
  <1>6. CASE Retire(f)
    BY <1>6, RetireGood DEF Retire
  <1>7. CASE EraseFact(f)
    BY <1>7, EraseGood
  <1> QED BY <1>2, <1>3, <1>4, <1>5, <1>6, <1>7 DEF Store

\* Steps of a processor.
LEMMA ProcessGood ==
  ASSUME IInv, NEW w \in Worker, Process(w)
  PROVE  Good
  <1>0. /\ TypeOK /\ JobInv
        /\ job \in [Fact -> Job] /\ claims \in [Worker -> Claim]
    BY DEF IInv, TypeOK
  <1>1. \A v \in Worker : claims[v].pc # "idle" => claims[v].fact \in Fact
    BY <1>0 DEF JobInv
  <1>2. CASE ClaimJob(w)
    <2>1. PICK f \in Fact :
            /\ Claimable(f)
            /\ job' = [g \in Fact |->
                 IF g = f THEN [state |-> "processing", token |-> w, due |-> FALSE,
                                attempts |-> job[f].attempts + 1]
                 ELSE Swept(g)]
            /\ claims' = [claims EXCEPT ![w] =
                 [pc |-> "claimed", fact |-> f, attempts |-> job[f].attempts + 1]]
      BY <1>2 DEF ClaimJob
    <2>2. job[f].attempts + 1 \in 0..MaxAttempts
      BY <1>0, <2>1, EmbeddingAssumption DEF Claimable, Job
    <2> DEFINE n == job[f].attempts + 1
               k == [state |-> "processing", token |-> w, due |-> FALSE,
                     attempts |-> n]
               c == [pc |-> "claimed", fact |-> f, attempts |-> n]
    <2>3. k \in Job /\ k.state = "processing"
      BY <2>2, ClaimedJobTyped
    <2>4. c \in Claim /\ c.fact = f
      BY <2>2, EmbeddingAssumption DEF Claim, Fact
    <2>5. job' = [g \in Fact |-> IF g = f THEN k ELSE Swept(g)]
          /\ claims' = [claims EXCEPT ![w] = c]
      BY <2>1
    <2>6. job[f].state \in {"pending", "processing"}
      BY <2>1 DEF Claimable
    <2> HIDE DEF n, k, c
    <2>7. job' \in [Fact -> Job]
      BY <1>0, <2>3, <2>5, SweptTyped
    <2>8. \A g \in Fact :
            /\ job'[g].state = "none" <=> job[g].state = "none"
            /\ job'[g].state = "completed" <=> job[g].state = "completed"
      BY <1>0, <2>3, <2>5, <2>6, SweptTyped
    <2>9. claims' \in [Worker -> Claim]
          /\ \A v \in Worker : claims'[v].pc # "idle" => claims'[v].fact \in Fact
      BY <1>0, <1>1, <2>4, <2>5
    <2>10. UNCHANGED <<status, vectors, serving>>
      BY <1>2 DEF ClaimJob
    <2> QED BY <2>7, <2>8, <2>9, <2>10, QuietGood
  <1>3. CASE ClaimNothing(w)
    <2>1. job' \in [Fact -> Job] /\ \A g \in Fact : job'[g] = Swept(g)
      BY <1>0, <1>3, SweptTyped DEF ClaimNothing
    <2>2. \A g \in Fact :
            /\ job'[g].state = "none" <=> job[g].state = "none"
            /\ job'[g].state = "completed" <=> job[g].state = "completed"
      BY <1>0, <2>1, SweptTyped
    <2>3. UNCHANGED <<status, vectors, claims, serving>>
      BY <1>3 DEF ClaimNothing
    <2> QED BY <1>0, <1>1, <2>1, <2>2, <2>3, QuietGood
  <1>4. CASE ReadFact(w)
    <2>1. PICK p \in {"embedding", "settling"} :
            claims' = [claims EXCEPT ![w].pc = p]
      BY <1>4 DEF ReadFact
    <2>2. claims[w].pc = "claimed" /\ UNCHANGED <<status, job, vectors, serving>>
      BY <1>4 DEF ReadFact
    <2>3. claims' \in [Worker -> Claim]
      BY <1>0, <2>1 DEF Claim
    <2>4. claims'[w].fact = claims[w].fact
          /\ \A v \in Worker \ {w} : claims'[v] = claims[v]
      BY <1>0, <2>1 DEF Claim
    <2>5. \A v \in Worker : claims'[v].pc # "idle" => claims'[v].fact \in Fact
      BY <1>1, <2>2, <2>4
    <2> QED BY <1>0, <2>2, <2>3, <2>5, QuietGood
  <1>5. CASE LoseLease(w)
    BY <1>0, <1>5, ReleaseTyped, QuietGood DEF LoseLease
  <1>10. CASE AbandonJob(w)
    BY <1>0, <1>10, ReleaseTyped, QuietGood DEF AbandonJob
  <1> DEFINE f == claims[w].fact
  <1>6. ASSUME claims[w].pc # "idle", Holds(w)
        PROVE  f \in Fact /\ job[f] \in Job /\ job[f].state = "processing"
    BY <1>0, <1>1, <1>6 DEF Holds
  <1>7. CASE FailJob(w)
    <2>1. f \in Fact /\ job[f] \in Job /\ job[f].state = "processing"
      BY <1>6, <1>7 DEF FailJob
    <2>2. PICK s \in {"pending", "dead_letter"} :
            job' = [job EXCEPT ![f] = [job[f] EXCEPT !.state = s,
                                         !.token = NoWorker, !.due = FALSE]]
      BY <1>7 DEF FailJob, Requeued
    <2> DEFINE k == [job[f] EXCEPT !.state = s, !.token = NoWorker, !.due = FALSE]
    <2>3. k \in Job /\ k.state = s
      BY <2>1 DEF Job
    <2>4. Release(w) /\ UNCHANGED <<status, vectors, serving>>
      BY <1>7 DEF FailJob
    <2>5. job' = [job EXCEPT ![f] = k]
      BY <2>2
    <2> HIDE DEF k
    <2> QED BY <2>1, <2>3, <2>4, <2>5, ReleaseTyped, UpdateGood
  <1>8. CASE CommitPrepared(w)
    <2>1. f \in Fact
      BY <1>6, <1>8 DEF CommitPrepared
    <2> QED BY <1>8, <2>1, CompleteGood DEF CommitPrepared
  <1>9. CASE SettleInactive(w)
    <2>1. f \in Fact /\ job[f] \in Job /\ job[f].state = "processing"
      BY <1>6, <1>9 DEF SettleInactive
    <2>2. Holds(w) /\ Release(w) /\ UNCHANGED <<status, vectors, serving>>
      BY <1>9 DEF SettleInactive
    <2>3. CASE status[f] = "settled"
      <3>1. job' = [job EXCEPT ![f] = Requeued(f, TRUE)]
        BY <1>9, <2>3 DEF SettleInactive
      <3>2. Requeued(f, TRUE) \in Job /\ Requeued(f, TRUE).state = "pending"
        BY <2>1, UpdatedJobsTyped DEF Requeued
      <3> QED BY <2>1, <2>2, <3>1, <3>2, ReleaseTyped, UpdateGood
    <2>4. CASE status[f] # "settled"
      <3>1. job' = [job EXCEPT ![f] = Completed(f)]
        BY <1>9, <2>4 DEF SettleInactive
      <3> QED BY <2>1, <2>2, <2>4, <3>1, CompleteGood
    <2> QED BY <2>3, <2>4
  <1> QED BY <1>2, <1>3, <1>4, <1>5, <1>7, <1>8, <1>9, <1>10
      DEF Process, Settle

\* The start of a daemon: the backfill gives every gap a fresh job.
LEMMA StartGood ==
  ASSUME IInv, StartServer
  PROVE  Good
  <1>0. /\ TypeOK /\ JobInv /\ ErasedNotEmbedded
        /\ job \in [Fact -> Job]
    BY DEF IInv, TypeOK
  <1>1. /\ ~serving /\ UNCHANGED <<status, vectors, claims>>
        /\ serving' \in BOOLEAN
    BY DEF StartServer, ActivationSafe
  <1>2. \A f \in Fact : Backfilled(f) \in Job
    BY <1>0, JobsTyped DEF Backfilled
  <1>3. job' \in [Fact -> Job] /\ \A f \in Fact : job'[f] = Backfilled(f)
    BY <1>2 DEF StartServer
  <1>4. TypeOK'
    BY <1>0, <1>1, <1>3 DEF TypeOK
  <1>5. \A f \in Fact : job'[f].state # job[f].state =>
                          /\ status[f] = "settled" /\ f \notin vectors
                          /\ job'[f].state = "pending"
    BY <1>3, JobsTyped DEF Backfilled
  <1>6. JobInv'
    BY <1>0, <1>1, <1>5 DEF JobInv
  <1>7. ErasedNotEmbedded'
    BY <1>0, <1>1 DEF ErasedNotEmbedded
  <1>8. Known' = Known /\ SettledFacts' = SettledFacts
    BY <1>1 DEF Known, SettledFacts
  <1>9. Unfinished' = Unfinished \cup (SettledFacts \ vectors)
    <2>1. ASSUME NEW f \in Fact
          PROVE  f \in Unfinished' <=>
                   f \in Unfinished \/ (status[f] = "settled" /\ f \notin vectors)
      <3>1. /\ f \in Unfinished <=> job[f].state \notin {"none", "completed"}
            /\ f \in Unfinished' <=> job'[f].state \notin {"none", "completed"}
        BY <1>0, <1>3 DEF Unfinished, Job
      <3>2. CASE /\ status[f] = "settled" /\ f \notin vectors
                 /\ job[f].state \in {"none", "completed"}
        BY <1>3, <3>1, <3>2, JobsTyped DEF Backfilled
      <3>3. CASE ~ (/\ status[f] = "settled" /\ f \notin vectors
                    /\ job[f].state \in {"none", "completed"})
        BY <1>3, <3>1, <3>3 DEF Backfilled
      <3> QED BY <3>2, <3>3
    <2>2. Unfinished \subseteq Fact /\ Unfinished' \subseteq Fact
      BY DEF Unfinished
    <2> QED BY <2>1, <2>2 DEF SettledFacts
  <1>10. Coverage!Start
    BY <1>1, <1>8, <1>9 DEF Coverage!Start
  <1> QED BY <1>4, <1>6, <1>7, <1>10 DEF Good, IInv, Coverage!Next

\* Every step.
LEMMA NextGood ==
  ASSUME IInv, [Next]_vars
  PROVE  Good
  <1>0. /\ TypeOK /\ JobInv
        /\ job \in [Fact -> Job] /\ claims \in [Worker -> Claim]
    BY DEF IInv, TypeOK
  <1>1. ASSUME NEW f \in Fact, Store(f) PROVE Good
    BY <1>1, StoreGood
  <1>2. ASSUME NEW f \in Fact, TimePasses(f) PROVE Good
    <2> DEFINE k == [job[f] EXCEPT !.due = TRUE]
    <2>1. job[f] \in Job /\ job[f].state \in {"pending", "processing"}
      BY <1>0, <1>2 DEF TimePasses
    <2>2. k \in Job /\ k.state = job[f].state
      BY <2>1 DEF Job
    <2>3. job' = [job EXCEPT ![f] = k]
          /\ UNCHANGED <<status, vectors, claims, serving>>
      BY <1>2 DEF TimePasses
    <2> HIDE DEF k
    <2> QED BY <1>0, <2>1, <2>2, <2>3, UpdateGood DEF JobInv
  <1>3. ASSUME NEW w \in Worker, Process(w) PROVE Good
    BY <1>3, ProcessGood
  <1>4. CASE StopServer
    <2>1. Idle \in Claim /\ Idle.pc = "idle"
      BY EmbeddingAssumption DEF Idle, Claim
    <2>2. /\ serving /\ serving' = FALSE /\ UNCHANGED <<status, job, vectors>>
          /\ claims' \in [Worker -> Claim]
          /\ \A w \in Worker : claims'[w].pc = "idle"
      BY <1>4, <2>1 DEF StopServer
    <2>3. IInv'
      BY <2>2 DEF IInv, TypeOK, JobInv, ErasedNotEmbedded
    <2>4. Known' = Known /\ SettledFacts' = SettledFacts /\ Unfinished' = Unfinished
      BY <2>2 DEF Known, SettledFacts, Unfinished
    <2>5. Coverage!Stop
      BY <2>2, <2>4 DEF Coverage!Stop
    <2> QED BY <2>3, <2>5 DEF Good, Coverage!Next
  <1>5. CASE StartServer
    BY <1>5, StartGood
  <1>6. CASE UNCHANGED vars
    <2>1. UNCHANGED <<status, job, vectors, claims, serving>>
      BY <1>6 DEF vars
    <2> QED BY <1>0, <2>1, QuietGood DEF JobInv
  <1> QED BY <1>1, <1>2, <1>3, <1>4, <1>5, <1>6 DEF Next

\* The rows and the contract in the initial state.
LEMMA InitGood ==
  ASSUME Init
  PROVE  IInv /\ Coverage!Init
  <1>1. PICK n \in 0..MaxFacts :
          status = [f \in Fact |-> IF f <= n THEN "settled" ELSE "absent"]
    BY DEF Init
  <1>2. /\ job = [f \in Fact |-> NoJob] /\ vectors = {}
        /\ claims = [w \in Worker |-> Idle] /\ serving = FALSE
    BY DEF Init
  <1>3. Idle \in Claim /\ Idle.pc = "idle"
    BY EmbeddingAssumption DEF Idle, Claim
  <1>4. TypeOK
    BY <1>1, <1>2, <1>3, JobsTyped DEF TypeOK, Status
  <1>5. JobInv /\ ErasedNotEmbedded
    BY <1>2, <1>3, JobsTyped DEF JobInv, ErasedNotEmbedded
  <1>6. SettledFacts \subseteq Known /\ Unfinished = {}
    BY <1>1, <1>2, JobsTyped DEF SettledFacts, Known, Unfinished
  <1>7. Coverage!Init
    BY <1>2, <1>6 DEF Coverage!Init
  <1> QED BY <1>4, <1>5, <1>7 DEF IInv
-----------------------------------------------------------------------------
(* Theorems                                                                *)

\* The invariant that the steps preserve.
THEOREM Invariance == Spec => []IInv
  <1>1. Init => IInv
    BY InitGood
  <1>2. IInv /\ [Next]_vars => IInv'
    BY NextGood DEF Good
  <1> QED BY <1>1, <1>2, PTL DEF Spec

\* Rows of embedding_jobs and claims of processors stay well formed; the
\* attempts of a job never exceed the limit, under any sequence of crashes,
\* expiries and retries.
THEOREM TypeCorrect == Spec => []TypeOK
  BY Invariance, PTL DEF IInv

\* No vector of an erased fact is ever stored, whatever a processor that read
\* the fact before its erasure does afterwards.
THEOREM ErasedNeverEmbedded == Spec => []ErasedNotEmbedded
  BY Invariance, PTL DEF IInv

\* The leased outbox implements the contract of EmbeddingCoverage.
THEOREM CoverageImplemented == Spec => ImplementsCoverage
  <1>1. Init => Coverage!Init
    BY InitGood
  <1>2. IInv /\ [Next]_vars => Coverage!Next \/ UNCHANGED Coverage!vars
    BY NextGood DEF Good
  <1>3. IInv /\ [Next]_vars => [Coverage!Next]_(Coverage!vars)
    BY <1>2
  <1> QED BY <1>1, <1>3, Invariance, PTL DEF Spec, ImplementsCoverage, Coverage!Spec

\* What the contract is for: while a daemon serves, retrieval never meets a
\* settled fact that has neither a vector nor a job somebody can see.
THEOREM OutboxCovers == Spec => []Coverage!Covered
  <1>1. Coverage!Init => Coverage!Covered
    BY DEF Coverage!Init, Coverage!Covered
  <1>2. ASSUME Coverage!Covered, [Coverage!Next]_(Coverage!vars)
        PROVE  Coverage!Covered'
    <2>1. CASE Coverage!Change
      BY <1>2, <2>1 DEF Coverage!Change, Coverage!Covered
    <2>2. ASSUME NEW f \in Known, Coverage!Erase(f) PROVE Coverage!Covered'
      BY <1>2, <2>2 DEF Coverage!Erase, Coverage!Covered
    <2>3. ASSUME NEW f \in Known, Coverage!Complete(f) PROVE Coverage!Covered'
      BY <1>2, <2>3 DEF Coverage!Complete, Coverage!Covered
    <2>4. CASE Coverage!Stop
      BY <2>4 DEF Coverage!Stop, Coverage!Covered
    <2>5. CASE Coverage!Start
      BY <2>5 DEF Coverage!Start, Coverage!Covered
    <2>6. CASE UNCHANGED Coverage!vars
      BY <1>2, <2>6 DEF Coverage!vars, Coverage!Covered
    <2> QED BY <1>2, <2>1, <2>2, <2>3, <2>4, <2>5, <2>6 DEF Coverage!Next
  <1> QED
    BY <1>1, <1>2, CoverageImplemented, PTL DEF ImplementsCoverage, Coverage!Spec
=============================================================================
