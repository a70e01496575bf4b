----------------------------- MODULE FactStore -----------------------------
(***************************************************************************)
(* The durable fact store of Enfold: the tables facts, fact_conflicts,     *)
(* fact_conflict_members, observations, fact_provenance, memory_clients,   *)
(* memory_sessions, memory_write_log and the two sets that the embedding   *)
(* outbox contributes, and every transaction that changes them:            *)
(* MemoryWriteService.write, EnfoldService._resolve_conflict, erase_fact   *)
(* and one settled embedding job.  Each transaction runs under             *)
(* BEGIN IMMEDIATE and rolls back on any exception, so it is one action;   *)
(* a request that raises changes nothing and has no action.                *)
(*                                                                         *)
(* NULL ids are 0 (row ids are positive), other NULLs are NONE, and        *)
(* invalid_at is kept as the flag "invalid_at IS NOT NULL".                *)
(***************************************************************************)
EXTENDS Naturals, Sequences, FiniteSets

CONSTANTS
  Client, Session, Surface, Agent, Scope, Key, Content, Slot, Value,
  NONE,        \* NULL of the columns that are not ids
  Times,       \* readings of the wall clock, and validity times, above 0
  Grants,      \* server-side scope grants, one set of scopes per known client
  Correctors,  \* clients that may assert a human correction
  Resolvers,   \* clients that may resolve a conflict
  Contexts,    \* connection contexts established by handshakes
  Requests,    \* write requests the clients send
  Erasable,    \* fact ids the operator may erase
  Near,        \* pairs of contents over the near-duplicate threshold
  Embedding    \* TRUE when the service has an embedding outbox and embedder

Context == [client: Client, session: Session, surface: Surface,
            agent: Agent, scopes: SUBSET Scope]

\* A WriteRequest with its optional StateCandidate: slot is the pair
\* (subject_key, predicate_key), valid_from the candidate's time or observed_at.
Request == [key: Key, scope: Scope, content: Content,
            slot: Slot \cup {NONE}, value: Value \cup {NONE},
            authority: Nat, trust: Nat, valid_from: Nat,
            claim: {"none", "asserted", "marked"}, supersede: Nat,
            screen: {"clean", "secret", "credential"}, cites: SUBSET Nat]

ASSUME ConstantsAssumption ==
  /\ Times \subseteq Nat \ {0} /\ Times # {}
  /\ Contexts \subseteq Context
  /\ Requests \subseteq Request
  /\ Grants \in [DOMAIN Grants -> SUBSET Scope]
  /\ Near \subseteq Content \X Content
  /\ Embedding \in BOOLEAN
  /\ NONE \notin Content \cup Slot \cup Value \cup Client
  \* Only reflection writes insights, and it writes them without a state slot.
  /\ \A r \in Requests : r.slot # NONE => r.cites = {}

Fact == [scope: Scope, content: Content \cup {NONE},
         kind: {"untyped", "state", "erased"},
         slot: Slot \cup {NONE}, value: Value \cup {NONE},
         authority: Nat, trust: Nat, valid_from: Nat, protected: BOOLEAN,
         cites: SUBSET Nat, invalid: BOOLEAN,
         superseded_by: Nat, conflict_group: Nat]
Conflict == [scope: Scope, slot: Slot, resolved: BOOLEAN,
             resolution: Nat, resolver: Client \cup {NONE}]
Observation == [client: Client, session: Session, scope: Scope,
                content: Content \cup {NONE},
                claim: {"none", "asserted", "marked"}, redacted: BOOLEAN]
Outcomes == {"inserted", "near_dedup", "add", "supersede", "dedup",
             "conflict", "rejected", "needs_review"}
LogRow == [client: Client, session: Session, request: Requests,
           outcome: Outcomes, fact: Nat, existing: Nat, observation: Nat]

VARIABLES
  facts,         \* sequence of Fact rows, indexed by fact_id
  conflicts,     \* sequence of Conflict rows
  members,       \* pairs <<conflict id, fact id>>
  observations,  \* sequence of Observation rows
  provenance,    \* pairs <<fact id, observation id>>
  clients,       \* pairs <<client, surface>>
  sessions,      \* records of registered sessions
  log,           \* the idempotency log
  outbox,        \* fact ids with an embedding job that is not completed
  vectors,       \* fact ids with a stored embedding
  serving        \* TRUE while the daemon owns the database lock

vars == <<facts, conflicts, members, observations, provenance, clients,
          sessions, log, outbox, vectors, serving>>

FactIds == DOMAIN facts

SessionRow(x, scopes) == [client |-> x.client, session |-> x.session,
                          agent |-> x.agent, scopes |-> scopes]

TypeOK ==
  /\ facts \in Seq(Fact)
  /\ conflicts \in Seq(Conflict)
  /\ members \subseteq (DOMAIN conflicts) \X FactIds
  /\ observations \in Seq(Observation)
  /\ provenance \subseteq FactIds \X (DOMAIN observations)
  /\ clients \subseteq Client \X Surface
  /\ sessions \subseteq [client: Client, session: Session, agent: Agent,
                         scopes: SUBSET Scope]
  /\ log \subseteq LogRow
  /\ outbox \subseteq FactIds
  /\ vectors \subseteq FactIds
  /\ serving \in BOOLEAN

Init ==
  /\ facts = <<>> /\ conflicts = <<>> /\ members = {}
  /\ observations = <<>> /\ provenance = {}
  /\ clients = {} /\ sessions = {} /\ log = {}
  /\ outbox = {} /\ vectors = {} /\ serving = TRUE

-----------------------------------------------------------------------------
(* Predicates on rows                                                      *)

\* Active: neither retired nor superseded; conflict members are active.
Active(f) == ~f.invalid /\ f.superseded_by = 0

\* What ordinary retrieval, deduplication and embedding look at.
Settled(f) == Active(f) /\ f.conflict_group = 0

Human(r) == r.claim # "none"

\* Mutant of Current: conflict members are overlooked.
CurrentSettled(r) == {i \in FactIds : /\ facts[i].kind = "state"
                                      /\ facts[i].scope = r.scope
                                      /\ facts[i].slot = r.slot
                                      /\ Settled(facts[i])}

Current(r) == {i \in FactIds : /\ facts[i].kind = "state"
                               /\ facts[i].scope = r.scope
                               /\ facts[i].slot = r.slot
                               /\ Active(facts[i])}

MembersOf(c) == {i \in FactIds : <<c, i>> \in members}
-----------------------------------------------------------------------------
(* Who may write: policy, identity, idempotency                            *)

Effective(x) == IF x.client \in DOMAIN Grants
                  THEN x.scopes \cap Grants[x.client] ELSE {}

ClientMatches(x) == \A c \in clients : c[1] = x.client => c[2] = x.surface

\* Mutant of SessionMatches: the scopes of the session are not compared.
SessionMatchesAgent(x) ==
  \A s \in sessions :
    (s.client = x.client /\ s.session = x.session) => s.agent = x.agent

SessionMatches(x) ==
  \A s \in sessions :
    (s.client = x.client /\ s.session = x.session)
      => s = SessionRow(x, Effective(x))

RegisterClient(x) == clients' = clients \cup {<<x.client, x.surface>>}
RegisterSession(x) == sessions' = sessions \cup {SessionRow(x, Effective(x))}

Prior(x, r) == {w \in log : w.client = x.client /\ w.request.key = r.key}

\* The preamble of write: an unknown client, no common scope, a typed
\* candidate with an explicit target and another surface all raise before
\* anything is written.
Known(x, r) ==
  /\ serving
  /\ Effective(x) # {}
  /\ r.slot # NONE => r.supersede = 0
  /\ ClientMatches(x)

\* Mutant of Admit: the idempotency log is not consulted.
AdmitUnlogged(x, r) == Known(x, r) /\ SessionMatches(x)

\* A used key, then a changed session context, raise as well.
Admit(x, r) ==
  /\ Known(x, r)
  /\ Prior(x, r) = {}
  /\ SessionMatches(x)

ValidFrom(r) == IF r.valid_from # 0 THEN {r.valid_from} ELSE Times
-----------------------------------------------------------------------------
(* decide_state_write                                                      *)

Exact(r) == {i \in Current(r) :
               \/ facts[i].content = r.content
               \/ r.value # NONE /\ facts[i].value = r.value}

Contested(r) ==
  \/ \E i, j \in Current(r) : i # j
  \/ \E i \in Current(r) : facts[i].conflict_group # 0

ClearWinner(r, from, f) ==
  \/ r.authority > f.authority /\ from >= f.valid_from
  \/ r.authority = f.authority /\ from > f.valid_from

\* Mutant of Adds: a slot with nothing but disputed facts counts as empty.
AddsUndisputed(r) == \A i \in Current(r) : facts[i].conflict_group # 0

\* The outcome of decide_state_write for a typed request.
Adds(r) == Current(r) = {}

Matches(r, t) == t \in Exact(r) /\ \A u \in Exact(r) : t <= u

Supersedes(r, from, e) ==
  /\ Current(r) = {e} /\ ~Contested(r) /\ Exact(r) = {}
  /\ ClearWinner(r, from, facts[e])
Contests(r, from) ==
  /\ Current(r) # {} /\ Exact(r) = {}
  /\ Contested(r) \/ \A e \in Current(r) : ~ClearWinner(r, from, facts[e])
-----------------------------------------------------------------------------
(* Write policy                                                            *)

\* Mutant of Blocked: a human correction is not protected.
BlockedUnprotected(r, t) ==
  t \in FactIds =>
    \/ facts[t].scope # r.scope
    \/ r.supersede # 0
         /\ (facts[t].kind = "state" \/ facts[t].conflict_group # 0)
    \/ facts[t].authority > r.authority

\* _supersession_policy: the write goes to review instead of replacing t, a
\* target it cannot see included.
Blocked(r, t) ==
  t \in FactIds =>
    \/ facts[t].scope # r.scope
    \/ r.supersede # 0
         /\ (facts[t].kind = "state" \/ facts[t].conflict_group # 0)
    \/ facts[t].protected /\ ~Human(r)
    \/ facts[t].authority > r.authority

\* MemoryPolicy.evaluate_write, then the scope check of write.
Screened(x, r) ==
  IF r.screen = "secret" THEN "rejected"
  ELSE IF Human(r) /\ x.client \notin Correctors THEN "needs_review"
  ELSE IF r.screen = "credential" \/ r.scope \notin Effective(x) THEN "rejected"
  ELSE "clean"

Clean(x, r) == Screened(x, r) = "clean"
                 /\ (r.supersede # 0 => ~Blocked(r, r.supersede))
-----------------------------------------------------------------------------
(* Row updates                                                             *)

\* insert_fact as _fact_writer calls it, correction_status included.
UntypedFact(r) ==
  [scope |-> r.scope, content |-> r.content, kind |-> "untyped",
   slot |-> NONE, value |-> NONE, authority |-> r.authority,
   trust |-> r.trust, valid_from |-> 0, protected |-> (r.claim = "marked"),
   cites |-> r.cites, invalid |-> FALSE, superseded_by |-> 0,
   conflict_group |-> 0]

\* The same row after _persist_state_candidate.
StateFact(r, from, group) ==
  [scope |-> r.scope, content |-> r.content, kind |-> "state",
   slot |-> r.slot, value |-> r.value, authority |-> r.authority,
   trust |-> r.trust, valid_from |-> from, protected |-> (r.claim = "marked"),
   cites |-> r.cites, invalid |-> FALSE, superseded_by |-> 0,
   conflict_group |-> group]

\* Mutant of NewId: the next id is computed after the row was inserted.
NewIdAfterInsert == Len(facts) + 2

NewId == Len(facts) + 1

Superseded(f, by) == [f EXCEPT !.invalid = TRUE, !.superseded_by = by]
Flagged(f, c) == [f EXCEPT !.conflict_group = c]

\* Every row of a table of facts in ids, after one update of each.
Retire(fs, ids, by) ==
  [i \in DOMAIN fs |-> IF i \in ids THEN Superseded(fs[i], by) ELSE fs[i]]

\* Mutant of Flag: incumbents are not moved out of the projection.
FlagNobody(fs, ids, c) == IF c = 0 THEN
  [i \in DOMAIN fs |-> IF i \in ids THEN Flagged(fs[i], c) ELSE fs[i]]
  ELSE fs
Flag(fs, ids, c) ==
  [i \in DOMAIN fs |-> IF i \in ids THEN Flagged(fs[i], c) ELSE fs[i]]

\* Mutant of Enqueue: only new facts are enqueued, conflict winners are not.
EnqueueNew(f) == outbox' = IF Embedding /\ f = NewId THEN outbox \cup {f}
                                                     ELSE outbox

\* enqueue_in_transaction: a no-op for a fact that has its vector.
Enqueue(f) == outbox' = IF Embedding THEN outbox \cup ({f} \ vectors)
                                     ELSE outbox

ObservationRow(x, r) ==
  [client |-> x.client, session |-> x.session, scope |-> r.scope,
   content |-> r.content, claim |-> r.claim, redacted |-> FALSE]

\* ON CONFLICT DO NOTHING, then the id of the row that holds the evidence.
RecordObservation(x, r, o) ==
  \/ /\ o \in DOMAIN observations
     /\ observations[o] = ObservationRow(x, r)
     /\ UNCHANGED observations
  \/ /\ \A i \in DOMAIN observations : observations[i] # ObservationRow(x, r)
     /\ o = Len(observations) + 1
     /\ observations' = Append(observations, ObservationRow(x, r))

WriteRow(x, r, outcome, fact, existing, o) ==
  [client |-> x.client, session |-> x.session, request |-> r,
   outcome |-> outcome, fact |-> fact, existing |-> existing,
   observation |-> o]

\* What every accepted write does besides changing the fact tables: register
\* the caller, record the evidence for the fact it answers with, and log.
Finish(x, r, outcome, fact, existing) ==
  \E o \in 1..(Len(observations) + 1) :
    /\ RegisterClient(x) /\ RegisterSession(x)
    /\ RecordObservation(x, r, o)
    /\ provenance' = provenance \cup {<<fact, o>>}
    /\ log' = log \cup {WriteRow(x, r, outcome, fact, existing, o)}
-----------------------------------------------------------------------------
(* MemoryWriteService.write, one action for each way it can end            *)

\* Same key, same session and same request: the stored outcome is returned,
\* before the rest of the session context is compared.
ReplayWrite(x, r) ==
  /\ Known(x, r)
  /\ \E w \in Prior(x, r) : w.request = r /\ w.session = x.session
  /\ UNCHANGED vars

\* A factless decision is logged and nothing else but the caller is recorded.
RefuseWrite(x, r) ==
  /\ Admit(x, r)
  /\ \E outcome \in {"rejected", "needs_review"} :
       /\ \/ Screened(x, r) = outcome
          \/ /\ Screened(x, r) = "clean" /\ outcome = "needs_review"
             /\ \/ r.supersede # 0 /\ Blocked(r, r.supersede)
                \/ /\ r.slot # NONE
                   /\ \E from \in ValidFrom(r), e \in FactIds :
                        Supersedes(r, from, e) /\ Blocked(r, e)
       /\ log' = log \cup {WriteRow(x, r, outcome, 0, 0, 0)}
  /\ RegisterClient(x) /\ RegisterSession(x)
  /\ UNCHANGED <<facts, conflicts, members, observations, provenance,
                 outbox, vectors, serving>>

\* dedup, or a matching value inside an open conflict: evidence only.
MatchState(x, r) ==
  /\ Admit(x, r) /\ Clean(x, r) /\ r.slot # NONE
  /\ \E t \in FactIds :
       /\ Matches(r, t)
       /\ Finish(x, r, IF Contested(r) THEN "conflict" ELSE "dedup", t, t)
  /\ UNCHANGED <<facts, conflicts, members, outbox, vectors, serving>>

AddState(x, r) ==
  /\ Admit(x, r) /\ Clean(x, r) /\ r.slot # NONE
  /\ Adds(r)
  /\ \E from \in ValidFrom(r) : facts' = Append(facts, StateFact(r, from, 0))
  /\ Finish(x, r, "add", NewId, 0)
  /\ Enqueue(NewId)
  /\ UNCHANGED <<conflicts, members, vectors, serving>>

SupersedeState(x, r) ==
  /\ Admit(x, r) /\ Clean(x, r) /\ r.slot # NONE
  /\ \E from \in ValidFrom(r), e \in FactIds :
       /\ Supersedes(r, from, e)
       /\ ~Blocked(r, e)
       /\ facts' = Retire(Append(facts, StateFact(r, from, 0)), {e}, NewId)
  /\ Finish(x, r, "supersede", NewId, 0)
  /\ Enqueue(NewId)
  /\ UNCHANGED <<conflicts, members, vectors, serving>>

\* open_state_conflict moves the current facts out of the unique projection,
\* then the candidate joins them.
OpenConflict(x, r) ==
  LET c == Len(conflicts) + 1 IN
  /\ Admit(x, r) /\ Clean(x, r) /\ r.slot # NONE
  /\ \A i \in Current(r) : facts[i].conflict_group = 0
  /\ \E from \in ValidFrom(r) :
       /\ Contests(r, from)
       /\ facts' = Append(Flag(facts, Current(r), c), StateFact(r, from, c))
  /\ conflicts' = Append(conflicts,
       [scope |-> r.scope, slot |-> r.slot, resolved |-> FALSE,
        resolution |-> 0, resolver |-> NONE])
  /\ members' = members \cup {<<c, i>> : i \in Current(r) \cup {NewId}}
  /\ Finish(x, r, "conflict", NewId, 0)
  /\ Enqueue(NewId)
  /\ UNCHANGED <<vectors, serving>>

\* The slot is in conflict already; two groups in one slot would raise.
JoinConflict(x, r) ==
  /\ Admit(x, r) /\ Clean(x, r) /\ r.slot # NONE
  /\ \E from \in ValidFrom(r), c \in DOMAIN conflicts :
       /\ Contests(r, from)
       /\ \E i \in Current(r) : facts[i].conflict_group = c
       /\ \A i \in Current(r) : facts[i].conflict_group \in {0, c}
       /\ ~conflicts[c].resolved
       /\ conflicts[c].scope = r.scope /\ conflicts[c].slot = r.slot
       /\ facts' = Append(facts, StateFact(r, from, c))
       /\ members' = members \cup {<<c, NewId>>}
  /\ Finish(x, r, "conflict", NewId, 0)
  /\ Enqueue(NewId)
  /\ UNCHANGED <<conflicts, vectors, serving>>

\* _find_untyped_exact_duplicate
Duplicates(r) == {i \in FactIds : /\ facts[i].scope = r.scope
                                  /\ facts[i].content = r.content
                                  /\ Settled(facts[i])}

\* find_write_near_duplicates and the choice among its candidates.
NearDuplicates(r) ==
  {i \in vectors : /\ facts[i].scope = r.scope
                   /\ <<r.content, facts[i].content>> \in Near
                   /\ Settled(facts[i])}
BestNear(r, d) ==
  /\ d \in NearDuplicates(r)
  /\ \A i \in NearDuplicates(r) :
       \/ facts[i].trust < facts[d].trust
       \/ facts[i].trust = facts[d].trust /\ i <= d

\* Mutant of CanReplace: a fact may be named as its own successor.
CanReplaceSelf(r, new) ==
  \/ r.supersede = 0
  \/ /\ r.supersede \in FactIds
     /\ facts[r.supersede].scope = r.scope
     /\ facts[r.supersede].kind # "state"
     /\ Settled(facts[r.supersede])

\* _supersede_if_requested raises unless the named target can be retired.
CanReplace(r, new) ==
  \/ r.supersede = 0
  \/ /\ r.supersede \in FactIds /\ r.supersede # new
     /\ facts[r.supersede].scope = r.scope
     /\ facts[r.supersede].kind # "state"
     /\ Settled(facts[r.supersede])
Replaced(r) == IF r.supersede = 0 THEN {} ELSE {r.supersede}

DedupUntyped(x, r) ==
  /\ Admit(x, r) /\ Clean(x, r) /\ r.slot = NONE
  /\ \E t \in Duplicates(r) :
       /\ \A u \in Duplicates(r) : t <= u
       /\ CanReplace(r, t)
       /\ facts' = Retire(facts, Replaced(r), t)
       /\ Finish(x, r, "dedup", t, t)
  /\ UNCHANGED <<conflicts, members, outbox, vectors, serving>>

\* Also next to a near duplicate: the deduplication may be off, its embedder
\* may raise, and its text search may miss (_find_untyped_near_duplicate).
InsertUntyped(x, r) ==
  /\ Admit(x, r) /\ Clean(x, r) /\ r.slot = NONE
  /\ Duplicates(r) = {}
  /\ CanReplace(r, NewId)
  /\ facts' = Retire(Append(facts, UntypedFact(r)), Replaced(r), NewId)
  /\ Finish(x, r, "inserted", NewId, 0)
  /\ Enqueue(NewId)
  /\ UNCHANGED <<conflicts, members, vectors, serving>>

\* _merge_near_duplicate: both rows are kept and one of them is retired.  With
\* equal trust the later timestamp wins, and that is the incoming write's.
NearDuplicateLoses(x, r) ==
  /\ Admit(x, r) /\ Clean(x, r) /\ r.slot = NONE /\ r.supersede = 0
  /\ Duplicates(r) = {}
  /\ \E d \in FactIds :
       /\ BestNear(r, d)
       /\ r.trust >= facts[d].trust
       /\ facts' = Retire(Append(facts, UntypedFact(r)), {d}, NewId)
       /\ Finish(x, r, "near_dedup", NewId, d)
  /\ Enqueue(NewId)
  /\ UNCHANGED <<conflicts, members, vectors, serving>>

NearDuplicateWins(x, r) ==
  /\ Admit(x, r) /\ Clean(x, r) /\ r.slot = NONE /\ r.supersede = 0
  /\ Duplicates(r) = {}
  /\ \E d \in FactIds :
       /\ BestNear(r, d)
       /\ r.trust < facts[d].trust
       /\ facts' = Retire(Append(facts, UntypedFact(r)), {NewId}, d)
       /\ Finish(x, r, "near_dedup", d, d)
  /\ UNCHANGED <<conflicts, members, outbox, vectors, serving>>

Write(x, r) ==
  \/ ReplayWrite(x, r)
  \/ RefuseWrite(x, r)
  \/ MatchState(x, r)
  \/ AddState(x, r)
  \/ SupersedeState(x, r)
  \/ OpenConflict(x, r)
  \/ JoinConflict(x, r)
  \/ DedupUntyped(x, r)
  \/ InsertUntyped(x, r)
  \/ NearDuplicateLoses(x, r)
  \/ NearDuplicateWins(x, r)
-----------------------------------------------------------------------------
(* EnfoldService._resolve_conflict                                         *)

\* resolve_state_conflict succeeds only if every member is an active fact that
\* still carries the conflict's flag; otherwise the transaction rolls back.
Resolvable(c, w) ==
  /\ ~conflicts[c].resolved
  /\ w \in MembersOf(c)
  /\ \A i \in MembersOf(c) :
       facts[i].conflict_group = c /\ ~facts[i].invalid
  /\ Active(facts[w])

ResolveConflict(x, c, w) ==
  /\ serving
  /\ x.client \in Resolvers
  /\ conflicts[c].scope \in Effective(x)
  /\ ClientMatches(x) /\ SessionMatches(x)
  /\ Resolvable(c, w)
  /\ facts' = Flag(Retire(facts, MembersOf(c) \ {w}, w), {w}, 0)
  /\ conflicts' = [conflicts EXCEPT ![c].resolved = TRUE,
                                    ![c].resolution = w,
                                    ![c].resolver = x.client]
  /\ RegisterClient(x) /\ RegisterSession(x)
  /\ Enqueue(w)
  /\ UNCHANGED <<members, observations, provenance, log, vectors, serving>>
-----------------------------------------------------------------------------
(* erase_fact                                                              *)

Scrubbed(f) ==
  [f EXCEPT !.content = NONE, !.kind = "erased", !.slot = NONE,
            !.value = NONE, !.cites = {}, !.invalid = TRUE,
            !.conflict_group = 0]

\* Mutant of Emptied: a conflict is closed with two members left.
EmptiedEarly(e) == {c \in DOMAIN conflicts :
                      /\ e \in MembersOf(c)
                      /\ \A i, j, k \in MembersOf(c) \ {e} :
                           i = j \/ j = k \/ i = k}

\* Conflicts that lose a member and keep at most one.
Emptied(e) == {c \in DOMAIN conflicts :
                 /\ e \in MembersOf(c)
                 /\ \A i, j \in MembersOf(c) \ {e} : i = j}

LastMembers(e) == UNION {MembersOf(c) \ {e} : c \in Emptied(e)}
Sole(c, e) == IF MembersOf(c) = {e} THEN 0
              ELSE CHOOSE i \in FactIds : i \in MembersOf(c) \ {e}

\* Derived insights that cite the erased fact are retired with it.
Citing(e) == {i \in FactIds : ~facts[i].invalid /\ e \in facts[i].cites}

\* Mutant of ErasedRow: rows that e replaced lose their successor.
ErasedRowUnlinked(e, i) ==
  IF i = e THEN Scrubbed(facts[i])
  ELSE [facts[i] EXCEPT
          !.invalid = @ \/ i \in Citing(e),
          !.superseded_by = IF @ = e THEN 0 ELSE @,
          !.conflict_group = IF i \in LastMembers(e) THEN 0 ELSE @]

ErasedRow(e, i) ==
  IF i = e THEN Scrubbed(facts[i])
  ELSE [facts[i] EXCEPT
          !.invalid = @ \/ i \in Citing(e),
          !.conflict_group = IF i \in LastMembers(e) THEN 0 ELSE @]

\* Mutant of Exposed: evidence that other facts share is kept.
ExposedUnshared(e) == {o \in DOMAIN observations :
                         /\ <<e, o>> \in provenance
                         /\ \A i \in FactIds \ {e} : <<i, o>> \notin provenance}

\* The observations whose text the erasure blanks.
Exposed(e) == {o \in DOMAIN observations : <<e, o>> \in provenance}

\* Maintenance takes the daemon's own lock, so it runs while nobody serves.
EraseFact(e) ==
  /\ ~serving
  /\ e \in FactIds
  /\ facts' = [i \in FactIds |-> ErasedRow(e, i)]
  /\ observations' = [o \in DOMAIN observations |->
       IF o \in Exposed(e)
         THEN [observations[o] EXCEPT !.content = NONE, !.redacted = TRUE]
         ELSE observations[o]]
  /\ members' = {m \in members : m[2] # e}
  /\ conflicts' = [c \in DOMAIN conflicts |->
       IF c \in Emptied(e) /\ ~conflicts[c].resolved
         THEN [conflicts[c] EXCEPT !.resolved = TRUE,
                                   !.resolution = Sole(c, e)]
         ELSE conflicts[c]]
  /\ outbox' = outbox \ {e}
  /\ vectors' = vectors \ {e}
  /\ UNCHANGED <<provenance, clients, sessions, log, serving>>
-----------------------------------------------------------------------------
(* EmbeddingJobProcessor.process_one, seen from the fact tables: a settled  *)
(* fact gets its vector, any other job is completed without one.  The       *)
(* leases, retries and crashes behind it are in EmbeddingJobs; a job that   *)
(* was given up stays in the outbox.                                        *)

EmbedFact(f) ==
  /\ serving
  /\ f \in outbox
  /\ outbox' = outbox \ {f}
  /\ vectors' = IF Settled(facts[f]) THEN vectors \cup {f} ELSE vectors
  /\ UNCHANGED <<facts, conflicts, members, observations, provenance,
                 clients, sessions, log, serving>>

\* What health() counts as uncovered, were no job pending.
Uncovered == {i \in FactIds : Settled(facts[i]) /\ i \notin vectors}

StopServer ==
  /\ serving
  /\ serving' = FALSE
  /\ UNCHANGED <<facts, conflicts, members, observations, provenance,
                 clients, sessions, log, outbox, vectors>>

\* Acquiring ownership is followed by enqueue_backfill, which is committed even
\* when the start is then refused (a dead letter, a bad configuration).
StartServer ==
  /\ ~serving
  /\ serving' \in BOOLEAN
  /\ outbox' = IF Embedding THEN outbox \cup Uncovered ELSE outbox
  /\ UNCHANGED <<facts, conflicts, members, observations, provenance,
                 clients, sessions, log, vectors>>

Next ==
  \/ \E x \in Contexts, r \in Requests : Write(x, r)
  \/ \E x \in Contexts, c \in DOMAIN conflicts, w \in FactIds :
       ResolveConflict(x, c, w)
  \/ \E e \in Erasable : EraseFact(e)
  \/ \E f \in outbox : EmbedFact(f)
  \/ StopServer
  \/ StartServer

Spec == Init /\ [][Next]_vars
-----------------------------------------------------------------------------
(* Properties                                                              *)

Coverage == INSTANCE EmbeddingCoverage WITH
  known <- FactIds, settled <- {i \in FactIds : Settled(facts[i])}

\* Every transaction of the store is one the outbox contract allows: what a
\* write, a resolution or a start settles is enqueued in that transaction, and
\* what an erasure frees waits for the next start.
ImplementsCoverage == Coverage!Spec

\* What read_current_state and the conflict API show of each slot.
SlotView(p) ==
  LET ids == {i \in FactIds : /\ facts[i].kind = "state"
                              /\ <<facts[i].scope, facts[i].slot>> = p
                              /\ Active(facts[i])}
  IN [disputed |-> \E i \in ids : facts[i].conflict_group # 0, ids |-> ids]

Slots == INSTANCE StateSlot WITH
  Slots <- Scope \X Slot, last <- Len(facts),
  current <- [p \in Scope \X Slot |-> SlotView(p)]

\* Without near duplicates and erasure a slot behaves as its readers are told:
\* one settled fact, or a dispute that nothing but a resolution ends.
ImplementsStateSlot == Slots!Spec

\* At most one settled state fact per exact slot: read_current_state never
\* meets the two values it would raise StateSlotInvariantError for, and the
\* partial unique index (left out of the model) never has to refuse a row.
SlotUnique ==
  \A i, j \in FactIds :
    ( /\ facts[i].kind = "state" /\ facts[j].kind = "state"
      /\ facts[i].scope = facts[j].scope /\ facts[i].slot = facts[j].slot
      /\ Settled(facts[i]) /\ Settled(facts[j]) ) => i = j

\* Following superseded_by from any fact ends: every non-empty set of facts
\* has one whose successor is outside the set.  An explicit target, an exact
\* or near duplicate and a conflict winner may all be older than the loser,
\* so ids do not order the chain.
NoSupersessionCycle ==
  \A S \in SUBSET FactIds :
    S # {} => \E i \in S : facts[i].superseded_by \notin S

\* Every open conflict can be closed: it has two members or more, and each is
\* an active fact of the conflict's slot that still carries its flag, so
\* resolve_state_conflict accepts any of them.
ConflictsResolvable ==
  \A c \in DOMAIN conflicts : ~conflicts[c].resolved =>
    /\ \E i, j \in MembersOf(c) : i # j
    /\ \A w \in MembersOf(c) :
         /\ Resolvable(c, w)
         /\ facts[w].scope = conflicts[c].scope
         /\ facts[w].slot = conflicts[c].slot

\* A retried request takes effect once: one log row per client and key, and
\* as many logged insertions as there are facts.
OneEffectPerKey ==
  /\ \A v, w \in log :
       (v.client = w.client /\ v.request.key = w.request.key) => v = w
  /\ Len(facts) = Cardinality({w \in log :
       \/ w.outcome \in {"inserted", "near_dedup", "add", "supersede"}
       \/ w.outcome = "conflict" /\ w.existing = 0})

Attributed(i) == \E o \in DOMAIN observations :
                   /\ <<i, o>> \in provenance
                   /\ observations[o].scope = facts[i].scope

SessionOf(o) == {s \in sessions : /\ s.client = observations[o].client
                                  /\ s.session = observations[o].session}

\* No active fact is anonymous: some observation of its own scope supports it;
\* and evidence reaches a fact only from a session whose row, then and ever
\* after, was granted its scope, however the session id is used again
\* (_register_session, _attach_provenance).
EvidenceAuthorized ==
  /\ \A i \in FactIds : Active(facts[i]) => Attributed(i)
  /\ \A p \in provenance :
       /\ SessionOf(p[2]) # {}
       /\ \A s \in SessionOf(p[2]) : facts[p[1]].scope \in s.scopes

\* The evidence of an erased fact stays redacted, whatever is written later.
ErasedEvidenceRedacted ==
  \A p \in provenance :
    facts[p[1]].kind = "erased" => observations[p[2]].redacted

\* History is append-only: no fact disappears or becomes active again, a
\* successor is never rewritten, and content changes only by erasure.
HistoryAppendOnly ==
  [][/\ Len(facts') >= Len(facts)
     /\ \A i \in FactIds :
          /\ ~Active(facts[i]) => ~Active(facts'[i])
          /\ facts[i].superseded_by # 0
               => facts'[i].superseded_by = facts[i].superseded_by
          /\ facts'[i].content # facts[i].content
               => facts'[i].kind = "erased"]_vars

\* Automation does not replace protected truth: outside a conflict a fact is
\* superseded only by a write of at least its authority and, if it carries a
\* human correction, only by a human one (_supersession_policy).  The merge of
\* near duplicates compares nothing but trust (_merge_near_duplicate).
SupersessionReviewed ==
  [][\A i \in FactIds :
       ( /\ facts[i].superseded_by = 0 /\ facts'[i].superseded_by # 0
         /\ facts[i].conflict_group = 0 ) =>
         \E w \in log' \ log :
           \/ /\ facts[i].authority <= w.request.authority
              /\ facts[i].protected => Human(w.request)
           \/ w.outcome = "near_dedup" /\ facts[i].trust <= w.request.trust]_vars
=============================================================================
