---------------------------- MODULE ProviderFacts ----------------------------
(***************************************************************************)
(* The facts of a version 0 database and the processes that write them:    *)
(* the agent, whose turn and background threads go through EnfoldProvider, *)
(* and an MCP server on the same file.  A write is a search for duplicates *)
(* and for the fact it updates, an insert and a supersession, each a       *)
(* transaction of its own, under cross_process_write_lock.                 *)
(*                                                                         *)
(* A content stands for its text; which texts the gates take for a         *)
(* restatement or an update of which others is given by two relations that *)
(* are neither symmetric nor transitive.                                   *)
(***************************************************************************)
EXTENDS Naturals, FiniteSets

CONSTANTS
  Content,      \* contents of facts
  Insight,      \* contents of insights
  Category,     \* categories, the one of insights among them
  Restating,    \* pairs of texts the near-duplicate gate equates
  Updating,     \* pairs of texts of which the first is a value update of the second
  Limit,        \* what a search of the gate returns at most
  McpOps,       \* the tools the MCP server offers, {"add", "supersede"} or less
  Faults,       \* whether searches and supersessions may fail
  MaxFacts,     \* bound on the rows ever inserted
  MaxOps        \* bound on the operations started

ASSUME FactsAssumption ==
  /\ IsFiniteSet(Content) /\ IsFiniteSet(Insight) /\ Content \cap Insight = {}
  /\ IsFiniteSet(Category) /\ "insight" \in Category /\ Limit \in Nat
  /\ McpOps \subseteq {"add", "supersede"} /\ Faults \in BOOLEAN
  /\ MaxFacts \in Nat /\ MaxOps \in Nat

Id == 1..MaxFacts
Thread == {"turn", "worker", "mcp"}
Process == {"agent", "mcp"}
ProcessOf == [t \in Thread |-> IF t = "mcp" THEN "mcp" ELSE "agent"]

VARIABLES
  facts,    \* [Id -> row of facts]
  thread,   \* [Thread -> the operation it is in]
  held,     \* [Process -> _held_by_path has an entry]
  mutex,    \* [Process -> thread that waits for the file with _held_lock]
  flock,    \* thread whose file handle has the lock
  gated,    \* history: only gated writes so far, each alone in its process
  ops       \* operations started

vars == <<facts, thread, held, mutex, flock, gated, ops>>
locks == <<held, mutex, flock>>

\* status: invalid_at is NULL ("active") or not, or the row was removed;
\* by: superseded_by; cites: the source_facts tag of an insight; passed: a
\* history of what the gate of its writer let pass.
NoFact == [content |-> "none", category |-> "none", status |-> "free", by |-> 0,
           cites |-> {}, passed |-> {}]
\* todo: contents still to insert; target: the fact the content updates;
\* new: the id it got; cites: sources of an insight.
Idle == [pc |-> "idle", op |-> "none", todo |-> {}, content |-> "none",
         category |-> "none", target |-> 0, new |-> 0, cites |-> {}, passed |-> {},
         nested |-> FALSE]

Stored(f) == facts[f].status \in {"active", "invalid"}
Active(f) == facts[f].status = "active"
\* The pcs between the entry of the write lock and its exit.
Inside(t) == thread[t].pc \in {"gate", "check", "add", "link", "cascade", "exit"}

\* The type invariant; only one row has a content, and the handle with the
\* file lock belongs to a process that knows it, until it lets go.
TypeOK ==
  /\ \A f \in Id :
       /\ facts[f].status \in {"free", "active", "invalid", "gone"}
       /\ facts[f].by \in 0..MaxFacts /\ facts[f].cites \subseteq Id
       /\ (Stored(f) => facts[f].content \in Content \cup Insight /\ facts[f].category \in Category)
       /\ \A g \in Id : Stored(f) /\ Stored(g) /\ facts[f].content = facts[g].content => f = g
  /\ \A t \in Thread :
       /\ thread[t].pc \in {"idle", "llm", "enter", "flock", "gate", "check", "add",
                            "link", "cascade", "exit", "unlock"}
       /\ (thread[t].pc = "flock" <=> mutex[ProcessOf[t]] = t)
  /\ flock \in Thread \cup {"free"}
  /\ (flock # "free" => /\ ~thread[flock].nested
                        /\ (Inside(flock) => held[ProcessOf[flock]]))
  /\ gated \in BOOLEAN /\ ops \in 0..MaxOps

Init ==
  /\ facts = [f \in Id |-> NoFact]
  /\ thread = [t \in Thread |-> Idle]
  /\ held = [p \in Process |-> FALSE] /\ mutex = [p \in Process |-> "free"]
  /\ flock = "free" /\ gated = TRUE /\ ops = 0

-----------------------------------------------------------------------------
(* The rows. *)

\* The text gates.
Restates(c, d) == <<c, d>> \in Restating
Updates(c, d) == <<c, d>> \in Updating
Related(c, d) == Restates(c, d) \/ Updates(c, d)

\* The hybrid search of the gate leaves out superseded facts and those of
\* other categories.  Which of the rest it returns is left open: their text
\* must match, their trust reach min_trust and their score be among the best;
\* a search that fails finds nothing.
Candidates(ks) == {f \in Id : Active(f) /\ facts[f].category \in ks}
Search(ks) == {K \in SUBSET Candidates(ks) : Cardinality(K) <= Limit}

Duplicates(c, K) == {f \in K : Restates(c, facts[f].content)}
\* The value updates among the results; the first one in their order, which
\* is open, is the target.
UpdateTargets(c, L) == {f \in L : Updates(c, facts[f].content)}
Targets(c, L) == IF UpdateTargets(c, L) = {} THEN {0} ELSE UpdateTargets(c, L)

\* The row with a content, superseded or not.
RowsOf(c) == {f \in Id : Stored(f) /\ facts[f].content = c}
Fresh == {f \in Id : facts[f].status = "free" /\ \A g \in Id : g < f => facts[g].status # "free"}

\* Mutant: the content is not UNIQUE.
AddFactTwice(row, f) ==
  /\ f \in Fresh
  /\ facts' = [facts EXCEPT ![f] = row]
\* The parent's add_fact, whose UNIQUE content makes it return the old row.
AddFact(row, f) ==
  \/ f \in RowsOf(row.content) /\ UNCHANGED facts
  \/ /\ RowsOf(row.content) = {} /\ f \in Fresh
     /\ facts' = [facts EXCEPT ![f] = row]

\* Mutant: a superseded fact is superseded again.
SupersededAgain(old, new) ==
  [facts EXCEPT ![old] = IF Stored(old) THEN [@ EXCEPT !.status = "invalid", !.by = new] ELSE @]
\* supersede, also inlined in _supersede_with_rowcount.
Superseded(old, new) ==
  [facts EXCEPT ![old] = IF Active(old) THEN [@ EXCEPT !.status = "invalid", !.by = new] ELSE @]

\* invalidate_insights_citing
Uncited(old) ==
  [f \in Id |-> IF Active(f) /\ old \in facts[f].cites
                THEN [facts[f] EXCEPT !.status = "invalid"] ELSE facts[f]]

-----------------------------------------------------------------------------
(* Starting an operation. *)

Begin(t, r) ==
  /\ thread[t] = Idle /\ ops < MaxOps
  /\ ops' = ops + 1 /\ thread' = [thread EXCEPT ![t] = r]
  /\ UNCHANGED <<facts, locks>>

\* fact_store add, memory_add
StartAdd(t, c) ==
  /\ t = "mcp" => "add" \in McpOps
  /\ t # "worker"
  /\ Begin(t, [Idle EXCEPT !.pc = "enter", !.op = "add", !.todo = {c}])
  /\ UNCHANGED gated
\* on_memory_write
StartMirror(c) ==
  /\ Begin("turn", [Idle EXCEPT !.pc = "enter", !.op = "mirror", !.content = c])
  /\ gated' = FALSE
\* memory_supersede
StartSupersede(old, c) ==
  /\ "supersede" \in McpOps
  /\ Begin("mcp", [Idle EXCEPT !.pc = "enter", !.op = "supersede", !.content = c,
                               !.target = old])
  /\ gated' = FALSE
\* insert_facts for what the worker extracted
StartBatch(cs) ==
  /\ cs # {}
  /\ Begin("worker", [Idle EXCEPT !.pc = "enter", !.op = "batch", !.todo = cs])
  /\ UNCHANGED gated
\* run_reflection selects a cluster of active facts.
StartReflection(cluster) ==
  /\ Cardinality(cluster) >= 2
  /\ \A f \in cluster : Active(f) /\ facts[f].category # "insight"
  /\ Begin("worker", [Idle EXCEPT !.pc = "llm", !.op = "insight", !.cites = cluster])
  /\ UNCHANGED gated

\* The model cites some of the facts; the insight is dropped when one is no
\* longer active or when the search returns an insight that it restates.
Reflect ==
  /\ thread["worker"].pc = "llm"
  /\ \/ thread' = [thread EXCEPT !["worker"] = Idle]
     \/ \E c \in Insight, cited \in SUBSET thread["worker"].cites \ {{}} :
          /\ \A f \in cited : Active(f)
          /\ thread' = [thread EXCEPT !["worker"].pc = "enter", !["worker"].content = c,
                                      !["worker"].cites = cited]
  /\ UNCHANGED <<facts, locks, gated, ops>>

\* The parent's update and remove take no lock.
UpdateFact(f, c, k) ==
  /\ thread["turn"] = Idle /\ ops < MaxOps /\ Stored(f) /\ RowsOf(c) \subseteq {f}
  /\ facts' = [facts EXCEPT ![f].content = c, ![f].category = k]
  /\ gated' = FALSE /\ ops' = ops + 1
  /\ UNCHANGED <<thread, locks>>
RemoveFact(f) ==
  /\ thread["turn"] = Idle /\ ops < MaxOps /\ Stored(f)
  /\ facts' = [facts EXCEPT ![f] = [NoFact EXCEPT !.status = "gone"]]
  /\ ops' = ops + 1
  /\ UNCHANGED <<thread, locks, gated>>

-----------------------------------------------------------------------------
(* cross_process_write_lock *)

First(op) == CASE op \in {"add", "batch"} -> "gate"
               [] op = "supersede" -> "check"
               [] OTHER -> "add"

\* Under _held_lock: the entry of the process makes any of its threads
\* nested, whichever thread made it.
Enter(t) ==
  LET p == ProcessOf[t] IN
  /\ thread[t].pc = "enter" /\ mutex[p] = "free"
  /\ IF held[p]
       THEN /\ thread' = [thread EXCEPT ![t].pc = First(thread[t].op), ![t].nested = TRUE]
            /\ gated' = FALSE /\ UNCHANGED mutex
       ELSE /\ thread' = [thread EXCEPT ![t].pc = "flock"]
            /\ mutex' = [mutex EXCEPT ![p] = t] /\ UNCHANGED gated
  /\ UNCHANGED <<facts, held, flock, ops>>

\* Mutant: the file is not locked, only the process is marked.
FlockAnyway(t) ==
  LET p == ProcessOf[t] IN
  /\ thread[t].pc = "flock"
  /\ flock' = t /\ held' = [held EXCEPT ![p] = TRUE] /\ mutex' = [mutex EXCEPT ![p] = "free"]
  /\ thread' = [thread EXCEPT ![t].pc = First(thread[t].op)]
  /\ UNCHANGED <<facts, gated, ops>>
\* The first thread waits for the file with _held_lock.
Flock(t) ==
  LET p == ProcessOf[t] IN
  /\ thread[t].pc = "flock" /\ flock = "free"
  /\ flock' = t /\ held' = [held EXCEPT ![p] = TRUE] /\ mutex' = [mutex EXCEPT ![p] = "free"]
  /\ thread' = [thread EXCEPT ![t].pc = First(thread[t].op)]
  /\ UNCHANGED <<facts, gated, ops>>

\* A nested thread only counts down, or raises when the entry is gone; the
\* first one drops the entry, whoever is still inside ...
Exit(t) ==
  LET p == ProcessOf[t] IN
  /\ thread[t].pc = "exit" /\ mutex[p] = "free"
  /\ IF thread[t].nested
       THEN thread' = [thread EXCEPT ![t] = Idle] /\ UNCHANGED held
       ELSE /\ thread' = [thread EXCEPT ![t] = [Idle EXCEPT !.pc = "unlock"]]
            /\ held' = [held EXCEPT ![p] = FALSE]
  /\ UNCHANGED <<facts, mutex, flock, gated, ops>>
\* Mutant: the handle is kept open.
UnlockKept(t) ==
  /\ thread[t].pc = "unlock"
  /\ thread' = [thread EXCEPT ![t] = Idle]
  /\ UNCHANGED <<facts, held, mutex, flock, gated, ops>>
\* ... and unlocks its file.
Unlock(t) ==
  /\ thread[t].pc = "unlock"
  /\ flock' = "free" /\ thread' = [thread EXCEPT ![t] = Idle]
  /\ UNCHANGED <<facts, held, mutex, gated, ops>>

-----------------------------------------------------------------------------
(* The steps under the lock. *)

\* _deferred_bank_rebuild keeps the store lock of the agent over a batch.
StoreFree(t) == t = "turn" =>
  ~(thread["worker"].op = "batch" /\ thread["worker"].pc \in {"gate", "add", "link", "cascade"})

\* The next content of a batch, or out.
Advance(t) ==
  LET rest == thread[t].todo \ {thread[t].content} IN
  thread' = [thread EXCEPT ![t] = [Idle EXCEPT !.pc = IF rest = {} THEN "exit" ELSE "gate",
                                     !.op = thread[t].op, !.todo = rest, !.nested = thread[t].nested]]

\* _find_near_duplicate; a batch also skips what any row holds already.
Skips(t, c, K) == Duplicates(c, K) # {} \/ (thread[t].op = "batch" /\ RowsOf(c) # {})

\* The categories a write to category k searches: fact_store add may name none.
Scopes(t, k) == IF t = "turn" THEN {{k}, Category} ELSE {{k}}

\* History: the active facts that content c restates or updates and that its
\* writer leaves alone, because no search returned them or because another
\* result came before them.
Passed(c, K, L, target) ==
  {f \in Id : /\ Active(f)
              /\ \/ Restates(c, facts[f].content) /\ f \notin K
                 \/ Updates(c, facts[f].content) /\ (f \notin L \/ target \notin {0, f})}

\* The duplicates in one search, then _find_update_target in another.
Gate(t) ==
  /\ thread[t].pc = "gate" /\ StoreFree(t)
  /\ \E c \in thread[t].todo, k \in Category :
     \E ks \in Scopes(t, k) : \E K \in Search(ks) : \E L \in Search(ks) :
       \/ /\ Skips(t, c, K)
          /\ thread' = [thread EXCEPT ![t].todo = @ \ {c},
                          ![t].pc = IF thread[t].todo = {c} THEN "exit" ELSE "gate"]
       \/ /\ ~Skips(t, c, K)
          /\ \E f \in Targets(c, L) :
               thread' = [thread EXCEPT ![t].pc = "add", ![t].content = c, ![t].category = k,
                            ![t].target = f, ![t].passed = Passed(c, K, L, f)]
  /\ UNCHANGED <<facts, locks, gated, ops>>

\* _active_fact_exists
Check(t) ==
  /\ thread[t].pc = "check"
  /\ thread' = [thread EXCEPT ![t].pc = IF Active(thread[t].target) THEN "add" ELSE "exit"]
  /\ UNCHANGED <<facts, locks, gated, ops>>

\* The row that is to be added; mirrored and superseding ones bring a category.
Filed(t) == CASE thread[t].op = "insight" -> {"insight"}
              [] thread[t].op \in {"add", "batch"} -> {thread[t].category}
              [] OTHER -> Category
NewRow(t, k) ==
  [content |-> thread[t].content, category |-> k, status |-> "active", by |-> 0,
   cites |-> IF thread[t].op = "insight" THEN thread[t].cites ELSE {},
   passed |-> thread[t].passed]

\* A batch does not link a row that another process added since the gate;
\* only memory_supersede links a fact to itself.
Add(t) ==
  /\ thread[t].pc = "add" /\ StoreFree(t)
  /\ \E f \in Id, k \in Filed(t) :
       /\ AddFact(NewRow(t, k), f)
       /\ LET link == CASE thread[t].op = "supersede" -> TRUE
                        [] thread[t].op = "batch" -> thread[t].target # 0 /\ facts' # facts
                        [] OTHER -> thread[t].target \notin {0, f}
          IN IF link THEN thread' = [thread EXCEPT ![t].pc = "link", ![t].new = f]
                     ELSE Advance(t)
  /\ UNCHANGED <<locks, gated, ops>>

\* _supersede_fact swallows an error and leaves both rows active.
Link(t) ==
  /\ thread[t].pc = "link" /\ StoreFree(t)
  /\ \/ /\ facts' = Superseded(thread[t].target, thread[t].new)
        /\ IF Active(thread[t].target)
             THEN thread' = [thread EXCEPT ![t].pc = "cascade"] ELSE Advance(t)
        /\ UNCHANGED gated
     \/ /\ Faults /\ Advance(t)
        /\ gated' = FALSE /\ UNCHANGED facts
  /\ UNCHANGED <<locks, ops>>

\* The supersession is committed by then, and stays if this fails.
Cascade(t) ==
  /\ thread[t].pc = "cascade" /\ StoreFree(t)
  /\ facts' = Uncited(thread[t].target) \/ (Faults /\ UNCHANGED facts)
  /\ Advance(t)
  /\ UNCHANGED <<locks, gated, ops>>

\* A process dies; the system releases its file lock.
Crash(p) ==
  /\ \E t \in Thread : ProcessOf[t] = p /\ thread[t] # Idle
  /\ thread' = [t \in Thread |-> IF ProcessOf[t] = p THEN Idle ELSE thread[t]]
  /\ held' = [held EXCEPT ![p] = FALSE] /\ mutex' = [mutex EXCEPT ![p] = "free"]
  /\ flock' = IF flock # "free" /\ ProcessOf[flock] = p THEN "free" ELSE flock
  /\ gated' = FALSE
  /\ UNCHANGED <<facts, ops>>

Step(t) ==
  \/ Enter(t) \/ Flock(t) \/ Exit(t) \/ Unlock(t)
  \/ Gate(t) \/ Check(t) \/ Add(t) \/ Link(t) \/ Cascade(t)

Next ==
  \/ \E c \in Content :
       \/ \E t \in Thread : StartAdd(t, c)
       \/ StartMirror(c)
       \/ \E f \in Id : StartSupersede(f, c) \/ \E k \in Category : UpdateFact(f, c, k)
  \/ \E cs \in SUBSET Content : StartBatch(cs)
  \/ \E fs \in SUBSET Id : StartReflection(fs)
  \/ Reflect
  \/ \E f \in Id : RemoveFact(f)
  \/ \E t \in Thread : Step(t)
  \/ \E p \in Process : Crash(p)

\* Every thread is scheduled, the model answers, and the system grants the
\* file lock to those who wait for it.
Fairness ==
  /\ WF_vars(Reflect)
  /\ \A t \in Thread : WF_vars(Step(t)) /\ SF_vars(Flock(t))

Spec == Init /\ [][Next]_vars
FairSpec == Spec /\ Fairness

-----------------------------------------------------------------------------
(* Properties. *)

\* An active fact whose content came from a conversation or an agent.
Found(f) == Active(f) /\ facts[f].content \in Content

\* A fact is superseded once: it never becomes active again, and its link to
\* the fact that replaced it does not change, however many writers chose it
\* as their target (supersede, _supersede_with_rowcount).
SupersededOnce ==
  [][\A f \in Id : facts[f].status = "invalid" /\ facts'[f].status # "gone" =>
       facts'[f].status = "invalid" /\ facts'[f].by = facts[f].by]_vars

\* While all writes go through the gate, and no thread enters as nested, a
\* fact that restates or updates an older one is active beside it only if the
\* searches of its own writer did not return the older one, or returned
\* another update before it, or if the writer is about to retire it: what the
\* gate saw is still all there is when the row is inserted, whichever
\* processes write (_handle_fact_store_add_locked, insert_facts, memory_add).
GateNotRaced ==
  gated => \A f, g \in Id :
    f < g /\ Active(f) /\ Found(g)
      /\ Related(facts[g].content, facts[f].content) =>
      \/ f \in facts[g].passed
      \/ \E t \in Thread : thread[t].pc = "link" /\ thread[t].target = f /\ thread[t].new = g

\* Every operation ends, whoever else holds, waits for or drops the lock
\* (cross_process_write_lock).
WritersLeave == \A t \in Thread : thread[t] # Idle ~> thread[t] = Idle

\* No facts are superseded only by each other: what was superseded leads to a
\* fact that is still active, or was removed, so the value that was written
\* last is never lost (memory_add: a value update "supersedes the prior fact
\* rather than leaving both live").
CurrentValueKept ==
  \A fs \in SUBSET Id \ {{}} : \E f \in fs : facts[f].by \notin fs
=============================================================================
