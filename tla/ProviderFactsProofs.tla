------------------------ MODULE ProviderFactsProofs ------------------------
(***************************************************************************)
(* Machine-checked theorems about the writers of a version 0 database: the *)
(* locks, the life of a superseded fact, and that nothing comes between    *)
(* the searches of the gate and the insert.                                *)
(***************************************************************************)
EXTENDS ProviderFacts, TLAPS

-----------------------------------------------------------------------------
(* The inductive invariant                                                 *)

Text == Content \cup Insight
Fact == [content: Text \cup {"none"}, category: Category \cup {"none"},
         status: {"free", "active", "invalid", "gone"},
         by: 0..MaxFacts, cites: SUBSET Id, passed: SUBSET Id]
Op == [pc: {"idle", "llm", "enter", "flock", "gate", "check", "add",
            "link", "cascade", "exit", "unlock"},
       op: {"none", "add", "mirror", "supersede", "batch", "insight"},
       todo: SUBSET Content, content: Text \cup {"none"}, category: Category \cup {"none"},
       target: 0..MaxFacts, new: 0..MaxFacts, cites: SUBSET Id, passed: SUBSET Id,
       nested: BOOLEAN]

\* The pcs inside the lock, of an operation.
Within == {"gate", "check", "add", "link", "cascade", "exit"}

\* What an operation has chosen by the time it needs it.
OpInv(r) ==
  /\ r \in Op
  /\ r.pc \notin Within => ~r.nested
  /\ r.op = "none" => r.pc \in {"idle", "unlock"}
  /\ r.op \notin {"add", "batch"} => r.todo = {} /\ r.pc # "gate"
  /\ r.op \in {"mirror", "supersede"} /\ r.pc # "exit" => r.content \in Content
  /\ r.op \in {"add", "batch"} /\ r.pc \in {"add", "link", "cascade"} => r.content \in Content
  /\ r.op \in {"add", "batch"} /\ r.pc = "add" => r.category \in Category
  /\ r.op = "insight" /\ r.pc \notin {"llm", "exit"} => r.content \in Insight
  /\ r.pc = "check" => r.op = "supersede"
  /\ r.pc = "llm" => r.op = "insight"
  /\ r.pc \in {"check", "link", "cascade"} => r.target \in Id
  /\ r.op = "supersede" /\ r.pc # "exit" => r.target \in Id
  /\ r.pc = "link" => r.new \in Id

\* The file lock is held by the thread that entered first and by no other.
LockInv(t) ==
  /\ thread[t].pc = "flock" <=> mutex[ProcessOf[t]] = t
  /\ flock = t <=> thread[t].pc = "unlock" \/ (Inside(t) /\ ~thread[t].nested)
  /\ flock = t /\ Inside(t) => held[ProcessOf[t]]

\* Only one row has a content (UNIQUE).
UniqueContent ==
  \A f, g \in Id : Stored(f) /\ Stored(g) /\ facts[f].content = facts[g].content => f = g

\* Ids are given out in order.
InOrder == \A f, g \in Id : f < g /\ facts[f].status = "free" => facts[g].status = "free"

\* While all writes are gated nobody is nested, so that whoever adds a content
\* still knows every active fact it is related to: its target and those it
\* passed.
Known(r) ==
  \A g \in Id : Active(g) /\ Related(r.content, facts[g].content) => g \in r.passed \/ g = r.target
GatedInv ==
  gated => \A t \in Thread :
    /\ ~thread[t].nested /\ thread[t].op \notin {"mirror", "supersede"}
    /\ thread[t].pc = "add" /\ thread[t].op # "insight" => Known(thread[t])

TypeInv ==
  /\ facts \in [Id -> Fact] /\ UniqueContent /\ InOrder
  /\ thread \in [Thread -> Op] /\ \A t \in Thread : OpInv(thread[t])
  /\ held \in [Process -> BOOLEAN] /\ mutex \in [Process -> Thread \cup {"free"}]
  /\ flock \in Thread \cup {"free"} /\ gated \in BOOLEAN /\ ops \in 0..MaxOps
  /\ \A f \in Id : Stored(f) => facts[f].content \in Text /\ facts[f].category \in Category

IInv ==
  /\ TypeInv /\ (\A t \in Thread : LockInv(t))
  /\ GatedInv /\ GateNotRaced
-----------------------------------------------------------------------------
(* The rows                                                                *)

\* Superseded facts stay as they are, unless they are removed.
Life ==
  \A f \in Id : facts[f].status = "invalid" /\ facts'[f].status # "gone" =>
    facts'[f].status = "invalid" /\ facts'[f].by = facts[f].by

\* The rows after a step.
FactsFollow ==
  /\ facts' \in [Id -> Fact] /\ UniqueContent' /\ InOrder' /\ Life
  /\ \A f \in Id : facts'[f].status \in {"active", "invalid"} =>
       facts'[f].content \in Text /\ facts'[f].category \in Category

\* No fact becomes active, and the active ones stay as they are.
Shrinks == \A f \in Id : Active(f)' => facts'[f] = facts[f]

LEMMA FactsSame ==
  ASSUME TypeInv, facts' = facts
  PROVE  FactsFollow /\ Shrinks
  BY DEF TypeInv, FactsFollow, Shrinks, UniqueContent, InOrder, Life, Stored, Active

\* A step after which every row is as before or no longer active.
LEMMA FactsRetired ==
  ASSUME TypeInv, facts' \in [Id -> Fact],
         \A f \in Id :
           \/ facts'[f] = facts[f]
           \/ facts'[f].status = "gone" /\ facts[f].status # "free"
           \/ /\ facts[f].status = "active" /\ facts'[f].status = "invalid"
              /\ facts'[f].content = facts[f].content /\ facts'[f].category = facts[f].category
  PROVE  FactsFollow /\ Shrinks
  <1>1. \A f \in Id : Stored(f)' => /\ Stored(f) /\ facts'[f].content = facts[f].content
                                   /\ facts'[f].category = facts[f].category
    BY DEF Stored
  <1>2. UniqueContent'
    BY <1>1 DEF TypeInv, UniqueContent
  <1>3. \A f \in Id : facts'[f].status \in {"active", "invalid"} =>
          facts'[f].content \in Text /\ facts'[f].category \in Category
    BY <1>1 DEF TypeInv, Stored
  <1>4. InOrder'
    <2>1. \A f \in Id : facts'[f].status = "free" <=> facts[f].status = "free"
      OBVIOUS
    <2> QED BY <2>1 DEF TypeInv, InOrder
  <1>5. Life
    BY DEF Life
  <1>6. Shrinks
    BY DEF Shrinks, Active
  <1> QED BY <1>2, <1>3, <1>4, <1>5, <1>6 DEF FactsFollow

LEMMA SupersededFollow ==
  ASSUME TypeInv, NEW old \in Id, NEW new \in 0..MaxFacts, facts' = Superseded(old, new)
  PROVE  /\ FactsFollow /\ Shrinks /\ facts'[old].status # "active"
         /\ ~Active(old) => facts' = facts
  <1>1. PICK row : row = facts[old] /\ row \in Fact
    BY DEF TypeInv
  <1>2. CASE Active(old)
    <2>1. PICK z : z = [row EXCEPT !.status = "invalid", !.by = new]
      OBVIOUS
    <2>2. /\ z \in Fact /\ z.status = "invalid" /\ z.content = row.content
          /\ z.category = row.category
      BY <1>1, <2>1 DEF Fact
    <2>3. facts' = [facts EXCEPT ![old] = z]
      BY <1>1, <1>2, <2>1 DEF Superseded
    <2>4. /\ facts' \in [Id -> Fact] /\ facts'[old] = z
          /\ \A f \in Id : f # old => facts'[f] = facts[f]
      BY <2>2, <2>3 DEF TypeInv
    <2> QED BY <1>1, <1>2, <2>2, <2>4, FactsRetired DEF Active
  <1>3. CASE ~Active(old)
    <2>1. facts' = facts
      BY <1>3 DEF Superseded, TypeInv
    <2> QED BY <1>3, <2>1, FactsSame DEF Active
  <1> QED BY <1>2, <1>3

LEMMA UncitedFollow ==
  ASSUME TypeInv, NEW old, facts' = Uncited(old)
  PROVE  FactsFollow /\ Shrinks
  <1>1. ASSUME NEW f \in Id
        PROVE  /\ facts'[f] \in Fact
               /\ \/ facts'[f] = facts[f]
                  \/ /\ facts[f].status = "active" /\ facts'[f].status = "invalid"
                     /\ facts'[f].content = facts[f].content
                     /\ facts'[f].category = facts[f].category
    <2>1. PICK row : row = facts[f] /\ row \in Fact
      BY DEF TypeInv
    <2>2. PICK z : z = [row EXCEPT !.status = "invalid"]
      OBVIOUS
    <2>3. /\ z \in Fact /\ z.status = "invalid" /\ z.content = row.content
          /\ z.category = row.category
      BY <2>1, <2>2 DEF Fact
    <2>4. facts'[f] = facts[f] \/ (row.status = "active" /\ facts'[f] = z)
      BY <2>1, <2>2 DEF Uncited, Active
    <2> QED BY <2>1, <2>3, <2>4
  <1>2. facts' = [f \in Id |-> facts'[f]]
    BY DEF Uncited
  <1>3. facts' \in [Id -> Fact]
    BY <1>1, <1>2
  <1> QED BY <1>1, <1>3, FactsRetired

\* add_fact: the row of the content, or a new one.
LEMMA AddFactFollow ==
  ASSUME TypeInv, NEW z \in Fact, z.status = "active", z.content \in Text, z.category \in Category,
         NEW f \in Id, AddFact(z, f)
  PROVE  /\ FactsFollow
         /\ \/ facts' = facts
            \/ /\ facts'[f] = z /\ \A g \in Id : g # f => facts'[g] = facts[g]
               /\ \A g \in Id : g > f => facts[g].status = "free"
               /\ facts[f].status = "free"
  <1>1. CASE UNCHANGED facts
    BY <1>1, FactsSame
  <1>2. CASE RowsOf(z.content) = {} /\ f \in Fresh /\ facts' = [facts EXCEPT ![f] = z]
    <2>1. /\ facts' \in [Id -> Fact] /\ facts'[f] = z /\ facts[f].status = "free"
          /\ \A g \in Id : g # f => facts'[g] = facts[g]
          /\ \A g \in Id : g < f => facts[g].status # "free"
      BY <1>2 DEF TypeInv, Fresh
    <2>2. \A g \in Id : g > f => facts[g].status = "free"
      BY <2>1 DEF TypeInv, InOrder, Id
    <2>3. \A g \in Id : Stored(g) => facts[g].content # z.content
      BY <1>2 DEF RowsOf
    <2>4. UniqueContent'
      BY <2>1, <2>3 DEF TypeInv, UniqueContent, Stored
    <2>5. InOrder'
      <3> SUFFICES ASSUME NEW g \in Id, NEW h \in Id, g < h, facts'[g].status = "free"
                   PROVE  facts'[h].status = "free"
        BY DEF InOrder
      <3>1. g # f /\ facts[g].status = "free" /\ ~(g < f)
        BY <2>1
      <3>2. g > f /\ h # f /\ facts[h].status = "free"
        BY <3>1, <2>2 DEF TypeInv, InOrder, Id
      <3> QED BY <2>1, <3>2
    <2>6. \A g \in Id : facts'[g].status \in {"active", "invalid"} =>
            facts'[g].content \in Text /\ facts'[g].category \in Category
      BY <2>1 DEF TypeInv, Stored
    <2>7. Life
      BY <2>1 DEF Life
    <2> QED BY <2>1, <2>2, <2>4, <2>5, <2>6, <2>7 DEF FactsFollow
  <1> QED BY <1>1, <1>2 DEF AddFact

LEMMA UpdateFollow ==
  ASSUME TypeInv, NEW f \in Id, NEW c \in Content, NEW k \in Category, UpdateFact(f, c, k)
  PROVE  FactsFollow
  <1>1. PICK row, z : row = facts[f] /\ z = [row EXCEPT !.content = c, !.category = k]
    OBVIOUS
  <1>2. /\ z \in Fact /\ z.content = c /\ z.category = k /\ z.status = row.status
        /\ z.by = row.by
    <2>1. row \in Fact /\ c \in Text \cup {"none"}
      BY <1>1 DEF TypeInv, Text
    <2> QED BY <1>1, <2>1 DEF Fact
  <1>3. /\ facts' \in [Id -> Fact] /\ facts'[f] = z /\ \A g \in Id : g # f => facts'[g] = facts[g]
    BY <1>1, <1>2 DEF TypeInv, UpdateFact
  <1>4. \A g \in Id : Stored(g) /\ facts[g].content = c => g = f
    BY DEF UpdateFact, RowsOf
  <1>5. UniqueContent'
    <2>1. \A g \in Id : Stored(g)' => Stored(g) /\ facts'[g].content = IF g = f THEN c ELSE facts[g].content
      BY <1>1, <1>2, <1>3 DEF Stored
    <2> SUFFICES ASSUME NEW g \in Id, NEW h \in Id, Stored(g)', Stored(h)',
                        facts'[g].content = facts'[h].content
                 PROVE  g = h
      BY DEF UniqueContent
    <2>2. CASE g # f /\ h # f
      BY <2>1, <2>2 DEF TypeInv, UniqueContent
    <2>3. CASE g = f \/ h = f
      BY <1>4, <2>1, <2>3
    <2> QED BY <2>2, <2>3
  <1>6. \A g \in Id : facts'[g].status \in {"active", "invalid"} =>
          facts'[g].content \in Text /\ facts'[g].category \in Category
    BY <1>1, <1>2, <1>3 DEF TypeInv, Stored, Text
  <1>7. Life
    BY <1>1, <1>2, <1>3 DEF Life
  <1>8. InOrder'
    <2>1. \A g \in Id : facts'[g].status = facts[g].status
      BY <1>1, <1>2, <1>3
    <2> QED BY <2>1 DEF TypeInv, InOrder
  <1> QED BY <1>3, <1>5, <1>6, <1>7, <1>8 DEF FactsFollow

LEMMA RemoveFollow ==
  ASSUME TypeInv, NEW f \in Id, RemoveFact(f)
  PROVE  FactsFollow /\ Shrinks
  <1>1. PICK z : z = [NoFact EXCEPT !.status = "gone"]
    OBVIOUS
  <1>2. z \in Fact /\ z.status = "gone"
    BY <1>1, FactsAssumption DEF NoFact, Fact
  <1>3. /\ facts' \in [Id -> Fact] /\ facts'[f] = z /\ \A g \in Id : g # f => facts'[g] = facts[g]
    BY <1>1, <1>2 DEF TypeInv, RemoveFact
  <1>4. facts[f].status # "free"
    BY DEF RemoveFact, Stored
  <1> QED BY <1>2, <1>3, <1>4, FactsRetired
-----------------------------------------------------------------------------
(* The operations                                                          *)

LEMMA IdleSound ==
  /\ Idle \in Op /\ OpInv(Idle) /\ Idle.pc = "idle" /\ Idle.op = "none" /\ Idle.nested = FALSE
  /\ Idle.todo = {} /\ Idle.target = 0 /\ Idle.content = "none"
  <1>1. 0 \in 0..MaxFacts
    BY FactsAssumption
  <1>2. /\ Idle \in Op /\ Idle.pc = "idle" /\ Idle.op = "none" /\ Idle.nested = FALSE
        /\ Idle.todo = {} /\ Idle.target = 0 /\ Idle.content = "none"
    BY <1>1 DEF Idle, Op
  <1> QED BY <1>2 DEF OpInv, Within

LEMMA ThreadPut ==
  ASSUME TypeInv, NEW t \in Thread, NEW r, OpInv(r), thread' = [thread EXCEPT ![t] = r]
  PROVE  /\ thread' \in [Thread -> Op] /\ thread'[t] = r
         /\ \A u \in Thread : u # t => thread'[u] = thread[u]
         /\ \A u \in Thread : OpInv(thread'[u])
  <1>1. r \in Op
    BY DEF OpInv
  <1> QED BY <1>1 DEF TypeInv

\* What the start of an operation r of thread t does.
Starts(t, r) ==
  /\ thread[t] = Idle /\ thread' = [thread EXCEPT ![t] = r]
  /\ OpInv(r) /\ r.pc \in {"enter", "llm"}
  /\ gated' => gated /\ r.op \notin {"mirror", "supersede"}
  /\ gated' \in BOOLEAN /\ ops' \in 0..MaxOps /\ UNCHANGED <<facts, locks>>

LEMMA BeginStarts ==
  ASSUME TypeInv, NEW t \in Thread, NEW r, OpInv(r), r.pc \in {"enter", "llm"}, Begin(t, r),
         gated' \in BOOLEAN, gated' => gated /\ r.op \notin {"mirror", "supersede"}
  PROVE  Starts(t, r)
  <1>1. ops' \in 0..MaxOps
    BY FactsAssumption DEF Begin, TypeInv
  <1> QED BY <1>1 DEF Begin, Starts

LEMMA StartAddStarts ==
  ASSUME TypeInv, NEW t \in Thread, NEW c \in Content, StartAdd(t, c)
  PROVE  \E r : Starts(t, r)
  <1>1. PICK i, r : i = Idle /\ r = [i EXCEPT !.pc = "enter", !.op = "add", !.todo = {c}]
    OBVIOUS
  <1>2. i \in Op /\ i.nested = FALSE /\ i.content = "none" /\ i.target = 0
    BY <1>1, IdleSound
  <1>3. r \in Op /\ r.pc = "enter" /\ r.op = "add" /\ r.nested = FALSE
    BY <1>1, <1>2 DEF Op
  <1>4. OpInv(r)
    BY <1>3 DEF OpInv, Within
  <1>5. Begin(t, r) /\ gated' = gated
    BY <1>1 DEF StartAdd
  <1> QED BY <1>3, <1>4, <1>5, BeginStarts DEF TypeInv

LEMMA StartMirrorStarts ==
  ASSUME TypeInv, NEW c \in Content, StartMirror(c)
  PROVE  \E r : Starts("turn", r)
  <1>1. PICK i, r : i = Idle /\ r = [i EXCEPT !.pc = "enter", !.op = "mirror", !.content = c]
    OBVIOUS
  <1>2. i \in Op /\ i.nested = FALSE /\ i.todo = {} /\ i.target = 0 /\ c \in Text \cup {"none"}
    BY <1>1, IdleSound DEF Text
  <1>3. /\ r \in Op /\ r.pc = "enter" /\ r.op = "mirror" /\ r.nested = FALSE /\ r.todo = {}
        /\ r.content = c
    <2>1. PICK q : q = [i EXCEPT !.pc = "enter", !.op = "mirror"]
      OBVIOUS
    <2>2. q \in Op /\ q.pc = "enter" /\ q.op = "mirror" /\ q.nested = i.nested /\ q.todo = i.todo
      <3>1. PICK w : w = [i EXCEPT !.pc = "enter"]
        OBVIOUS
      <3>2. w \in Op /\ w.pc = "enter" /\ w.nested = i.nested /\ w.todo = i.todo
        BY <1>2, <3>1 DEF Op
      <3>3. q = [w EXCEPT !.op = "mirror"]
        BY <1>2, <2>1, <3>1 DEF Op
      <3> QED BY <3>2, <3>3 DEF Op
    <2>3. r = [q EXCEPT !.content = c]
      BY <1>1, <1>2, <2>1 DEF Op
    <2>4. r \in Op /\ r.pc = q.pc /\ r.op = q.op /\ r.nested = q.nested /\ r.todo = q.todo
          /\ r.content = c
      BY SMTT(30), <1>2, <2>2, <2>3 DEF Op
    <2> QED BY <1>2, <2>2, <2>4
  <1>4. OpInv(r)
    BY <1>3 DEF OpInv, Within
  <1>5. Begin("turn", r) /\ gated' = FALSE /\ "turn" \in Thread
    BY <1>1 DEF StartMirror, Thread
  <1> QED BY <1>3, <1>4, <1>5, BeginStarts

LEMMA StartSupersedeStarts ==
  ASSUME TypeInv, NEW old \in Id, NEW c \in Content, StartSupersede(old, c)
  PROVE  \E r : Starts("mcp", r)
  <1>1. PICK i, r : i = Idle /\ r = [i EXCEPT !.pc = "enter", !.op = "supersede", !.content = c,
                                              !.target = old]
    OBVIOUS
  <1>2. i \in Op /\ i.nested = FALSE /\ i.todo = {} /\ c \in Text \cup {"none"} /\ old \in 0..MaxFacts
    BY <1>1, IdleSound, FactsAssumption DEF Text, Id
  <1>3. /\ r \in Op /\ r.pc = "enter" /\ r.op = "supersede" /\ r.nested = FALSE /\ r.todo = {}
        /\ r.content = c /\ r.target = old
    BY <1>1, <1>2 DEF Op
  <1>4. OpInv(r)
    BY <1>3 DEF OpInv, Within
  <1>5. Begin("mcp", r) /\ gated' = FALSE /\ "mcp" \in Thread
    BY <1>1 DEF StartSupersede, Thread
  <1> QED BY <1>3, <1>4, <1>5, BeginStarts

LEMMA StartBatchStarts ==
  ASSUME TypeInv, NEW cs \in SUBSET Content, StartBatch(cs)
  PROVE  \E r : Starts("worker", r)
  <1>1. PICK i, r : i = Idle /\ r = [i EXCEPT !.pc = "enter", !.op = "batch", !.todo = cs]
    OBVIOUS
  <1>2. i \in Op /\ i.nested = FALSE
    BY <1>1, IdleSound
  <1>3. r \in Op /\ r.pc = "enter" /\ r.op = "batch" /\ r.nested = FALSE
    BY <1>1, <1>2 DEF Op
  <1>4. OpInv(r)
    BY <1>3 DEF OpInv, Within
  <1>5. Begin("worker", r) /\ gated' = gated /\ "worker" \in Thread
    BY <1>1 DEF StartBatch, Thread
  <1> QED BY <1>3, <1>4, <1>5, BeginStarts DEF TypeInv

LEMMA StartReflectionStarts ==
  ASSUME TypeInv, NEW cluster \in SUBSET Id, StartReflection(cluster)
  PROVE  \E r : Starts("worker", r)
  <1>1. PICK i, r : i = Idle /\ r = [i EXCEPT !.pc = "llm", !.op = "insight", !.cites = cluster]
    OBVIOUS
  <1>2. i \in Op /\ i.nested = FALSE /\ i.todo = {}
    BY <1>1, IdleSound
  <1>3. r \in Op /\ r.pc = "llm" /\ r.op = "insight" /\ r.nested = FALSE /\ r.todo = {}
    BY <1>1, <1>2 DEF Op
  <1>4. OpInv(r)
    BY <1>3 DEF OpInv, Within
  <1>5. Begin("worker", r) /\ gated' = gated /\ "worker" \in Thread
    BY <1>1 DEF StartReflection, Thread
  <1> QED BY <1>3, <1>4, <1>5, BeginStarts DEF TypeInv

\* What a step of thread t inside the lock does: it stays inside.
Works(t, r) ==
  /\ thread[t].pc \in Within /\ thread' = [thread EXCEPT ![t] = r]
  /\ OpInv(r) /\ r.pc \in Within /\ r.nested = thread[t].nested /\ r.op = thread[t].op
  /\ gated' \in BOOLEAN /\ (gated' => gated) /\ UNCHANGED <<locks, ops>>

LEMMA AdvanceIs ==
  ASSUME TypeInv, NEW t \in Thread, thread[t].pc \in {"add", "link", "cascade"}, Advance(t)
  PROVE  \E r : /\ thread' = [thread EXCEPT ![t] = r] /\ OpInv(r) /\ r.pc \in {"gate", "exit"}
                /\ r.nested = thread[t].nested /\ r.op = thread[t].op
  <1>1. PICK o, i : o = thread[t] /\ o \in Op /\ OpInv(o) /\ i = Idle /\ i \in Op
    BY IdleSound DEF TypeInv
  <1>2. PICK rest, pc : /\ rest = o.todo \ {o.content}
                        /\ pc = IF rest = {} THEN "exit" ELSE "gate"
    OBVIOUS
  <1>3. PICK r : r = [i EXCEPT !.pc = pc, !.op = o.op, !.todo = rest, !.nested = o.nested]
    OBVIOUS
  <1>4. /\ pc \in {"gate", "exit"} /\ o.op \in {"add", "mirror", "supersede", "batch", "insight"}
        /\ rest \in SUBSET Content /\ o.nested \in BOOLEAN
    BY <1>1, <1>2 DEF OpInv, Op
  <1>5. /\ r \in Op /\ r.pc = pc /\ r.op = o.op /\ r.nested = o.nested /\ r.todo = rest
    <2>1. PICK w, q : /\ w = [i EXCEPT !.pc = pc]
                      /\ q = [i EXCEPT !.pc = pc, !.op = o.op, !.todo = rest]
      OBVIOUS
    <2>2. q \in Op /\ q.pc = pc /\ q.op = o.op /\ q.todo = rest
      <3>1. w \in Op /\ w.pc = pc
        BY <1>1, <1>4, <2>1 DEF Op
      <3>2. q = [w EXCEPT !.op = o.op, !.todo = rest]
        BY <1>1, <2>1 DEF Op
      <3> QED BY <1>4, <3>1, <3>2 DEF Op
    <2>3. r = [q EXCEPT !.nested = o.nested]
      BY <1>1, <1>3, <2>1 DEF Op
    <2>4. r \in Op
      BY <1>4, <2>2, <2>3 DEF Op
    <2>5. r.pc = q.pc /\ r.op = q.op /\ r.todo = q.todo /\ r.nested = o.nested
      BY <2>2, <2>3, Zenon DEF Op
    <2> QED BY <2>2, <2>4, <2>5
  <1>6. o.op \notin {"add", "batch"} => pc = "exit" /\ rest = {}
    BY <1>1, <1>2 DEF OpInv
  <1>7. OpInv(r)
    BY <1>4, <1>5, <1>6 DEF OpInv, Within
  <1>8. thread' = [thread EXCEPT ![t] = r]
    BY <1>1, <1>2, <1>3 DEF Advance
  <1> QED BY <1>1, <1>4, <1>5, <1>7, <1>8

\* What Gate does: a content that it lets through is known.
Gated(t, r) ==
  /\ Works(t, r) /\ r.op \in {"add", "batch"} /\ FactsFollow /\ Shrinks
  /\ r.pc = "add" => Known(r)

\* A content that is not skipped passes the facts that it is related to, or
\* has one of them as its target.
LEMMA GateKnows ==
  ASSUME TypeInv, NEW t \in Thread, NEW c, NEW K, NEW L \in SUBSET Id, ~Skips(t, c, K),
         NEW f \in Targets(c, L)
  PROVE  \A g \in Id : Active(g) /\ Related(c, facts[g].content) => g \in Passed(c, K, L, f) \/ g = f
  <1> SUFFICES ASSUME NEW g \in Id, Active(g), Related(c, facts[g].content),
                      g \notin Passed(c, K, L, f)
               PROVE  g = f
    OBVIOUS
  <1>1. /\ Restates(c, facts[g].content) => g \in K
        /\ Updates(c, facts[g].content) => g \in L /\ f \in {0, g}
    BY DEF Passed
  <1>2. ~Restates(c, facts[g].content)
    BY <1>1 DEF Skips, Duplicates
  <1>3. Updates(c, facts[g].content) /\ g \in L /\ f \in {0, g}
    BY <1>1, <1>2 DEF Related
  <1>4. ASSUME f = 0 PROVE FALSE
    <2>1. g \in UpdateTargets(c, L)
      BY <1>3 DEF UpdateTargets
    <2>2. 0 \in UpdateTargets(c, L)
      BY <1>4, <2>1 DEF Targets
    <2>3. 0 \in Id
      BY <2>2 DEF UpdateTargets
    <2> QED BY <2>3, FactsAssumption DEF Id
  <1> QED BY <1>3, <1>4

LEMMA GateWorks ==
  ASSUME TypeInv, NEW t \in Thread, Gate(t)
  PROVE  \E r : Gated(t, r)
  <1>1. PICK o : o = thread[t] /\ o \in Op /\ OpInv(o) /\ o.pc = "gate"
    BY DEF TypeInv, Gate
  <1>2. o.op \in {"add", "batch"}
    BY <1>1 DEF OpInv
  <1>3. UNCHANGED <<locks, ops>> /\ facts' = facts /\ gated' \in BOOLEAN /\ (gated' => gated)
    BY DEF Gate, TypeInv
  <1>4. FactsFollow /\ Shrinks
    BY <1>3, FactsSame
  <1>5. ASSUME NEW c \in o.todo, NEW pc \in {"exit", "gate"},
               thread' = [thread EXCEPT ![t].todo = @ \ {c}, ![t].pc = pc]
        PROVE  \E r : Gated(t, r)
    <2>1. PICK r : r = [o EXCEPT !.todo = o.todo \ {c}, !.pc = pc]
      OBVIOUS
    <2>2. /\ r \in Op /\ r.pc = pc /\ r.op = o.op /\ r.nested = o.nested
      BY <1>1, <2>1 DEF Op
    <2>3. OpInv(r)
      BY <1>1, <1>2, <2>2 DEF OpInv, Within
    <2>4. thread' = [thread EXCEPT ![t] = r]
      BY <1>1, <1>5, <2>1
    <2>5. Works(t, r)
      BY <1>1, <1>2, <1>3, <2>2, <2>3, <2>4 DEF Works, Within
    <2>6. Gated(t, r)
      BY <1>2, <1>4, <2>2, <2>5 DEF Gated
    <2> QED BY <2>6
  <1>6. ASSUME NEW c \in o.todo, NEW k \in Category, NEW K \in SUBSET Id, NEW L \in SUBSET Id,
               ~Skips(t, c, K), NEW f \in Targets(c, L),
               thread' = [thread EXCEPT ![t].pc = "add", ![t].content = c, ![t].category = k,
                            ![t].target = f, ![t].passed = Passed(c, K, L, f)]
        PROVE  \E r : Gated(t, r)
    <2>1. PICK passed, r : /\ passed = Passed(c, K, L, f)
                           /\ r = [o EXCEPT !.pc = "add", !.content = c, !.category = k,
                                            !.target = f, !.passed = passed]
      OBVIOUS
    <2>2. c \in Content /\ c \in Text \cup {"none"} /\ passed \in SUBSET Id /\ f \in 0..MaxFacts
      <3>1. c \in Content /\ c \in Text \cup {"none"}
        BY <1>1 DEF Op, Text
      <3>2. passed \in SUBSET Id
        BY <2>1 DEF Passed
      <3>3. f \in {0} \cup Id
        BY DEF Targets, UpdateTargets
      <3> QED BY <3>1, <3>2, <3>3, FactsAssumption DEF Id
    <2>3. /\ r \in Op /\ r.pc = "add" /\ r.op = o.op /\ r.nested = o.nested /\ r.content = c
          /\ r.category = k /\ r.target = f /\ r.passed = passed
      BY <1>1, <2>1, <2>2 DEF Op
    <2>4. OpInv(r)
      BY <1>1, <1>2, <2>2, <2>3 DEF OpInv, Within
    <2>5. thread' = [thread EXCEPT ![t] = r]
      BY <1>1, <1>6, <2>1
    <2>6. Works(t, r)
      BY <1>1, <1>3, <2>3, <2>4, <2>5 DEF Works, Within
    <2>7. Known(r)
      BY <1>6, <2>1, <2>3, GateKnows DEF Known
    <2>8. Gated(t, r)
      BY <1>2, <1>4, <2>3, <2>6, <2>7 DEF Gated
    <2> QED BY <2>8
  <1>7. PICK c \in o.todo, k \in Category :
          \E ks \in Scopes(t, k) : \E K \in Search(ks) : \E L \in Search(ks) :
            \/ /\ Skips(t, c, K)
               /\ thread' = [thread EXCEPT ![t].todo = @ \ {c},
                               ![t].pc = IF thread[t].todo = {c} THEN "exit" ELSE "gate"]
            \/ /\ ~Skips(t, c, K)
               /\ \E f \in Targets(c, L) :
                    thread' = [thread EXCEPT ![t].pc = "add", ![t].content = c, ![t].category = k,
                                 ![t].target = f, ![t].passed = Passed(c, K, L, f)]
    BY <1>1, Zenon DEF Gate
  <1>8. \A ks : \A K \in Search(ks) : K \in SUBSET Id
    BY DEF Search, Candidates
  <1>9. PICK ks : \E K \in Search(ks) : \E L \in Search(ks) :
            \/ /\ Skips(t, c, K)
               /\ thread' = [thread EXCEPT ![t].todo = @ \ {c},
                               ![t].pc = IF thread[t].todo = {c} THEN "exit" ELSE "gate"]
            \/ /\ ~Skips(t, c, K)
               /\ \E f \in Targets(c, L) :
                    thread' = [thread EXCEPT ![t].pc = "add", ![t].content = c, ![t].category = k,
                                 ![t].target = f, ![t].passed = Passed(c, K, L, f)]
    BY <1>7, Zenon
  <1>10. PICK K \in Search(ks), L \in Search(ks) :
            \/ thread' = [thread EXCEPT ![t].todo = @ \ {c},
                            ![t].pc = IF thread[t].todo = {c} THEN "exit" ELSE "gate"]
            \/ /\ ~Skips(t, c, K)
               /\ \E f \in Targets(c, L) :
                    thread' = [thread EXCEPT ![t].pc = "add", ![t].content = c, ![t].category = k,
                                 ![t].target = f, ![t].passed = Passed(c, K, L, f)]
    BY <1>9, Zenon
  <1>11. CASE thread' = [thread EXCEPT ![t].todo = @ \ {c},
                           ![t].pc = IF thread[t].todo = {c} THEN "exit" ELSE "gate"]
    <2>1. PICK pc \in {"exit", "gate"} : pc = IF thread[t].todo = {c} THEN "exit" ELSE "gate"
      OBVIOUS
    <2> QED BY <1>5, <1>11, <2>1
  <1>12. ASSUME ~Skips(t, c, K), NEW f \in Targets(c, L),
                thread' = [thread EXCEPT ![t].pc = "add", ![t].content = c, ![t].category = k,
                             ![t].target = f, ![t].passed = Passed(c, K, L, f)]
         PROVE  \E r : Gated(t, r)
    BY <1>6, <1>8, <1>12
  <1> QED BY <1>10, <1>11, <1>12

LEMMA CheckWorks ==
  ASSUME TypeInv, NEW t \in Thread, Check(t)
  PROVE  \E r : Works(t, r) /\ FactsFollow /\ Shrinks
  <1>1. PICK o : o = thread[t] /\ o \in Op /\ OpInv(o) /\ o.pc = "check"
    BY DEF TypeInv, Check
  <1>2. PICK pc \in {"add", "exit"} : thread' = [thread EXCEPT ![t].pc = pc]
    BY DEF Check
  <1>3. PICK r : r = [o EXCEPT !.pc = pc]
    OBVIOUS
  <1>4. /\ r \in Op /\ r.pc = pc /\ r.op = o.op /\ r.nested = o.nested /\ r.content = o.content
        /\ r.target = o.target /\ r.todo = o.todo
    BY <1>1, <1>3 DEF Op
  <1>5. OpInv(r)
    BY <1>1, <1>4 DEF OpInv, Within
  <1>6. thread' = [thread EXCEPT ![t] = r]
    BY <1>1, <1>2, <1>3
  <1>7. UNCHANGED <<locks, ops>> /\ facts' = facts /\ gated' \in BOOLEAN /\ (gated' => gated)
    BY DEF Check, TypeInv
  <1> QED BY <1>1, <1>4, <1>5, <1>6, <1>7, FactsSame DEF Works, Within

LEMMA AdvanceWorks ==
  ASSUME TypeInv, NEW t \in Thread, thread[t].pc \in {"add", "link", "cascade"}, Advance(t),
         gated' \in BOOLEAN, gated' => gated, UNCHANGED <<locks, ops>>
  PROVE  \E r : Works(t, r) /\ r.pc \in {"gate", "exit"}
  <1>1. PICK r : /\ thread' = [thread EXCEPT ![t] = r] /\ OpInv(r) /\ r.pc \in {"gate", "exit"}
                 /\ r.nested = thread[t].nested /\ r.op = thread[t].op
    BY AdvanceIs
  <1> QED BY <1>1 DEF Works, Within

\* What Add does: the row of the content is there, and it is linked or not; a
\* new row is the last one.
Added(t, r, f) ==
  /\ Works(t, r) /\ FactsFollow
  /\ thread[t].pc = "add" /\ r.pc \in {"link", "gate", "exit"}
  /\ \/ facts' = facts
     \/ /\ facts'[f].status = "active" /\ facts'[f].content = thread[t].content
        /\ facts'[f].passed = thread[t].passed
        /\ facts[f].status = "free" /\ \A g \in Id : g # f => facts'[g] = facts[g]
        /\ \A g \in Id : g > f => facts[g].status = "free"
  /\ r.pc = "link" => r.new = f /\ r.target = thread[t].target
  /\ r.pc # "link" /\ thread[t].target # 0 => facts' = facts \/ f = thread[t].target

LEMMA AddWorks ==
  ASSUME TypeInv, NEW t \in Thread, Add(t)
  PROVE  \E r : \E f \in Id : Added(t, r, f)
  <1>1. PICK o : o = thread[t] /\ o \in Op /\ OpInv(o) /\ o.pc = "add"
    BY DEF TypeInv, Add
  <1>2. UNCHANGED <<locks, ops>> /\ gated' = gated /\ gated \in BOOLEAN
    BY DEF Add, TypeInv
  <1>3. PICK f \in Id, k \in Filed(t) :
          /\ AddFact(NewRow(t, k), f)
          /\ \/ /\ thread' = [thread EXCEPT ![t].pc = "link", ![t].new = f]
                /\ o.op = "supersede" \/ o.target # 0
             \/ Advance(t) /\ (o.target # 0 => facts' = facts \/ f = o.target)
    <2>1. PICK f \in Id, k \in Filed(t) :
            /\ AddFact(NewRow(t, k), f)
            /\ LET link == CASE o.op = "supersede" -> TRUE
                             [] o.op = "batch" -> o.target # 0 /\ facts' # facts
                             [] OTHER -> o.target \notin {0, f}
               IN IF link THEN thread' = [thread EXCEPT ![t].pc = "link", ![t].new = f]
                          ELSE Advance(t)
      BY <1>1 DEF Add
    <2>2. CASE o.op = "supersede"
      BY <2>1, <2>2
    <2>3. CASE o.op = "batch"
      BY <2>1, <2>3
    <2>4. CASE o.op \notin {"supersede", "batch"}
      BY <2>1, <2>4
    <2> QED BY <2>2, <2>3, <2>4
  <1>4. PICK z : z = NewRow(t, k)
    OBVIOUS
  <1>5. /\ z \in Fact /\ z.status = "active" /\ z.content = o.content /\ z.passed = o.passed
        /\ z.content \in Text /\ z.category \in Category
    <2>1. o.content \in Text /\ o.passed \in SUBSET Id
      BY <1>1 DEF OpInv, Op, Text
    <2>2. k \in Category
      <3>1. CASE o.op = "insight"
        BY <1>1, <3>1, FactsAssumption DEF Filed
      <3>2. CASE o.op \in {"add", "batch"}
        BY <1>1, <3>2 DEF Filed, OpInv
      <3>3. CASE o.op \notin {"add", "batch", "insight"}
        BY <1>1, <3>3 DEF Filed
      <3> QED BY <3>1, <3>2, <3>3
    <2>3. PICK cites : cites = IF o.op = "insight" THEN o.cites ELSE {}
      OBVIOUS
    <2>4. cites \in SUBSET Id /\ 0 \in 0..MaxFacts
      BY <1>1, <2>3, FactsAssumption DEF Op
    <2>5. z = [content |-> o.content, category |-> k, status |-> "active", by |-> 0,
               cites |-> cites, passed |-> o.passed]
      BY <1>1, <1>4, <2>3 DEF NewRow
    <2> QED BY <2>1, <2>2, <2>4, <2>5 DEF Fact
  <1>6. /\ FactsFollow
        /\ \/ facts' = facts
           \/ /\ facts'[f] = z /\ \A g \in Id : g # f => facts'[g] = facts[g]
              /\ \A g \in Id : g > f => facts[g].status = "free"
              /\ facts[f].status = "free"
    BY <1>3, <1>4, <1>5, AddFactFollow
  <1>7. /\ FactsFollow
        /\ \/ facts' = facts
           \/ /\ facts'[f].status = "active" /\ facts'[f].content = o.content
              /\ facts'[f].passed = o.passed
              /\ facts[f].status = "free" /\ \A g \in Id : g # f => facts'[g] = facts[g]
              /\ \A g \in Id : g > f => facts[g].status = "free"
    BY <1>5, <1>6
  <1>8. CASE /\ thread' = [thread EXCEPT ![t].pc = "link", ![t].new = f]
             /\ o.op = "supersede" \/ o.target # 0
    <2>1. PICK r : r = [o EXCEPT !.pc = "link", !.new = f]
      OBVIOUS
    <2>2. f \in 0..MaxFacts /\ (o.target # 0 => o.target \in Id)
      BY <1>1, FactsAssumption DEF Id, Op
    <2>3. /\ r \in Op /\ r.pc = "link" /\ r.op = o.op /\ r.nested = o.nested /\ r.new = f
          /\ r.content = o.content /\ r.target = o.target /\ r.todo = o.todo
      BY <1>1, <2>1, <2>2 DEF Op
    <2>4. OpInv(r)
      BY <1>1, <1>8, <2>2, <2>3 DEF OpInv, Within
    <2>5. thread' = [thread EXCEPT ![t] = r]
      BY <1>1, <1>8, <2>1
    <2>6. Works(t, r)
      BY <1>1, <1>2, <2>3, <2>4, <2>5 DEF Works, Within
    <2>7. Added(t, r, f)
      BY <1>1, <1>7, <2>3, <2>6 DEF Added
    <2> QED BY <2>7
  <1>9. CASE Advance(t) /\ (o.target # 0 => facts' = facts \/ f = o.target)
    <2>1. gated' \in BOOLEAN /\ (gated' => gated) /\ thread[t].pc \in {"add", "link", "cascade"}
      BY <1>1, <1>2
    <2>2. PICK r : Works(t, r) /\ r.pc \in {"gate", "exit"}
      BY <1>2, <1>9, <2>1, AdvanceWorks
    <2>3. Added(t, r, f)
      BY <1>1, <1>7, <1>9, <2>2 DEF Added
    <2> QED BY <2>3
  <1> QED BY <1>3, <1>8, <1>9

\* What Link does: a link that is made retires its target.
Linked(t, r) ==
  /\ Works(t, r) /\ r.pc \in {"cascade", "gate", "exit"} /\ FactsFollow /\ Shrinks
  /\ gated' => facts'[thread[t].target].status # "active"

LEMMA LinkWorks ==
  ASSUME TypeInv, NEW t \in Thread, Link(t)
  PROVE  \E r : Linked(t, r)
  <1>1. PICK o : o = thread[t] /\ o \in Op /\ OpInv(o) /\ o.pc = "link"
    BY DEF TypeInv, Link
  <1>2. UNCHANGED <<locks, ops>> /\ gated \in BOOLEAN /\ thread[t].pc \in {"add", "link", "cascade"}
    BY <1>1 DEF Link, TypeInv
  <1>3. o.target \in Id /\ o.new \in 0..MaxFacts
    BY <1>1 DEF OpInv, Op
  <1>4. CASE /\ facts' = Superseded(o.target, o.new)
             /\ IF Active(o.target) THEN thread' = [thread EXCEPT ![t].pc = "cascade"] ELSE Advance(t)
             /\ UNCHANGED gated
    <2>1. FactsFollow /\ Shrinks /\ facts'[o.target].status # "active"
      BY <1>3, <1>4, SupersededFollow
    <2>2. CASE Advance(t)
      <3>1. gated' \in BOOLEAN /\ (gated' => gated)
        BY <1>2, <1>4
      <3>2. PICK r : Works(t, r) /\ r.pc \in {"gate", "exit"}
        BY <1>2, <2>2, <3>1, AdvanceWorks
      <3> QED BY <1>1, <2>1, <3>2 DEF Linked
    <2>3. CASE thread' = [thread EXCEPT ![t].pc = "cascade"]
      <3>1. PICK r : r = [o EXCEPT !.pc = "cascade"]
        OBVIOUS
      <3>2. /\ r \in Op /\ r.pc = "cascade" /\ r.op = o.op /\ r.nested = o.nested
            /\ r.content = o.content /\ r.target = o.target /\ r.todo = o.todo
        BY <1>1, <3>1 DEF Op
      <3>3. OpInv(r)
        BY <1>1, <3>2 DEF OpInv, Within
      <3>4. thread' = [thread EXCEPT ![t] = r]
        BY <1>1, <2>3, <3>1
      <3>5. gated' \in BOOLEAN /\ (gated' => gated)
        BY <1>2, <1>4
      <3>6. Works(t, r)
        BY <1>1, <1>2, <3>2, <3>3, <3>4, <3>5 DEF Works, Within
      <3> QED BY <1>1, <2>1, <3>2, <3>6 DEF Linked
    <2> QED BY <1>4, <2>2, <2>3
  <1>5. CASE Advance(t) /\ gated' = FALSE /\ UNCHANGED facts
    <2>1. gated' \in BOOLEAN /\ (gated' => gated) /\ ~gated'
      BY <1>5
    <2>2. PICK r : Works(t, r) /\ r.pc \in {"gate", "exit"}
      BY <1>2, <1>5, <2>1, AdvanceWorks
    <2> QED BY <1>5, <2>1, <2>2, FactsSame DEF Linked
  <1> QED BY <1>1, <1>4, <1>5 DEF Link

LEMMA CascadeWorks ==
  ASSUME TypeInv, NEW t \in Thread, Cascade(t)
  PROVE  \E r : Works(t, r) /\ r.pc \in {"gate", "exit"} /\ FactsFollow /\ Shrinks
  <1>1. /\ UNCHANGED <<locks, ops>> /\ Advance(t) /\ thread[t].pc \in {"add", "link", "cascade"}
        /\ gated' \in BOOLEAN /\ (gated' => gated)
    BY DEF Cascade, TypeInv
  <1>2. PICK r : Works(t, r) /\ r.pc \in {"gate", "exit"}
    BY <1>1, AdvanceWorks
  <1>3. FactsFollow /\ Shrinks
    BY FactsSame, UncitedFollow DEF Cascade
  <1> QED BY <1>2, <1>3
-----------------------------------------------------------------------------
(* Types and locks                                                         *)

LEMMA TypeKept ==
  ASSUME TypeInv, NEW t \in Thread, NEW r, OpInv(r), thread' = [thread EXCEPT ![t] = r],
         FactsFollow, held' \in [Process -> BOOLEAN], mutex' \in [Process -> Thread \cup {"free"}],
         flock' \in Thread \cup {"free"}, gated' \in BOOLEAN, ops' \in 0..MaxOps
  PROVE  TypeInv'
  <1>1. thread' \in [Thread -> Op] /\ \A u \in Thread : OpInv(thread'[u])
    BY ThreadPut
  <1>2. (\A u \in Thread : OpInv(thread[u]))'
    BY <1>1 DEF OpInv
  <1>3. (\A f \in Id : Stored(f) => facts[f].content \in Text /\ facts[f].category \in Category)'
    BY DEF FactsFollow, Stored
  <1> QED BY <1>1, <1>2, <1>3 DEF TypeInv, FactsFollow

LEMMA ProcessType == ASSUME NEW t \in Thread PROVE ProcessOf[t] \in Process
  BY DEF ProcessOf, Process, Thread

\* A thread that moves inside the lock, or outside of it, leaves it alone.
LEMMA LocksKept ==
  ASSUME TypeInv, \A u \in Thread : LockInv(u), UNCHANGED locks,
         NEW t \in Thread, NEW r, OpInv(r), thread' = [thread EXCEPT ![t] = r],
         \/ thread[t].pc \in Within /\ r.pc \in Within /\ r.nested = thread[t].nested
         \/ thread[t].pc \in {"idle", "llm", "enter"} /\ r.pc \in {"idle", "llm", "enter"}
  PROVE  \A u \in Thread : LockInv(u)'
  <1>1. thread'[t] = r /\ \A u \in Thread : u # t => thread'[u] = thread[u]
    BY ThreadPut
  <1>2. held' = held /\ mutex' = mutex /\ flock' = flock
    BY DEF locks
  <1>3. \A u \in Thread : u # t => LockInv(u)'
    BY <1>1, <1>2 DEF LockInv, Inside
  <1>4. LockInv(t)'
    BY <1>1, <1>2 DEF LockInv, Inside, Within
  <1> QED BY <1>3, <1>4

-----------------------------------------------------------------------------
(* The gate                                                                *)

\* While every write is gated, one thread at a time is inside.
LEMMA OneInside ==
  ASSUME TypeInv, GatedInv, gated, \A u \in Thread : LockInv(u),
         NEW t \in Thread, NEW u \in Thread, thread[t].pc \in Within, thread[u].pc \in Within
  PROVE  t = u
  <1>1. ~thread[t].nested /\ ~thread[u].nested
    BY DEF GatedInv
  <1>2. flock = t /\ flock = u
    BY <1>1 DEF LockInv, Inside, Within
  <1> QED BY <1>2

\* A step that adds no fact: the pairs that are left are the ones that were
\* there, unless their link is made.
LEMMA GatedKept ==
  ASSUME TypeInv, GatedInv, GateNotRaced, gated' => gated, Shrinks,
         NEW t \in Thread, NEW r, OpInv(r), thread' = [thread EXCEPT ![t] = r],
         gated' => ~r.nested /\ r.op \notin {"mirror", "supersede"},
         gated' /\ r.pc = "add" /\ r.op # "insight" => Known(r),
         gated' /\ thread[t].pc = "link" => facts'[thread[t].target].status # "active"
  PROVE  GatedInv' /\ GateNotRaced'
  <1>1. thread'[t] = r /\ \A u \in Thread : u # t => thread'[u] = thread[u]
    BY ThreadPut
  <1>2. /\ \A f \in Id : Active(f)' => Active(f) /\ facts'[f] = facts[f]
        /\ \A f \in Id : Found(f)' => Found(f)
    BY DEF Shrinks, Active, Found
  <1>3. GatedInv'
    <2> SUFFICES ASSUME gated', NEW u \in Thread
                 PROVE  /\ ~thread'[u].nested /\ thread'[u].op \notin {"mirror", "supersede"}
                        /\ thread'[u].pc = "add" /\ thread'[u].op # "insight" =>
                             \A g \in Id : Active(g)' /\ Related(thread'[u].content, facts'[g].content)
                                             => g \in thread'[u].passed \/ g = thread'[u].target
      BY DEF GatedInv, Known, Related, Restates, Updates
    <2>1. CASE u = t
      BY <1>1, <1>2, <2>1 DEF Known
    <2>2. CASE u # t
      BY <1>1, <1>2, <2>2 DEF GatedInv, Known
    <2> QED BY <2>1, <2>2
  <1>4. GateNotRaced'
    <2> SUFFICES ASSUME gated', NEW f \in Id, NEW g \in Id, f < g, Active(f)', Found(g)',
                        Related(facts'[g].content, facts'[f].content), f \notin facts'[g].passed
                 PROVE  \E u \in Thread : /\ thread'[u].pc = "link"
                                          /\ thread'[u].target = f /\ thread'[u].new = g
      BY SMTT(30) DEF GateNotRaced, Related, Restates, Updates
    <2>1. /\ gated /\ Active(f) /\ Found(g) /\ Related(facts[g].content, facts[f].content)
          /\ f \notin facts[g].passed /\ facts'[f].status = "active"
      BY <1>2 DEF Found, Active
    <2>2. PICK u \in Thread : thread[u].pc = "link" /\ thread[u].target = f /\ thread[u].new = g
      BY ZenonT(60), <2>1 DEF GateNotRaced
    <2>3. u # t
      BY <2>1, <2>2
    <2> QED BY <1>1, <2>2, <2>3
  <1> QED BY <1>3, <1>4

-----------------------------------------------------------------------------
(* Every step keeps the invariant                                          *)

\* What every step is shown to do.
Kept == IInv' /\ Life

\* A step outside the lock.
LEMMA OutsideKeeps ==
  ASSUME IInv, NEW t \in Thread, NEW r, OpInv(r), thread' = [thread EXCEPT ![t] = r],
         thread[t].pc \in {"idle", "llm", "enter"}, r.pc \in {"idle", "llm", "enter"},
         UNCHANGED locks, FactsFollow, gated' \in BOOLEAN, ops' \in 0..MaxOps,
         gated' => gated /\ Shrinks /\ r.op \notin {"mirror", "supersede"}
  PROVE  Kept
  <1>1. TypeInv'
    <2>1. /\ held' \in [Process -> BOOLEAN] /\ mutex' \in [Process -> Thread \cup {"free"}]
          /\ flock' \in Thread \cup {"free"}
      BY DEF IInv, TypeInv, locks
    <2> QED BY <2>1, TypeKept DEF IInv
  <1>2. \A u \in Thread : LockInv(u)'
    BY LocksKept DEF IInv
  <1>3. ASSUME gated'
        PROVE  GatedInv' /\ GateNotRaced'
    <2>1. gated /\ Shrinks /\ r.op \notin {"mirror", "supersede"}
      BY <1>3
    <2>2. thread[t].pc # "link" /\ r.pc # "add" /\ ~r.nested
      BY DEF OpInv, Within
    <2> QED BY <2>1, <2>2, GatedKept DEF IInv
  <1>4. ASSUME ~gated'
        PROVE  GatedInv' /\ GateNotRaced'
    BY <1>4 DEF GatedInv, GateNotRaced
  <1> QED BY <1>1, <1>2, <1>3, <1>4 DEF Kept, IInv, FactsFollow

LEMMA StartsKeep ==
  ASSUME IInv, NEW t \in Thread, NEW r, Starts(t, r)
  PROVE  Kept
  <1>1. FactsFollow /\ Shrinks
    BY FactsSame DEF IInv, Starts
  <1>2. thread[t].pc = "idle"
    BY IdleSound DEF Starts
  <1>3. /\ OpInv(r) /\ thread' = [thread EXCEPT ![t] = r] /\ r.pc \in {"idle", "llm", "enter"}
        /\ UNCHANGED locks /\ gated' \in BOOLEAN /\ ops' \in 0..MaxOps
        /\ gated' => gated /\ r.op \notin {"mirror", "supersede"}
    BY DEF Starts
  <1> QED BY <1>1, <1>2, <1>3, OutsideKeeps

LEMMA ReflectKeeps ==
  ASSUME IInv, Reflect
  PROVE  Kept
  <1>1. PICK o : o = thread["worker"] /\ o \in Op /\ OpInv(o) /\ o.pc = "llm" /\ "worker" \in Thread
    BY DEF IInv, TypeInv, Reflect, Thread
  <1>2. /\ UNCHANGED locks /\ gated' = gated /\ gated \in BOOLEAN /\ ops' \in 0..MaxOps
        /\ facts' = facts
    BY DEF Reflect, IInv, TypeInv
  <1>3. FactsFollow /\ Shrinks
    BY <1>2, FactsSame DEF IInv
  <1>4. CASE thread' = [thread EXCEPT !["worker"] = Idle]
    <2>1. gated' \in BOOLEAN /\ (gated' => gated /\ Shrinks /\ Idle.op \notin {"mirror", "supersede"})
      BY <1>2, <1>3, IdleSound
    <2> QED BY <1>1, <1>2, <1>3, <1>4, <2>1, IdleSound, OutsideKeeps
  <1>5. ASSUME NEW c \in Insight, NEW cited \in SUBSET o.cites \ {{}},
               thread' = [thread EXCEPT !["worker"].pc = "enter", !["worker"].content = c,
                                        !["worker"].cites = cited]
        PROVE  Kept
    <2>1. PICK r : r = [o EXCEPT !.pc = "enter", !.content = c, !.cites = cited]
      OBVIOUS
    <2>2. c \in Text \cup {"none"} /\ cited \in SUBSET Id
      BY <1>1 DEF Op, Text
    <2>3. /\ r \in Op /\ r.pc = "enter" /\ r.op = o.op /\ r.nested = o.nested /\ r.content = c
          /\ r.target = o.target /\ r.todo = o.todo
      BY <1>1, <2>1, <2>2 DEF Op
    <2>4. o.op = "insight"
      BY <1>1 DEF OpInv
    <2>5. OpInv(r)
      BY <1>1, <2>3, <2>4 DEF OpInv, Within
    <2>6. thread' = [thread EXCEPT !["worker"] = r]
      BY <1>1, <1>5, <2>1
    <2>7. gated' \in BOOLEAN /\ (gated' => gated /\ Shrinks /\ r.op \notin {"mirror", "supersede"})
      BY <1>2, <1>3, <2>3, <2>4
    <2> QED BY <1>1, <1>2, <1>3, <2>3, <2>5, <2>6, <2>7, OutsideKeeps
  <1> QED BY <1>1, <1>4, <1>5 DEF Reflect

LEMMA RowStepKeeps ==
  ASSUME IInv, thread["turn"] = Idle, UNCHANGED <<thread, locks>>, ops < MaxOps, ops' = ops + 1,
         FactsFollow, gated' \in BOOLEAN, gated' => gated /\ Shrinks
  PROVE  Kept
  <1>1. thread' = [thread EXCEPT !["turn"] = Idle] /\ "turn" \in Thread
    BY DEF IInv, TypeInv, Thread
  <1>2. ops' \in 0..MaxOps
    BY FactsAssumption DEF IInv, TypeInv
  <1>3. gated' => gated /\ Shrinks /\ Idle.op \notin {"mirror", "supersede"}
    BY IdleSound
  <1> QED BY <1>1, <1>2, <1>3, IdleSound, OutsideKeeps

LEMMA UpdateKeeps ==
  ASSUME IInv, NEW f \in Id, NEW c \in Content, NEW k \in Category, UpdateFact(f, c, k)
  PROVE  Kept
  <1>1. FactsFollow
    BY UpdateFollow DEF IInv
  <1>2. gated' \in BOOLEAN /\ ~gated'
    BY DEF UpdateFact
  <1> QED BY <1>1, <1>2, RowStepKeeps DEF UpdateFact

LEMMA RemoveKeeps ==
  ASSUME IInv, NEW f \in Id, RemoveFact(f)
  PROVE  Kept
  <1>1. FactsFollow /\ Shrinks
    BY RemoveFollow DEF IInv
  <1>2. gated' \in BOOLEAN /\ (gated' => gated)
    BY DEF RemoveFact, IInv, TypeInv
  <1> QED BY <1>1, <1>2, RowStepKeeps DEF RemoveFact

\* Steps under the lock that add no fact.
LEMMA WorksKeep ==
  ASSUME IInv, NEW t \in Thread, NEW r, Works(t, r), FactsFollow, Shrinks,
         gated' /\ r.pc = "add" /\ r.op # "insight" => Known(r),
         gated' /\ thread[t].pc = "link" => facts'[thread[t].target].status # "active"
  PROVE  Kept
  <1>1. /\ UNCHANGED locks /\ OpInv(r) /\ thread' = [thread EXCEPT ![t] = r]
        /\ thread[t].pc \in Within /\ r.pc \in Within /\ r.nested = thread[t].nested
    BY DEF Works
  <1>2. TypeInv'
    <2>1. /\ held' \in [Process -> BOOLEAN] /\ mutex' \in [Process -> Thread \cup {"free"}]
          /\ flock' \in Thread \cup {"free"} /\ gated' \in BOOLEAN /\ ops' \in 0..MaxOps
      BY <1>1 DEF IInv, TypeInv, locks, Works
    <2> QED BY <1>1, <2>1, TypeKept DEF IInv
  <1>3. \A u \in Thread : LockInv(u)'
    BY <1>1, LocksKept DEF IInv
  <1>4. GatedInv' /\ GateNotRaced'
    <2>1. gated' => gated
      BY DEF Works
    <2>2. gated' => ~r.nested /\ r.op \notin {"mirror", "supersede"}
      BY <2>1 DEF IInv, GatedInv, Works
    <2> QED BY <1>1, <2>1, <2>2, GatedKept DEF IInv
  <1> QED BY <1>2, <1>3, <1>4 DEF Kept, IInv, FactsFollow

LEMMA GateKeeps ==
  ASSUME IInv, NEW t \in Thread, Gate(t)
  PROVE  Kept
  <1>1. PICK r : Gated(t, r)
    BY GateWorks DEF IInv
  <1>2. /\ Works(t, r) /\ FactsFollow /\ Shrinks /\ (r.pc = "add" => Known(r))
        /\ thread[t].pc # "link"
    BY <1>1 DEF Gated, Gate
  <1> QED BY <1>2, WorksKeep

LEMMA CheckKeeps ==
  ASSUME IInv, NEW t \in Thread, Check(t)
  PROVE  Kept
  <1>1. PICK r : Works(t, r) /\ FactsFollow /\ Shrinks
    BY CheckWorks DEF IInv
  <1>2. thread[t].pc = "check" /\ thread[t].op = "supersede"
    BY DEF Check, IInv, TypeInv, OpInv
  <1>3. ~gated'
    BY <1>1, <1>2 DEF IInv, GatedInv, Works
  <1> QED BY <1>1, <1>3, WorksKeep

LEMMA LinkKeeps ==
  ASSUME IInv, NEW t \in Thread, Link(t)
  PROVE  Kept
  <1>0. PICK r : Linked(t, r)
    BY LinkWorks DEF IInv
  <1>1. /\ Works(t, r) /\ r.pc \in {"cascade", "gate", "exit"} /\ FactsFollow /\ Shrinks
        /\ gated' => facts'[thread[t].target].status # "active"
    BY <1>0 DEF Linked
  <1>2. r.pc # "add"
    BY <1>1
  <1> QED BY <1>1, <1>2, WorksKeep

LEMMA CascadeKeeps ==
  ASSUME IInv, NEW t \in Thread, Cascade(t)
  PROVE  Kept
  <1>1. PICK r : Works(t, r) /\ r.pc \in {"gate", "exit"} /\ FactsFollow /\ Shrinks
    BY CascadeWorks DEF IInv
  <1>2. r.pc # "add" /\ thread[t].pc # "link"
    BY <1>1 DEF Cascade
  <1> QED BY <1>1, <1>2, WorksKeep

LEMMA AddKeeps ==
  ASSUME IInv, NEW t \in Thread, Add(t)
  PROVE  Kept
  <1>1. PICK r, f : f \in Id /\ Added(t, r, f)
    BY AddWorks DEF IInv
  <1>2. Works(t, r) /\ FactsFollow /\ r.pc # "add" /\ thread[t].pc = "add"
    BY <1>1 DEF Added
  <1>3. CASE Shrinks
    BY <1>2, <1>3, WorksKeep
  <1>4. CASE ~Shrinks
    <2>1. /\ facts'[f].status = "active" /\ facts'[f].content = thread[t].content
          /\ facts'[f].passed = thread[t].passed
          /\ facts[f].status = "free" /\ \A g \in Id : g # f => facts'[g] = facts[g]
          /\ \A g \in Id : g > f => facts[g].status = "free"
      BY <1>1, <1>4, FactsSame DEF Added, IInv
    <2>2. thread[t].content \in Content => thread[t].op # "insight"
      <3>1. thread[t].op = "insight" => thread[t].content \in Insight
        BY <1>2 DEF IInv, TypeInv, OpInv
      <3> QED BY <3>1, FactsAssumption
    <2>3. /\ UNCHANGED locks /\ OpInv(r) /\ thread' = [thread EXCEPT ![t] = r]
          /\ thread[t].pc \in Within /\ r.pc \in Within /\ r.nested = thread[t].nested
          /\ r.op = thread[t].op /\ (gated' => gated)
      BY <1>2 DEF Works
    <2>4. TypeInv'
      <3>1. /\ held' \in [Process -> BOOLEAN] /\ mutex' \in [Process -> Thread \cup {"free"}]
            /\ flock' \in Thread \cup {"free"} /\ gated' \in BOOLEAN /\ ops' \in 0..MaxOps
        BY <1>2 DEF IInv, TypeInv, locks, Works
      <3> QED BY <1>2, <2>3, <3>1, TypeKept DEF IInv
    <2>5. \A u \in Thread : LockInv(u)'
      BY <2>3, LocksKept DEF IInv
    <2>6. thread'[t] = r /\ \A u \in Thread : u # t => thread'[u] = thread[u]
      BY <2>3, ThreadPut DEF IInv
    <2>7. ASSUME gated, NEW u \in Thread, u # t
          PROVE  thread[u].pc \notin Within
      BY <2>3, <2>7, OneInside DEF IInv
    <2>8. GatedInv'
      <3> SUFFICES ASSUME gated', NEW u \in Thread
                   PROVE  /\ ~thread'[u].nested /\ thread'[u].op \notin {"mirror", "supersede"}
                          /\ thread'[u].pc # "add"
        BY DEF GatedInv
      <3>1. CASE u = t
        BY <1>2, <2>3, <2>6, <3>1 DEF IInv, GatedInv
      <3>2. CASE u # t
        BY <2>3, <2>6, <2>7, <3>2 DEF IInv, GatedInv, Within
      <3> QED BY <3>1, <3>2
    <2>9. GateNotRaced'
      <3> SUFFICES ASSUME gated', NEW g \in Id, NEW h \in Id, g < h, Active(g)', Found(h)',
                          Related(facts'[h].content, facts'[g].content), g \notin facts'[h].passed
                   PROVE  \E u \in Thread : /\ thread'[u].pc = "link"
                                            /\ thread'[u].target = g /\ thread'[u].new = h
        BY DEF GateNotRaced, Related, Restates, Updates
      <3>1. gated
        BY <2>3
      <3>2. g # f
        <4>1. facts'[h].status = "active" /\ h # g
          BY DEF Found, Active, Id
        <4> QED BY <2>1, <4>1 DEF Id
      <3>3. Active(g) /\ facts'[g] = facts[g]
        BY <2>1, <3>2 DEF Active
      <3>4. CASE h = f
        <4>1. thread[t].op # "insight" /\ g \notin thread[t].passed
              /\ Related(thread[t].content, facts[g].content)
          BY <2>1, <2>2, <3>3, <3>4 DEF Found
        <4>2. g = thread[t].target
          BY <1>2, <3>1, <3>3, <4>1 DEF IInv, GatedInv, Known
        <4>3. thread[t].target # 0 /\ facts' # facts
          BY <2>1, <4>2, FactsAssumption DEF Id
        <4>4. r.pc = "link" /\ r.target = g /\ r.new = f
          BY <1>1, <3>2, <4>2, <4>3 DEF Added
        <4> QED BY <2>6, <3>4, <4>4
      <3>5. ASSUME h # f
            PROVE  FALSE
        <4>1. Found(h) /\ facts'[h] = facts[h]
          BY <2>1, <3>5 DEF Found, Active
        <4>2. PICK u \in Thread : thread[u].pc = "link"
          BY <3>1, <3>3, <4>1 DEF IInv, GateNotRaced
        <4> QED BY <1>2, <2>7, <3>1, <4>2 DEF Within
      <3> QED BY <3>4, <3>5
    <2> QED BY <1>2, <2>4, <2>5, <2>8, <2>9 DEF Kept, IInv, FactsFollow
  <1> QED BY <1>3, <1>4

-----------------------------------------------------------------------------
(* The steps that take and release the lock                                *)

LEMMA FirstSound ==
  ASSUME NEW o, OpInv(o), o.pc \in {"enter", "flock"}, NEW r \in Op, r.pc = First(o.op),
         r.op = o.op, r.content = o.content, r.target = o.target, r.todo = o.todo
  PROVE  OpInv(r) /\ r.pc \in Within /\ (r.pc = "add" => r.op \in {"mirror", "insight"})
  <1>1. o.op \in {"add", "mirror", "supersede", "batch", "insight"}
    BY DEF OpInv, Op
  <1>2. CASE o.op \in {"add", "batch"}
    <2>1. r.pc = "gate"
      BY <1>2 DEF First
    <2> QED BY <1>2, <2>1 DEF OpInv, Within
  <1>3. CASE o.op = "supersede"
    <2>1. r.pc = "check"
      BY <1>3 DEF First
    <2> QED BY <1>3, <2>1 DEF OpInv, Within
  <1>4. CASE o.op \in {"mirror", "insight"}
    <2>1. r.pc = "add"
      BY <1>4 DEF First
    <2> QED BY <1>4, <2>1 DEF OpInv, Within
  <1> QED BY <1>1, <1>2, <1>3, <1>4

\* A step of the lock itself: the facts are left alone.
LEMMA LockStepKeeps ==
  ASSUME IInv, NEW t \in Thread, NEW r, OpInv(r), thread' = [thread EXCEPT ![t] = r],
         held' \in [Process -> BOOLEAN], mutex' \in [Process -> Thread \cup {"free"}],
         flock' \in Thread \cup {"free"}, \A u \in Thread : LockInv(u)',
         UNCHANGED <<facts, ops>>, gated' \in BOOLEAN,
         gated' => gated /\ ~r.nested /\ r.op \notin {"mirror", "supersede"},
         r.pc = "add" => r.op \in {"mirror", "insight"}, thread[t].pc # "link"
  PROVE  Kept
  <1>1. FactsFollow /\ Shrinks /\ ops' \in 0..MaxOps
    BY FactsSame DEF IInv, TypeInv
  <1>2. TypeInv'
    BY <1>1, TypeKept DEF IInv
  <1>3. ASSUME gated'
        PROVE  GatedInv' /\ GateNotRaced'
    <2>1. gated /\ ~r.nested /\ r.op \notin {"mirror", "supersede"} /\ ~(r.pc = "add" /\ r.op # "insight")
      BY <1>3
    <2> QED BY <1>1, <2>1, GatedKept DEF IInv
  <1>4. ASSUME ~gated'
        PROVE  GatedInv' /\ GateNotRaced'
    BY <1>4 DEF GatedInv, GateNotRaced
  <1> QED BY <1>1, <1>2, <1>3, <1>4 DEF Kept, IInv, FactsFollow

LEMMA EnterKeeps ==
  ASSUME IInv, NEW t \in Thread, Enter(t)
  PROVE  Kept
  <1>1. PICK o, p : /\ o = thread[t] /\ o \in Op /\ OpInv(o) /\ o.pc = "enter"
                    /\ p = ProcessOf[t] /\ p \in Process
    BY ProcessType DEF IInv, TypeInv, Enter
  <1>2. /\ mutex[p] = "free" /\ UNCHANGED <<facts, held, flock, ops>> /\ ~o.nested
        /\ held \in [Process -> BOOLEAN] /\ mutex \in [Process -> Thread \cup {"free"}]
        /\ flock \in Thread \cup {"free"} /\ gated \in BOOLEAN
    BY <1>1 DEF Enter, IInv, TypeInv, OpInv, Within
  <1>3. CASE /\ thread' = [thread EXCEPT ![t].pc = First(thread[t].op), ![t].nested = TRUE]
             /\ gated' = FALSE /\ UNCHANGED mutex
    <2>1. PICK pc : pc = First(o.op)
      OBVIOUS
    <2>2. pc \in {"gate", "check", "add"}
      BY <2>1 DEF First
    <2>3. PICK r : r = [o EXCEPT !.pc = pc, !.nested = TRUE]
      OBVIOUS
    <2>4. /\ r \in Op /\ r.pc = pc /\ r.op = o.op /\ r.nested = TRUE /\ r.content = o.content
          /\ r.target = o.target /\ r.todo = o.todo
      BY <1>1, <2>2, <2>3 DEF Op
    <2>5. OpInv(r) /\ r.pc \in Within /\ (r.pc = "add" => r.op \in {"mirror", "insight"})
      BY <1>1, <2>1, <2>4, FirstSound
    <2>6. thread' = [thread EXCEPT ![t] = r]
      BY <1>1, <1>3, <2>1, <2>3
    <2>7. thread'[t] = r /\ \A u \in Thread : u # t => thread'[u] = thread[u]
      BY <2>5, <2>6, ThreadPut DEF IInv
    <2>8. ASSUME NEW u \in Thread, u # t
          PROVE  LockInv(u)'
      <3>1. /\ LockInv(u) /\ thread'[u] = thread[u]
            /\ held' = held /\ mutex' = mutex /\ flock' = flock
        BY <1>2, <1>3, <2>7, <2>8 DEF IInv
      <3> QED BY <3>1 DEF LockInv, Inside
    <2>9. LockInv(t)'
      <3>1. flock # t
        BY <1>1 DEF IInv, LockInv, Inside
      <3> QED BY <1>1, <1>2, <1>3, <2>2, <2>4, <2>7, <3>1 DEF LockInv, Inside, Thread
    <2>10. gated' \in BOOLEAN /\ ~gated'
      BY <1>3
    <2>11. \A u \in Thread : LockInv(u)'
      BY <2>8, <2>9
    <2> QED BY <1>1, <1>2, <1>3, <2>5, <2>6, <2>10, <2>11, LockStepKeeps
  <1>4. CASE /\ thread' = [thread EXCEPT ![t].pc = "flock"]
             /\ mutex' = [mutex EXCEPT ![p] = t] /\ UNCHANGED gated
    <2>3. PICK r : r = [o EXCEPT !.pc = "flock"]
      OBVIOUS
    <2>4. /\ r \in Op /\ r.pc = "flock" /\ r.op = o.op /\ r.nested = o.nested /\ r.content = o.content
          /\ r.target = o.target /\ r.todo = o.todo
      BY <1>1, <2>3 DEF Op
    <2>5. OpInv(r)
      BY <1>1, <2>4 DEF OpInv, Within
    <2>6. thread' = [thread EXCEPT ![t] = r]
      BY <1>1, <1>4, <2>3
    <2>7. thread'[t] = r /\ \A u \in Thread : u # t => thread'[u] = thread[u]
      BY <2>5, <2>6, ThreadPut DEF IInv
    <2>8. /\ mutex' \in [Process -> Thread \cup {"free"}] /\ mutex'[p] = t
          /\ \A q \in Process : q # p => mutex'[q] = mutex[q]
      BY <1>1, <1>2, <1>4
    <2>9. ASSUME NEW u \in Thread, u # t
          PROVE  LockInv(u)'
      <3>1. mutex'[ProcessOf[u]] = u <=> mutex[ProcessOf[u]] = u
        BY <1>2, <2>8, <2>9, ProcessType DEF Thread
      <3> QED BY <1>2, <2>7, <2>9, <3>1 DEF IInv, LockInv, Inside
    <2>10. LockInv(t)'
      <3>1. flock # t
        BY <1>1 DEF IInv, LockInv, Inside
      <3> QED BY <1>1, <1>2, <2>4, <2>7, <2>8, <3>1 DEF LockInv, Inside
    <2>11. gated' \in BOOLEAN /\ (gated' => gated /\ ~r.nested /\ r.op \notin {"mirror", "supersede"})
      <3>1. gated => o.op \notin {"mirror", "supersede"}
        BY <1>1 DEF IInv, GatedInv
      <3> QED BY <1>2, <1>4, <2>4, <3>1
    <2>12. \A u \in Thread : LockInv(u)'
      BY <2>9, <2>10
    <2>13. held' \in [Process -> BOOLEAN] /\ flock' \in Thread \cup {"free"} /\ UNCHANGED <<facts, ops>>
      BY <1>2
    <2>14. r.pc # "add" /\ thread[t].pc # "link"
      BY <1>1, <2>4
    <2> QED BY <2>5, <2>6, <2>8, <2>11, <2>12, <2>13, <2>14, LockStepKeeps
  <1> QED BY <1>1, <1>3, <1>4 DEF Enter

LEMMA FlockKeeps ==
  ASSUME IInv, NEW t \in Thread, Flock(t)
  PROVE  Kept
  <1>1. PICK o, p : /\ o = thread[t] /\ o \in Op /\ OpInv(o) /\ o.pc = "flock"
                    /\ p = ProcessOf[t] /\ p \in Process
    BY ProcessType DEF IInv, TypeInv, Flock
  <1>2. /\ flock = "free" /\ flock' = t /\ UNCHANGED <<facts, ops>> /\ ~o.nested
        /\ mutex' = [mutex EXCEPT ![p] = "free"] /\ held' = [held EXCEPT ![p] = TRUE]
        /\ thread' = [thread EXCEPT ![t].pc = First(thread[t].op)]
        /\ gated \in BOOLEAN /\ gated' = gated
    BY <1>1 DEF Flock, IInv, TypeInv, OpInv, Within
  <1>3. /\ held' \in [Process -> BOOLEAN] /\ held'[p] = TRUE
        /\ mutex' \in [Process -> Thread \cup {"free"}] /\ mutex'[p] = "free"
        /\ \A q \in Process : q # p => mutex'[q] = mutex[q]
    BY <1>1, <1>2 DEF IInv, TypeInv
  <1>4. PICK pc : pc = First(o.op)
    OBVIOUS
  <1>5. pc \in {"gate", "check", "add"}
    BY <1>4 DEF First
  <1>6. PICK r : r = [o EXCEPT !.pc = pc]
    OBVIOUS
  <1>7. /\ r \in Op /\ r.pc = pc /\ r.op = o.op /\ r.nested = o.nested /\ r.content = o.content
        /\ r.target = o.target /\ r.todo = o.todo
    BY <1>1, <1>5, <1>6 DEF Op
  <1>8. OpInv(r) /\ r.pc \in Within /\ (r.pc = "add" => r.op \in {"mirror", "insight"})
    BY <1>1, <1>4, <1>7, FirstSound
  <1>9. thread' = [thread EXCEPT ![t] = r]
    BY <1>1, <1>2, <1>4, <1>6
  <1>10. thread'[t] = r /\ \A u \in Thread : u # t => thread'[u] = thread[u]
    BY <1>8, <1>9, ThreadPut DEF IInv
  <1>11. ASSUME NEW u \in Thread, u # t
         PROVE  LockInv(u)'
    <2>1. LockInv(u) /\ thread'[u] = thread[u] /\ flock # u /\ flock' # u
      BY <1>2, <1>10, <1>11 DEF IInv, Thread
    <2>2. mutex[p] = t
      BY <1>1 DEF IInv, LockInv
    <2>3. mutex'[ProcessOf[u]] = u <=> mutex[ProcessOf[u]] = u
      BY <1>3, <1>11, <2>2, ProcessType DEF Thread
    <2> QED BY <2>1, <2>3 DEF LockInv, Inside
  <1>12. LockInv(t)'
    BY <1>1, <1>2, <1>3, <1>5, <1>7, <1>10 DEF LockInv, Inside, Thread
  <1>13. \A u \in Thread : LockInv(u)'
    BY <1>11, <1>12
  <1>14. gated' \in BOOLEAN /\ (gated' => gated /\ ~r.nested /\ r.op \notin {"mirror", "supersede"})
    <2>1. gated => o.op \notin {"mirror", "supersede"}
      BY <1>1 DEF IInv, GatedInv
    <2> QED BY <1>2, <1>7, <2>1
  <1>15. flock' \in Thread \cup {"free"} /\ UNCHANGED <<facts, ops>> /\ thread[t].pc # "link"
    BY <1>1, <1>2
  <1> QED BY <1>3, <1>8, <1>9, <1>13, <1>14, <1>15, LockStepKeeps

LEMMA ExitKeeps ==
  ASSUME IInv, NEW t \in Thread, Exit(t)
  PROVE  Kept
  <1>1. PICK p : p = ProcessOf[t] /\ p \in Process /\ thread[t].pc = "exit" /\ mutex[p] = "free"
    BY ProcessType DEF Exit
  <1>2. /\ UNCHANGED <<facts, mutex, flock, gated, ops>>
        /\ held \in [Process -> BOOLEAN] /\ mutex \in [Process -> Thread \cup {"free"}]
        /\ flock \in Thread \cup {"free"} /\ gated \in BOOLEAN /\ LockInv(t)
    BY DEF Exit, IInv, TypeInv
  <1>3. CASE thread[t].nested /\ thread' = [thread EXCEPT ![t] = Idle] /\ UNCHANGED held
    <2>1. thread'[t] = Idle /\ \A u \in Thread : u # t => thread'[u] = thread[u]
      BY <1>3, IdleSound, ThreadPut DEF IInv
    <2>2. flock # t
      BY <1>1, <1>2, <1>3 DEF LockInv, Inside
    <2>3. LockInv(t)'
      BY <1>1, <1>2, <2>1, <2>2, IdleSound DEF LockInv, Inside, Thread
    <2>4. ASSUME NEW u \in Thread, u # t
          PROVE  LockInv(u)'
      <3>1. /\ LockInv(u) /\ thread'[u] = thread[u]
            /\ held' = held /\ mutex' = mutex /\ flock' = flock
        BY <1>2, <1>3, <2>1, <2>4 DEF IInv
      <3> QED BY <3>1 DEF LockInv, Inside
    <2>5. \A u \in Thread : LockInv(u)'
      BY <2>3, <2>4
    <2>6. /\ gated' \in BOOLEAN
          /\ gated' => gated /\ ~Idle.nested /\ Idle.op \notin {"mirror", "supersede"}
      BY <1>2, IdleSound
    <2>7. /\ held' \in [Process -> BOOLEAN] /\ mutex' \in [Process -> Thread \cup {"free"}]
          /\ flock' \in Thread \cup {"free"} /\ UNCHANGED <<facts, ops>> /\ thread[t].pc # "link"
          /\ Idle.pc # "add"
      BY <1>1, <1>2, <1>3, IdleSound
    <2> QED BY <1>3, <2>5, <2>6, <2>7, IdleSound, LockStepKeeps
  <1>4. CASE /\ ~thread[t].nested /\ thread' = [thread EXCEPT ![t] = [Idle EXCEPT !.pc = "unlock"]]
             /\ held' = [held EXCEPT ![p] = FALSE]
    <2>1. PICK i, r : i = Idle /\ r = [i EXCEPT !.pc = "unlock"]
      OBVIOUS
    <2>2. i \in Op /\ i.op = "none" /\ i.nested = FALSE /\ i.todo = {}
      BY <2>1, IdleSound
    <2>3. r \in Op /\ r.pc = "unlock" /\ r.op = "none" /\ r.nested = FALSE /\ r.todo = {}
      BY <2>1, <2>2 DEF Op
    <2>4. OpInv(r)
      BY <2>3 DEF OpInv, Within
    <2>5. thread' = [thread EXCEPT ![t] = r]
      BY <1>4, <2>1
    <2>6. thread'[t] = r /\ \A u \in Thread : u # t => thread'[u] = thread[u]
      BY <2>4, <2>5, ThreadPut DEF IInv
    <2>7. flock = t
      BY <1>1, <1>2, <1>4 DEF LockInv, Inside
    <2>8. LockInv(t)'
      BY <1>1, <1>2, <2>3, <2>6, <2>7 DEF LockInv, Inside, Thread
    <2>9. ASSUME NEW u \in Thread, u # t
          PROVE  LockInv(u)'
      <3>1. LockInv(u) /\ thread'[u] = thread[u] /\ mutex' = mutex /\ flock' = flock /\ flock # u
        BY <1>2, <2>6, <2>7, <2>9 DEF IInv
      <3> QED BY <3>1 DEF LockInv, Inside
    <2>10. \A u \in Thread : LockInv(u)'
      BY <2>8, <2>9
    <2>11. gated' \in BOOLEAN /\ (gated' => gated /\ ~r.nested /\ r.op \notin {"mirror", "supersede"})
      BY <1>2, <2>3
    <2>12. /\ held' \in [Process -> BOOLEAN] /\ mutex' \in [Process -> Thread \cup {"free"}]
           /\ flock' \in Thread \cup {"free"} /\ UNCHANGED <<facts, ops>> /\ thread[t].pc # "link"
           /\ r.pc # "add"
      BY <1>1, <1>2, <1>4, <2>3
    <2> QED BY <2>4, <2>5, <2>10, <2>11, <2>12, LockStepKeeps
  <1> QED BY <1>1, <1>3, <1>4 DEF Exit

LEMMA UnlockKeeps ==
  ASSUME IInv, NEW t \in Thread, Unlock(t)
  PROVE  Kept
  <1>1. /\ thread[t].pc = "unlock" /\ flock' = "free" /\ thread' = [thread EXCEPT ![t] = Idle]
        /\ UNCHANGED <<facts, held, mutex, gated, ops>>
        /\ held \in [Process -> BOOLEAN] /\ mutex \in [Process -> Thread \cup {"free"}]
        /\ gated \in BOOLEAN /\ LockInv(t) /\ flock = t
    BY DEF Unlock, IInv, TypeInv, LockInv
  <1>2. thread'[t] = Idle /\ \A u \in Thread : u # t => thread'[u] = thread[u]
    BY <1>1, IdleSound, ThreadPut DEF IInv
  <1>3. LockInv(t)'
    BY <1>1, <1>2, IdleSound DEF LockInv, Inside, Thread
  <1>4. ASSUME NEW u \in Thread, u # t
        PROVE  LockInv(u)'
    <2>1. /\ LockInv(u) /\ thread'[u] = thread[u] /\ mutex' = mutex
          /\ flock # u /\ flock' # u
      BY <1>1, <1>2, <1>4 DEF IInv, Thread
    <2> QED BY <2>1 DEF LockInv, Inside
  <1>5. \A u \in Thread : LockInv(u)'
    BY <1>3, <1>4
  <1>6. /\ gated' \in BOOLEAN
        /\ gated' => gated /\ ~Idle.nested /\ Idle.op \notin {"mirror", "supersede"}
    BY <1>1, IdleSound
  <1>7. /\ held' \in [Process -> BOOLEAN] /\ mutex' \in [Process -> Thread \cup {"free"}]
        /\ flock' \in Thread \cup {"free"} /\ UNCHANGED <<facts, ops>> /\ thread[t].pc # "link"
        /\ Idle.pc # "add"
    BY <1>1, IdleSound
  <1> QED BY <1>1, <1>5, <1>6, <1>7, IdleSound, LockStepKeeps

LEMMA CrashKeeps ==
  ASSUME IInv, NEW p \in Process, Crash(p)
  PROVE  Kept
  <1>1. /\ thread' = [t \in Thread |-> IF ProcessOf[t] = p THEN Idle ELSE thread[t]]
        /\ held' = [held EXCEPT ![p] = FALSE] /\ mutex' = [mutex EXCEPT ![p] = "free"]
        /\ flock' = IF flock # "free" /\ ProcessOf[flock] = p THEN "free" ELSE flock
        /\ gated' = FALSE /\ UNCHANGED <<facts, ops>>
    BY DEF Crash
  <1>2. FactsFollow
    BY <1>1, FactsSame DEF IInv
  <1>3. \A t \in Thread : thread'[t] = IF ProcessOf[t] = p THEN Idle ELSE thread[t]
    BY <1>1
  <1>4. /\ held' \in [Process -> BOOLEAN] /\ mutex' \in [Process -> Thread \cup {"free"}]
        /\ mutex'[p] = "free"
        /\ \A q \in Process : q # p => mutex'[q] = mutex[q] /\ held'[q] = held[q]
    BY <1>1 DEF IInv, TypeInv
  <1>5. TypeInv'
    <2>1. \A t \in Thread : OpInv(thread'[t])
      BY <1>3, IdleSound DEF IInv, TypeInv
    <2>2. (\A t \in Thread : OpInv(thread[t]))'
      BY <2>1 DEF OpInv
    <2>3. thread' \in [Thread -> Op]
      BY <1>1, IdleSound DEF IInv, TypeInv
    <2>4. (\A f \in Id : Stored(f) => facts[f].content \in Text /\ facts[f].category \in Category)'
      BY <1>2 DEF FactsFollow, Stored
    <2>5. flock' \in Thread \cup {"free"} /\ gated' \in BOOLEAN /\ ops' \in 0..MaxOps
      BY <1>1 DEF IInv, TypeInv
    <2> QED BY <1>2, <1>4, <2>2, <2>3, <2>4, <2>5 DEF TypeInv, FactsFollow
  <1>6. ASSUME NEW t \in Thread
        PROVE  LockInv(t)'
    <2>1. t # "free" /\ LockInv(t) /\ ProcessOf[t] \in Process
      BY ProcessType DEF IInv, Thread
    <2>2. CASE ProcessOf[t] = p
      <3>1. flock' # t /\ thread'[t] = Idle /\ mutex'[ProcessOf[t]] # t
        BY <1>1, <1>3, <1>4, <2>1, <2>2
      <3> QED BY <3>1, IdleSound DEF LockInv, Inside
    <2>3. CASE ProcessOf[t] # p
      <3>1. /\ flock' = t <=> flock = t
            /\ thread'[t] = thread[t] /\ mutex'[ProcessOf[t]] = mutex[ProcessOf[t]]
            /\ held'[ProcessOf[t]] = held[ProcessOf[t]]
        BY <1>1, <1>3, <1>4, <2>1, <2>3
      <3> QED BY <2>1, <3>1 DEF LockInv, Inside
    <2> QED BY <2>2, <2>3
  <1>7. GatedInv' /\ GateNotRaced'
    <2>1. ~gated'
      BY <1>1
    <2> QED BY <2>1 DEF GatedInv, GateNotRaced
  <1> QED BY <1>2, <1>5, <1>6, <1>7 DEF Kept, IInv, FactsFollow

LEMMA StutterKeeps ==
  ASSUME IInv, UNCHANGED vars
  PROVE  Kept
  <1>1. /\ facts' = facts /\ thread' = thread /\ held' = held /\ mutex' = mutex
        /\ flock' = flock /\ gated' = gated /\ ops' = ops
    BY DEF vars
  <1>2. Life
    BY <1>1 DEF Life
  <1>3. TypeInv'
    BY <1>1 DEF IInv, TypeInv, OpInv, UniqueContent, InOrder, Stored
  <1>4. (\A t \in Thread : LockInv(t))'
    BY <1>1 DEF IInv, LockInv, Inside
  <1>5. GatedInv' /\ GateNotRaced'
    BY <1>1 DEF IInv, GatedInv, Known, GateNotRaced, Found, Active, Related, Restates, Updates
  <1> QED BY <1>2, <1>3, <1>4, <1>5 DEF Kept, IInv

LEMMA InitSound == Init => IInv
  <1> SUFFICES ASSUME Init PROVE IInv
    OBVIOUS
  <1>1. /\ facts = [f \in Id |-> NoFact] /\ thread = [t \in Thread |-> Idle]
        /\ held = [p \in Process |-> FALSE] /\ mutex = [p \in Process |-> "free"]
        /\ flock = "free" /\ gated = TRUE /\ ops = 0
    BY DEF Init
  <1>2. NoFact \in Fact /\ NoFact.status = "free"
    BY FactsAssumption DEF NoFact, Fact
  <1>3. \A f \in Id : ~Stored(f) /\ ~Active(f)
    BY <1>1, <1>2 DEF Stored, Active
  <1>4. TypeInv
    BY <1>1, <1>2, <1>3, IdleSound, FactsAssumption DEF TypeInv, UniqueContent, InOrder
  <1>5. \A t \in Thread : LockInv(t)
    BY <1>1, IdleSound, ProcessType DEF LockInv, Inside, Thread
  <1>6. GatedInv /\ GateNotRaced
    BY <1>1, <1>3, IdleSound DEF GatedInv, GateNotRaced
  <1> QED BY <1>4, <1>5, <1>6 DEF IInv

LEMMA StepKeeps ==
  ASSUME IInv, [Next]_vars
  PROVE  Kept
  <1>1. ASSUME NEW c \in Content, NEW t \in Thread, StartAdd(t, c)
        PROVE  Kept
    BY <1>1, StartAddStarts, StartsKeep DEF IInv
  <1>2. ASSUME NEW c \in Content, StartMirror(c)
        PROVE  Kept
    BY <1>2, StartMirrorStarts, StartsKeep DEF IInv, Thread
  <1>3. ASSUME NEW c \in Content, NEW f \in Id, StartSupersede(f, c)
        PROVE  Kept
    BY <1>3, StartSupersedeStarts, StartsKeep DEF IInv, Thread
  <1>4. ASSUME NEW cs \in SUBSET Content, StartBatch(cs)
        PROVE  Kept
    BY <1>4, StartBatchStarts, StartsKeep DEF IInv, Thread
  <1>5. ASSUME NEW fs \in SUBSET Id, StartReflection(fs)
        PROVE  Kept
    BY <1>5, StartReflectionStarts, StartsKeep DEF IInv, Thread
  <1>6. ASSUME NEW t \in Thread, Step(t)
        PROVE  Kept
    BY <1>6, EnterKeeps, FlockKeeps, ExitKeeps, UnlockKeeps, GateKeeps, CheckKeeps, AddKeeps,
       LinkKeeps, CascadeKeeps DEF Step
  <1>7. ASSUME Next
        PROVE  Kept
    BY <1>1, <1>2, <1>3, <1>4, <1>5, <1>6, <1>7, ReflectKeeps, UpdateKeeps, RemoveKeeps,
       CrashKeeps DEF Next
  <1> QED BY <1>7, StutterKeeps

-----------------------------------------------------------------------------
(* The theorems                                                            *)

LEMMA Inductive == Spec => []IInv
  <1>1. IInv /\ [Next]_vars => IInv'
    BY StepKeeps DEF Kept
  <1> QED BY <1>1, InitSound, PTL DEF Spec

\* Every variable keeps its type; a content has one row; and the thread whose
\* handle has the file lock is never a nested one, and its process knows that
\* it holds the lock (cross_process_write_lock, UNIQUE content of facts).
THEOREM TypeCorrect == Spec => []TypeOK
  <1>1. IInv => TypeOK
    <2> SUFFICES ASSUME IInv PROVE TypeOK
      OBVIOUS
    <2>1. ASSUME NEW f \in Id
          PROVE  /\ facts[f].status \in {"free", "active", "invalid", "gone"}
                 /\ facts[f].by \in 0..MaxFacts /\ facts[f].cites \subseteq Id
                 /\ (Stored(f) => /\ facts[f].content \in Content \cup Insight
                                  /\ facts[f].category \in Category)
                 /\ \A g \in Id : Stored(f) /\ Stored(g) /\ facts[f].content = facts[g].content
                                    => f = g
      <3>1. facts[f] \in Fact
        BY DEF IInv, TypeInv
      <3>2. /\ facts[f].status \in {"free", "active", "invalid", "gone"}
            /\ facts[f].by \in 0..MaxFacts /\ facts[f].cites \subseteq Id
        BY <3>1 DEF Fact
      <3> QED BY <3>2 DEF IInv, TypeInv, UniqueContent, Text
    <2>2. ASSUME NEW t \in Thread
          PROVE  /\ thread[t].pc \in {"idle", "llm", "enter", "flock", "gate", "check", "add",
                                      "link", "cascade", "exit", "unlock"}
                 /\ (thread[t].pc = "flock" <=> mutex[ProcessOf[t]] = t)
      BY DEF IInv, TypeInv, OpInv, Op, LockInv
    <2>3. ASSUME flock # "free"
          PROVE  ~thread[flock].nested /\ (Inside(flock) => held[ProcessOf[flock]])
      <3>1. flock \in Thread /\ LockInv(flock) /\ OpInv(thread[flock])
        BY <2>3 DEF IInv, TypeInv
      <3> QED BY <3>1 DEF LockInv, OpInv, Within
    <2> QED BY <2>1, <2>2, <2>3 DEF TypeOK, IInv, TypeInv
  <1> QED BY <1>1, Inductive, PTL

\* A fact is superseded once: it never becomes active again and keeps its
\* link, whoever chose it as a target since (supersede,
\* _supersede_with_rowcount).
THEOREM SupersededStays == Spec => SupersededOnce
  <1>1. IInv /\ [Next]_vars =>
          [\A f \in Id : facts[f].status = "invalid" /\ facts'[f].status # "gone" =>
             facts'[f].status = "invalid" /\ facts'[f].by = facts[f].by]_vars
    BY StepKeeps DEF Kept, Life
  <1> QED BY <1>1, Inductive, PTL DEF Spec, SupersededOnce

\* While all writes go through the gate, each alone in its process, an active
\* fact restates or updates an older active one only if its own writer passed
\* the older one or is about to retire it: no other process comes between the
\* searches of the gate and the insert (_handle_fact_store_add_locked,
\* insert_facts, memory_add).
THEOREM GateSerial == Spec => []GateNotRaced
  <1>1. IInv => GateNotRaced
    BY DEF IInv
  <1> QED BY <1>1, Inductive, PTL
=============================================================================
