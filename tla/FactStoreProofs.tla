-------------------------- MODULE FactStoreProofs --------------------------
(***************************************************************************)
(* Machine-checked theorems about FactStore, for every value of its        *)
(* constants that satisfies ConstantsAssumption.                           *)
(***************************************************************************)
EXTENDS FactStore, TLAPS

-----------------------------------------------------------------------------
(* The helpers that build rows and tables return rows and tables           *)

\* A function over 1..n is a sequence of length n.
LEMMA FunctionIsSequence ==
  ASSUME NEW T, NEW n \in Nat, NEW f \in [1..n -> T]
  PROVE  f \in Seq(T) /\ Len(f) = n /\ DOMAIN f = 1..n
  OBVIOUS

\* insert_fact and _persist_state_candidate write rows of the facts table.
LEMMA NewRowsTyped ==
  ASSUME NEW r \in Requests, NEW from \in Nat, NEW group \in Nat
  PROVE  /\ UntypedFact(r) \in Fact
         /\ StateFact(r, from, group) \in Fact
  <1>1. r \in Request
    BY ConstantsAssumption
  <1> QED BY <1>1 DEF UntypedFact, StateFact, Fact, Request

\* The two updates of a row keep it a row.
LEMMA UpdatedRowsTyped ==
  ASSUME NEW f \in Fact, NEW n \in Nat
  PROVE  /\ Superseded(f, n) \in Fact
         /\ Flagged(f, n) \in Fact
  BY DEF Superseded, Flagged, Fact

\* Retiring rows keeps the table and its length.
LEMMA RetireTyped ==
  ASSUME NEW fs \in Seq(Fact), NEW ids, NEW by \in Nat
  PROVE  /\ Retire(fs, ids, by) \in Seq(Fact)
         /\ Len(Retire(fs, ids, by)) = Len(fs)
         /\ DOMAIN Retire(fs, ids, by) = 1..Len(fs)
  <1>1. DOMAIN fs = 1..Len(fs) /\ Len(fs) \in Nat
    OBVIOUS
  <1>2. \A i \in 1..Len(fs) : fs[i] \in Fact /\ Superseded(fs[i], by) \in Fact
    BY UpdatedRowsTyped
  <1>3. Retire(fs, ids, by) \in [1..Len(fs) -> Fact]
    BY <1>1, <1>2 DEF Retire
  <1> QED BY <1>1, <1>3, FunctionIsSequence

\* Flagging rows keeps the table and its length.
LEMMA FlagTyped ==
  ASSUME NEW fs \in Seq(Fact), NEW ids, NEW c \in Nat
  PROVE  /\ Flag(fs, ids, c) \in Seq(Fact)
         /\ Len(Flag(fs, ids, c)) = Len(fs)
         /\ DOMAIN Flag(fs, ids, c) = 1..Len(fs)
  <1>1. DOMAIN fs = 1..Len(fs) /\ Len(fs) \in Nat
    OBVIOUS
  <1>2. \A i \in 1..Len(fs) : fs[i] \in Fact /\ Flagged(fs[i], c) \in Fact
    BY UpdatedRowsTyped
  <1>3. Flag(fs, ids, c) \in [1..Len(fs) -> Fact]
    BY <1>1, <1>2 DEF Flag
  <1> QED BY <1>1, <1>3, FunctionIsSequence

\* Appending a row lengthens a table by one.
LEMMA AppendTyped ==
  ASSUME NEW T, NEW s \in Seq(T), NEW e \in T
  PROVE  /\ Append(s, e) \in Seq(T)
         /\ Len(Append(s, e)) = Len(s) + 1
         /\ DOMAIN Append(s, e) = 1..(Len(s) + 1)
  OBVIOUS

\* Erasing keeps every row a row.
LEMMA ErasedRowTyped ==
  ASSUME TypeOK, NEW e \in FactIds, NEW i \in FactIds
  PROVE  ErasedRow(e, i) \in Fact
  <1>1. facts[i] \in Fact
    BY DEF TypeOK, FactIds
  <1>2. Scrubbed(facts[i]) \in Fact
    BY <1>1 DEF Scrubbed, Fact
  <1>3. ASSUME NEW b \in BOOLEAN, NEW g \in Nat
        PROVE  [facts[i] EXCEPT !.invalid = b, !.conflict_group = g] \in Fact
    BY <1>1 DEF Fact
  <1>4. /\ (facts[i].invalid \/ i \in Citing(e)) \in BOOLEAN
        /\ (IF i \in LastMembers(e) THEN 0 ELSE facts[i].conflict_group) \in Nat
    BY <1>1 DEF Fact
  <1> QED BY <1>2, <1>3, <1>4 DEF ErasedRow

\* The scopes of a session are scopes.
LEMMA EffectiveTyped ==
  ASSUME NEW x \in Contexts
  PROVE  /\ Effective(x) \in SUBSET Scope
         /\ x.client \in Client /\ x.session \in Session
         /\ x.surface \in Surface /\ x.agent \in Agent
  BY ConstantsAssumption DEF Effective, Context

\* Registering the caller keeps the identity tables.
LEMMA RegisterTyped ==
  ASSUME TypeOK, NEW x \in Contexts, RegisterClient(x), RegisterSession(x)
  PROVE  /\ clients' \subseteq Client \X Surface
         /\ sessions' \subseteq [client: Client, session: Session, agent: Agent,
                                 scopes: SUBSET Scope]
  BY EffectiveTyped DEF TypeOK, RegisterClient, RegisterSession, SessionRow

\* A log row that names existing ids, or none, is a log row.
LEMMA WriteRowTyped ==
  ASSUME NEW x \in Contexts, NEW r \in Requests, NEW outcome \in Outcomes,
         NEW fact \in Nat, NEW existing \in Nat, NEW o \in Nat
  PROVE  WriteRow(x, r, outcome, fact, existing, o) \in LogRow
  BY EffectiveTyped DEF WriteRow, LogRow, Outcomes

\* The evidence of a request is an observation.
LEMMA ObservationRowTyped ==
  ASSUME NEW x \in Contexts, NEW r \in Requests
  PROVE  ObservationRow(x, r) \in Observation
  <1>1. r \in Request
    BY ConstantsAssumption
  <1> QED BY <1>1, EffectiveTyped DEF ObservationRow, Observation, Request

\* What every accepted write does besides the fact tables keeps its types.
LEMMA FinishTyped ==
  ASSUME TypeOK, NEW x \in Contexts, NEW r \in Requests,
         NEW outcome \in Outcomes, NEW fact \in FactIds', NEW existing \in Nat,
         FactIds' \subseteq Nat, FactIds \subseteq FactIds',
         Finish(x, r, outcome, fact, existing)
  PROVE  /\ observations' \in Seq(Observation)
         /\ provenance' \subseteq FactIds' \X (DOMAIN observations')
         /\ clients' \subseteq Client \X Surface
         /\ sessions' \subseteq [client: Client, session: Session, agent: Agent,
                                 scopes: SUBSET Scope]
         /\ log' \subseteq LogRow
  <1>1. PICK o \in 1..(Len(observations) + 1) :
          /\ RegisterClient(x) /\ RegisterSession(x)
          /\ RecordObservation(x, r, o)
          /\ provenance' = provenance \cup {<<fact, o>>}
          /\ log' = log \cup {WriteRow(x, r, outcome, fact, existing, o)}
    BY DEF Finish
  <1>2. observations \in Seq(Observation) /\ Len(observations) \in Nat
    BY DEF TypeOK
  <1>3. /\ observations' \in Seq(Observation)
        /\ DOMAIN observations \subseteq DOMAIN observations'
        /\ o \in DOMAIN observations'
    <2>1. CASE UNCHANGED observations /\ o \in DOMAIN observations
      BY <2>1, <1>2
    <2>2. CASE /\ o = Len(observations) + 1
               /\ observations' = Append(observations, ObservationRow(x, r))
      BY <2>2, <1>2, ObservationRowTyped, AppendTyped
    <2> QED BY <2>1, <2>2, <1>1 DEF RecordObservation
  <1>4. provenance' \subseteq FactIds' \X (DOMAIN observations')
    <2>1. provenance \subseteq FactIds \X (DOMAIN observations)
      BY DEF TypeOK
    <2>2. provenance \subseteq FactIds' \X (DOMAIN observations')
      BY <2>1, <1>3
    <2>3. <<fact, o>> \in FactIds' \X (DOMAIN observations')
      BY <1>3
    <2> QED BY <2>2, <2>3, <1>1
  <1>5. WriteRow(x, r, outcome, fact, existing, o) \in LogRow
    BY WriteRowTyped, <1>2
  <1>6. log' \subseteq LogRow
    BY <1>1, <1>5 DEF TypeOK
  <1> QED BY <1>1, <1>3, <1>4, <1>6, RegisterTyped

-----------------------------------------------------------------------------
(* Type correctness                                                        *)

\* A new fact, and the ids that follow from its insertion.
LEMMA InsertTyped ==
  ASSUME TypeOK, NEW f \in Fact, NEW ids, NEW by \in Nat,
         facts' = Retire(Append(facts, f), ids, by)
  PROVE  /\ facts' \in Seq(Fact) /\ Len(facts') = Len(facts) + 1
         /\ FactIds \subseteq FactIds' /\ FactIds' \subseteq Nat
         /\ FactIds = 1..Len(facts) /\ FactIds' = 1..(Len(facts) + 1)
         /\ NewId \in FactIds' /\ NewId \in Nat
  <1>1. facts \in Seq(Fact) /\ Len(facts) \in Nat
    BY DEF TypeOK
  <1>2. Append(facts, f) \in Seq(Fact) /\ Len(Append(facts, f)) = Len(facts) + 1
    BY <1>1, AppendTyped
  <1>3. facts' \in Seq(Fact) /\ Len(facts') = Len(facts) + 1
    BY <1>2, RetireTyped
  <1> QED BY <1>1, <1>3 DEF FactIds, NewId

\* Enqueueing a fact that exists after the step keeps the outbox.
LEMMA EnqueueTyped ==
  ASSUME TypeOK, NEW f \in FactIds', FactIds \subseteq FactIds', Enqueue(f)
  PROVE  outbox' \subseteq FactIds'
  BY DEF TypeOK, Enqueue

\* The tables no write touches but through new fact ids.
LEMMA RestTyped ==
  ASSUME TypeOK, FactIds \subseteq FactIds',
         UNCHANGED <<conflicts, members, vectors, serving>>
  PROVE  /\ conflicts' \in Seq(Conflict)
         /\ members' \subseteq (DOMAIN conflicts') \X FactIds'
         /\ vectors' \subseteq FactIds' /\ serving' \in BOOLEAN
  <1>1. members \subseteq (DOMAIN conflicts) \X FactIds
    BY DEF TypeOK
  <1>2. members' \subseteq (DOMAIN conflicts') \X FactIds'
    BY <1>1
  <1> QED BY <1>2 DEF TypeOK

\* Zero, and every id of a time, is a number.
LEMMA ValidFromTyped ==
  ASSUME NEW r \in Requests, NEW from \in ValidFrom(r)
  PROVE  from \in Nat
  <1>1. r.valid_from \in Nat
    BY ConstantsAssumption DEF Request
  <1> QED BY <1>1, ConstantsAssumption DEF ValidFrom

\* Every way a write can end keeps the types.
LEMMA WriteTyped ==
  ASSUME TypeOK, NEW x \in Contexts, NEW r \in Requests, Write(x, r)
  PROVE  TypeOK'
  <1>0. /\ facts \in Seq(Fact) /\ Len(facts) \in Nat
        /\ FactIds = 1..Len(facts) /\ FactIds \subseteq Nat
    BY DEF TypeOK, FactIds
  <1>1. CASE ReplayWrite(x, r)
    BY <1>1 DEF ReplayWrite, vars, TypeOK, FactIds
  <1>2. CASE RefuseWrite(x, r)
    <2>1. PICK outcome \in {"rejected", "needs_review"} :
            log' = log \cup {WriteRow(x, r, outcome, 0, 0, 0)}
      BY <1>2 DEF RefuseWrite
    <2>2. WriteRow(x, r, outcome, 0, 0, 0) \in LogRow
      BY WriteRowTyped DEF Outcomes
    <2>3. log' \subseteq LogRow
      BY <2>1, <2>2 DEF TypeOK
    <2> QED BY <1>2, <2>3, RegisterTyped DEF RefuseWrite, TypeOK, FactIds
  <1>3. CASE MatchState(x, r)
    <2>1. PICK t \in FactIds :
            Finish(x, r, IF Contested(r) THEN "conflict" ELSE "dedup", t, t)
      BY <1>3 DEF MatchState
    <2>2. (IF Contested(r) THEN "conflict" ELSE "dedup") \in Outcomes
      BY DEF Outcomes
    <2>3. FactIds' = FactIds /\ t \in Nat
      BY <1>0, <1>3, <2>1 DEF MatchState, FactIds
    <2> QED BY <1>0, <1>3, <2>1, <2>2, <2>3, FinishTyped, RestTyped
            DEF MatchState, TypeOK
  <1>4. CASE AddState(x, r)
    <2>1. PICK from \in ValidFrom(r) :
            facts' = Append(facts, StateFact(r, from, 0))
      BY <1>4 DEF AddState
    <2>2. from \in Nat /\ StateFact(r, from, 0) \in Fact
      BY NewRowsTyped, ValidFromTyped
    <2>3. /\ facts' \in Seq(Fact) /\ FactIds' = 1..(Len(facts) + 1)
          /\ NewId \in FactIds' /\ NewId \in Nat
      BY <1>0, <2>1, <2>2, AppendTyped DEF FactIds, NewId
    <2>4. FactIds \subseteq FactIds' /\ FactIds' \subseteq Nat
      BY <1>0, <2>3
    <2> QED BY <1>4, <2>3, <2>4, FinishTyped, EnqueueTyped, RestTyped
            DEF AddState, TypeOK, Outcomes
  <1>5. CASE SupersedeState(x, r)
    <2>1. PICK from \in ValidFrom(r), e \in FactIds :
            facts' = Retire(Append(facts, StateFact(r, from, 0)), {e}, NewId)
      BY <1>5 DEF SupersedeState
    <2>2. StateFact(r, from, 0) \in Fact /\ NewId \in Nat
      BY <1>0, NewRowsTyped, ValidFromTyped DEF NewId
    <2>3. /\ facts' \in Seq(Fact) /\ FactIds \subseteq FactIds'
          /\ FactIds' \subseteq Nat /\ NewId \in FactIds'
      BY <2>1, <2>2, InsertTyped
    <2> QED BY <1>5, <2>2, <2>3, FinishTyped, EnqueueTyped, RestTyped
            DEF SupersedeState, TypeOK, Outcomes
  <1>6. CASE OpenConflict(x, r)
    <2> DEFINE c == Len(conflicts) + 1
               row == [scope |-> r.scope, slot |-> r.slot, resolved |-> FALSE,
                       resolution |-> 0, resolver |-> NONE]
    <2>0. conflicts \in Seq(Conflict) /\ Len(conflicts) \in Nat /\ c \in Nat
      BY DEF TypeOK
    <2>1. PICK from \in ValidFrom(r) :
            facts' = Append(Flag(facts, Current(r), c), StateFact(r, from, c))
      BY <1>6 DEF OpenConflict
    <2>2. from \in Nat /\ StateFact(r, from, c) \in Fact
      BY <2>0, NewRowsTyped, ValidFromTyped
    <2>3. Flag(facts, Current(r), c) \in Seq(Fact)
          /\ Len(Flag(facts, Current(r), c)) = Len(facts)
      BY <1>0, <2>0, FlagTyped
    <2>4. /\ facts' \in Seq(Fact) /\ FactIds' = 1..(Len(facts) + 1)
          /\ NewId \in FactIds' /\ NewId \in Nat
      BY <1>0, <2>1, <2>2, <2>3, AppendTyped DEF FactIds, NewId
    <2>5. FactIds \subseteq FactIds' /\ FactIds' \subseteq Nat
      BY <1>0, <2>4
    <2>6. row \in Conflict
      <3>1. r.scope \in Scope /\ r.slot \in Slot \cup {NONE} /\ r.slot # NONE
        BY <1>6, ConstantsAssumption DEF OpenConflict, Request
      <3> QED BY <3>1 DEF Conflict
    <2>7. /\ conflicts' \in Seq(Conflict)
          /\ DOMAIN conflicts \subseteq DOMAIN conflicts'
          /\ c \in DOMAIN conflicts'
      <3>1. conflicts' = Append(conflicts, row)
        BY <1>6 DEF OpenConflict
      <3>2. /\ conflicts' \in Seq(Conflict)
            /\ DOMAIN conflicts' = 1..(Len(conflicts) + 1)
        BY <3>1, <2>0, <2>6, AppendTyped
      <3> QED BY <3>2, <2>0
    <2>8. members' \subseteq (DOMAIN conflicts') \X FactIds'
      <3>1. members \subseteq (DOMAIN conflicts') \X FactIds'
        <4>1. members \subseteq (DOMAIN conflicts) \X FactIds
          BY DEF TypeOK
        <4> QED BY <4>1, <2>5, <2>7
      <3>2. Current(r) \cup {NewId} \subseteq FactIds'
        BY <2>4, <2>5 DEF Current
      <3>3. {<<c, i>> : i \in Current(r) \cup {NewId}}
              \subseteq (DOMAIN conflicts') \X FactIds'
        BY <3>2, <2>7
      <3>4. members' = members \cup {<<c, i>> : i \in Current(r) \cup {NewId}}
        BY <1>6 DEF OpenConflict
      <3> QED BY <3>1, <3>3, <3>4
    <2>9. outbox' \subseteq FactIds' /\ vectors' \subseteq FactIds'
          /\ serving' \in BOOLEAN
      BY <1>6, <2>4, <2>5, EnqueueTyped DEF OpenConflict, TypeOK
    <2>10. Finish(x, r, "conflict", NewId, 0) /\ "conflict" \in Outcomes
      BY <1>6 DEF OpenConflict, Outcomes
    <2> QED BY <2>4, <2>5, <2>7, <2>8, <2>9, <2>10, FinishTyped DEF TypeOK
  <1>7. CASE JoinConflict(x, r)
    <2>1. PICK from \in ValidFrom(r), c \in DOMAIN conflicts :
            /\ facts' = Append(facts, StateFact(r, from, c))
            /\ members' = members \cup {<<c, NewId>>}
      BY <1>7 DEF JoinConflict
    <2>2. from \in Nat /\ c \in Nat /\ StateFact(r, from, c) \in Fact
      <3>1. c \in Nat
        BY DEF TypeOK
      <3> QED BY <3>1, NewRowsTyped, ValidFromTyped
    <2>3. /\ facts' \in Seq(Fact) /\ FactIds' = 1..(Len(facts) + 1)
          /\ NewId \in FactIds' /\ NewId \in Nat
      BY <1>0, <2>1, <2>2, AppendTyped DEF FactIds, NewId
    <2>4. FactIds \subseteq FactIds' /\ FactIds' \subseteq Nat
      BY <1>0, <2>3
    <2>5. members' \subseteq (DOMAIN conflicts') \X FactIds'
      <3>1. members \subseteq (DOMAIN conflicts) \X FactIds
        BY DEF TypeOK
      <3>2. conflicts' = conflicts
        BY <1>7 DEF JoinConflict
      <3>3. members \subseteq (DOMAIN conflicts') \X FactIds'
        BY <3>1, <3>2, <2>4
      <3> QED BY <3>2, <3>3, <2>1, <2>3
    <2>6. /\ conflicts' \in Seq(Conflict) /\ outbox' \subseteq FactIds'
          /\ vectors' \subseteq FactIds' /\ serving' \in BOOLEAN
      BY <1>7, <2>3, <2>4, EnqueueTyped DEF JoinConflict, TypeOK
    <2>7. Finish(x, r, "conflict", NewId, 0) /\ "conflict" \in Outcomes
      BY <1>7 DEF JoinConflict, Outcomes
    <2> QED BY <2>3, <2>4, <2>5, <2>6, <2>7, FinishTyped DEF TypeOK
  <1>8. CASE DedupUntyped(x, r)
    <2>1. PICK t \in Duplicates(r) :
            /\ facts' = Retire(facts, Replaced(r), t)
            /\ Finish(x, r, "dedup", t, t)
      BY <1>8 DEF DedupUntyped
    <2>2. t \in FactIds /\ t \in Nat
      BY <1>0 DEF Duplicates
    <2>3. facts' \in Seq(Fact) /\ FactIds' = FactIds
      BY <1>0, <2>1, <2>2, RetireTyped DEF FactIds
    <2> QED BY <1>0, <1>8, <2>1, <2>2, <2>3, FinishTyped, RestTyped
            DEF DedupUntyped, TypeOK, Outcomes
  <1>9. CASE InsertUntyped(x, r)
    <2>1. UntypedFact(r) \in Fact /\ NewId \in Nat
      BY <1>0, NewRowsTyped DEF NewId
    <2>2. /\ facts' \in Seq(Fact) /\ FactIds \subseteq FactIds'
          /\ FactIds' \subseteq Nat /\ NewId \in FactIds'
      BY <1>9, <2>1, InsertTyped DEF InsertUntyped
    <2> QED BY <1>9, <2>1, <2>2, FinishTyped, EnqueueTyped, RestTyped
            DEF InsertUntyped, TypeOK, Outcomes
  <1>10. CASE NearDuplicateLoses(x, r)
    <2>1. PICK d \in FactIds :
            /\ facts' = Retire(Append(facts, UntypedFact(r)), {d}, NewId)
            /\ Finish(x, r, "near_dedup", NewId, d)
      BY <1>10 DEF NearDuplicateLoses
    <2>2. UntypedFact(r) \in Fact /\ NewId \in Nat /\ d \in Nat
      BY <1>0, NewRowsTyped DEF NewId
    <2>3. /\ facts' \in Seq(Fact) /\ FactIds \subseteq FactIds'
          /\ FactIds' \subseteq Nat /\ NewId \in FactIds'
      BY <2>1, <2>2, InsertTyped
    <2> QED BY <1>10, <2>1, <2>2, <2>3, FinishTyped, EnqueueTyped, RestTyped
            DEF NearDuplicateLoses, TypeOK, Outcomes
  <1>11. CASE NearDuplicateWins(x, r)
    <2>1. PICK d \in FactIds :
            /\ facts' = Retire(Append(facts, UntypedFact(r)), {NewId}, d)
            /\ Finish(x, r, "near_dedup", d, d)
      BY <1>11 DEF NearDuplicateWins
    <2>2. UntypedFact(r) \in Fact /\ d \in Nat
      BY <1>0, NewRowsTyped
    <2>3. /\ facts' \in Seq(Fact) /\ FactIds \subseteq FactIds'
          /\ FactIds' \subseteq Nat
      BY <2>1, <2>2, InsertTyped
    <2> QED BY <1>11, <2>1, <2>2, <2>3, FinishTyped, RestTyped
            DEF NearDuplicateWins, TypeOK, Outcomes
  <1> QED BY <1>1, <1>2, <1>3, <1>4, <1>5, <1>6, <1>7, <1>8, <1>9, <1>10,
             <1>11 DEF Write

\* _resolve_conflict keeps the types.
LEMMA ResolveTyped ==
  ASSUME TypeOK, NEW x \in Contexts, NEW c \in DOMAIN conflicts,
         NEW w \in FactIds, ResolveConflict(x, c, w)
  PROVE  TypeOK'
  <1>0. /\ facts \in Seq(Fact) /\ Len(facts) \in Nat
        /\ FactIds = 1..Len(facts) /\ w \in Nat
        /\ conflicts \in Seq(Conflict) /\ conflicts[c] \in Conflict
    <2>1. facts \in Seq(Fact) /\ conflicts \in Seq(Conflict)
      BY DEF TypeOK
    <2> QED BY <2>1 DEF FactIds
  <1>1. Retire(facts, MembersOf(c) \ {w}, w) \in Seq(Fact)
        /\ Len(Retire(facts, MembersOf(c) \ {w}, w)) = Len(facts)
    BY <1>0, RetireTyped
  <1>2. facts' \in Seq(Fact) /\ FactIds' = FactIds
    <2>1. facts' = Flag(Retire(facts, MembersOf(c) \ {w}, w), {w}, 0)
      BY DEF ResolveConflict
    <2>2. facts' \in Seq(Fact) /\ DOMAIN facts' = 1..Len(facts)
      BY <1>1, <2>1, FlagTyped
    <2> QED BY <1>0, <2>2 DEF FactIds
  <1>3. conflicts' \in Seq(Conflict) /\ DOMAIN conflicts' = DOMAIN conflicts
    <2> DEFINE row == [conflicts[c] EXCEPT !.resolved = TRUE, !.resolution = w,
                                           !.resolver = x.client]
    <2>1. row \in Conflict
      BY <1>0, EffectiveTyped DEF Conflict
    <2>2. conflicts' = [conflicts EXCEPT ![c] = row]
      BY DEF ResolveConflict
    <2>3. Len(conflicts) \in Nat /\ DOMAIN conflicts = 1..Len(conflicts)
          /\ conflicts \in [1..Len(conflicts) -> Conflict]
      BY <1>0
    <2> HIDE DEF row
    <2>4. conflicts' \in [1..Len(conflicts) -> Conflict]
      BY <2>1, <2>2, <2>3
    <2> QED BY <2>3, <2>4, FunctionIsSequence
  <1>4. outbox' \subseteq FactIds'
    BY <1>2, EnqueueTyped DEF ResolveConflict
  <1> QED BY <1>2, <1>3, <1>4, RegisterTyped DEF ResolveConflict, TypeOK

\* erase_fact keeps the types.
LEMMA EraseTyped ==
  ASSUME TypeOK, NEW e, EraseFact(e)
  PROVE  TypeOK'
  <1>0. /\ facts \in Seq(Fact) /\ Len(facts) \in Nat
        /\ FactIds = 1..Len(facts) /\ e \in FactIds
    <2>1. facts \in Seq(Fact) /\ e \in FactIds
      BY DEF TypeOK, EraseFact
    <2> QED BY <2>1 DEF FactIds
  <1>1. facts' \in Seq(Fact) /\ FactIds' = FactIds
    <2>1. facts' = [i \in FactIds |-> ErasedRow(e, i)]
      BY DEF EraseFact
    <2>2. facts' \in [1..Len(facts) -> Fact]
      BY <1>0, <2>1, ErasedRowTyped
    <2> QED BY <1>0, <2>2, FunctionIsSequence DEF FactIds
  <1>2. observations' \in Seq(Observation)
        /\ DOMAIN observations' = DOMAIN observations
    <2>1. observations \in Seq(Observation) /\ Len(observations) \in Nat
          /\ DOMAIN observations = 1..Len(observations)
      BY DEF TypeOK
    <2>2. \A o \in DOMAIN observations :
            /\ observations[o] \in Observation
            /\ [observations[o] EXCEPT !.content = NONE, !.redacted = TRUE]
                 \in Observation
      <3> SUFFICES ASSUME NEW o \in DOMAIN observations
                   PROVE  /\ observations[o] \in Observation
                          /\ [observations[o] EXCEPT !.content = NONE,
                                                     !.redacted = TRUE]
                               \in Observation
        OBVIOUS
      <3>1. observations[o] \in Observation
        BY <2>1
      <3> QED BY <3>1 DEF Observation
    <2>3. observations' = [o \in DOMAIN observations |->
            IF o \in Exposed(e)
              THEN [observations[o] EXCEPT !.content = NONE, !.redacted = TRUE]
              ELSE observations[o]]
      BY DEF EraseFact
    <2>4. observations' \in [1..Len(observations) -> Observation]
      BY <2>1, <2>2, <2>3
    <2> QED BY <2>1, <2>4, FunctionIsSequence
  <1>3. conflicts' \in Seq(Conflict) /\ DOMAIN conflicts' = DOMAIN conflicts
    <2>1. conflicts \in Seq(Conflict) /\ Len(conflicts) \in Nat
          /\ DOMAIN conflicts = 1..Len(conflicts)
      BY DEF TypeOK
    <2>2. \A c \in DOMAIN conflicts : c \in Emptied(e) => Sole(c, e) \in Nat
      <3> SUFFICES ASSUME NEW c \in DOMAIN conflicts, c \in Emptied(e)
                   PROVE  Sole(c, e) \in Nat
        OBVIOUS
      <3>1. CASE MembersOf(c) = {e}
        BY <3>1 DEF Sole
      <3>2. CASE MembersOf(c) # {e}
        <4>1. \E i \in FactIds : i \in MembersOf(c) \ {e}
          BY <3>2 DEF Emptied, MembersOf
        <4>2. Sole(c, e) \in FactIds
          BY <3>2, <4>1 DEF Sole
        <4> QED BY <4>2, <1>0
      <3> QED BY <3>1, <3>2
    <2>3. \A c \in DOMAIN conflicts :
            /\ conflicts[c] \in Conflict
            /\ c \in Emptied(e) =>
                 [conflicts[c] EXCEPT !.resolved = TRUE,
                                      !.resolution = Sole(c, e)] \in Conflict
      <3> SUFFICES ASSUME NEW c \in DOMAIN conflicts
                   PROVE  /\ conflicts[c] \in Conflict
                          /\ c \in Emptied(e) =>
                               [conflicts[c] EXCEPT !.resolved = TRUE,
                                  !.resolution = Sole(c, e)] \in Conflict
        OBVIOUS
      <3>1. conflicts[c] \in Conflict
        BY <2>1
      <3>2. ASSUME NEW n \in Nat
            PROVE  [conflicts[c] EXCEPT !.resolved = TRUE, !.resolution = n]
                     \in Conflict
        BY <3>1 DEF Conflict
      <3> QED BY <3>1, <3>2, <2>2
    <2>4. conflicts' = [c \in DOMAIN conflicts |->
            IF c \in Emptied(e) /\ ~conflicts[c].resolved
              THEN [conflicts[c] EXCEPT !.resolved = TRUE,
                                        !.resolution = Sole(c, e)]
              ELSE conflicts[c]]
      BY DEF EraseFact
    <2>5. conflicts' \in [1..Len(conflicts) -> Conflict]
      BY <2>1, <2>3, <2>4
    <2> QED BY <2>1, <2>5, FunctionIsSequence
  <1>4. members' \subseteq (DOMAIN conflicts') \X FactIds'
    <2>1. members' \subseteq members
      BY DEF EraseFact
    <2>2. members \subseteq (DOMAIN conflicts) \X FactIds
      BY DEF TypeOK
    <2> QED BY <2>1, <2>2, <1>1, <1>3
  <1> QED BY <1>1, <1>2, <1>3, <1>4 DEF EraseFact, TypeOK

\* Every step keeps the types.
LEMMA NextTyped ==
  ASSUME TypeOK, [Next]_vars
  PROVE  TypeOK'
  <1>1. CASE \E x \in Contexts, r \in Requests : Write(x, r)
    BY <1>1, WriteTyped
  <1>2. CASE \E x \in Contexts, c \in DOMAIN conflicts, w \in FactIds :
               ResolveConflict(x, c, w)
    BY <1>2, ResolveTyped
  <1>3. CASE \E e \in Erasable : EraseFact(e)
    BY <1>3, EraseTyped
  <1>4. CASE \E f \in outbox : EmbedFact(f)
    <2>1. PICK f \in outbox : EmbedFact(f)
      BY <1>4
    <2>2. FactIds' = FactIds /\ f \in FactIds
      BY <2>1 DEF EmbedFact, FactIds, TypeOK
    <2> QED BY <2>1, <2>2 DEF EmbedFact, TypeOK
  <1>5. CASE StopServer
    <2>1. FactIds' = FactIds
      BY <1>5 DEF StopServer, FactIds
    <2> QED BY <1>5, <2>1 DEF StopServer, TypeOK
  <1>6. CASE StartServer
    <2>1. FactIds' = FactIds
      BY <1>6 DEF StartServer, FactIds
    <2> QED BY <1>6, <2>1 DEF StartServer, TypeOK, Uncovered
  <1>7. CASE UNCHANGED vars
    BY <1>7 DEF vars, TypeOK, FactIds
  <1> QED BY <1>1, <1>2, <1>3, <1>4, <1>5, <1>6, <1>7 DEF Next

\* The tables of the store are well formed in every state: ids name rows that
\* exist, whatever is written, resolved, erased or embedded.
THEOREM TypeCorrect == Spec => []TypeOK
  <1>1. Init => TypeOK
    BY DEF Init, TypeOK, FactIds
  <1>2. TypeOK /\ [Next]_vars => TypeOK'
    BY NextTyped
  <1> QED BY <1>1, <1>2, PTL DEF Spec

-----------------------------------------------------------------------------
(* What one step can do to the supersession links                          *)

\* The row at i of a table after Retire.
LEMMA RetireRow ==
  ASSUME NEW fs \in Seq(Fact), NEW ids, NEW by \in Nat, NEW i \in 1..Len(fs)
  PROVE  /\ fs[i] \in Fact
         /\ Retire(fs, ids, by)[i] = IF i \in ids THEN Superseded(fs[i], by)
                                                  ELSE fs[i]
  BY DEF Retire

\* Retiring nobody changes nothing.
LEMMA RetireNobody ==
  ASSUME NEW fs \in Seq(Fact), NEW by
  PROVE  Retire(fs, {}, by) = fs
  BY DEF Retire

\* What Superseded changes of a row.
LEMMA SupersededFields ==
  ASSUME NEW f \in Fact, NEW by \in Nat
  PROVE  /\ Superseded(f, by).superseded_by = by
         /\ Superseded(f, by).invalid
         /\ Superseded(f, by).content = f.content
         /\ Superseded(f, by).kind = f.kind
         /\ Superseded(f, by).scope = f.scope
         /\ Superseded(f, by).slot = f.slot
         /\ Superseded(f, by).conflict_group = f.conflict_group
  BY DEF Superseded, Fact

\* The row at i of a table after Flag.
LEMMA FlagRow ==
  ASSUME NEW fs \in Seq(Fact), NEW ids, NEW c \in Nat, NEW i \in 1..Len(fs)
  PROVE  /\ fs[i] \in Fact
         /\ Flag(fs, ids, c)[i] = IF i \in ids THEN Flagged(fs[i], c)
                                               ELSE fs[i]
  BY DEF Flag

\* What Flagged changes of a row.
LEMMA FlaggedFields ==
  ASSUME NEW f \in Fact, NEW c \in Nat
  PROVE  /\ Flagged(f, c).conflict_group = c
         /\ Flagged(f, c).superseded_by = f.superseded_by
         /\ Flagged(f, c).invalid <=> f.invalid
         /\ Flagged(f, c).content = f.content
         /\ Flagged(f, c).kind = f.kind
         /\ Flagged(f, c).scope = f.scope
         /\ Flagged(f, c).slot = f.slot
  BY DEF Flagged, Fact

\* The row at i of a table after Append.
LEMMA AppendRow ==
  ASSUME NEW T, NEW s \in Seq(T), NEW e \in T, NEW i \in 1..(Len(s) + 1)
  PROVE  Append(s, e)[i] = IF i = Len(s) + 1 THEN e ELSE s[i]
  OBVIOUS

\* A superseded fact is also invalid.
SupersededInvalid ==
  \A i \in FactIds : facts[i].superseded_by # 0 => facts[i].invalid

\* One step links facts to one successor at most, and that one is not itself
\* superseded; links, invalidity and contents are otherwise kept.
Links(by) ==
  /\ FactIds \subseteq FactIds'
  /\ by \in FactIds' => facts'[by].superseded_by = 0
  /\ \A i \in FactIds :
       /\ \/ facts'[i].superseded_by = facts[i].superseded_by
          \/ facts[i].superseded_by = 0 /\ facts'[i].superseded_by = by
       /\ facts[i].invalid => facts'[i].invalid
       /\ facts'[i].content = facts[i].content \/ facts'[i].kind = "erased"
  /\ \A i \in FactIds' \ FactIds : facts'[i].superseded_by \in {0, by}
  /\ \A i \in FactIds' : facts'[i].superseded_by # 0 => facts'[i].invalid

\* The two rows a write can insert are active.
LEMMA NewRowsActive ==
  ASSUME NEW r, NEW from, NEW group
  PROVE  /\ UntypedFact(r).superseded_by = 0 /\ ~UntypedFact(r).invalid
         /\ StateFact(r, from, group).superseded_by = 0
         /\ ~StateFact(r, from, group).invalid
  BY DEF UntypedFact, StateFact

\* A step that leaves the facts alone.
LEMMA UnchangedLinks ==
  ASSUME TypeOK, SupersededInvalid, UNCHANGED facts
  PROVE  Links(0)
  <1>1. FactIds' = FactIds /\ 0 \notin FactIds
    BY DEF TypeOK, FactIds
  <1> QED BY <1>1 DEF Links, SupersededInvalid

\* A write that inserts one active row and retires rows that were not
\* superseded, in favour of one that is not.
LEMMA InsertLinks ==
  ASSUME TypeOK, SupersededInvalid, NEW f \in Fact, NEW ids, NEW by \in Nat,
         f.superseded_by = 0, ~f.invalid,
         ids \subseteq FactIds \cup {NewId}, by \notin ids,
         \A i \in ids \cap FactIds : facts[i].superseded_by = 0,
         by \in FactIds => facts[by].superseded_by = 0,
         facts' = Retire(Append(facts, f), ids, by)
  PROVE  Links(by)
  <1>1. /\ facts \in Seq(Fact) /\ Len(facts) \in Nat
        /\ FactIds = 1..Len(facts) /\ NewId = Len(facts) + 1
    <2>1. facts \in Seq(Fact)
      BY DEF TypeOK
    <2> QED BY <2>1 DEF FactIds, NewId
  <1> DEFINE g == Append(facts, f)
  <1>2. g \in Seq(Fact) /\ Len(g) = Len(facts) + 1
    BY <1>1, AppendTyped
  <1>3. FactIds' = 1..(Len(facts) + 1)
    BY <1>1, InsertTyped
  <1>4. \A i \in FactIds' : g[i] = IF i = NewId THEN f ELSE facts[i]
    BY <1>1, <1>3, AppendRow
  <1>5. \A i \in FactIds' :
          /\ i \notin ids => facts'[i] = g[i]
          /\ i \in ids => /\ facts'[i].superseded_by = by
                          /\ facts'[i].invalid
                          /\ facts'[i].content = g[i].content
    <2> HIDE DEF g
    <2> SUFFICES ASSUME NEW i \in FactIds'
                 PROVE  /\ i \notin ids => facts'[i] = g[i]
                        /\ i \in ids => /\ facts'[i].superseded_by = by
                                        /\ facts'[i].invalid
                                        /\ facts'[i].content = g[i].content
      OBVIOUS
    <2>1. facts' = Retire(g, ids, by)
      BY DEF g
    <2>2. i \in 1..Len(g)
      BY <1>2, <1>3
    <2>3. g[i] \in Fact
          /\ facts'[i] = IF i \in ids THEN Superseded(g[i], by) ELSE g[i]
      BY <1>2, <2>1, <2>2, RetireRow
    <2> QED BY <2>3, SupersededFields
  <1> HIDE DEF g
  <1>6. FactIds \subseteq FactIds' /\ NewId \in FactIds' /\ NewId \notin FactIds
        /\ \A i \in FactIds' : i \in FactIds \/ i = NewId
    BY <1>1, <1>3
  <1>7. ASSUME by \in FactIds' PROVE facts'[by].superseded_by = 0
    BY <1>4, <1>5, <1>6, <1>7
  <1>8. ASSUME NEW i \in FactIds
        PROVE  /\ \/ facts'[i].superseded_by = facts[i].superseded_by
                  \/ facts[i].superseded_by = 0 /\ facts'[i].superseded_by = by
               /\ facts[i].invalid => facts'[i].invalid
               /\ facts'[i].content = facts[i].content
    BY <1>4, <1>5, <1>6
  <1>9. facts'[NewId].superseded_by \in {0, by}
    BY <1>4, <1>5, <1>6
  <1>10. ASSUME NEW i \in FactIds', facts'[i].superseded_by # 0
         PROVE  facts'[i].invalid
    BY <1>4, <1>5, <1>6, <1>10 DEF SupersededInvalid
  <1> QED BY <1>6, <1>7, <1>8, <1>9, <1>10 DEF Links

\* Every step of the store links facts to at most one unsuperseded successor.
LEMMA NextLinks ==
  ASSUME TypeOK, SupersededInvalid, [Next]_vars
  PROVE  \E by \in Nat : Links(by)
  <1>0. /\ facts \in Seq(Fact) /\ Len(facts) \in Nat
        /\ FactIds = 1..Len(facts) /\ FactIds \subseteq Nat
        /\ NewId = Len(facts) + 1 /\ NewId \in Nat /\ NewId \notin FactIds
    <2>1. facts \in Seq(Fact)
      BY DEF TypeOK
    <2> QED BY <2>1 DEF FactIds, NewId
  <1>1. ASSUME NEW x \in Contexts, NEW r \in Requests, Write(x, r)
        PROVE  \E by \in Nat : Links(by)
    <2>1. CASE UNCHANGED facts
      BY <2>1, UnchangedLinks
    <2>2. CASE AddState(x, r)
      <3>1. PICK from \in ValidFrom(r) :
              facts' = Append(facts, StateFact(r, from, 0))
        BY <2>2 DEF AddState
      <3>2. StateFact(r, from, 0) \in Fact
        BY NewRowsTyped, ValidFromTyped
      <3>3. Append(facts, StateFact(r, from, 0)) \in Seq(Fact)
        BY <1>0, <3>2, AppendTyped
      <3>4. facts' = Retire(Append(facts, StateFact(r, from, 0)), {}, NewId)
        BY <3>1, <3>3, RetireNobody
      <3>5. /\ StateFact(r, from, 0).superseded_by = 0
            /\ ~StateFact(r, from, 0).invalid
        BY NewRowsActive
      <3>6. Links(NewId)
        BY <1>0, <3>2, <3>4, <3>5, InsertLinks
      <3> QED BY <1>0, <3>6
    <2>3. CASE SupersedeState(x, r)
      <3>1. PICK from \in ValidFrom(r), e \in FactIds :
              /\ Supersedes(r, from, e)
              /\ facts' = Retire(Append(facts, StateFact(r, from, 0)), {e}, NewId)
        BY <2>3 DEF SupersedeState
      <3>2. StateFact(r, from, 0) \in Fact
        BY NewRowsTyped, ValidFromTyped
      <3>3. facts[e].superseded_by = 0
        BY <3>1 DEF Supersedes, Current, Active
      <3>4. /\ StateFact(r, from, 0).superseded_by = 0
            /\ ~StateFact(r, from, 0).invalid
        BY NewRowsActive
      <3>5. Links(NewId)
        BY <1>0, <3>1, <3>2, <3>3, <3>4, InsertLinks
      <3> QED BY <1>0, <3>5
    <2>4. CASE OpenConflict(x, r)
      <3> DEFINE c == Len(conflicts) + 1
                 h == Flag(facts, Current(r), c)
      <3>1. PICK from \in ValidFrom(r) : facts' = Append(h, StateFact(r, from, c))
        BY <2>4 DEF OpenConflict
      <3>2. c \in Nat
        BY DEF TypeOK
      <3>3. StateFact(r, from, c) \in Fact
        BY <3>2, NewRowsTyped, ValidFromTyped
      <3>4. h \in Seq(Fact) /\ Len(h) = Len(facts)
        BY <1>0, <3>2, FlagTyped
      <3>5. \A i \in FactIds : /\ h[i].superseded_by = facts[i].superseded_by
                               /\ h[i].invalid <=> facts[i].invalid
                               /\ h[i].content = facts[i].content
        <4> SUFFICES ASSUME NEW i \in FactIds
                     PROVE  /\ h[i].superseded_by = facts[i].superseded_by
                            /\ h[i].invalid <=> facts[i].invalid
                            /\ h[i].content = facts[i].content
          OBVIOUS
        <4>1. facts[i] \in Fact
              /\ h[i] = IF i \in Current(r) THEN Flagged(facts[i], c)
                                            ELSE facts[i]
          BY <1>0, <3>2, FlagRow
        <4> QED BY <3>2, <4>1, FlaggedFields
      <3> HIDE DEF h
      <3>6. FactIds' = 1..(Len(facts) + 1)
        BY <3>1, <3>3, <3>4, AppendTyped DEF FactIds
      <3>7. \A i \in FactIds' :
              facts'[i] = IF i = NewId THEN StateFact(r, from, c) ELSE h[i]
        BY <1>0, <3>1, <3>3, <3>4, <3>6, AppendRow
      <3>8. /\ FactIds \subseteq FactIds' /\ 0 \notin FactIds'
            /\ \A i \in FactIds' : i \in FactIds \/ i = NewId
            /\ NewId \in FactIds'
        BY <1>0, <3>6
      <3>9. facts'[NewId].superseded_by = 0 /\ ~facts'[NewId].invalid
        <4>1. facts'[NewId] = StateFact(r, from, c)
          BY <3>7, <3>8
        <4> QED BY <4>1, NewRowsActive
      <3>10. \A i \in FactIds : facts'[i] = h[i]
        BY <1>0, <3>7, <3>8
      <3>11. Links(0)
        BY <3>5, <3>8, <3>9, <3>10 DEF Links, SupersededInvalid
      <3> QED BY <3>11
    <2>5. CASE JoinConflict(x, r)
      <3>1. PICK from \in ValidFrom(r), c \in DOMAIN conflicts :
              facts' = Append(facts, StateFact(r, from, c))
        BY <2>5 DEF JoinConflict
      <3>2. c \in Nat
        BY DEF TypeOK
      <3>3. StateFact(r, from, c) \in Fact
        BY <3>2, NewRowsTyped, ValidFromTyped
      <3>4. Append(facts, StateFact(r, from, c)) \in Seq(Fact)
        BY <1>0, <3>3, AppendTyped
      <3>5. facts' = Retire(Append(facts, StateFact(r, from, c)), {}, NewId)
        BY <3>1, <3>4, RetireNobody
      <3>6. /\ StateFact(r, from, c).superseded_by = 0
            /\ ~StateFact(r, from, c).invalid
        BY NewRowsActive
      <3>7. Links(NewId)
        BY <1>0, <3>3, <3>5, <3>6, InsertLinks
      <3> QED BY <1>0, <3>7
    <2>6. CASE DedupUntyped(x, r)
      <3>1. PICK t \in Duplicates(r) :
              CanReplace(r, t) /\ facts' = Retire(facts, Replaced(r), t)
        BY <2>6 DEF DedupUntyped
      <3>2. t \in FactIds /\ t \in Nat /\ facts[t].superseded_by = 0
        BY <1>0 DEF Duplicates, Settled, Active
      <3>3. /\ Replaced(r) \subseteq FactIds /\ t \notin Replaced(r)
            /\ \A i \in Replaced(r) : facts[i].superseded_by = 0
        BY <3>1 DEF CanReplace, Replaced, Settled, Active
      <3>4. FactIds' = FactIds
        BY <1>0, <3>1, <3>2, RetireTyped DEF FactIds
      <3>5. \A i \in FactIds :
              /\ i \notin Replaced(r) => facts'[i] = facts[i]
              /\ i \in Replaced(r) => /\ facts'[i].superseded_by = t
                                      /\ facts'[i].invalid
                                      /\ facts'[i].content = facts[i].content
        <4> SUFFICES ASSUME NEW i \in FactIds
                     PROVE  /\ i \notin Replaced(r) => facts'[i] = facts[i]
                            /\ i \in Replaced(r) =>
                                 /\ facts'[i].superseded_by = t
                                 /\ facts'[i].invalid
                                 /\ facts'[i].content = facts[i].content
          OBVIOUS
        <4>1. facts[i] \in Fact
              /\ facts'[i] = IF i \in Replaced(r) THEN Superseded(facts[i], t)
                                                  ELSE facts[i]
          BY <1>0, <3>1, <3>2, RetireRow
        <4> QED BY <3>2, <4>1, SupersededFields
      <3>6. Links(t)
        BY <3>2, <3>3, <3>4, <3>5 DEF Links, SupersededInvalid
      <3> QED BY <3>2, <3>6
    <2>7. CASE InsertUntyped(x, r)
      <3>1. facts' = Retire(Append(facts, UntypedFact(r)), Replaced(r), NewId)
            /\ CanReplace(r, NewId)
        BY <2>7 DEF InsertUntyped
      <3>2. UntypedFact(r) \in Fact
        BY NewRowsTyped
      <3>3. /\ Replaced(r) \subseteq FactIds
            /\ \A i \in Replaced(r) : facts[i].superseded_by = 0
        BY <3>1 DEF CanReplace, Replaced, Settled, Active
      <3>4. UntypedFact(r).superseded_by = 0 /\ ~UntypedFact(r).invalid
        BY NewRowsActive
      <3>5. Links(NewId)
        BY <1>0, <3>1, <3>2, <3>3, <3>4, InsertLinks
      <3> QED BY <1>0, <3>5
    <2>8. CASE NearDuplicateLoses(x, r)
      <3>1. PICK d \in FactIds :
              /\ BestNear(r, d)
              /\ facts' = Retire(Append(facts, UntypedFact(r)), {d}, NewId)
        BY <2>8 DEF NearDuplicateLoses
      <3>2. UntypedFact(r) \in Fact /\ facts[d].superseded_by = 0
        BY <3>1, NewRowsTyped DEF BestNear, NearDuplicates, Settled, Active
      <3>3. UntypedFact(r).superseded_by = 0 /\ ~UntypedFact(r).invalid
        BY NewRowsActive
      <3>4. Links(NewId)
        BY <1>0, <3>1, <3>2, <3>3, InsertLinks
      <3> QED BY <1>0, <3>4
    <2>9. CASE NearDuplicateWins(x, r)
      <3>1. PICK d \in FactIds :
              /\ BestNear(r, d)
              /\ facts' = Retire(Append(facts, UntypedFact(r)), {NewId}, d)
        BY <2>9 DEF NearDuplicateWins
      <3>2. UntypedFact(r) \in Fact /\ facts[d].superseded_by = 0 /\ d \in Nat
        BY <1>0, <3>1, NewRowsTyped DEF BestNear, NearDuplicates, Settled, Active
      <3>3. UntypedFact(r).superseded_by = 0 /\ ~UntypedFact(r).invalid
        BY NewRowsActive
      <3>4. Links(d)
        BY <1>0, <3>1, <3>2, <3>3, InsertLinks
      <3> QED BY <3>2, <3>4
    <2> QED BY <1>1, <2>1, <2>2, <2>3, <2>4, <2>5, <2>6, <2>7, <2>8, <2>9
            DEF Write, ReplayWrite, RefuseWrite, MatchState, vars
  <1>2. ASSUME NEW x \in Contexts, NEW c \in DOMAIN conflicts, NEW w \in FactIds,
               ResolveConflict(x, c, w)
        PROVE  \E by \in Nat : Links(by)
    <2> DEFINE losers == MembersOf(c) \ {w}
               h == Retire(facts, losers, w)
    <2>1. facts' = Flag(h, {w}, 0) /\ Resolvable(c, w)
      BY <1>2 DEF ResolveConflict
    <2>2. h \in Seq(Fact) /\ Len(h) = Len(facts) /\ w \in Nat
      BY <1>0, RetireTyped
    <2>3. \A i \in FactIds :
            /\ i \notin losers => h[i] = facts[i]
            /\ i \in losers => /\ h[i].superseded_by = w
                               /\ h[i].invalid
                               /\ h[i].content = facts[i].content
      <3> SUFFICES ASSUME NEW i \in FactIds
                   PROVE  /\ i \notin losers => h[i] = facts[i]
                          /\ i \in losers => /\ h[i].superseded_by = w
                                             /\ h[i].invalid
                                             /\ h[i].content = facts[i].content
        OBVIOUS
      <3>1. facts[i] \in Fact
            /\ h[i] = IF i \in losers THEN Superseded(facts[i], w) ELSE facts[i]
        BY <1>0, <2>2, RetireRow
      <3> QED BY <2>2, <3>1, SupersededFields
    <2>4. \A i \in losers : i \in FactIds /\ facts[i].superseded_by = 0
      BY <2>1 DEF Resolvable, MembersOf, SupersededInvalid
    <2>5. facts[w].superseded_by = 0 /\ w \notin losers
      BY <2>1 DEF Resolvable, Active
    <2> HIDE DEF h, losers
    <2>6. FactIds' = FactIds
      BY <1>0, <2>1, <2>2, FlagTyped DEF FactIds
    <2>7. \A i \in FactIds : /\ facts'[i].superseded_by = h[i].superseded_by
                             /\ facts'[i].invalid <=> h[i].invalid
                             /\ facts'[i].content = h[i].content
      <3> SUFFICES ASSUME NEW i \in FactIds
                   PROVE  /\ facts'[i].superseded_by = h[i].superseded_by
                          /\ facts'[i].invalid <=> h[i].invalid
                          /\ facts'[i].content = h[i].content
        OBVIOUS
      <3>1. h[i] \in Fact
            /\ facts'[i] = IF i \in {w} THEN Flagged(h[i], 0) ELSE h[i]
        BY <1>0, <2>1, <2>2, FlagRow
      <3> QED BY <3>1, FlaggedFields
    <2>8. Links(w)
      BY <2>3, <2>4, <2>5, <2>6, <2>7 DEF Links, SupersededInvalid
    <2> QED BY <2>2, <2>8
  <1>3. ASSUME NEW e \in Erasable, EraseFact(e)
        PROVE  \E by \in Nat : Links(by)
    <2>1. e \in FactIds /\ facts' = [i \in FactIds |-> ErasedRow(e, i)]
      BY <1>3 DEF EraseFact
    <2>2. FactIds' = FactIds /\ 0 \notin FactIds
      BY <1>0, <2>1 DEF FactIds
    <2>3. \A i \in FactIds :
            /\ facts'[i].superseded_by = facts[i].superseded_by
            /\ facts[i].invalid => facts'[i].invalid
            /\ facts'[i].content = facts[i].content \/ facts'[i].kind = "erased"
      <3> SUFFICES ASSUME NEW i \in FactIds
                   PROVE  /\ facts'[i].superseded_by = facts[i].superseded_by
                          /\ facts[i].invalid => facts'[i].invalid
                          /\ \/ facts'[i].content = facts[i].content
                             \/ facts'[i].kind = "erased"
        OBVIOUS
      <3>1. facts[i] \in Fact /\ facts'[i] = ErasedRow(e, i)
        BY <1>0, <2>1
      <3>2. CASE i = e
        <4>1. /\ Scrubbed(facts[i]).superseded_by = facts[i].superseded_by
              /\ Scrubbed(facts[i]).invalid
              /\ Scrubbed(facts[i]).kind = "erased"
          BY <3>1 DEF Scrubbed, Fact
        <4> QED BY <3>1, <3>2, <4>1 DEF ErasedRow
      <3>3. CASE i # e
        <4> DEFINE b == facts[i].invalid \/ i \in Citing(e)
                   g == IF i \in LastMembers(e) THEN 0 ELSE facts[i].conflict_group
                   row == [facts[i] EXCEPT !.invalid = b, !.conflict_group = g]
        <4>1. facts[i].invalid => b
          OBVIOUS
        <4>2. facts'[i] = row
          BY <3>1, <3>3 DEF ErasedRow
        <4> HIDE DEF b, g
        <4>3. /\ row.superseded_by = facts[i].superseded_by
              /\ row.invalid <=> b
              /\ row.content = facts[i].content
          BY <3>1 DEF Fact
        <4> HIDE DEF row
        <4> QED BY <4>1, <4>2, <4>3
      <3> QED BY <3>2, <3>3
    <2>4. Links(0)
      BY <2>2, <2>3 DEF Links, SupersededInvalid
    <2> QED BY <2>4
  <1>4. CASE UNCHANGED facts
    BY <1>4, UnchangedLinks
  <1> QED BY <1>1, <1>2, <1>3, <1>4
          DEF Next, EmbedFact, StopServer, StartServer, vars

\* The invariant behind the two theorems on history: links only leave
\* invalid facts, so nothing a step retires was superseded before.
LinkInv == TypeOK /\ SupersededInvalid

\* LinkInv is inductive.
LEMMA LinkInvariant == Spec => []LinkInv
  <1>1. Init => LinkInv
    BY DEF Init, LinkInv, TypeOK, SupersededInvalid, FactIds
  <1>2. ASSUME LinkInv, [Next]_vars PROVE LinkInv'
    <2>1. TypeOK /\ SupersededInvalid
      BY <1>2 DEF LinkInv
    <2>2. TypeOK'
      BY <1>2, <2>1, NextTyped
    <2>3. PICK by \in Nat : Links(by)
      BY <1>2, <2>1, NextLinks
    <2>4. SupersededInvalid'
      BY <2>3 DEF Links, SupersededInvalid
    <2> QED BY <2>2, <2>4 DEF LinkInv
  <1> QED BY <1>1, <1>2, PTL DEF Spec

\* Linking facts to one successor that has none closes no cycle.
LEMMA LinksAcyclic ==
  ASSUME TypeOK', NEW by \in Nat, Links(by), NoSupersessionCycle
  PROVE  NoSupersessionCycle'
  <1>0. 0 \notin FactIds'
    <2>1. facts' \in Seq(Fact)
      BY DEF TypeOK
    <2> QED BY <2>1 DEF FactIds
  <1> SUFFICES ASSUME NEW S \in SUBSET FactIds', S # {}
               PROVE  \E i \in S : facts'[i].superseded_by \notin S
    BY DEF NoSupersessionCycle
  <1>1. CASE by \in S
    BY <1>0, <1>1 DEF Links
  <1>2. CASE by \notin S /\ \E i \in S : facts'[i].superseded_by \in {0, by}
    BY <1>0, <1>2
  <1>3. CASE by \notin S /\ \A i \in S : facts'[i].superseded_by \notin {0, by}
    <2>1. \A i \in S : /\ i \in FactIds
                       /\ facts'[i].superseded_by = facts[i].superseded_by
      BY <1>3 DEF Links
    <2>2. S \in SUBSET FactIds
      BY <2>1
    <2>3. \E i \in S : facts[i].superseded_by \notin S
      BY <2>2 DEF NoSupersessionCycle
    <2> QED BY <2>1, <2>3
  <1> QED BY <1>1, <1>2, <1>3

\* Following superseded_by always ends, whichever mix of typed supersession,
\* explicit targets, duplicates and conflict resolutions wrote the links.
THEOREM SupersessionAcyclic == Spec => []NoSupersessionCycle
  <1>1. Init => NoSupersessionCycle
    BY DEF Init, NoSupersessionCycle, FactIds
  <1>2. ASSUME LinkInv, LinkInv', NoSupersessionCycle, [Next]_vars
        PROVE  NoSupersessionCycle'
    <2>1. TypeOK /\ SupersededInvalid /\ TypeOK'
      BY <1>2 DEF LinkInv
    <2>2. PICK by \in Nat : Links(by)
      BY <1>2, <2>1, NextLinks
    <2> QED BY <1>2, <2>1, <2>2, LinksAcyclic
  <1> QED BY <1>1, <1>2, LinkInvariant, PTL DEF Spec

\* The step property that HistoryAppendOnly asserts of every step.
KeepsHistory ==
  /\ Len(facts') >= Len(facts)
  /\ \A i \in FactIds :
       /\ ~Active(facts[i]) => ~Active(facts'[i])
       /\ facts[i].superseded_by # 0
            => facts'[i].superseded_by = facts[i].superseded_by
       /\ facts'[i].content # facts[i].content
            => facts'[i].kind = "erased"

\* No write, resolution or erasure removes a fact, reactivates one, rewrites a
\* successor or changes content other than by erasure.
THEOREM HistoryPreserved == Spec => HistoryAppendOnly
  <1>1. ASSUME LinkInv, LinkInv', [Next]_vars PROVE KeepsHistory
    <2>1. TypeOK /\ SupersededInvalid /\ TypeOK'
      BY <1>1 DEF LinkInv
    <2>2. PICK by \in Nat : Links(by)
      BY <1>1, <2>1, NextLinks
    <2>3. Len(facts') >= Len(facts)
      <3>1. /\ Len(facts) \in Nat /\ FactIds = 1..Len(facts)
            /\ Len(facts') \in Nat /\ FactIds' = 1..Len(facts')
        <4>1. facts \in Seq(Fact) /\ facts' \in Seq(Fact)
          BY <2>1 DEF TypeOK
        <4> QED BY <4>1 DEF FactIds
      <3>2. FactIds \subseteq FactIds'
        BY <2>2 DEF Links
      <3>3. CASE Len(facts) = 0
        BY <3>1, <3>3
      <3>4. CASE Len(facts) # 0
        <4>1. Len(facts) \in FactIds
          BY <3>1, <3>4
        <4> QED BY <3>1, <3>2, <4>1
      <3> QED BY <3>3, <3>4
    <2>4. ASSUME NEW i \in FactIds
          PROVE  /\ ~Active(facts[i]) => ~Active(facts'[i])
                 /\ facts[i].superseded_by # 0
                      => facts'[i].superseded_by = facts[i].superseded_by
                 /\ facts'[i].content # facts[i].content
                      => facts'[i].kind = "erased"
      BY <2>1, <2>2 DEF Links, Active, SupersededInvalid
    <2> QED BY <2>3, <2>4 DEF KeepsHistory
  <1>2. LinkInv /\ LinkInv' /\ [Next]_vars => [KeepsHistory]_vars
    BY <1>1
  <1>3. Spec => [][KeepsHistory]_vars
    BY <1>2, LinkInvariant, PTL DEF Spec
  <1> QED BY <1>3 DEF HistoryAppendOnly, KeepsHistory
=============================================================================
