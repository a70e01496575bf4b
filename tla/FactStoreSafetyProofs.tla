----------------------- MODULE FactStoreSafetyProofs -----------------------
(***************************************************************************)
(* Machine-checked theorems about the state slots, the evidence and the    *)
(* idempotency log of FactStore, erasure included, and its refinements of  *)
(* EmbeddingCoverage and StateSlot, for every value of its constants that  *)
(* satisfies ConstantsAssumption and the hypotheses a theorem names.       *)
(***************************************************************************)
EXTENDS FactStoreProofs, FiniteSetTheorems

-----------------------------------------------------------------------------
(* The inductive invariant of slots and conflicts                          *)

Open(c) == c \in DOMAIN conflicts /\ ~conflicts[c].resolved

\* A fact of two conflicts: the winner of an earlier one was contested again.
\* Erasing the other members of the earlier conflict clears its flag although
\* the later one is open, so nothing is known of the flag of such a fact.
Twice(i) == \E c, d \in DOMAIN conflicts :
              c # d /\ <<c, i>> \in members /\ <<d, i>> \in members

SameSlot(f, g) == f.kind = g.kind /\ f.scope = g.scope /\ f.slot = g.slot

\* Flags of active facts are those of open conflicts they are members of.
FlagsOpen ==
  \A i \in FactIds : Active(facts[i]) /\ facts[i].conflict_group # 0 =>
    Open(facts[i].conflict_group) /\ <<facts[i].conflict_group, i>> \in members

\* An open conflict has two members or more, all of its slot; but for one that
\* may be in an earlier conflict too, they are active and carry its flag.
OpenConflicts ==
  \A c \in DOMAIN conflicts : Open(c) =>
    /\ \E i, j \in FactIds : i # j /\ <<c, i>> \in members /\ <<c, j>> \in members
    /\ \A i \in FactIds : <<c, i>> \in members =>
         /\ facts[i].kind = "state"
         /\ facts[i].scope = conflicts[c].scope /\ facts[i].slot = conflicts[c].slot
         /\ ~Twice(i) => Active(facts[i]) /\ facts[i].conflict_group = c
    /\ \A i, j \in FactIds :
         (i # j /\ <<c, i>> \in members /\ <<c, j>> \in members)
            => ~Twice(i) \/ ~Twice(j)

\* Two active facts of one slot are members of one open conflict.
RivalsContested ==
  \A i, j \in FactIds :
    ( /\ i # j /\ facts[i].kind = "state" /\ SameSlot(facts[i], facts[j])
      /\ Active(facts[i]) /\ Active(facts[j]) ) =>
      \E c \in DOMAIN conflicts :
        Open(c) /\ <<c, i>> \in members /\ <<c, j>> \in members

\* Typed facts cite nothing, so erasure retires none of them as an insight;
\* and an erased fact is not active.
RowsSound ==
  \A i \in FactIds : /\ facts[i].kind = "state" => facts[i].cites = {}
                     /\ facts[i].kind = "erased" => ~Active(facts[i])

SlotInv == FlagsOpen /\ OpenConflicts /\ RivalsContested /\ RowsSound

-----------------------------------------------------------------------------
(* What the row updates keep                                               *)

\* What no update but erasure changes of a row.
Kin(g, f) ==
  /\ g.kind = f.kind /\ g.scope = f.scope /\ g.slot = f.slot /\ g.cites = f.cites
  /\ g.authority = f.authority /\ g.trust = f.trust /\ g.protected = f.protected

LEMMA SupersededKin ==
  ASSUME NEW f \in Fact, NEW by \in Nat
  PROVE  /\ Kin(Superseded(f, by), f) /\ ~Active(Superseded(f, by))
         /\ Superseded(f, by).superseded_by = by
         /\ Superseded(f, by).conflict_group = f.conflict_group
  BY DEF Superseded, Fact, Kin, Active

LEMMA FlaggedKin ==
  ASSUME NEW f \in Fact, NEW c \in Nat
  PROVE  /\ Kin(Flagged(f, c), f) /\ Flagged(f, c).conflict_group = c
         /\ Active(Flagged(f, c)) <=> Active(f)
         /\ Flagged(f, c).superseded_by = f.superseded_by
  BY DEF Flagged, Fact, Kin, Active

LEMMA NewRowsFields ==
  ASSUME NEW r \in Requests, NEW from, NEW group
  PROVE  /\ UntypedFact(r).kind = "untyped" /\ UntypedFact(r).conflict_group = 0
         /\ UntypedFact(r).scope = r.scope /\ Active(UntypedFact(r))
         /\ StateFact(r, from, group).kind = "state"
         /\ StateFact(r, from, group).conflict_group = group
         /\ StateFact(r, from, group).scope = r.scope
         /\ StateFact(r, from, group).slot = r.slot
         /\ StateFact(r, from, group).cites = r.cites
         /\ Active(StateFact(r, from, group))
  BY DEF UntypedFact, StateFact, Active

\* Ids are positive and consecutive.
LEMMA Ids ==
  ASSUME TypeOK
  PROVE  /\ facts \in Seq(Fact) /\ Len(facts) \in Nat /\ FactIds = 1..Len(facts)
         /\ FactIds \subseteq Nat /\ NewId = Len(facts) + 1 /\ NewId \in Nat
         /\ NewId # 0 /\ NewId \notin FactIds
         /\ conflicts \in Seq(Conflict) /\ Len(conflicts) \in Nat
         /\ DOMAIN conflicts = 1..Len(conflicts) /\ 0 \notin DOMAIN conflicts
         /\ \A i \in FactIds : facts[i] \in Fact
         /\ \A c, i : <<c, i>> \in members => c \in DOMAIN conflicts /\ i \in FactIds
  <1>1. facts \in Seq(Fact) /\ conflicts \in Seq(Conflict)
    BY DEF TypeOK
  <1>2. \A c, i : <<c, i>> \in members => c \in DOMAIN conflicts /\ i \in FactIds
    BY DEF TypeOK
  <1> QED BY <1>1, <1>2 DEF FactIds, NewId

\* A write that inserts an active row and retires some.
LEMMA InsertEffect ==
  ASSUME TypeOK, NEW f \in Fact, Active(f), NEW ids, NEW by \in Nat,
         facts' = Retire(Append(facts, f), ids, by)
  PROVE  /\ FactIds' = FactIds \cup {NewId} /\ NewId \in FactIds'
         /\ \A i \in FactIds :
              /\ i \notin ids => facts'[i] = facts[i]
              /\ i \in ids => /\ Kin(facts'[i], facts[i]) /\ ~Active(facts'[i])
                              /\ facts'[i].conflict_group = facts[i].conflict_group
                              /\ facts'[i].superseded_by = by
         /\ NewId \notin ids => facts'[NewId] = f
         /\ NewId \in ids => /\ Kin(facts'[NewId], f) /\ ~Active(facts'[NewId])
                             /\ facts'[NewId].conflict_group = f.conflict_group
  <1> DEFINE g == Append(facts, f)
  <1>1. /\ g \in Seq(Fact) /\ Len(g) = Len(facts) + 1
        /\ \A i \in 1..(Len(facts) + 1) : g[i] = IF i = Len(facts) + 1 THEN f ELSE facts[i]
    BY Ids, AppendTyped, AppendRow
  <1>2. FactIds' = 1..(Len(facts) + 1)
    BY Ids, InsertTyped
  <1> HIDE DEF g
  <1>3. ASSUME NEW i \in FactIds'
        PROVE  /\ i \notin ids => facts'[i] = g[i]
               /\ i \in ids => /\ Kin(facts'[i], g[i]) /\ ~Active(facts'[i])
                               /\ facts'[i].conflict_group = g[i].conflict_group
                               /\ facts'[i].superseded_by = by
    <2>1. facts' = Retire(g, ids, by) /\ i \in 1..Len(g)
      BY <1>1, <1>2 DEF g
    <2>2. g[i] \in Fact
          /\ facts'[i] = IF i \in ids THEN Superseded(g[i], by) ELSE g[i]
      BY <1>1, <2>1, RetireRow
    <2> QED BY <2>2, SupersededKin
  <1>4. g[NewId] = f /\ NewId \in FactIds' /\ FactIds' = FactIds \cup {NewId}
    BY <1>1, <1>2, Ids
  <1>5. \A i \in FactIds : g[i] = facts[i]
    BY <1>1, Ids
  <1> QED BY <1>3, <1>4, <1>5

\* The same without retirement.
LEMMA AppendEffect ==
  ASSUME TypeOK, NEW f \in Fact, Active(f), facts' = Append(facts, f)
  PROVE  /\ FactIds' = FactIds \cup {NewId} /\ NewId \in FactIds'
         /\ \A i \in FactIds : facts'[i] = facts[i]
         /\ facts'[NewId] = f
  <1>1. facts' = Retire(Append(facts, f), {}, NewId)
    BY Ids, AppendTyped, RetireNobody
  <1> QED BY <1>1, Ids, InsertEffect

\* The incumbents are flagged and an active row is inserted.
LEMMA ContestEffect ==
  ASSUME TypeOK, NEW f \in Fact, NEW ids, NEW c \in Nat,
         facts' = Append(Flag(facts, ids, c), f)
  PROVE  /\ FactIds' = FactIds \cup {NewId} /\ Len(facts') = Len(facts) + 1
         /\ facts'[NewId] = f
         /\ \A i \in FactIds :
              /\ Kin(facts'[i], facts[i]) /\ (Active(facts'[i]) <=> Active(facts[i]))
              /\ facts'[i].superseded_by = facts[i].superseded_by
              /\ i \in ids => facts'[i].conflict_group = c
              /\ i \notin ids => facts'[i] = facts[i]
  <1> DEFINE h == Flag(facts, ids, c)
  <1>1. h \in Seq(Fact) /\ Len(h) = Len(facts)
    BY Ids, FlagTyped
  <1>2. ASSUME NEW i \in FactIds
        PROVE  /\ Kin(h[i], facts[i]) /\ (Active(h[i]) <=> Active(facts[i]))
               /\ h[i].superseded_by = facts[i].superseded_by
               /\ i \in ids => h[i].conflict_group = c
               /\ i \notin ids => h[i] = facts[i]
    <2>1. facts[i] \in Fact
          /\ h[i] = IF i \in ids THEN Flagged(facts[i], c) ELSE facts[i]
      BY Ids, FlagRow
    <2> QED BY <2>1, FlaggedKin DEF Kin
  <1> HIDE DEF h
  <1>3. facts' = Append(h, f)
    BY DEF h
  <1>4. FactIds' = 1..(Len(facts) + 1) /\ Len(facts') = Len(facts) + 1
    BY <1>1, <1>3, AppendTyped DEF FactIds
  <1>5. \A i \in 1..(Len(facts) + 1) : facts'[i] = IF i = Len(facts) + 1 THEN f ELSE h[i]
    BY <1>1, <1>3, AppendRow
  <1>6. FactIds' = FactIds \cup {NewId} /\ facts'[NewId] = f
        /\ \A i \in FactIds : facts'[i] = h[i]
    BY <1>4, <1>5, Ids
  <1> QED BY <1>2, <1>4, <1>6

-----------------------------------------------------------------------------
(* Steps outside conflicts                                                 *)

\* Rows are inserted without a flag and retired only if they carry none.
Plain ==
  /\ UNCHANGED <<conflicts, members>>
  /\ FactIds \subseteq FactIds'
  /\ \A i \in FactIds :
       /\ Kin(facts'[i], facts[i])
       /\ facts'[i].conflict_group = facts[i].conflict_group
       /\ Active(facts'[i]) => Active(facts[i])
       /\ Active(facts[i]) /\ ~Active(facts'[i]) =>
            facts[i].kind # "state" \/ facts[i].conflict_group = 0
  /\ \A n \in FactIds' \ FactIds :
       /\ facts'[n].conflict_group = 0 /\ facts'[n].kind # "erased"
       /\ facts'[n].kind = "state" => facts'[n].cites = {}
       /\ facts'[n].kind = "state" =>
            \A j \in FactIds' : j # n /\ SameSlot(facts'[j], facts'[n]) => ~Active(facts'[j])

LEMMA PlainKeeps ==
  ASSUME TypeOK, SlotInv, Plain
  PROVE  SlotInv'
  <1>1. /\ DOMAIN conflicts' = DOMAIN conflicts
        /\ \A c : Open(c)' <=> Open(c)
        /\ \A i : Twice(i)' <=> Twice(i)
    BY DEF Plain, Open, Twice
  <1>2. FlagsOpen'
    BY <1>1 DEF SlotInv, FlagsOpen, Plain
  <1>3. OpenConflicts'
    <2> SUFFICES ASSUME NEW c \in DOMAIN conflicts, Open(c)
                 PROVE  /\ \E i, j \in FactIds' :
                             i # j /\ <<c, i>> \in members /\ <<c, j>> \in members
                        /\ \A i \in FactIds' : <<c, i>> \in members =>
                             /\ facts'[i].kind = "state"
                             /\ facts'[i].scope = conflicts[c].scope
                             /\ facts'[i].slot = conflicts[c].slot
                             /\ ~Twice(i) => /\ Active(facts'[i])
                                             /\ facts'[i].conflict_group = c
                        /\ \A i, j \in FactIds' :
                             (i # j /\ <<c, i>> \in members /\ <<c, j>> \in members)
                                => ~Twice(i) \/ ~Twice(j)
      BY <1>1 DEF OpenConflicts, Plain
    <2>1. c # 0 /\ \A i : <<c, i>> \in members => i \in FactIds
      BY Ids
    <2>2. /\ \E i, j \in FactIds : i # j /\ <<c, i>> \in members /\ <<c, j>> \in members
          /\ \A i \in FactIds : <<c, i>> \in members =>
               /\ facts[i].kind = "state"
               /\ facts[i].scope = conflicts[c].scope /\ facts[i].slot = conflicts[c].slot
               /\ ~Twice(i) => Active(facts[i]) /\ facts[i].conflict_group = c
          /\ \A i, j \in FactIds :
               (i # j /\ <<c, i>> \in members /\ <<c, j>> \in members)
                  => ~Twice(i) \/ ~Twice(j)
      BY DEF SlotInv, OpenConflicts
    <2>3. FactIds \subseteq FactIds' /\ \A i \in FactIds :
            /\ Kin(facts'[i], facts[i])
            /\ facts'[i].conflict_group = facts[i].conflict_group
            /\ Active(facts[i]) /\ ~Active(facts'[i]) =>
                 facts[i].kind # "state" \/ facts[i].conflict_group = 0
      BY DEF Plain
    <2> QED BY <2>1, <2>2, <2>3 DEF Kin
  <1>4. RivalsContested'
    <2> SUFFICES ASSUME NEW i \in FactIds', NEW j \in FactIds', i # j,
                        facts'[i].kind = "state", SameSlot(facts'[i], facts'[j]),
                        Active(facts'[i]), Active(facts'[j])
                 PROVE  \E c \in DOMAIN conflicts :
                          Open(c) /\ <<c, i>> \in members /\ <<c, j>> \in members
      BY <1>1 DEF RivalsContested, Plain
    <2>1. facts'[j].kind = "state" /\ SameSlot(facts'[j], facts'[i])
      BY DEF SameSlot
    <2>2. i \in FactIds /\ j \in FactIds
      BY <2>1 DEF Plain
    <2>3. /\ facts[i].kind = "state" /\ SameSlot(facts[i], facts[j])
          /\ Active(facts[i]) /\ Active(facts[j])
      BY <2>2 DEF Plain, Kin, SameSlot
    <2> QED BY <2>2, <2>3 DEF SlotInv, RivalsContested
  <1>5. RowsSound'
    BY DEF SlotInv, RowsSound, Plain, Kin
  <1> QED BY <1>2, <1>3, <1>4, <1>5 DEF SlotInv

\* A step that leaves facts and conflicts alone is plain.
LEMMA QuietPlain ==
  ASSUME UNCHANGED <<facts, conflicts, members>>
  PROVE  Plain
  BY DEF Plain, FactIds, Kin

\* A typed request cites nothing.
LEMMA TypedCites ==
  ASSUME NEW r \in Requests, r.slot # NONE
  PROVE  r.cites = {}
  BY ConstantsAssumption

LEMMA AddStatePlain ==
  ASSUME TypeOK, NEW x \in Contexts, NEW r \in Requests, AddState(x, r)
  PROVE  Plain
  <1>1. PICK from \in ValidFrom(r) : facts' = Append(facts, StateFact(r, from, 0))
    BY DEF AddState
  <1> DEFINE f == StateFact(r, from, 0)
  <1>2. /\ f \in Fact /\ Active(f) /\ f.kind = "state" /\ f.conflict_group = 0
        /\ f.scope = r.scope /\ f.slot = r.slot /\ f.cites = {}
    BY NewRowsTyped, ValidFromTyped, NewRowsFields, TypedCites DEF AddState
  <1> HIDE DEF f
  <1>3. /\ FactIds' = FactIds \cup {NewId} /\ \A i \in FactIds : facts'[i] = facts[i]
        /\ facts'[NewId] = f
    BY <1>1, <1>2, AppendEffect DEF f
  <1>4. \A j \in FactIds : SameSlot(facts[j], f) => ~Active(facts[j])
    BY <1>2 DEF AddState, Adds, Current, SameSlot
  <1> QED BY <1>2, <1>3, <1>4 DEF Plain, Kin, AddState

LEMMA SupersedeStatePlain ==
  ASSUME TypeOK, NEW x \in Contexts, NEW r \in Requests, SupersedeState(x, r)
  PROVE  Plain
  <1>1. PICK from \in ValidFrom(r), e \in FactIds :
          /\ Supersedes(r, from, e)
          /\ facts' = Retire(Append(facts, StateFact(r, from, 0)), {e}, NewId)
    BY DEF SupersedeState
  <1> DEFINE f == StateFact(r, from, 0)
  <1>2. /\ f \in Fact /\ Active(f) /\ f.kind = "state" /\ f.conflict_group = 0
        /\ f.scope = r.scope /\ f.slot = r.slot /\ f.cites = {}
    BY NewRowsTyped, ValidFromTyped, NewRowsFields, TypedCites DEF SupersedeState
  <1>3. Current(r) = {e} /\ facts[e].conflict_group = 0 /\ Active(facts[e])
    <2>1. Current(r) = {e} /\ facts[e].conflict_group = 0
      BY <1>1 DEF Supersedes, Contested
    <2> QED BY <2>1 DEF Current
  <1> HIDE DEF f
  <1>4. /\ FactIds' = FactIds \cup {NewId} /\ NewId \notin FactIds
        /\ \A i \in FactIds :
             /\ i # e => facts'[i] = facts[i]
             /\ i = e => /\ Kin(facts'[i], facts[i]) /\ ~Active(facts'[i])
                         /\ facts'[i].conflict_group = facts[i].conflict_group
        /\ facts'[NewId] = f
    <2>1. f \in Fact /\ Active(f) /\ NewId \in Nat /\ NewId \notin {e}
      BY <1>2, Ids
    <2>2. PICK ids : ids = {e}
      OBVIOUS
    <2>3. facts' = Retire(Append(facts, f), ids, NewId)
      BY <1>1, <2>2 DEF f
    <2>4. /\ FactIds' = FactIds \cup {NewId}
          /\ \A i \in FactIds :
               /\ i \notin ids => facts'[i] = facts[i]
               /\ i \in ids => /\ Kin(facts'[i], facts[i]) /\ ~Active(facts'[i])
                               /\ facts'[i].conflict_group = facts[i].conflict_group
          /\ NewId \notin ids => facts'[NewId] = f
      BY <2>1, <2>3, InsertEffect
    <2> QED BY <2>1, <2>2, <2>4, Ids
  <1>5. \A j \in FactIds : SameSlot(facts[j], f) /\ Active(facts[j]) => j = e
    BY <1>2, <1>3 DEF Current, SameSlot
  <1>6. UNCHANGED <<conflicts, members>>
    BY DEF SupersedeState
  <1>7. ASSUME NEW i \in FactIds
        PROVE  /\ Kin(facts'[i], facts[i])
               /\ facts'[i].conflict_group = facts[i].conflict_group
               /\ Active(facts'[i]) => Active(facts[i])
               /\ Active(facts[i]) /\ ~Active(facts'[i]) => facts[i].conflict_group = 0
    BY <1>3, <1>4 DEF Kin
  <1>8. ASSUME NEW j \in FactIds', j # NewId, SameSlot(facts'[j], facts'[NewId])
        PROVE  ~Active(facts'[j])
    <2>1. j \in FactIds /\ SameSlot(facts[j], f)
      BY <1>4, <1>7, <1>8 DEF Kin, SameSlot
    <2> QED BY <1>4, <1>5, <1>7, <2>1
  <1> QED BY <1>2, <1>4, <1>6, <1>7, <1>8 DEF Plain

\* What an untyped write retires carries no flag.
LEMMA InsertUntypedPlain ==
  ASSUME TypeOK, NEW r \in Requests, NEW ids \in SUBSET (FactIds \cup {NewId}),
         NEW by \in Nat, \A i \in ids \cap FactIds : facts[i].conflict_group = 0,
         facts' = Retire(Append(facts, UntypedFact(r)), ids, by),
         UNCHANGED <<conflicts, members>>
  PROVE  Plain
  <1> DEFINE f == UntypedFact(r)
  <1>1. /\ f \in Fact /\ Active(f) /\ f.kind = "untyped" /\ f.conflict_group = 0
    BY NewRowsTyped, NewRowsFields
  <1> HIDE DEF f
  <1>2. /\ FactIds' = FactIds \cup {NewId}
        /\ \A i \in FactIds :
              /\ i \notin ids => facts'[i] = facts[i]
              /\ i \in ids => /\ Kin(facts'[i], facts[i]) /\ ~Active(facts'[i])
                              /\ facts'[i].conflict_group = facts[i].conflict_group
        /\ facts'[NewId] = f \/ Kin(facts'[NewId], f)
        /\ facts'[NewId].conflict_group = 0
    BY <1>1, InsertEffect DEF f
  <1>3. facts'[NewId].kind = "untyped"
    BY <1>1, <1>2 DEF Kin
  <1> QED BY <1>2, <1>3 DEF Plain, Kin

LEMMA DedupUntypedPlain ==
  ASSUME TypeOK, NEW x \in Contexts, NEW r \in Requests, DedupUntyped(x, r)
  PROVE  Plain
  <1>1. PICK t \in Duplicates(r) :
          CanReplace(r, t) /\ facts' = Retire(facts, Replaced(r), t)
    BY DEF DedupUntyped
  <1>2. t \in FactIds /\ t \in Nat
    BY Ids DEF Duplicates
  <1>3. \A i \in Replaced(r) : facts[i].conflict_group = 0
    BY <1>1 DEF CanReplace, Replaced, Settled
  <1>4. FactIds' = FactIds
    BY <1>1, <1>2, Ids, RetireTyped DEF FactIds
  <1>5. ASSUME NEW i \in FactIds
        PROVE  /\ i \notin Replaced(r) => facts'[i] = facts[i]
               /\ i \in Replaced(r) =>
                    /\ Kin(facts'[i], facts[i]) /\ ~Active(facts'[i])
                    /\ facts'[i].conflict_group = facts[i].conflict_group
    <2>1. facts[i] \in Fact
          /\ facts'[i] = IF i \in Replaced(r) THEN Superseded(facts[i], t) ELSE facts[i]
      BY <1>1, <1>2, Ids, RetireRow
    <2> QED BY <1>2, <2>1, SupersededKin
  <1>6. UNCHANGED <<conflicts, members>>
    BY DEF DedupUntyped
  <1> QED BY <1>3, <1>4, <1>5, <1>6 DEF Plain, Kin

\* Every write but the two that contest a slot is plain.
LEMMA WritePlain ==
  ASSUME TypeOK, NEW x \in Contexts, NEW r \in Requests, Write(x, r),
         ~OpenConflict(x, r), ~JoinConflict(x, r)
  PROVE  Plain
  <1>1. CASE ReplayWrite(x, r) \/ RefuseWrite(x, r) \/ MatchState(x, r)
    BY <1>1, QuietPlain DEF ReplayWrite, RefuseWrite, MatchState, vars
  <1>2. CASE InsertUntyped(x, r)
    <2>1. \A i \in Replaced(r) : i \in FactIds /\ facts[i].conflict_group = 0
      BY <1>2 DEF InsertUntyped, CanReplace, Replaced, Settled
    <2> QED BY <1>2, <2>1, Ids, InsertUntypedPlain DEF InsertUntyped
  <1>3. CASE NearDuplicateLoses(x, r)
    <2>1. PICK d \in FactIds :
            /\ BestNear(r, d)
            /\ facts' = Retire(Append(facts, UntypedFact(r)), {d}, NewId)
      BY <1>3 DEF NearDuplicateLoses
    <2>2. facts[d].conflict_group = 0
      BY <2>1 DEF BestNear, NearDuplicates, Settled
    <2>3. UNCHANGED <<conflicts, members>> /\ {d} \in SUBSET (FactIds \cup {NewId})
      BY <1>3 DEF NearDuplicateLoses
    <2> QED BY <2>1, <2>2, <2>3, Ids, InsertUntypedPlain
  <1>4. CASE NearDuplicateWins(x, r)
    <2>1. PICK d \in FactIds :
            facts' = Retire(Append(facts, UntypedFact(r)), {NewId}, d)
      BY <1>4 DEF NearDuplicateWins
    <2>2. UNCHANGED <<conflicts, members>> /\ {NewId} \in SUBSET (FactIds \cup {NewId})
      BY <1>4 DEF NearDuplicateWins
    <2> QED BY <2>1, <2>2, Ids, InsertUntypedPlain
  <1> QED BY <1>1, <1>2, <1>3, <1>4, AddStatePlain, SupersedeStatePlain,
             DedupUntypedPlain DEF Write

-----------------------------------------------------------------------------
(* Steps on conflicts                                                      *)

\* SlotUnique follows: of two rivals one is in no other conflict, so it carries
\* the flag of theirs.
LEMMA SlotsUnique ==
  ASSUME TypeOK, SlotInv
  PROVE  SlotUnique
  <1> SUFFICES ASSUME NEW i \in FactIds, NEW j \in FactIds, i # j,
                      facts[i].kind = "state", SameSlot(facts[i], facts[j]),
                      Settled(facts[i]), Settled(facts[j])
               PROVE  FALSE
    BY DEF SlotUnique, SameSlot
  <1>1. PICK c \in DOMAIN conflicts :
          Open(c) /\ <<c, i>> \in members /\ <<c, j>> \in members
    BY DEF SlotInv, RivalsContested, Settled
  <1>2. facts[i].conflict_group = c \/ facts[j].conflict_group = c
    BY <1>1 DEF SlotInv, OpenConflicts
  <1> QED BY <1>2, Ids DEF Settled

\* A settled fact whose slot has no active fact with a flag is in no open
\* conflict: the rival it would have carries one.
LEMMA SettledUncontested ==
  ASSUME TypeOK, SlotInv, NEW i \in FactIds, facts[i].conflict_group = 0,
         \A j \in FactIds : SameSlot(facts[j], facts[i]) /\ Active(facts[j])
            => facts[j].conflict_group = 0
  PROVE  \A c \in DOMAIN conflicts : Open(c) => <<c, i>> \notin members
  <1> SUFFICES ASSUME NEW c \in DOMAIN conflicts, Open(c), <<c, i>> \in members
               PROVE  FALSE
    OBVIOUS
  <1>1. c # 0
    BY Ids
  <1>2. PICK j \in FactIds : j # i /\ <<c, j>> \in members
    BY DEF SlotInv, OpenConflicts
  <1>3. facts[i].kind = "state" /\ SameSlot(facts[j], facts[i]) /\ Twice(i)
    BY <1>1, <1>2 DEF SlotInv, OpenConflicts, SameSlot
  <1>4. ~Twice(j)
    BY <1>2, <1>3 DEF SlotInv, OpenConflicts
  <1>5. Active(facts[j]) /\ facts[j].conflict_group = c
    BY <1>2, <1>4 DEF SlotInv, OpenConflicts
  <1> QED BY <1>1, <1>3, <1>5

\* The incumbent of a slot is settled and alone; it and the candidate become
\* the two members of a new conflict.
LEMMA OpenConflictKeeps ==
  ASSUME TypeOK, SlotInv, NEW x \in Contexts, NEW r \in Requests, OpenConflict(x, r)
  PROVE  SlotInv'
  <1> DEFINE c == Len(conflicts) + 1
             row == [scope |-> r.scope, slot |-> r.slot, resolved |-> FALSE,
                     resolution |-> 0, resolver |-> NONE]
  <1>0. c \in Nat /\ c # 0 /\ c \notin DOMAIN conflicts
    BY Ids
  <1>1. PICK from \in ValidFrom(r) :
          /\ Contests(r, from)
          /\ facts' = Append(Flag(facts, Current(r), c), StateFact(r, from, c))
    BY DEF OpenConflict
  <1> DEFINE f == StateFact(r, from, c)
  <1>2. /\ f \in Fact /\ f.kind = "state" /\ f.conflict_group = c /\ Active(f)
        /\ f.scope = r.scope /\ f.slot = r.slot /\ f.cites = {}
    <2>1. from \in Nat /\ r.slot # NONE
      BY ValidFromTyped DEF OpenConflict
    <2>2. f \in Fact
      BY <1>0, <2>1, NewRowsTyped
    <2>3. r.cites = {}
      BY <2>1, TypedCites
    <2> HIDE DEF c
    <2> QED BY <2>2, <2>3, NewRowsFields
  <1>3. \A i \in Current(r) : facts[i].conflict_group = 0
    BY DEF OpenConflict
  <1>4. PICK e \in FactIds : Current(r) = {e}
    <2>1. Current(r) # {}
      BY <1>1 DEF Contests
    <2>2. \A i, j \in Current(r) : i = j
      BY <1>3, SlotsUnique DEF SlotUnique, Current, Settled
    <2>3. PICK e \in Current(r) : TRUE
      BY <2>1
    <2> QED BY <2>2, <2>3 DEF Current
  <1>5. /\ facts[e].kind = "state" /\ facts[e].scope = r.scope /\ facts[e].slot = r.slot
        /\ Active(facts[e]) /\ facts[e].conflict_group = 0
    BY <1>3, <1>4 DEF Current
  <1>6. \A j \in FactIds : SameSlot(facts[j], facts[e]) /\ Active(facts[j]) => j = e
    BY <1>4, <1>5 DEF Current, SameSlot
  <1>7. \A d \in DOMAIN conflicts : Open(d) => <<d, e>> \notin members
    BY <1>5, <1>6, SettledUncontested
  <1>n. PICK n : n = NewId
    OBVIOUS
  <1>9. PICK ids : ids = Current(r)
    OBVIOUS
  <1> HIDE DEF f
  <1>10. /\ FactIds' = FactIds \cup {n} /\ n \notin FactIds /\ facts'[n] = f
         /\ \A i \in FactIds :
              /\ Kin(facts'[i], facts[i]) /\ (Active(facts'[i]) <=> Active(facts[i]))
              /\ i \in ids => facts'[i].conflict_group = c
              /\ i \notin ids => facts'[i] = facts[i]
    <2>1. facts' = Append(Flag(facts, ids, c), f)
      BY <1>1, <1>9 DEF f
    <2> QED BY <1>0, <1>2, <1>n, <2>1, Ids, ContestEffect
  <1>11. ASSUME NEW i \in FactIds
         PROVE  /\ Kin(facts'[i], facts[i]) /\ (Active(facts'[i]) <=> Active(facts[i]))
                /\ i = e => facts'[i].conflict_group = c
                /\ i # e => facts'[i].conflict_group = facts[i].conflict_group
    BY <1>4, <1>9, <1>10
  <1>12. /\ DOMAIN conflicts' = DOMAIN conflicts \cup {c}
         /\ conflicts'[c].scope = r.scope /\ conflicts'[c].slot = r.slot
         /\ ~conflicts'[c].resolved
         /\ \A d \in DOMAIN conflicts : conflicts'[d] = conflicts[d]
    <2>1. conflicts' = Append(conflicts, row)
      BY DEF OpenConflict
    <2>2. row.scope = r.scope /\ row.slot = r.slot /\ row.resolved = FALSE
      OBVIOUS
    <2> HIDE DEF row
    <2>3. /\ DOMAIN conflicts' = 1..(Len(conflicts) + 1) /\ conflicts'[c] = row
          /\ \A d \in 1..Len(conflicts) : conflicts'[d] = conflicts[d]
      BY <2>1, Ids
    <2> QED BY <2>2, <2>3, Ids
  <1>13. \A d, i : <<d, i>> \in members' <=>
           <<d, i>> \in members \/ (d = c /\ i \in {e, n})
    BY <1>n, <1>4 DEF OpenConflict
  <1> HIDE DEF c
  <1>14. \A d : Open(d)' <=> Open(d) \/ d = c
    BY <1>0, <1>12 DEF Open
  <1>15. ~Twice(n)'
    <2>1. \A d : <<d, n>> \notin members
      BY <1>10, Ids
    <2>2. \A d : <<d, n>> \in members' => d = c
      BY <1>13, <2>1
    <2> QED BY <2>2 DEF Twice
  <1>16. \A i \in FactIds : i # e => (Twice(i)' <=> Twice(i))
    BY ZenonT(60), <1>0, <1>10, <1>12, <1>13, Ids DEF Twice
  <1>17. FlagsOpen'
    BY <1>0, <1>2, <1>10, <1>11, <1>13, <1>14 DEF SlotInv, FlagsOpen
  <1>18. RowsSound'
    BY <1>2, <1>10, <1>11 DEF SlotInv, RowsSound, Kin
  <1>19. RivalsContested'
    <2> SUFFICES ASSUME NEW i \in FactIds', NEW j \in FactIds', i # j,
                        facts'[i].kind = "state", SameSlot(facts'[i], facts'[j]),
                        Active(facts'[i]), Active(facts'[j])
                 PROVE  \E d \in DOMAIN conflicts' :
                          Open(d)' /\ <<d, i>> \in members' /\ <<d, j>> \in members'
      BY DEF RivalsContested
    <2>1. CASE i \in FactIds /\ j \in FactIds
      <3>1. /\ facts[i].kind = "state" /\ SameSlot(facts[i], facts[j])
            /\ Active(facts[i]) /\ Active(facts[j])
        BY <1>11, <2>1 DEF Kin, SameSlot
      <3>2. PICK d \in DOMAIN conflicts :
              Open(d) /\ <<d, i>> \in members /\ <<d, j>> \in members
        BY <2>1, <3>1 DEF SlotInv, RivalsContested
      <3> QED BY <1>12, <1>13, <1>14, <3>2
    <2>2. CASE i = n
      <3>1. j \in FactIds
        BY <1>10, <2>2
      <3>2. SameSlot(facts[j], facts[e]) /\ Active(facts[j])
        BY <1>2, <1>5, <1>10, <1>11, <2>2, <3>1 DEF Kin, SameSlot
      <3>3. j = e
        BY <1>6, <3>1, <3>2
      <3> QED BY <1>12, <1>13, <1>14, <2>2, <3>3
    <2>3. CASE j = n
      <3>1. i \in FactIds
        BY <1>10, <2>3
      <3>2. SameSlot(facts[i], facts[e]) /\ Active(facts[i])
        BY <1>2, <1>5, <1>10, <1>11, <2>3, <3>1 DEF Kin, SameSlot
      <3>3. i = e
        BY <1>6, <3>1, <3>2
      <3> QED BY <1>12, <1>13, <1>14, <2>3, <3>3
    <2> QED BY <1>10, <2>1, <2>2, <2>3
  <1>20. OpenConflicts'
    <2> SUFFICES ASSUME NEW d \in DOMAIN conflicts', Open(d)'
                 PROVE  /\ \E i, j \in FactIds' :
                             i # j /\ <<d, i>> \in members' /\ <<d, j>> \in members'
                        /\ \A i \in FactIds' : <<d, i>> \in members' =>
                             /\ facts'[i].kind = "state"
                             /\ facts'[i].scope = conflicts'[d].scope
                             /\ facts'[i].slot = conflicts'[d].slot
                             /\ ~Twice(i)' => /\ Active(facts'[i])
                                              /\ facts'[i].conflict_group = d
                        /\ \A i, j \in FactIds' :
                             (i # j /\ <<d, i>> \in members' /\ <<d, j>> \in members')
                                => ~Twice(i)' \/ ~Twice(j)'
      BY DEF OpenConflicts
    <2>1. CASE d = c
      <3>1. \A i : <<c, i>> \in members' <=> i \in {e, n}
        BY <1>0, <1>13, Ids
      <3>2. e # n /\ e \in FactIds' /\ n \in FactIds'
        BY <1>10
      <3>3. /\ facts'[e].kind = "state" /\ facts'[e].scope = r.scope
            /\ facts'[e].slot = r.slot /\ Active(facts'[e])
            /\ facts'[e].conflict_group = c
        BY <1>5, <1>11 DEF Kin
      <3> QED BY <1>2, <1>10, <1>12, <1>15, <2>1, <3>1, <3>2, <3>3
    <2>2. CASE d # c
      <3>1. d \in DOMAIN conflicts /\ Open(d) /\ conflicts'[d] = conflicts[d]
        BY <1>12, <1>14, <2>2
      <3>2. \A i : <<d, i>> \in members' <=> <<d, i>> \in members
        BY <1>13, <2>2
      <3>3. \A i : <<d, i>> \in members => i \in FactIds /\ i # e
        BY <1>7, <3>1, Ids
      <3>4. /\ \E i, j \in FactIds : i # j /\ <<d, i>> \in members /\ <<d, j>> \in members
            /\ \A i \in FactIds : <<d, i>> \in members =>
                 /\ facts[i].kind = "state"
                 /\ facts[i].scope = conflicts[d].scope /\ facts[i].slot = conflicts[d].slot
                 /\ ~Twice(i) => Active(facts[i]) /\ facts[i].conflict_group = d
            /\ \A i, j \in FactIds :
                 (i # j /\ <<d, i>> \in members /\ <<d, j>> \in members)
                    => ~Twice(i) \/ ~Twice(j)
        BY <3>1 DEF SlotInv, OpenConflicts
      <3>5. \A i \in FactIds : <<d, i>> \in members =>
              /\ facts'[i].kind = "state"
              /\ facts'[i].scope = conflicts[d].scope /\ facts'[i].slot = conflicts[d].slot
              /\ ~Twice(i)' => Active(facts'[i]) /\ facts'[i].conflict_group = d
        BY <1>11, <1>16, <3>3, <3>4 DEF Kin
      <3> QED BY <1>10, <1>16, <3>1, <3>2, <3>3, <3>4, <3>5
    <2> QED BY <2>1, <2>2
  <1> QED BY <1>17, <1>18, <1>19, <1>20 DEF SlotInv

\* A candidate joins the conflict its slot is in; whoever is active in the slot
\* is a member of that conflict already.
LEMMA JoinConflictKeeps ==
  ASSUME TypeOK, SlotInv, NEW x \in Contexts, NEW r \in Requests, JoinConflict(x, r)
  PROVE  SlotInv'
  <1>1. PICK from \in ValidFrom(r), c \in DOMAIN conflicts :
          /\ \E i \in Current(r) : facts[i].conflict_group = c
          /\ \A i \in Current(r) : facts[i].conflict_group \in {0, c}
          /\ ~conflicts[c].resolved
          /\ conflicts[c].scope = r.scope /\ conflicts[c].slot = r.slot
          /\ facts' = Append(facts, StateFact(r, from, c))
          /\ members' = members \cup {<<c, NewId>>}
    BY DEF JoinConflict
  <1> DEFINE f == StateFact(r, from, c)
  <1>2. Open(c) /\ c # 0 /\ c \in Nat
    BY <1>1, Ids DEF Open
  <1>3. /\ f \in Fact /\ f.kind = "state" /\ f.conflict_group = c /\ Active(f)
        /\ f.scope = r.scope /\ f.slot = r.slot /\ f.cites = {}
    BY <1>2, NewRowsTyped, ValidFromTyped, NewRowsFields, TypedCites DEF JoinConflict
  <1> HIDE DEF f
  <1>n. PICK n : n = NewId
    OBVIOUS
  <1>4. /\ FactIds' = FactIds \cup {n} /\ n \notin FactIds
        /\ facts'[n] = f /\ \A i \in FactIds : facts'[i] = facts[i]
    BY <1>n, <1>1, <1>3, Ids, AppendEffect DEF f
  <1>5. conflicts' = conflicts
    BY DEF JoinConflict
  <1>6. \A d, i : <<d, i>> \in members' <=> <<d, i>> \in members \/ (d = c /\ i = n)
    BY <1>n, <1>1
  <1>7. \A d : Open(d)' <=> Open(d)
    BY <1>5 DEF Open
  <1>8. ~Twice(n)'
    <2>1. \A d : <<d, n>> \notin members
      BY <1>4, Ids
    <2>2. \A d : <<d, n>> \in members' => d = c
      BY <1>6, <2>1
    <2> QED BY <2>2 DEF Twice
  <1>9. \A i \in FactIds : Twice(i)' <=> Twice(i)
    BY <1>4, <1>5, <1>6 DEF Twice
  <1>10. ASSUME NEW j \in FactIds, SameSlot(facts[j], f), Active(facts[j])
         PROVE  <<c, j>> \in members
    <2>1. PICK i \in Current(r) : facts[i].conflict_group = c
      BY <1>1
    <2>2. /\ i \in FactIds /\ Active(facts[i]) /\ facts[i].kind = "state"
          /\ SameSlot(facts[i], facts[j]) /\ j \in Current(r)
      BY <1>3, <1>10 DEF Current, SameSlot
    <2>3. <<c, i>> \in members
      BY <1>2, <2>1, <2>2 DEF SlotInv, FlagsOpen
    <2>4. CASE i = j
      BY <2>3, <2>4
    <2>5. CASE i # j
      <3>1. PICK d \in DOMAIN conflicts :
              Open(d) /\ <<d, i>> \in members /\ <<d, j>> \in members
        BY <1>10, <2>2, <2>5 DEF SlotInv, RivalsContested
      <3>2. CASE d = c
        BY <3>1, <3>2
      <3>3. CASE d # c
        <4>1. Twice(i)
          BY <2>3, <3>1, <3>3 DEF Twice
        <4>2. facts[j].conflict_group = d
          BY <2>2, <2>5, <3>1, <4>1 DEF SlotInv, OpenConflicts
        <4> QED BY <1>1, <2>2, <3>3, <4>2, Ids
      <3> QED BY <3>2, <3>3
    <2> QED BY <2>4, <2>5
  <1>11. FlagsOpen'
    BY <1>2, <1>3, <1>4, <1>6, <1>7 DEF SlotInv, FlagsOpen
  <1>12. RowsSound'
    BY <1>3, <1>4 DEF SlotInv, RowsSound
  <1>13. RivalsContested'
    <2> SUFFICES ASSUME NEW i \in FactIds', NEW j \in FactIds', i # j,
                        facts'[i].kind = "state", SameSlot(facts'[i], facts'[j]),
                        Active(facts'[i]), Active(facts'[j])
                 PROVE  \E d \in DOMAIN conflicts' :
                          Open(d)' /\ <<d, i>> \in members' /\ <<d, j>> \in members'
      BY DEF RivalsContested
    <2>1. CASE i \in FactIds /\ j \in FactIds
      <3>1. PICK d \in DOMAIN conflicts :
              Open(d) /\ <<d, i>> \in members /\ <<d, j>> \in members
        BY <1>4, <2>1 DEF SlotInv, RivalsContested
      <3> QED BY <1>5, <1>6, <1>7, <3>1
    <2>2. CASE i = n
      <3>1. j \in FactIds /\ SameSlot(facts[j], f) /\ Active(facts[j])
        BY <1>4, <2>2 DEF SameSlot
      <3> QED BY <1>2, <1>5, <1>6, <1>7, <1>10, <2>2, <3>1
    <2>3. CASE j = n
      <3>1. i \in FactIds /\ SameSlot(facts[i], f) /\ Active(facts[i])
        BY <1>4, <2>3
      <3> QED BY <1>2, <1>5, <1>6, <1>7, <1>10, <2>3, <3>1
    <2> QED BY <1>4, <2>1, <2>2, <2>3
  <1>14. OpenConflicts'
    <2> SUFFICES ASSUME NEW d \in DOMAIN conflicts, Open(d)
                 PROVE  /\ \E i, j \in FactIds' :
                             i # j /\ <<d, i>> \in members' /\ <<d, j>> \in members'
                        /\ \A i \in FactIds' : <<d, i>> \in members' =>
                             /\ facts'[i].kind = "state"
                             /\ facts'[i].scope = conflicts[d].scope
                             /\ facts'[i].slot = conflicts[d].slot
                             /\ ~Twice(i)' => /\ Active(facts'[i])
                                              /\ facts'[i].conflict_group = d
                        /\ \A i, j \in FactIds' :
                             (i # j /\ <<d, i>> \in members' /\ <<d, j>> \in members')
                                => ~Twice(i)' \/ ~Twice(j)'
      BY <1>5, <1>7 DEF OpenConflicts
    <2>1. /\ \E i, j \in FactIds : i # j /\ <<d, i>> \in members /\ <<d, j>> \in members
          /\ \A i \in FactIds : <<d, i>> \in members =>
               /\ facts[i].kind = "state"
               /\ facts[i].scope = conflicts[d].scope /\ facts[i].slot = conflicts[d].slot
               /\ ~Twice(i) => Active(facts[i]) /\ facts[i].conflict_group = d
          /\ \A i, j \in FactIds :
               (i # j /\ <<d, i>> \in members /\ <<d, j>> \in members)
                  => ~Twice(i) \/ ~Twice(j)
      BY DEF SlotInv, OpenConflicts
    <2>2. \E i, j \in FactIds' : i # j /\ <<d, i>> \in members' /\ <<d, j>> \in members'
      BY <1>4, <1>6, <2>1
    <2>3. ASSUME NEW i \in FactIds', <<d, i>> \in members'
          PROVE  /\ facts'[i].kind = "state"
                 /\ facts'[i].scope = conflicts[d].scope
                 /\ facts'[i].slot = conflicts[d].slot
                 /\ ~Twice(i)' => Active(facts'[i]) /\ facts'[i].conflict_group = d
      <3>1. CASE i \in FactIds
        BY <1>4, <1>6, <1>9, <2>1, <2>3, <3>1
      <3>2. CASE i = n
        <4>1. d = c
          BY <1>6, <2>3, <3>2, <1>4, Ids
        <4> QED BY <1>1, <1>3, <1>4, <3>2, <4>1
      <3> QED BY <1>4, <3>1, <3>2
    <2>4. ASSUME NEW i \in FactIds', NEW j \in FactIds',
                 i # j, <<d, i>> \in members', <<d, j>> \in members'
          PROVE  ~Twice(i)' \/ ~Twice(j)'
      <3>1. CASE i = n \/ j = n
        BY <1>8, <3>1
      <3>2. CASE i \in FactIds /\ j \in FactIds
        BY <1>4, <1>6, <1>9, <2>1, <2>4, <3>2
      <3> QED BY <1>4, <3>1, <3>2
    <2> QED BY <2>2, <2>3, <2>4
  <1> QED BY <1>11, <1>12, <1>13, <1>14 DEF SlotInv

\* What a resolution does to the facts: the losers are superseded by the winner,
\* which leaves the conflict.
LEMMA ResolveEffect ==
  ASSUME TypeOK, NEW x \in Contexts, NEW c \in DOMAIN conflicts,
         NEW w \in FactIds, ResolveConflict(x, c, w)
  PROVE  /\ FactIds' = FactIds /\ Len(facts') = Len(facts)
         /\ \A i \in FactIds :
              /\ Kin(facts'[i], facts[i])
              /\ i \in MembersOf(c) \ {w} => ~Active(facts'[i])
              /\ i \notin MembersOf(c) \ {w} =>
                   /\ Active(facts'[i]) <=> Active(facts[i])
                   /\ facts'[i].superseded_by = facts[i].superseded_by
              /\ i = w => facts'[i].conflict_group = 0
              /\ i # w => facts'[i].conflict_group = facts[i].conflict_group
  <1> DEFINE losers == MembersOf(c) \ {w}
             h == Retire(facts, losers, w)
  <1>1. facts' = Flag(h, {w}, 0)
    BY DEF ResolveConflict
  <1>2. h \in Seq(Fact) /\ Len(h) = Len(facts) /\ w \in Nat
    BY Ids, RetireTyped
  <1>3. ASSUME NEW i \in FactIds
        PROVE  /\ i \notin losers => h[i] = facts[i]
               /\ i \in losers => /\ Kin(h[i], facts[i]) /\ ~Active(h[i])
                                  /\ h[i].conflict_group = facts[i].conflict_group
    <2>1. facts[i] \in Fact
          /\ h[i] = IF i \in losers THEN Superseded(facts[i], w) ELSE facts[i]
      BY <1>2, Ids, RetireRow
    <2> QED BY <1>2, <2>1, SupersededKin
  <1> HIDE DEF h, losers
  <1>4. FactIds' = FactIds /\ Len(facts') = Len(facts)
    BY <1>1, <1>2, Ids, FlagTyped DEF FactIds
  <1>5. ASSUME NEW i \in FactIds
        PROVE  /\ Kin(facts'[i], facts[i])
               /\ i \in losers => ~Active(facts'[i])
               /\ i \notin losers =>
                    /\ Active(facts'[i]) <=> Active(facts[i])
                    /\ facts'[i].superseded_by = facts[i].superseded_by
               /\ i = w => facts'[i].conflict_group = 0
               /\ i # w => facts'[i].conflict_group = facts[i].conflict_group
    <2>1. h[i] \in Fact
          /\ facts'[i] = IF i \in {w} THEN Flagged(h[i], 0) ELSE h[i]
      BY <1>1, <1>2, Ids, FlagRow
    <2>2. i = w => /\ Kin(facts'[i], h[i]) /\ facts'[i].conflict_group = 0
                   /\ Active(facts'[i]) <=> Active(h[i])
                   /\ facts'[i].superseded_by = h[i].superseded_by
      BY <2>1, FlaggedKin
    <2>3. i # w => facts'[i] = h[i]
      BY <2>1
    <2> QED BY <1>3, <2>2, <2>3 DEF Kin
  <1> QED BY <1>4, <1>5 DEF losers

\* A resolution closes its conflict and leaves one active member, so every
\* pair of rivals that stays active is in another open conflict.
LEMMA ResolveKeeps ==
  ASSUME TypeOK, SlotInv, NEW x \in Contexts, NEW c \in DOMAIN conflicts,
         NEW w \in FactIds, ResolveConflict(x, c, w)
  PROVE  SlotInv'
  <1> DEFINE losers == MembersOf(c) \ {w}
  <1>1. /\ Resolvable(c, w) /\ members' = members
        /\ conflicts' = [conflicts EXCEPT ![c].resolved = TRUE, ![c].resolution = w,
                                          ![c].resolver = x.client]
    BY DEF ResolveConflict
  <1>3. \A i \in FactIds : i \in losers <=> i # w /\ <<c, i>> \in members
    BY DEF MembersOf
  <1>5. FactIds' = FactIds
    BY ResolveEffect
  <1>6. ASSUME NEW i \in FactIds
        PROVE  /\ Kin(facts'[i], facts[i])
               /\ i \in losers => ~Active(facts'[i])
               /\ i \notin losers => (Active(facts'[i]) <=> Active(facts[i]))
               /\ i = w => facts'[i].conflict_group = 0
               /\ i # w => facts'[i].conflict_group = facts[i].conflict_group
    BY ResolveEffect
  <1> HIDE DEF losers
  <1>7. /\ DOMAIN conflicts' = DOMAIN conflicts
        /\ \A d \in DOMAIN conflicts : d # c => conflicts'[d] = conflicts[d]
        /\ conflicts'[c].resolved
    <2>1. conflicts[c] \in Conflict
      BY Ids
    <2> QED BY <1>1, <2>1 DEF Conflict
  <1>8. \A d : Open(d)' <=> Open(d) /\ d # c
    BY <1>7 DEF Open
  <1>9. \A i : Twice(i)' <=> Twice(i)
    BY <1>1, <1>7 DEF Twice
  <1>10. Open(c) /\ <<c, w>> \in members
    BY <1>1 DEF Open, Resolvable, MembersOf
  <1>11. FlagsOpen'
    <2> SUFFICES ASSUME NEW i \in FactIds', Active(facts'[i]), NEW g,
                        g = facts'[i].conflict_group, g # 0
                 PROVE  Open(g)' /\ <<g, i>> \in members'
      BY DEF FlagsOpen
    <2>1. /\ i \in FactIds /\ i # w /\ i \notin losers /\ Active(facts[i])
          /\ facts[i].conflict_group = g
      BY <1>5, <1>6
    <2>2. Open(g) /\ <<g, i>> \in members
      BY <2>1 DEF SlotInv, FlagsOpen
    <2>3. g # c
      BY <1>3, <2>1, <2>2
    <2> QED BY <1>1, <1>8, <2>2, <2>3
  <1>12. RowsSound'
    BY <1>5, <1>6 DEF SlotInv, RowsSound, Kin
  <1>13. RivalsContested'
    <2> SUFFICES ASSUME NEW i \in FactIds, NEW j \in FactIds, i # j,
                        facts'[i].kind = "state", SameSlot(facts'[i], facts'[j]),
                        Active(facts'[i]), Active(facts'[j])
                 PROVE  \E d \in DOMAIN conflicts :
                          Open(d)' /\ <<d, i>> \in members /\ <<d, j>> \in members
      BY <1>1, <1>5, <1>7 DEF RivalsContested
    <2>1. /\ facts[i].kind = "state" /\ SameSlot(facts[i], facts[j])
          /\ Active(facts[i]) /\ Active(facts[j]) /\ i \notin losers /\ j \notin losers
      BY <1>6 DEF Kin, SameSlot
    <2>2. PICK d \in DOMAIN conflicts :
            Open(d) /\ <<d, i>> \in members /\ <<d, j>> \in members
      BY <2>1 DEF SlotInv, RivalsContested
    <2>3. d # c
      BY <1>3, <2>1, <2>2
    <2> QED BY <1>8, <2>2, <2>3
  <1>14. OpenConflicts'
    <2> SUFFICES ASSUME NEW d \in DOMAIN conflicts', Open(d)'
                 PROVE  /\ \E i, j \in FactIds' :
                             i # j /\ <<d, i>> \in members' /\ <<d, j>> \in members'
                        /\ \A i \in FactIds' : <<d, i>> \in members' =>
                             /\ facts'[i].kind = "state"
                             /\ facts'[i].scope = conflicts'[d].scope
                             /\ facts'[i].slot = conflicts'[d].slot
                             /\ ~Twice(i)' => /\ Active(facts'[i])
                                              /\ facts'[i].conflict_group = d
                        /\ \A i, j \in FactIds' :
                             (i # j /\ <<d, i>> \in members' /\ <<d, j>> \in members')
                                => ~Twice(i)' \/ ~Twice(j)'
      BY DEF OpenConflicts
    <2>0. /\ d \in DOMAIN conflicts /\ Open(d) /\ d # c /\ conflicts'[d] = conflicts[d]
          /\ members' = members
      BY <1>1, <1>7, <1>8
    <2>1. /\ \E i, j \in FactIds : i # j /\ <<d, i>> \in members /\ <<d, j>> \in members
          /\ \A i \in FactIds : <<d, i>> \in members =>
               /\ facts[i].kind = "state"
               /\ facts[i].scope = conflicts[d].scope /\ facts[i].slot = conflicts[d].slot
               /\ ~Twice(i) => Active(facts[i]) /\ facts[i].conflict_group = d
          /\ \A i, j \in FactIds :
               (i # j /\ <<d, i>> \in members /\ <<d, j>> \in members)
                  => ~Twice(i) \/ ~Twice(j)
      BY <2>0 DEF SlotInv, OpenConflicts
    <2>2. \A i \in FactIds : <<d, i>> \in members /\ ~Twice(i) => <<c, i>> \notin members
      BY <2>0 DEF Twice
    <2>3. \A i \in FactIds : <<d, i>> \in members /\ ~Twice(i) => i # w /\ i \notin losers
      BY <1>3, <1>10, <2>2
    <2> QED BY <1>5, <1>6, <1>9, <2>0, <2>1, <2>3 DEF Kin
  <1> QED BY <1>11, <1>12, <1>13, <1>14 DEF SlotInv

\* The rows an erasure rewrites.
LEMMA ErasedRowFields ==
  ASSUME TypeOK, RowsSound, NEW e \in FactIds, NEW i \in FactIds
  PROVE  /\ i = e => /\ ErasedRow(e, i).kind = "erased" /\ ~Active(ErasedRow(e, i))
                     /\ ErasedRow(e, i).conflict_group = 0
                     /\ ErasedRow(e, i).cites = {}
         /\ i # e =>
              /\ Kin(ErasedRow(e, i), facts[i])
              /\ Active(ErasedRow(e, i)) => Active(facts[i])
              /\ facts[i].kind = "state" => (Active(ErasedRow(e, i)) <=> Active(facts[i]))
              /\ ErasedRow(e, i).conflict_group =
                   IF i \in LastMembers(e) THEN 0 ELSE facts[i].conflict_group
         /\ ErasedRow(e, i).superseded_by = facts[i].superseded_by
         /\ ErasedRow(e, i).scope = facts[i].scope
  <1>1. facts[i] \in Fact
    BY Ids
  <1>2. CASE i = e
    <2>1. /\ Scrubbed(facts[i]).kind = "erased" /\ Scrubbed(facts[i]).invalid
          /\ Scrubbed(facts[i]).conflict_group = 0 /\ Scrubbed(facts[i]).cites = {}
          /\ Scrubbed(facts[i]).superseded_by = facts[i].superseded_by
          /\ Scrubbed(facts[i]).scope = facts[i].scope
      BY <1>1 DEF Scrubbed, Fact
    <2>2. ErasedRow(e, i) = Scrubbed(facts[i])
      BY <1>2 DEF ErasedRow
    <2> QED BY <1>2, <2>1, <2>2 DEF Active
  <1>3. CASE i # e
    <2> DEFINE b == facts[i].invalid \/ i \in Citing(e)
               g == IF i \in LastMembers(e) THEN 0 ELSE facts[i].conflict_group
               row == [facts[i] EXCEPT !.invalid = b, !.conflict_group = g]
    <2>1. facts[i].invalid => b
      OBVIOUS
    <2>2. ErasedRow(e, i) = row
      BY <1>3 DEF ErasedRow
    <2>3. facts[i].kind = "state" => (b <=> facts[i].invalid)
      BY DEF Citing, RowsSound
    <2> HIDE DEF b, g
    <2>4. /\ Kin(row, facts[i]) /\ row.superseded_by = facts[i].superseded_by
          /\ row.scope = facts[i].scope
          /\ row.conflict_group = g /\ (row.invalid <=> b)
      BY <1>1 DEF Fact, Kin
    <2> HIDE DEF row
    <2>5. Active(row) => Active(facts[i])
      BY <2>1, <2>4 DEF Active
    <2>6. facts[i].kind = "state" => (Active(row) <=> Active(facts[i]))
      BY <2>3, <2>4 DEF Active
    <2> QED BY <1>3, <2>2, <2>4, <2>5, <2>6 DEF g
  <1> QED BY <1>2, <1>3

\* Erasing e removes it from its conflicts and closes those that are left with
\* one member; a rival of that member would have been another.
LEMMA EraseKeeps ==
  ASSUME TypeOK, SlotInv, NEW e, EraseFact(e)
  PROVE  SlotInv'
  <1>1. /\ e \in FactIds /\ facts' = [i \in FactIds |-> ErasedRow(e, i)]
        /\ members' = {m \in members : m[2] # e}
        /\ conflicts' = [c \in DOMAIN conflicts |->
             IF c \in Emptied(e) /\ ~conflicts[c].resolved
               THEN [conflicts[c] EXCEPT !.resolved = TRUE, !.resolution = Sole(c, e)]
               ELSE conflicts[c]]
    BY DEF EraseFact
  <1>2. FactIds' = FactIds /\ \A i \in FactIds : facts'[i] = ErasedRow(e, i)
    BY <1>1 DEF FactIds
  <1>3. RowsSound
    BY DEF SlotInv
  <1>4. /\ ~Active(facts'[e]) /\ facts'[e].kind = "erased"
        /\ \A i \in FactIds : i # e =>
              /\ Kin(facts'[i], facts[i])
              /\ Active(facts'[i]) => Active(facts[i])
              /\ facts[i].kind = "state" => (Active(facts'[i]) <=> Active(facts[i]))
              /\ facts'[i].conflict_group =
                   IF i \in LastMembers(e) THEN 0 ELSE facts[i].conflict_group
    BY <1>1, <1>2, <1>3, ErasedRowFields
  <1>5. \A d, i : <<d, i>> \in members' <=> <<d, i>> \in members /\ i # e
    BY <1>1
  <1>6. /\ DOMAIN conflicts' = DOMAIN conflicts
        /\ \A d \in DOMAIN conflicts :
             /\ conflicts'[d].scope = conflicts[d].scope
             /\ conflicts'[d].slot = conflicts[d].slot
             /\ ~conflicts'[d].resolved <=> ~conflicts[d].resolved /\ d \notin Emptied(e)
    <2>1. ASSUME NEW d \in DOMAIN conflicts
          PROVE  /\ conflicts'[d].scope = conflicts[d].scope
                 /\ conflicts'[d].slot = conflicts[d].slot
                 /\ ~conflicts'[d].resolved <=> ~conflicts[d].resolved /\ d \notin Emptied(e)
      <3> DEFINE row == [conflicts[d] EXCEPT !.resolved = TRUE, !.resolution = Sole(d, e)]
      <3>1. conflicts[d] \in Conflict
        BY Ids
      <3>2. row.scope = conflicts[d].scope /\ row.slot = conflicts[d].slot /\ row.resolved
        BY <3>1 DEF Conflict
      <3>3. conflicts'[d] = IF d \in Emptied(e) /\ ~conflicts[d].resolved
                              THEN row ELSE conflicts[d]
        BY <1>1
      <3> HIDE DEF row
      <3> QED BY <3>2, <3>3
    <2> QED BY <1>1, <2>1
  <1>7. \A d : Open(d)' <=> Open(d) /\ d \notin Emptied(e)
    BY <1>6 DEF Open
  <1>8. \A i \in FactIds : i # e => (Twice(i)' <=> Twice(i))
    BY <1>5, <1>6 DEF Twice
  <1>9. \A i \in FactIds : i \in LastMembers(e) <=>
          i # e /\ \E d \in Emptied(e) : <<d, i>> \in members
    <2> SUFFICES ASSUME NEW i \in FactIds
                 PROVE  i \in LastMembers(e) <=>
                          i # e /\ \E d \in Emptied(e) : <<d, i>> \in members
      OBVIOUS
    <2>1. i \in LastMembers(e) <=> \E d \in Emptied(e) : i \in MembersOf(d) \ {e}
      BY DEF LastMembers
    <2> QED BY <2>1 DEF MembersOf
  <1>10. \A d \in DOMAIN conflicts : d \in Emptied(e) <=>
           /\ <<d, e>> \in members
           /\ \A i, j \in FactIds :
                (i # e /\ j # e /\ <<d, i>> \in members /\ <<d, j>> \in members) => i = j
    BY <1>1 DEF Emptied, MembersOf
  <1>11. FlagsOpen'
    <2> SUFFICES ASSUME NEW i \in FactIds', Active(facts'[i]), NEW g,
                        g = facts'[i].conflict_group, g # 0
                 PROVE  Open(g)' /\ <<g, i>> \in members'
      BY DEF FlagsOpen
    <2>1. /\ i \in FactIds /\ i # e /\ Active(facts[i]) /\ i \notin LastMembers(e)
          /\ facts[i].conflict_group = g
      BY <1>2, <1>4
    <2>2. Open(g) /\ <<g, i>> \in members
      BY <2>1 DEF SlotInv, FlagsOpen
    <2>3. g \notin Emptied(e)
      BY <1>9, <2>1, <2>2
    <2> QED BY <1>5, <1>7, <2>1, <2>2, <2>3
  <1>12. RowsSound'
    <2>1. facts'[e].cites = {}
      BY <1>1, <1>2, <1>3, ErasedRowFields
    <2> QED BY <1>2, <1>3, <1>4, <2>1 DEF RowsSound, Kin
  <1>13. RivalsContested'
    <2> SUFFICES ASSUME NEW i \in FactIds, NEW j \in FactIds, i # j,
                        facts'[i].kind = "state", SameSlot(facts'[i], facts'[j]),
                        Active(facts'[i]), Active(facts'[j])
                 PROVE  \E d \in DOMAIN conflicts :
                          Open(d)' /\ <<d, i>> \in members' /\ <<d, j>> \in members'
      BY SMTT(30), <1>2, <1>6 DEF RivalsContested
    <2>1. /\ facts[i].kind = "state" /\ SameSlot(facts[i], facts[j])
          /\ Active(facts[i]) /\ Active(facts[j]) /\ i # e /\ j # e
      BY <1>4 DEF Kin, SameSlot
    <2>2. PICK d \in DOMAIN conflicts :
            Open(d) /\ <<d, i>> \in members /\ <<d, j>> \in members
      BY <2>1 DEF SlotInv, RivalsContested
    <2>3. d \notin Emptied(e)
      BY <1>10, <2>1, <2>2
    <2> QED BY <1>5, <1>7, <2>1, <2>2, <2>3
  <1>14. OpenConflicts'
    <2> SUFFICES ASSUME NEW d \in DOMAIN conflicts, Open(d), d \notin Emptied(e)
                 PROVE  /\ \E i, j \in FactIds :
                             i # j /\ <<d, i>> \in members' /\ <<d, j>> \in members'
                        /\ \A i \in FactIds : <<d, i>> \in members' =>
                             /\ facts'[i].kind = "state"
                             /\ facts'[i].scope = conflicts[d].scope
                             /\ facts'[i].slot = conflicts[d].slot
                             /\ ~Twice(i)' => /\ Active(facts'[i])
                                              /\ facts'[i].conflict_group = d
                        /\ \A i, j \in FactIds :
                             (i # j /\ <<d, i>> \in members' /\ <<d, j>> \in members')
                                => ~Twice(i)' \/ ~Twice(j)'
      BY ZenonT(60), <1>2, <1>6, <1>7 DEF OpenConflicts
    <2>1. /\ \E i, j \in FactIds : i # j /\ <<d, i>> \in members /\ <<d, j>> \in members
          /\ \A i \in FactIds : <<d, i>> \in members =>
               /\ facts[i].kind = "state"
               /\ facts[i].scope = conflicts[d].scope /\ facts[i].slot = conflicts[d].slot
               /\ ~Twice(i) => Active(facts[i]) /\ facts[i].conflict_group = d
          /\ \A i, j \in FactIds :
               (i # j /\ <<d, i>> \in members /\ <<d, j>> \in members)
                  => ~Twice(i) \/ ~Twice(j)
      BY DEF SlotInv, OpenConflicts
    <2>2. \E i, j \in FactIds : i # j /\ <<d, i>> \in members' /\ <<d, j>> \in members'
      <3>1. CASE <<d, e>> \in members
        BY <1>5, <1>10, <3>1
      <3>2. CASE <<d, e>> \notin members
        <4>1. PICK i \in FactIds, j \in FactIds :
                i # j /\ <<d, i>> \in members /\ <<d, j>> \in members
          BY <2>1
        <4> QED BY <1>5, <3>2, <4>1
      <3> QED BY <3>1, <3>2
    <2>3. ASSUME NEW i \in FactIds, <<d, i>> \in members'
          PROVE  /\ facts'[i].kind = "state"
                 /\ facts'[i].scope = conflicts[d].scope
                 /\ facts'[i].slot = conflicts[d].slot
                 /\ ~Twice(i)' => Active(facts'[i]) /\ facts'[i].conflict_group = d
      <3>1. i # e /\ <<d, i>> \in members
        BY <1>5, <2>3
      <3>2. ~Twice(i) => i \notin LastMembers(e)
        <4>1. ASSUME NEW c \in Emptied(e), <<c, i>> \in members PROVE Twice(i)
          <5>1. c \in DOMAIN conflicts /\ c # d
            BY DEF Emptied
          <5> QED BY <3>1, <4>1, <5>1 DEF Twice
        <4> QED BY <1>9, <4>1
      <3> QED BY <1>4, <1>8, <2>1, <3>1, <3>2 DEF Kin
    <2>4. ASSUME NEW i \in FactIds, NEW j \in FactIds,
                 i # j, <<d, i>> \in members', <<d, j>> \in members'
          PROVE  ~Twice(i)' \/ ~Twice(j)'
      BY <1>5, <1>8, <2>1, <2>4
    <2> QED BY <2>2, <2>3, <2>4
  <1> QED BY <1>11, <1>12, <1>13, <1>14 DEF SlotInv

\* The steps that change neither facts nor conflicts.
LEMMA NextSlots ==
  ASSUME TypeOK, SlotInv, [Next]_vars
  PROVE  SlotInv'
  <1>1. ASSUME NEW x \in Contexts, NEW r \in Requests, Write(x, r) PROVE SlotInv'
    BY <1>1, WritePlain, PlainKeeps, OpenConflictKeeps, JoinConflictKeeps
  <1>2. ASSUME NEW x \in Contexts, NEW c \in DOMAIN conflicts, NEW w \in FactIds,
               ResolveConflict(x, c, w)
        PROVE  SlotInv'
    BY <1>2, ResolveKeeps
  <1>3. ASSUME NEW e \in Erasable, EraseFact(e) PROVE SlotInv'
    BY <1>3, EraseKeeps
  <1>4. CASE UNCHANGED <<facts, conflicts, members>>
    BY <1>4, QuietPlain, PlainKeeps
  <1> QED BY <1>1, <1>2, <1>3, <1>4
          DEF Next, EmbedFact, StopServer, StartServer, vars

\* The invariant of slots and conflicts is inductive, erasure included.
LEMMA SlotInvariant == Spec => [](TypeOK /\ SlotInv)
  <1>1. Init => TypeOK /\ SlotInv
    BY DEF Init, TypeOK, SlotInv, FlagsOpen, OpenConflicts, RivalsContested,
           RowsSound, FactIds
  <1>2. (TypeOK /\ SlotInv) /\ [Next]_vars => (TypeOK /\ SlotInv)'
    BY NextTyped, NextSlots
  <1> QED BY <1>1, <1>2, PTL DEF Spec

\* read_current_state never meets two settled facts of one slot, whatever is
\* contested, resolved, merged as a near duplicate and erased in between.
THEOREM SlotUniqueness == Spec => []SlotUnique
  <1>1. TypeOK /\ SlotInv => SlotUnique
    BY SlotsUnique
  <1> QED BY <1>1, SlotInvariant, PTL

-----------------------------------------------------------------------------
(* What an accepted write does, whichever way it ends                      *)

\* The outcomes that insert a fact.
Counts(outcome, existing) ==
  \/ outcome \in {"inserted", "near_dedup", "add", "supersede"}
  \/ outcome = "conflict" /\ existing = 0

\* The policy a write had to pass to supersede the fact f.
MayReplace(f, r, outcome) ==
  \/ f.authority <= r.authority /\ (f.protected => Human(r))
  \/ outcome = "near_dedup" /\ f.trust <= r.trust

\* The old facts are kept but for retirement, and one fact is inserted or none.
Grows(r, outcome) ==
  /\ FactIds \subseteq FactIds'
  /\ \A i \in FactIds :
       /\ Kin(facts'[i], facts[i])
       /\ Active(facts'[i]) => Active(facts[i])
       /\ Settled(facts'[i]) => Settled(facts[i])
       /\ facts'[i].superseded_by # facts[i].superseded_by
            => MayReplace(facts[i], r, outcome)
  /\ UNCHANGED <<vectors, serving>>

Accepts(x, r, outcome, fact, existing) ==
  /\ Admit(x, r) /\ r.scope \in Effective(x)
  /\ Grows(r, outcome)
  /\ Finish(x, r, outcome, fact, existing)
  /\ fact \in FactIds' /\ facts'[fact].scope = r.scope /\ facts'[fact].kind # "erased"
  /\ \/ /\ ~Counts(outcome, existing)
        /\ Len(facts') = Len(facts) /\ FactIds' = FactIds /\ UNCHANGED outbox
     \/ /\ Counts(outcome, existing)
        /\ Len(facts') = Len(facts) + 1 /\ FactIds' = FactIds \cup {NewId}
        /\ \/ fact = NewId /\ Enqueue(NewId)
           \/ ~Active(facts'[NewId]) /\ UNCHANGED outbox

\* A clean write is granted its scope.
LEMMA CleanGranted ==
  ASSUME NEW x, NEW r, Clean(x, r)
  PROVE  r.scope \in Effective(x)
  BY DEF Clean, Screened

\* Settled facts are active, and an update that keeps the flag keeps them.
LEMMA SettledKept ==
  ASSUME NEW f, NEW g, g.conflict_group = f.conflict_group, Active(g) => Active(f)
  PROVE  Settled(g) => Settled(f)
  BY DEF Settled

\* An insertion that retires facts the write may replace.
LEMMA InsertGrows ==
  ASSUME TypeOK, NEW r, NEW outcome, NEW f \in Fact, Active(f), NEW ids, NEW by \in Nat,
         facts' = Retire(Append(facts, f), ids, by), UNCHANGED <<vectors, serving>>,
         \A i \in ids \cap FactIds : MayReplace(facts[i], r, outcome)
  PROVE  /\ Grows(r, outcome)
         /\ Len(facts') = Len(facts) + 1 /\ FactIds' = FactIds \cup {NewId}
         /\ facts'[NewId].scope = f.scope /\ facts'[NewId].kind = f.kind
         /\ NewId \in ids => ~Active(facts'[NewId])
  <1>1. /\ FactIds' = FactIds \cup {NewId}
        /\ \A i \in FactIds :
             /\ i \notin ids => facts'[i] = facts[i]
             /\ i \in ids => /\ Kin(facts'[i], facts[i]) /\ ~Active(facts'[i])
                             /\ facts'[i].conflict_group = facts[i].conflict_group
        /\ NewId \notin ids => facts'[NewId] = f
        /\ NewId \in ids => Kin(facts'[NewId], f) /\ ~Active(facts'[NewId])
    BY InsertEffect
  <1>2. Len(facts') = Len(facts) + 1
    BY InsertTyped
  <1>3. ASSUME NEW i \in FactIds
        PROVE  /\ Kin(facts'[i], facts[i])
               /\ Active(facts'[i]) => Active(facts[i])
               /\ Settled(facts'[i]) => Settled(facts[i])
               /\ facts'[i].superseded_by # facts[i].superseded_by
                    => MayReplace(facts[i], r, outcome)
    BY <1>1 DEF Kin, Settled
  <1> QED BY <1>1, <1>2, <1>3 DEF Grows, Kin

\* A write that leaves the facts alone.
LEMMA QuietGrows ==
  ASSUME NEW r, NEW outcome, UNCHANGED <<facts, vectors, serving>>
  PROVE  Grows(r, outcome)
  BY DEF Grows, FactIds, Kin

\* What a clean request with an explicit target may replace.
LEMMA ReplacedAllowed ==
  ASSUME NEW x, NEW r \in Requests, Clean(x, r), NEW new, CanReplace(r, new), NEW outcome,
         TypeOK, NEW i \in Replaced(r)
  PROVE  i \in FactIds /\ MayReplace(facts[i], r, outcome)
  <1>1. i = r.supersede /\ r.supersede # 0 /\ i \in FactIds
    BY DEF Replaced, CanReplace
  <1>2. ~Blocked(r, i)
    BY <1>1 DEF Clean
  <1>3. facts[i].authority \in Nat /\ r.authority \in Nat
    BY <1>1, Ids, ConstantsAssumption DEF Fact, Request
  <1> QED BY <1>1, <1>2, <1>3 DEF Blocked, MayReplace

LEMMA MatchStateAccepts ==
  ASSUME TypeOK, RowsSound, NEW x \in Contexts, NEW r \in Requests, MatchState(x, r)
  PROVE  \E outcome \in Outcomes, fact \in Nat, existing \in Nat :
           Accepts(x, r, outcome, fact, existing)
  <1>1. PICK t \in FactIds :
          /\ Matches(r, t)
          /\ Finish(x, r, IF Contested(r) THEN "conflict" ELSE "dedup", t, t)
    BY DEF MatchState
  <1>2. PICK outcome \in {"conflict", "dedup"} :
          outcome = IF Contested(r) THEN "conflict" ELSE "dedup"
    OBVIOUS
  <1>3. t \in Nat /\ t # 0 /\ outcome \in Outcomes
    BY <1>2, Ids DEF Outcomes
  <1>4. facts[t].kind = "state" /\ facts[t].scope = r.scope
    BY <1>1 DEF Matches, Exact, Current
  <1>5. /\ UNCHANGED <<facts, outbox, vectors, serving>> /\ Admit(x, r)
        /\ r.scope \in Effective(x)
    BY CleanGranted DEF MatchState
  <1>6. Grows(r, outcome) /\ ~Counts(outcome, t)
    BY <1>2, <1>3, <1>5, QuietGrows DEF Counts
  <1>7. /\ FactIds' = FactIds /\ Len(facts') = Len(facts) /\ t \in FactIds'
        /\ facts'[t].scope = r.scope /\ facts'[t].kind # "erased"
    BY <1>4, <1>5 DEF FactIds
  <1>8. Finish(x, r, outcome, t, t)
    BY <1>1, <1>2
  <1> QED BY <1>3, <1>5, <1>6, <1>7, <1>8 DEF Accepts

\* A typed fact is inserted, and e retired unless ids is empty.
LEMMA InsertStateAccepts ==
  ASSUME TypeOK, NEW x \in Contexts, NEW r \in Requests, NEW outcome \in {"add", "supersede"},
         NEW from \in ValidFrom(r), NEW ids \in SUBSET FactIds,
         facts' = Retire(Append(facts, StateFact(r, from, 0)), ids, NewId),
         \A i \in ids : MayReplace(facts[i], r, outcome),
         Admit(x, r), Clean(x, r), Finish(x, r, outcome, NewId, 0), Enqueue(NewId),
         UNCHANGED <<vectors, serving>>
  PROVE  \E o \in Outcomes, fact \in Nat, existing \in Nat :
           Accepts(x, r, o, fact, existing)
  <1> DEFINE f == StateFact(r, from, 0)
  <1>1. f \in Fact /\ Active(f) /\ f.scope = r.scope /\ f.kind = "state"
    BY NewRowsTyped, ValidFromTyped, NewRowsFields
  <1> HIDE DEF f
  <1>2. NewId \in Nat /\ facts' = Retire(Append(facts, f), ids, NewId)
    BY Ids DEF f
  <1>3. /\ Grows(r, outcome)
        /\ Len(facts') = Len(facts) + 1 /\ FactIds' = FactIds \cup {NewId}
        /\ facts'[NewId].scope = r.scope /\ facts'[NewId].kind = "state"
    BY <1>1, <1>2, InsertGrows
  <1>4. Counts(outcome, 0) /\ r.scope \in Effective(x) /\ outcome \in Outcomes
    BY CleanGranted DEF Counts, Outcomes
  <1>5. Accepts(x, r, outcome, NewId, 0)
    BY <1>3, <1>4 DEF Accepts
  <1> QED BY <1>2, <1>4, <1>5

LEMMA AddStateAccepts ==
  ASSUME TypeOK, NEW x \in Contexts, NEW r \in Requests, AddState(x, r)
  PROVE  \E outcome \in Outcomes, fact \in Nat, existing \in Nat :
           Accepts(x, r, outcome, fact, existing)
  <1>1. PICK from \in ValidFrom(r) : facts' = Append(facts, StateFact(r, from, 0))
    BY DEF AddState
  <1>2. StateFact(r, from, 0) \in Fact
    BY NewRowsTyped, ValidFromTyped
  <1>3. facts' = Retire(Append(facts, StateFact(r, from, 0)), {}, NewId)
    BY <1>1, <1>2, Ids, AppendTyped, RetireNobody
  <1>4. /\ Admit(x, r) /\ Clean(x, r) /\ Finish(x, r, "add", NewId, 0) /\ Enqueue(NewId)
        /\ UNCHANGED <<vectors, serving>>
    BY DEF AddState
  <1> QED BY <1>3, <1>4, InsertStateAccepts

LEMMA SupersedeStateAccepts ==
  ASSUME TypeOK, NEW x \in Contexts, NEW r \in Requests, SupersedeState(x, r)
  PROVE  \E outcome \in Outcomes, fact \in Nat, existing \in Nat :
           Accepts(x, r, outcome, fact, existing)
  <1>1. PICK from \in ValidFrom(r), e \in FactIds :
          /\ ~Blocked(r, e)
          /\ facts' = Retire(Append(facts, StateFact(r, from, 0)), {e}, NewId)
    BY DEF SupersedeState
  <1>2. facts[e].authority \in Nat /\ r.authority \in Nat
    BY Ids, ConstantsAssumption DEF Fact, Request
  <1>3. MayReplace(facts[e], r, "supersede")
    BY <1>1, <1>2 DEF Blocked, MayReplace
  <1>4. /\ Admit(x, r) /\ Clean(x, r) /\ Finish(x, r, "supersede", NewId, 0)
        /\ Enqueue(NewId) /\ UNCHANGED <<vectors, serving>>
    BY DEF SupersedeState
  <1>5. {e} \in SUBSET FactIds /\ \A i \in {e} : MayReplace(facts[i], r, "supersede")
    BY <1>3
  <1> QED BY <1>1, <1>4, <1>5, InsertStateAccepts

\* Both ways to contest a slot insert a fact with the flag of a conflict.
LEMMA ContestAccepts ==
  ASSUME TypeOK, NEW x \in Contexts, NEW r \in Requests, NEW from \in ValidFrom(r),
         NEW c \in Nat, c # 0, NEW ids, \A i \in ids : facts[i].conflict_group = 0,
         facts' = Append(Flag(facts, ids, c), StateFact(r, from, c)),
         Admit(x, r), Clean(x, r), Finish(x, r, "conflict", NewId, 0), Enqueue(NewId),
         UNCHANGED <<vectors, serving>>
  PROVE  \E outcome \in Outcomes, fact \in Nat, existing \in Nat :
           Accepts(x, r, outcome, fact, existing)
  <1> DEFINE f == StateFact(r, from, c)
  <1>1. f \in Fact /\ f.scope = r.scope /\ f.kind = "state"
    BY NewRowsTyped, ValidFromTyped, NewRowsFields
  <1> HIDE DEF f
  <1>2. /\ FactIds' = FactIds \cup {NewId} /\ Len(facts') = Len(facts) + 1
        /\ facts'[NewId] = f
        /\ \A i \in FactIds :
             /\ Kin(facts'[i], facts[i]) /\ (Active(facts'[i]) <=> Active(facts[i]))
             /\ facts'[i].superseded_by = facts[i].superseded_by
             /\ i \in ids => facts'[i].conflict_group = c
             /\ i \notin ids => facts'[i] = facts[i]
    BY <1>1, ContestEffect DEF f
  <1>3. Grows(r, "conflict")
    BY <1>2 DEF Grows, Settled
  <1>4. Counts("conflict", 0) /\ r.scope \in Effective(x) /\ "conflict" \in Outcomes
    BY CleanGranted DEF Counts, Outcomes
  <1>5. Accepts(x, r, "conflict", NewId, 0)
    BY <1>1, <1>2, <1>3, <1>4 DEF Accepts
  <1> QED BY <1>4, <1>5, Ids

LEMMA OpenConflictAccepts ==
  ASSUME TypeOK, NEW x \in Contexts, NEW r \in Requests, OpenConflict(x, r)
  PROVE  \E outcome \in Outcomes, fact \in Nat, existing \in Nat :
           Accepts(x, r, outcome, fact, existing)
  <1>1. PICK c \in Nat : c # 0 /\ c = Len(conflicts) + 1
    BY Ids
  <1>2. PICK from \in ValidFrom(r) :
          facts' = Append(Flag(facts, Current(r), c), StateFact(r, from, c))
    BY <1>1 DEF OpenConflict
  <1>3. /\ Admit(x, r) /\ Clean(x, r) /\ Finish(x, r, "conflict", NewId, 0)
        /\ Enqueue(NewId) /\ UNCHANGED <<vectors, serving>>
        /\ \A i \in Current(r) : facts[i].conflict_group = 0
    BY DEF OpenConflict
  <1> QED BY <1>1, <1>2, <1>3, ContestAccepts

LEMMA JoinConflictAccepts ==
  ASSUME TypeOK, NEW x \in Contexts, NEW r \in Requests, JoinConflict(x, r)
  PROVE  \E outcome \in Outcomes, fact \in Nat, existing \in Nat :
           Accepts(x, r, outcome, fact, existing)
  <1>1. PICK from \in ValidFrom(r), c \in DOMAIN conflicts :
          facts' = Append(facts, StateFact(r, from, c))
    BY DEF JoinConflict
  <1>2. c \in Nat /\ c # 0
    BY Ids
  <1>3. Flag(facts, {}, c) = facts
    BY Ids DEF Flag
  <1>4. /\ Admit(x, r) /\ Clean(x, r) /\ Finish(x, r, "conflict", NewId, 0)
        /\ Enqueue(NewId) /\ UNCHANGED <<vectors, serving>>
    BY DEF JoinConflict
  <1>5. facts' = Append(Flag(facts, {}, c), StateFact(r, from, c))
    BY <1>1, <1>3
  <1> QED BY <1>2, <1>4, <1>5, ContestAccepts

LEMMA DedupUntypedAccepts ==
  ASSUME TypeOK, RowsSound, NEW x \in Contexts, NEW r \in Requests, DedupUntyped(x, r)
  PROVE  \E outcome \in Outcomes, fact \in Nat, existing \in Nat :
           Accepts(x, r, outcome, fact, existing)
  <1>1. PICK t \in Duplicates(r) :
          /\ CanReplace(r, t) /\ facts' = Retire(facts, Replaced(r), t)
          /\ Finish(x, r, "dedup", t, t)
    BY DEF DedupUntyped
  <1>2. t \in FactIds /\ t \in Nat /\ facts[t].scope = r.scope /\ facts[t].kind # "erased"
    BY Ids DEF Duplicates, Settled, RowsSound
  <1>3. /\ Admit(x, r) /\ Clean(x, r) /\ r.scope \in Effective(x)
        /\ UNCHANGED <<outbox, vectors, serving>>
    BY CleanGranted DEF DedupUntyped
  <1>4. FactIds' = FactIds /\ Len(facts') = Len(facts)
    BY <1>1, <1>2, Ids, RetireTyped DEF FactIds
  <1>5. ASSUME NEW i \in FactIds
        PROVE  /\ Kin(facts'[i], facts[i])
               /\ Active(facts'[i]) => Active(facts[i])
               /\ Settled(facts'[i]) => Settled(facts[i])
               /\ facts'[i].superseded_by # facts[i].superseded_by
                    => MayReplace(facts[i], r, "dedup")
    <2>1. facts[i] \in Fact
          /\ facts'[i] = IF i \in Replaced(r) THEN Superseded(facts[i], t) ELSE facts[i]
      BY <1>1, <1>2, Ids, RetireRow
    <2>2. i \in Replaced(r) => MayReplace(facts[i], r, "dedup")
      BY <1>1, <1>3, ReplacedAllowed
    <2>3. i \in Replaced(r) => Kin(facts'[i], facts[i]) /\ ~Active(facts'[i])
      BY <1>2, <2>1, SupersededKin
    <2>4. i \notin Replaced(r) => facts'[i] = facts[i]
      BY <2>1
    <2> QED BY <2>2, <2>3, <2>4 DEF Kin, Settled
  <1>6. Grows(r, "dedup") /\ ~Counts("dedup", t) /\ "dedup" \in Outcomes
    BY <1>3, <1>4, <1>5 DEF Grows, Counts, Outcomes
  <1>7. Accepts(x, r, "dedup", t, t)
    BY <1>1, <1>2, <1>3, <1>4, <1>5, <1>6 DEF Accepts, Kin
  <1> QED BY <1>2, <1>6, <1>7

LEMMA InsertUntypedAccepts ==
  ASSUME TypeOK, NEW x \in Contexts, NEW r \in Requests, InsertUntyped(x, r)
  PROVE  \E outcome \in Outcomes, fact \in Nat, existing \in Nat :
           Accepts(x, r, outcome, fact, existing)
  <1>1. /\ Admit(x, r) /\ Clean(x, r) /\ CanReplace(r, NewId)
        /\ facts' = Retire(Append(facts, UntypedFact(r)), Replaced(r), NewId)
        /\ Finish(x, r, "inserted", NewId, 0) /\ Enqueue(NewId)
        /\ UNCHANGED <<vectors, serving>>
    BY DEF InsertUntyped
  <1>2. /\ UntypedFact(r) \in Fact /\ Active(UntypedFact(r)) /\ NewId \in Nat
        /\ UntypedFact(r).scope = r.scope /\ UntypedFact(r).kind = "untyped"
    BY NewRowsTyped, NewRowsFields, Ids
  <1>3. \A i \in Replaced(r) \cap FactIds : MayReplace(facts[i], r, "inserted")
    BY <1>1, ReplacedAllowed
  <1>4. /\ Grows(r, "inserted")
        /\ Len(facts') = Len(facts) + 1 /\ FactIds' = FactIds \cup {NewId}
        /\ facts'[NewId].scope = r.scope /\ facts'[NewId].kind = "untyped"
    BY <1>1, <1>2, <1>3, InsertGrows
  <1>5. Counts("inserted", 0) /\ r.scope \in Effective(x) /\ "inserted" \in Outcomes
    BY <1>1, CleanGranted DEF Counts, Outcomes
  <1>6. Accepts(x, r, "inserted", NewId, 0)
    BY <1>1, <1>4, <1>5 DEF Accepts
  <1> QED BY <1>2, <1>5, <1>6

LEMMA NearDuplicateAccepts ==
  ASSUME TypeOK, RowsSound, NEW x \in Contexts, NEW r \in Requests,
         NearDuplicateLoses(x, r) \/ NearDuplicateWins(x, r)
  PROVE  \E outcome \in Outcomes, fact \in Nat, existing \in Nat :
           Accepts(x, r, outcome, fact, existing)
  <1>1. /\ UntypedFact(r) \in Fact /\ Active(UntypedFact(r)) /\ NewId \in Nat
        /\ UntypedFact(r).scope = r.scope /\ UntypedFact(r).kind = "untyped"
        /\ NewId \notin FactIds
    BY NewRowsTyped, NewRowsFields, Ids
  <1>2. /\ Admit(x, r) /\ UNCHANGED <<vectors, serving>> /\ r.scope \in Effective(x)
        /\ \A e : Counts("near_dedup", e) /\ "near_dedup" \in Outcomes
    BY CleanGranted DEF NearDuplicateLoses, NearDuplicateWins, Counts, Outcomes
  <1>3. CASE NearDuplicateLoses(x, r)
    <2>1. PICK d \in FactIds :
            /\ r.trust >= facts[d].trust
            /\ facts' = Retire(Append(facts, UntypedFact(r)), {d}, NewId)
            /\ Finish(x, r, "near_dedup", NewId, d)
      BY <1>3 DEF NearDuplicateLoses
    <2>2. facts[d].trust \in Nat /\ r.trust \in Nat /\ d \in Nat
      BY Ids, ConstantsAssumption DEF Fact, Request
    <2>3. \A i \in {d} \cap FactIds : MayReplace(facts[i], r, "near_dedup")
      BY <2>1, <2>2 DEF MayReplace
    <2>4. /\ Grows(r, "near_dedup")
          /\ Len(facts') = Len(facts) + 1 /\ FactIds' = FactIds \cup {NewId}
          /\ facts'[NewId].scope = r.scope /\ facts'[NewId].kind = "untyped"
      BY <1>1, <1>2, <2>1, <2>3, InsertGrows
    <2>5. Enqueue(NewId)
      BY <1>3 DEF NearDuplicateLoses
    <2>6. Accepts(x, r, "near_dedup", NewId, d)
      BY <1>2, <2>1, <2>4, <2>5 DEF Accepts
    <2> QED BY <1>1, <1>2, <2>2, <2>6
  <1>4. CASE NearDuplicateWins(x, r)
    <2>1. PICK d \in FactIds :
            /\ BestNear(r, d)
            /\ facts' = Retire(Append(facts, UntypedFact(r)), {NewId}, d)
            /\ Finish(x, r, "near_dedup", d, d)
      BY <1>4 DEF NearDuplicateWins
    <2>2. d \in Nat /\ facts[d].scope = r.scope /\ facts[d].kind # "erased"
      BY <2>1, Ids DEF BestNear, NearDuplicates, Settled, RowsSound
    <2>3. \A i \in {NewId} \cap FactIds : MayReplace(facts[i], r, "near_dedup")
      BY <1>1
    <2>4. /\ Grows(r, "near_dedup") /\ ~Active(facts'[NewId])
          /\ Len(facts') = Len(facts) + 1 /\ FactIds' = FactIds \cup {NewId}
      BY <1>1, <1>2, <2>1, <2>2, <2>3, InsertGrows
    <2>5. d \in FactIds' /\ facts'[d].scope = r.scope /\ facts'[d].kind # "erased"
      BY <2>2, <2>4 DEF Grows, Kin
    <2>6. UNCHANGED outbox
      BY <1>4 DEF NearDuplicateWins
    <2>7. Accepts(x, r, "near_dedup", d, d)
      BY <1>2, <2>1, <2>4, <2>5, <2>6 DEF Accepts
    <2> QED BY <1>2, <2>2, <2>7
  <1> QED BY <1>3, <1>4

\* A write is a replay, is refused, or is accepted.
LEMMA WriteEffect ==
  ASSUME TypeOK, RowsSound, NEW x \in Contexts, NEW r \in Requests, Write(x, r),
         ~ReplayWrite(x, r), ~RefuseWrite(x, r)
  PROVE  \E outcome \in Outcomes, fact \in Nat, existing \in Nat :
           Accepts(x, r, outcome, fact, existing)
  BY MatchStateAccepts, AddStateAccepts, SupersedeStateAccepts, OpenConflictAccepts,
     JoinConflictAccepts, DedupUntypedAccepts, InsertUntypedAccepts,
     NearDuplicateAccepts DEF Write
-----------------------------------------------------------------------------
(* The evidence                                                            *)

\* Every active fact has its source, in a session that has its scope.
Supported ==
  /\ \A i \in FactIds : Active(facts[i]) => Attributed(i)
  /\ \A p \in provenance :
       \E s \in sessions : /\ s.client = observations[p[2]].client
                           /\ s.session = observations[p[2]].session
                           /\ facts[p[1]].scope \in s.scopes

\* The erasures so far left their mark, and every active fact has its source.
EvidenceInv == Supported /\ ErasedEvidenceRedacted

\* What an accepted write records besides the facts.
LEMMA FinishEffect ==
  ASSUME TypeOK, NEW x \in Contexts, NEW r \in Requests, NEW outcome, NEW fact, NEW existing,
         Finish(x, r, outcome, fact, existing)
  PROVE  \E o \in Nat :
           /\ o \in DOMAIN observations' /\ observations'[o] = ObservationRow(x, r)
           /\ DOMAIN observations \subseteq DOMAIN observations'
           /\ \A p \in DOMAIN observations : observations'[p] = observations[p]
           /\ provenance' = provenance \cup {<<fact, o>>}
           /\ sessions' = sessions \cup {SessionRow(x, Effective(x))}
           /\ log' = log \cup {WriteRow(x, r, outcome, fact, existing, o)}
  <1>1. PICK o \in 1..(Len(observations) + 1) :
          /\ RegisterSession(x)
          /\ RecordObservation(x, r, o)
          /\ provenance' = provenance \cup {<<fact, o>>}
          /\ log' = log \cup {WriteRow(x, r, outcome, fact, existing, o)}
    BY DEF Finish
  <1>2. observations \in Seq(Observation) /\ Len(observations) \in Nat
    BY DEF TypeOK
  <1>3. /\ o \in DOMAIN observations' /\ observations'[o] = ObservationRow(x, r)
        /\ DOMAIN observations \subseteq DOMAIN observations'
        /\ \A p \in DOMAIN observations : observations'[p] = observations[p]
    <2>1. CASE UNCHANGED observations
      <3>1. o \in DOMAIN observations /\ observations[o] = ObservationRow(x, r)
        <4>1. CASE /\ o = Len(observations) + 1
                   /\ observations' = Append(observations, ObservationRow(x, r))
          <5>1. Len(observations') = Len(observations) + 1
            BY <1>2, <4>1, ObservationRowTyped, AppendTyped
          <5> QED BY <1>2, <2>1, <5>1
        <4> QED BY <1>1, <4>1 DEF RecordObservation
      <3> QED BY <2>1, <3>1
    <2>2. CASE /\ o = Len(observations) + 1
               /\ observations' = Append(observations, ObservationRow(x, r))
      BY <1>2, <2>2, ObservationRowTyped, AppendTyped
    <2> QED BY <1>1, <2>1, <2>2 DEF RecordObservation
  <1> QED BY <1>1, <1>2, <1>3 DEF RegisterSession

\* A step that leaves the evidence alone and activates no fact.
LEMMA EvidenceKept ==
  ASSUME TypeOK, EvidenceInv, FactIds' = FactIds,
         \A i \in FactIds : Kin(facts'[i], facts[i]) /\ (Active(facts'[i]) => Active(facts[i])),
         UNCHANGED <<observations, provenance>>, sessions \subseteq sessions'
  PROVE  EvidenceInv'
  <1>1. \A p \in provenance : p[1] \in FactIds
    BY DEF TypeOK
  <1>2. Supported'
    BY <1>1 DEF EvidenceInv, Supported, Attributed, Kin
  <1>3. ErasedEvidenceRedacted'
    BY <1>1 DEF EvidenceInv, ErasedEvidenceRedacted, Kin
  <1> QED BY <1>2, <1>3 DEF EvidenceInv

LEMMA AcceptKeepsEvidence ==
  ASSUME TypeOK, TypeOK', EvidenceInv, NEW x \in Contexts, NEW r \in Requests,
         NEW outcome \in Outcomes, NEW fact \in Nat, NEW existing \in Nat,
         Accepts(x, r, outcome, fact, existing)
  PROVE  EvidenceInv'
  <1>1. PICK o \in Nat :
          /\ o \in DOMAIN observations' /\ observations'[o] = ObservationRow(x, r)
          /\ DOMAIN observations \subseteq DOMAIN observations'
          /\ \A p \in DOMAIN observations : observations'[p] = observations[p]
          /\ provenance' = provenance \cup {<<fact, o>>}
          /\ sessions' = sessions \cup {SessionRow(x, Effective(x))}
    BY FinishEffect DEF Accepts
  <1>2. /\ observations'[o].client = x.client /\ observations'[o].session = x.session
        /\ observations'[o].scope = r.scope
    BY <1>1 DEF ObservationRow
  <1>3. /\ fact \in FactIds' /\ facts'[fact].scope = r.scope /\ facts'[fact].kind # "erased"
        /\ r.scope \in Effective(x)
        /\ FactIds \subseteq FactIds'
        /\ \A i \in FactIds : /\ Kin(facts'[i], facts[i])
                              /\ Active(facts'[i]) => Active(facts[i])
        /\ \A i \in FactIds' : i \in FactIds \/ i = fact \/ ~Active(facts'[i])
    BY DEF Accepts, Grows
  <1>4. \A p \in provenance : p[1] \in FactIds /\ p[2] \in DOMAIN observations
    BY DEF TypeOK
  <1>5. ASSUME NEW i \in FactIds', Active(facts'[i]) PROVE Attributed(i)'
    <2> SUFFICES \E p \in DOMAIN observations' :
                   <<i, p>> \in provenance' /\ observations'[p].scope = facts'[i].scope
      BY DEF Attributed
    <2>1. CASE i = fact
      BY <1>1, <1>2, <1>3, <2>1
    <2>2. CASE i \in FactIds /\ Active(facts[i])
      <3>1. PICK p \in DOMAIN observations :
              <<i, p>> \in provenance /\ observations[p].scope = facts[i].scope
        BY <2>2 DEF EvidenceInv, Supported, Attributed
      <3> QED BY <1>1, <1>3, <2>2, <3>1 DEF Kin
    <2> QED BY <1>3, <1>5, <2>1, <2>2
  <1>6. ASSUME NEW p \in provenance'
        PROVE  \E s \in sessions' : /\ s.client = observations'[p[2]].client
                                    /\ s.session = observations'[p[2]].session
                                    /\ facts'[p[1]].scope \in s.scopes
    <2>1. CASE p \in provenance
      <3>1. PICK s \in sessions : /\ s.client = observations[p[2]].client
                                  /\ s.session = observations[p[2]].session
                                  /\ facts[p[1]].scope \in s.scopes
        BY <2>1 DEF EvidenceInv, Supported
      <3>2. /\ s \in sessions' /\ observations'[p[2]] = observations[p[2]]
            /\ facts'[p[1]].scope = facts[p[1]].scope
        BY <1>1, <1>3, <1>4, <2>1 DEF Kin
      <3> QED BY <3>1, <3>2
    <2>2. CASE p = <<fact, o>>
      <3>1. /\ SessionRow(x, Effective(x)).client = x.client
            /\ SessionRow(x, Effective(x)).session = x.session
            /\ SessionRow(x, Effective(x)).scopes = Effective(x)
            /\ SessionRow(x, Effective(x)) \in sessions'
        BY <1>1 DEF SessionRow
      <3>2. p[1] = fact /\ p[2] = o
        BY <2>2
      <3> QED BY <1>2, <1>3, <3>1, <3>2
    <2> QED BY <1>1, <2>1, <2>2
  <1>7. ASSUME NEW p \in provenance', facts'[p[1]].kind = "erased"
        PROVE  observations'[p[2]].redacted
    <2>1. p \in provenance
      BY <1>1, <1>3, <1>7
    <2>2. facts[p[1]].kind = "erased" /\ observations'[p[2]] = observations[p[2]]
      BY <1>1, <1>3, <1>4, <1>7, <2>1 DEF Kin
    <2> QED BY <2>1, <2>2 DEF EvidenceInv, ErasedEvidenceRedacted
  <1> QED BY <1>5, <1>6, <1>7 DEF EvidenceInv, Supported, ErasedEvidenceRedacted

\* An erasure redacts what supported the erased fact and moves nothing.
LEMMA EraseKeepsEvidence ==
  ASSUME TypeOK, RowsSound, EvidenceInv, NEW e, EraseFact(e)
  PROVE  EvidenceInv'
  <1>1. /\ e \in FactIds /\ facts' = [i \in FactIds |-> ErasedRow(e, i)]
        /\ UNCHANGED <<provenance, sessions>>
        /\ observations' = [o \in DOMAIN observations |->
             IF o \in Exposed(e)
               THEN [observations[o] EXCEPT !.content = NONE, !.redacted = TRUE]
               ELSE observations[o]]
    BY DEF EraseFact
  <1>2. FactIds' = FactIds /\ \A i \in FactIds : facts'[i] = ErasedRow(e, i)
    BY <1>1 DEF FactIds
  <1>3. /\ ~Active(facts'[e])
        /\ \A i \in FactIds : facts'[i].scope = facts[i].scope
        /\ \A i \in FactIds : i # e =>
             Kin(facts'[i], facts[i]) /\ (Active(facts'[i]) => Active(facts[i]))
    BY <1>1, <1>2, ErasedRowFields
  <1>4. /\ DOMAIN observations' = DOMAIN observations
        /\ \A o \in DOMAIN observations :
             /\ observations'[o].client = observations[o].client
             /\ observations'[o].session = observations[o].session
             /\ observations'[o].scope = observations[o].scope
             /\ observations[o].redacted => observations'[o].redacted
             /\ o \in Exposed(e) => observations'[o].redacted
    <2>1. ASSUME NEW o \in DOMAIN observations
          PROVE  /\ observations'[o].client = observations[o].client
                 /\ observations'[o].session = observations[o].session
                 /\ observations'[o].scope = observations[o].scope
                 /\ observations[o].redacted => observations'[o].redacted
                 /\ o \in Exposed(e) => observations'[o].redacted
      <3> DEFINE row == [observations[o] EXCEPT !.content = NONE, !.redacted = TRUE]
      <3>1. observations[o] \in Observation
        BY DEF TypeOK
      <3>2. /\ row.client = observations[o].client /\ row.session = observations[o].session
            /\ row.scope = observations[o].scope /\ row.redacted
        BY <3>1 DEF Observation
      <3>3. observations'[o] = IF o \in Exposed(e) THEN row ELSE observations[o]
        BY <1>1
      <3> HIDE DEF row
      <3> QED BY <3>2, <3>3
    <2> QED BY <1>1, <2>1
  <1>5. \A p \in provenance : p[1] \in FactIds /\ p[2] \in DOMAIN observations /\ p = <<p[1], p[2]>>
    BY DEF TypeOK
  <1>6. Supported'
    <2>1. ASSUME NEW i \in FactIds', Active(facts'[i]) PROVE Attributed(i)'
      <3>1. i \in FactIds /\ i # e /\ Active(facts[i])
        BY <1>2, <1>3, <2>1
      <3>2. PICK p \in DOMAIN observations :
              <<i, p>> \in provenance /\ observations[p].scope = facts[i].scope
        BY <3>1 DEF EvidenceInv, Supported, Attributed
      <3> SUFFICES \E q \in DOMAIN observations' :
                     <<i, q>> \in provenance' /\ observations'[q].scope = facts'[i].scope
        BY DEF Attributed
      <3> QED BY ZenonT(60), <1>1, <1>3, <1>4, <3>1, <3>2
    <2>2. ASSUME NEW p \in provenance'
          PROVE  \E s \in sessions' : /\ s.client = observations'[p[2]].client
                                      /\ s.session = observations'[p[2]].session
                                      /\ facts'[p[1]].scope \in s.scopes
      <3>1. p \in provenance
        BY <1>1
      <3>2. PICK s \in sessions : /\ s.client = observations[p[2]].client
                                  /\ s.session = observations[p[2]].session
                                  /\ facts[p[1]].scope \in s.scopes
        BY <3>1 DEF EvidenceInv, Supported
      <3> QED BY <1>1, <1>3, <1>4, <1>5, <3>1, <3>2
    <2> QED BY <2>1, <2>2 DEF Supported
  <1>7. ErasedEvidenceRedacted'
    <2> SUFFICES ASSUME NEW p \in provenance', facts'[p[1]].kind = "erased"
                 PROVE  observations'[p[2]].redacted
      BY DEF ErasedEvidenceRedacted
    <2>1. p \in provenance /\ p[1] \in FactIds /\ p[2] \in DOMAIN observations
      BY <1>1, <1>5
    <2>2. CASE p[1] = e
      <3>1. p[2] \in Exposed(e)
        BY <1>5, <2>1, <2>2 DEF Exposed
      <3> QED BY <1>4, <2>1, <3>1
    <2>3. CASE p[1] # e
      <3>1. facts[p[1]].kind = "erased"
        BY <1>3, <2>1, <2>3 DEF Kin
      <3> QED BY <1>4, <2>1, <3>1 DEF EvidenceInv, ErasedEvidenceRedacted
    <2> QED BY <2>2, <2>3
  <1> QED BY <1>6, <1>7 DEF EvidenceInv

\* The steps that leave the evidence tables alone keep it as well.
LEMMA NextEvidence ==
  ASSUME TypeOK, RowsSound, EvidenceInv, [Next]_vars
  PROVE  EvidenceInv'
  <1>0. TypeOK'
    BY NextTyped
  <1>1. CASE UNCHANGED <<facts, observations, provenance>> /\ sessions \subseteq sessions'
    <2>1. FactIds' = FactIds /\ \A i \in FactIds : facts'[i] = facts[i]
      BY <1>1 DEF FactIds
    <2> QED BY <1>1, <2>1, EvidenceKept DEF Kin
  <1>2. ASSUME NEW x \in Contexts, NEW r \in Requests, Write(x, r) PROVE EvidenceInv'
    <2>1. CASE ReplayWrite(x, r) \/ RefuseWrite(x, r)
      BY <1>1, <2>1 DEF ReplayWrite, RefuseWrite, RegisterSession, vars
    <2>2. CASE ~ReplayWrite(x, r) /\ ~RefuseWrite(x, r)
      BY <1>0, <1>2, <2>2, WriteEffect, AcceptKeepsEvidence
    <2> QED BY <2>1, <2>2
  <1>3. ASSUME NEW x \in Contexts, NEW c \in DOMAIN conflicts, NEW w \in FactIds,
               ResolveConflict(x, c, w)
        PROVE  EvidenceInv'
    <2>1. /\ FactIds' = FactIds
          /\ \A i \in FactIds :
               Kin(facts'[i], facts[i]) /\ (Active(facts'[i]) => Active(facts[i]))
      BY <1>3, ResolveEffect
    <2>2. UNCHANGED <<observations, provenance>> /\ sessions \subseteq sessions'
      BY <1>3 DEF ResolveConflict, RegisterSession
    <2> QED BY <2>1, <2>2, EvidenceKept
  <1>4. ASSUME NEW e \in Erasable, EraseFact(e) PROVE EvidenceInv'
    BY <1>4, EraseKeepsEvidence
  <1> QED BY <1>1, <1>2, <1>3, <1>4 DEF Next, EmbedFact, StopServer, StartServer, vars

\* The evidence is inductive together with the row facts of the slots.
LEMMA EvidenceInvariant == Spec => []EvidenceInv
  <1>1. Init => EvidenceInv
    BY DEF Init, EvidenceInv, Supported, ErasedEvidenceRedacted, FactIds
  <1>2. (TypeOK /\ SlotInv) /\ EvidenceInv /\ [Next]_vars => EvidenceInv'
    BY NextEvidence DEF SlotInv
  <1> QED BY <1>1, <1>2, SlotInvariant, PTL DEF Spec

\* A session id of a client has one row, and one set of scopes, for good.
OneSession ==
  \A s, t \in sessions : (s.client = t.client /\ s.session = t.session) => s = t

LEMMA RegisterKeepsSession ==
  ASSUME OneSession, NEW x, SessionMatches(x), RegisterSession(x)
  PROVE  OneSession'
  <1>1. PICK row : row = SessionRow(x, Effective(x))
    OBVIOUS
  <1>2. row.client = x.client /\ row.session = x.session
    BY <1>1 DEF SessionRow
  <1>3. sessions' = sessions \cup {row}
    BY <1>1 DEF RegisterSession
  <1>4. \A s \in sessions : (s.client = row.client /\ s.session = row.session) => s = row
    BY <1>1, <1>2 DEF SessionMatches
  <1> QED BY <1>3, <1>4 DEF OneSession

LEMMA NextKeepsSession ==
  ASSUME OneSession, [Next]_vars
  PROVE  OneSession'
  <1>1. CASE UNCHANGED sessions
    BY <1>1 DEF OneSession
  <1>2. ASSUME NEW x \in Contexts, NEW r \in Requests, Write(x, r)
        PROVE  OneSession'
    <2>1. UNCHANGED sessions \/ (SessionMatches(x) /\ RegisterSession(x))
      BY <1>2 DEF Write, ReplayWrite, RefuseWrite, MatchState, AddState, SupersedeState,
         OpenConflict, JoinConflict, DedupUntyped, InsertUntyped, NearDuplicateLoses,
         NearDuplicateWins, Admit, Finish, vars
    <2> QED BY <1>1, <2>1, RegisterKeepsSession
  <1>3. ASSUME NEW x \in Contexts, NEW c \in DOMAIN conflicts, NEW w \in FactIds,
               ResolveConflict(x, c, w)
        PROVE  OneSession'
    BY <1>3, RegisterKeepsSession DEF ResolveConflict
  <1> QED BY <1>1, <1>2, <1>3 DEF Next, EraseFact, EmbedFact, StopServer, StartServer, vars

LEMMA SessionInvariant == Spec => []OneSession
  <1>1. Init => OneSession
    BY DEF Init, OneSession
  <1>2. OneSession /\ [Next]_vars => OneSession'
    BY NextKeepsSession
  <1> QED BY <1>1, <1>2, PTL DEF Spec

\* No write path, merge, resolution or erasure leaves an active fact without
\* evidence of its scope, or evidence from a session without that scope; the
\* row of a session is never joined by another of the same id.
THEOREM EvidenceIsAuthorized == Spec => []EvidenceAuthorized
  <1>1. EvidenceInv /\ OneSession => EvidenceAuthorized
    <2> SUFFICES ASSUME EvidenceInv, OneSession, NEW p \in provenance
                 PROVE  /\ SessionOf(p[2]) # {}
                        /\ \A s \in SessionOf(p[2]) : facts[p[1]].scope \in s.scopes
      BY DEF EvidenceInv, Supported, EvidenceAuthorized
    <2>1. PICK t \in sessions : /\ t.client = observations[p[2]].client
                                /\ t.session = observations[p[2]].session
                                /\ facts[p[1]].scope \in t.scopes
      BY DEF EvidenceInv, Supported
    <2>2. t \in SessionOf(p[2])
      BY <2>1 DEF SessionOf
    <2>3. \A s \in SessionOf(p[2]) : s = t
      BY <2>1 DEF SessionOf, OneSession
    <2> QED BY <2>1, <2>2, <2>3
  <1> QED BY <1>1, EvidenceInvariant, SessionInvariant, PTL

\* What erase_fact blanked is never joined by readable evidence: a later write
\* of the same text supports another fact.
THEOREM EvidenceStaysRedacted == Spec => []ErasedEvidenceRedacted
  <1>1. EvidenceInv => ErasedEvidenceRedacted
    BY DEF EvidenceInv
  <1> QED BY <1>1, EvidenceInvariant, PTL
-----------------------------------------------------------------------------
(* The idempotency log                                                     *)

\* The log rows of the writes that inserted a fact.
Effects(rows) == {w \in rows : Counts(w.outcome, w.existing)}

KeyInv == IsFiniteSet(log) /\ OneEffectPerKey

\* A logged row is new: its client has not used its key.
LEMMA RowIsNew ==
  ASSUME NEW x, NEW r, Prior(x, r) = {}, NEW outcome, NEW fact, NEW existing, NEW o, NEW row,
         row = WriteRow(x, r, outcome, fact, existing, o)
  PROVE  /\ row.client = x.client /\ row.request = r
         /\ row.outcome = outcome /\ row.existing = existing
         /\ \A w \in log : w.client # row.client \/ w.request.key # row.request.key
         /\ row \notin log
  <1>1. /\ row.client = x.client /\ row.request = r
        /\ row.outcome = outcome /\ row.existing = existing
    BY DEF WriteRow
  <1>2. \A w \in log : w.client # x.client \/ w.request.key # r.key
    BY DEF Prior
  <1> QED BY <1>1, <1>2

\* Logging one new row, with or without its insertion.
LEMMA LogKeeps ==
  ASSUME TypeOK, KeyInv, NEW row, log' = log \cup {row},
         \A w \in log : w.client # row.client \/ w.request.key # row.request.key,
         row \notin log,
         Len(facts') = IF Counts(row.outcome, row.existing) THEN Len(facts) + 1 ELSE Len(facts)
  PROVE  KeyInv'
  <1> DEFINE n == Len(facts)
             S == Effects(log)
  <1>1. Len(facts) \in Nat /\ IsFiniteSet(log)
        /\ \A v, w \in log :
             (v.client = w.client /\ v.request.key = w.request.key) => v = w
    BY Ids DEF KeyInv, OneEffectPerKey
  <1>2. Len(facts) = Cardinality(S)
    BY DEF KeyInv, OneEffectPerKey, Effects, Counts
  <1>3. IsFiniteSet(S) /\ row \notin S
    <2>1. S \in SUBSET log
      BY DEF Effects
    <2> QED BY <1>1, <2>1, FS_Subset
  <1>4. IsFiniteSet(log \cup {row})
    BY <1>1, FS_AddElement
  <1>5. Effects(log') = IF Counts(row.outcome, row.existing) THEN S \cup {row} ELSE S
    BY DEF Effects
  <1> HIDE DEF S
  <1>6. Cardinality(S \cup {row}) = Cardinality(S) + 1
    BY <1>3, FS_AddElement
  <1>7. Len(facts') = Cardinality(Effects(log'))
    BY <1>2, <1>5, <1>6
  <1>8. \A v, w \in log' :
          (v.client = w.client /\ v.request.key = w.request.key) => v = w
    BY <1>1
  <1>9. OneEffectPerKey'
    BY <1>7, <1>8 DEF OneEffectPerKey, Effects, Counts
  <1> QED BY <1>4, <1>9 DEF KeyInv

LEMMA NextKeys ==
  ASSUME TypeOK, RowsSound, KeyInv, [Next]_vars
  PROVE  KeyInv'
  <1>1. CASE log' = log /\ Len(facts') = Len(facts)
    BY <1>1 DEF KeyInv, OneEffectPerKey
  <1>2. ASSUME NEW x \in Contexts, NEW r \in Requests, Write(x, r) PROVE KeyInv'
    <2>1. CASE ReplayWrite(x, r)
      BY <1>1, <2>1 DEF ReplayWrite, vars
    <2>2. CASE RefuseWrite(x, r)
      <3>1. PICK outcome \in {"rejected", "needs_review"} :
              log' = log \cup {WriteRow(x, r, outcome, 0, 0, 0)}
        BY <2>2 DEF RefuseWrite
      <3>2. PICK row : row = WriteRow(x, r, outcome, 0, 0, 0)
        OBVIOUS
      <3>3. Prior(x, r) = {} /\ Len(facts') = Len(facts)
        BY <2>2 DEF RefuseWrite, Admit
      <3>4. /\ row \notin log /\ row.outcome = outcome
            /\ \A w \in log : w.client # row.client \/ w.request.key # row.request.key
        BY <3>2, <3>3, RowIsNew
      <3>5. ~Counts(row.outcome, row.existing)
        BY <3>4 DEF Counts
      <3> QED BY <3>1, <3>2, <3>3, <3>4, <3>5, LogKeeps
    <2>3. CASE ~ReplayWrite(x, r) /\ ~RefuseWrite(x, r)
      <3>1. PICK outcome \in Outcomes, fact \in Nat, existing \in Nat :
              Accepts(x, r, outcome, fact, existing)
        BY <1>2, <2>3, WriteEffect
      <3>2. PICK o \in Nat : log' = log \cup {WriteRow(x, r, outcome, fact, existing, o)}
        BY <3>1, FinishEffect DEF Accepts
      <3>3. PICK row : row = WriteRow(x, r, outcome, fact, existing, o)
        OBVIOUS
      <3>4. Prior(x, r) = {}
        BY <3>1 DEF Accepts, Admit
      <3>5. /\ row \notin log /\ row.outcome = outcome /\ row.existing = existing
            /\ \A w \in log : w.client # row.client \/ w.request.key # row.request.key
        BY <3>3, <3>4, RowIsNew
      <3>6. Len(facts') = IF Counts(outcome, existing) THEN Len(facts) + 1 ELSE Len(facts)
        BY <3>1 DEF Accepts
      <3> QED BY <3>2, <3>3, <3>5, <3>6, LogKeeps
    <2> QED BY <2>1, <2>2, <2>3
  <1>3. ASSUME NEW x \in Contexts, NEW c \in DOMAIN conflicts, NEW w \in FactIds,
               ResolveConflict(x, c, w)
        PROVE  KeyInv'
    BY <1>1, <1>3, ResolveEffect DEF ResolveConflict
  <1>4. ASSUME NEW e \in Erasable, EraseFact(e) PROVE KeyInv'
    <2>1. /\ facts' = [i \in FactIds |-> ErasedRow(e, i)] /\ log' = log
      BY <1>4 DEF EraseFact
    <2>2. facts' \in Seq(Fact) /\ DOMAIN facts' = FactIds
      BY <2>1, NextTyped DEF TypeOK, FactIds
    <2>3. Len(facts') = Len(facts)
      BY <2>2, Ids DEF FactIds
    <2> QED BY <1>1, <2>1, <2>3
  <1> QED BY <1>1, <1>2, <1>3, <1>4 DEF Next, EmbedFact, StopServer, StartServer, vars

\* A retried request takes effect once, and nothing but a logged write inserts
\* a fact: replays, refusals, resolutions and erasures do not.
THEOREM KeysTakeEffectOnce == Spec => []OneEffectPerKey
  <1>1. Init => KeyInv
    <2> SUFFICES ASSUME Init PROVE KeyInv
      OBVIOUS
    <2>1. log = {} /\ Len(facts) = 0
      BY DEF Init
    <2>2. {w \in log : \/ w.outcome \in {"inserted", "near_dedup", "add", "supersede"}
                       \/ w.outcome = "conflict" /\ w.existing = 0} = {}
      BY <2>1
    <2>3. IsFiniteSet({}) /\ Cardinality({}) = 0
      BY FS_EmptySet
    <2> QED BY <2>1, <2>2, <2>3 DEF KeyInv, OneEffectPerKey
  <1>2. (TypeOK /\ SlotInv) /\ KeyInv /\ [Next]_vars => KeyInv'
    BY NextKeys DEF SlotInv
  <1>3. KeyInv => OneEffectPerKey
    BY DEF KeyInv
  <1> QED BY <1>1, <1>2, <1>3, SlotInvariant, PTL DEF Spec

-----------------------------------------------------------------------------
(* Who may supersede                                                       *)

\* The step form of SupersessionReviewed.
Reviewed ==
  \A i \in FactIds :
    ( /\ facts[i].superseded_by = 0 /\ facts'[i].superseded_by # 0
      /\ facts[i].conflict_group = 0 ) =>
      \E w \in log' \ log :
        \/ /\ facts[i].authority <= w.request.authority
           /\ facts[i].protected => Human(w.request)
        \/ w.outcome = "near_dedup" /\ facts[i].trust <= w.request.trust

LEMMA NextReviewed ==
  ASSUME TypeOK, SlotInv, [Next]_vars
  PROVE  Reviewed
  <1>1. CASE \A i \in FactIds : facts'[i].superseded_by = facts[i].superseded_by
    BY <1>1 DEF Reviewed
  <1>2. ASSUME NEW x \in Contexts, NEW r \in Requests, Write(x, r) PROVE Reviewed
    <2>1. CASE ReplayWrite(x, r) \/ RefuseWrite(x, r)
      BY <1>1, <2>1 DEF ReplayWrite, RefuseWrite, vars
    <2>2. CASE ~ReplayWrite(x, r) /\ ~RefuseWrite(x, r)
      <3>1. PICK outcome \in Outcomes, fact \in Nat, existing \in Nat :
              Accepts(x, r, outcome, fact, existing)
        BY <1>2, <2>2, WriteEffect DEF SlotInv
      <3>2. PICK o \in Nat : log' = log \cup {WriteRow(x, r, outcome, fact, existing, o)}
        BY <3>1, FinishEffect DEF Accepts
      <3>3. PICK row : row = WriteRow(x, r, outcome, fact, existing, o)
        OBVIOUS
      <3>4. Prior(x, r) = {}
        BY <3>1 DEF Accepts, Admit
      <3>5. row \in log' \ log /\ row.request = r /\ row.outcome = outcome
        BY <3>2, <3>3, <3>4, RowIsNew
      <3>6. \A i \in FactIds : facts'[i].superseded_by # facts[i].superseded_by
              => MayReplace(facts[i], r, outcome)
        BY <3>1 DEF Accepts, Grows
      <3> QED BY <3>5, <3>6 DEF Reviewed, MayReplace
    <2> QED BY <2>1, <2>2
  <1>3. ASSUME NEW x \in Contexts, NEW c \in DOMAIN conflicts, NEW w \in FactIds,
               ResolveConflict(x, c, w)
        PROVE  Reviewed
    <2>1. \A i \in MembersOf(c) : facts[i].conflict_group = c
      BY <1>3 DEF ResolveConflict, Resolvable
    <2>2. c # 0
      BY Ids
    <2>3. \A i \in FactIds : i \notin MembersOf(c)
            => facts'[i].superseded_by = facts[i].superseded_by
      BY <1>3, ResolveEffect
    <2> QED BY <2>1, <2>2, <2>3 DEF Reviewed
  <1>4. ASSUME NEW e \in Erasable, EraseFact(e) PROVE Reviewed
    <2>1. /\ e \in FactIds /\ \A i \in FactIds : facts'[i] = ErasedRow(e, i)
      BY <1>4 DEF EraseFact
    <2>2. \A i \in FactIds : ErasedRow(e, i).superseded_by = facts[i].superseded_by
      BY <2>1, ErasedRowFields DEF SlotInv
    <2> QED BY <1>1, <2>1, <2>2
  <1> QED BY <1>1, <1>2, <1>3, <1>4 DEF Next, EmbedFact, StopServer, StartServer, vars

\* Outside a conflict a fact is superseded only by a write that
\* _supersession_policy let pass, or by the merge of near duplicates.
THEOREM SupersessionIsReviewed == Spec => SupersessionReviewed
  <1>1. (TypeOK /\ SlotInv) /\ [Next]_vars => [Reviewed]_vars
    BY NextReviewed
  <1> QED BY <1>1, SlotInvariant, PTL DEF Spec, SupersessionReviewed, Reviewed

-----------------------------------------------------------------------------
(* The outbox contract                                                     *)

\* What retrieval may return, as the contract sees it.
Retrievable == {i \in FactIds : Settled(facts[i])}

\* A transaction of the daemon that settles one fact at most, and enqueues it.
LEMMA ChangeCovered ==
  ASSUME TypeOK, serving, UNCHANGED <<vectors, serving>>, FactIds \subseteq FactIds', Embedding,
         NEW f \in FactIds', Retrievable' \ Retrievable \subseteq {f},
         \/ Enqueue(f)
         \/ UNCHANGED outbox /\ f \notin Retrievable'
  PROVE  Coverage!Change
  <1>1. Retrievable' \subseteq FactIds'
    BY DEF Retrievable
  <1>2. outbox' = outbox \cup ({f} \ vectors) \/ (outbox' = outbox /\ f \notin Retrievable')
    BY DEF Enqueue
  <1>3. Retrievable' \ Retrievable \subseteq outbox' \cup vectors
    BY <1>2
  <1>4. outbox \subseteq outbox' /\ outbox' \subseteq outbox \cup (FactIds' \ vectors)
    BY <1>2
  <1> QED BY <1>1, <1>3, <1>4 DEF Coverage!Change, Retrievable

LEMMA NextCovered ==
  ASSUME TypeOK, SlotInv, [Next]_vars, Embedding
  PROVE  Coverage!Next \/ UNCHANGED Coverage!vars
  <1>1. CASE UNCHANGED <<facts, outbox, vectors, serving>>
    BY <1>1 DEF Coverage!vars, FactIds
  <1>2. ASSUME NEW x \in Contexts, NEW r \in Requests, Write(x, r)
        PROVE  Coverage!Next \/ UNCHANGED Coverage!vars
    <2>1. CASE ReplayWrite(x, r) \/ RefuseWrite(x, r)
      BY <1>1, <2>1 DEF ReplayWrite, RefuseWrite, vars
    <2>2. CASE ~ReplayWrite(x, r) /\ ~RefuseWrite(x, r)
      <3>1. PICK outcome \in Outcomes, fact \in Nat, existing \in Nat :
              Accepts(x, r, outcome, fact, existing)
        BY <1>2, <2>2, WriteEffect DEF SlotInv
      <3>2. /\ serving /\ UNCHANGED <<vectors, serving>> /\ FactIds \subseteq FactIds'
            /\ \A i \in FactIds : Settled(facts'[i]) => Settled(facts[i])
        BY <3>1 DEF Accepts, Grows, Admit, Known
      <3>3. CASE FactIds' = FactIds /\ UNCHANGED outbox
        <4>1. Retrievable' \subseteq Retrievable
          BY <3>2, <3>3 DEF Retrievable
        <4> QED BY <3>2, <3>3, <4>1 DEF Coverage!Next, Coverage!Change, Retrievable
      <3>4. CASE /\ FactIds' = FactIds \cup {NewId}
                 /\ \/ Enqueue(NewId)
                    \/ ~Active(facts'[NewId]) /\ UNCHANGED outbox
        <4>1. PICK n : n = NewId
          OBVIOUS
        <4>2. Retrievable' \ Retrievable \subseteq {n}
          BY <3>2, <3>4, <4>1 DEF Retrievable
        <4>3. Enqueue(n) \/ (UNCHANGED outbox /\ n \notin Retrievable')
          BY <3>4, <4>1 DEF Retrievable, Settled
        <4>4. n \in FactIds'
          BY <3>4, <4>1
        <4>5. Coverage!Change
          BY <3>2, <4>2, <4>3, <4>4, ChangeCovered
        <4> QED BY <4>5 DEF Coverage!Next
      <3> QED BY <3>1, <3>3, <3>4 DEF Accepts
    <2> QED BY <2>1, <2>2
  <1>3. ASSUME NEW x \in Contexts, NEW c \in DOMAIN conflicts, NEW w \in FactIds,
               ResolveConflict(x, c, w)
        PROVE  Coverage!Next
    <2>1. serving /\ UNCHANGED <<vectors, serving>> /\ Enqueue(w)
      BY <1>3 DEF ResolveConflict
    <2>2. FactIds' = FactIds
      BY <1>3, ResolveEffect
    <2>3. \A i \in FactIds : i # w /\ Settled(facts'[i]) => Settled(facts[i])
      BY <1>3, ResolveEffect DEF Settled
    <2>4. Retrievable' \ Retrievable \subseteq {w}
      BY <2>2, <2>3 DEF Retrievable
    <2>5. Coverage!Change
      BY <2>1, <2>2, <2>4, ChangeCovered
    <2> QED BY <2>5 DEF Coverage!Next
  <1>4. ASSUME NEW e \in Erasable, EraseFact(e) PROVE Coverage!Next
    <2>1. /\ e \in FactIds /\ facts' = [i \in FactIds |-> ErasedRow(e, i)] /\ ~serving
          /\ outbox' = outbox \ {e} /\ vectors' = vectors \ {e} /\ UNCHANGED serving
      BY <1>4 DEF EraseFact
    <2>2. FactIds' = FactIds
      BY <2>1 DEF FactIds
    <2>3. e \notin Retrievable' /\ Retrievable' \subseteq FactIds
      <3>1. ~Active(ErasedRow(e, e))
        BY <2>1, ErasedRowFields DEF SlotInv
      <3> QED BY <2>1, <2>2, <3>1 DEF Retrievable, Settled
    <2>4. Coverage!Erase(e)
      BY <2>1, <2>2, <2>3 DEF Coverage!Erase, Retrievable
    <2> QED BY <2>1, <2>4 DEF Coverage!Next
  <1>5. ASSUME NEW f \in outbox, EmbedFact(f) PROVE Coverage!Next
    <2>1. /\ f \in FactIds /\ UNCHANGED <<facts, serving>> /\ outbox' = outbox \ {f}
          /\ vectors' = IF Settled(facts[f]) THEN vectors \cup {f} ELSE vectors
      BY <1>5 DEF EmbedFact, TypeOK
    <2>2. f \in Retrievable <=> Settled(facts[f])
      BY <2>1 DEF Retrievable
    <2>3. FactIds' = FactIds /\ Retrievable' = Retrievable
      BY <2>1 DEF FactIds, Retrievable
    <2>4. Coverage!Complete(f)
      BY <2>1, <2>2, <2>3 DEF Coverage!Complete, Retrievable
    <2> QED BY <2>1, <2>4 DEF Coverage!Next
  <1>6. CASE StopServer
    <2>1. serving /\ serving' = FALSE /\ UNCHANGED <<facts, outbox, vectors>>
      BY <1>6 DEF StopServer
    <2> QED BY <2>1 DEF Coverage!Next, Coverage!Stop, FactIds
  <1>7. CASE StartServer
    <2>1. /\ ~serving /\ serving' \in BOOLEAN /\ UNCHANGED <<facts, vectors>>
          /\ outbox' = outbox \cup Uncovered
      BY <1>7 DEF StartServer
    <2>2. Uncovered = Retrievable \ vectors
      BY DEF Uncovered, Retrievable
    <2>3. Coverage!Start
      BY <2>1, <2>2 DEF Coverage!Start, Retrievable, FactIds
    <2> QED BY <2>3 DEF Coverage!Next
  <1>8. CASE UNCHANGED vars
    BY <1>1, <1>8 DEF vars
  <1> QED BY <1>2, <1>3, <1>4, <1>5, <1>6, <1>7, <1>8 DEF Next

\* With an embedder configured, every transaction of the store is one the outbox
\* contract allows: what it settles is enqueued in the same transaction.
THEOREM StoreImplementsCoverage ==
  ASSUME Embedding
  PROVE  Spec => ImplementsCoverage
  <1>1. Init => Coverage!Init
    BY DEF Init, Coverage!Init, FactIds
  <1>2. (TypeOK /\ SlotInv) /\ [Next]_vars => [Coverage!Next]_(Coverage!vars)
    BY NextCovered
  <1> QED BY <1>1, <1>2, SlotInvariant, PTL DEF Spec, ImplementsCoverage, Coverage!Spec
-----------------------------------------------------------------------------
(* Conflicts while nothing is erased                                       *)

\* Without erasure no member of an open conflict loses its flag or is retired.
MembersFlagged ==
  \A c \in DOMAIN conflicts : Open(c) =>
    \A i \in FactIds : <<c, i>> \in members =>
      Active(facts[i]) /\ facts[i].conflict_group = c

LEMMA PlainFlagged ==
  ASSUME TypeOK, SlotInv, MembersFlagged, Plain
  PROVE  MembersFlagged'
  <1> SUFFICES ASSUME NEW c \in DOMAIN conflicts, Open(c), NEW i, <<c, i>> \in members
               PROVE  Active(facts'[i]) /\ facts'[i].conflict_group = c
    BY DEF MembersFlagged, Plain, Open
  <1>1. i \in FactIds /\ c # 0
    BY Ids
  <1>2. facts[i].kind = "state" /\ Active(facts[i]) /\ facts[i].conflict_group = c
    BY <1>1 DEF SlotInv, OpenConflicts, MembersFlagged
  <1> QED BY <1>1, <1>2 DEF Plain

\* Contesting a slot: ids get the flag c of a conflict that had none of them.
LEMMA ContestFlagged ==
  ASSUME TypeOK, MembersFlagged, NEW c \in Nat, c # 0, NEW ids, ids \subseteq FactIds,
         NEW n, n = NewId, FactIds' = FactIds \cup {n},
         Active(facts'[n]), facts'[n].conflict_group = c,
         \A i \in FactIds : /\ Active(facts'[i]) <=> Active(facts[i])
                            /\ i \in ids => facts'[i].conflict_group = c
                            /\ i \notin ids => facts'[i] = facts[i],
         \A i \in ids : Active(facts[i]) /\ facts[i].conflict_group = 0,
         \A d, i : <<d, i>> \in members' <=>
           <<d, i>> \in members \/ (d = c /\ (i \in ids \/ i = n)),
         \A d \in DOMAIN conflicts' : Open(d)' => d = c \/ Open(d),
         c \notin DOMAIN conflicts \/ Open(c)
  PROVE  MembersFlagged'
  <1>1. n \notin FactIds /\ \A d, i : <<d, i>> \in members => d \in DOMAIN conflicts /\ i \in FactIds
    BY Ids
  <1> SUFFICES ASSUME NEW d \in DOMAIN conflicts', Open(d)', NEW i, <<d, i>> \in members'
               PROVE  Active(facts'[i]) /\ facts'[i].conflict_group = d
    BY DEF MembersFlagged
  <1>2. CASE d = c /\ (i \in ids \/ i = n)
    BY <1>2
  <1>3. CASE <<d, i>> \in members
    <2>1. d \in DOMAIN conflicts /\ i \in FactIds /\ Open(d) /\ d # 0
      BY <1>1, <1>3, Ids
    <2>2. Active(facts[i]) /\ facts[i].conflict_group = d
      BY <1>3, <2>1 DEF MembersFlagged
    <2>3. i \notin ids
      BY <2>1, <2>2
    <2> QED BY <2>1, <2>2, <2>3
  <1> QED BY <1>2, <1>3

LEMMA NextFlagged ==
  ASSUME TypeOK, SlotInv, MembersFlagged, Erasable = {}, [Next]_vars
  PROVE  MembersFlagged'
  <1>1. ASSUME NEW x \in Contexts, NEW r \in Requests, OpenConflict(x, r)
        PROVE  MembersFlagged'
    <2>1. PICK c \in Nat : c = Len(conflicts) + 1 /\ c # 0 /\ c \notin DOMAIN conflicts
      <3>1. /\ Len(conflicts) \in Nat /\ DOMAIN conflicts = 1..Len(conflicts)
        BY Ids
      <3>2. /\ Len(conflicts) + 1 \in Nat /\ Len(conflicts) + 1 # 0
            /\ Len(conflicts) + 1 \notin DOMAIN conflicts
        BY <3>1
      <3> QED BY <3>2
    <2>2. PICK from \in ValidFrom(r), ids \in SUBSET FactIds :
            /\ ids = Current(r)
            /\ facts' = Append(Flag(facts, ids, c), StateFact(r, from, c))
      BY <1>1, <2>1 DEF OpenConflict, Current
    <2>3. PICK f \in Fact : f = StateFact(r, from, c) /\ Active(f) /\ f.conflict_group = c
      BY NewRowsTyped, ValidFromTyped, NewRowsFields
    <2>4. \A i \in ids : Active(facts[i]) /\ facts[i].conflict_group = 0
      BY <1>1, <2>2 DEF OpenConflict, Current
    <2>5. /\ members' = members \cup {<<c, i>> : i \in ids \cup {NewId}}
          /\ conflicts' = Append(conflicts,
               [scope |-> r.scope, slot |-> r.slot, resolved |-> FALSE,
                resolution |-> 0, resolver |-> NONE])
      BY <1>1, <2>1, <2>2 DEF OpenConflict
    <2>6. \A d \in DOMAIN conflicts' : Open(d)' => d = c \/ Open(d)
      BY <2>1, <2>5, Ids DEF Open
    <2>7. PICK n : n = NewId
      OBVIOUS
    <2>8. /\ FactIds' = FactIds \cup {n} /\ facts'[n] = f
          /\ \A i \in FactIds : /\ Active(facts'[i]) <=> Active(facts[i])
                                /\ i \in ids => facts'[i].conflict_group = c
                                /\ i \notin ids => facts'[i] = facts[i]
      <3>1. facts' = Append(Flag(facts, ids, c), f)
        BY <2>2, <2>3
      <3> QED BY <2>7, <3>1, Ids, ContestEffect
    <2>9. \A d, i : <<d, i>> \in members' <=>
            <<d, i>> \in members \/ (d = c /\ (i \in ids \/ i = n))
      <3>1. \A d, i : <<d, i>> \in {<<c, k>> : k \in ids \cup {n}} <=>
              d = c /\ (i \in ids \/ i = n)
        OBVIOUS
      <3> QED BY <2>5, <2>7, <3>1
    <2>10. /\ ids \subseteq FactIds /\ c # 0 /\ c \notin DOMAIN conflicts
           /\ Active(facts'[n]) /\ facts'[n].conflict_group = c
      BY <2>1, <2>2, <2>3, <2>8
    <2> QED BY <2>4, <2>6, <2>7, <2>8, <2>9, <2>10, ContestFlagged
  <1>2. ASSUME NEW x \in Contexts, NEW r \in Requests, JoinConflict(x, r)
        PROVE  MembersFlagged'
    <2>1. PICK from \in ValidFrom(r), c \in DOMAIN conflicts :
            /\ facts' = Append(facts, StateFact(r, from, c))
            /\ ~conflicts[c].resolved
            /\ members' = members \cup {<<c, NewId>>}
      BY <1>2 DEF JoinConflict
    <2>2. c \in Nat /\ c # 0 /\ Open(c)
      BY <2>1, Ids DEF Open
    <2>3. PICK f \in Fact : f = StateFact(r, from, c) /\ Active(f) /\ f.conflict_group = c
      BY <2>2, NewRowsTyped, ValidFromTyped, NewRowsFields
    <2>4. PICK n : n = NewId
      OBVIOUS
    <2>5. FactIds' = FactIds \cup {n} /\ facts'[n] = f /\ \A i \in FactIds : facts'[i] = facts[i]
      BY <2>1, <2>3, <2>4, AppendEffect
    <2>6. \A d \in DOMAIN conflicts' : Open(d)' => d = c \/ Open(d)
      BY <1>2 DEF Open, JoinConflict
    <2>7. PICK ids \in SUBSET FactIds : ids = {}
      OBVIOUS
    <2>8. \A d, i : <<d, i>> \in members' <=>
            <<d, i>> \in members \/ (d = c /\ (i \in ids \/ i = n))
      BY <2>1, <2>4, <2>7
    <2> QED BY <2>2, <2>3, <2>4, <2>5, <2>6, <2>7, <2>8, ContestFlagged
  <1>3. ASSUME NEW x \in Contexts, NEW r \in Requests, Write(x, r) PROVE MembersFlagged'
    BY <1>1, <1>2, <1>3, WritePlain, PlainFlagged
  <1>4. ASSUME NEW x \in Contexts, NEW c \in DOMAIN conflicts, NEW w \in FactIds,
               ResolveConflict(x, c, w)
        PROVE  MembersFlagged'
    <2>1. /\ Resolvable(c, w) /\ UNCHANGED members
          /\ conflicts' = [conflicts EXCEPT ![c].resolved = TRUE, ![c].resolution = w,
                                            ![c].resolver = x.client]
      BY <1>4 DEF ResolveConflict
    <2>2. \A i \in MembersOf(c) : facts[i].conflict_group = c
      BY <2>1 DEF Resolvable
    <2>3. conflicts[c] \in Conflict
      BY Ids
    <2>4. \A d \in DOMAIN conflicts' : Open(d)' => Open(d) /\ d # c
      BY <2>1, <2>3 DEF Open, Conflict
    <2>5. w \in MembersOf(c)
      BY <2>1 DEF Resolvable
    <2> SUFFICES ASSUME NEW d \in DOMAIN conflicts, Open(d), d # c,
                        NEW i, <<d, i>> \in members
                 PROVE  Active(facts'[i]) /\ facts'[i].conflict_group = d
      BY <2>1, <2>4 DEF MembersFlagged, Open
    <2>6. i \in FactIds /\ Active(facts[i]) /\ facts[i].conflict_group = d
      BY Ids DEF MembersFlagged
    <2>7. i \notin MembersOf(c)
      BY <2>2, <2>6
    <2> QED BY <1>4, <2>5, <2>6, <2>7, ResolveEffect
  <1>5. CASE UNCHANGED <<facts, conflicts, members>>
    BY <1>5, QuietPlain, PlainFlagged
  <1> QED BY <1>3, <1>4, <1>5 DEF Next, EmbedFact, StopServer, StartServer, vars

LEMMA FlagInvariant ==
  ASSUME Erasable = {}
  PROVE  Spec => [](TypeOK /\ SlotInv /\ MembersFlagged)
  <1>1. Init => MembersFlagged
    BY DEF Init, MembersFlagged
  <1>2. (TypeOK /\ SlotInv) /\ MembersFlagged /\ [Next]_vars => MembersFlagged'
    BY NextFlagged
  <1> QED BY <1>1, <1>2, SlotInvariant, PTL DEF Spec

\* While the operator erases nothing, resolve_state_conflict accepts every member
\* of every open conflict; the run erasure_conflict shows that an erasure can
\* end this.
THEOREM ConflictsStayResolvable ==
  ASSUME Erasable = {}
  PROVE  Spec => []ConflictsResolvable
  <1>1. TypeOK /\ SlotInv /\ MembersFlagged => ConflictsResolvable
    <2> SUFFICES ASSUME TypeOK, SlotInv, MembersFlagged, NEW c \in DOMAIN conflicts,
                        ~conflicts[c].resolved
                 PROVE  /\ \E i, j \in MembersOf(c) : i # j
                        /\ \A w \in MembersOf(c) :
                             /\ Resolvable(c, w)
                             /\ facts[w].scope = conflicts[c].scope
                             /\ facts[w].slot = conflicts[c].slot
      BY DEF ConflictsResolvable
    <2>1. Open(c)
      BY DEF Open
    <2>2. \E i, j \in MembersOf(c) : i # j
      BY <2>1 DEF SlotInv, OpenConflicts, MembersOf
    <2>3. \A i \in MembersOf(c) : /\ Active(facts[i]) /\ facts[i].conflict_group = c
                                  /\ facts[i].scope = conflicts[c].scope
                                  /\ facts[i].slot = conflicts[c].slot
      BY <2>1 DEF SlotInv, OpenConflicts, MembersFlagged, MembersOf
    <2> QED BY <2>2, <2>3 DEF Resolvable, Active
  <1> QED BY <1>1, FlagInvariant, PTL
-----------------------------------------------------------------------------
(* The slots as their readers see them                                     *)

\* The facts that a table of facts shows of a slot, and what it says of them.
ShownIn(fs, p) == {i \in DOMAIN fs : /\ fs[i].kind = "state"
                                     /\ <<fs[i].scope, fs[i].slot>> = p
                                     /\ Active(fs[i])}
View(fs, p) == [disputed |-> \E i \in ShownIn(fs, p) : fs[i].conflict_group # 0,
                ids |-> ShownIn(fs, p)]

LEMMA ViewIs ==
  ASSUME NEW fs, NEW p, NEW ids, ShownIn(fs, p) = ids, NEW d \in BOOLEAN,
         (\E i \in ids : fs[i].conflict_group # 0) <=> d
  PROVE  View(fs, p) = [disputed |-> d, ids |-> ids]
  <1>1. (\E i \in ShownIn(fs, p) : fs[i].conflict_group # 0) = d
    OBVIOUS
  <1> QED BY <1>1 DEF View

\* Two tables that show the same facts of a slot with the same flags.
LEMMA ViewKept ==
  ASSUME NEW fs, NEW gs, NEW p, ShownIn(gs, p) = ShownIn(fs, p),
         \A i \in ShownIn(fs, p) : gs[i].conflict_group = fs[i].conflict_group
  PROVE  View(gs, p) = View(fs, p)
  <1>1. (\E i \in ShownIn(gs, p) : gs[i].conflict_group # 0)
          = (\E i \in ShownIn(fs, p) : fs[i].conflict_group # 0)
    OBVIOUS
  <1> QED BY <1>1 DEF View

LEMMA SlotViewIs ==
  ASSUME NEW p
  PROVE  SlotView(p) = View(facts, p) /\ SlotView(p)' = View(facts', p)
  BY DEF SlotView, View, ShownIn, FactIds

\* The step of the contract that one slot makes.
LEMMA ShowStep ==
  ASSUME NEW s \in Scope \X Slot, NEW ids, NEW d \in BOOLEAN, ShownIn(facts', s) = ids,
         (\E i \in ids : facts'[i].conflict_group # 0) <=> d,
         \A q \in Scope \X Slot : q # s =>
           /\ ShownIn(facts', q) = ShownIn(facts, q)
           /\ \A i \in ShownIn(facts, q) :
                facts'[i].conflict_group = facts[i].conflict_group
  PROVE  Slots!Show(s, [disputed |-> d, ids |-> ids])
  <1>1. View(facts', s) = [disputed |-> d, ids |-> ids]
    BY ViewIs
  <1>2. \A q \in Scope \X Slot : q # s => View(facts', q) = View(facts, q)
    BY ViewKept
  <1>3. \A q : SlotView(q) = View(facts, q) /\ SlotView(q)' = View(facts', q)
    BY SlotViewIs
  <1>4. [q \in Scope \X Slot |-> View(facts', q)]
          = [[q \in Scope \X Slot |-> View(facts, q)] EXCEPT
               ![s] = [disputed |-> d, ids |-> ids]]
    BY <1>1, <1>2
  <1>5. [q \in Scope \X Slot |-> SlotView(q)]' = [q \in Scope \X Slot |-> View(facts', q)]
    BY <1>3
  <1>6. [q \in Scope \X Slot |-> SlotView(q)] = [q \in Scope \X Slot |-> View(facts, q)]
    BY <1>3
  <1> QED BY <1>4, <1>5, <1>6 DEF Slots!Show

\* What a request reads of its slot is what the slot shows.
LEMMA CurrentShown ==
  ASSUME NEW r \in Requests, r.slot # NONE
  PROVE  /\ <<r.scope, r.slot>> \in Scope \X Slot
         /\ ShownIn(facts, <<r.scope, r.slot>>) = Current(r)
  <1>1. r \in Request
    BY ConstantsAssumption
  <1>2. <<r.scope, r.slot>> \in Scope \X Slot
    BY <1>1 DEF Request
  <1> QED BY <1>2 DEF ShownIn, Current, FactIds

\* A typed row n joins the slot s; of the facts s showed it keeps those in kept,
\* and no other slot changes.
LEMMA JoinStep ==
  ASSUME TypeOK, NEW s \in Scope \X Slot, NEW n, n = NewId, FactIds' = FactIds \cup {n},
         facts'[n].kind = "state", <<facts'[n].scope, facts'[n].slot>> = s, Active(facts'[n]),
         NEW kept, kept \subseteq ShownIn(facts, s),
         \A i \in FactIds :
           /\ Kin(facts'[i], facts[i])
           /\ i \in ShownIn(facts, s) => (Active(facts'[i]) <=> i \in kept)
           /\ i \notin ShownIn(facts, s) => facts'[i] = facts[i],
         NEW d \in BOOLEAN, (\E i \in kept \cup {n} : facts'[i].conflict_group # 0) <=> d
  PROVE  Slots!Show(s, [disputed |-> d, ids |-> kept \cup {n}])
  <1>1. DOMAIN facts' = FactIds \cup {n} /\ DOMAIN facts = FactIds
    BY DEF FactIds
  <1>2. ShownIn(facts', s) = kept \cup {n}
    BY <1>1 DEF ShownIn, Kin
  <1>3. ASSUME NEW q \in Scope \X Slot, q # s
        PROVE  /\ ShownIn(facts', q) = ShownIn(facts, q)
               /\ \A i \in ShownIn(facts, q) :
                    facts'[i].conflict_group = facts[i].conflict_group
    BY <1>1, <1>3 DEF ShownIn, Kin
  <1>4. PICK ids : ids = kept \cup {n}
    OBVIOUS
  <1> QED BY <1>2, <1>3, <1>4, ShowStep

\* A write that inserts one fact is a step of the contract.
LEMMA InsertNext ==
  ASSUME Len(facts') = Len(facts) + 1, NEW s \in Scope \X Slot,
         \/ Slots!Add(s, NewId)
         \/ Slots!Replace(s, NewId)
         \/ Slots!Dispute(s, NewId)
  PROVE  Slots!Next
  <1>1. PICK n : n = NewId /\ n = Len(facts')
    BY DEF NewId
  <1>2. Slots!Add(s, n) \/ Slots!Replace(s, n) \/ Slots!Dispute(s, n)
    BY <1>1
  <1> QED BY <1>1, <1>2 DEF Slots!Next

\* A slot that shows nothing, one fact, or several.
LEMMA SlotShows ==
  ASSUME NEW s \in Scope \X Slot
  PROVE  /\ [p \in Scope \X Slot |-> SlotView(p)][s] = View(facts, s)
         /\ View(facts, s).ids = ShownIn(facts, s)
         /\ View(facts, s).disputed <=> \E i \in ShownIn(facts, s) : facts[i].conflict_group # 0
         /\ ShownIn(facts, s) = {} => View(facts, s) = Slots!Empty
         /\ ShownIn(facts, s) # {} => View(facts, s) # Slots!Empty
  <1>1. [p \in Scope \X Slot |-> SlotView(p)][s] = View(facts, s)
    BY SlotViewIs
  <1>2. /\ View(facts, s).ids = ShownIn(facts, s)
        /\ View(facts, s).disputed <=> \E i \in ShownIn(facts, s) : facts[i].conflict_group # 0
    BY DEF View
  <1>3. ASSUME ShownIn(facts, s) = {} PROVE View(facts, s) = Slots!Empty
    <2>1. PICK ids : ids = {} /\ ShownIn(facts, s) = ids
      BY <1>3
    <2>2. View(facts, s) = [disputed |-> FALSE, ids |-> ids]
      BY <2>1, ViewIs
    <2> QED BY <2>1, <2>2 DEF Slots!Empty
  <1>4. Slots!Empty.ids = {}
    BY DEF Slots!Empty
  <1> QED BY <1>1, <1>2, <1>3, <1>4

LEMMA AddStateSlot ==
  ASSUME TypeOK, NEW x \in Contexts, NEW r \in Requests, AddState(x, r)
  PROVE  Slots!Next
  <1>1. PICK from \in ValidFrom(r) : facts' = Append(facts, StateFact(r, from, 0))
    BY DEF AddState
  <1>2. PICK f \in Fact : /\ f = StateFact(r, from, 0) /\ Active(f) /\ f.kind = "state"
                          /\ f.scope = r.scope /\ f.slot = r.slot /\ f.conflict_group = 0
    BY NewRowsTyped, ValidFromTyped, NewRowsFields
  <1>3. r.slot # NONE /\ Current(r) = {}
    BY DEF AddState, Adds
  <1>4. PICK s \in Scope \X Slot : s = <<r.scope, r.slot>> /\ ShownIn(facts, s) = {}
    BY <1>3, CurrentShown
  <1>5. PICK n : n = NewId
    OBVIOUS
  <1>6. /\ FactIds' = FactIds \cup {n} /\ facts'[n] = f /\ \A i \in FactIds : facts'[i] = facts[i]
    BY <1>1, <1>2, <1>5, AppendEffect
  <1>7. Len(facts') = Len(facts) + 1
    BY <1>1, <1>2, Ids, AppendTyped
  <1>8. PICK kept : kept = {}
    OBVIOUS
  <1>9. \A i \in FactIds : Kin(facts'[i], facts[i])
    BY <1>6 DEF Kin
  <1>10. Slots!Show(s, [disputed |-> FALSE, ids |-> kept \cup {n}])
    BY <1>2, <1>4, <1>5, <1>6, <1>8, <1>9, JoinStep
  <1>11. Slots!Show(s, Slots!On(n))
    BY <1>8, <1>10 DEF Slots!On
  <1>12. Slots!Add(s, n)
    BY <1>4, <1>11, SlotShows DEF Slots!Add
  <1> QED BY <1>5, <1>7, <1>12, InsertNext

LEMMA SupersedeStateSlot ==
  ASSUME TypeOK, NEW x \in Contexts, NEW r \in Requests, SupersedeState(x, r)
  PROVE  Slots!Next
  <1>1. PICK from \in ValidFrom(r), e \in FactIds :
          /\ Supersedes(r, from, e)
          /\ facts' = Retire(Append(facts, StateFact(r, from, 0)), {e}, NewId)
    BY DEF SupersedeState
  <1>2. PICK f \in Fact : /\ f = StateFact(r, from, 0) /\ Active(f) /\ f.kind = "state"
                          /\ f.scope = r.scope /\ f.slot = r.slot /\ f.conflict_group = 0
    BY NewRowsTyped, ValidFromTyped, NewRowsFields
  <1>3. r.slot # NONE /\ Current(r) = {e} /\ facts[e].conflict_group = 0
    BY <1>1 DEF SupersedeState, Supersedes, Contested
  <1>4. PICK s \in Scope \X Slot : s = <<r.scope, r.slot>> /\ ShownIn(facts, s) = {e}
    BY <1>3, CurrentShown
  <1>5. PICK n, ids : n = NewId /\ ids = {e}
    OBVIOUS
  <1>6. facts' = Retire(Append(facts, f), ids, n) /\ n \in Nat /\ n \notin FactIds
    BY <1>1, <1>2, <1>5, Ids
  <1>7. /\ FactIds' = FactIds \cup {NewId}
        /\ \A i \in FactIds :
              /\ i \notin ids => facts'[i] = facts[i]
              /\ i \in ids => Kin(facts'[i], facts[i]) /\ ~Active(facts'[i])
        /\ NewId \notin ids => facts'[NewId] = f
    BY <1>2, <1>6, InsertEffect
  <1>8. /\ FactIds' = FactIds \cup {n} /\ facts'[n] = f
        /\ \A i \in FactIds : /\ Kin(facts'[i], facts[i])
                              /\ i # e => facts'[i] = facts[i]
        /\ ~Active(facts'[e])
    BY <1>5, <1>6, <1>7 DEF Kin
  <1>9. Len(facts') = Len(facts) + 1
    BY <1>2, <1>6, InsertTyped
  <1>10. PICK kept : kept = {}
    OBVIOUS
  <1>11. Slots!Show(s, [disputed |-> FALSE, ids |-> kept \cup {n}])
    BY <1>2, <1>4, <1>5, <1>8, <1>10, JoinStep
  <1>12. Slots!Show(s, Slots!On(n))
    BY <1>10, <1>11 DEF Slots!On
  <1>13. Slots!Replace(s, n)
    BY <1>3, <1>4, <1>12, SlotShows DEF Slots!Replace
  <1> QED BY <1>5, <1>9, <1>13, InsertNext

\* Both ways to contest a slot add the candidate to what it shows.
LEMMA ContestSlot ==
  ASSUME TypeOK, NEW r \in Requests, r.slot # NONE, NEW from \in ValidFrom(r),
         NEW c \in Nat, c # 0, Current(r) # {}, NEW ids, ids \subseteq Current(r),
         facts' = Append(Flag(facts, ids, c), StateFact(r, from, c))
  PROVE  Slots!Next
  <1>1. PICK f \in Fact : /\ f = StateFact(r, from, c) /\ Active(f) /\ f.kind = "state"
                          /\ f.scope = r.scope /\ f.slot = r.slot /\ f.conflict_group = c
    BY NewRowsTyped, ValidFromTyped, NewRowsFields
  <1>2. PICK s \in Scope \X Slot, kept \in {Current(r)} :
          /\ s = <<r.scope, r.slot>> /\ ShownIn(facts, s) = kept /\ kept = Current(r)
    BY CurrentShown
  <1>3. PICK n : n = NewId
    OBVIOUS
  <1>4. facts' = Append(Flag(facts, ids, c), f)
    BY <1>1
  <1>5. /\ FactIds' = FactIds \cup {n} /\ Len(facts') = Len(facts) + 1 /\ facts'[n] = f
        /\ \A i \in FactIds :
              /\ Kin(facts'[i], facts[i]) /\ (Active(facts'[i]) <=> Active(facts[i]))
              /\ i \notin ids => facts'[i] = facts[i]
    BY <1>3, <1>4, Ids, ContestEffect
  <1>6. \A i \in kept : i \in FactIds /\ Active(facts[i])
    BY <1>2 DEF Current
  <1>7. \A i \in FactIds :
          /\ Kin(facts'[i], facts[i])
          /\ i \in kept => (Active(facts'[i]) <=> i \in kept)
          /\ i \notin kept => facts'[i] = facts[i]
    BY <1>2, <1>5, <1>6
  <1>8. Slots!Show(s, [disputed |-> TRUE, ids |-> kept \cup {n}])
    <2>1. \E i \in kept \cup {n} : facts'[i].conflict_group # 0
      BY <1>1, <1>5
    <2>2. /\ facts'[n].kind = "state" /\ <<facts'[n].scope, facts'[n].slot>> = s
          /\ Active(facts'[n]) /\ FactIds' = FactIds \cup {n}
      BY <1>1, <1>2, <1>5
    <2>3. /\ kept \subseteq ShownIn(facts, s)
          /\ \A i \in FactIds :
               /\ Kin(facts'[i], facts[i])
               /\ i \in ShownIn(facts, s) => (Active(facts'[i]) <=> i \in kept)
               /\ i \notin ShownIn(facts, s) => facts'[i] = facts[i]
      BY <1>2, <1>7
    <2> QED BY <1>3, <2>1, <2>2, <2>3, JoinStep
  <1>9. Slots!Show(s, Slots!Among(kept \cup {n}))
    BY <1>8 DEF Slots!Among
  <1>10. /\ [p \in Scope \X Slot |-> SlotView(p)][s] # Slots!Empty
         /\ [p \in Scope \X Slot |-> SlotView(p)][s].ids = kept
    BY <1>2, SlotShows
  <1>11. Slots!Dispute(s, n)
    BY <1>9, <1>10 DEF Slots!Dispute
  <1> QED BY <1>3, <1>5, <1>11, InsertNext

\* A step that retires no typed fact and inserts none leaves every slot alone.
LEMMA SlotsKept ==
  ASSUME FactIds \subseteq FactIds',
         \A i \in FactIds :
           /\ Kin(facts'[i], facts[i])
           /\ facts[i].kind = "state" => facts'[i] = facts[i],
         \A i \in FactIds' : i \in FactIds \/ facts'[i].kind # "state"
  PROVE  UNCHANGED [p \in Scope \X Slot |-> SlotView(p)]
  <1>1. DOMAIN facts' = FactIds' /\ DOMAIN facts = FactIds
    BY DEF FactIds
  <1>2. ASSUME NEW q PROVE View(facts', q) = View(facts, q)
    <2>1. ShownIn(facts', q) = ShownIn(facts, q)
      BY <1>1 DEF ShownIn, Kin
    <2>2. \A i \in ShownIn(facts, q) : facts'[i].conflict_group = facts[i].conflict_group
      BY <1>1 DEF ShownIn
    <2> QED BY <2>1, <2>2, ViewKept
  <1>3. \A q : SlotView(q) = View(facts, q) /\ SlotView(q)' = View(facts', q)
    BY SlotViewIs
  <1> QED BY <1>2, <1>3

LEMMA InsertUntypedSlot ==
  ASSUME TypeOK, NEW x \in Contexts, NEW r \in Requests, InsertUntyped(x, r)
  PROVE  Slots!Next
  <1>1. /\ UntypedFact(r) \in Fact /\ Active(UntypedFact(r)) /\ NewId \in Nat
        /\ UntypedFact(r).kind = "untyped"
    BY NewRowsTyped, NewRowsFields, Ids
  <1>2. PICK f \in Fact, ids \in {Replaced(r)}, n \in Nat :
          /\ f = UntypedFact(r) /\ ids = Replaced(r) /\ n = NewId /\ Active(f)
          /\ f.kind = "untyped"
    BY <1>1
  <1>3. facts' = Retire(Append(facts, f), ids, n) /\ n \in Nat
    BY <1>1, <1>2 DEF InsertUntyped
  <1>4. /\ FactIds' = FactIds \cup {NewId}
        /\ \A i \in FactIds :
              /\ i \notin ids => facts'[i] = facts[i]
              /\ i \in ids => Kin(facts'[i], facts[i])
        /\ NewId \notin ids => facts'[NewId] = f
        /\ NewId \in ids => Kin(facts'[NewId], f)
    BY <1>2, <1>3, InsertEffect
  <1>5. Len(facts') = Len(facts) + 1
    BY <1>3, InsertTyped
  <1>6. \A i \in ids : i \in FactIds => facts[i].kind # "state"
    BY <1>2 DEF InsertUntyped, CanReplace, Replaced
  <1>7. facts'[NewId].kind = "untyped"
    BY <1>2, <1>4 DEF Kin
  <1>8. UNCHANGED [p \in Scope \X Slot |-> SlotView(p)]
    <2>1. FactIds \subseteq FactIds'
      BY <1>4
    <2>2. \A i \in FactIds : /\ Kin(facts'[i], facts[i])
                             /\ facts[i].kind = "state" => facts'[i] = facts[i]
      BY <1>4, <1>6 DEF Kin
    <2>3. \A i \in FactIds' : i \in FactIds \/ facts'[i].kind # "state"
      BY <1>4, <1>7
    <2> QED BY <2>1, <2>2, <2>3, SlotsKept
  <1> QED BY <1>5, <1>8 DEF Slots!Next

LEMMA DedupUntypedSlot ==
  ASSUME TypeOK, NEW x \in Contexts, NEW r \in Requests, DedupUntyped(x, r)
  PROVE  UNCHANGED Slots!vars
  <1>1. PICK t \in Duplicates(r) :
          CanReplace(r, t) /\ facts' = Retire(facts, Replaced(r), t)
    BY DEF DedupUntyped
  <1>2. t \in Nat
    BY Ids DEF Duplicates
  <1>3. PICK ids : ids = Replaced(r)
    OBVIOUS
  <1>4. FactIds' = FactIds /\ Len(facts') = Len(facts)
    BY <1>1, <1>2, <1>3, Ids, RetireTyped DEF FactIds
  <1>5. \A i \in ids : facts[i].kind # "state"
    BY <1>1, <1>3 DEF CanReplace, Replaced
  <1>6. ASSUME NEW i \in FactIds
        PROVE  /\ Kin(facts'[i], facts[i])
               /\ facts[i].kind = "state" => facts'[i] = facts[i]
    <2>1. facts[i] \in Fact
          /\ facts'[i] = IF i \in ids THEN Superseded(facts[i], t) ELSE facts[i]
      BY <1>1, <1>2, <1>3, Ids, RetireRow
    <2>2. i \in ids => Kin(facts'[i], facts[i])
      BY <1>2, <2>1, SupersededKin
    <2> QED BY <1>5, <2>1, <2>2 DEF Kin
  <1>7. UNCHANGED [p \in Scope \X Slot |-> SlotView(p)]
    BY <1>4, <1>6, SlotsKept
  <1> QED BY <1>4, <1>7 DEF Slots!vars

\* The members of an open conflict are all that its slot shows, and the winner
\* is all that is left.
LEMMA ResolveSlot ==
  ASSUME TypeOK, SlotInv, MembersFlagged, NEW x \in Contexts, NEW c \in DOMAIN conflicts,
         NEW w \in FactIds, ResolveConflict(x, c, w)
  PROVE  Slots!Next
  <1>1. PICK ms : ms = MembersOf(c)
    OBVIOUS
  <1>2. /\ FactIds' = FactIds /\ Len(facts') = Len(facts)
        /\ \A i \in FactIds :
             /\ Kin(facts'[i], facts[i])
             /\ i \in ms /\ i # w => ~Active(facts'[i])
             /\ i \notin ms \/ i = w => (Active(facts'[i]) <=> Active(facts[i]))
             /\ i = w => facts'[i].conflict_group = 0
             /\ i # w => facts'[i].conflict_group = facts[i].conflict_group
    BY <1>1, ResolveEffect
  <1>3. Open(c) /\ w \in ms /\ Active(facts[w])
    BY <1>1 DEF ResolveConflict, Resolvable, Open
  <1>4. PICK s \in Scope \X Slot : s = <<conflicts[c].scope, conflicts[c].slot>>
    <2>1. conflicts[c] \in Conflict
      BY Ids
    <2>2. conflicts[c].scope \in Scope /\ conflicts[c].slot \in Slot
      BY <2>1 DEF Conflict
    <2> QED BY <2>2
  <1>5. \A i \in ms : /\ i \in FactIds /\ <<c, i>> \in members
                      /\ facts[i].kind = "state" /\ <<facts[i].scope, facts[i].slot>> = s
                      /\ Active(facts[i]) /\ facts[i].conflict_group = c
    BY <1>1, <1>3, <1>4 DEF MembersOf, SlotInv, OpenConflicts, MembersFlagged
  <1>6. DOMAIN facts = FactIds /\ DOMAIN facts' = FactIds /\ c # 0
    BY <1>2, Ids DEF FactIds
  <1>7. ShownIn(facts, s) = ms
    <2>1. ms \subseteq ShownIn(facts, s)
      BY <1>5, <1>6 DEF ShownIn
    <2>2. ASSUME NEW i \in ShownIn(facts, s), i # w PROVE i \in ms
      <3>1. i \in FactIds /\ facts[i].kind = "state" /\ Active(facts[i])
            /\ SameSlot(facts[i], facts[w])
        <4>1. /\ facts[w].kind = "state" /\ facts[w].scope = conflicts[c].scope
              /\ facts[w].slot = conflicts[c].slot
          BY <1>3, <1>4, <1>5
        <4>2. /\ i \in FactIds /\ facts[i].kind = "state" /\ Active(facts[i])
              /\ facts[i].scope = conflicts[c].scope /\ facts[i].slot = conflicts[c].slot
          BY <1>4, <1>6 DEF ShownIn
        <4> QED BY <4>1, <4>2 DEF SameSlot
      <3>2. PICK d \in DOMAIN conflicts :
              Open(d) /\ <<d, i>> \in members /\ <<d, w>> \in members
        BY <1>3, <2>2, <3>1 DEF SlotInv, RivalsContested
      <3>3. facts[w].conflict_group = d
        BY <3>2 DEF MembersFlagged
      <3>4. d = c
        BY <1>3, <1>5, <3>3
      <3> QED BY <1>1, <3>1, <3>2, <3>4 DEF MembersOf
    <2> QED BY <1>3, <2>1, <2>2
  <1>8. PICK ids : ids = {w}
    OBVIOUS
  <1>9. ShownIn(facts', s) = ids
    BY <1>2, <1>3, <1>5, <1>6, <1>7, <1>8 DEF ShownIn, Kin
  <1>10. ASSUME NEW q \in Scope \X Slot, q # s
         PROVE  /\ ShownIn(facts', q) = ShownIn(facts, q)
                /\ \A i \in ShownIn(facts, q) :
                     facts'[i].conflict_group = facts[i].conflict_group
    <2>1. \A i \in FactIds : <<facts[i].scope, facts[i].slot>> = q => i \notin ms /\ i # w
      BY <1>3, <1>5, <1>10
    <2> QED BY <1>2, <1>6, <2>1 DEF ShownIn, Kin
  <1>11. Slots!Show(s, [disputed |-> FALSE, ids |-> ids])
    <2>1. ~\E i \in ids : facts'[i].conflict_group # 0
      BY <1>2, <1>8
    <2> QED BY <1>4, <1>9, <1>10, <2>1, ShowStep
  <1>12. Slots!Show(s, Slots!On(w))
    BY <1>8, <1>11 DEF Slots!On
  <1>13. /\ [p \in Scope \X Slot |-> SlotView(p)][s].disputed
         /\ [p \in Scope \X Slot |-> SlotView(p)][s].ids = ms
    <2>1. \E i \in ms : facts[i].conflict_group # 0
      BY <1>3, <1>5, <1>6
    <2> QED BY <1>7, <2>1, SlotShows
  <1>14. Slots!Resolve(s, w)
    BY <1>3, <1>12, <1>13 DEF Slots!Resolve
  <1> QED BY <1>2, <1>3, <1>4, <1>13, <1>14 DEF Slots!Next

LEMMA NextSlotSteps ==
  ASSUME TypeOK, SlotInv, MembersFlagged, [Next]_vars, Near = {}, Erasable = {}
  PROVE  Slots!Next \/ UNCHANGED Slots!vars
  <1>1. CASE UNCHANGED facts
    <2>1. UNCHANGED [p \in Scope \X Slot |-> SlotView(p)]
      BY <1>1 DEF SlotView, FactIds
    <2> QED BY <1>1, <2>1 DEF Slots!vars
  <1>2. ASSUME NEW x \in Contexts, NEW r \in Requests, Write(x, r)
        PROVE  Slots!Next \/ UNCHANGED Slots!vars
    <2>1. CASE ReplayWrite(x, r) \/ RefuseWrite(x, r) \/ MatchState(x, r)
      BY <1>1, <2>1 DEF ReplayWrite, RefuseWrite, MatchState, vars
    <2>2. CASE OpenConflict(x, r)
      <3>1. PICK c \in Nat : c # 0 /\ c = Len(conflicts) + 1
        BY Ids
      <3>2. PICK from \in ValidFrom(r), ids \in {Current(r)} :
              /\ Contests(r, from) /\ ids = Current(r)
              /\ facts' = Append(Flag(facts, ids, c), StateFact(r, from, c))
        BY <2>2, <3>1 DEF OpenConflict
      <3>3. r.slot # NONE /\ Current(r) # {} /\ ids \subseteq Current(r)
        BY <2>2, <3>2 DEF OpenConflict, Contests
      <3> QED BY <3>1, <3>2, <3>3, ContestSlot
    <2>3. CASE JoinConflict(x, r)
      <3>1. PICK from \in ValidFrom(r), c \in DOMAIN conflicts :
              /\ Contests(r, from) /\ facts' = Append(facts, StateFact(r, from, c))
        BY <2>3 DEF JoinConflict
      <3>2. PICK ids : ids = {}
        OBVIOUS
      <3>3. Flag(facts, ids, c) = facts
        BY <3>2, Ids DEF Flag
      <3>4. /\ r.slot # NONE /\ Current(r) # {} /\ ids \subseteq Current(r)
            /\ c \in Nat /\ c # 0
            /\ facts' = Append(Flag(facts, ids, c), StateFact(r, from, c))
        BY <2>3, <3>1, <3>2, <3>3, Ids DEF JoinConflict, Contests
      <3> QED BY <3>4, ContestSlot
    <2>4. NearDuplicates(r) = {}
      BY DEF NearDuplicates
    <2>5. ~NearDuplicateLoses(x, r) /\ ~NearDuplicateWins(x, r)
      BY <2>4 DEF NearDuplicateLoses, NearDuplicateWins, BestNear
    <2> QED BY <1>2, <2>1, <2>2, <2>3, <2>5, AddStateSlot, SupersedeStateSlot,
               InsertUntypedSlot, DedupUntypedSlot DEF Write
  <1>3. ASSUME NEW x \in Contexts, NEW c \in DOMAIN conflicts, NEW w \in FactIds,
               ResolveConflict(x, c, w)
        PROVE  Slots!Next
    BY <1>3, ResolveSlot
  <1> QED BY <1>1, <1>2, <1>3 DEF Next, EmbedFact, StopServer, StartServer, vars

\* While nothing is erased or merged as a near duplicate, a slot behaves as its
\* readers are told: it is empty, settled on one fact, or disputed until a
\* resolution chooses one of its members.
THEOREM StoreImplementsStateSlot ==
  ASSUME Near = {}, Erasable = {}
  PROVE  Spec => ImplementsStateSlot
  <1>1. Init => Slots!Init
    <2> SUFFICES ASSUME Init PROVE Slots!Init
      OBVIOUS
    <2>1. facts = <<>> /\ Len(facts) = 0 /\ DOMAIN facts = {}
      BY DEF Init
    <2>2. ASSUME NEW p \in Scope \X Slot PROVE SlotView(p) = Slots!Empty
      <3>1. ShownIn(facts, p) = {}
        BY <2>1 DEF ShownIn
      <3> QED BY <3>1, SlotShows, SlotViewIs
    <2> QED BY <2>1, <2>2 DEF Slots!Init
  <1>2. TypeOK /\ SlotInv /\ MembersFlagged /\ [Next]_vars => [Slots!Next]_(Slots!vars)
    BY NextSlotSteps
  <1> QED BY <1>1, <1>2, FlagInvariant, PTL DEF Spec, ImplementsStateSlot, Slots!Spec
=============================================================================
