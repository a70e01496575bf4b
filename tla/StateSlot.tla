----------------------------- MODULE StateSlot -----------------------------
(***************************************************************************)
(* What a typed state slot promises its readers.  A slot is empty, settled *)
(* on exactly one fact, or contested between several that all stay         *)
(* visible.  A write replaces a settled fact or opens a dispute; a dispute *)
(* grows with every other write and ends only by choosing one of its       *)
(* members.  FactStore implements this specification.                      *)
(***************************************************************************)
EXTENDS Naturals

CONSTANT Slots

VARIABLES
  current,  \* per slot, the facts it shows and whether they are disputed
  last      \* the largest fact id in use

vars == <<current, last>>

Empty == [disputed |-> FALSE, ids |-> {}]
On(f) == [disputed |-> FALSE, ids |-> {f}]
Among(ids) == [disputed |-> TRUE, ids |-> ids]

Init == current = [s \in Slots |-> Empty] /\ last = 0

Show(s, view) == current' = [current EXCEPT ![s] = view]

Add(s, f) == current[s] = Empty /\ Show(s, On(f))

Replace(s, f) ==
  /\ ~current[s].disputed /\ current[s] # Empty
  /\ Show(s, On(f))

Dispute(s, f) ==
  /\ current[s] # Empty
  /\ Show(s, Among(current[s].ids \cup {f}))

Resolve(s, f) ==
  /\ current[s].disputed /\ f \in current[s].ids
  /\ Show(s, On(f))

\* One write or resolution touches one slot; an id is used for one fact.
Next ==
  \/ /\ last' = last + 1
     /\ \/ \E s \in Slots : \/ Add(s, last')
                            \/ Replace(s, last')
                            \/ Dispute(s, last')
        \/ UNCHANGED current
  \/ /\ UNCHANGED last
     /\ \E s \in Slots : \E f \in current[s].ids : Resolve(s, f)

Spec == Init /\ [][Next]_vars
=============================================================================
