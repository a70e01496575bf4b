---------------------------- MODULE MCFactStore ----------------------------
(***************************************************************************)
(* Small instances of FactStore: one automated client and one human client *)
(* that may correct and resolve.  A request set is a set of payloads times  *)
(* the idempotency keys.  A client uses a key once, so keys times clients   *)
(* bounds the writes, and with them facts, conflicts and observations.      *)
(***************************************************************************)
EXTENDS FactStore, TLC

CONSTANTS auto, human, s1, cli, ide, agent, private, work,
          k1, k2, k3, cA, cB, cC, v1, slot1, none

MCGrants == auto :> {private} @@ human :> {private, work}
MCTimes == {1, 2}
MCNear == {<<cA, cB>>, <<cB, cA>>}

AutoContext == [client |-> auto, session |-> s1, surface |-> cli,
                agent |-> agent, scopes |-> {private, work}]
HumanContext == [AutoContext EXCEPT !.client = human]
HumanOnly == {HumanContext}

\* A client of each kind, and one of them from another surface.
SlotContexts == {AutoContext, HumanContext, [AutoContext EXCEPT !.surface = ide]}

\* A session that is used again with fewer scopes, and a client without any
\* granted scope.
HistoryContexts ==
  {HumanContext, [HumanContext EXCEPT !.scopes = {private}],
   [AutoContext EXCEPT !.scopes = {work}]}

Note(content) ==
  [scope |-> private, content |-> content, slot |-> none, value |-> none,
   authority |-> 1, trust |-> 1, valid_from |-> 1, claim |-> "none",
   supersede |-> 0, screen |-> "clean", cites |-> {}]
State(content, authority, from) ==
  [Note(content) EXCEPT !.slot = slot1, !.authority = authority,
                        !.valid_from = from]

Keyed(payloads) ==
  {[scope |-> p.scope, content |-> p.content, slot |-> p.slot,
    value |-> p.value, authority |-> p.authority, trust |-> p.trust,
    valid_from |-> p.valid_from, claim |-> p.claim,
    supersede |-> p.supersede, screen |-> p.screen, cites |-> p.cites,
    key |-> k] : p \in payloads, k \in Key}

\* Typed writes: an old value, a newer one, a stronger one without a time, and
\* a protected one that has the wording of the first and the value of the
\* second.
SlotRequests == Keyed({
  State(cA, 1, 1),
  [State(cB, 1, 2) EXCEPT !.value = v1],
  State(cC, 2, 0),
  [State(cA, 1, 2) EXCEPT !.value = v1, !.claim = "marked"]})

\* Values that tie, an insight derived from the first fact, near and exact
\* duplicates, explicit targets older and newer than their successor; a note
\* of another scope; and a request that is refused for its credential.
HistoryRequests == Keyed({
  State(cA, 1, 1), State(cB, 1, 1), State(cC, 1, 1),
  [Note(cC) EXCEPT !.cites = {1}],
  Note(cA), [Note(cB) EXCEPT !.trust = 2],
  [Note(cC) EXCEPT !.supersede = 1], [Note(cA) EXCEPT !.supersede = 2],
  [Note(cA) EXCEPT !.scope = work],
  [Note(cB) EXCEPT !.screen = "credential"]})

KeySymmetry == Permutations(Key)
=============================================================================
