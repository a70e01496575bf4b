------------------------- MODULE EmbeddingCoverage -------------------------
(***************************************************************************)
(* What the embedding outbox promises to the rest of Enfold, with the      *)
(* facts reduced to ids: a fact that retrieval may return has its vector   *)
(* or unfinished work for it while the daemon serves, and a vector is      *)
(* stored only for such a fact.  FactStore and EmbeddingJobs implement     *)
(* this specification.                                                     *)
(***************************************************************************)
EXTENDS Naturals

VARIABLES
  known,    \* ids of the facts that were inserted
  settled,  \* the ones retrieval may return
  outbox,   \* the ones with a job that is not completed
  vectors,  \* the ones with a stored vector
  serving   \* TRUE while the daemon owns the database

vars == <<known, settled, outbox, vectors, serving>>

TypeOK ==
  /\ settled \subseteq known /\ outbox \subseteq known
  /\ vectors \subseteq known
  /\ serving \in BOOLEAN

\* A store may be older than its outbox.
Init ==
  /\ settled \subseteq known
  /\ outbox = {} /\ vectors = {}
  /\ serving => settled = {}

\* A write or a resolution: every fact it settles gets a job in the same
\* transaction, unless it has its vector.
Change ==
  /\ serving
  /\ known \subseteq known' /\ settled' \subseteq known'
  /\ outbox \subseteq outbox' /\ outbox' \subseteq outbox \cup (known' \ vectors)
  /\ settled' \ settled \subseteq outbox' \cup vectors
  /\ UNCHANGED <<vectors, serving>>

\* Erasing one fact may free another one; only maintenance does that.
Erase(f) ==
  /\ f \in known
  /\ f \notin settled' /\ settled' \subseteq known
  /\ serving => settled' \subseteq settled
  /\ outbox' = outbox \ {f}
  /\ vectors' = vectors \ {f}
  /\ UNCHANGED <<known, serving>>

\* A job ends: with a vector exactly when its fact is settled.
Complete(f) ==
  /\ f \in outbox
  /\ outbox' = outbox \ {f}
  /\ vectors' = IF f \in settled THEN vectors \cup {f} ELSE vectors
  /\ UNCHANGED <<known, settled, serving>>

Stop == serving /\ serving' = FALSE /\ UNCHANGED <<known, settled, outbox, vectors>>

\* The start fills the gaps, and may then still be refused.
Start ==
  /\ ~serving
  /\ serving' \in BOOLEAN
  /\ outbox' = outbox \cup (settled \ vectors)
  /\ UNCHANGED <<known, settled, vectors>>

Next ==
  \/ Change
  \/ \E f \in known : Erase(f) \/ Complete(f)
  \/ Stop
  \/ Start

Spec == Init /\ [][Next]_vars

\* The promise itself.
Covered == serving => settled \subseteq outbox \cup vectors
=============================================================================
