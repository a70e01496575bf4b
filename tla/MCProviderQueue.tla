--------------------------- MODULE MCProviderQueue ---------------------------
(***************************************************************************)
(* Small instances of ProviderQueue.                                       *)
(***************************************************************************)
EXTENDS ProviderQueue, TLC

CONSTANTS t1, a

\* One transcript with one fact.
OneFact == t1 :> {a}
=============================================================================
