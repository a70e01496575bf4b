--------------------------- MODULE MCProviderFacts ---------------------------
(***************************************************************************)
(* Small instances of ProviderFacts.                                       *)
(***************************************************************************)
EXTENDS ProviderFacts, TLC

CONSTANTS x, y, i

\* Two values of one topic, in two categories.
Same == {<<x, x>>, <<y, y>>, <<i, i>>}
Changed == {<<x, y>>, <<y, x>>}
Categories == {"general", "insight"}
BothTools == {"add", "supersede"}
AddOnly == {"add"}
=============================================================================
