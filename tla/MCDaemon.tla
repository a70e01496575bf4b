------------------------------- MODULE MCDaemon -------------------------------
(***************************************************************************)
(* Small instances of Daemon.                                              *)
(***************************************************************************)
EXTENDS Daemon, TLC

CONSTANTS s1, s2, c1, k1, k2, none, stale

Speaks(minor) == [major |-> 1, minor |-> minor, schema |-> 1]

\* A program that sends what it likes, sometimes what EnfoldClient would, and
\* may ask again on a second connection while the first is still served.
Configs == (c1 :> [own |-> TRUE, strict |-> FALSE, fallback |-> TRUE,
                   version |-> Speaks(0), caps |-> Capability,
                   methods |-> Capability])
\* EnfoldClient.
Strict == (c1 :> [Configs[c1] EXCEPT !.strict = TRUE, !.methods = {"memory.write"}])
Symmetry == Permutations({k1, k2}) \cup Permutations({s1, s2})
=============================================================================
