---------------------------- MODULE MCMaintenance ----------------------------
(***************************************************************************)
(* Small instances of Maintenance.                                         *)
(***************************************************************************)
EXTENDS Maintenance, TLC

CONSTANTS o1, o2, none, nofile

V0(flaw) == [schema |-> 0, meta |-> 0, shape |-> FALSE, patched |-> FALSE,
             flaw |-> flaw, rows |-> 1, commit |-> 0, torn |-> FALSE]
V1(patched, flaw) == [schema |-> 1, meta |-> 1, shape |-> TRUE, patched |-> patched,
                      flaw |-> flaw, rows |-> 1, commit |-> 0, torn |-> FALSE]

\* A legacy database that can be migrated, one that is refused, a version 1
\* database of before the queue patch and one the patch refuses.
Stores == {V0("none"), V0("object"), V1(FALSE, "none"), V1(FALSE, "queue")}
Symmetry == Permutations({o1, o2})
=============================================================================
