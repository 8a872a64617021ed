---------------------------- MODULE MCChangeSet ----------------------------
(***************************************************************************)
(* Small instances of ChangeSet for TLC.                                   *)
(***************************************************************************)
EXTENDS ChangeSet, TLC

\* One file, two together, or the same one twice.
SmallBatches == {<<"f1">>, <<"f1", "f2">>, <<"f1", "f1">>}

OneBatch == {<<"f1">>}

\* The executors differ in nothing but their names.
Executors == Permutations(Agents)

============================================================================
