--------------------------- MODULE MCTaskJournal ---------------------------
(***************************************************************************)
(* Small instances of TaskJournal for TLC.                                 *)
(***************************************************************************)
EXTENDS TaskJournal

\* A command and a write; a command ID that the model uses twice.
MixedReplies == {<<"c1", "w1">>, <<"c1", "c1">>}

\* One write that the user has to review.
OneWrite == {<<"w1">>}

============================================================================
