--------------------------- MODULE MCTaskRuntime ---------------------------
(***************************************************************************)
(* Small instances of TaskRuntime for TLC.                                 *)
(***************************************************************************)
EXTENDS TaskRuntime

Call(n, tool) == [id |-> <<"model", n>>, tool |-> tool, verdict |-> "valid"]

\* Two writes together and a read behind them; a command, a repeated ID and a
\* tool that is not offered.
PromptReplies ==
  {<<>>,
   <<Call(1, "write_file"), Call(2, "write_file"), Call(4, "read_file")>>,
   <<Call(1, "command_claim"), Call(1, "read_file"),
     [Call(3, "read_file") EXCEPT !.verdict = "notAllowed"]>>}

\* Two writes and a command; a read that needs no consent between two writes.
YoloReplies ==
  {<<>>,
   <<Call(1, "write_file"), Call(2, "write_file"), Call(3, "run_command")>>,
   <<Call(4, "write_file"), Call(5, "read_file"), Call(6, "write_file")>>}

\* One criterion with a command and one that only a caller can check.
BothCriteria == <<[id |-> "tests", required |-> TRUE, command |-> TRUE],
                  [id |-> "manual", required |-> TRUE, command |-> FALSE]>>
OneCriterion == <<[id |-> "tests", required |-> TRUE, command |-> TRUE]>>
NoCriteria == <<>>

\* A model that only ever says it is done.
SilentReplies == {<<>>}

============================================================================
