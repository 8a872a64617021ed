----------------------------- MODULE TaskModel -----------------------------
(***************************************************************************)
(* The domain model of one Agent task (crates/termior-ai/src/task.rs): the *)
(* states of a task and of one tool call, the edges each may take, and how *)
(* an acceptance report decides the state a finished task is left in.      *)
(***************************************************************************)
EXTENDS Integers, Sequences

TaskStates ==
  {"Idle", "Running", "WaitingApproval", "WaitingPlan", "WaitingChangeReview",
   "WaitingUser", "Cancelling", "CompletedVerified", "CompletedUnverified",
   "Failed", "Cancelled", "Unknown"}

TaskTerminal ==
  {"CompletedVerified", "CompletedUnverified", "Failed", "Cancelled", "Unknown"}

TaskWaiting ==
  {"WaitingApproval", "WaitingPlan", "WaitingChangeReview", "WaitingUser"}

\* TaskState::allows, as the set of states that may follow each state.
TaskSuccessors(s) ==
  CASE s = "Idle" -> {"Running", "Cancelling", "Cancelled"}
    [] s = "Running" -> TaskWaiting \cup {"Cancelling", "CompletedVerified",
                          "CompletedUnverified", "Failed", "Unknown"}
    [] s \in TaskWaiting -> {"Running", "Cancelling", "Failed", "Cancelled", "Unknown"}
    [] s = "Cancelling" -> {"Cancelled", "Unknown", "Failed"}
    [] s = "CompletedUnverified" -> {"CompletedVerified", "Failed"}
    [] OTHER -> {}

TaskAllows(s, t) == s = t \/ t \in TaskSuccessors(s)

ToolStates ==
  {"Proposed", "AwaitingApproval", "Approved", "Running", "AwaitingChangeReview",
   "Succeeded", "Failed", "Denied", "Cancelled", "Unknown"}

ToolTerminal == {"Succeeded", "Failed", "Denied", "Cancelled", "Unknown"}

\* ToolState::allows.  Unlike a task, a call may not stay where it is.
ToolEdges ==
  ({"Proposed"} \X {"AwaitingApproval", "Approved", "Denied", "Failed", "Cancelled"})
  \cup ({"AwaitingApproval"} \X {"Approved", "Denied", "Cancelled"})
  \cup ({"Approved"} \X {"Running", "Cancelled"})
  \cup ({"Running"} \X {"AwaitingChangeReview", "Succeeded", "Failed", "Unknown"})
  \cup ({"AwaitingChangeReview"} \X {"Succeeded", "Failed", "Cancelled", "Unknown"})

ToolAllows(s, t) == <<s, t>> \in ToolEdges

AcceptanceStatuses == {"Pending", "Passed", "Failed", "Skipped"}

\* The checks recorded for one criterion, by position in the report.
ChecksOf(c, checks) == {k \in DOMAIN checks : checks[k].criterion = c}

\* The status of the last check of a criterion, "Missing" when there is none.
LastStatus(c, checks) ==
  LET ks == ChecksOf(c, checks)
  IN  IF ks = {} THEN "Missing"
      ELSE checks[CHOOSE k \in ks : \A m \in ks : m <= k].status

\* Mutant: one required check that passed is enough.
AnyPassed(criteria, checks) ==
  LET required == {criteria[k].id : k \in {j \in DOMAIN criteria : criteria[j].required}}
  IN  IF \E c \in required : LastStatus(c, checks) = "Passed" THEN "CompletedVerified"
      ELSE "CompletedUnverified"

\* AcceptanceReport::completion_state.
CompletionState(criteria, checks) ==
  LET required == {criteria[k].id : k \in {j \in DOMAIN criteria : criteria[j].required}}
      status == [c \in required |-> LastStatus(c, checks)]
  IN  IF \E c \in required : status[c] = "Failed" THEN "Failed"
      ELSE IF required # {} /\ \A c \in required : status[c] = "Passed"
           THEN "CompletedVerified"
      ELSE "CompletedUnverified"

============================================================================
