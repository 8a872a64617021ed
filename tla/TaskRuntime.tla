---------------------------- MODULE TaskRuntime ----------------------------
(***************************************************************************)
(* The runtime of one Agent task (crates/termior-ai/src/runtime.rs) with   *)
(* the built-in tool executor (executor.rs) as its environment.            *)
(*                                                                         *)
(* `handle' runs one command at a time; every command that resumes the     *)
(* task enters `drive', whose loop is split here at the points where       *)
(* another thread can be seen: the checks at the top of the loop, the      *)
(* stream of the model, a tool in progress, and the automatic acceptance   *)
(* of a change set.  `pc' says where the command is; "returned" means that *)
(* no command is in progress.                                              *)
(***************************************************************************)
EXTENDS TaskModel, FiniteSets

CONSTANTS
  Replies,         \* the replies a model may give: sequences of proposed calls
  Criteria,        \* the acceptance criteria of the task, in order
  Policies,        \* the approval policies the user may select
  BudgetValues,    \* the model-step budgets a task may be given
  Faults,          \* what may go wrong outside the runtime in this instance
  MaxInvocations,  \* bound: when the queue is this long the budgets run out
  MaxChecks        \* bound: acceptance checks a caller may record by hand

AllFaults == {"journal", "hook", "context", "kill", "provider", "review", "tool"}

ASSUME RuntimeAssumption ==
  /\ Criteria \in Seq([id : STRING, required : BOOLEAN, command : BOOLEAN])
  /\ Policies \subseteq {"Prompt", "Yolo"} /\ Policies # {}
  /\ BudgetValues \subseteq Nat /\ BudgetValues # {}
  /\ Faults \subseteq AllFaults
  /\ MaxInvocations \in Nat /\ MaxChecks \in Nat

Tools == {"read_file", "run_command", "write_file", "command_claim"}
ApprovalTools == Tools \ {"read_file"}
Approving == {"PolicyAuto", "Yolo", "User"}
Decisions == Approving \cup {"None", "Refused", "PolicyDeny"}
CriterionIds == {Criteria[k].id : k \in DOMAIN Criteria}
\* Option::None: the call runs no criterion.
NoCriterion == "none"

ASSUME CriterionAssumption == NoCriterion \notin CriterionIds

\* A call ID is chosen by the model, or names the n-th check of a criterion.
CallIds == (CriterionIds \cup {"model"}) \X Nat
NoCall == <<"none", 0>>

Verdicts == {"valid", "invalid", "notAllowed"}
ProposedCalls == [id : CallIds, tool : Tools, verdict : Verdicts]

ASSUME RepliesAssumption == Replies \subseteq Seq(ProposedCalls) /\ <<>> \in Replies

Invocations ==
  [id : CallIds, tool : Tools, state : ToolStates, decision : Decisions,
   prepared : BOOLEAN, result : BOOLEAN, criterion : CriterionIds \cup {NoCriterion}]

Reasons == {"none", "Approval", "ChangeReview", "Conflict", "User",
            "TerminalControl", "BudgetExhausted"}

ExitCodes == {"zero", "nonzero", "unknown"}
Checks == [criterion : CriterionIds, status : AcceptanceStatuses, exit : ExitCodes]

VARIABLES
  taskState,      \* Task::state
  reason,         \* Task::waiting_reason: its kind and the call it names
  policy,         \* approval_policy
  budget,         \* RuntimeBudgets::max_model_steps
  steps,          \* RuntimeUsage::model_steps
  checks,         \* AcceptanceReport::checks, each with the real exit status
  turnFinished,   \* Turn::finished_at_ms is set
  invocations,    \* every tool call the task ever queued, in order
  answered,       \* the call IDs with a result message in the history
  verifying,      \* verification_started
  persistFailed,  \* persistence_error
  cancelled,      \* the CancellationToken, shared with the user interface
  claim,          \* the command session the executor claimed: who controls it
  pc,             \* where the command in progress is
  attempt         \* the attempt of request_assistant, 1 to 3

taskVars == <<taskState, reason, policy, budget, steps, checks, turnFinished>>
queueVars == <<invocations, answered>>
loopVars == <<verifying, pc, attempt>>
vars == <<taskVars, queueVars, loopVars, persistFailed, cancelled, claim>>

Pcs == {"returned", "loop", "dispatch", "executing", "accepting", "request", "streaming"}

----------------------------------------------------------------------------
(* Helpers *)

\* emit and persist_latest_event: any event may be the one the journal fails on.
Emit == persistFailed' \in (IF "journal" \in Faults THEN {persistFailed, TRUE}
                            ELSE {persistFailed})

SetState(state, kind, call) ==
  /\ taskState' = state
  /\ reason' = [kind |-> kind, call |-> call]

Unfinished == {i \in DOMAIN invocations : invocations[i].state \notin ToolTerminal}
InState(S) == {i \in DOMAIN invocations : invocations[i].state \in S}

\* Mutant: any unfinished call instead of the first.
AnyUnfinished(i) == i \in Unfinished

\* next_nonterminal_invocation.
First(i) == i \in Unfinished /\ \A j \in Unfinished : i <= j

\* transition_tool applied to the calls in S.
Move(S, state) ==
  [i \in DOMAIN invocations |->
     IF i \in S THEN [invocations[i] EXCEPT !.state = state] ELSE invocations[i]]

\* transition_tool followed by the tool result that answers the call.
Close(S, state) ==
  [i \in DOMAIN invocations |->
     IF i \in S THEN [invocations[i] EXCEPT !.state = state, !.result = TRUE]
     ELSE invocations[i]]

IdsOf(S) == {invocations[i].id : i \in S}

\* Mutant: the write_file calls behind other calls are taken as well.
ScatteredBatch(f) ==
  {j \in f..Len(invocations) :
     invocations[j].tool = "write_file" /\ invocations[j].state # "Failed"}

\* The run of write_file calls that process_change_batch takes together.
Batch(f) ==
  {j \in f..Len(invocations) :
     /\ \A k \in f..j : invocations[k].tool = "write_file"
     /\ invocations[j].state # "Failed"}

\* Mutant: the refused calls of a batch start with the approved ones.
StartsWithRefused(f) == IF invocations[f].tool = "write_file" THEN Batch(f) ELSE {f}

\* The calls that start with call f.
StartsWith(f) ==
  IF invocations[f].tool = "write_file" THEN Batch(f) \cap InState({"Approved"}) ELSE {f}

\* The call that process_invocation, or the batch it entered, decides next.
Undecided(i) ==
  /\ i \in InState({"Proposed"})
  /\ \/ First(i)
     \/ \E f \in InState({"Approved"}) :
          /\ First(f)
          /\ i \in Batch(f)
          /\ \A j \in Batch(f) : j < i => invocations[j].state # "Proposed"

\* enqueue_calls: a repeated ID or bad arguments fail, a tool that is not
\* offered is denied; both are answered at once.
Enqueued(calls, criterion) ==
  [k \in DOMAIN calls |->
     LET call == calls[k]
         duplicate == \/ call.id \in IdsOf(DOMAIN invocations)
                      \/ \E m \in 1..(k - 1) : calls[m].id = call.id
         state == IF duplicate \/ call.verdict = "invalid" THEN "Failed"
                  ELSE IF call.verdict = "notAllowed" THEN "Denied" ELSE "Proposed"
     IN  [id |-> call.id, tool |-> call.tool, state |-> state,
          decision |-> IF state = "Denied" THEN "PolicyDeny" ELSE "None",
          prepared |-> FALSE, result |-> state # "Proposed",
          criterion |-> IF duplicate THEN NoCriterion ELSE criterion]]

Enqueue(calls, criterion) ==
  LET new == Enqueued(calls, criterion)
  IN  /\ invocations' = invocations \o new
      /\ answered' = answered \cup {new[k].id : k \in {m \in DOMAIN new : new[m].result}}
      /\ Emit

\* The criterion schedule_acceptance_check picks: the first with a command
\* whose last check did not pass.
Due(k) ==
  LET due == {j \in DOMAIN Criteria : /\ Criteria[j].command
                                      /\ LastStatus(Criteria[j].id, checks) # "Passed"}
  IN  k \in due /\ \A j \in due : k <= j

\* The call that runs it: run_command, numbered after the checks recorded.
AcceptanceCall(k, verdict) ==
  [id |-> <<Criteria[k].id, Cardinality(ChecksOf(Criteria[k].id, checks)) + 1>>,
   tool |-> "run_command", verdict |-> verdict]

\* run_command reports its exit status after the session ID and the state...
RunCommandReport(exit) ==
  <<[key |-> "session_id", value |-> "id"], [key |-> "state", value |-> "state"],
    [key |-> "exit", value |-> exit]>>

\* ... and parse_exit_code reads it only from the beginning of the report.
ParseExitCode(report) ==
  IF Head(report).key = "exit" THEN Head(report).value ELSE "unknown"

\* record_acceptance_output: the parsed exit code, or the fallback status.
CheckOf(criterion, exit, fallback) ==
  LET parsed == ParseExitCode(RunCommandReport(exit))
  IN  [criterion |-> criterion, exit |-> exit,
       status |-> CASE parsed = "zero" -> "Passed"
                    [] parsed = "nonzero" -> "Failed"
                    [] OTHER -> fallback]

\* Mutant: only a call that succeeded leaves a check.
RecordSuccess(S, exit, fallback) ==
  LET ran == {invocations[i].criterion : i \in S} \ {NoCriterion}
  IN  checks' = IF ran = {} \/ fallback = "Failed" THEN checks
                ELSE Append(checks, CheckOf(CHOOSE c \in ran : TRUE, exit, fallback))

\* The check a finished call adds to the report, if it runs a criterion.
RecordOutput(S, exit, fallback) ==
  LET ran == {invocations[i].criterion : i \in S} \ {NoCriterion}
  IN  checks' = IF ran = {} THEN checks
                ELSE Append(checks, CheckOf(CHOOSE c \in ran : TRUE, exit, fallback))

\* Mutants: a change set under review is forgotten, or a running call is taken.
NotUnderReview == {"Proposed", "AwaitingApproval", "Approved"}
AnyNotOver == ToolStates \ ToolTerminal

\* The states from which cancel() cancels a call.
NotRun == {"Proposed", "AwaitingApproval", "Approved", "AwaitingChangeReview"}

\* Mutant: no call is found unanswered.
NeverUnanswered(i) == FALSE

\* record_missing_tool_results: the history holds no result for the call.
Unanswered(i) == invocations[i].id \notin answered

\* What cancel() leaves in the queue: calls not yet run are cancelled, a
\* running one is unknown unless the executor confirmed that it stopped, and
\* record_missing_tool_results answers the closed calls the history does not.
CancelledQueue(confirmed) ==
  LET after(i) ==
        CASE invocations[i].state \in NotRun -> "Cancelled"
          [] invocations[i].state = "Running" /\ ~confirmed -> "Unknown"
          [] OTHER -> invocations[i].state
  IN  [i \in DOMAIN invocations |->
         [invocations[i] EXCEPT
            !.state = after(i),
            !.result = @ \/ (after(i) \in ToolTerminal /\ Unanswered(i))]]

----------------------------------------------------------------------------
(* Initial state: TaskRuntime::new *)

Init ==
  /\ taskState = "Idle" /\ reason = [kind |-> "none", call |-> NoCall]
  /\ policy \in Policies /\ budget \in BudgetValues /\ steps = 0
  /\ checks = <<>> /\ turnFinished = FALSE
  /\ invocations = <<>> /\ answered = {}
  /\ verifying = FALSE /\ pc = "returned" /\ attempt = 1
  /\ persistFailed = FALSE /\ cancelled = FALSE /\ claim = "none"

----------------------------------------------------------------------------
(* Commands: TaskRuntime::handle *)

Resume ==
  /\ SetState("Running", "none", NoCall)
  /\ pc' = "loop"
  /\ Emit

Start ==
  /\ pc = "returned" /\ taskState = "Idle"
  /\ Resume
  /\ UNCHANGED <<policy, budget, steps, checks, turnFinished, queueVars,
                 verifying, attempt, cancelled, claim>>

ResolveApproval(i, approved) ==
  /\ pc = "returned" /\ taskState = "WaitingApproval"
  /\ i \in InState({"AwaitingApproval"})
  /\ invocations' = [invocations EXCEPT ![i] =
       IF approved THEN [@ EXCEPT !.state = "Approved", !.decision = "User"]
       ELSE [@ EXCEPT !.state = "Denied", !.decision = "Refused", !.result = TRUE]]
  /\ answered' = answered \cup (IF approved THEN {} ELSE IdsOf({i}))
  /\ Resume
  /\ UNCHANGED <<policy, budget, steps, checks, turnFinished, verifying, attempt,
                 cancelled, claim>>

\* review_change: the executor writes the accepted hunks, finds the files
\* changed, fails, or, if the token is already cancelled, cannot tell.
ReviewChange(outcome) ==
  LET S == InState({"AwaitingChangeReview"})
  IN  /\ pc = "returned" /\ taskState = "WaitingChangeReview"
      /\ S # {} /\ ~persistFailed
      /\ outcome = "unknown" <=> cancelled
      /\ \/ /\ outcome = "applied"
            /\ invocations' = Close(S, "Succeeded")
            /\ answered' = answered \cup IdsOf(S)
            /\ Resume
         \/ /\ outcome = "conflict"
            /\ SetState("WaitingChangeReview", "Conflict", reason.call)
            /\ Emit /\ UNCHANGED <<queueVars, pc>>
         \/ /\ outcome = "unknown"
            /\ invocations' =
                 [i \in DOMAIN invocations |->
                    [Move(S, "Unknown")[i] EXCEPT
                       !.result = @ \/ (i \notin Unfinished \ S /\ Unanswered(i))]]
            /\ answered' = answered \cup IdsOf(DOMAIN invocations \ (Unfinished \ S))
            /\ SetState("Unknown", "none", NoCall)
            /\ Emit /\ UNCHANGED pc
      /\ UNCHANGED <<policy, budget, steps, checks, turnFinished, verifying, attempt,
                     cancelled, claim>>

\* A caller's own acceptance check is recorded in any state of the task.
RecordAcceptance(c, status) ==
  /\ pc = "returned" /\ Len(checks) < MaxChecks
  /\ checks' = Append(checks, [criterion |-> c, status |-> status, exit |-> "unknown"])
  /\ Emit
  /\ UNCHANGED <<taskState, reason, policy, budget, steps, turnFinished, queueVars,
                 loopVars, cancelled, claim>>

\* Mutant: new budgets resume the task wherever it is.
AnyStarted == taskState # "Idle"

\* New budgets resume a task that waits for the user.
AwaitsUser == taskState = "WaitingUser"

IncreaseBudgets(b) ==
  /\ pc = "returned"
  /\ budget' = b
  /\ IF AwaitsUser THEN Resume
     ELSE UNCHANGED <<taskState, reason, pc, persistFailed>>
  /\ UNCHANGED <<policy, steps, checks, turnFinished, queueVars, verifying, attempt,
                 cancelled, claim>>

WaitForUser ==
  /\ pc = "returned" /\ taskState = "Running"
  /\ SetState("WaitingUser", "User", NoCall)
  /\ Emit
  /\ UNCHANGED <<policy, budget, steps, checks, turnFinished, queueVars, loopVars,
                 cancelled, claim>>

ContinueAfterUser ==
  /\ pc = "returned" /\ taskState = "WaitingUser"
  /\ reason.kind \in {"User", "TerminalControl"}
  /\ Resume
  /\ UNCHANGED <<policy, budget, steps, checks, turnFinished, queueVars, verifying,
                 attempt, cancelled, claim>>

\* The executor takes the session back before the command reaches the task.
HandBack ==
  /\ pc = "returned" /\ taskState = "WaitingUser" /\ reason.kind = "TerminalControl"
  /\ claim' = "task"
  /\ Resume
  /\ UNCHANGED <<policy, budget, steps, checks, turnFinished, queueVars, verifying,
                 attempt, cancelled>>

\* cancel(), from the Cancel command and from inside drive.
CancelTask ==
  /\ \E confirmed \in (IF "kill" \in Faults THEN BOOLEAN ELSE {TRUE}) :
       /\ invocations' = CancelledQueue(confirmed)
       /\ SetState(IF confirmed THEN "Cancelled" ELSE "Unknown", "none", NoCall)
  /\ answered' = answered \cup {invocations[i].id :
                    i \in {j \in DOMAIN invocations : invocations'[j].state \in ToolTerminal}}
  /\ cancelled' = TRUE
  /\ turnFinished' = (taskState # "Idle")
  /\ pc' = "returned"
  /\ Emit
  /\ UNCHANGED <<policy, budget, steps, checks, verifying, attempt, claim>>

\* The early return of cancel().
NotOver == taskState \notin TaskTerminal

Cancel ==
  /\ pc = "returned" /\ NotOver
  /\ CancelTask

\* begin_task_command: the user's mode is applied before each command.
SetApprovalPolicy(p) ==
  /\ pc = "returned"
  /\ policy' = p
  /\ UNCHANGED <<taskState, reason, budget, steps, checks, turnFinished, queueVars,
                 loopVars, persistFailed, cancelled, claim>>

----------------------------------------------------------------------------
(* The user, from another thread *)

\* stop_active_task: the token is cancelled whatever the runtime is doing.
RequestCancel ==
  /\ ~cancelled
  /\ cancelled' = TRUE
  /\ UNCHANGED <<taskVars, queueVars, loopVars, persistFailed, claim>>

TakeOver ==
  /\ claim = "task"
  /\ claim' = "user"
  /\ UNCHANGED <<taskVars, queueVars, loopVars, persistFailed, cancelled>>

----------------------------------------------------------------------------
(* drive: the checks at the top of the loop *)

\* A failed journal ends the command; the task is left as it is.
StopOnJournalFailure ==
  /\ pc = "loop" /\ persistFailed
  /\ pc' = "returned"
  /\ UNCHANGED <<taskVars, queueVars, verifying, attempt, persistFailed, cancelled, claim>>

StopOnCancel ==
  /\ pc = "loop" /\ ~persistFailed /\ cancelled
  /\ CancelTask

\* Mutant: drive returns and leaves the task as it is.
ReturnOnly(kind) ==
  /\ pc' = "returned"
  /\ UNCHANGED <<taskState, reason, policy, budget, steps, checks, turnFinished, queueVars,
                 attempt, persistFailed, cancelled>>

Pause(kind) ==
  /\ SetState("WaitingUser", kind, NoCall)
  /\ pc' = "returned"
  /\ Emit
  /\ UNCHANGED <<policy, budget, steps, checks, turnFinished, queueVars, attempt, cancelled>>

\* user_control_interrupt reports a take-over once and drops the claim.
PauseForTakeOver ==
  /\ pc = "loop" /\ ~persistFailed /\ ~cancelled /\ claim = "user"
  /\ claim' = "none"
  /\ Pause("TerminalControl")
  /\ UNCHANGED verifying

\* Time, output or tokens may be used up at any iteration.
PauseForBudget ==
  /\ pc = "loop" /\ ~persistFailed /\ ~cancelled /\ claim # "user"
  /\ Pause("BudgetExhausted")
  /\ UNCHANGED <<verifying, claim>>

EnterIteration ==
  /\ pc = "loop" /\ ~persistFailed /\ ~cancelled /\ claim # "user"
  /\ Len(invocations) < MaxInvocations
  /\ pc' = "dispatch"
  /\ UNCHANGED <<taskVars, queueVars, verifying, attempt, persistFailed, cancelled, claim>>

----------------------------------------------------------------------------
(* drive: process_invocation and process_change_batch *)

\* The pre-tool hook refuses the call: the batch goes on, a single call is over.
RejectByHook(i) ==
  /\ pc = "dispatch" /\ Undecided(i) /\ ~invocations[i].prepared
  /\ "hook" \in Faults
  /\ invocations' = [Close({i}, "Failed") EXCEPT ![i].prepared = TRUE]
  /\ answered' = answered \cup IdsOf({i})
  /\ pc' = IF First(i) THEN "loop" ELSE "dispatch"
  /\ Emit
  /\ UNCHANGED <<taskVars, verifying, attempt, cancelled, claim>>

AskApproval(i) ==
  /\ pc = "dispatch" /\ Undecided(i)
  /\ invocations[i].tool \in ApprovalTools /\ policy = "Prompt"
  /\ invocations' = [invocations EXCEPT ![i].state = "AwaitingApproval", ![i].prepared = TRUE]
  /\ SetState("WaitingApproval", "Approval", invocations[i].id)
  /\ pc' = "returned"
  /\ Emit
  /\ UNCHANGED <<policy, budget, steps, checks, turnFinished, answered, verifying,
                 attempt, cancelled, claim>>

ApproveByPolicy(i) ==
  /\ pc = "dispatch" /\ Undecided(i)
  /\ invocations[i].tool \in ApprovalTools => policy = "Yolo"
  /\ invocations' = [invocations EXCEPT
       ![i].state = "Approved", ![i].prepared = TRUE,
       ![i].decision = IF invocations[i].tool \in ApprovalTools THEN "Yolo" ELSE "PolicyAuto"]
  /\ Emit
  /\ UNCHANGED <<taskVars, answered, loopVars, cancelled, claim>>

\* The approved call starts; write_file calls in a row start together.
Execute(f) ==
  /\ pc = "dispatch" /\ First(f) /\ f \in InState({"Approved"})
  /\ \A i \in DOMAIN invocations : ~Undecided(i)
  /\ invocations' = Move(StartsWith(f), "Running")
  /\ Emit
  /\ pc' = IF persistFailed' THEN "returned" ELSE "executing"
  /\ UNCHANGED <<taskVars, answered, verifying, attempt, cancelled, claim>>

\* A call that process_invocation has no branch for is looked at again.
Respin(f) ==
  /\ pc = "dispatch" /\ First(f)
  /\ f \in InState({"AwaitingApproval", "Running", "AwaitingChangeReview"})
  /\ pc' = "loop"
  /\ UNCHANGED <<taskVars, queueVars, verifying, attempt, persistFailed, cancelled, claim>>

\* Executing: the tool completes; an interrupted command completes as well.
ToolCompletes(exit) ==
  LET S == InState({"Running"})
  IN  /\ pc = "executing"
      /\ \A i \in S : /\ invocations[i].tool # "write_file"
                      /\ exit # "unknown" => invocations[i].tool = "run_command"
      /\ invocations' = Close(S, "Succeeded")
      /\ answered' = answered \cup IdsOf(S)
      /\ RecordOutput(S, exit, "Passed")
      /\ claim' = IF \E i \in S : invocations[i].tool = "command_claim" THEN "task" ELSE claim
      /\ pc' = "loop"
      /\ Emit
      /\ UNCHANGED <<taskState, reason, policy, budget, steps, turnFinished, verifying,
                     attempt, cancelled>>

ToolFails ==
  LET S == InState({"Running"})
  IN  /\ pc = "executing" /\ ("tool" \in Faults \/ cancelled)
      /\ invocations' = Close(S, "Failed")
      /\ answered' = answered \cup IdsOf(S)
      /\ RecordOutput(S, "unknown", "Failed")
      /\ pc' = "loop"
      /\ Emit
      /\ UNCHANGED <<taskState, reason, policy, budget, steps, turnFinished, verifying,
                     attempt, cancelled, claim>>

\* A change set waits for review, or Yolo goes on to accept it.
ProposeChange ==
  LET S == InState({"Running"})
  IN  /\ pc = "executing" /\ \A i \in S : invocations[i].tool = "write_file"
      /\ invocations' = Move(S, "AwaitingChangeReview")
      /\ Emit
      /\ IF policy = "Yolo"
         THEN /\ pc' = IF persistFailed' THEN "returned" ELSE "accepting"
              /\ UNCHANGED <<taskState, reason>>
         ELSE /\ pc' = "returned"
              /\ \E i \in S : /\ \A j \in S : i <= j
                              /\ SetState("WaitingChangeReview", "ChangeReview",
                                          invocations[i].id)
      /\ UNCHANGED <<policy, budget, steps, checks, turnFinished, answered, verifying,
                     attempt, cancelled, claim>>

\* auto_accept_change: a conflict fails the calls, a cancelled token leaves
\* them unknown, an executor error leaves everything as it is.
AcceptChange(outcome) ==
  LET S == InState({"AwaitingChangeReview"})
  IN  /\ pc = "accepting"
      /\ outcome = "unknown" <=> cancelled
      /\ outcome \in {"conflict", "error"} => "review" \in Faults
      /\ \/ /\ outcome \in {"applied", "conflict"}
            /\ invocations' = Close(S, IF outcome = "applied" THEN "Succeeded" ELSE "Failed")
            /\ answered' = answered \cup IdsOf(S)
            /\ pc' = "loop"
            /\ Emit /\ UNCHANGED <<taskState, reason>>
         \/ /\ outcome = "unknown"
            /\ invocations' = Move(S, "Unknown")
            /\ SetState("Unknown", "none", NoCall)
            /\ pc' = "returned"
            /\ Emit /\ UNCHANGED answered
         \/ /\ outcome = "error"
            /\ pc' = "returned"
            /\ UNCHANGED <<taskState, reason, queueVars, persistFailed>>
      /\ UNCHANGED <<policy, budget, steps, checks, turnFinished, verifying, attempt,
                     cancelled, claim>>

----------------------------------------------------------------------------
(* drive: verification and the model *)

Report == CompletionState(Criteria, checks)

\* The queue is empty and `verification_started' says what comes next.
Idling == pc = "dispatch" /\ Unfinished = {}

Finish(state) ==
  /\ SetState(state, "none", NoCall)
  /\ turnFinished' = TRUE
  /\ pc' = "returned"
  /\ Emit

\* schedule_acceptance_check: the due criterion joins the queue as a call.
ScheduleCheck(k) ==
  \E verdict \in {"valid", "notAllowed"} :
     /\ verdict = "notAllowed" => "hook" \in Faults
     /\ Enqueue(<<AcceptanceCall(k, verdict)>>, Criteria[k].id)

FinishVerified ==
  /\ Idling /\ verifying /\ Report = "CompletedVerified"
  /\ Finish("CompletedVerified")
  /\ UNCHANGED <<policy, budget, steps, checks, queueVars, verifying, attempt,
                 cancelled, claim>>

\* Some required check has not run: run the next one or give up.
ContinueVerification ==
  /\ Idling /\ verifying /\ Report = "CompletedUnverified"
  /\ \/ \E k \in DOMAIN Criteria :
          /\ Due(k) /\ ScheduleCheck(k)
          /\ pc' = "loop"
          /\ UNCHANGED <<taskState, reason, turnFinished>>
     \/ /\ \A k \in DOMAIN Criteria : ~Due(k)
        /\ Finish("CompletedUnverified")
        /\ UNCHANGED queueVars
  /\ UNCHANGED <<policy, budget, steps, checks, verifying, attempt, cancelled, claim>>

\* The model is asked next, first of all or again after a failed check.
AskingModel == Idling /\ (verifying => Report = "Failed")

PauseForSteps ==
  /\ AskingModel /\ steps >= budget
  /\ verifying' = FALSE
  /\ Pause("BudgetExhausted")
  /\ UNCHANGED claim

\* compact_history_if_needed may find that the history cannot be made to fit.
PauseForContext ==
  /\ AskingModel /\ steps < budget /\ "context" \in Faults
  /\ verifying' = FALSE
  /\ Pause("User")
  /\ UNCHANGED claim

\* Or it replaces the oldest messages, results of earlier calls among them.
AskModel ==
  /\ AskingModel /\ steps < budget
  /\ verifying' = FALSE
  /\ answered' \in {answered} \cup
       (IF "context" \in Faults THEN {IdsOf({i \in DOMAIN invocations : i > k}) :
                                        k \in DOMAIN invocations} ELSE {})
  /\ answered' # answered => Emit
  /\ answered' = answered => UNCHANGED persistFailed
  /\ pc' = "request" /\ attempt' = 1
  /\ UNCHANGED <<taskVars, invocations, cancelled, claim>>

\* request_assistant: stream_chat starts an attempt.
OpenStream ==
  /\ pc = "request"
  /\ pc' = "streaming"
  /\ UNCHANGED <<taskVars, queueVars, verifying, attempt, persistFailed, cancelled, claim>>

StreamCancelled ==
  /\ pc = "streaming" /\ cancelled
  /\ CancelTask

\* The reply queues its calls; without calls the task is verified or over.
Reply(calls) ==
  /\ pc = "streaming"
  /\ steps' = steps + 1
  /\ IF calls # <<>>
     THEN /\ Enqueue(calls, NoCriterion)
          /\ pc' = "loop"
          /\ UNCHANGED <<taskState, reason, turnFinished, verifying>>
     ELSE \/ \E k \in DOMAIN Criteria :
               /\ Due(k) /\ ScheduleCheck(k)
               /\ verifying' = TRUE
               /\ pc' = "loop"
               /\ UNCHANGED <<taskState, reason, turnFinished>>
          \/ /\ \A k \in DOMAIN Criteria : ~Due(k)
             /\ Finish(Report)
             /\ UNCHANGED <<queueVars, verifying>>
  /\ UNCHANGED <<policy, budget, checks, attempt, cancelled, claim>>

\* Mutants: the attempt is not counted, or one attempt too many is made.
SameAttempt == attempt
OneTooMany == attempt <= 3

NextAttempt == attempt + 1
MayRetry == attempt < 3

\* No progress before the stream broke: two more attempts.
RetryStream ==
  /\ pc = "streaming" /\ "provider" \in Faults /\ MayRetry
  /\ attempt' = NextAttempt
  /\ pc' = "request"
  /\ Emit
  /\ UNCHANGED <<taskVars, queueVars, verifying, cancelled, claim>>

\* The third attempt broke, or one broke after it had made progress.
ProviderFails(progress) ==
  /\ pc = "streaming" /\ "provider" \in Faults
  /\ progress \/ attempt = 3
  /\ steps' = steps + (IF progress THEN 1 ELSE 0)
  /\ SetState("Failed", "none", NoCall)
  /\ pc' = "returned"
  /\ Emit
  /\ UNCHANGED <<policy, budget, checks, turnFinished, queueVars, verifying, attempt,
                 cancelled, claim>>

----------------------------------------------------------------------------
(* Specification *)

Command ==
  \/ Start \/ WaitForUser \/ ContinueAfterUser \/ HandBack \/ Cancel
  \/ \E i \in DOMAIN invocations, approved \in BOOLEAN : ResolveApproval(i, approved)
  \/ \E outcome \in {"applied", "conflict", "unknown"} : ReviewChange(outcome)
  \/ \E c \in CriterionIds, status \in AcceptanceStatuses : RecordAcceptance(c, status)
  \/ \E b \in BudgetValues : IncreaseBudgets(b)
  \/ \E p \in Policies : SetApprovalPolicy(p)

TopOfLoop ==
  \/ StopOnJournalFailure \/ StopOnCancel \/ PauseForTakeOver \/ PauseForBudget
  \/ EnterIteration

ToolStep ==
  \/ \E i \in DOMAIN invocations :
       RejectByHook(i) \/ AskApproval(i) \/ ApproveByPolicy(i) \/ Execute(i) \/ Respin(i)
  \/ \E exit \in ExitCodes : ToolCompletes(exit)
  \/ ToolFails \/ ProposeChange
  \/ \E outcome \in {"applied", "conflict", "unknown", "error"} : AcceptChange(outcome)

ModelStep ==
  \/ FinishVerified \/ ContinueVerification
  \/ PauseForSteps \/ PauseForContext \/ AskModel
  \/ OpenStream \/ StreamCancelled \/ RetryStream
  \/ \E calls \in Replies : Reply(calls)
  \/ \E progress \in BOOLEAN : ProviderFails(progress)

Drive == TopOfLoop \/ ToolStep \/ ModelStep

User == RequestCancel \/ TakeOver

\* A finished task accepts nothing that would change it.
Over == taskState \in TaskTerminal /\ pc = "returned" /\ UNCHANGED vars

Next == Command \/ Drive \/ User \/ Over

Spec == Init /\ [][Next]_vars

\* The executor's threads run a started command to its end, and every stream
\* of the model and every tool ends (both have time limits).
FairSpec == Spec /\ WF_vars(Drive)

----------------------------------------------------------------------------
(* Properties *)

TypeOK ==
  /\ taskState \in TaskStates
  /\ reason \in [kind : Reasons, call : CallIds \cup {NoCall}]
  /\ policy \in Policies
  /\ budget \in BudgetValues
  /\ steps \in Nat
  /\ checks \in Seq(Checks)
  /\ turnFinished \in BOOLEAN
  /\ invocations \in Seq(Invocations)
  /\ answered \subseteq CallIds
  /\ verifying \in BOOLEAN
  /\ pc \in Pcs
  /\ attempt \in 1..3
  /\ persistFailed \in BOOLEAN
  /\ cancelled \in BOOLEAN
  /\ claim \in {"none", "task", "user"}

\* A tool that needs consent has started, is under review or has succeeded
\* only if the user approved that very call or Yolo was on when its turn came,
\* whatever the user switched, denied or interrupted meanwhile
\* (process_invocation, process_change_batch, resolve_approval).
ApprovalGate ==
  \A i \in InState({"Approved", "Running", "AwaitingChangeReview", "Succeeded"}) :
    /\ invocations[i].decision \in Approving
    /\ invocations[i].tool \in ApprovalTools => invocations[i].decision # "PolicyAuto"

\* A call has started only when every earlier call of the queue is over, or
\* goes along with it in one run of write_file calls (next_nonterminal_invocation
\* and the batch of process_change_batch).
QueueOrder ==
  \A i \in InState({"Running", "AwaitingChangeReview", "Succeeded"}) : \A j \in 1..(i - 1) :
    \/ invocations[j].state \in ToolTerminal
    \/ /\ \A k \in j..i : invocations[k].tool = "write_file"
       /\ invocations[j].state = invocations[i].state

\* What a returned command asks of the user is what the queue waits for: one
\* call awaits approval exactly when the task does and is the one named, and
\* likewise for a change set under review (set_state and transition_tool are
\* called apart, and the cards of the user interface show the former).  Only
\* Yolo's own acceptance may leave a change set that nobody is asked about.
WaitingMatchesQueue ==
  LET asked == InState({"AwaitingApproval"})
      reviewed == InState({"AwaitingChangeReview"})
  IN  pc = "returned" =>
        /\ taskState = "WaitingApproval" <=> asked # {}
        /\ \A i \in asked : reason.call = invocations[i].id /\ asked = {i}
        /\ taskState = "WaitingChangeReview" =>
             \E i \in reviewed : reason.call = invocations[i].id
        /\ reviewed # {} =>
             \/ taskState = "WaitingChangeReview"
             \/ "Yolo" \in Policies /\ taskState \in {"Running", "WaitingUser"}

\* No command returns with the task still Running, when nobody would drive it
\* any more: every return of drive has set another state, but for the errors of
\* the journal and of Yolo's own acceptance of a change set.
NeverAbandoned ==
  pc = "returned" /\ taskState = "Running" =>
    \/ persistFailed
    \/ "Yolo" \in Policies /\ InState({"AwaitingChangeReview"}) # {}

\* What a finished task may leave open: a call the journal failed to record as
\* running, and, when the outcome of a change set is unknown, that change set's
\* calls without an answer and the calls queued behind it as they stood.
LeftOpen(i) ==
  \/ persistFailed /\ invocations[i].state = "Running"
  \/ /\ taskState = "Unknown"
     /\ \E k \in 1..i : /\ invocations[k].tool = "write_file"
                       /\ invocations[k].state = "Unknown"

\* The history answers call i, or the call whose ID it repeats.
HasAnswer(i) ==
  \E j \in DOMAIN invocations :
    invocations[j].id = invocations[i].id /\ invocations[j].result

\* Once a task is over, every other call it queued is over and has an answer of
\* its own or, for a repeated ID, of the call it repeats, whichever path ended
\* the task (cancel, review_change, request_assistant, drive's own returns;
\* record_missing_tool_results).
SettledWhenOver ==
  taskState \in TaskTerminal =>
    \A i \in DOMAIN invocations :
      LeftOpen(i) \/ (invocations[i].state \in ToolTerminal /\ HasAnswer(i))

\* Every acceptance command that ran has left a check in the report, also the
\* one that failed or was interrupted (record_acceptance_output on each path).
EveryRunIsChecked ==
  \A c \in CriterionIds :
    Cardinality({i \in InState({"Succeeded", "Failed"}) :
                   invocations[i].criterion = c /\ invocations[i].decision \in Approving})
      <= Cardinality(ChecksOf(c, checks))

\* A task becomes verified only with a passed check for every required
\* criterion, the last one of each, and with no call left to run.
VerifiedOnlyOnEvidence ==
  [][(taskState' = "CompletedVerified" /\ taskState # "CompletedVerified") =>
       /\ Unfinished = {} /\ turnFinished'
       /\ \E k \in DOMAIN Criteria : Criteria[k].required
       /\ \A k \in DOMAIN Criteria :
            Criteria[k].required => LastStatus(Criteria[k].id, checks) = "Passed"]_vars

\* set_state never consults TaskState::allows, yet it takes only those edges;
\* a cancellation takes two of them at once.
TaskEdgesRespected ==
  [][\/ TaskAllows(taskState, taskState')
     \/ /\ TaskAllows(taskState, "Cancelling")
        /\ taskState' \in {"Cancelled", "Unknown"}]_vars

\* transition_tool is never asked for an edge ToolState::allows refuses: the
\* error would end the command in the middle of a batch.
ToolEdgesRespected ==
  [][\A i \in DOMAIN invocations :
       \/ invocations'[i].state = invocations[i].state
       \/ ToolAllows(invocations[i].state, invocations'[i].state)]_vars

\* A finished task stays as it finished, and so does its queue: no later
\* command, cancellation or take-over reopens it.
TerminalIsFinal ==
  [][(taskState \in TaskTerminal) =>
       (taskState' = taskState /\ invocations' = invocations)]_vars

\* The runtime's queue implements the gate of ToolGate.
Stage(i) ==
  CASE invocations[i].state \in {"Proposed", "AwaitingApproval"} -> "queued"
    [] invocations[i].state = "Approved" -> "cleared"
    [] invocations[i].state \in {"Running", "AwaitingChangeReview"} -> "started"
    [] OTHER -> "over"

Gate == INSTANCE ToolGate WITH
          stage <- [i \in DOMAIN invocations |-> Stage(i)],
          halted <- taskState \in TaskTerminal

\* Whatever replies, decisions and interruptions come, in any order, the queue
\* behaves as ToolGate allows.
ImplementsGate == Gate!GateSpec

\* Every command returns: retries, refused calls, failed checks and the model
\* going round again all come to an end.
DriveReturns == (pc # "returned") ~> (pc = "returned")

\* A required command that did not exit with zero never counts as evidence:
\* a verified task's last run of each required command exited with zero.
VerifiedMeansExitZero ==
  taskState = "CompletedVerified" =>
    \A k \in DOMAIN Criteria :
      Criteria[k].required /\ Criteria[k].command =>
        LET ks == ChecksOf(Criteria[k].id, checks)
        IN  ks # {} => checks[CHOOSE n \in ks : \A m \in ks : m <= n].exit = "zero"

\* Each run of an acceptance command is a call of its own with its own ID.
AcceptanceIdsUnique ==
  \A i, j \in DOMAIN invocations :
    (invocations[i].id = invocations[j].id /\ invocations[i].id[1] \in CriterionIds) => i = j

============================================================================
