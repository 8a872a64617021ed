------------------------- MODULE TaskRuntimeProofs -------------------------
(***************************************************************************)
(* Theorems about TaskRuntime, for every value of its constants.           *)
(***************************************************************************)
EXTENDS TaskRuntime, FiniteSetTheorems, TLAPS

USE DEF vars, taskVars, queueVars, loopVars

----------------------------------------------------------------------------
(* The operators that change the queue *)

\* A sequence mapped element by element keeps its length and its type.
LEMMA MapType ==
  ASSUME NEW S, NEW T, NEW s \in Seq(S), NEW f \in [DOMAIN s -> T]
  PROVE  f \in Seq(T) /\ Len(f) = Len(s) /\ DOMAIN f = DOMAIN s
  <1>1. DOMAIN s = 1..Len(s) /\ Len(s) \in Nat
    OBVIOUS
  <1>2. f \in [1..Len(s) -> T]
    BY <1>1
  <1> QED
    BY <1>1, <1>2

\* Every element of a well-formed queue is a queue item.
LEMMA ElementType ==
  ASSUME NEW T, NEW s \in Seq(T), NEW i \in DOMAIN s
  PROVE  s[i] \in T
  OBVIOUS

\* transition_tool keeps the queue well formed.
LEMMA MoveType ==
  ASSUME invocations \in Seq(Invocations), NEW S, NEW state \in ToolStates
  PROVE  Move(S, state) \in Seq(Invocations)
  <1>1. \A r \in Invocations : [r EXCEPT !.state = state] \in Invocations
    BY DEF Invocations
  <1>2. Move(S, state) \in [DOMAIN invocations -> Invocations]
    BY <1>1, ElementType DEF Move
  <1> QED
    BY <1>2, MapType

\* So does the transition together with its tool result.
LEMMA CloseType ==
  ASSUME invocations \in Seq(Invocations), NEW S, NEW state \in ToolStates
  PROVE  Close(S, state) \in Seq(Invocations)
  <1>1. \A r \in Invocations :
          [r EXCEPT !.state = state, !.result = TRUE] \in Invocations
    BY DEF Invocations
  <1>2. Close(S, state) \in [DOMAIN invocations -> Invocations]
    BY <1>1, ElementType DEF Close
  <1> QED
    BY <1>2, MapType

\* cancel() keeps the queue well formed.
LEMMA CancelledQueueType ==
  ASSUME invocations \in Seq(Invocations), NEW confirmed \in BOOLEAN
  PROVE  CancelledQueue(confirmed) \in Seq(Invocations)
  <1>1. \A r \in Invocations, state \in ToolStates, result \in BOOLEAN :
          [r EXCEPT !.state = state, !.result = result] \in Invocations
    BY DEF Invocations
  <1>2. \A r \in Invocations : r.state \in ToolStates /\ r.result \in BOOLEAN
    BY DEF Invocations
  <1>3. CancelledQueue(confirmed) \in [DOMAIN invocations -> Invocations]
    <2> SUFFICES ASSUME NEW i \in DOMAIN invocations
                 PROVE  CancelledQueue(confirmed)[i] \in Invocations
      BY DEF CancelledQueue
    <2> DEFINE after == CASE invocations[i].state \in NotRun -> "Cancelled"
                          [] invocations[i].state = "Running" /\ ~confirmed -> "Unknown"
                          [] OTHER -> invocations[i].state
               result == \/ invocations[i].result
                         \/ (after \in ToolTerminal /\ Unanswered(i))
    <2>1. invocations[i] \in Invocations
      BY ElementType
    <2>2. after \in ToolStates
      BY <2>1, <1>2 DEF ToolStates
    <2>3. result \in BOOLEAN
      BY <2>1, <1>2
    <2>4. CancelledQueue(confirmed)[i] =
            [invocations[i] EXCEPT !.state = after, !.result = result]
      BY <2>1 DEF CancelledQueue, Invocations
    <2> HIDE DEF after, result
    <2>5. [invocations[i] EXCEPT !.state = after, !.result = result] \in Invocations
      BY <1>1, <2>1, <2>2, <2>3
    <2> QED
      BY <2>4, <2>5
  <1> QED
    BY <1>3, MapType

\* The IDs of queued calls are call IDs.
LEMMA IdsType ==
  ASSUME invocations \in Seq(Invocations), NEW S, S \subseteq DOMAIN invocations
  PROVE  IdsOf(S) \subseteq CallIds
  <1>1. \A i \in DOMAIN invocations : invocations[i] \in Invocations
    BY ElementType
  <1> QED
    BY <1>1 DEF IdsOf, Invocations

\* enqueue_calls turns proposed calls into queue items.
LEMMA EnqueuedType ==
  ASSUME invocations \in Seq(Invocations), NEW calls \in Seq(ProposedCalls),
         NEW criterion \in CriterionIds \cup {NoCriterion}
  PROVE  Enqueued(calls, criterion) \in Seq(Invocations)
  <1>1. \A k \in DOMAIN calls : calls[k] \in ProposedCalls
    BY ElementType
  <1>2. Enqueued(calls, criterion) \in [DOMAIN calls -> Invocations]
    <2> SUFFICES ASSUME NEW k \in DOMAIN calls
                 PROVE  Enqueued(calls, criterion)[k] \in Invocations
      BY DEF Enqueued
    <2>1. calls[k].id \in CallIds /\ calls[k].tool \in Tools
      BY <1>1 DEF ProposedCalls
    <2> DEFINE e == Enqueued(calls, criterion)[k]
    <2>2. e.state \in {"Proposed", "Failed", "Denied"}
      BY DEF Enqueued
    <2>3. e = [id |-> calls[k].id, tool |-> calls[k].tool, state |-> e.state,
               decision |-> e.decision, prepared |-> FALSE, result |-> e.result,
               criterion |-> e.criterion]
      BY DEF Enqueued
    <2>4. e.decision \in Decisions
      BY DEF Enqueued, Decisions
    <2>5. e.result \in BOOLEAN
      BY DEF Enqueued
    <2>6. e.criterion \in CriterionIds \cup {NoCriterion}
      BY DEF Enqueued
    <2>7. e.state \in ToolStates
      BY <2>2 DEF ToolStates
    <2> HIDE DEF e
    <2>8. [id |-> calls[k].id, tool |-> calls[k].tool, state |-> e.state,
           decision |-> e.decision, prepared |-> FALSE, result |-> e.result,
           criterion |-> e.criterion] \in Invocations
      BY <2>1, <2>4, <2>5, <2>6, <2>7 DEF Invocations
    <2>9. e \in Invocations
      BY <2>3, <2>8
    <2> QED
      BY <2>9 DEF e
  <1> QED
    BY <1>2, MapType

\* A finished call adds a well-formed check, or none.
LEMMA RecordOutputType ==
  ASSUME invocations \in Seq(Invocations), checks \in Seq(Checks),
         NEW S, S \subseteq DOMAIN invocations, NEW exit \in ExitCodes,
         NEW fallback \in AcceptanceStatuses, RecordOutput(S, exit, fallback)
  PROVE  checks' \in Seq(Checks)
  <1> DEFINE ran == {invocations[i].criterion : i \in S} \ {NoCriterion}
  <1>1. \A i \in S : invocations[i].criterion \in CriterionIds \cup {NoCriterion}
    <2>1. \A i \in S : invocations[i] \in Invocations
      BY ElementType
    <2> QED
      BY <2>1 DEF Invocations
  <1>2. CASE ran = {}
    BY <1>2 DEF RecordOutput
  <1>3. CASE ran # {}
    <2> DEFINE c == CHOOSE d \in ran : TRUE
    <2>1. c \in CriterionIds
      BY <1>1, <1>3
    <2> HIDE DEF c
    <2>2. CheckOf(c, exit, fallback).status \in AcceptanceStatuses
      BY DEF CheckOf, AcceptanceStatuses
    <2>3. CheckOf(c, exit, fallback) \in Checks
      BY <2>1, <2>2 DEF CheckOf, Checks
    <2>4. checks' = Append(checks, CheckOf(c, exit, fallback))
      BY <1>3 DEF RecordOutput, c
    <2> QED
      BY <2>3, <2>4
  <1> QED
    BY <1>2, <1>3

----------------------------------------------------------------------------
(* Type correctness *)

\* The queue's part of a step, as every action that closes calls takes it.
LEMMA AnsweredType ==
  ASSUME TypeOK, NEW S, S \subseteq DOMAIN invocations
  PROVE  answered \cup IdsOf(S) \subseteq CallIds
  BY IdsType DEF TypeOK

\* enqueue_calls keeps the queue well formed.
LEMMA EnqueueType ==
  ASSUME TypeOK, NEW calls \in Seq(ProposedCalls),
         NEW criterion \in CriterionIds \cup {NoCriterion}, Enqueue(calls, criterion)
  PROVE  invocations' \in Seq(Invocations) /\ answered' \subseteq CallIds
  <1> DEFINE new == Enqueued(calls, criterion)
  <1>1. new \in Seq(Invocations)
    BY EnqueuedType DEF TypeOK
  <1>2. \A k \in DOMAIN new : new[k].id \in CallIds
    <2> SUFFICES ASSUME NEW k \in DOMAIN new PROVE new[k] \in Invocations
      BY DEF Invocations
    <2> QED
      BY <1>1, ElementType
  <1>3. invocations' = invocations \o new
        /\ answered' = answered \cup {new[k].id : k \in {m \in DOMAIN new : new[m].result}}
    BY DEF Enqueue
  <1> HIDE DEF new
  <1> QED
    BY <1>1, <1>2, <1>3 DEF TypeOK

\* Type correctness in three parts, which different actions disturb.
FlagsOK ==
  /\ turnFinished \in BOOLEAN /\ verifying \in BOOLEAN
  /\ persistFailed \in BOOLEAN /\ cancelled \in BOOLEAN

QueueOK == invocations \in Seq(Invocations) /\ answered \subseteq CallIds

RestOK ==
  /\ taskState \in TaskStates
  /\ reason \in [kind : Reasons, call : CallIds \cup {NoCall}]
  /\ policy \in Policies /\ budget \in BudgetValues /\ steps \in Nat
  /\ checks \in Seq(Checks)
  /\ pc \in Pcs /\ attempt \in 1..3
  /\ claim \in {"none", "task", "user"}

\* The type invariant, in three parts that are proved apart.
LEMMA TypeParts == TypeOK <=> FlagsOK /\ QueueOK /\ RestOK
  BY DEF TypeOK, FlagsOK, QueueOK, RestOK

\* A new runtime is well formed.
LEMMA InitType == Init => TypeOK
  <1> SUFFICES ASSUME Init PROVE TypeOK
    OBVIOUS
  <1>1. FlagsOK
    BY DEF Init, FlagsOK
  <1>2. QueueOK
    BY DEF Init, QueueOK
  <1>3. reason \in [kind : Reasons, call : CallIds \cup {NoCall}]
    BY DEF Init, Reasons
  <1>4. RestOK
    BY <1>3 DEF Init, RestOK, TaskStates, Pcs
  <1> QED
    BY <1>1, <1>2, <1>4, TypeParts

\* Every action leaves the flags Boolean.
LEMMA FlagsStep == TypeOK /\ [Next]_vars => FlagsOK'
  <1> SUFFICES ASSUME TypeOK, [Next]_vars PROVE FlagsOK'
    OBVIOUS
  <1> USE DEF FlagsOK, Emit, SetState, Resume, Pause, Finish, CancelTask, Enqueue
  <1>0. FlagsOK
    BY TypeParts
  <1>1. CASE Command
    BY <1>0, <1>1 DEF Command, Start, WaitForUser, ContinueAfterUser, HandBack, Cancel,
      ResolveApproval, ReviewChange, RecordAcceptance, IncreaseBudgets, SetApprovalPolicy
  <1>2. CASE TopOfLoop
    BY <1>0, <1>2 DEF TopOfLoop, StopOnJournalFailure, StopOnCancel, PauseForTakeOver,
      PauseForBudget, EnterIteration
  <1>3. CASE ToolStep
    <2>1. ASSUME NEW i \in DOMAIN invocations,
                 RejectByHook(i) \/ AskApproval(i) \/ ApproveByPolicy(i) \/ Respin(i)
          PROVE  FlagsOK'
      BY <1>0, <2>1 DEF RejectByHook, AskApproval, ApproveByPolicy, Respin
    <2>2. ASSUME NEW i \in DOMAIN invocations, Execute(i) PROVE FlagsOK'
      BY <1>0, <2>2 DEF Execute
    <2>3. ASSUME NEW exit \in ExitCodes, ToolCompletes(exit) PROVE FlagsOK'
      BY <1>0, <2>3 DEF ToolCompletes
    <2>4. CASE ToolFails
      BY <1>0, <2>4 DEF ToolFails
    <2>5. CASE ProposeChange
      BY <1>0, <2>5 DEF ProposeChange
    <2>6. ASSUME NEW outcome \in {"applied", "conflict", "unknown", "error"},
                 AcceptChange(outcome)
          PROVE  FlagsOK'
      BY <1>0, <2>6 DEF AcceptChange
    <2> QED
      BY <1>3, <2>1, <2>2, <2>3, <2>4, <2>5, <2>6 DEF ToolStep
  <1>4. CASE ModelStep
    BY <1>0, <1>4 DEF ModelStep, FinishVerified, ContinueVerification, ScheduleCheck,
      PauseForSteps, PauseForContext, AskModel, OpenStream, StreamCancelled, Reply,
      RetryStream, ProviderFails
  <1>5. CASE User
    BY <1>0, <1>5 DEF User, RequestCancel, TakeOver
  <1>6. CASE UNCHANGED vars
    BY <1>0, <1>6
  <1> QED
    BY <1>1, <1>2, <1>3, <1>4, <1>5, <1>6 DEF Next, Drive, Over

\* Replacing one element of a sequence keeps its type.
LEMMA UpdateType ==
  ASSUME NEW T, NEW s \in Seq(T), NEW i \in DOMAIN s, NEW e \in T
  PROVE  [s EXCEPT ![i] = e] \in Seq(T)
  OBVIOUS

\* Items stay items when their state, decision, preparation or result changes.
LEMMA ItemType ==
  ASSUME NEW r \in Invocations, NEW state \in ToolStates, NEW decision \in Decisions,
         NEW prepared \in BOOLEAN, NEW result \in BOOLEAN
  PROVE  /\ [r EXCEPT !.state = state] \in Invocations
         /\ [r EXCEPT !.prepared = prepared] \in Invocations
         /\ [r EXCEPT !.state = state, !.prepared = prepared] \in Invocations
         /\ [r EXCEPT !.state = state, !.decision = decision] \in Invocations
         /\ [r EXCEPT !.state = state, !.result = result] \in Invocations
         /\ [r EXCEPT !.state = state, !.decision = decision, !.result = result]
              \in Invocations
         /\ [r EXCEPT !.state = state, !.prepared = prepared, !.decision = decision]
              \in Invocations
  BY DEF Invocations

\* The call in hand: decided, refused, asked for or started.
LEMMA ResolveType ==
  ASSUME QueueOK, NEW i \in DOMAIN invocations, NEW approved \in BOOLEAN,
         ResolveApproval(i, approved)
  PROVE  QueueOK'
  <1>1. invocations[i] \in Invocations
    BY ElementType DEF QueueOK
  <1> DEFINE e == IF approved
                  THEN [invocations[i] EXCEPT !.state = "Approved", !.decision = "User"]
                  ELSE [invocations[i] EXCEPT !.state = "Denied", !.decision = "Refused",
                                              !.result = TRUE]
  <1>2. e \in Invocations
    BY <1>1, ItemType DEF ToolStates, Decisions, Approving
  <1>3. invocations' = [invocations EXCEPT ![i] = e]
    BY DEF ResolveApproval
  <1> HIDE DEF e
  <1>4. invocations' \in Seq(Invocations)
    BY <1>2, <1>3, UpdateType DEF QueueOK
  <1>5. answered' \subseteq CallIds
    BY IdsType DEF ResolveApproval, QueueOK
  <1> QED
    BY <1>4, <1>5 DEF QueueOK

\* A refused call keeps the queue well formed.
LEMMA HookType ==
  ASSUME QueueOK, NEW i \in DOMAIN invocations, RejectByHook(i)
  PROVE  QueueOK'
  <1> DEFINE closed == Close({i}, "Failed")
  <1>1. closed \in Seq(Invocations) /\ DOMAIN closed = DOMAIN invocations
    BY CloseType DEF QueueOK, ToolStates, Close
  <1>2. invocations' = [closed EXCEPT ![i] = [closed[i] EXCEPT !.prepared = TRUE]]
    BY DEF RejectByHook
  <1>3. answered' = answered \cup IdsOf({i})
    BY DEF RejectByHook
  <1> HIDE DEF closed
  <1>4. closed[i] \in Invocations
    BY <1>1, ElementType
  <1>5. [closed[i] EXCEPT !.prepared = TRUE] \in Invocations
    BY <1>4, ItemType DEF ToolStates, Decisions
  <1>6. invocations' \in Seq(Invocations)
    BY <1>1, <1>2, <1>5, UpdateType
  <1> QED
    BY <1>3, <1>6, IdsType DEF QueueOK

\* So does an approval by the policy.
LEMMA PolicyType ==
  ASSUME QueueOK, NEW i \in DOMAIN invocations, AskApproval(i) \/ ApproveByPolicy(i)
  PROVE  QueueOK'
  <1>1. invocations[i] \in Invocations
    BY ElementType DEF QueueOK
  <1> DEFINE source == IF invocations[i].tool \in ApprovalTools THEN "Yolo" ELSE "PolicyAuto"
             asked == [invocations[i] EXCEPT !.state = "AwaitingApproval", !.prepared = TRUE]
             cleared == [invocations[i] EXCEPT !.state = "Approved", !.prepared = TRUE,
                                               !.decision = source]
  <1>2. source \in Decisions
    BY DEF Decisions, Approving
  <1>3. asked \in Invocations /\ cleared \in Invocations
    BY <1>1, <1>2, ItemType DEF ToolStates
  <1>4. \/ invocations' = [invocations EXCEPT ![i] = asked]
        \/ invocations' = [invocations EXCEPT ![i] = cleared]
    BY DEF AskApproval, ApproveByPolicy
  <1>5. answered' = answered
    BY DEF AskApproval, ApproveByPolicy
  <1> HIDE DEF asked, cleared
  <1> QED
    BY <1>3, <1>4, <1>5, UpdateType DEF QueueOK

\* So does a review.
LEMMA ReviewType ==
  ASSUME QueueOK, NEW outcome \in {"applied", "conflict", "unknown"}, ReviewChange(outcome)
  PROVE  QueueOK'
  <1> DEFINE S == InState({"AwaitingChangeReview"})
  <1>1. S \subseteq DOMAIN invocations
    BY DEF InState
  <1>2. CASE outcome = "applied"
    <2>1. invocations' = Close(S, "Succeeded") /\ answered' = answered \cup IdsOf(S)
      BY <1>2 DEF ReviewChange
    <2> QED
      BY <1>1, <2>1, CloseType, IdsType DEF QueueOK, ToolStates
  <1>3. CASE outcome = "conflict"
    BY <1>3 DEF ReviewChange, QueueOK
  <1>4. CASE outcome = "unknown"
    <2> DEFINE moved == Move(S, "Unknown")
               late(i) == i \notin Unfinished \ S /\ Unanswered(i)
    <2>1. /\ invocations' = [i \in DOMAIN invocations |->
                               [moved[i] EXCEPT !.result = @ \/ late(i)]]
          /\ answered' = answered \cup IdsOf(DOMAIN invocations \ (Unfinished \ S))
      BY <1>4 DEF ReviewChange
    <2>2. moved \in Seq(Invocations) /\ DOMAIN moved = DOMAIN invocations
      BY MoveType DEF Move, QueueOK, ToolStates
    <2> HIDE DEF moved
    <2>3. ASSUME NEW i \in DOMAIN invocations
          PROVE  [moved[i] EXCEPT !.result = @ \/ late(i)] \in Invocations
      <3> DEFINE result == moved[i].result \/ late(i)
      <3>1. moved[i] \in Invocations
        BY <2>2, ElementType
      <3>2. result \in BOOLEAN
        BY <3>1 DEF Invocations
      <3>3. [moved[i] EXCEPT !.result = @ \/ late(i)] = [moved[i] EXCEPT !.result = result]
        BY <3>1 DEF Invocations
      <3> HIDE DEF result
      <3>4. [moved[i] EXCEPT !.result = result] \in Invocations
        BY <3>1, <3>2 DEF Invocations
      <3> QED
        BY <3>3, <3>4
    <2> HIDE DEF late
    <2>4. invocations' \in [DOMAIN invocations -> Invocations]
      BY <2>1, <2>3
    <2> QED
      BY <2>1, <2>4, MapType, IdsType DEF QueueOK
  <1> QED
    BY <1>2, <1>3, <1>4

\* So does a cancellation.
LEMMA CancelType ==
  ASSUME QueueOK, CancelTask
  PROVE  QueueOK'
  <1>1. PICK confirmed \in BOOLEAN : invocations' = CancelledQueue(confirmed)
    BY DEF CancelTask
  <1>2. answered' \subseteq answered \cup IdsOf(DOMAIN invocations)
    BY DEF CancelTask, IdsOf
  <1> QED
    BY <1>1, <1>2, CancelledQueueType, IdsType DEF QueueOK

\* Calls that start, end or go under review together.
LEMMA ToolType ==
  ASSUME QueueOK,
         \/ \E i \in DOMAIN invocations : Execute(i) \/ Respin(i)
         \/ \E exit \in ExitCodes : ToolCompletes(exit)
         \/ ToolFails \/ ProposeChange
         \/ \E outcome \in {"applied", "conflict", "unknown", "error"} : AcceptChange(outcome)
  PROVE  QueueOK'
  <1>1. \A states : InState(states) \subseteq DOMAIN invocations
    BY DEF InState
  <1>2. ASSUME UNCHANGED queueVars PROVE QueueOK'
    BY <1>2 DEF QueueOK
  <1>3. ASSUME NEW S, NEW state \in ToolStates,
               invocations' = Move(S, state), answered' = answered
        PROVE  QueueOK'
    BY <1>3, MoveType DEF QueueOK
  <1>4. ASSUME NEW S, S \subseteq DOMAIN invocations, NEW state \in ToolStates,
               invocations' = Close(S, state), answered' = answered \cup IdsOf(S)
        PROVE  QueueOK'
    BY <1>4, CloseType, IdsType DEF QueueOK
  <1>5. {"Running", "Succeeded", "Failed", "AwaitingChangeReview", "Unknown"}
          \subseteq ToolStates
    BY DEF ToolStates
  <1>6. ASSUME NEW i \in DOMAIN invocations, Execute(i) PROVE QueueOK'
    BY <1>3, <1>5, <1>6 DEF Execute
  <1>7. ASSUME NEW i \in DOMAIN invocations, Respin(i) PROVE QueueOK'
    BY <1>2, <1>7 DEF Respin
  <1>8. ASSUME NEW exit \in ExitCodes, ToolCompletes(exit) PROVE QueueOK'
    BY <1>1, <1>4, <1>5, <1>8 DEF ToolCompletes
  <1>9. CASE ToolFails
    BY <1>1, <1>4, <1>5, <1>9 DEF ToolFails
  <1>10. CASE ProposeChange
    BY <1>3, <1>5, <1>10 DEF ProposeChange
  <1>11. ASSUME NEW outcome \in {"applied", "conflict", "unknown", "error"},
                AcceptChange(outcome)
         PROVE  QueueOK'
    <2> DEFINE S == InState({"AwaitingChangeReview"})
    <2>1. \/ /\ invocations' = Close(S, "Succeeded") \/ invocations' = Close(S, "Failed")
             /\ answered' = answered \cup IdsOf(S)
          \/ invocations' = Move(S, "Unknown") /\ answered' = answered
          \/ UNCHANGED queueVars
      BY <1>11 DEF AcceptChange
    <2> QED
      BY <1>1, <1>2, <1>3, <1>4, <1>5, <2>1
  <1> QED
    BY <1>6, <1>7, <1>8, <1>9, <1>10, <1>11

\* Every action leaves a queue of well-formed calls.
LEMMA QueueStep == TypeOK /\ [Next]_vars => QueueOK'
  <1> SUFFICES ASSUME TypeOK, [Next]_vars PROVE QueueOK'
    OBVIOUS
  <1>0. QueueOK
    BY TypeParts
  <1>1. ASSUME UNCHANGED queueVars PROVE QueueOK'
    BY <1>0, <1>1 DEF QueueOK
  <1>2. CASE Command
    <2>1. CASE Start \/ WaitForUser \/ ContinueAfterUser \/ HandBack
      BY <1>1, <2>1 DEF Start, WaitForUser, ContinueAfterUser, HandBack
    <2>2. CASE Cancel
      BY <1>0, <2>2, CancelType DEF Cancel
    <2>3. ASSUME NEW c \in CriterionIds, NEW status \in AcceptanceStatuses,
                 RecordAcceptance(c, status)
          PROVE  QueueOK'
      BY <1>1, <2>3 DEF RecordAcceptance
    <2>4. ASSUME NEW b \in BudgetValues, IncreaseBudgets(b) PROVE QueueOK'
      BY <1>1, <2>4 DEF IncreaseBudgets
    <2>5. ASSUME NEW p \in Policies, SetApprovalPolicy(p) PROVE QueueOK'
      BY <1>1, <2>5 DEF SetApprovalPolicy
    <2> QED
      BY <1>0, <1>2, <2>1, <2>2, <2>3, <2>4, <2>5, ResolveType, ReviewType DEF Command
  <1>3. CASE TopOfLoop
    <2>1. CASE StopOnCancel
      BY <1>0, <2>1, CancelType DEF StopOnCancel
    <2> QED
      BY <1>1, <1>3, <2>1 DEF TopOfLoop, StopOnJournalFailure, PauseForTakeOver,
        PauseForBudget, Pause, EnterIteration
  <1>4. CASE ToolStep
    BY <1>0, <1>4, HookType, PolicyType, ToolType DEF ToolStep
  <1>5. CASE ModelStep
    <2>1. ASSUME NEW k \in DOMAIN Criteria, ScheduleCheck(k) PROVE QueueOK'
      <3>1. PICK verdict \in Verdicts :
              Enqueue(<<AcceptanceCall(k, verdict)>>, Criteria[k].id)
        BY <2>1 DEF ScheduleCheck, Verdicts
      <3>2. Criteria[k].id \in CriterionIds
        BY DEF CriterionIds
      <3>3. Cardinality(ChecksOf(Criteria[k].id, checks)) + 1 \in Nat
        <4>1. IsFiniteSet(ChecksOf(Criteria[k].id, checks))
          BY FS_Interval, FS_Subset DEF ChecksOf, TypeOK
        <4> QED
          BY <4>1, FS_CardinalityType
      <3>4. AcceptanceCall(k, verdict) \in ProposedCalls
        BY <3>2, <3>3 DEF AcceptanceCall, ProposedCalls, CallIds, Tools
      <3>5. <<AcceptanceCall(k, verdict)>> \in Seq(ProposedCalls)
        BY <3>4
      <3> QED
        BY <3>1, <3>2, <3>5, EnqueueType DEF QueueOK
    <2>2. CASE AskModel
      <3>1. ASSUME NEW k PROVE IdsOf({i \in DOMAIN invocations : i > k}) \subseteq CallIds
        BY <1>0, IdsType DEF QueueOK
      <3> QED
        BY <1>0, <2>2, <3>1 DEF AskModel, QueueOK
    <2>3. CASE StreamCancelled
      BY <1>0, <2>3, CancelType DEF StreamCancelled
    <2>4. ASSUME NEW calls \in Replies, Reply(calls) PROVE QueueOK'
      <3>1. calls \in Seq(ProposedCalls) /\ NoCriterion \in CriterionIds \cup {NoCriterion}
        BY RepliesAssumption
      <3>2. \/ Enqueue(calls, NoCriterion)
            \/ \E k \in DOMAIN Criteria : ScheduleCheck(k)
            \/ UNCHANGED queueVars
        BY <2>4 DEF Reply
      <3> QED
        BY <1>1, <2>1, <3>1, <3>2, EnqueueType DEF QueueOK
    <2>5. CASE ContinueVerification
      BY <1>1, <2>1, <2>5 DEF ContinueVerification
    <2>6. CASE FinishVerified \/ PauseForSteps \/ PauseForContext \/ OpenStream \/ RetryStream
      BY <1>1, <2>6 DEF FinishVerified, PauseForSteps, PauseForContext, Pause, OpenStream,
        RetryStream
    <2>7. ASSUME NEW progress \in BOOLEAN, ProviderFails(progress) PROVE QueueOK'
      BY <1>1, <2>7 DEF ProviderFails
    <2> QED
      BY <1>5, <2>2, <2>3, <2>4, <2>5, <2>6, <2>7 DEF ModelStep
  <1>6. CASE User \/ UNCHANGED vars
    BY <1>1, <1>6 DEF User, RequestCancel, TakeOver
  <1> QED
    BY <1>2, <1>3, <1>4, <1>5, <1>6 DEF Next, Drive, Over

\* Every action keeps the rest of the state well typed.
LEMMA RestStep == TypeOK /\ [Next]_vars => RestOK'
  <1> SUFFICES ASSUME TypeOK, [Next]_vars PROVE RestOK'
    OBVIOUS
  <1> USE DEF RestOK
  <1>0. RestOK /\ QueueOK
    BY TypeParts
  <1>1. {"none", "Approval", "ChangeReview", "Conflict", "User", "TerminalControl",
         "BudgetExhausted"} = Reasons
    BY DEF Reasons
  <1>2. /\ TaskStates = TaskWaiting \cup TaskTerminal \cup {"Idle", "Running", "Cancelling"}
        /\ Pcs = {"returned", "loop", "dispatch", "executing", "accepting", "request",
                  "streaming"}
    BY DEF TaskStates, TaskWaiting, TaskTerminal, Pcs
  <1>3. \A kind \in Reasons, call \in CallIds \cup {NoCall} :
          [kind |-> kind, call |-> call] \in [kind : Reasons, call : CallIds \cup {NoCall}]
    OBVIOUS
  <1>4. NoCall \in CallIds \cup {NoCall}
    OBVIOUS
  <1>5. \A i \in DOMAIN invocations : invocations[i].id \in CallIds \cup {NoCall}
    <2>1. \A i \in DOMAIN invocations : invocations[i] \in Invocations
      BY <1>0, ElementType DEF QueueOK
    <2> QED
      BY <2>1 DEF Invocations
  <1>6. \A states : InState(states) \subseteq DOMAIN invocations
    BY DEF InState
  <1>7. ASSUME NEW state \in TaskStates, NEW kind \in Reasons,
               NEW call \in CallIds \cup {NoCall}, SetState(state, kind, call)
        PROVE  /\ taskState' \in TaskStates
               /\ reason' \in [kind : Reasons, call : CallIds \cup {NoCall}]
    BY <1>3, <1>7 DEF SetState
  <1>8. ASSUME UNCHANGED <<taskState, reason>>
        PROVE  /\ taskState' \in TaskStates
               /\ reason' \in [kind : Reasons, call : CallIds \cup {NoCall}]
    BY <1>0, <1>8
  <1>9. ASSUME CancelTask PROVE RestOK'
    <2>1. \/ SetState("Cancelled", "none", NoCall)
          \/ SetState("Unknown", "none", NoCall)
      BY <1>9 DEF CancelTask
    <2>2. /\ taskState' \in TaskStates
          /\ reason' \in [kind : Reasons, call : CallIds \cup {NoCall}]
      BY <1>1, <1>2, <1>4, <1>7, <2>1 DEF TaskTerminal
    <2> QED
      BY <1>0, <1>2, <1>9, <2>2 DEF CancelTask
  <1>10. CASE Command
    <2>1. ASSUME Resume, UNCHANGED <<policy, steps, attempt>>, budget' \in BudgetValues,
                 checks' \in Seq(Checks), claim' \in {"none", "task", "user"}
          PROVE  RestOK'
      BY <1>0, <1>1, <1>2, <1>4, <1>7, <2>1 DEF Resume
    <2>2. CASE Start \/ ContinueAfterUser \/ HandBack
      BY <1>0, <2>1, <2>2 DEF Start, ContinueAfterUser, HandBack
    <2>3. CASE WaitForUser
      BY <1>0, <1>1, <1>2, <1>4, <1>7, <2>3 DEF WaitForUser, TaskWaiting
    <2>4. CASE Cancel
      BY <1>9, <2>4 DEF Cancel
    <2>5. ASSUME NEW i \in DOMAIN invocations, NEW approved \in BOOLEAN,
                 ResolveApproval(i, approved)
          PROVE  RestOK'
      BY <1>0, <2>1, <2>5 DEF ResolveApproval
    <2>6. ASSUME NEW outcome \in {"applied", "conflict", "unknown"}, ReviewChange(outcome)
          PROVE  RestOK'
      <3>1. UNCHANGED <<policy, budget, steps, checks, attempt, claim>>
        BY <2>6 DEF ReviewChange
      <3>2. CASE outcome = "applied"
        BY <1>0, <2>1, <2>6, <3>1, <3>2 DEF ReviewChange
      <3>3. CASE outcome = "conflict"
        <4>1. SetState("WaitingChangeReview", "Conflict", reason.call) /\ UNCHANGED pc
          BY <2>6, <3>3 DEF ReviewChange
        <4>2. reason.call \in CallIds \cup {NoCall}
          BY <1>0
        <4> QED
          BY <1>0, <1>1, <1>2, <1>7, <3>1, <4>1, <4>2 DEF TaskWaiting
      <3>4. CASE outcome = "unknown"
        <4>1. SetState("Unknown", "none", NoCall) /\ UNCHANGED pc
          BY <2>6, <3>4 DEF ReviewChange
        <4> QED
          BY <1>0, <1>1, <1>2, <1>4, <1>7, <3>1, <4>1 DEF TaskTerminal
      <3> QED
        BY <3>2, <3>3, <3>4
    <2>7. ASSUME NEW c \in CriterionIds, NEW status \in AcceptanceStatuses,
                 RecordAcceptance(c, status)
          PROVE  RestOK'
      <3>1. [criterion |-> c, status |-> status, exit |-> "unknown"] \in Checks
        BY DEF Checks, ExitCodes
      <3> QED
        BY <1>0, <2>7, <3>1 DEF RecordAcceptance
    <2>8. ASSUME NEW b \in BudgetValues, IncreaseBudgets(b) PROVE RestOK'
      BY <1>0, <2>1, <2>8 DEF IncreaseBudgets
    <2>9. ASSUME NEW p \in Policies, SetApprovalPolicy(p) PROVE RestOK'
      BY <1>0, <2>9 DEF SetApprovalPolicy
    <2> QED
      BY <1>10, <2>2, <2>3, <2>4, <2>5, <2>6, <2>7, <2>8, <2>9 DEF Command
  <1>11. CASE TopOfLoop
    <2>1. CASE StopOnCancel
      BY <1>9, <2>1 DEF StopOnCancel
    <2>2. ASSUME NEW kind \in Reasons, Pause(kind), claim' \in {"none", "task", "user"}
          PROVE  RestOK'
      BY <1>0, <1>2, <1>4, <1>7, <2>2 DEF Pause, TaskWaiting
    <2>3. CASE PauseForTakeOver \/ PauseForBudget
      BY <1>0, <1>1, <2>2, <2>3 DEF PauseForTakeOver, PauseForBudget
    <2>4. CASE StopOnJournalFailure \/ EnterIteration
      BY <1>0, <1>2, <2>4 DEF StopOnJournalFailure, EnterIteration
    <2> QED
      BY <1>11, <2>1, <2>3, <2>4 DEF TopOfLoop
  <1>12. CASE ToolStep
    <2>1. ASSUME UNCHANGED <<taskState, reason, policy, budget, steps, attempt>>,
                 checks' \in Seq(Checks), pc' \in Pcs, claim' \in {"none", "task", "user"}
          PROVE  RestOK'
      BY <1>0, <2>1
    <2>2. ASSUME NEW i \in DOMAIN invocations, RejectByHook(i) PROVE RestOK'
      BY <1>0, <1>2, <2>1, <2>2 DEF RejectByHook
    <2>3. ASSUME NEW i \in DOMAIN invocations, AskApproval(i) PROVE RestOK'
      <3>1. SetState("WaitingApproval", "Approval", invocations[i].id)
            /\ pc' = "returned" /\ UNCHANGED <<policy, budget, steps, checks, attempt, claim>>
        BY <2>3 DEF AskApproval
      <3> QED
        BY <1>0, <1>1, <1>2, <1>5, <1>7, <3>1 DEF TaskWaiting
    <2>4. ASSUME NEW i \in DOMAIN invocations, ApproveByPolicy(i) \/ Respin(i) PROVE RestOK'
      BY <1>0, <1>2, <2>1, <2>4 DEF ApproveByPolicy, Respin
    <2>5. ASSUME NEW i \in DOMAIN invocations, Execute(i) PROVE RestOK'
      BY <1>0, <1>2, <2>1, <2>5 DEF Execute
    <2>6. ASSUME NEW exit \in ExitCodes, ToolCompletes(exit) PROVE RestOK'
      <3> DEFINE S == InState({"Running"})
      <3>1. RecordOutput(S, exit, "Passed")
        BY <2>6 DEF ToolCompletes
      <3>2. checks' \in Seq(Checks)
        BY <1>0, <1>6, <3>1, RecordOutputType DEF QueueOK, AcceptanceStatuses
      <3> QED
        BY <1>0, <1>2, <2>1, <2>6, <3>2 DEF ToolCompletes
    <2>7. CASE ToolFails
      <3> DEFINE S == InState({"Running"})
      <3>1. RecordOutput(S, "unknown", "Failed")
        BY <2>7 DEF ToolFails
      <3>2. checks' \in Seq(Checks)
        BY <1>0, <1>6, <3>1, RecordOutputType DEF QueueOK, AcceptanceStatuses, ExitCodes
      <3> QED
        BY <1>0, <1>2, <2>1, <2>7, <3>2 DEF ToolFails
    <2>8. CASE ProposeChange
      <3>1. UNCHANGED <<policy, budget, steps, checks, attempt, claim>>
        BY <2>8 DEF ProposeChange
      <3>2. CASE policy = "Yolo"
        BY <1>0, <1>2, <2>1, <2>8, <3>1, <3>2 DEF ProposeChange
      <3>3. CASE policy # "Yolo"
        <4>1. PICK i \in InState({"Running"}) :
                SetState("WaitingChangeReview", "ChangeReview", invocations[i].id)
          BY <2>8, <3>3 DEF ProposeChange
        <4>2. pc' = "returned"
          BY <2>8, <3>3 DEF ProposeChange
        <4> QED
          BY <1>0, <1>1, <1>2, <1>5, <1>6, <1>7, <3>1, <4>1, <4>2 DEF TaskWaiting
      <3> QED
        BY <3>2, <3>3
    <2>9. ASSUME NEW outcome \in {"applied", "conflict", "unknown", "error"},
                 AcceptChange(outcome)
          PROVE  RestOK'
      <3>1. UNCHANGED <<policy, budget, steps, checks, attempt, claim>>
        BY <2>9 DEF AcceptChange
      <3>2. \/ UNCHANGED <<taskState, reason>> /\ pc' \in {"loop", "returned"}
            \/ SetState("Unknown", "none", NoCall) /\ pc' = "returned"
        BY <2>9 DEF AcceptChange
      <3> QED
        BY <1>0, <1>1, <1>2, <1>4, <1>7, <2>1, <3>1, <3>2 DEF TaskTerminal
    <2> QED
      BY <1>12, <2>2, <2>3, <2>4, <2>5, <2>6, <2>7, <2>8, <2>9 DEF ToolStep
  <1>13. CASE ModelStep
    <2>1. ASSUME UNCHANGED <<taskState, reason, policy, budget, checks, claim>>,
                 steps' \in Nat, pc' \in Pcs, attempt' \in 1..3
          PROVE  RestOK'
      BY <1>0, <2>1
    <2>2. ASSUME NEW state \in TaskTerminal, NEW n \in Nat,
                 SetState(state, "none", NoCall), pc' = "returned", steps' = n,
                 UNCHANGED <<policy, budget, checks, attempt, claim>>
          PROVE  RestOK'
      BY <1>0, <1>1, <1>2, <1>4, <1>7, <2>2
    <2>3. Report \in TaskTerminal
      BY DEF Report, CompletionState, TaskTerminal
    <2>4. CASE FinishVerified
      BY <1>0, <2>2, <2>4 DEF FinishVerified, Finish, TaskTerminal
    <2>5. CASE ContinueVerification
      <3>1. UNCHANGED <<policy, budget, steps, checks, attempt, claim>>
        BY <2>5 DEF ContinueVerification
      <3>2. \/ UNCHANGED <<taskState, reason>> /\ pc' = "loop"
            \/ SetState("CompletedUnverified", "none", NoCall) /\ pc' = "returned"
        BY <2>5 DEF ContinueVerification, Finish
      <3> QED
        BY <1>0, <1>2, <2>1, <2>2, <3>1, <3>2 DEF TaskTerminal
    <2>6. CASE PauseForSteps \/ PauseForContext
      <3>1. ASSUME NEW kind \in Reasons, Pause(kind), UNCHANGED claim PROVE RestOK'
        BY <1>0, <1>2, <1>4, <1>7, <3>1 DEF Pause, TaskWaiting
      <3> QED
        BY <1>1, <2>6, <3>1 DEF PauseForSteps, PauseForContext
    <2>7. CASE AskModel \/ OpenStream
      BY <1>0, <1>2, <2>1, <2>7 DEF AskModel, OpenStream
    <2>8. CASE StreamCancelled
      BY <1>9, <2>8 DEF StreamCancelled
    <2>9. CASE RetryStream
      BY <1>0, <1>2, <2>1, <2>9 DEF RetryStream, MayRetry, NextAttempt
    <2>10. ASSUME NEW calls \in Replies, Reply(calls) PROVE RestOK'
      <3>1. steps' = steps + 1 /\ UNCHANGED <<policy, budget, checks, attempt, claim>>
        BY <2>10 DEF Reply
      <3>2. \/ UNCHANGED <<taskState, reason>> /\ pc' = "loop"
            \/ SetState(Report, "none", NoCall) /\ pc' = "returned"
        BY <2>10 DEF Reply, Finish
      <3> QED
        BY <1>0, <1>2, <2>1, <2>2, <2>3, <3>1, <3>2
    <2>11. ASSUME NEW progress \in BOOLEAN, ProviderFails(progress) PROVE RestOK'
      <3>1. steps' \in Nat
        BY <1>0, <2>11 DEF ProviderFails
      <3> QED
        BY <2>2, <2>11, <3>1 DEF ProviderFails, TaskTerminal
    <2> QED
      BY <1>13, <2>4, <2>5, <2>6, <2>7, <2>8, <2>9, <2>10, <2>11 DEF ModelStep
  <1>14. CASE User \/ UNCHANGED vars
    BY <1>0, <1>14 DEF User, RequestCancel, TakeOver
  <1> QED
    BY <1>10, <1>11, <1>12, <1>13, <1>14 DEF Next, Drive, Over

\* The variables keep the types declared for them, whatever commands, replies,
\* faults and interruptions come.
THEOREM TypeCorrect == Spec => []TypeOK
  <1>1. TypeOK /\ [Next]_vars => TypeOK'
    <2> SUFFICES ASSUME TypeOK, [Next]_vars PROVE TypeOK'
      OBVIOUS
    <2>1. FlagsOK' /\ QueueOK' /\ RestOK'
      BY FlagsStep, QueueStep, RestStep
    <2> QED
      BY <2>1 DEF TypeOK, FlagsOK, QueueOK, RestOK
  <1> QED
    BY InitType, <1>1, PTL DEF Spec

----------------------------------------------------------------------------
(* What one step may do to the calls of the queue *)

Consented(r) ==
  /\ r.decision \in Approving
  /\ r.tool \in ApprovalTools => r.decision # "PolicyAuto"

\* One call before and after a step: it moves along an edge of ToolAllows, its
\* decision is only made where it is cleared or refused, and it is cleared only
\* with consent.
ItemStep(r, s) ==
  /\ s.tool = r.tool
  /\ s.state = r.state \/ ToolAllows(r.state, s.state)
  /\ s.decision = r.decision \/ s.state \in {"Approved", "Denied"}
  /\ s.state = "Approved" =>
       Consented(s) \/ (r.state = "Approved" /\ s.decision = r.decision)

\* The whole queue: no call is lost, and calls arrive undecided or refused.
ItemsStep ==
  /\ DOMAIN invocations \subseteq DOMAIN invocations'
  /\ \A i \in DOMAIN invocations : ItemStep(invocations[i], invocations'[i])
  /\ \A i \in DOMAIN invocations' \ DOMAIN invocations :
       invocations'[i].state \in {"Proposed", "Failed", "Denied"}

\* A queue that stays as it is takes only allowed edges.
LEMMA SameItems ==
  ASSUME invocations' = invocations
  PROVE  ItemsStep
  BY DEF ItemsStep, ItemStep

\* Calls moved together along one edge.
LEMMA MoveItems ==
  ASSUME QueueOK, NEW S, NEW state, state # "Approved",
         \A i \in S \cap DOMAIN invocations : ToolAllows(invocations[i].state, state),
         invocations' = Move(S, state) \/ invocations' = Close(S, state)
  PROVE  ItemsStep
  <1>1. DOMAIN invocations' = DOMAIN invocations
    BY DEF Move, Close
  <1>2. ASSUME NEW i \in DOMAIN invocations PROVE ItemStep(invocations[i], invocations'[i])
    <2>1. invocations[i] \in Invocations
      BY ElementType DEF QueueOK
    <2>2. CASE i \in S
      <3>1. /\ invocations'[i].tool = invocations[i].tool
            /\ invocations'[i].state = state
            /\ invocations'[i].decision = invocations[i].decision
        BY <2>1, <2>2 DEF Move, Close, Invocations
      <3> QED
        BY <2>2, <3>1 DEF ItemStep
    <2>3. CASE i \notin S
      BY <2>3 DEF ItemStep, Move, Close
    <2> QED
      BY <2>2, <2>3
  <1> QED
    BY <1>1, <1>2 DEF ItemsStep

\* A single call decided, asked for or refused.
LEMMA OneItem ==
  ASSUME NEW i \in DOMAIN invocations, DOMAIN invocations' = DOMAIN invocations,
         \A j \in DOMAIN invocations : j # i => invocations'[j] = invocations[j],
         ItemStep(invocations[i], invocations'[i])
  PROVE  ItemsStep
  BY DEF ItemsStep, ItemStep

\* The user's decision takes an allowed edge.
LEMMA ResolveItems ==
  ASSUME QueueOK, NEW i \in DOMAIN invocations, NEW approved \in BOOLEAN,
         ResolveApproval(i, approved)
  PROVE  ItemsStep
  <1>1. invocations[i] \in Invocations /\ invocations[i].state = "AwaitingApproval"
    BY ElementType DEF QueueOK, ResolveApproval, InState
  <1>2. /\ DOMAIN invocations' = DOMAIN invocations
        /\ \A j \in DOMAIN invocations : j # i => invocations'[j] = invocations[j]
    BY DEF ResolveApproval
  <1>3. /\ invocations'[i].tool = invocations[i].tool
        /\ \/ invocations'[i].state = "Approved" /\ invocations'[i].decision = "User"
           \/ invocations'[i].state = "Denied"
    BY <1>1 DEF ResolveApproval, Invocations
  <1>4. ItemStep(invocations[i], invocations'[i])
    BY <1>1, <1>3 DEF ItemStep, Consented, Approving, ToolAllows, ToolEdges
  <1> QED
    BY <1>2, <1>4, OneItem

\* So does the refusal by a hook.
LEMMA HookItems ==
  ASSUME QueueOK, NEW i \in DOMAIN invocations, RejectByHook(i)
  PROVE  ItemsStep
  <1>1. invocations[i] \in Invocations /\ invocations[i].state = "Proposed"
    BY ElementType DEF QueueOK, RejectByHook, Undecided, InState
  <1>2. /\ DOMAIN invocations' = DOMAIN invocations
        /\ \A j \in DOMAIN invocations : j # i => invocations'[j] = invocations[j]
    BY DEF RejectByHook, Close
  <1>3. /\ invocations'[i].tool = invocations[i].tool
        /\ invocations'[i].state = "Failed"
        /\ invocations'[i].decision = invocations[i].decision
    BY <1>1 DEF RejectByHook, Close, Invocations
  <1>4. ItemStep(invocations[i], invocations'[i])
    BY <1>1, <1>3 DEF ItemStep, ToolAllows, ToolEdges
  <1> QED
    BY <1>2, <1>4, OneItem

\* So does the approval by the policy.
LEMMA PolicyItems ==
  ASSUME TypeOK, NEW i \in DOMAIN invocations, AskApproval(i) \/ ApproveByPolicy(i)
  PROVE  ItemsStep
  <1>1. invocations[i] \in Invocations /\ invocations[i].state = "Proposed"
    BY ElementType DEF TypeOK, AskApproval, ApproveByPolicy, Undecided, InState
  <1>2. /\ DOMAIN invocations' = DOMAIN invocations
        /\ \A j \in DOMAIN invocations : j # i => invocations'[j] = invocations[j]
    BY DEF AskApproval, ApproveByPolicy
  <1>3. CASE AskApproval(i)
    <2>1. /\ invocations'[i].tool = invocations[i].tool
          /\ invocations'[i].state = "AwaitingApproval"
          /\ invocations'[i].decision = invocations[i].decision
      BY <1>1, <1>3 DEF AskApproval, Invocations
    <2>2. ItemStep(invocations[i], invocations'[i])
      BY <1>1, <2>1 DEF ItemStep, ToolAllows, ToolEdges
    <2> QED
      BY <1>2, <2>2, OneItem
  <1>4. CASE ApproveByPolicy(i)
    <2>1. /\ invocations'[i].tool = invocations[i].tool
          /\ invocations'[i].state = "Approved"
          /\ invocations'[i].decision =
               IF invocations[i].tool \in ApprovalTools THEN "Yolo" ELSE "PolicyAuto"
      BY <1>1, <1>4 DEF ApproveByPolicy, Invocations
    <2>2. ItemStep(invocations[i], invocations'[i])
      BY <1>1, <2>1 DEF ItemStep, ToolAllows, ToolEdges, Consented, Approving
    <2> QED
      BY <1>2, <2>2, OneItem
  <1> QED
    BY <1>3, <1>4

\* So does a review of a change set.
LEMMA ReviewItems ==
  ASSUME QueueOK, NEW outcome \in {"applied", "conflict", "unknown"}, ReviewChange(outcome)
  PROVE  ItemsStep
  <1> DEFINE S == InState({"AwaitingChangeReview"})
  <1>1. \A i \in S : /\ ToolAllows(invocations[i].state, "Succeeded")
                     /\ ToolAllows(invocations[i].state, "Unknown")
    BY DEF InState, ToolAllows, ToolEdges
  <1>2. CASE outcome = "applied"
    <2>1. invocations' = Close(S, "Succeeded")
      BY <1>2 DEF ReviewChange
    <2> QED
      BY <1>1, <2>1, MoveItems
  <1>3. CASE outcome = "conflict"
    BY <1>3, SameItems DEF ReviewChange
  <1>4. CASE outcome = "unknown"
    <2>1. /\ DOMAIN invocations' = DOMAIN invocations
          /\ \A i \in DOMAIN invocations :
               invocations'[i] =
                 [Move(S, "Unknown")[i] EXCEPT
                    !.result = @ \/ (i \notin Unfinished \ S
                                      /\ Unanswered(i))]
      BY <1>4 DEF ReviewChange
    <2>2. ASSUME NEW i \in DOMAIN invocations
          PROVE  ItemStep(invocations[i], invocations'[i])
      <3>1. invocations[i] \in Invocations
        BY ElementType DEF QueueOK
      <3>2. /\ invocations'[i].tool = invocations[i].tool
            /\ invocations'[i].state = IF i \in S THEN "Unknown" ELSE invocations[i].state
            /\ invocations'[i].decision = invocations[i].decision
        BY <2>1, <3>1 DEF Move, Invocations
      <3> QED
        BY <1>1, <3>2 DEF ItemStep
    <2> QED
      BY <2>1, <2>2 DEF ItemsStep
  <1> QED
    BY <1>2, <1>3, <1>4

\* So does a cancellation.
LEMMA CancelItems ==
  ASSUME QueueOK, CancelTask
  PROVE  ItemsStep
  <1>1. PICK confirmed \in BOOLEAN : invocations' = CancelledQueue(confirmed)
    BY DEF CancelTask
  <1>2. DOMAIN invocations' = DOMAIN invocations
    BY <1>1 DEF CancelledQueue
  <1>3. ASSUME NEW i \in DOMAIN invocations PROVE ItemStep(invocations[i], invocations'[i])
    <2>1. invocations[i] \in Invocations
      BY ElementType DEF QueueOK
    <2>2. /\ invocations'[i].tool = invocations[i].tool
          /\ invocations'[i].decision = invocations[i].decision
          /\ \/ /\ invocations[i].state \in NotRun
                /\ invocations'[i].state = "Cancelled"
             \/ invocations[i].state = "Running" /\ invocations'[i].state = "Unknown"
             \/ invocations'[i].state = invocations[i].state
      BY <1>1, <2>1 DEF CancelledQueue, Invocations, NotRun
    <2> QED
      BY <2>2 DEF ItemStep, ToolAllows, ToolEdges, NotRun
  <1> QED
    BY <1>2, <1>3 DEF ItemsStep

\* So does the end of a tool.
LEMMA ToolItems ==
  ASSUME QueueOK,
         \/ \E i \in DOMAIN invocations : Execute(i) \/ Respin(i)
         \/ \E exit \in ExitCodes : ToolCompletes(exit)
         \/ ToolFails \/ ProposeChange
         \/ \E outcome \in {"applied", "conflict", "unknown", "error"} : AcceptChange(outcome)
  PROVE  ItemsStep
  <1>1. /\ \A i \in InState({"Approved"}) : ToolAllows(invocations[i].state, "Running")
        /\ \A i \in InState({"Running"}) :
             \A state \in {"Succeeded", "Failed", "AwaitingChangeReview"} :
               ToolAllows(invocations[i].state, state)
        /\ \A i \in InState({"AwaitingChangeReview"}) :
             \A state \in {"Succeeded", "Failed", "Unknown"} :
               ToolAllows(invocations[i].state, state)
    BY DEF InState, ToolAllows, ToolEdges
  <1>2. ASSUME NEW i \in DOMAIN invocations, Execute(i) PROVE ItemsStep
    <2>1. /\ invocations' = Move(StartsWith(i), "Running")
          /\ StartsWith(i) \subseteq InState({"Approved"})
      BY <1>2 DEF Execute, StartsWith
    <2> QED
      BY <1>1, <2>1, MoveItems
  <1>3. ASSUME NEW i \in DOMAIN invocations, Respin(i) PROVE ItemsStep
    BY <1>3, SameItems DEF Respin
  <1>4. ASSUME NEW exit \in ExitCodes, ToolCompletes(exit) PROVE ItemsStep
    BY <1>1, <1>4, MoveItems DEF ToolCompletes
  <1>5. CASE ToolFails
    BY <1>1, <1>5, MoveItems DEF ToolFails
  <1>6. CASE ProposeChange
    BY <1>1, <1>6, MoveItems DEF ProposeChange
  <1>7. ASSUME NEW outcome \in {"applied", "conflict", "unknown", "error"},
               AcceptChange(outcome)
        PROVE  ItemsStep
    <2> DEFINE S == InState({"AwaitingChangeReview"})
    <2>1. \/ invocations' = Close(S, "Succeeded")
          \/ invocations' = Close(S, "Failed")
          \/ invocations' = Move(S, "Unknown")
          \/ invocations' = invocations
      BY <1>7 DEF AcceptChange
    <2> QED
      BY <1>1, <2>1, MoveItems, SameItems
  <1> QED
    BY <1>2, <1>3, <1>4, <1>5, <1>6, <1>7

\* Calls that arrive leave the earlier ones as they were.
LEMMA EnqueueItems ==
  ASSUME QueueOK, NEW T, NEW calls \in Seq(T), NEW criterion, Enqueue(calls, criterion)
  PROVE  ItemsStep
  <1> DEFINE new == Enqueued(calls, criterion)
  <1>1. invocations' = invocations \o new
    BY DEF Enqueue
  <1>2. DOMAIN new = DOMAIN calls
        /\ \A k \in DOMAIN new : new[k].state \in {"Proposed", "Failed", "Denied"}
    BY DEF Enqueued
  <1> DEFINE U == {new[k] : k \in DOMAIN calls}
  <1>3. new \in Seq(U) /\ Len(new) = Len(calls)
    <2>1. new \in [DOMAIN calls -> U]
      BY DEF Enqueued
    <2> QED
      BY <2>1, MapType
  <1> HIDE DEF new, U
  <1>4. /\ invocations \in Seq(Invocations) /\ new \in Seq(U)
        /\ Len(invocations) \in Nat /\ Len(new) \in Nat
        /\ DOMAIN invocations = 1..Len(invocations) /\ DOMAIN new = 1..Len(new)
    BY <1>3 DEF QueueOK
  <1>5. DOMAIN invocations' = 1..(Len(invocations) + Len(new))
    BY <1>1, <1>4
  <1>6. \A i \in DOMAIN invocations : invocations'[i] = invocations[i]
    BY <1>1, <1>4
  <1>7. ASSUME NEW i \in DOMAIN invocations' \ DOMAIN invocations
        PROVE  invocations'[i].state \in {"Proposed", "Failed", "Denied"}
    <2>1. i - Len(invocations) \in DOMAIN new
      BY <1>4, <1>5
    <2>2. invocations'[i] = new[i - Len(invocations)]
      BY <1>1, <1>4, <1>5
    <2> QED
      BY <1>2, <2>1, <2>2
  <1>8. DOMAIN invocations \subseteq DOMAIN invocations'
    BY <1>4, <1>5
  <1> QED
    BY <1>6, <1>7, <1>8 DEF ItemsStep, ItemStep

\* Every step of the specification is such a step of the queue.
LEMMA ItemsNext == TypeOK /\ [Next]_vars => ItemsStep
  <1> SUFFICES ASSUME TypeOK, [Next]_vars PROVE ItemsStep
    OBVIOUS
  <1>0. QueueOK
    BY TypeParts
  <1>1. ASSUME UNCHANGED queueVars PROVE ItemsStep
    BY <1>1, SameItems
  <1>2. CASE Command
    <2>1. CASE Start \/ WaitForUser \/ ContinueAfterUser \/ HandBack
      BY <1>1, <2>1 DEF Start, WaitForUser, ContinueAfterUser, HandBack
    <2>2. CASE Cancel
      BY <1>0, <2>2, CancelItems DEF Cancel
    <2>3. ASSUME NEW c \in CriterionIds, NEW status \in AcceptanceStatuses,
                 RecordAcceptance(c, status)
          PROVE  ItemsStep
      BY <1>1, <2>3 DEF RecordAcceptance
    <2>4. ASSUME NEW b \in BudgetValues, IncreaseBudgets(b) PROVE ItemsStep
      BY <1>1, <2>4 DEF IncreaseBudgets
    <2>5. ASSUME NEW p \in Policies, SetApprovalPolicy(p) PROVE ItemsStep
      BY <1>1, <2>5 DEF SetApprovalPolicy
    <2> QED
      BY <1>0, <1>2, <2>1, <2>2, <2>3, <2>4, <2>5, ResolveItems, ReviewItems DEF Command
  <1>3. CASE TopOfLoop
    <2>1. CASE StopOnCancel
      BY <1>0, <2>1, CancelItems DEF StopOnCancel
    <2> QED
      BY <1>1, <1>3, <2>1 DEF TopOfLoop, StopOnJournalFailure, PauseForTakeOver,
        PauseForBudget, Pause, EnterIteration
  <1>4. CASE ToolStep
    BY <1>0, <1>4, HookItems, PolicyItems, ToolItems DEF ToolStep
  <1>5. CASE ModelStep
    <2>1. ASSUME NEW k \in DOMAIN Criteria, ScheduleCheck(k) PROVE ItemsStep
      <3>1. PICK verdict \in {"valid", "notAllowed"} :
              Enqueue(<<AcceptanceCall(k, verdict)>>, Criteria[k].id)
        BY <2>1 DEF ScheduleCheck
      <3>2. <<AcceptanceCall(k, verdict)>> \in Seq({AcceptanceCall(k, verdict)})
        OBVIOUS
      <3> QED
        BY <1>0, <3>1, <3>2, EnqueueItems
    <2>2. CASE StreamCancelled
      BY <1>0, <2>2, CancelItems DEF StreamCancelled
    <2>3. ASSUME NEW calls \in Replies, Reply(calls) PROVE ItemsStep
      <3>1. calls \in Seq(ProposedCalls)
        BY RepliesAssumption
      <3>2. \/ Enqueue(calls, NoCriterion)
            \/ \E k \in DOMAIN Criteria : ScheduleCheck(k)
            \/ UNCHANGED queueVars
        BY <2>3 DEF Reply
      <3> QED
        BY <1>0, <1>1, <2>1, <3>1, <3>2, EnqueueItems
    <2>4. CASE ContinueVerification
      BY <1>1, <2>1, <2>4 DEF ContinueVerification
    <2>5. CASE FinishVerified \/ PauseForSteps \/ PauseForContext \/ AskModel \/ OpenStream
               \/ RetryStream
      BY <2>5, SameItems DEF FinishVerified, PauseForSteps, PauseForContext, Pause, AskModel,
        OpenStream, RetryStream
    <2>6. ASSUME NEW progress \in BOOLEAN, ProviderFails(progress) PROVE ItemsStep
      BY <1>1, <2>6 DEF ProviderFails
    <2> QED
      BY <1>5, <2>2, <2>3, <2>4, <2>5, <2>6 DEF ModelStep
  <1>6. CASE User \/ UNCHANGED vars
    BY <1>1, <1>6 DEF User, RequestCancel, TakeOver
  <1> QED
    BY <1>2, <1>3, <1>4, <1>5, <1>6 DEF Next, Drive, Over

----------------------------------------------------------------------------
(* Consent and the edges of a call *)

\* A call that needs consent is cleared, started or succeeded only with it.
THEOREM ConsentIsKept == Spec => []ApprovalGate
  <1>1. Init => ApprovalGate
    BY DEF Init, ApprovalGate, InState
  <1>2. TypeOK /\ ApprovalGate /\ [Next]_vars => ApprovalGate'
    <2> SUFFICES ASSUME TypeOK, ApprovalGate, [Next]_vars,
                        NEW i \in DOMAIN invocations',
                        invocations'[i].state
                          \in {"Approved", "Running", "AwaitingChangeReview", "Succeeded"}
                 PROVE  Consented(invocations'[i])
      BY DEF ApprovalGate, InState, Consented
    <2>1. ItemsStep
      BY ItemsNext
    <2>2. i \in DOMAIN invocations /\ ItemStep(invocations[i], invocations'[i])
      BY <2>1 DEF ItemsStep
    <2> DEFINE r == invocations[i]
               s == invocations'[i]
    <2>3. r.state \in {"Approved", "Running", "AwaitingChangeReview", "Succeeded"}
            => Consented(r)
      BY <2>2 DEF ApprovalGate, InState, Consented
    <2>4. CASE s.state = "Approved"
      BY <2>2, <2>3, <2>4 DEF ItemStep, Consented
    <2>5. CASE s.state # "Approved"
      <3>1. s.decision = r.decision /\ s.tool = r.tool
        BY <2>2, <2>5 DEF ItemStep
      <3>2. r.state \in {"Approved", "Running", "AwaitingChangeReview", "Succeeded"}
        BY <2>2, <2>5 DEF ItemStep, ToolAllows, ToolEdges
      <3> QED
        BY <2>3, <3>1, <3>2 DEF Consented
    <2> QED
      BY <2>4, <2>5
  <1> QED
    BY <1>1, <1>2, TypeCorrect, PTL DEF Spec

\* The runtime never asks a call for a transition ToolState::allows refuses.
THEOREM ToolEdgesAreKept == Spec => ToolEdgesRespected
  <1>1. TypeOK /\ [Next]_vars =>
          [\A i \in DOMAIN invocations :
             \/ invocations'[i].state = invocations[i].state
             \/ ToolAllows(invocations[i].state, invocations'[i].state)]_vars
    BY ItemsNext DEF ItemsStep, ItemStep
  <1> QED
    BY <1>1, TypeCorrect, PTL DEF Spec, ToolEdgesRespected

----------------------------------------------------------------------------
(* The states of the task *)

\* While a command is in progress the task is Running.
DriveRuns == pc # "returned" => taskState = "Running"

\* What one step may do to the task: nothing, settle where it stands, resume
\* where it waits, or leave Running from inside a command.
TaskStep ==
  \/ UNCHANGED taskState
  \/ taskState \notin TaskTerminal /\ taskState' \in {"Cancelled", "Unknown"}
  \/ taskState \in TaskWaiting \cup {"Idle"} /\ taskState' = "Running"
  \/ /\ taskState = "Running"
     /\ taskState' \in TaskWaiting \cup {"CompletedVerified", "CompletedUnverified", "Failed"}

\* Every step takes the task along an edge of TaskState::allows.
LEMMA TaskNext ==
  ASSUME TypeOK, DriveRuns, [Next]_vars
  PROVE  TaskStep /\ DriveRuns'
  <1> USE DEF TaskStep, DriveRuns
  <1>0. /\ "Running" \notin TaskTerminal /\ "Idle" \notin TaskTerminal
        /\ TaskWaiting \cap TaskTerminal = {}
        /\ {"WaitingUser", "WaitingApproval", "WaitingChangeReview"} \subseteq TaskWaiting
    BY DEF TaskTerminal, TaskWaiting
  <1>1. ASSUME CancelTask, taskState \notin TaskTerminal PROVE TaskStep /\ DriveRuns'
    BY <1>1 DEF CancelTask, SetState
  <1>2. CASE Command
    <2>1. CASE Start \/ WaitForUser \/ ContinueAfterUser \/ HandBack
      BY <1>0, <2>1 DEF Start, WaitForUser, ContinueAfterUser, HandBack, Resume, SetState
    <2>2. CASE Cancel
      BY <1>1, <2>2 DEF Cancel, NotOver
    <2>3. ASSUME NEW c \in CriterionIds, NEW status \in AcceptanceStatuses,
                 RecordAcceptance(c, status)
          PROVE  TaskStep /\ DriveRuns'
      BY <2>3 DEF RecordAcceptance
    <2>4. ASSUME NEW b \in BudgetValues, IncreaseBudgets(b) PROVE TaskStep /\ DriveRuns'
      BY <1>0, <2>4 DEF IncreaseBudgets, AwaitsUser, Resume, SetState
    <2>5. ASSUME NEW p \in Policies, SetApprovalPolicy(p) PROVE TaskStep /\ DriveRuns'
      BY <2>5 DEF SetApprovalPolicy
    <2>6. ASSUME NEW i \in DOMAIN invocations, NEW approved \in BOOLEAN,
                 ResolveApproval(i, approved)
          PROVE  TaskStep /\ DriveRuns'
      BY <1>0, <2>6 DEF ResolveApproval, Resume, SetState
    <2>7. ASSUME NEW outcome \in {"applied", "conflict", "unknown"}, ReviewChange(outcome)
          PROVE  TaskStep /\ DriveRuns'
      BY <1>0, <2>7 DEF ReviewChange, Resume, SetState
    <2> QED
      BY <1>2, <2>1, <2>2, <2>3, <2>4, <2>5, <2>6, <2>7 DEF Command
  <1>3. CASE TopOfLoop
    BY <1>0, <1>1, <1>3 DEF TopOfLoop, StopOnJournalFailure, StopOnCancel, PauseForTakeOver,
      PauseForBudget, Pause, EnterIteration, SetState
  <1>4. CASE ToolStep
    <2>1. ASSUME NEW i \in DOMAIN invocations,
                 RejectByHook(i) \/ ApproveByPolicy(i) \/ Respin(i) \/ Execute(i)
          PROVE  TaskStep /\ DriveRuns'
      BY <2>1 DEF RejectByHook, ApproveByPolicy, Respin, Execute
    <2>2. ASSUME NEW i \in DOMAIN invocations, AskApproval(i) PROVE TaskStep /\ DriveRuns'
      BY <1>0, <2>2 DEF AskApproval, SetState
    <2>3. ASSUME NEW exit \in ExitCodes, ToolCompletes(exit) PROVE TaskStep /\ DriveRuns'
      BY <2>3 DEF ToolCompletes
    <2>4. CASE ToolFails
      BY <2>4 DEF ToolFails
    <2>5. CASE ProposeChange
      BY <1>0, <2>5 DEF ProposeChange, SetState
    <2>6. ASSUME NEW outcome \in {"applied", "conflict", "unknown", "error"},
                 AcceptChange(outcome)
          PROVE  TaskStep /\ DriveRuns'
      BY <1>0, <2>6 DEF AcceptChange, SetState
    <2> QED
      BY <1>4, <2>1, <2>2, <2>3, <2>4, <2>5, <2>6 DEF ToolStep
  <1>5. CASE ModelStep
    <2>1. Report \in {"CompletedVerified", "CompletedUnverified", "Failed"}
      BY DEF Report, CompletionState
    <2>2. CASE FinishVerified \/ ContinueVerification
      BY <2>2 DEF FinishVerified, ContinueVerification, Idling, Finish, SetState
    <2>3. CASE PauseForSteps \/ PauseForContext
      BY <1>0, <2>3 DEF PauseForSteps, PauseForContext, AskingModel, Idling, Pause, SetState
    <2>4. CASE AskModel \/ OpenStream \/ RetryStream
      BY <2>4 DEF AskModel, AskingModel, Idling, OpenStream, RetryStream
    <2>5. CASE StreamCancelled
      BY <1>0, <1>1, <2>5 DEF StreamCancelled
    <2>6. ASSUME NEW calls \in Replies, Reply(calls) PROVE TaskStep /\ DriveRuns'
      BY <2>1, <2>6 DEF Reply, Finish, SetState
    <2>7. ASSUME NEW progress \in BOOLEAN, ProviderFails(progress)
          PROVE  TaskStep /\ DriveRuns'
      BY <2>7 DEF ProviderFails, SetState
    <2> QED
      BY <1>5, <2>2, <2>3, <2>4, <2>5, <2>6, <2>7 DEF ModelStep
  <1>6. CASE User \/ UNCHANGED vars
    BY <1>6 DEF User, RequestCancel, TakeOver
  <1> QED
    BY <1>2, <1>3, <1>4, <1>5, <1>6 DEF Next, Drive, Over

\* No command is in progress on a task that waits or is over.
THEOREM DriveRunsAlways == Spec => []DriveRuns
  <1>1. Init => DriveRuns
    BY DEF Init, DriveRuns
  <1>2. TypeOK /\ DriveRuns /\ [Next]_vars => DriveRuns'
    BY TaskNext
  <1> QED
    BY <1>1, <1>2, TypeCorrect, PTL DEF Spec

\* The task moves along the edges TaskState::allows declares, although
\* set_state never consults it.
THEOREM TaskEdgesAreKept == Spec => TaskEdgesRespected
  <1>1. TypeOK /\ DriveRuns /\ [Next]_vars =>
          [\/ TaskAllows(taskState, taskState')
           \/ /\ TaskAllows(taskState, "Cancelling")
              /\ taskState' \in {"Cancelled", "Unknown"}]_vars
    <2> SUFFICES ASSUME TypeOK, TaskStep
                 PROVE  \/ TaskAllows(taskState, taskState')
                        \/ /\ TaskAllows(taskState, "Cancelling")
                           /\ taskState' \in {"Cancelled", "Unknown"}
      BY TaskNext
    <2> QED
      BY DEF TypeOK, TaskStep, TaskAllows, TaskSuccessors, TaskStates, TaskTerminal,
        TaskWaiting
  <1> QED
    BY <1>1, TypeCorrect, DriveRunsAlways, PTL DEF Spec, TaskEdgesRespected

\* A finished task and its queue stay as they finished.
THEOREM TerminalStays == Spec => TerminalIsFinal
  <1>1. TypeOK /\ DriveRuns /\ [Next]_vars =>
          [(taskState \in TaskTerminal) =>
             (taskState' = taskState /\ invocations' = invocations)]_vars
    <2> SUFFICES ASSUME TypeOK, DriveRuns, Next, taskState \in TaskTerminal
                 PROVE  taskState' = taskState /\ invocations' = invocations
      OBVIOUS
    <2>1. pc = "returned" /\ taskState \notin TaskWaiting \cup {"Idle", "Running"}
      BY DEF DriveRuns, TaskTerminal, TaskWaiting
    <2>2. CASE Command
      BY <2>1, <2>2 DEF Command, Start, WaitForUser, ContinueAfterUser, HandBack, Cancel,
        NotOver, ResolveApproval, ReviewChange, RecordAcceptance, IncreaseBudgets,
        AwaitsUser, SetApprovalPolicy, TaskWaiting
    <2>3. CASE TopOfLoop
      BY <2>1, <2>3 DEF TopOfLoop, StopOnJournalFailure, StopOnCancel, PauseForTakeOver,
        PauseForBudget, EnterIteration
    <2>4. CASE ToolStep
      BY <2>1, <2>4 DEF ToolStep, RejectByHook, AskApproval, ApproveByPolicy, Execute,
        Respin, ToolCompletes, ToolFails, ProposeChange, AcceptChange
    <2>5. CASE ModelStep
      BY <2>1, <2>5 DEF ModelStep, FinishVerified, ContinueVerification, Idling,
        PauseForSteps, PauseForContext, AskModel, AskingModel, OpenStream,
        StreamCancelled, RetryStream, Reply, ProviderFails
    <2>6. CASE User
      BY <2>6 DEF User, RequestCancel, TakeOver
    <2> QED
      BY <2>2, <2>3, <2>4, <2>5, <2>6 DEF Next, Drive, Over
  <1> QED
    BY <1>1, TypeCorrect, DriveRunsAlways, PTL DEF Spec, TerminalIsFinal

============================================================================
