-------------------------- MODULE TaskQueueProofs --------------------------
(***************************************************************************)
(* The order in which TaskRuntime takes the calls of its queue, what a     *)
(* finished task leaves behind, and the refinement of ToolGate: theorems   *)
(* for every value of the constants.                                       *)
(***************************************************************************)
EXTENDS TaskRuntimeProofs, WellFoundedInduction

USE DEF vars, taskVars, queueVars, loopVars

----------------------------------------------------------------------------
(* The least index *)

\* A nonempty set of positions has a least one: the loops over the queue that
\* stop at the first match find it.
LEMMA Least ==
  ASSUME NEW n \in Nat, NEW S, S \subseteq 1..n, S # {}
  PROVE  \E m \in S : \A k \in S : m <= k
  <1> DEFINE below == {1..k : k \in S}
  <1>1. IsWellFoundedOn(StrictSubsetOrdering(1..n), SUBSET (1..n))
    <2>1. IsFiniteSet(1..n)
      BY FS_Interval
    <2>2. FiniteSubsetsOf(1..n) = SUBSET (1..n)
      BY <2>1, FS_FiniteSubsetsOfFinite, Zenon
    <2> QED
      BY <2>2, FS_StrictSubsetOrderingWellFounded, Zenon
  <1>2. below \in SUBSET (SUBSET (1..n)) /\ below # {}
    <2>1. ASSUME NEW k \in S PROVE 1..k \subseteq 1..n
      BY <2>1
    <2>2. below \subseteq SUBSET (1..n)
      BY <2>1
    <2>3. PICK k \in S : TRUE
      OBVIOUS
    <2>4. 1..k \in below
      OBVIOUS
    <2> QED
      BY <2>2, <2>4
  <1>3. PICK least \in below :
          \A other \in below : ~(<<other, least>> \in StrictSubsetOrdering(1..n))
    BY <1>1, <1>2, WFMin
  <1>4. PICK m \in S : least = 1..m
    BY <1>3
  <1>5. ASSUME NEW k \in S PROVE m <= k
    <2>1. 1..k \in below
      BY <1>5
    <2>2. ~(1..k \subseteq 1..m /\ 1..k # 1..m)
      BY <1>2, <1>3, <1>4, <2>1 DEF StrictSubsetOrdering
    <2>3. k \in Nat /\ m \in Nat
      OBVIOUS
    <2>4. ASSUME k < m PROVE 1..k \subseteq 1..m /\ 1..k # 1..m
      <3>1. m \in 1..m /\ m \notin 1..k
        BY <2>3, <2>4
      <3> QED
        BY <2>3, <2>4, <3>1
    <2> QED
      BY <2>2, <2>3, <2>4
  <1> QED
    BY <1>5

----------------------------------------------------------------------------
(* What each action does to the queue *)

\* Exactly the calls in S, all of them in state `from', go to state `to'; the
\* answers are kept, and a call that is closed gets its own.
Turns(S, from, to) ==
  /\ S \subseteq InState({from})
  /\ DOMAIN invocations' = DOMAIN invocations
  /\ \A i \in DOMAIN invocations :
       /\ invocations'[i].id = invocations[i].id
       /\ invocations'[i].tool = invocations[i].tool
       /\ invocations'[i].criterion = invocations[i].criterion
       /\ invocations'[i].state = IF i \in S THEN to ELSE invocations[i].state
       /\ i \notin S \/ to \notin {"Approved", "Denied"} =>
            invocations'[i].decision = invocations[i].decision
       /\ invocations[i].result => invocations'[i].result

\* A closed call has its result.
Answered(S) == \A i \in S : invocations'[i].result

\* The queue and its indices.
LEMMA QueueDomain ==
  ASSUME QueueOK
  PROVE  /\ Len(invocations) \in Nat /\ DOMAIN invocations = 1..Len(invocations)
         /\ \A i \in DOMAIN invocations : invocations[i] \in Invocations
  BY ElementType DEF QueueOK

\* transition_tool, alone and with the result.
LEMMA MoveTurns ==
  ASSUME QueueOK, NEW S, NEW from, NEW to, S \subseteq InState({from}),
         to \notin {"Approved", "Denied"}, invocations' = Move(S, to)
  PROVE  Turns(S, from, to)
  BY QueueDomain DEF Turns, Move, Invocations, InState

\* transition_tool with the result that answers the call.
LEMMA CloseTurns ==
  ASSUME QueueOK, NEW S, NEW from, NEW to, S \subseteq InState({from}),
         to \notin {"Approved", "Denied"}, invocations' = Close(S, to)
  PROVE  Turns(S, from, to) /\ Answered(S)
  BY QueueDomain DEF Turns, Answered, Close, Invocations, InState

\* The user's decision clears the asked call, or denies and answers it.
LEMMA ResolveTurns ==
  ASSUME QueueOK, NEW i \in DOMAIN invocations, NEW approved \in BOOLEAN,
         ResolveApproval(i, approved)
  PROVE  /\ Turns({i}, "AwaitingApproval", IF approved THEN "Approved" ELSE "Denied")
         /\ ~approved => Answered({i})
  BY QueueDomain DEF ResolveApproval, Turns, Answered, InState, Invocations

\* A hook that refuses a call fails and answers it.
LEMMA HookTurns ==
  ASSUME QueueOK, NEW i \in DOMAIN invocations, RejectByHook(i)
  PROVE  Turns({i}, "Proposed", "Failed") /\ Answered({i})
  BY QueueDomain DEF RejectByHook, Undecided, Turns, Answered, Close, InState, Invocations

\* A call that needs consent waits for it.
LEMMA AskTurns ==
  ASSUME QueueOK, NEW i \in DOMAIN invocations, AskApproval(i)
  PROVE  Turns({i}, "Proposed", "AwaitingApproval")
  BY QueueDomain DEF AskApproval, Undecided, Turns, InState, Invocations

\* The policy clears a call by itself.
LEMMA ApproveTurns ==
  ASSUME QueueOK, NEW i \in DOMAIN invocations, ApproveByPolicy(i)
  PROVE  Turns({i}, "Proposed", "Approved")
  BY QueueDomain DEF ApproveByPolicy, Undecided, Turns, InState, Invocations

\* The calls that start are cleared ones, the first of the queue among them.
LEMMA ExecuteTurns ==
  ASSUME QueueOK, NEW f \in DOMAIN invocations, Execute(f)
  PROVE  Turns(StartsWith(f), "Approved", "Running") /\ f \in StartsWith(f)
  <1>1. StartsWith(f) \subseteq InState({"Approved"}) /\ f \in StartsWith(f)
    BY QueueDomain DEF Execute, StartsWith, Batch, InState
  <1> QED
    BY <1>1, MoveTurns DEF Execute

\* A tool that completes closes and answers every call that runs.
LEMMA CompletesTurns ==
  ASSUME QueueOK, NEW exit, ToolCompletes(exit)
  PROVE  /\ Turns(InState({"Running"}), "Running", "Succeeded")
         /\ Answered(InState({"Running"}))
  BY CloseTurns DEF ToolCompletes

\* So does a tool that fails.
LEMMA FailsTurns ==
  ASSUME QueueOK, ToolFails
  PROVE  /\ Turns(InState({"Running"}), "Running", "Failed")
         /\ Answered(InState({"Running"}))
  BY CloseTurns DEF ToolFails

\* A proposed change set takes every call that runs to its review.
LEMMA ProposeTurns ==
  ASSUME QueueOK, ProposeChange
  PROVE  Turns(InState({"Running"}), "Running", "AwaitingChangeReview")
  BY MoveTurns DEF ProposeChange

\* A change set accepted, in conflict, unknown, or left as it is.
LEMMA AcceptTurns ==
  ASSUME QueueOK, NEW outcome \in {"applied", "conflict", "unknown", "error"},
         AcceptChange(outcome)
  PROVE  LET S == InState({"AwaitingChangeReview"})
         IN  \/ /\ \/ Turns(S, "AwaitingChangeReview", "Succeeded")
                   \/ Turns(S, "AwaitingChangeReview", "Failed")
                /\ Answered(S) /\ answered' = answered \cup IdsOf(S)
                /\ pc' = "loop" /\ UNCHANGED <<taskState, reason>>
             \/ /\ Turns(S, "AwaitingChangeReview", "Unknown") /\ UNCHANGED answered
                /\ taskState' = "Unknown" /\ pc' = "returned"
             \/ UNCHANGED <<taskState, reason, queueVars, persistFailed>> /\ pc' = "returned"
  <1> DEFINE S == InState({"AwaitingChangeReview"})
  <1>1. CASE outcome = "applied"
    BY <1>1, CloseTurns DEF AcceptChange
  <1>2. CASE outcome = "conflict"
    BY <1>2, CloseTurns DEF AcceptChange
  <1>3. CASE outcome = "unknown"
    <2>1. Turns(S, "AwaitingChangeReview", "Unknown")
      BY <1>3, MoveTurns DEF AcceptChange
    <2> QED
      BY <1>3, <2>1 DEF AcceptChange, SetState
  <1>4. CASE outcome = "error"
    BY <1>4 DEF AcceptChange
  <1> QED
    BY <1>1, <1>2, <1>3, <1>4

\* The user's review applies the change set, finds it in conflict, or loses it.
LEMMA ReviewTurns ==
  ASSUME QueueOK, NEW outcome \in {"applied", "conflict", "unknown"}, ReviewChange(outcome)
  PROVE  LET S == InState({"AwaitingChangeReview"})
         IN  \/ /\ Turns(S, "AwaitingChangeReview", "Succeeded")
                /\ Answered(S) /\ answered' = answered \cup IdsOf(S)
                /\ pc' = "loop" /\ taskState' = "Running"
             \/ /\ UNCHANGED <<queueVars, pc>>
                /\ taskState' = "WaitingChangeReview" /\ reason'.call = reason.call
             \/ /\ Turns(S, "AwaitingChangeReview", "Unknown")
                /\ Answered({i \in DOMAIN invocations \ (Unfinished \ S) : Unanswered(i)})
                /\ answered' = answered \cup IdsOf(DOMAIN invocations \ (Unfinished \ S))
                /\ taskState' = "Unknown" /\ pc' = "returned"
  <1> DEFINE S == InState({"AwaitingChangeReview"})
  <1>1. CASE outcome = "applied"
    BY <1>1, CloseTurns DEF ReviewChange, Resume, SetState
  <1>2. CASE outcome = "conflict"
    BY <1>2 DEF ReviewChange, SetState
  <1>3. CASE outcome = "unknown"
    <2> DEFINE moved == Move(S, "Unknown")
               closed(i) == i \notin Unfinished \ S /\ Unanswered(i)
    <2>1. /\ invocations' = [i \in DOMAIN invocations |->
                               [moved[i] EXCEPT !.result = @ \/ closed(i)]]
          /\ answered' = answered \cup IdsOf(DOMAIN invocations \ (Unfinished \ S))
          /\ taskState' = "Unknown" /\ pc' = "returned"
      BY <1>3 DEF ReviewChange, SetState
    <2>2. ASSUME NEW i \in DOMAIN invocations
          PROVE  /\ moved[i] \in Invocations
                 /\ moved[i].id = invocations[i].id
                 /\ moved[i].tool = invocations[i].tool
                 /\ moved[i].criterion = invocations[i].criterion
                 /\ moved[i].decision = invocations[i].decision
                 /\ moved[i].result = invocations[i].result
                 /\ moved[i].state = IF i \in S THEN "Unknown" ELSE invocations[i].state
      BY QueueDomain DEF Move, Invocations, ToolStates
    <2> HIDE DEF moved, closed
    <2>3. ASSUME NEW i \in DOMAIN invocations
          PROVE  /\ invocations'[i].id = moved[i].id
                 /\ invocations'[i].tool = moved[i].tool
                 /\ invocations'[i].criterion = moved[i].criterion
                 /\ invocations'[i].decision = moved[i].decision
                 /\ invocations'[i].state = moved[i].state
                 /\ invocations[i].result => invocations'[i].result
                 /\ closed(i) => invocations'[i].result
      <3> DEFINE result == moved[i].result \/ closed(i)
      <3>1. invocations'[i] = [moved[i] EXCEPT !.result = result]
        BY <2>1, <2>2 DEF Invocations
      <3> HIDE DEF result
      <3>2. /\ invocations'[i].id = moved[i].id
            /\ invocations'[i].tool = moved[i].tool
            /\ invocations'[i].criterion = moved[i].criterion
            /\ invocations'[i].decision = moved[i].decision
            /\ invocations'[i].state = moved[i].state
            /\ invocations'[i].result = result
        BY <2>2, <3>1 DEF Invocations
      <3>3. (invocations[i].result => result) /\ (closed(i) => result)
        BY <2>2, Zenon DEF result
      <3> QED
        BY <3>2, <3>3
    <2>4. Turns(S, "AwaitingChangeReview", "Unknown")
      BY <2>1, <2>2, <2>3 DEF Turns
    <2>5. Answered({i \in DOMAIN invocations \ (Unfinished \ S) : Unanswered(i)})
      BY <2>3 DEF Answered, closed
    <2> QED
      BY <2>1, <2>4, <2>5 DEF ReviewChange
  <1> QED
    BY <1>1, <1>2, <1>3

\* cancel(): what has not run is cancelled, what runs is left or becomes unknown,
\* and every closed call without an answer gets one.
LEMMA CancelTurns ==
  ASSUME QueueOK, CancelTask
  PROVE  /\ DOMAIN invocations' = DOMAIN invocations
         /\ \A i \in DOMAIN invocations :
              /\ invocations'[i].id = invocations[i].id
              /\ invocations'[i].tool = invocations[i].tool
              /\ invocations'[i].criterion = invocations[i].criterion
              /\ invocations'[i].decision = invocations[i].decision
              /\ invocations[i].state \in NotRun => invocations'[i].state = "Cancelled"
              /\ invocations[i].state = "Running" =>
                   invocations'[i].state \in {"Running", "Unknown"}
              /\ invocations[i].state \in ToolTerminal =>
                   invocations'[i].state = invocations[i].state
              /\ invocations[i].result => invocations'[i].result
              /\ invocations'[i].state \in ToolTerminal /\ Unanswered(i) =>
                   invocations'[i].result
         /\ answered' = answered \cup
              IdsOf({i \in DOMAIN invocations : invocations'[i].state \in ToolTerminal})
  <1>1. PICK confirmed \in BOOLEAN : invocations' = CancelledQueue(confirmed)
    BY DEF CancelTask
  <1>2. DOMAIN invocations' = DOMAIN invocations
    BY <1>1 DEF CancelledQueue
  <1>3. answered' = answered \cup
          IdsOf({i \in DOMAIN invocations : invocations'[i].state \in ToolTerminal})
    BY DEF CancelTask, IdsOf
  <1>4. ASSUME NEW i \in DOMAIN invocations
        PROVE  /\ invocations'[i].id = invocations[i].id
               /\ invocations'[i].tool = invocations[i].tool
               /\ invocations'[i].criterion = invocations[i].criterion
               /\ invocations'[i].decision = invocations[i].decision
               /\ invocations[i].state \in NotRun => invocations'[i].state = "Cancelled"
               /\ invocations[i].state = "Running" =>
                    invocations'[i].state \in {"Running", "Unknown"}
               /\ invocations[i].state \in ToolTerminal =>
                    invocations'[i].state = invocations[i].state
               /\ invocations[i].result => invocations'[i].result
               /\ invocations'[i].state \in ToolTerminal /\ Unanswered(i) =>
                    invocations'[i].result
    <2> DEFINE after == CASE invocations[i].state \in NotRun -> "Cancelled"
                          [] invocations[i].state = "Running" /\ ~confirmed -> "Unknown"
                          [] OTHER -> invocations[i].state
               result == \/ invocations[i].result
                         \/ (after \in ToolTerminal /\ Unanswered(i))
    <2>1. invocations[i] \in Invocations
      BY QueueDomain
    <2>2. invocations'[i] = [invocations[i] EXCEPT !.state = after, !.result = result]
      BY <1>1, <2>1 DEF CancelledQueue, Invocations
    <2>3. /\ invocations[i].state \in NotRun => after = "Cancelled"
          /\ invocations[i].state = "Running" => after \in {"Running", "Unknown"}
          /\ invocations[i].state \in ToolTerminal => after = invocations[i].state
      BY DEF NotRun, ToolTerminal
    <2>4. /\ invocations[i].result => result
          /\ after \in ToolTerminal /\ Unanswered(i) => result
      BY Zenon
    <2> HIDE DEF after, result
    <2>5. /\ invocations'[i].id = invocations[i].id
          /\ invocations'[i].tool = invocations[i].tool
          /\ invocations'[i].criterion = invocations[i].criterion
          /\ invocations'[i].decision = invocations[i].decision
          /\ invocations'[i].state = after
          /\ invocations'[i].result = result
      BY <2>1, <2>2 DEF Invocations
    <2> QED
      BY <2>3, <2>4, <2>5
  <1> QED
    BY <1>2, <1>3, <1>4

\* enqueue_calls: the queue grows at its end by calls that are undecided, or
\* refused and answered at once.
Arrived(i, calls, criterion) ==
  LET r == invocations'[i]
  IN  /\ i > Len(invocations) /\ i - Len(invocations) \in DOMAIN calls
      /\ r.tool = calls[i - Len(invocations)].tool
      /\ r.state \in {"Proposed", "Failed", "Denied"}
      /\ r.state = "Proposed" \/ r.result
      /\ r.decision \notin Approving
      /\ r.state = "Proposed" => r.decision = "None"
      /\ r.criterion \in {criterion, NoCriterion}

\* What enqueue_calls adds is described by Arrived.
LEMMA EnqueueArrives ==
  ASSUME QueueOK, NEW T, NEW calls \in Seq(T), NEW criterion, Enqueue(calls, criterion)
  PROVE  /\ DOMAIN invocations' = 1..(Len(invocations) + Len(calls))
         /\ Len(calls) \in Nat
         /\ \A i \in DOMAIN invocations :
              i \in DOMAIN invocations' /\ invocations'[i] = invocations[i]
         /\ \A i \in DOMAIN invocations' \ DOMAIN invocations : Arrived(i, calls, criterion)
         /\ \A id \in answered' :
              \/ id \in answered
              \/ \E i \in DOMAIN invocations' :
                   invocations'[i].id = id /\ invocations'[i].result
  <1> DEFINE new == Enqueued(calls, criterion)
  <1>1. /\ invocations' = invocations \o new
        /\ answered' = answered \cup {new[k].id : k \in {m \in DOMAIN new : new[m].result}}
    BY DEF Enqueue
  <1>2. DOMAIN new = DOMAIN calls
    BY DEF Enqueued
  <1>3. ASSUME NEW k \in DOMAIN calls
        PROVE  /\ new[k].tool = calls[k].tool
               /\ new[k].state \in {"Proposed", "Failed", "Denied"}
               /\ new[k].state = "Proposed" \/ new[k].result
               /\ new[k].decision \notin Approving
               /\ new[k].state = "Proposed" => new[k].decision = "None"
               /\ new[k].criterion \in {criterion, NoCriterion}
    BY DEF Enqueued, Approving
  <1> DEFINE U == {new[k] : k \in DOMAIN calls}
  <1>4. new \in Seq(U) /\ Len(new) = Len(calls)
    <2>1. new \in [DOMAIN calls -> U]
      BY DEF Enqueued
    <2> QED
      BY <2>1, MapType
  <1> HIDE DEF new, U
  <1>5. /\ Len(invocations) \in Nat /\ DOMAIN invocations = 1..Len(invocations)
        /\ Len(new) \in Nat /\ DOMAIN new = 1..Len(new)
    BY <1>4, QueueDomain
  <1>6. /\ DOMAIN invocations' = 1..(Len(invocations) + Len(calls))
        /\ \A i \in DOMAIN invocations : invocations'[i] = invocations[i]
        /\ \A i \in DOMAIN invocations' \ DOMAIN invocations :
             /\ i > Len(invocations) /\ i - Len(invocations) \in DOMAIN new
             /\ invocations'[i] = new[i - Len(invocations)]
        /\ \A k \in DOMAIN new : /\ Len(invocations) + k \in DOMAIN invocations'
                                 /\ invocations'[Len(invocations) + k] = new[k]
    <2>1. invocations \in Seq(Invocations) /\ new \in Seq(U)
      BY <1>4 DEF QueueOK
    <2>2. DOMAIN invocations' = 1..(Len(invocations) + Len(calls))
      <3>1. DOMAIN (invocations \o new) = 1..(Len(invocations) + Len(new))
        BY <1>5, <2>1
      <3> QED
        BY <1>1, <1>4, <3>1
    <2>3. \A i \in DOMAIN invocations : invocations'[i] = invocations[i]
      BY <1>1, <1>5, <2>1
    <2>4. ASSUME NEW i \in DOMAIN invocations' \ DOMAIN invocations
          PROVE  /\ i > Len(invocations) /\ i - Len(invocations) \in DOMAIN new
                 /\ invocations'[i] = new[i - Len(invocations)]
      BY <1>1, <1>4, <1>5, <2>1, <2>2
    <2>5. ASSUME NEW k \in DOMAIN new
          PROVE  /\ Len(invocations) + k \in DOMAIN invocations'
                 /\ invocations'[Len(invocations) + k] = new[k]
      BY <1>1, <1>4, <1>5, <2>1, <2>2
    <2> QED
      BY <2>2, <2>3, <2>4, <2>5
  <1>7. \A i \in DOMAIN invocations' \ DOMAIN invocations : Arrived(i, calls, criterion)
    BY <1>2, <1>3, <1>6 DEF Arrived
  <1>8. ASSUME NEW id \in answered', id \notin answered
        PROVE  \E i \in DOMAIN invocations' :
                 invocations'[i].id = id /\ invocations'[i].result
    <2>1. PICK k \in DOMAIN new : new[k].result /\ id = new[k].id
      BY <1>1, <1>8
    <2> QED
      BY <1>6, <2>1
  <1> QED
    BY <1>4, <1>5, <1>6, <1>7, <1>8

----------------------------------------------------------------------------
(* The order of the queue *)

\* The one approval that is asked for: the task waits for it, and no other call
\* of the queue does.
Asked ==
  LET asked == InState({"AwaitingApproval"})
  IN  /\ taskState = "WaitingApproval" => asked # {}
      /\ \A i \in asked :
           /\ pc = "returned" /\ taskState = "WaitingApproval"
           /\ reason.call = invocations[i].id /\ asked = {i}

\* The calls that start with call f are next to each other, up to calls that
\* are over: process_change_batch has decided every call between them.
LEMMA StartsTogether ==
  ASSUME QueueOK, QueueOrder, Asked, NEW f \in DOMAIN invocations, Execute(f),
         NEW i \in StartsWith(f), NEW j \in 1..(i - 1)
  PROVE  \/ invocations[j].state \in ToolTerminal
         \/ j \in StartsWith(f) /\ \A k \in j..i : invocations[k].tool = "write_file"
  <1> SUFFICES ASSUME invocations[j].state \notin ToolTerminal
               PROVE  /\ j \in StartsWith(f)
                      /\ \A k \in j..i : invocations[k].tool = "write_file"
    OBVIOUS
  <1>1. /\ Len(invocations) \in Nat /\ DOMAIN invocations = 1..Len(invocations)
        /\ invocations[j].state \in ToolStates
        /\ f \in InState({"Approved"}) /\ First(f)
        /\ i \in DOMAIN invocations /\ j \in DOMAIN invocations /\ j < i
    <2>1. i \in DOMAIN invocations
      BY QueueDomain DEF StartsWith, Batch
    <2>2. j \in DOMAIN invocations /\ j < i
      BY <2>1, QueueDomain
    <2>3. invocations[j].state \in ToolStates
      BY <2>2, QueueDomain DEF Invocations
    <2> QED
      BY <2>1, <2>2, <2>3, QueueDomain DEF Execute
  <1>2. f <= j
    BY <1>1 DEF First, Unfinished
  <1>3. /\ invocations[f].tool = "write_file" /\ i \in Batch(f)
        /\ StartsWith(f) = Batch(f) \cap InState({"Approved"})
    BY <1>1, <1>2 DEF StartsWith
  <1>4. \A k \in f..i : invocations[k].tool = "write_file"
    BY <1>3 DEF Batch
  <1>5. j \in Batch(f)
    <2>1. j \in f..Len(invocations) /\ invocations[j].state # "Failed"
      BY <1>1, <1>2 DEF ToolTerminal
    <2>2. \A k \in f..j : invocations[k].tool = "write_file"
      BY <1>1, <1>4
    <2> QED
      BY <2>1, <2>2 DEF Batch
  <1>6. invocations[j].state # "AwaitingApproval"
    BY <1>1 DEF Asked, InState, Execute
  <1>7. invocations[j].state \notin {"Running", "AwaitingChangeReview"}
    <2> SUFFICES ASSUME invocations[j].state \in {"Running", "AwaitingChangeReview"}
                 PROVE  FALSE
      OBVIOUS
    <2>1. invocations[f].state = "Approved"
      BY <1>1 DEF InState
    <2>2. f \in 1..(j - 1)
      BY <1>1, <1>2, <2>1
    <2>3. j \in InState({"Running", "AwaitingChangeReview", "Succeeded"})
      BY <1>1 DEF InState
    <2> QED
      BY <2>1, <2>2, <2>3 DEF QueueOrder, ToolTerminal
  <1>8. invocations[j].state # "Proposed"
    <2> DEFINE proposed == {k \in Batch(f) : invocations[k].state = "Proposed"}
    <2> SUFFICES ASSUME j \in proposed PROVE FALSE
      BY <1>5
    <2>1. proposed \subseteq 1..Len(invocations)
      BY <1>1 DEF Batch
    <2>2. PICK m \in proposed : \A k \in proposed : m <= k
      BY <1>1, <2>1, Least
    <2>3. m \in Nat /\ m \in DOMAIN invocations /\ \A k \in Batch(f) : k \in Nat
      BY <1>1, <2>1 DEF Batch
    <2>4. ASSUME NEW k \in Batch(f), k < m, invocations[k].state = "Proposed"
          PROVE  FALSE
      <3>1. m <= k
        BY <2>2, <2>4
      <3>2. m \in Int /\ k \in Int
        BY <2>3
      <3> HIDE DEF proposed
      <3> QED
        BY <2>4, <3>1, <3>2
    <2>5. Undecided(m)
      BY <1>1, <2>2, <2>3, <2>4 DEF Undecided, InState
    <2> QED
      BY <2>3, <2>5 DEF Execute
  <1>9. invocations[j].state = "Approved"
    BY <1>1, <1>6, <1>7, <1>8 DEF ToolStates, ToolTerminal
  <1> QED
    BY <1>1, <1>2, <1>3, <1>4, <1>5, <1>9 DEF InState

\* The turns that keep the order: of calls not yet started, to an end, of all
\* calls that run or are reviewed, and a start behind calls that are over.
LEMMA OrderTurns ==
  ASSUME QueueOK, QueueOrder, NEW S, NEW from \in ToolStates \ ToolTerminal, NEW to,
         Turns(S, from, to),
         \/ from \in {"Proposed", "AwaitingApproval"} /\ to \in {"AwaitingApproval", "Approved"}
         \/ to \in ToolTerminal \ {"Succeeded"}
         \/ /\ S = InState({from}) /\ from \in {"Running", "AwaitingChangeReview"}
            /\ \/ to = "Succeeded"
               \/ from = "Running" /\ to = "AwaitingChangeReview"
         \/ /\ to = "Running"
            /\ from = "Approved"
            /\ \A i \in S : \A j \in 1..(i - 1) :
                 \/ invocations[j].state \in ToolTerminal
                 \/ j \in S /\ \A k \in j..i : invocations[k].tool = "write_file"
  PROVE  QueueOrder'
  <1> SUFFICES ASSUME NEW i \in DOMAIN invocations',
                      invocations'[i].state
                        \in {"Running", "AwaitingChangeReview", "Succeeded"},
                      NEW j \in 1..(i - 1), invocations'[j].state \notin ToolTerminal
               PROVE  /\ \A k \in j..i : invocations'[k].tool = "write_file"
                      /\ invocations'[j].state = invocations'[i].state
    BY DEF QueueOrder, InState
  <1>1. /\ Len(invocations) \in Nat /\ DOMAIN invocations = 1..Len(invocations)
        /\ DOMAIN invocations' = 1..Len(invocations)
        /\ i \in DOMAIN invocations /\ j \in DOMAIN invocations /\ j < i
        /\ \A k \in j..i : invocations'[k].tool = invocations[k].tool
    BY QueueDomain DEF Turns
  <1>2. /\ invocations'[i].state = IF i \in S THEN to ELSE invocations[i].state
        /\ invocations'[j].state = IF j \in S THEN to ELSE invocations[j].state
        /\ i \in S => invocations[i].state = from
        /\ j \in S => invocations[j].state = from
    BY <1>1 DEF Turns, InState
  <1>3. invocations[j].state \notin ToolTerminal
    BY <1>2
  <1>4. invocations[i].state \in {"Running", "AwaitingChangeReview", "Succeeded"} =>
          /\ \A k \in j..i : invocations[k].tool = "write_file"
          /\ invocations[j].state = invocations[i].state
    BY <1>1, <1>3 DEF QueueOrder, InState
  <1>5. CASE i \in S /\ from = "Approved"
    BY <1>1, <1>2, <1>3, <1>5 DEF ToolTerminal
  <1>6. CASE i \in S /\ from # "Approved"
    <2>1. from \in {"Running", "AwaitingChangeReview"}
      BY <1>2, <1>6 DEF ToolTerminal
    <2>2. /\ \A k \in j..i : invocations[k].tool = "write_file"
          /\ invocations[j].state = from
      BY <1>2, <1>4, <1>6, <2>1
    <2>3. j \in S
      BY <1>1, <1>2, <1>6, <2>1, <2>2 DEF InState, ToolTerminal
    <2> QED
      BY <1>1, <1>2, <1>6, <2>2, <2>3
  <1>7. CASE i \notin S
    <2>1. j \notin S
      BY <1>1, <1>2, <1>4, <1>7 DEF InState, ToolTerminal
    <2> QED
      BY <1>1, <1>2, <1>4, <1>7, <2>1
  <1> QED
    BY <1>5, <1>6, <1>7

\* Calls that arrive do so at the end of a queue with nothing left to do.
Arrives(calls, criterion) ==
  /\ calls \in Seq(ProposedCalls) /\ calls # <<>>
  /\ criterion # NoCriterion => \A k \in DOMAIN calls : calls[k].tool = "run_command"
  /\ Enqueue(calls, criterion)
  /\ pc = "streaming" \/ Idling
  /\ pc' = "loop" /\ UNCHANGED <<taskState, reason, checks>>

\* cancel() where it is reached: by its command, or from drive.
Cancels ==
  CancelTask /\ taskState \notin TaskTerminal /\ pc \in {"returned", "loop", "streaming"}

\* The actions that change the queue.
QueueAction ==
  \/ Cancels
  \/ \E calls, criterion : Arrives(calls, criterion)
  \/ \E i \in DOMAIN invocations :
       \/ \E approved \in BOOLEAN : ResolveApproval(i, approved)
       \/ RejectByHook(i) \/ AskApproval(i) \/ ApproveByPolicy(i) \/ Execute(i)
  \/ \E exit \in ExitCodes : ToolCompletes(exit)
  \/ ToolFails \/ ProposeChange
  \/ \E outcome \in {"applied", "conflict", "unknown", "error"} : AcceptChange(outcome)
  \/ \E outcome \in {"applied", "conflict", "unknown"} : ReviewChange(outcome)

\* An acceptance check that is scheduled arrives as one call.
LEMMA ScheduleArrives ==
  ASSUME TypeOK, NEW k \in DOMAIN Criteria, ScheduleCheck(k),
         pc = "streaming" \/ Idling, pc' = "loop", UNCHANGED <<taskState, reason, checks>>
  PROVE  \E calls, criterion : Arrives(calls, criterion)
  <1>1. PICK verdict \in Verdicts : Enqueue(<<AcceptanceCall(k, verdict)>>, Criteria[k].id)
    BY DEF ScheduleCheck, Verdicts
  <1>2. Cardinality(ChecksOf(Criteria[k].id, checks)) + 1 \in Nat
    <2>1. Len(checks) \in Nat /\ ChecksOf(Criteria[k].id, checks) \subseteq 1..Len(checks)
      BY DEF ChecksOf, TypeOK
    <2>2. IsFiniteSet(1..Len(checks))
      BY <2>1, FS_Interval
    <2>3. IsFiniteSet(ChecksOf(Criteria[k].id, checks))
      BY <2>1, <2>2, FS_Subset
    <2> QED
      BY <2>3, FS_CardinalityType
  <1>3. AcceptanceCall(k, verdict) \in ProposedCalls
    BY <1>2 DEF AcceptanceCall, ProposedCalls, CallIds, CriterionIds, Tools
  <1>4. AcceptanceCall(k, verdict).tool = "run_command"
    BY DEF AcceptanceCall
  <1> DEFINE calls == <<AcceptanceCall(k, verdict)>>
  <1>5. calls \in Seq(ProposedCalls) /\ calls # <<>>
    BY <1>3
  <1>6. \A m \in DOMAIN calls : calls[m].tool = "run_command"
    BY <1>4
  <1> HIDE DEF calls
  <1>7. Arrives(calls, Criteria[k].id)
    BY <1>1, <1>5, <1>6 DEF Arrives, calls
  <1> QED
    BY <1>7

----------------------------------------------------------------------------
(* What each action does to the task, besides its queue *)

\* A journal that failed stays failed.
FailureKept == persistFailed => persistFailed'

\* The command goes on, or ends because the journal failed.
PcMoves ==
  \/ pc' = pc
  \/ pc = "loop" /\ persistFailed /\ pc' = "returned"
  \/ pc = "loop" /\ ~persistFailed /\ pc' = "dispatch"
  \/ pc = "dispatch" /\ pc' = "loop"
  \/ Idling /\ pc' = "request"
  \/ pc \in {"request", "streaming"} /\ pc' \in {"request", "streaming"}

\* Neither the task nor its queue changes; history may be compacted when the
\* model is asked, and a caller may record a check.
Stays ==
  /\ UNCHANGED <<invocations, taskState, reason>> /\ PcMoves
  /\ \/ answered' = answered
     \/ /\ Idling /\ \E k : answered' = IdsOf({i \in DOMAIN invocations : i > k})
        /\ taskState = "Running"
  /\ \/ checks' = checks
     \/ \E c \in CriterionIds : \E check \in Checks : checks' = Append(checks, check)

Resumes ==
  /\ UNCHANGED <<queueVars, checks>>
  /\ taskState \in {"Idle", "WaitingUser"} /\ taskState' = "Running"
  /\ pc = "returned" /\ pc' = "loop"

Waits ==
  /\ UNCHANGED <<queueVars, checks>>
  /\ taskState = "Running" /\ taskState' = "WaitingUser"
  /\ pc \in {"returned", "loop", "dispatch"}
  /\ pc' = "returned"

\* The task is over with nothing left in its queue.
Finishes ==
  /\ UNCHANGED <<queueVars, checks>>
  /\ pc = "streaming" \/ Idling
  /\ taskState = "Running"
  /\ taskState' \in {"CompletedVerified", "CompletedUnverified", "Failed"}
  /\ taskState' = "CompletedVerified" => Report = "CompletedVerified" /\ turnFinished'
  /\ pc' = "returned"

\* No step repairs the journal.
LEMMA FailureIsKept ==
  ASSUME TypeOK, [Next]_vars
  PROVE  FailureKept
  <1> USE DEF FailureKept, Emit, Resume, Pause, Finish, CancelTask, Enqueue
  <1>1. CASE Command
    BY <1>1 DEF Command, Start, WaitForUser, ContinueAfterUser, HandBack, Cancel,
      ResolveApproval, ReviewChange, RecordAcceptance, IncreaseBudgets, SetApprovalPolicy
  <1>2. CASE TopOfLoop
    BY <1>2 DEF TopOfLoop, StopOnJournalFailure, StopOnCancel, PauseForTakeOver,
      PauseForBudget, EnterIteration
  <1>3. CASE ToolStep
    BY <1>3 DEF ToolStep, RejectByHook, AskApproval, ApproveByPolicy, Execute, Respin,
      ToolCompletes, ToolFails, ProposeChange, AcceptChange
  <1>4. CASE ModelStep
    BY <1>4 DEF ModelStep, FinishVerified, ContinueVerification, ScheduleCheck,
      PauseForSteps, PauseForContext, AskModel, OpenStream, StreamCancelled, Reply,
      RetryStream, ProviderFails
  <1>5. CASE User \/ UNCHANGED vars
    BY <1>5 DEF User, RequestCancel, TakeOver
  <1> QED
    BY <1>1, <1>2, <1>3, <1>4, <1>5 DEF Next, Drive, Over

\* Every step leaves the queue alone in one of four ways, or is a queue action.
LEMMA Kinds ==
  ASSUME TypeOK, DriveRuns, [Next]_vars
  PROVE  Stays \/ Resumes \/ Waits \/ Finishes \/ QueueAction
  <1> USE DEF DriveRuns
  <1>1. CASE Command
    <2>1. CASE Start \/ ContinueAfterUser \/ HandBack
      BY <2>1 DEF Resumes, Start, ContinueAfterUser, HandBack, Resume, SetState
    <2>2. CASE WaitForUser
      BY <2>2 DEF Waits, WaitForUser, SetState
    <2>3. CASE Cancel
      BY <2>3 DEF Cancel, NotOver, QueueAction, Cancels
    <2>4. ASSUME NEW c \in CriterionIds, NEW status \in AcceptanceStatuses,
                 RecordAcceptance(c, status)
          PROVE  Stays
      <3>1. [criterion |-> c, status |-> status, exit |-> "unknown"] \in Checks
        BY DEF Checks, ExitCodes
      <3> QED
        BY <2>4, <3>1 DEF RecordAcceptance, Stays, PcMoves
    <2>5. ASSUME NEW b \in BudgetValues, IncreaseBudgets(b) PROVE Stays \/ Resumes
      BY <2>5 DEF IncreaseBudgets, AwaitsUser, Stays, PcMoves, Resumes, Resume, SetState
    <2>6. ASSUME NEW p \in Policies, SetApprovalPolicy(p) PROVE Stays
      BY <2>6 DEF SetApprovalPolicy, Stays, PcMoves
    <2>7. ASSUME NEW i \in DOMAIN invocations, NEW approved \in BOOLEAN,
                 ResolveApproval(i, approved)
          PROVE  QueueAction
      BY <2>7 DEF QueueAction
    <2>8. ASSUME NEW outcome \in {"applied", "conflict", "unknown"}, ReviewChange(outcome)
          PROVE  QueueAction
      BY <2>8 DEF QueueAction
    <2> QED
      BY <1>1, <2>1, <2>2, <2>3, <2>4, <2>5, <2>6, <2>7, <2>8 DEF Command
  <1>2. CASE TopOfLoop
    <2>1. CASE StopOnJournalFailure \/ EnterIteration
      BY <2>1 DEF StopOnJournalFailure, EnterIteration, Stays, PcMoves
    <2>2. CASE StopOnCancel
      BY <2>2 DEF StopOnCancel, QueueAction, Cancels, TaskTerminal
    <2>3. CASE PauseForTakeOver \/ PauseForBudget
      BY <2>3 DEF PauseForTakeOver, PauseForBudget, Pause, SetState, Waits
    <2> QED
      BY <1>2, <2>1, <2>2, <2>3 DEF TopOfLoop
  <1>3. CASE ToolStep
    <2>1. ASSUME NEW i \in DOMAIN invocations, Respin(i) PROVE Stays
      BY <2>1 DEF Respin, Stays, PcMoves
    <2> QED
      BY <1>3, <2>1 DEF ToolStep, QueueAction
  <1>4. CASE ModelStep
    <2>1. Report \in {"CompletedVerified", "CompletedUnverified", "Failed"}
      BY DEF Report, CompletionState
    <2>2. CASE FinishVerified
      BY <2>2 DEF FinishVerified, Idling, Finish, SetState, Finishes
    <2>3. CASE ContinueVerification
      <3>1. CASE pc' = "loop"
        BY <2>3, <3>1, ScheduleArrives DEF ContinueVerification, QueueAction, Finish
      <3>2. CASE pc' # "loop"
        BY <2>3, <3>2 DEF ContinueVerification, Idling, Finish, SetState, Finishes
      <3> QED
        BY <3>1, <3>2
    <2>4. CASE PauseForSteps \/ PauseForContext
      BY <2>4 DEF PauseForSteps, PauseForContext, AskingModel, Idling, Pause, SetState, Waits
    <2>5. CASE AskModel
      BY <2>5 DEF AskModel, AskingModel, Idling, Stays, PcMoves
    <2>6. CASE OpenStream \/ RetryStream
      BY <2>6 DEF OpenStream, RetryStream, Stays, PcMoves
    <2>7. CASE StreamCancelled
      BY <2>7 DEF StreamCancelled, QueueAction, Cancels, TaskTerminal
    <2>8. ASSUME NEW calls \in Replies, Reply(calls) PROVE Finishes \/ QueueAction
      <3>1. CASE calls # <<>>
        <4>1. Arrives(calls, NoCriterion)
          BY <2>8, <3>1, RepliesAssumption DEF Reply, Arrives
        <4> QED
          BY <4>1 DEF QueueAction
      <3>2. CASE calls = <<>> /\ pc' = "loop"
        BY <2>8, <3>2, ScheduleArrives DEF Reply, QueueAction, Finish
      <3>3. CASE calls = <<>> /\ pc' # "loop"
        BY <2>1, <2>8, <3>3 DEF Reply, Finish, SetState, Finishes
      <3> QED
        BY <3>1, <3>2, <3>3
    <2>9. ASSUME NEW progress \in BOOLEAN, ProviderFails(progress) PROVE Finishes
      BY <2>9 DEF ProviderFails, SetState, Finishes
    <2> QED
      BY <1>4, <2>2, <2>3, <2>4, <2>5, <2>6, <2>7, <2>8, <2>9 DEF ModelStep
  <1>5. CASE User \/ UNCHANGED vars
    BY <1>5 DEF User, RequestCancel, TakeOver, Stays, PcMoves
  <1> QED
    BY <1>1, <1>2, <1>3, <1>4, <1>5 DEF Next, Drive, Over

\* No step starts a call ahead of an open one.
LEMMA OrderNext ==
  ASSUME TypeOK, DriveRuns, QueueOrder, Asked, [Next]_vars
  PROVE  QueueOrder'
  <1>0. QueueOK
    BY TypeParts
  <1>1. {"Proposed", "AwaitingApproval", "Approved", "Running", "AwaitingChangeReview"}
          \subseteq ToolStates \ ToolTerminal
        /\ {"Failed", "Denied", "Unknown"} \subseteq ToolTerminal \ {"Succeeded"}
    BY DEF ToolStates, ToolTerminal
  <1>2. CASE invocations' = invocations
    BY <1>2 DEF QueueOrder, InState
  <1>3. CASE Cancels
    <2> SUFFICES ASSUME NEW i \in DOMAIN invocations',
                        invocations'[i].state
                          \in {"Running", "AwaitingChangeReview", "Succeeded"},
                        NEW j \in 1..(i - 1), invocations'[j].state \notin ToolTerminal
                 PROVE  /\ \A k \in j..i : invocations'[k].tool = "write_file"
                        /\ invocations'[j].state = invocations'[i].state
      BY DEF QueueOrder, InState
    <2>1. /\ Len(invocations) \in Nat /\ DOMAIN invocations = 1..Len(invocations)
          /\ i \in DOMAIN invocations /\ j \in DOMAIN invocations /\ j < i
          /\ j..i \subseteq DOMAIN invocations
          /\ invocations[i].state \in ToolStates /\ invocations[j].state \in ToolStates
      BY <1>0, <1>3, CancelTurns, QueueDomain DEF Cancels, Invocations
    <2>2. invocations[i].state \in {"Running", "Succeeded"}
          /\ invocations'[i].state = invocations[i].state
      BY <1>0, <1>3, <2>1, CancelTurns DEF Cancels, NotRun, ToolStates, ToolTerminal
    <2>3. invocations[j].state = "Running" /\ invocations'[j].state = "Running"
      BY <1>0, <1>3, <2>1, CancelTurns DEF Cancels, NotRun, ToolStates, ToolTerminal
    <2>4. /\ \A k \in j..i : invocations[k].tool = "write_file"
          /\ invocations[j].state = invocations[i].state
      BY <2>1, <2>2, <2>3 DEF QueueOrder, InState, ToolTerminal
    <2> QED
      BY <1>0, <1>3, <2>1, <2>2, <2>3, <2>4, CancelTurns DEF Cancels
  <1>4. ASSUME NEW calls, NEW criterion, Arrives(calls, criterion) PROVE QueueOrder'
    <2> SUFFICES ASSUME NEW i \in DOMAIN invocations',
                        invocations'[i].state
                          \in {"Running", "AwaitingChangeReview", "Succeeded"},
                        NEW j \in 1..(i - 1), invocations'[j].state \notin ToolTerminal
                 PROVE  /\ \A k \in j..i : invocations'[k].tool = "write_file"
                        /\ invocations'[j].state = invocations'[i].state
      BY DEF QueueOrder, InState
    <2>1. calls \in Seq(ProposedCalls) /\ Enqueue(calls, criterion)
      BY <1>4 DEF Arrives
    <2>2. i \in DOMAIN invocations
      BY <1>0, <2>1, EnqueueArrives DEF Arrived
    <2>3. \A k \in 1..i : k \in DOMAIN invocations /\ invocations'[k] = invocations[k]
      BY <1>0, <2>1, <2>2, EnqueueArrives, QueueDomain
    <2>4. /\ j \in 1..i /\ i \in 1..i /\ \A k \in j..i : k \in 1..i
      BY <1>0, <2>2, QueueDomain
    <2> QED
      BY <2>2, <2>3, <2>4 DEF QueueOrder, InState
  <1>5. ASSUME NEW i \in DOMAIN invocations, NEW approved \in BOOLEAN,
               ResolveApproval(i, approved)
        PROVE  QueueOrder'
    <2>1. \/ Turns({i}, "AwaitingApproval", "Approved")
          \/ Turns({i}, "AwaitingApproval", "Denied")
      BY <1>0, <1>5, ResolveTurns
    <2> QED
      BY <1>0, <1>1, <2>1, OrderTurns
  <1>6. ASSUME NEW i \in DOMAIN invocations,
               RejectByHook(i) \/ AskApproval(i) \/ ApproveByPolicy(i)
        PROVE  QueueOrder'
    <2>1. \/ Turns({i}, "Proposed", "Failed")
          \/ Turns({i}, "Proposed", "AwaitingApproval")
          \/ Turns({i}, "Proposed", "Approved")
      BY <1>0, <1>6, HookTurns, AskTurns, ApproveTurns
    <2> QED
      BY <1>0, <1>1, <2>1, OrderTurns
  <1>7. ASSUME NEW f \in DOMAIN invocations, Execute(f) PROVE QueueOrder'
    <2>1. Turns(StartsWith(f), "Approved", "Running")
      BY <1>0, <1>7, ExecuteTurns
    <2>2. \A i \in StartsWith(f) : \A j \in 1..(i - 1) :
            \/ invocations[j].state \in ToolTerminal
            \/ /\ j \in StartsWith(f)
               /\ \A k \in j..i : invocations[k].tool = "write_file"
      BY <1>0, <1>7, StartsTogether
    <2> QED
      BY <1>0, <1>1, <2>1, <2>2, OrderTurns
  <1>8. ASSUME \/ \E exit \in ExitCodes : ToolCompletes(exit)
               \/ ToolFails \/ ProposeChange
        PROVE  QueueOrder'
    <2> DEFINE S == InState({"Running"})
    <2>1. \/ Turns(S, "Running", "Succeeded") \/ Turns(S, "Running", "Failed")
          \/ Turns(S, "Running", "AwaitingChangeReview")
      BY <1>0, <1>8, CompletesTurns, FailsTurns, ProposeTurns
    <2> QED
      BY <1>0, <1>1, <2>1, OrderTurns
  <1>9. ASSUME \/ \E outcome \in {"applied", "conflict", "unknown", "error"} :
                    AcceptChange(outcome)
               \/ \E outcome \in {"applied", "conflict", "unknown"} : ReviewChange(outcome)
        PROVE  QueueOrder'
    <2> DEFINE S == InState({"AwaitingChangeReview"})
    <2>1. \/ Turns(S, "AwaitingChangeReview", "Succeeded")
          \/ Turns(S, "AwaitingChangeReview", "Failed")
          \/ Turns(S, "AwaitingChangeReview", "Unknown")
          \/ invocations' = invocations
      BY <1>0, <1>9, AcceptTurns, ReviewTurns
    <2> QED
      BY <1>0, <1>1, <1>2, <2>1, OrderTurns
  <1> QED
    BY <1>2, <1>3, <1>4, <1>5, <1>6, <1>7, <1>8, <1>9, Kinds
    DEF QueueAction, Stays, Resumes, Waits, Finishes

----------------------------------------------------------------------------
(* The steps that change the queue, by what they do *)

\* The decision on the one call that is asked about.
Resolves(i) ==
  /\ pc = "returned" /\ taskState = "WaitingApproval"
  /\ \/ Turns({i}, "AwaitingApproval", "Approved") /\ answered' = answered
     \/ /\ Turns({i}, "AwaitingApproval", "Denied") /\ Answered({i})
        /\ answered' = answered \cup IdsOf({i})
  /\ pc' = "loop" /\ taskState' = "Running" /\ checks' = checks

\* A call is refused by a hook, or approved without asking.
Decides(i) ==
  /\ pc = "dispatch" /\ Undecided(i)
  /\ \/ /\ Turns({i}, "Proposed", "Failed") /\ Answered({i})
        /\ answered' = answered \cup IdsOf({i})
     \/ Turns({i}, "Proposed", "Approved") /\ answered' = answered
  /\ pc' \in {"dispatch", "loop"} /\ UNCHANGED <<taskState, reason, checks>>

Asks(i) ==
  /\ pc = "dispatch" /\ Undecided(i)
  /\ Turns({i}, "Proposed", "AwaitingApproval") /\ answered' = answered
  /\ pc' = "returned" /\ taskState' = "WaitingApproval"
  /\ reason'.call = invocations[i].id /\ checks' = checks

Starts(f) ==
  /\ Execute(f)
  /\ Turns(StartsWith(f), "Approved", "Running") /\ f \in StartsWith(f)
  /\ pc' = (IF persistFailed' THEN "returned" ELSE "executing")
  /\ UNCHANGED <<answered, taskState, reason, checks>>

\* The tool of the calls that run succeeds or fails.
Ends(to) ==
  LET S == InState({"Running"})
  IN  /\ pc = "executing" /\ to \in {"Succeeded", "Failed"}
      /\ Turns(S, "Running", to) /\ Answered(S) /\ answered' = answered \cup IdsOf(S)
      /\ pc' = "loop" /\ UNCHANGED <<taskState, reason>>
      /\ \E exit \in ExitCodes, fallback \in AcceptanceStatuses :
           RecordOutput(S, exit, fallback)

\* A change set is proposed, to the user or to Yolo.
Proposes ==
  LET S == InState({"Running"})
  IN  /\ pc = "executing"
      /\ Turns(S, "Running", "AwaitingChangeReview") /\ answered' = answered
      /\ \A i \in S : invocations[i].tool = "write_file"
      /\ checks' = checks
      /\ \/ /\ "Yolo" \in Policies /\ UNCHANGED <<taskState, reason>>
            /\ pc' = IF persistFailed' THEN "returned" ELSE "accepting"
         \/ /\ pc' = "returned" /\ taskState' = "WaitingChangeReview"
            /\ \E i \in S : reason'.call = invocations[i].id

\* A change set is written, or cannot be.
Accepts(to) ==
  LET S == InState({"AwaitingChangeReview"})
  IN  /\ \/ pc = "accepting" /\ taskState' = taskState
         \/ pc = "returned" /\ taskState = "WaitingChangeReview" /\ taskState' = "Running"
      /\ to \in {"Succeeded", "Failed"}
      /\ Turns(S, "AwaitingChangeReview", to) /\ Answered(S)
      /\ answered' = answered \cup IdsOf(S)
      /\ pc' = "loop" /\ checks' = checks

\* Or nobody knows: the task is over, and only a review by the user answers calls.
Loses ==
  LET S == InState({"AwaitingChangeReview"})
  IN  /\ \/ pc = "accepting" /\ answered' = answered
         \/ /\ pc = "returned" /\ taskState = "WaitingChangeReview"
            /\ answered' = answered \cup IdsOf(DOMAIN invocations \ (Unfinished \ S))
            /\ Answered({i \in DOMAIN invocations \ (Unfinished \ S) : Unanswered(i)})
      /\ S # {}
      /\ Turns(S, "AwaitingChangeReview", "Unknown")
      /\ pc' = "returned" /\ taskState' = "Unknown" /\ checks' = checks

\* Or the change set stays where it is: for another review, or for nobody.
Leaves ==
  /\ UNCHANGED <<invocations, answered, checks>> /\ pc' = "returned"
  /\ taskState' = taskState /\ reason'.call = reason.call
  /\ pc = "accepting" \/ (pc = "returned" /\ taskState = "WaitingChangeReview")
  /\ InState({"AwaitingChangeReview"}) # {}

\* A change set is reviewed by the user the task asks, or was accepted by Yolo
\* in vain; it consists of write_file calls.
Reviewed ==
  /\ pc = "accepting" => InState({"AwaitingChangeReview"}) # {} /\ "Yolo" \in Policies
  /\ taskState = "WaitingChangeReview" =>
       \E i \in InState({"AwaitingChangeReview"}) : reason.call = invocations[i].id
  /\ \A i \in InState({"AwaitingChangeReview"}) :
       /\ invocations[i].tool = "write_file"
       /\ \/ taskState = "WaitingChangeReview"
          \/ "Yolo" \in Policies /\ taskState \in {"Running", "WaitingUser"}

\* Every step that changes the queue is one of these.
Changes ==
  \/ Cancels
  \/ \E calls, criterion : Arrives(calls, criterion)
  \/ \E i \in DOMAIN invocations : Resolves(i) \/ Decides(i) \/ Asks(i) \/ Starts(i)
  \/ Proposes \/ Loses \/ Leaves
  \/ \E to \in {"Succeeded", "Failed"} : Ends(to) \/ Accepts(to)

\* Every queue action does what one of the kinds of change says.
LEMMA ChangeKinds ==
  ASSUME TypeOK, DriveRuns, Reviewed, QueueAction
  PROVE  Changes
  <1>0. QueueOK
    BY TypeParts
  <1>1. ASSUME NEW i \in DOMAIN invocations, NEW approved \in BOOLEAN,
               ResolveApproval(i, approved)
        PROVE  Resolves(i)
    BY <1>0, <1>1, ResolveTurns DEF ResolveApproval, Resume, SetState, Resolves
  <1>2. ASSUME NEW i \in DOMAIN invocations, RejectByHook(i) PROVE Decides(i)
    BY <1>0, <1>2, HookTurns DEF RejectByHook, Decides
  <1>3. ASSUME NEW i \in DOMAIN invocations, AskApproval(i) PROVE Asks(i)
    BY <1>0, <1>3, AskTurns DEF AskApproval, SetState, Asks
  <1>4. ASSUME NEW i \in DOMAIN invocations, ApproveByPolicy(i) PROVE Decides(i)
    BY <1>0, <1>4, ApproveTurns DEF ApproveByPolicy, Decides
  <1>5. ASSUME NEW i \in DOMAIN invocations, Execute(i) PROVE Starts(i)
    BY <1>0, <1>5, ExecuteTurns DEF Execute, Starts
  <1>6. ASSUME NEW exit \in ExitCodes, ToolCompletes(exit) PROVE Ends("Succeeded")
    BY <1>0, <1>6, CompletesTurns DEF ToolCompletes, Ends, AcceptanceStatuses
  <1>7. ASSUME ToolFails PROVE Ends("Failed")
    BY <1>0, <1>7, FailsTurns DEF ToolFails, Ends, AcceptanceStatuses, ExitCodes
  <1>8. ASSUME ProposeChange PROVE Proposes
    <2>1. policy \in Policies
      BY DEF TypeOK
    <2> QED
      BY <1>0, <1>8, <2>1, ProposeTurns DEF ProposeChange, SetState, Proposes
  <1>9. ASSUME NEW outcome \in {"applied", "conflict", "unknown", "error"},
               AcceptChange(outcome)
        PROVE  Accepts("Succeeded") \/ Accepts("Failed") \/ Loses \/ Leaves
    <2>1. pc = "accepting" /\ checks' = checks
      BY <1>9 DEF AcceptChange
    <2>2. InState({"AwaitingChangeReview"}) # {}
      BY <2>1 DEF Reviewed
    <2> DEFINE S == InState({"AwaitingChangeReview"})
    <2>3. \/ /\ \/ Turns(S, "AwaitingChangeReview", "Succeeded")
                \/ Turns(S, "AwaitingChangeReview", "Failed")
             /\ Answered(S) /\ answered' = answered \cup IdsOf(S)
             /\ pc' = "loop" /\ UNCHANGED <<taskState, reason>>
          \/ /\ Turns(S, "AwaitingChangeReview", "Unknown") /\ UNCHANGED answered
             /\ taskState' = "Unknown" /\ pc' = "returned"
          \/ UNCHANGED <<taskState, reason, queueVars, persistFailed>> /\ pc' = "returned"
      BY <1>0, <1>9, AcceptTurns
    <2>4. CASE pc' = "loop"
      BY <2>1, <2>3, <2>4 DEF Accepts
    <2>5. CASE UNCHANGED <<taskState, reason, queueVars, persistFailed>> /\ pc' = "returned"
      BY <2>1, <2>2, <2>5 DEF Leaves
    <2>6. CASE Turns(S, "AwaitingChangeReview", "Unknown") /\ UNCHANGED answered
               /\ taskState' = "Unknown" /\ pc' = "returned"
      BY <2>1, <2>2, <2>6 DEF Loses
    <2> QED
      BY <2>3, <2>4, <2>5, <2>6
  <1>10. ASSUME NEW outcome \in {"applied", "conflict", "unknown"}, ReviewChange(outcome)
         PROVE  Accepts("Succeeded") \/ Loses \/ Leaves
    <2>1. /\ pc = "returned" /\ taskState = "WaitingChangeReview" /\ checks' = checks
          /\ InState({"AwaitingChangeReview"}) # {}
      BY <1>10 DEF ReviewChange
    <2> QED
      BY <1>0, <1>10, <2>1, ReviewTurns DEF Accepts, Loses, Leaves
  <1> QED
    BY <1>1, <1>2, <1>3, <1>4, <1>5, <1>6, <1>7, <1>8, <1>9, <1>10 DEF QueueAction, Changes

----------------------------------------------------------------------------
(* Where a command stands and what its queue holds *)

\* Calls run while their tool does, or after the journal failed to record that.
Started ==
  /\ pc = "executing" => InState({"Running"}) # {}
  /\ InState({"Running"}) # {} =>
       pc = "executing" \/ (persistFailed /\ pc \in {"returned", "loop"})

\* The model is asked only when nothing is left in the queue.
Emptied == pc \in {"request", "streaming"} => Unfinished = {}

\* The whole invariant of this part.
Placed ==
  Asked /\ Started /\ Reviewed /\ Emptied /\ QueueOrder /\ NeverAbandoned

\* The states of the calls after each kind of step.
LEMMA CancelStates ==
  ASSUME QueueOK, CancelTask
  PROVE  /\ InState({"AwaitingApproval"})' = {}
         /\ InState({"AwaitingChangeReview"})' = {}
         /\ InState({"Running"})' \subseteq InState({"Running"})
  <1>1. \A i \in DOMAIN invocations : invocations[i].state \in ToolStates
    BY QueueDomain DEF Invocations
  <1>2. /\ ToolStates = NotRun \cup ToolTerminal \cup {"Running"}
        /\ {"AwaitingApproval", "AwaitingChangeReview", "Running"} \cap ToolTerminal = {}
        /\ {"AwaitingApproval", "AwaitingChangeReview"} \subseteq NotRun
        /\ "Running" \notin NotRun /\ "Cancelled" \in ToolTerminal
    BY DEF ToolStates, NotRun, ToolTerminal
  <1>3. \A i \in DOMAIN invocations :
          /\ invocations'[i].state \notin {"AwaitingApproval", "AwaitingChangeReview"}
          /\ invocations'[i].state = "Running" => invocations[i].state = "Running"
    BY <1>1, <1>2, CancelTurns
  <1>4. DOMAIN invocations' = DOMAIN invocations
    BY CancelTurns
  <1> QED
    BY <1>3, <1>4 DEF InState

\* Calls that arrive neither await, run nor are reviewed.
LEMMA ArrivesStates ==
  ASSUME QueueOK, NEW calls, NEW criterion, Arrives(calls, criterion)
  PROVE  /\ InState({"AwaitingApproval"})' = InState({"AwaitingApproval"})
         /\ InState({"AwaitingChangeReview"})' = InState({"AwaitingChangeReview"})
         /\ InState({"Running"})' = InState({"Running"})
         /\ \A i \in DOMAIN invocations : invocations'[i] = invocations[i]
  <1>1. calls \in Seq(ProposedCalls) /\ Enqueue(calls, criterion)
    BY DEF Arrives
  <1>2. /\ \A i \in DOMAIN invocations :
             i \in DOMAIN invocations' /\ invocations'[i] = invocations[i]
        /\ \A i \in DOMAIN invocations' \ DOMAIN invocations :
             invocations'[i].state \in {"Proposed", "Failed", "Denied"}
    BY <1>1, EnqueueArrives DEF Arrived
  <1> QED
    BY <1>2 DEF InState

\* No call awaits approval unless the task does, for that one call.
LEMMA AskedNext ==
  ASSUME TypeOK, DriveRuns, Reviewed, Asked, [Next]_vars
  PROVE  Asked'
  <1> DEFINE asked == InState({"AwaitingApproval"})
  <1>0. QueueOK
    BY TypeParts
  <1>1. /\ pc # "returned" => asked = {}
        /\ taskState # "WaitingApproval" => asked = {}
    BY DEF Asked
  <1>2. ASSUME asked' = {}, taskState' # "WaitingApproval" PROVE Asked'
    BY <1>2 DEF Asked
  <1>3. ASSUME invocations' = invocations PROVE asked' = asked
    BY <1>3 DEF InState
  <1>4. CASE Stays
    <2>1. asked # {} => pc' = pc
      BY <1>1, <1>4 DEF Stays, PcMoves, Idling
    <2> QED
      BY <1>3, <1>4, <2>1 DEF Asked, Stays
  <1>5. CASE Resumes \/ Waits \/ Finishes
    <2>1. asked = {} /\ taskState' # "WaitingApproval"
      BY <1>1, <1>5 DEF Resumes, Waits, Finishes, Idling
    <2> QED
      BY <1>2, <1>3, <1>5, <2>1 DEF Resumes, Waits, Finishes
  <1>6. CASE Cancels
    BY <1>0, <1>2, <1>6, CancelStates DEF Cancels, CancelTask, SetState
  <1>7. ASSUME NEW calls, NEW criterion, Arrives(calls, criterion) PROVE Asked'
    BY <1>0, <1>1, <1>2, <1>7, ArrivesStates DEF Arrives, Idling, DriveRuns
  <1>8. ASSUME NEW i \in DOMAIN invocations, Resolves(i) PROVE Asked'
    <2>1. asked \ {i} = {} /\ taskState' = "Running"
      BY <1>8 DEF Resolves, Asked, Turns, InState
    <2>2. asked' = asked \ {i}
      BY <1>8 DEF Resolves, Turns, InState
    <2> QED
      BY <1>2, <2>1, <2>2
  <1>9. ASSUME NEW i \in DOMAIN invocations, Asks(i) PROVE Asked'
    <2>1. asked' = {i} /\ invocations'[i].id = invocations[i].id
      BY <1>1, <1>9 DEF Asks, Turns, InState
    <2> QED
      BY <1>9, <2>1 DEF Asked, Asks
  <1>10. ASSUME NEW i \in DOMAIN invocations, Decides(i) \/ Starts(i) PROVE Asked'
    <2>1. pc = "dispatch" /\ taskState' = taskState
      BY <1>10 DEF Decides, Starts, Execute
    <2>2. asked' \subseteq asked
      BY <1>10 DEF Decides, Starts, Turns, InState
    <2> QED
      BY <1>1, <1>2, <2>1, <2>2 DEF DriveRuns
  <1>11. ASSUME NEW to \in {"Succeeded", "Failed"}, Ends(to) \/ Accepts(to) PROVE Asked'
    <2>1. asked = {} /\ taskState' \in {taskState, "Running"}
      BY <1>1, <1>11 DEF Ends, Accepts
    <2>2. asked' = {}
      BY <1>11, <2>1 DEF Ends, Accepts, Turns, InState
    <2> QED
      BY <1>2, <1>11, <2>1, <2>2 DEF DriveRuns, Ends, Accepts
  <1>12. CASE Proposes \/ Loses
    <2>1. asked = {} /\ taskState' # "WaitingApproval"
      BY <1>1, <1>12 DEF Proposes, Loses, DriveRuns
    <2>2. asked' = {}
      BY <1>12, <2>1 DEF Proposes, Loses, Turns, InState
    <2> QED
      BY <1>2, <2>1, <2>2
  <1>13. CASE Leaves
    <2>1. asked = {} /\ taskState' # "WaitingApproval"
      BY <1>1, <1>13 DEF Leaves, DriveRuns
    <2> QED
      BY <1>2, <1>3, <1>13, <2>1 DEF Leaves
  <1> QED
    BY <1>4, <1>5, <1>6, <1>7, <1>8, <1>9, <1>10, <1>11, <1>12, <1>13, Kinds, ChangeKinds
    DEF Changes

\* Calls run while the command executes them.
LEMMA StartedNext ==
  ASSUME TypeOK, DriveRuns, Reviewed, Started, [Next]_vars
  PROVE  Started'
  <1> DEFINE running == InState({"Running"})
  <1>0. QueueOK /\ FailureKept
    BY TypeParts, FailureIsKept
  <1>1. /\ pc \notin {"executing", "returned", "loop"} => running = {}
        /\ pc = "executing" => running # {}
        /\ ~persistFailed /\ pc # "executing" => running = {}
    BY DEF Started
  <1>2. ASSUME pc' # "executing", running' = {} PROVE Started'
    BY <1>2 DEF Started
  <1>3. ASSUME pc' \in {"returned", "loop"}, persistFailed' PROVE Started'
    BY <1>3 DEF Started
  <1>4. ASSUME invocations' = invocations PROVE running' = running
    BY <1>4 DEF InState
  <1>5. CASE Stays
    <2>1. CASE pc' = pc
      BY <1>0, <1>4, <1>5, <2>1 DEF Started, Stays, FailureKept
    <2>2. CASE pc' # pc /\ running = {}
      <3>1. pc' # "executing"
        BY <1>5, <2>2 DEF Stays, PcMoves
      <3> QED
        BY <1>2, <1>4, <1>5, <2>2, <3>1 DEF Stays
    <2>3. CASE pc' # pc /\ running # {}
      <3>1. pc' \in {"returned", "loop"} /\ persistFailed
        BY <1>1, <1>5, <2>3 DEF Stays, PcMoves, Idling
      <3> QED
        BY <1>0, <1>3, <3>1 DEF FailureKept
    <2> QED
      BY <2>1, <2>2, <2>3
  <1>6. CASE Resumes \/ Waits \/ Finishes \/ Leaves
    <2>1. invocations' = invocations /\ pc' \in {"returned", "loop"}
      BY <1>6 DEF Resumes, Waits, Finishes, Leaves
    <2>2. pc # "executing"
      BY <1>6 DEF Resumes, Waits, Finishes, Leaves, Idling
    <2> QED
      BY <1>0, <1>1, <1>2, <1>3, <1>4, <2>1, <2>2 DEF FailureKept
  <1>7. CASE Cancels
    <2>1. running' \subseteq running /\ pc' = "returned" /\ pc # "executing"
      BY <1>0, <1>7, CancelStates DEF Cancels, CancelTask
    <2> QED
      BY <1>0, <1>1, <1>2, <1>3, <2>1 DEF FailureKept
  <1>8. ASSUME NEW calls, NEW criterion, Arrives(calls, criterion) PROVE Started'
    BY <1>0, <1>1, <1>2, <1>8, ArrivesStates DEF Arrives, Idling
  <1>9. ASSUME NEW i \in DOMAIN invocations, Resolves(i) \/ Decides(i) \/ Asks(i)
        PROVE  Started'
    <2>1. running' = running
      BY <1>9 DEF Resolves, Decides, Asks, Turns, InState
    <2>2. pc \in {"returned", "dispatch"} /\ pc' # "executing"
      BY <1>9 DEF Resolves, Decides, Asks
    <2>3. pc' \in {"returned", "loop"} \/ pc = "dispatch"
      BY <1>9 DEF Resolves, Decides, Asks
    <2> QED
      BY <1>0, <1>1, <1>2, <1>3, <2>1, <2>2, <2>3 DEF FailureKept
  <1>10. ASSUME NEW i \in DOMAIN invocations, Starts(i) PROVE Started'
    <2>1. i \in running'
      BY <1>10 DEF Starts, Turns, InState
    <2> QED
      BY <1>10, <2>1 DEF Started, Starts
  <1>11. ASSUME NEW to \in {"Succeeded", "Failed"}, Ends(to) PROVE Started'
    <2>1. running' = {} /\ pc' = "loop"
      BY <1>11 DEF Ends, Turns, InState
    <2> QED
      BY <1>2, <2>1
  <1>12. ASSUME NEW to \in {"Succeeded", "Failed"}, Accepts(to) PROVE Started'
    <2>1. running' \subseteq running /\ pc' = "loop" /\ pc # "executing"
      BY <1>12 DEF Accepts, Turns, InState
    <2> QED
      BY <1>0, <1>1, <1>2, <1>3, <2>1 DEF FailureKept
  <1>13. CASE Proposes
    BY <1>2, <1>13 DEF Proposes, Turns, InState
  <1>14. CASE Loses
    <2>1. running' \subseteq running /\ pc' = "returned" /\ pc # "executing"
      BY <1>14 DEF Loses, Turns, InState
    <2> QED
      BY <1>0, <1>1, <1>2, <1>3, <2>1 DEF FailureKept
  <1> QED
    BY <1>5, <1>6, <1>7, <1>8, <1>9, <1>10, <1>11, <1>12, <1>13, <1>14, Kinds, ChangeKinds
    DEF Changes

\* Nothing is decided and nothing starts while a change set is under review: its
\* calls are the first ones of the queue that are open.
LEMMA ReviewedFirst ==
  ASSUME QueueOK, QueueOrder, NEW i \in DOMAIN invocations,
         Undecided(i) \/ (First(i) /\ i \in InState({"Approved"}))
  PROVE  InState({"AwaitingChangeReview"}) = {}
  <1> SUFFICES ASSUME NEW k \in InState({"AwaitingChangeReview"}) PROVE FALSE
    OBVIOUS
  <1>1. PICK f \in DOMAIN invocations : First(f) /\ f \in InState({"Proposed", "Approved"})
    BY DEF Undecided, InState
  <1>2. k \in Unfinished /\ k \in DOMAIN invocations
    BY DEF Unfinished, InState, ToolTerminal
  <1>3. f \in 1..(k - 1)
    <2>1. f <= k /\ f # k
      BY <1>1, <1>2 DEF First, InState
    <2> QED
      BY <1>2, <2>1, QueueDomain
  <1>4. \/ invocations[f].state \in ToolTerminal
        \/ invocations[f].state = invocations[k].state
    BY <1>2, <1>3 DEF QueueOrder, InState
  <1> QED
    BY <1>1, <1>4 DEF InState, ToolTerminal

\* A change set is under review only where Reviewed says.
LEMMA ReviewedNext ==
  ASSUME TypeOK, DriveRuns, QueueOrder, Started, Reviewed, Emptied, [Next]_vars
  PROVE  Reviewed'
  <1> DEFINE reviewed == InState({"AwaitingChangeReview"})
  <1>0. QueueOK
    BY TypeParts
  <1>1. taskState \notin {"WaitingChangeReview", "Running", "WaitingUser"} => reviewed = {}
    BY DEF Reviewed
  <1>2. ASSUME reviewed' = {}, pc' # "accepting", taskState' # "WaitingChangeReview"
        PROVE  Reviewed'
    BY <1>2 DEF Reviewed
  <1>3. ASSUME reviewed' = reviewed, pc' \in {pc, "returned", "loop", "dispatch",
                                              "request", "streaming", "executing"},
               \A i \in reviewed : /\ invocations'[i].id = invocations[i].id
                                   /\ invocations'[i].tool = invocations[i].tool,
               \/ taskState' = taskState /\ reason'.call = reason.call
               \/ taskState # "WaitingChangeReview" /\ taskState' \in {"Running", "WaitingUser"}
        PROVE  Reviewed'
    BY <1>3 DEF Reviewed
  <1>4. CASE Stays \/ Resumes \/ Waits \/ Leaves
    <2>1. invocations' = invocations /\ reviewed' = reviewed
      BY <1>4 DEF Stays, Resumes, Waits, Leaves, InState
    <2>2. pc' \in {pc, "returned", "loop", "dispatch", "request", "streaming"}
      BY <1>4 DEF Stays, PcMoves, Resumes, Waits, Leaves
    <2>3. \/ taskState' = taskState /\ reason'.call = reason.call
          \/ taskState # "WaitingChangeReview" /\ taskState' \in {"Running", "WaitingUser"}
      BY <1>4 DEF Stays, Resumes, Waits, Leaves
    <2> QED
      BY <1>3, <2>1, <2>2, <2>3
  <1>5. CASE Finishes
    <2>1. Unfinished = {} /\ invocations' = invocations
      BY <1>5 DEF Finishes, Idling, Emptied
    <2>2. reviewed' = {}
      BY <2>1 DEF InState, Unfinished, ToolTerminal
    <2> QED
      BY <1>2, <1>5, <2>2 DEF Finishes
  <1>6. CASE Cancels
    BY <1>0, <1>2, <1>6, CancelStates DEF Cancels, CancelTask, SetState
  <1>7. ASSUME NEW calls, NEW criterion, Arrives(calls, criterion) PROVE Reviewed'
    <2>1. /\ pc' = "loop" /\ taskState' = taskState /\ reason' = reason
          /\ reviewed \subseteq DOMAIN invocations
      BY <1>7 DEF Arrives, InState
    <2> QED
      BY <1>0, <1>3, <1>7, <2>1, ArrivesStates
  <1>8. ASSUME NEW i \in DOMAIN invocations, Resolves(i) PROVE Reviewed'
    <2>1. reviewed = {}
      BY <1>1, <1>8 DEF Resolves
    <2>2. reviewed' = {}
      BY <1>8, <2>1 DEF Resolves, Turns, InState
    <2> QED
      BY <1>2, <1>8, <2>2 DEF Resolves
  <1>9. ASSUME NEW i \in DOMAIN invocations, Decides(i) \/ Asks(i) \/ Starts(i)
        PROVE  Reviewed'
    <2>1. reviewed = {}
      BY <1>0, <1>9, ReviewedFirst DEF Decides, Asks, Starts, Execute
    <2>2. reviewed' = {}
      BY <1>9, <2>1 DEF Decides, Asks, Starts, Turns, InState
    <2>3. pc = "dispatch" /\ pc' # "accepting" /\ taskState' # "WaitingChangeReview"
      BY <1>9 DEF Decides, Asks, Starts, Execute, DriveRuns
    <2> QED
      BY <1>2, <2>2, <2>3
  <1>10. ASSUME NEW to \in {"Succeeded", "Failed"}, Ends(to) PROVE Reviewed'
    <2>1. reviewed' = reviewed
      BY <1>10 DEF Ends, Turns, InState
    <2>2. \A i \in reviewed : /\ invocations'[i].id = invocations[i].id
                              /\ invocations'[i].tool = invocations[i].tool
      BY <1>10 DEF Ends, Turns, InState
    <2> QED
      BY <1>3, <1>10, <2>1, <2>2 DEF Ends
  <1>11. ASSUME NEW to \in {"Succeeded", "Failed"}, Accepts(to) PROVE Reviewed'
    <2>1. reviewed' = {}
      BY <1>11 DEF Accepts, Turns, InState
    <2> QED
      BY <1>2, <1>11, <2>1 DEF Accepts, DriveRuns
  <1>12. CASE Loses
    <2>1. reviewed' = {}
      BY <1>12 DEF Loses, Turns, InState
    <2> QED
      BY <1>2, <1>12, <2>1 DEF Loses
  <1>13. CASE Proposes
    <2> DEFINE S == InState({"Running"})
    <2>1. /\ reviewed' = reviewed \cup S /\ S # {}
          /\ \A i \in reviewed' : /\ invocations'[i].id = invocations[i].id
                                  /\ invocations'[i].tool = "write_file"
      <3>1. S # {}
        BY <1>13 DEF Proposes, Started
      <3>2. reviewed' = reviewed \cup S
        BY <1>13 DEF Proposes, Turns, InState
      <3>3. \A i \in reviewed \cup S : i \in DOMAIN invocations
                                       /\ invocations[i].tool = "write_file"
        BY <1>13 DEF Proposes, Reviewed, InState
      <3>4. \A i \in DOMAIN invocations : /\ invocations'[i].id = invocations[i].id
                                          /\ invocations'[i].tool = invocations[i].tool
        BY <1>13 DEF Proposes, Turns
      <3> QED
        BY <3>1, <3>2, <3>3, <3>4
    <2>2. taskState = "Running"
      BY <1>13 DEF Proposes, DriveRuns
    <2>3. CASE "Yolo" \in Policies /\ taskState' = taskState
      BY <2>1, <2>2, <2>3 DEF Reviewed
    <2>4. CASE /\ pc' = "returned" /\ taskState' = "WaitingChangeReview"
               /\ \E i \in S : reason'.call = invocations[i].id
      BY <2>1, <2>4 DEF Reviewed
    <2> QED
      BY <1>13, <2>3, <2>4 DEF Proposes
  <1> QED
    BY <1>4, <1>5, <1>6, <1>7, <1>8, <1>9, <1>10, <1>11, <1>12, <1>13, Kinds, ChangeKinds
    DEF Changes

\* drive asks the model only at the end of the queue.
LEMMA EmptiedNext ==
  ASSUME TypeOK, DriveRuns, Reviewed, Emptied, [Next]_vars
  PROVE  Emptied'
  <1>1. CASE Stays
    <2>1. Unfinished' = Unfinished
      BY <1>1 DEF Stays, Unfinished
    <2> QED
      BY <1>1, <2>1 DEF Stays, PcMoves, Idling, Emptied
  <1>2. CASE Resumes \/ Waits \/ Finishes
    BY <1>2 DEF Resumes, Waits, Finishes, Emptied
  <1>3. CASE QueueAction
    <2>1. Changes
      BY <1>3, ChangeKinds
    <2>2. pc' \in {"returned", "loop", "dispatch", "executing", "accepting"}
      BY <2>1 DEF Changes, Cancels, CancelTask, Arrives, Resolves, Decides, Asks, Starts,
        Proposes, Loses, Leaves, Ends, Accepts
    <2> QED
      BY <2>2 DEF Emptied
  <1> QED
    BY <1>1, <1>2, <1>3, Kinds

\* Every way out of drive sets another state, but for the errors.
LEMMA AbandonedNext ==
  ASSUME TypeOK, DriveRuns, Reviewed, NeverAbandoned, [Next]_vars
  PROVE  NeverAbandoned'
  <1> DEFINE reviewed == InState({"AwaitingChangeReview"})
  <1>0. FailureKept
    BY FailureIsKept
  <1>1. ASSUME pc' # "returned" \/ taskState' # "Running" \/ persistFailed'
        PROVE  NeverAbandoned'
    BY <1>1 DEF NeverAbandoned
  <1>2. CASE Stays
    <2>1. reviewed' = reviewed /\ taskState' = taskState
      BY <1>2 DEF Stays, InState
    <2> QED
      BY <1>0, <1>1, <1>2, <2>1 DEF Stays, PcMoves, NeverAbandoned, FailureKept
  <1>3. CASE Resumes \/ Waits \/ Finishes
    BY <1>1, <1>3 DEF Resumes, Waits, Finishes
  <1>4. CASE Leaves
    <2>1. reviewed' = reviewed /\ reviewed # {} /\ taskState' = taskState
      BY <1>4 DEF Leaves, InState
    <2> QED
      BY <1>1, <1>4, <2>1 DEF Leaves, NeverAbandoned, Reviewed
  <1>5. CASE Cancels \/ Proposes \/ Loses
    BY <1>1, <1>5 DEF Cancels, CancelTask, SetState, Proposes, Loses
  <1>6. ASSUME NEW calls, NEW criterion, Arrives(calls, criterion) PROVE NeverAbandoned'
    BY <1>1, <1>6 DEF Arrives
  <1>7. ASSUME NEW i \in DOMAIN invocations,
               Resolves(i) \/ Decides(i) \/ Asks(i) \/ Starts(i)
        PROVE  NeverAbandoned'
    BY <1>1, <1>7 DEF Resolves, Decides, Asks, Starts
  <1>8. ASSUME NEW to \in {"Succeeded", "Failed"}, Ends(to) \/ Accepts(to)
        PROVE  NeverAbandoned'
    BY <1>1, <1>8 DEF Ends, Accepts
  <1> QED
    BY <1>2, <1>3, <1>4, <1>5, <1>6, <1>7, <1>8, Kinds, ChangeKinds DEF Changes

\* All of it holds from the start and after every step.
LEMMA PlacedNext ==
  ASSUME TypeOK, DriveRuns, Placed, [Next]_vars
  PROVE  Placed'
  BY OrderNext, AskedNext, StartedNext, ReviewedNext, EmptiedNext, AbandonedNext DEF Placed

\* Wherever a command stands, the queue and the state of the task agree.
THEOREM PlacedAlways == Spec => []Placed
  <1>1. Init => Placed
    BY DEF Init, Placed, Asked, Started, Reviewed, Emptied, QueueOrder, NeverAbandoned, InState
  <1>2. TypeOK /\ DriveRuns /\ Placed /\ [Next]_vars => Placed'
    BY PlacedNext
  <1> QED
    BY <1>1, <1>2, TypeCorrect, DriveRunsAlways, PTL DEF Spec

\* Every call has started only behind calls that are over, or along with the run
\* of write_file calls it is part of (next_nonterminal_invocation).
THEOREM OrderIsKept == Spec => []QueueOrder
  <1>1. Placed => QueueOrder
    BY DEF Placed
  <1> QED
    BY <1>1, PlacedAlways, PTL

\* No command returns with the task still Running, but after a journal error or
\* Yolo's own acceptance of a change set (drive, auto_accept_change).
THEOREM TasksAreNotAbandoned == Spec => []NeverAbandoned
  <1>1. Placed => NeverAbandoned
    BY DEF Placed
  <1> QED
    BY <1>1, PlacedAlways, PTL

\* What a returned command asks of the user is what the queue waits for (set_state
\* beside transition_tool in process_invocation and propose_change).
THEOREM WaitsForItsQueue == Spec => []WaitingMatchesQueue
  <1>1. Placed => WaitingMatchesQueue
    BY DEF Placed, Asked, Reviewed, WaitingMatchesQueue
  <1> QED
    BY <1>1, PlacedAlways, PTL

\* A verified task has its evidence and an empty queue at the moment it becomes
\* verified (FinishVerified, and the reply without calls).
THEOREM EvidenceComesFirst == Spec => VerifiedOnlyOnEvidence
  <1> DEFINE Evidence ==
        (taskState' = "CompletedVerified" /\ taskState # "CompletedVerified") =>
          /\ Unfinished = {} /\ turnFinished'
          /\ \E k \in DOMAIN Criteria : Criteria[k].required
          /\ \A k \in DOMAIN Criteria :
               Criteria[k].required => LastStatus(Criteria[k].id, checks) = "Passed"
  <1>1. ASSUME TypeOK, DriveRuns, Placed, [Next]_vars PROVE [Evidence]_vars
    <2> SUFFICES ASSUME taskState' = "CompletedVerified", taskState # "CompletedVerified"
                 PROVE  Evidence
      OBVIOUS
    <2>1. Finishes
      <3>1. Stays \/ Resumes \/ Waits \/ Finishes \/ Changes
        BY <1>1, Kinds, ChangeKinds DEF Placed
      <3>2. ~Stays /\ ~Resumes /\ ~Waits
        BY DEF Stays, Resumes, Waits
      <3>3. ~Changes
        BY DEF Changes, Cancels, CancelTask, SetState, Arrives, Resolves, Decides, Asks,
          Starts, Proposes, Loses, Leaves, Ends, Accepts
      <3> QED
        BY <3>1, <3>2, <3>3
    <2>2. Unfinished = {} /\ turnFinished' /\ Report = "CompletedVerified"
      BY <1>1, <2>1 DEF Finishes, Idling, Placed, Emptied
    <2>3. /\ \E k \in DOMAIN Criteria : Criteria[k].required
          /\ \A k \in DOMAIN Criteria :
               Criteria[k].required => LastStatus(Criteria[k].id, checks) = "Passed"
      BY <2>2 DEF Report, CompletionState
    <2> QED
      BY <2>2, <2>3
  <1>2. Spec => [][Evidence]_vars
    BY <1>1, TypeCorrect, DriveRunsAlways, PlacedAlways, PTL DEF Spec
  <1> QED
    BY <1>2 DEF VerifiedOnlyOnEvidence

----------------------------------------------------------------------------
(* What a finished task leaves behind *)

\* The answers the history holds are those the queue knows of, and every call
\* that is over is answered, or its change set ended the task as unknown.
UnknownBefore(i) ==
  /\ taskState = "Unknown"
  /\ \E k \in 1..i : invocations[k].tool = "write_file" /\ invocations[k].state = "Unknown"

AnswersKnown ==
  \A id \in answered :
    \E j \in DOMAIN invocations : invocations[j].id = id /\ invocations[j].result

EndsAnswered ==
  \A i \in DOMAIN invocations :
    invocations[i].state \in ToolTerminal => HasAnswer(i) \/ UnknownBefore(i)

\* What a finished task leaves open.
LeftSettled ==
  taskState \in TaskTerminal =>
    \A i \in Unfinished :
      (persistFailed /\ invocations[i].state = "Running") \/ UnknownBefore(i)

\* No step takes a call, its ID or its result away.
CallsKept ==
  \A i \in DOMAIN invocations :
    /\ i \in DOMAIN invocations'
    /\ invocations'[i].id = invocations[i].id
    /\ invocations[i].result => invocations'[i].result

\* Nothing is ever taken out of the queue.
LEMMA CallsAreKept ==
  ASSUME TypeOK, DriveRuns, Reviewed, [Next]_vars
  PROVE  CallsKept
  <1>0. QueueOK
    BY TypeParts
  <1>1. CASE invocations' = invocations
    BY <1>1 DEF CallsKept
  <1>2. CASE Cancels
    BY <1>0, <1>2, CancelTurns DEF Cancels, CallsKept
  <1>3. ASSUME NEW calls, NEW criterion, Arrives(calls, criterion) PROVE CallsKept
    <2>1. calls \in Seq(ProposedCalls) /\ Enqueue(calls, criterion)
      BY <1>3 DEF Arrives
    <2> QED
      BY <1>0, <2>1, EnqueueArrives DEF CallsKept
  <1>4. ASSUME NEW S, NEW from, NEW to, Turns(S, from, to) PROVE CallsKept
    BY <1>4 DEF Turns, CallsKept
  <1>5. CASE Changes
    BY <1>1, <1>2, <1>3, <1>4, <1>5 DEF Changes, Resolves, Decides, Asks, Starts, Proposes,
      Loses, Leaves, Ends, Accepts
  <1> QED
    BY <1>1, <1>5, Kinds, ChangeKinds DEF Stays, Resumes, Waits, Finishes

\* An answered call stays answered.
LEMMA AnswersStay ==
  ASSUME CallsKept
  PROVE  /\ \A i \in DOMAIN invocations : HasAnswer(i) => HasAnswer(i)'
         /\ AnswersKnown => \A id \in answered : \E j \in DOMAIN invocations' :
                               invocations'[j].id = id /\ invocations'[j].result
  BY DEF CallsKept, HasAnswer, AnswersKnown

\* The calls of a change set whose outcome is unknown stand before every call
\* that is left open.
LEMMA LosesBefore ==
  ASSUME QueueOK, QueueOrder, Reviewed, Loses, NEW i \in DOMAIN invocations,
         invocations[i].state \notin ToolTerminal
  PROVE  UnknownBefore(i)'
  <1> DEFINE S == InState({"AwaitingChangeReview"})
  <1>1. \A k \in S : invocations'[k].state = "Unknown" /\ invocations'[k].tool = "write_file"
    BY DEF Loses, Turns, Reviewed, InState
  <1>2. PICK k \in S : TRUE
    BY DEF Loses
  <1>3. /\ Len(invocations) \in Nat /\ DOMAIN invocations = 1..Len(invocations)
        /\ k \in DOMAIN invocations
    BY QueueDomain DEF InState
  <1>4. CASE k <= i
    <2>1. k \in 1..i
      BY <1>3, <1>4
    <2> QED
      BY <1>1, <2>1 DEF UnknownBefore, Loses
  <1>5. CASE i < k
    <2>1. i \in 1..(k - 1)
      BY <1>3, <1>5
    <2>2. invocations[i].state = invocations[k].state
      BY <1>2, <2>1 DEF QueueOrder, InState
    <2>3. i \in S /\ i \in 1..i
      BY <1>2, <1>3, <2>2 DEF InState
    <2> QED
      BY <1>1, <2>3 DEF UnknownBefore, Loses
  <1> QED
    BY <1>3, <1>4, <1>5

\* Every answer of the history belongs to a call.
LEMMA AnswersKnownNext ==
  ASSUME TypeOK, DriveRuns, Placed, AnswersKnown, EndsAnswered, [Next]_vars
  PROVE  AnswersKnown'
  <1> DEFINE Known(id) == \E j \in DOMAIN invocations' :
                            invocations'[j].id = id /\ invocations'[j].result
  <1>0. QueueOK /\ CallsKept /\ DOMAIN invocations \subseteq DOMAIN invocations'
    BY TypeParts, CallsAreKept DEF Placed, CallsKept
  <1>1. \A id \in answered : Known(id)
    BY <1>0, AnswersStay
  <1>2. ASSUME NEW S, S \subseteq DOMAIN invocations, Answered(S),
               answered' \subseteq answered \cup IdsOf(S)
        PROVE  AnswersKnown'
    BY <1>0, <1>1, <1>2 DEF AnswersKnown, CallsKept, Answered, IdsOf
  <1>3. CASE answered' = answered
    BY <1>1, <1>3 DEF AnswersKnown
  <1>4. CASE Stays
    <2>1. CASE Idling /\ \E k : answered' = IdsOf({i \in DOMAIN invocations : i > k})
      <3>1. taskState # "Unknown" /\ \A i \in DOMAIN invocations : HasAnswer(i)
        BY <1>4, <2>1 DEF Stays, Idling, DriveRuns, EndsAnswered, Unfinished, UnknownBefore
      <3> QED
        BY <1>0, <2>1, <3>1, AnswersStay DEF IdsOf, HasAnswer, AnswersKnown, CallsKept
    <2> QED
      BY <1>3, <1>4, <2>1 DEF Stays
  <1>5. CASE Resumes \/ Waits \/ Finishes
    BY <1>3, <1>5 DEF Resumes, Waits, Finishes
  <1>6. CASE Cancels
    <2> DEFINE closed == {i \in DOMAIN invocations : invocations'[i].state \in ToolTerminal}
    <2>1. /\ answered' = answered \cup IdsOf(closed)
          /\ \A i \in closed : invocations[i].id \in answered \/ invocations'[i].result
      BY <1>0, <1>6, CancelTurns DEF Cancels, Unanswered
    <2>2. \A i \in closed : Known(invocations[i].id)
      BY <1>0, <1>1, <2>1 DEF CallsKept
    <2> QED
      BY <1>1, <2>1, <2>2 DEF AnswersKnown, IdsOf
  <1>7. ASSUME NEW calls, NEW criterion, Arrives(calls, criterion) PROVE AnswersKnown'
    <2>1. calls \in Seq(ProposedCalls) /\ Enqueue(calls, criterion)
      BY <1>7 DEF Arrives
    <2> QED
      BY <1>0, <1>1, <2>1, EnqueueArrives DEF AnswersKnown
  <1>8. ASSUME NEW i \in DOMAIN invocations,
               Resolves(i) \/ Decides(i) \/ Asks(i) \/ Starts(i)
        PROVE  AnswersKnown'
    BY <1>2, <1>3, <1>8 DEF Resolves, Decides, Asks, Starts
  <1>9. ASSUME NEW to \in {"Succeeded", "Failed"}, Ends(to) \/ Accepts(to)
        PROVE  AnswersKnown'
    BY <1>2, <1>9 DEF Ends, Accepts, InState
  <1>10. CASE Proposes \/ Leaves
    BY <1>3, <1>10 DEF Proposes, Leaves
  <1>11. CASE Loses
    <2> DEFINE over == DOMAIN invocations \ (Unfinished \ InState({"AwaitingChangeReview"}))
    <2>1. CASE answered' = answered \cup IdsOf(over) /\
               Answered({i \in over : Unanswered(i)})
      <3>1. \A i \in over : Known(invocations[i].id)
        BY <1>0, <1>1, <2>1 DEF Answered, Unanswered, CallsKept
      <3> QED
        BY <1>1, <2>1, <3>1 DEF AnswersKnown, IdsOf
    <2> QED
      BY <1>3, <1>11, <2>1 DEF Loses
  <1> QED
    BY <1>4, <1>5, <1>6, <1>7, <1>8, <1>9, <1>10, <1>11, Kinds, ChangeKinds
    DEF Changes, Placed

\* Every path that ends a call answers it, but for Yolo's acceptance of a change
\* set whose outcome is unknown.
LEMMA EndsAnsweredNext ==
  ASSUME TypeOK, DriveRuns, Placed, AnswersKnown, EndsAnswered, [Next]_vars
  PROVE  EndsAnswered'
  <1>0. QueueOK /\ CallsKept
    BY TypeParts, CallsAreKept DEF Placed
  <1>1. ASSUME NEW i \in DOMAIN invocations, HasAnswer(i) PROVE HasAnswer(i)'
    BY <1>0, <1>1, AnswersStay
  <1>2. ASSUME NEW i \in DOMAIN invocations', invocations'[i].result PROVE HasAnswer(i)'
    BY <1>2 DEF HasAnswer
  <1>3. ASSUME taskState # "Unknown",
               \A i \in DOMAIN invocations' :
                 invocations'[i].state \in ToolTerminal =>
                   \/ invocations'[i].result
                   \/ i \in DOMAIN invocations /\ invocations[i].state \in ToolTerminal
        PROVE  EndsAnswered'
    BY <1>1, <1>2, <1>3 DEF EndsAnswered, UnknownBefore
  <1>4. ASSUME invocations' = invocations, taskState' = taskState \/ taskState # "Unknown"
        PROVE  EndsAnswered'
    BY <1>1, <1>4 DEF EndsAnswered, UnknownBefore
  <1>5. CASE Stays \/ Resumes \/ Waits \/ Finishes \/ Leaves
    BY <1>4, <1>5 DEF Stays, Resumes, Waits, Finishes, Leaves
  <1>6. CASE Cancels
    <2> SUFFICES ASSUME NEW i \in DOMAIN invocations', invocations'[i].state \in ToolTerminal
                 PROVE  HasAnswer(i)'
      BY DEF EndsAnswered
    <2>1. i \in DOMAIN invocations /\ (Unanswered(i) => invocations'[i].result)
      BY <1>0, <1>6, CancelTurns DEF Cancels
    <2>2. ~Unanswered(i) => HasAnswer(i)
      BY <2>1 DEF Unanswered, AnswersKnown, HasAnswer
    <2> QED
      BY <1>1, <1>2, <2>1, <2>2
  <1>7. ASSUME NEW calls, NEW criterion, Arrives(calls, criterion) PROVE EndsAnswered'
    <2>1. calls \in Seq(ProposedCalls) /\ Enqueue(calls, criterion)
          /\ taskState # "Unknown"
      BY <1>7 DEF Arrives, DriveRuns, Idling
    <2>2. \A i \in DOMAIN invocations : invocations'[i] = invocations[i]
      BY <1>0, <2>1, EnqueueArrives
    <2>3. \A i \in DOMAIN invocations' \ DOMAIN invocations :
            invocations'[i].state = "Proposed" \/ invocations'[i].result
      BY <1>0, <2>1, EnqueueArrives DEF Arrived
    <2> QED
      BY <1>3, <2>1, <2>2, <2>3 DEF ToolTerminal
  <1>8. ASSUME NEW S, NEW from, NEW to, Turns(S, from, to),
               to \in ToolTerminal => Answered(S), taskState # "Unknown"
        PROVE  EndsAnswered'
    BY <1>3, <1>8 DEF Turns, Answered
  <1>9. ASSUME NEW i \in DOMAIN invocations,
               Resolves(i) \/ Decides(i) \/ Asks(i) \/ Starts(i)
        PROVE  EndsAnswered'
    BY <1>8, <1>9 DEF Resolves, Decides, Asks, Starts, Execute, ToolTerminal, DriveRuns
  <1>10. ASSUME NEW to \in {"Succeeded", "Failed"}, Ends(to) \/ Accepts(to)
         PROVE  EndsAnswered'
    BY <1>8, <1>10 DEF Ends, Accepts, ToolTerminal, DriveRuns
  <1>11. CASE Proposes
    BY <1>8, <1>11 DEF Proposes, ToolTerminal, DriveRuns
  <1>12. CASE Loses
    <2> DEFINE S == InState({"AwaitingChangeReview"})
    <2> SUFFICES ASSUME NEW i \in DOMAIN invocations', invocations'[i].state \in ToolTerminal
                 PROVE  HasAnswer(i)' \/ UnknownBefore(i)'
      BY DEF EndsAnswered
    <2>1. /\ i \in DOMAIN invocations
          /\ invocations'[i].state = IF i \in S THEN "Unknown" ELSE invocations[i].state
      BY <1>12 DEF Loses, Turns
    <2>2. CASE i \in S
      <3>1. invocations[i].state \notin ToolTerminal
        BY <2>2 DEF InState, ToolTerminal
      <3> QED
        BY <1>0, <1>12, <2>1, <3>1, LosesBefore DEF Placed
    <2>3. CASE i \notin S
      <3>1. taskState # "Unknown"
        BY <1>12 DEF Loses, DriveRuns
      <3>2. HasAnswer(i)
        BY <2>1, <2>3, <3>1 DEF EndsAnswered, UnknownBefore
      <3> QED
        BY <1>1, <2>1, <3>2
    <2> QED
      BY <2>2, <2>3
  <1> QED
    BY <1>5, <1>6, <1>7, <1>8, <1>9, <1>10, <1>11, <1>12, Kinds, ChangeKinds
    DEF Changes, Placed

\* A task ends with nothing left open, but for the two errors.
LEMMA LeftSettledNext ==
  ASSUME TypeOK, DriveRuns, Placed, LeftSettled, [Next]_vars
  PROVE  LeftSettled'
  <1>0. QueueOK /\ FailureKept
    BY TypeParts, FailureIsKept
  <1>1. ASSUME taskState' \notin TaskTerminal PROVE LeftSettled'
    BY <1>1 DEF LeftSettled
  <1>2. CASE Stays
    <2>1. /\ Unfinished' = Unfinished /\ taskState' = taskState
          /\ invocations' = invocations
      BY <1>2 DEF Stays, Unfinished
    <2> QED
      BY <1>0, <2>1 DEF LeftSettled, FailureKept, UnknownBefore
  <1>3. CASE Resumes \/ Waits
    BY <1>1, <1>3 DEF Resumes, Waits, TaskTerminal
  <1>4. CASE Finishes
    <2>1. Unfinished' = {}
      BY <1>4 DEF Finishes, Idling, Placed, Emptied, Unfinished
    <2> QED
      BY <2>1 DEF LeftSettled
  <1>5. CASE Cancels
    <2> SUFFICES ASSUME NEW i \in Unfinished'
                 PROVE  persistFailed' /\ invocations'[i].state = "Running"
      BY DEF LeftSettled
    <2>1. i \in DOMAIN invocations /\ invocations[i].state \in ToolStates
          /\ invocations'[i].state \notin ToolTerminal
      BY <1>0, <1>5, CancelTurns, QueueDomain DEF Cancels, Unfinished, Invocations
    <2>2. ToolStates = NotRun \cup ToolTerminal \cup {"Running"} /\ "Cancelled" \in ToolTerminal
      BY DEF ToolStates, NotRun, ToolTerminal
    <2>3. invocations[i].state = "Running" /\ invocations'[i].state \in {"Running", "Unknown"}
      BY <1>0, <1>5, <2>1, <2>2, CancelTurns DEF Cancels
    <2>4. invocations'[i].state = "Running"
      BY <2>1, <2>3 DEF ToolTerminal
    <2>5. persistFailed
      BY <1>5, <2>1, <2>3 DEF Cancels, Placed, Started, InState
    <2> QED
      BY <1>0, <2>4, <2>5 DEF FailureKept
  <1>6. CASE Loses
    <2> SUFFICES ASSUME NEW i \in Unfinished' PROVE UnknownBefore(i)'
      BY DEF LeftSettled
    <2>1. i \in DOMAIN invocations /\ invocations[i].state \notin ToolTerminal
      BY <1>6 DEF Loses, Turns, Unfinished, ToolTerminal
    <2> QED
      BY <1>0, <1>6, <2>1, LosesBefore DEF Placed
  <1>7. ASSUME NEW calls, NEW criterion, Arrives(calls, criterion) PROVE LeftSettled'
    BY <1>1, <1>7 DEF Arrives, DriveRuns, Idling, TaskTerminal
  <1>8. ASSUME NEW i \in DOMAIN invocations,
               Resolves(i) \/ Decides(i) \/ Asks(i) \/ Starts(i)
        PROVE  LeftSettled'
    BY <1>1, <1>8 DEF Resolves, Decides, Asks, Starts, Execute, DriveRuns, TaskTerminal
  <1>9. ASSUME NEW to \in {"Succeeded", "Failed"}, Ends(to) \/ Accepts(to)
        PROVE  LeftSettled'
    BY <1>1, <1>9 DEF Ends, Accepts, DriveRuns, TaskTerminal
  <1>10. CASE Proposes \/ Leaves
    BY <1>1, <1>10 DEF Proposes, Leaves, DriveRuns, TaskTerminal
  <1> QED
    BY <1>2, <1>3, <1>4, <1>5, <1>6, <1>7, <1>8, <1>9, <1>10, Kinds, ChangeKinds
    DEF Changes, Placed

\* A finished task has closed and answered its calls, but for what a failed journal
\* or a change set of unknown outcome leaves open (cancel, review_change,
\* record_missing_tool_results, and the ends of drive).
THEOREM SettledAlways == Spec => []SettledWhenOver
  <1> DEFINE Settled == AnswersKnown /\ EndsAnswered /\ LeftSettled
  <1>1. Init => Settled
    BY DEF Init, AnswersKnown, EndsAnswered, LeftSettled, TaskTerminal
  <1>2. TypeOK /\ DriveRuns /\ Placed /\ Settled /\ [Next]_vars => Settled'
    BY AnswersKnownNext, EndsAnsweredNext, LeftSettledNext
  <1>3. Settled => SettledWhenOver
    BY DEF EndsAnswered, LeftSettled, SettledWhenOver, LeftOpen, UnknownBefore, Unfinished
  <1> QED
    BY <1>1, <1>2, <1>3, TypeCorrect, DriveRunsAlways, PlacedAlways, PTL DEF Spec

----------------------------------------------------------------------------
(* The runs of an acceptance command and the checks of the report *)

\* A call that runs a criterion is a command, and nobody has decided about a call
\* that is not yet asked about.
CommandsOnly ==
  \A i \in DOMAIN invocations :
    /\ invocations[i].criterion # NoCriterion => invocations[i].tool = "run_command"
    /\ invocations[i].state \in {"Proposed", "AwaitingApproval"} =>
         invocations[i].decision = "None"

\* The calls that ran criterion c to an end.
RunsOf(c) ==
  {i \in InState({"Succeeded", "Failed"}) :
     invocations[i].criterion = c /\ invocations[i].decision \in Approving}

\* Only acceptance commands run a criterion, and no decision comes early.
LEMMA CommandsOnlyNext ==
  ASSUME TypeOK, DriveRuns, Placed, CommandsOnly, [Next]_vars
  PROVE  CommandsOnly'
  <1>0. QueueOK
    BY TypeParts
  <1>1. CASE invocations' = invocations
    BY <1>1 DEF CommandsOnly
  <1>2. CASE Cancels
    <2>1. \A i \in DOMAIN invocations : invocations[i].state \in ToolStates
      BY <1>0, QueueDomain DEF Invocations
    <2>2. /\ ToolStates = NotRun \cup ToolTerminal \cup {"Running"}
          /\ {"Cancelled", "Running", "Unknown"} \cap {"Proposed", "AwaitingApproval"} = {}
      BY DEF ToolStates, NotRun, ToolTerminal
    <2> QED
      BY <1>0, <1>2, <2>1, <2>2, CancelTurns DEF Cancels, CommandsOnly
  <1>3. ASSUME NEW calls, NEW criterion, Arrives(calls, criterion) PROVE CommandsOnly'
    <2>1. /\ calls \in Seq(ProposedCalls) /\ Enqueue(calls, criterion)
          /\ criterion # NoCriterion => \A k \in DOMAIN calls : calls[k].tool = "run_command"
      BY <1>3 DEF Arrives
    <2>2. \A i \in DOMAIN invocations : invocations'[i] = invocations[i]
      BY <1>0, <2>1, EnqueueArrives
    <2>3. ASSUME NEW i \in DOMAIN invocations' \ DOMAIN invocations
          PROVE  /\ invocations'[i].criterion # NoCriterion =>
                      invocations'[i].tool = "run_command"
                 /\ invocations'[i].state \in {"Proposed", "AwaitingApproval"} =>
                      invocations'[i].decision = "None"
      <3>1. Arrived(i, calls, criterion)
        BY <1>0, <2>1, EnqueueArrives
      <3> QED
        BY <2>1, <3>1 DEF Arrived
    <2> QED
      BY <2>2, <2>3 DEF CommandsOnly
  <1>4. ASSUME NEW S, NEW from, NEW to, Turns(S, from, to),
               to \notin {"Proposed", "AwaitingApproval"} \/
                 (from = "Proposed" /\ to = "AwaitingApproval")
        PROVE  CommandsOnly'
    <2> SUFFICES ASSUME NEW i \in DOMAIN invocations
                 PROVE  /\ invocations'[i].criterion # NoCriterion =>
                             invocations'[i].tool = "run_command"
                        /\ invocations'[i].state \in {"Proposed", "AwaitingApproval"} =>
                             invocations'[i].decision = "None"
      BY <1>4 DEF Turns, CommandsOnly
    <2>1. invocations'[i].criterion # NoCriterion => invocations'[i].tool = "run_command"
      BY <1>4 DEF Turns, CommandsOnly
    <2>2. CASE i \notin S
      BY <1>4, <2>2 DEF Turns, CommandsOnly
    <2>3. CASE i \in S
      BY <1>4, <2>3 DEF Turns, CommandsOnly, InState
    <2> QED
      BY <2>1, <2>2, <2>3
  <1>5. CASE Changes
    BY <1>1, <1>2, <1>3, <1>4, <1>5 DEF Changes, Resolves, Decides, Asks, Starts, Proposes,
      Loses, Leaves, Ends, Accepts
  <1> QED
    BY <1>1, <1>5, Kinds, ChangeKinds DEF Stays, Resumes, Waits, Finishes, Placed

\* Positions of the queue or of the report are finitely many.
LEMMA PositionsFinite ==
  ASSUME NEW n \in Nat, NEW S, S \subseteq 1..n
  PROVE  IsFiniteSet(S) /\ Cardinality(S) \in Nat
  <1>1. IsFiniteSet(1..n)
    BY FS_Interval
  <1>2. IsFiniteSet(S)
    BY <1>1, FS_Subset
  <1> QED
    BY <1>2, FS_CardinalityType

\* The report only grows, by one check for the criterion that was run.
LEMMA ChecksCount ==
  ASSUME checks \in Seq(Checks), NEW c
  PROVE  IsFiniteSet(ChecksOf(c, checks)) /\ Cardinality(ChecksOf(c, checks)) \in Nat
  <1>1. Len(checks) \in Nat /\ ChecksOf(c, checks) \subseteq 1..Len(checks)
    BY DEF ChecksOf
  <1> QED
    BY <1>1, PositionsFinite

\* A check appended to the report counts for its own criterion alone.
LEMMA ChecksGrow ==
  ASSUME checks \in Seq(Checks), NEW c, NEW check \in Checks, checks' = Append(checks, check)
  PROVE  Cardinality(ChecksOf(c, checks')) =
           Cardinality(ChecksOf(c, checks)) + (IF check.criterion = c THEN 1 ELSE 0)
  <1>1. Len(checks) \in Nat /\ DOMAIN checks = 1..Len(checks)
    OBVIOUS
  <1>2. IsFiniteSet(ChecksOf(c, checks)) /\ Cardinality(ChecksOf(c, checks)) \in Nat
    BY ChecksCount
  <1>3. /\ DOMAIN checks' = 1..(Len(checks) + 1)
        /\ \A k \in DOMAIN checks : checks'[k] = checks[k]
        /\ checks'[Len(checks) + 1] = check
    OBVIOUS
  <1>4. Len(checks) + 1 \notin ChecksOf(c, checks)
    BY <1>1 DEF ChecksOf
  <1>5. CASE check.criterion = c
    <2>1. ChecksOf(c, checks') = ChecksOf(c, checks) \cup {Len(checks) + 1}
      BY <1>1, <1>3, <1>5 DEF ChecksOf
    <2>2. Cardinality(ChecksOf(c, checks) \cup {Len(checks) + 1})
            = Cardinality(ChecksOf(c, checks)) + 1
      BY <1>2, <1>4, FS_AddElement
    <2> QED
      BY <1>5, <2>1, <2>2
  <1>6. CASE check.criterion # c
    <2>1. ChecksOf(c, checks') = ChecksOf(c, checks)
      BY <1>1, <1>3, <1>6 DEF ChecksOf
    <2> QED
      BY <1>2, <1>6, <2>1
  <1> QED
    BY <1>5, <1>6

\* No other step than the end of a run adds a run, and a run ends alone.
LEMMA RunsTurns ==
  ASSUME QueueOK, CommandsOnly, NEW S, NEW from, NEW to, Turns(S, from, to),
         NEW c \in CriterionIds,
         \/ to \notin {"Succeeded", "Failed"}
         \/ from = "Proposed"
         \/ \A i \in S : invocations[i].criterion # c
  PROVE  RunsOf(c)' \subseteq RunsOf(c)
  <1> SUFFICES ASSUME NEW i \in RunsOf(c)' PROVE i \in RunsOf(c)
    OBVIOUS
  <1>1. /\ i \in DOMAIN invocations
        /\ invocations'[i].state \in {"Succeeded", "Failed"}
        /\ invocations[i].criterion = c /\ invocations'[i].decision \in Approving
        /\ invocations'[i].state = IF i \in S THEN to ELSE invocations[i].state
        /\ i \notin S \/ to \notin {"Approved", "Denied"} =>
             invocations'[i].decision = invocations[i].decision
    BY DEF RunsOf, InState, Turns
  <1>2. i \notin S
    <2> SUFFICES ASSUME i \in S PROVE FALSE
      OBVIOUS
    <2>1. to \in {"Succeeded", "Failed"} /\ from = "Proposed"
      BY <1>1
    <2>2. invocations[i].decision = "None"
      BY <1>1, <2>1 DEF Turns, InState, CommandsOnly
    <2> QED
      BY <1>1, <2>1, <2>2 DEF Approving
  <1> QED
    BY <1>1, <1>2 DEF RunsOf, InState

\* An acceptance command never runs beside another call.
LEMMA RunsAlone ==
  ASSUME QueueOK, QueueOrder, CommandsOnly, NEW i \in InState({"Running"}),
         invocations[i].criterion # NoCriterion
  PROVE  InState({"Running"}) = {i}
  <1>1. /\ invocations[i].tool = "run_command"
        /\ Len(invocations) \in Nat /\ DOMAIN invocations = 1..Len(invocations)
    BY QueueDomain DEF CommandsOnly, InState
  <1> SUFFICES ASSUME NEW j \in InState({"Running"}), j # i PROVE FALSE
    OBVIOUS
  <1>2. CASE j < i
    <2>1. j \in 1..(i - 1) /\ i \in j..i
      BY <1>1, <1>2 DEF InState
    <2> QED
      BY <1>1, <2>1 DEF QueueOrder, InState, ToolTerminal
  <1>3. CASE i < j
    <2>1. i \in 1..(j - 1) /\ i \in i..j
      BY <1>1, <1>3 DEF InState
    <2> QED
      BY <1>1, <2>1 DEF QueueOrder, InState, ToolTerminal
  <1> QED
    BY <1>1, <1>2, <1>3 DEF InState

\* Every run that ends leaves its check.
LEMMA RunsNext ==
  ASSUME TypeOK, DriveRuns, Placed, CommandsOnly, EveryRunIsChecked, [Next]_vars
  PROVE  EveryRunIsChecked'
  <1> SUFFICES ASSUME NEW c \in CriterionIds
               PROVE  Cardinality(RunsOf(c)') <= Cardinality(ChecksOf(c, checks'))
    BY DEF EveryRunIsChecked, RunsOf, InState
  <1> DEFINE runs == Cardinality(RunsOf(c))
             old == Cardinality(ChecksOf(c, checks))
             new == Cardinality(ChecksOf(c, checks'))
  <1>0. QueueOK /\ checks \in Seq(Checks) /\ c # NoCriterion
    BY TypeParts, CriterionAssumption DEF TypeOK
  <1>1. IsFiniteSet(RunsOf(c)) /\ runs \in Nat /\ old \in Nat /\ runs <= old
    <2>1. RunsOf(c) \subseteq 1..Len(invocations) /\ Len(invocations) \in Nat
      BY <1>0, QueueDomain DEF RunsOf, InState
    <2>2. IsFiniteSet(RunsOf(c)) /\ runs \in Nat
      BY <2>1, PositionsFinite
    <2>3. old \in Nat
      BY <1>0, ChecksCount
    <2> QED
      BY <2>2, <2>3 DEF EveryRunIsChecked, RunsOf
  <1>2. ASSUME RunsOf(c)' \subseteq RunsOf(c), new \in {old, old + 1}
        PROVE  Cardinality(RunsOf(c)') <= new
    <2>1. Cardinality(RunsOf(c)') <= runs /\ Cardinality(RunsOf(c)') \in Nat
      BY <1>1, <1>2, FS_Subset, FS_CardinalityType
    <2> HIDE DEF old, new
    <2> QED
      BY <1>1, <1>2, <2>1
  <1>3. ASSUME checks' = checks PROVE new = old
    BY <1>3
  <1>4. ASSUME invocations' = invocations PROVE RunsOf(c)' = RunsOf(c)
    BY <1>4 DEF RunsOf, InState
  <1> HIDE DEF new, old
  <1>5. CASE Stays
    <2>1. ASSUME NEW check \in Checks, checks' = Append(checks, check)
          PROVE  new \in {old, old + 1}
      BY <1>0, <1>1, <2>1, ChecksGrow DEF new, old
    <2> QED
      BY <1>2, <1>3, <1>4, <1>5, <2>1 DEF Stays, new
  <1>6. CASE Resumes \/ Waits \/ Finishes \/ Leaves
    BY <1>2, <1>3, <1>4, <1>6 DEF Resumes, Waits, Finishes, Leaves, new
  <1>7. CASE Cancels
    <2>1. \A i \in DOMAIN invocations : invocations[i].state \in ToolStates
      BY <1>0, QueueDomain DEF Invocations
    <2>2. /\ ToolStates = NotRun \cup ToolTerminal \cup {"Running"}
          /\ {"Cancelled", "Running", "Unknown"} \cap {"Succeeded", "Failed"} = {}
      BY DEF ToolStates, NotRun, ToolTerminal
    <2>3. /\ DOMAIN invocations' = DOMAIN invocations
          /\ \A i \in DOMAIN invocations :
               /\ invocations'[i].criterion = invocations[i].criterion
               /\ invocations'[i].decision = invocations[i].decision
               /\ invocations'[i].state \in {"Succeeded", "Failed"} =>
                    invocations[i].state \in {"Succeeded", "Failed"}
      BY <1>0, <1>7, <2>1, <2>2, CancelTurns DEF Cancels
    <2>4. RunsOf(c)' \subseteq RunsOf(c)
      BY <2>3 DEF RunsOf, InState
    <2> QED
      BY <1>2, <1>3, <1>7, <2>4 DEF Cancels, CancelTask, new
  <1>8. ASSUME NEW calls, NEW criterion, Arrives(calls, criterion)
        PROVE  Cardinality(RunsOf(c)') <= Cardinality(ChecksOf(c, checks'))
    <2>1. calls \in Seq(ProposedCalls) /\ Enqueue(calls, criterion) /\ checks' = checks
      BY <1>8 DEF Arrives
    <2>2. \A i \in DOMAIN invocations : invocations'[i] = invocations[i]
      BY <1>0, <2>1, EnqueueArrives
    <2>3. \A i \in DOMAIN invocations' \ DOMAIN invocations :
            invocations'[i].decision \notin Approving
      BY <1>0, <2>1, EnqueueArrives DEF Arrived
    <2>4. RunsOf(c)' \subseteq RunsOf(c)
      BY <2>2, <2>3 DEF RunsOf, InState
    <2> QED
      BY <1>2, <1>3, <2>1, <2>4 DEF new
  <1>9. ASSUME NEW i \in DOMAIN invocations,
               Resolves(i) \/ Decides(i) \/ Asks(i) \/ Starts(i)
        PROVE  Cardinality(RunsOf(c)') <= Cardinality(ChecksOf(c, checks'))
    <2>1. RunsOf(c)' \subseteq RunsOf(c)
      BY <1>0, <1>9, RunsTurns DEF Resolves, Decides, Asks, Starts
    <2> QED
      BY <1>2, <1>3, <1>9, <2>1 DEF Resolves, Decides, Asks, Starts, new
  <1>10. CASE Proposes \/ Loses
    <2>1. RunsOf(c)' \subseteq RunsOf(c)
      BY <1>0, <1>10, RunsTurns DEF Proposes, Loses
    <2> QED
      BY <1>2, <1>3, <1>10, <2>1 DEF Proposes, Loses, new
  <1>11. ASSUME NEW to \in {"Succeeded", "Failed"}, Accepts(to)
         PROVE  Cardinality(RunsOf(c)') <= Cardinality(ChecksOf(c, checks'))
    <2>1. \A i \in InState({"AwaitingChangeReview"}) : invocations[i].criterion # c
      BY <1>0 DEF Placed, Reviewed, CommandsOnly, InState
    <2>2. RunsOf(c)' \subseteq RunsOf(c)
      BY <1>0, <1>11, <2>1, RunsTurns DEF Accepts
    <2> QED
      BY <1>2, <1>3, <1>11, <2>2 DEF Accepts, new
  <1>12. ASSUME NEW to \in {"Succeeded", "Failed"}, Ends(to)
         PROVE  Cardinality(RunsOf(c)') <= Cardinality(ChecksOf(c, checks'))
    <2> DEFINE S == InState({"Running"})
               ran == {invocations[i].criterion : i \in S} \ {NoCriterion}
    <2>1. PICK exit \in ExitCodes, fallback \in AcceptanceStatuses :
            RecordOutput(S, exit, fallback)
      BY <1>12 DEF Ends
    <2>2. CASE ran = {}
      <3>1. checks' = checks
        BY <2>1, <2>2 DEF RecordOutput
      <3>2. \A i \in S : invocations[i].criterion # c
        BY <1>0, <2>2
      <3>3. RunsOf(c)' \subseteq RunsOf(c)
        BY <1>0, <1>12, <3>2, RunsTurns DEF Ends
      <3> QED
        BY <1>2, <1>3, <3>1, <3>3 DEF new
    <2>3. CASE ran # {}
      <3>1. PICK i \in S : invocations[i].criterion # NoCriterion
        BY <2>3
      <3>2. S = {i}
        BY <1>0, <3>1, RunsAlone DEF Placed
      <3> DEFINE d == invocations[i].criterion
                 check == CheckOf(d, exit, fallback)
      <3>3. ran = {d}
        BY <3>1, <3>2
      <3>4. checks' = Append(checks, check)
        BY <2>1, <3>3 DEF RecordOutput
      <3>5. check \in Checks /\ check.criterion = d
        <4>1. d \in CriterionIds
          BY <1>0, <3>1, QueueDomain DEF Invocations, InState
        <4>2. RunCommandReport(exit)[1] = [key |-> "session_id", value |-> "id"]
          BY DEF RunCommandReport
        <4> QED
          BY <4>1 DEF CheckOf, Checks, AcceptanceStatuses
      <3> HIDE DEF check
      <3>6. new = old + (IF d = c THEN 1 ELSE 0)
        BY <1>0, <3>4, <3>5, ChecksGrow DEF new, old
      <3>7. CASE d # c
        <4>1. RunsOf(c)' \subseteq RunsOf(c)
          BY <1>0, <1>12, <3>2, <3>7, RunsTurns DEF Ends
        <4> QED
          BY <1>1, <1>2, <3>6, <3>7, <4>1 DEF new
      <3>8. CASE d = c
        <4>1. RunsOf(c)' \subseteq RunsOf(c) \cup {i}
          BY <1>12, <3>2 DEF Ends, Turns, RunsOf, InState
        <4>2. IsFiniteSet(RunsOf(c) \cup {i}) /\ Cardinality(RunsOf(c) \cup {i}) <= runs + 1
          <5>1. /\ IsFiniteSet(RunsOf(c) \cup {i})
                /\ Cardinality(RunsOf(c) \cup {i}) = IF i \in RunsOf(c) THEN runs ELSE runs + 1
            BY <1>1, FS_AddElement
          <5> HIDE DEF runs
          <5> QED
            BY <1>1, <5>1
        <4>3. /\ Cardinality(RunsOf(c)') <= Cardinality(RunsOf(c) \cup {i})
              /\ Cardinality(RunsOf(c)') \in Nat /\ Cardinality(RunsOf(c) \cup {i}) \in Nat
          BY <4>1, <4>2, FS_Subset, FS_CardinalityType
        <4>4. Cardinality(RunsOf(c)') <= new
          BY <1>1, <3>6, <3>8, <4>2, <4>3
        <4> QED
          BY <4>4 DEF new
      <3> QED
        BY <3>7, <3>8
    <2> QED
      BY <2>2, <2>3
  <1> QED
    BY <1>5, <1>6, <1>7, <1>8, <1>9, <1>10, <1>11, <1>12, Kinds, ChangeKinds
    DEF Changes, Placed

\* Every acceptance command that ran to its end has left a check in the report
\* (record_acceptance_output on each path).
THEOREM RunsAreChecked == Spec => []EveryRunIsChecked
  <1> DEFINE Counted == CommandsOnly /\ EveryRunIsChecked
  <1>1. Init => Counted
    <2> SUFFICES ASSUME Init PROVE Counted
      OBVIOUS
    <2>1. CommandsOnly
      BY DEF Init, CommandsOnly
    <2>2. ASSUME NEW c \in CriterionIds
          PROVE  /\ RunsOf(c) = {} /\ ChecksOf(c, checks) = {}
      BY DEF Init, RunsOf, InState, ChecksOf
    <2>3. Cardinality({}) <= Cardinality({})
      BY FS_EmptySet
    <2> QED
      BY <2>1, <2>2, <2>3 DEF EveryRunIsChecked, RunsOf
  <1>2. TypeOK /\ DriveRuns /\ Placed /\ Counted /\ [Next]_vars => Counted'
    BY CommandsOnlyNext, RunsNext
  <1> QED
    BY <1>1, <1>2, TypeCorrect, DriveRunsAlways, PlacedAlways, PTL DEF Spec

----------------------------------------------------------------------------
(* The queue implements ToolGate *)

StageOf(state) ==
  CASE state \in {"Proposed", "AwaitingApproval"} -> "queued"
    [] state = "Approved" -> "cleared"
    [] state \in {"Running", "AwaitingChangeReview"} -> "started"
    [] OTHER -> "over"

\* The stages of the queue, and whether the task is over.
stages == [i \in DOMAIN invocations |-> Stage(i)]
over == taskState \in TaskTerminal

\* The stages after a step that turns the calls in S.
LEMMA StagesTurn ==
  ASSUME NEW S, NEW from, NEW to, Turns(S, from, to)
  PROVE  /\ DOMAIN stages = DOMAIN invocations /\ S \subseteq DOMAIN stages
         /\ stages' = [i \in DOMAIN stages |-> IF i \in S THEN StageOf(to) ELSE stages[i]]
         /\ \A i \in S : stages[i] = StageOf(from)
  <1>1. /\ S \subseteq DOMAIN invocations /\ DOMAIN invocations' = DOMAIN invocations
        /\ \A i \in S : invocations[i].state = from
        /\ \A i \in DOMAIN invocations :
             invocations'[i].state = IF i \in S THEN to ELSE invocations[i].state
    BY DEF Turns, InState
  <1>2. /\ DOMAIN stages = DOMAIN invocations /\ DOMAIN stages' = DOMAIN invocations
        /\ \A i \in DOMAIN invocations : stages[i] = StageOf(invocations[i].state)
        /\ \A i \in DOMAIN invocations : stages'[i] = StageOf(invocations'[i].state)
        /\ stages' = [i \in DOMAIN stages' |-> stages'[i]]
    BY <1>1 DEF stages, Stage, StageOf
  <1> QED
    BY <1>1, <1>2

\* Every step of the runtime is one of the gate, or leaves it as it is.
LEMMA GateNext ==
  ASSUME TypeOK, DriveRuns, Placed, [Next]_vars
  PROVE  [Gate!Next]_(Gate!gateVars)
  <1>0. QueueOK /\ over \in BOOLEAN
    BY TypeParts DEF over
  <1>1. Gate!gateVars = <<stages, over>>
    BY DEF Gate!gateVars, stages, over
  <1>2. CASE stages' = stages /\ over' = over
    BY <1>1, <1>2 DEF stages, over, Gate!gateVars
  <1>3. ASSUME NEW S \in SUBSET DOMAIN stages, ~over,
               stages' = [i \in DOMAIN stages |-> IF i \in S THEN "over" ELSE stages[i]]
        PROVE  Gate!Next
    <2>1. Gate!End(S)
      BY <1>0, <1>3 DEF Gate!End, stages, over
    <2> QED
      BY <1>3, <2>1 DEF Gate!Next, stages
  <1>4. ASSUME NEW S, NEW from, NEW to, Turns(S, from, to), ~over,
               from \in {"Proposed", "AwaitingApproval", "Running", "AwaitingChangeReview"},
               to \in {"Succeeded", "Failed", "Denied", "Unknown"}
        PROVE  Gate!Next
    BY <1>3, <1>4, StagesTurn DEF StageOf
  <1>5. ASSUME NEW S, NEW from, NEW to, Turns(S, from, to), over' = over,
               StageOf(from) = StageOf(to)
        PROVE  stages' = stages /\ over' = over
    <2>1. stages = [i \in DOMAIN stages |-> stages[i]]
      BY DEF stages
    <2> QED
      BY <1>5, <2>1, StagesTurn
  <1>6. ASSUME NEW i \in DOMAIN invocations, NEW from \in {"Proposed", "AwaitingApproval"},
               Turns({i}, from, "Approved"), ~over, ~over'
        PROVE  Gate!Next
    <2>1. /\ i \in DOMAIN stages /\ stages[i] = "queued"
          /\ stages' = [stages EXCEPT ![i] = "cleared"]
      BY <1>6, StagesTurn DEF StageOf
    <2>2. Gate!Clear(i)
      BY <1>6, <2>1 DEF Gate!Clear, stages, over
    <2> QED
      BY <2>1, <2>2 DEF Gate!Next, stages
  <1>7. CASE Stays \/ Resumes \/ Waits \/ Leaves
    <2>1. stages' = stages
      BY <1>7 DEF Stays, Resumes, Waits, Leaves, stages, Stage
    <2>2. over' = over
      BY <1>7 DEF Stays, Resumes, Waits, Leaves, over, TaskTerminal
    <2> QED
      BY <1>2, <2>1, <2>2
  <1>8. CASE Finishes
    <2>1. stages' = stages /\ ~over
      BY <1>8 DEF Finishes, stages, Stage, over, TaskTerminal
    <2> DEFINE S == {}
    <2>2. /\ stages' = [i \in DOMAIN stages |-> IF i \in S THEN "over" ELSE stages[i]]
          /\ S \in SUBSET DOMAIN stages
      BY <2>1 DEF stages
    <2> HIDE DEF S
    <2> QED
      BY <1>3, <2>1, <2>2
  <1>9. CASE Cancels
    <2> DEFINE S == {i \in DOMAIN invocations : stages'[i] = "over"}
    <2>1. \A i \in DOMAIN invocations : invocations[i].state \in ToolStates
      BY <1>0, QueueDomain DEF Invocations
    <2>2. /\ ToolStates = NotRun \cup ToolTerminal \cup {"Running"}
          /\ "Running" \notin ToolTerminal
          /\ StageOf("Cancelled") = "over" /\ StageOf("Unknown") = "over"
          /\ \A state \in ToolTerminal : StageOf(state) = "over"
      BY DEF ToolStates, NotRun, ToolTerminal, StageOf
    <2>3. DOMAIN invocations' = DOMAIN invocations
          /\ \A i \in DOMAIN invocations :
               \/ StageOf(invocations'[i].state) = "over"
               \/ invocations'[i].state = invocations[i].state
      BY <1>0, <1>9, <2>1, <2>2, CancelTurns DEF Cancels
    <2>4. /\ DOMAIN stages = DOMAIN invocations
          /\ stages' = [i \in DOMAIN invocations |-> StageOf(invocations'[i].state)]
          /\ \A i \in DOMAIN invocations : stages[i] = StageOf(invocations[i].state)
      BY <2>3 DEF stages, Stage, StageOf
    <2>5. stages' = [i \in DOMAIN stages |-> IF i \in S THEN "over" ELSE stages[i]]
      <3> HIDE DEF stages
      <3>1. \A i \in DOMAIN invocations :
              StageOf(invocations'[i].state) = IF i \in S THEN "over" ELSE stages[i]
        BY <2>3, <2>4
      <3> QED
        BY <2>4, <3>1
    <2> QED
      BY <1>3, <1>9, <2>4, <2>5 DEF Cancels, over
  <1>10. ASSUME NEW calls, NEW criterion, Arrives(calls, criterion) PROVE Gate!Next
    <2>1. /\ calls \in Seq(ProposedCalls) /\ Enqueue(calls, criterion) /\ calls # <<>>
          /\ ~over /\ over' = over
      BY <1>10 DEF Arrives, over, DriveRuns, Idling, TaskTerminal
    <2>2. /\ Len(invocations) \in Nat /\ DOMAIN invocations = 1..Len(invocations)
          /\ Len(calls) \in Nat /\ Len(calls) > 0
          /\ DOMAIN invocations' = 1..(Len(invocations) + Len(calls))
          /\ \A i \in DOMAIN invocations : invocations'[i] = invocations[i]
      BY <1>0, <2>1, EnqueueArrives, QueueDomain
    <2>3. \A i \in DOMAIN invocations' \ DOMAIN invocations :
            invocations'[i].state \in {"Proposed", "Failed", "Denied"}
      BY <1>0, <2>1, EnqueueArrives DEF Arrived
    <2>4. /\ DOMAIN stages = 1..Len(invocations)
          /\ DOMAIN stages' = 1..(Len(invocations) + Len(calls))
          /\ \A i \in DOMAIN stages : stages'[i] = stages[i]
          /\ \A i \in DOMAIN stages' \ DOMAIN stages : stages'[i] \in {"queued", "over"}
      BY <2>2, <2>3 DEF stages, Stage
    <2>5. Len(stages) = Len(invocations) /\ Len(stages') = Len(invocations) + Len(calls)
      BY <2>2, <2>4 DEF stages
    <2>6. Len(stages') > Len(stages)
      BY <2>2, <2>5
    <2>7. Gate!Arrive
      BY <2>1, <2>4, <2>6 DEF Gate!Arrive, stages, over
    <2> QED
      BY <2>7 DEF Gate!Next
  <1>11. ASSUME NEW i \in DOMAIN invocations, Resolves(i) PROVE Gate!Next
    <2>1. ~over /\ ~over'
      BY <1>11 DEF Resolves, over, TaskTerminal
    <2> QED
      BY <1>4, <1>6, <1>11, <2>1 DEF Resolves
  <1>12. ASSUME NEW i \in DOMAIN invocations, Decides(i) PROVE Gate!Next
    <2>1. ~over /\ ~over'
      BY <1>12 DEF Decides, over, TaskTerminal, DriveRuns
    <2> QED
      BY <1>4, <1>6, <1>12, <2>1 DEF Decides
  <1>13. ASSUME NEW i \in DOMAIN invocations, Asks(i) PROVE stages' = stages /\ over' = over
    <2>1. over' = over
      BY <1>13 DEF Asks, over, TaskTerminal, DriveRuns
    <2> QED
      BY <1>5, <1>13, <2>1 DEF Asks, StageOf
  <1>14. ASSUME NEW f \in DOMAIN invocations, Starts(f) PROVE Gate!Next
    <2> DEFINE S == StartsWith(f)
    <2>1. ~over /\ over' = over /\ Execute(f) /\ f \in S
          /\ Turns(S, "Approved", "Running")
      BY <1>14 DEF Starts, Execute, over, TaskTerminal, DriveRuns
    <2>2. /\ S \in SUBSET DOMAIN stages /\ \A i \in S : stages[i] = "cleared"
          /\ stages' = [i \in DOMAIN stages |-> IF i \in S THEN "started" ELSE stages[i]]
      BY <2>1, StagesTurn DEF StageOf
    <2>3. ASSUME NEW i \in S, NEW j \in 1..(i - 1) PROVE j \in S \/ stages[j] = "over"
      <3>1. \/ invocations[j].state \in ToolTerminal
            \/ j \in S
        BY <1>0, <2>1, StartsTogether DEF Placed
      <3>2. j \in DOMAIN invocations
        BY <1>0, <2>1, QueueDomain DEF Turns, InState
      <3> QED
        BY <3>1, <3>2 DEF stages, Stage, ToolTerminal
    <2> HIDE DEF S
    <2>4. Gate!Start(S)
      BY <2>1, <2>2, <2>3 DEF Gate!Start, stages, over
    <2> QED
      BY <2>2, <2>4 DEF Gate!Next, stages
  <1>15. ASSUME NEW to \in {"Succeeded", "Failed"}, Ends(to) \/ Accepts(to) PROVE Gate!Next
    <2>1. ~over
      BY <1>15 DEF Ends, Accepts, over, TaskTerminal, DriveRuns
    <2> QED
      BY <1>4, <1>15, <2>1 DEF Ends, Accepts
  <1>16. CASE Proposes
    <2>1. over' = over
      BY <1>16 DEF Proposes, over, TaskTerminal, DriveRuns
    <2>2. stages' = stages
      BY <1>5, <1>16, <2>1 DEF Proposes, StageOf
    <2> QED
      BY <1>2, <2>1, <2>2
  <1>17. CASE Loses
    <2>1. ~over
      BY <1>17 DEF Loses, over, TaskTerminal, DriveRuns
    <2> QED
      BY <1>4, <1>17, <2>1 DEF Loses
  <1> QED
    BY <1>2, <1>7, <1>8, <1>9, <1>10, <1>11, <1>12, <1>13, <1>14, <1>15, <1>16, <1>17,
      Kinds, ChangeKinds DEF Changes, Placed

\* Whatever replies, decisions and interruptions come, the queue of the runtime
\* behaves as ToolGate allows.
THEOREM GateIsImplemented == Spec => ImplementsGate
  <1>1. Init => Gate!Init
    BY DEF Init, Gate!Init, TaskTerminal
  <1>2. TypeOK /\ DriveRuns /\ Placed /\ [Next]_vars => [Gate!Next]_(Gate!gateVars)
    BY GateNext
  <1>3. Spec => Gate!GateSpec
    BY <1>1, <1>2, TypeCorrect, DriveRunsAlways, PlacedAlways, PTL DEF Spec, Gate!GateSpec
  <1> QED
    BY <1>3 DEF ImplementsGate
============================================================================
