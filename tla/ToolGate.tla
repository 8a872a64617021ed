------------------------------ MODULE ToolGate ------------------------------
(***************************************************************************)
(* What the task runtime promises about the tool calls of one task,        *)
(* whatever the model asks for and whenever the user interrupts: calls are *)
(* kept in the order they arrived, a call starts only after it was cleared *)
(* and after every earlier call is over, calls started together are        *)
(* consecutive, a call that is over stays over, and once the task halts    *)
(* nothing is queued, cleared or started any more.                         *)
(***************************************************************************)
EXTENDS Integers, Sequences

VARIABLES
  stage,    \* the stage of every call, in the order of arrival
  halted    \* the task reached a terminal state

gateVars == <<stage, halted>>

Stages == {"queued", "cleared", "started", "over"}

Init == stage = <<>> /\ halted = FALSE

\* Calls arrive at the end of the queue; some are refused on arrival.
Arrive ==
  /\ ~halted
  /\ Len(stage') > Len(stage)
  /\ \A i \in DOMAIN stage : stage'[i] = stage[i]
  /\ \A i \in DOMAIN stage' \ DOMAIN stage : stage'[i] \in {"queued", "over"}
  /\ UNCHANGED halted

\* A decision clears one queued call.
Clear(i) ==
  /\ ~halted
  /\ stage[i] = "queued"
  /\ stage' = [stage EXCEPT ![i] = "cleared"]
  /\ UNCHANGED halted

\* Cleared calls start together when all calls before and between are over.
Start(S) ==
  /\ ~halted
  /\ S # {}
  /\ \A i \in S : stage[i] = "cleared"
  /\ \A i \in S : \A j \in 1..(i - 1) : j \in S \/ stage[j] = "over"
  /\ stage' = [i \in DOMAIN stage |-> IF i \in S THEN "started" ELSE stage[i]]
  /\ UNCHANGED halted

\* Calls end, however far they came; the task may halt in the same step.
End(S) ==
  /\ ~halted
  /\ stage' = [i \in DOMAIN stage |-> IF i \in S THEN "over" ELSE stage[i]]
  /\ halted' \in BOOLEAN

Next ==
  \/ Arrive
  \/ \E i \in DOMAIN stage : Clear(i)
  \/ \E S \in SUBSET DOMAIN stage : Start(S) \/ End(S)

GateSpec == Init /\ [][Next]_gateVars

=============================================================================
