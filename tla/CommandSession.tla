--------------------------- MODULE CommandSession ---------------------------
(***************************************************************************)
(* The command sessions of one task: the registry of the terminal service  *)
(* and its processes (crates/termior-terminal/src/service.rs, with the     *)
(* states of crates/termior-terminal-core/src/command.rs), the tools of    *)
(* the executor that use it (crates/termior-ai/src/executor.rs), and the   *)
(* take-over and hand-back of a session by the user                        *)
(* (crates/termior-ui/src/composer_view/task_details.rs, terminal_view.rs).*)
(*                                                                         *)
(* Threads: the task's own, which drives it and executes a tool; a worker  *)
(* beside it for run_command and shell_session_run, while the task's       *)
(* thread polls for a cancellation; the watcher or reader of each process; *)
(* and the main thread, which is the user's.  A step of the model is what  *)
(* runs under one lock.                                                    *)
(*                                                                         *)
(* The drive loop is TaskRuntime's: here it takes the next call, pauses,   *)
(* ends or is cancelled.  Output, cursors, resizing and the tools that     *)
(* only read are left out; so is release, which only tests call.  A tool   *)
(* gets the ID of any session, as the model may name any.                  *)
(***************************************************************************)
EXTENDS FiniteSets, Naturals

CONSTANTS
  Commands,   \* sessions with a process of their own: run_command, shell_bg_spawn
  Shells,     \* persistent shells of the task, each in a PTY
  Panes,      \* the user's terminal panes
  None,       \* no session
  Faults      \* what the operating system may refuse: "spawn", "write", "kill"

ASSUME SessionAssumption ==
  /\ Commands \cap Shells = {} /\ Panes \cap (Commands \cup Shells) = {}
  /\ None \notin Commands \cup Shells \cup Panes
  /\ Faults \subseteq {"spawn", "write", "kill"}

Owned == Commands \cup Shells    \* CommandOwner::Task
Ptys == Shells \cup Panes        \* they take input
Sessions == Owned \cup Panes

VARIABLES
  state,       \* CommandState of each session, "none" before it is registered
  controller,  \* who may write to it
  listed,      \* the sessions whose process or PTY kill finds
  live,        \* the processes that run (those of the user's panes do not matter)
  shell,       \* executor.shell, the persistent shell in use
  claimed,     \* executor.claimed_sessions
  phase,       \* of the task's thread
  outcome,     \* how the task ended
  paused,      \* the session it waits for, in phase "paused"
  cancelled,   \* the cancellation token
  polled,      \* the poll of this call has seen it
  call,        \* the tool call under way
  killer,      \* the killing of sessions under way
  handing,     \* the session whose hand-back the main thread is about to register
  taken,       \* for each pane, whether the user took it from the task, and was seen to
  late         \* for each session, the task's writes since the user has it

registry == <<state, controller, listed, live>>
executor == <<shell, claimed, call, polled>>
task == <<phase, outcome, paused, cancelled>>
user == <<handing, taken, late>>
vars == <<registry, executor, task, killer, user>>

\* CommandState::is_terminal, of the states a session of this service reaches.
Stopped == {"Exited", "Terminated"}
Over(s) == state[s] \in Stopped \cup {"Unknown"}
Known(s) == state[s] # "none"

NoCall == [tool |-> "none", id |-> None, at |-> "done"]
NoKill == [by |-> "nobody", todo |-> {}, at |-> None, failed |-> FALSE, sure |-> TRUE]

Init ==
  /\ state = [s \in Sessions |-> IF s \in Panes THEN "Running" ELSE "none"]
  /\ controller = [s \in Sessions |-> IF s \in Panes THEN "user" ELSE "task"]
  /\ listed = {} /\ live = {}
  /\ shell = None /\ claimed = {} /\ call = NoCall /\ polled = FALSE
  /\ phase = "loop" /\ outcome = "none" /\ paused = None /\ cancelled = FALSE
  /\ killer = NoKill
  /\ handing = None
  /\ taken = [s \in Panes |-> "never"]
  /\ late = [s \in Sessions |-> 0]

----------------------------------------------------------------------------
(* Killing sessions: kill_task, command_kill *)

StartKill(by, todo) == killer' = [NoKill EXCEPT !.by = by, !.todo = todo]

\* Mutant: the sessions that the task controls, which is not those it created.
Controlled == {s \in Sessions : controller[s] = "task" /\ Known(s) /\ ~Over(s)}

\* The snapshot of kill_task.
ToKill == {s \in Owned : Known(s) /\ ~Over(s)}

\* kill_task is through with s.
Verified(s, sure) ==
  killer' = [killer EXCEPT !.todo = @ \ {s}, !.at = None, !.failed = FALSE,
                           !.sure = @ /\ sure]

\* The process of s does not die: kill says so, or marks the session.
Resists(s) ==
  /\ s \in Shells \/ s \in live
  /\ s \in live => "kill" \in Faults
  /\ UNCHANGED <<live, state>>
  /\ IF s \in Shells THEN killer' = [killer EXCEPT !.at = s, !.failed = TRUE]
     ELSE Verified(s, FALSE)

\* kill, up to the process: nothing to do, nothing to find, a command that ended by
\* itself, or the operating system's kill.
KillProcess(s) ==
  /\ s \in killer.todo /\ killer.at = None
  /\ \/ /\ Over(s) /\ Verified(s, state[s] \in Stopped) /\ UNCHANGED <<live, state>>
     \/ /\ ~Over(s) /\ s \notin listed
        /\ Verified(s, FALSE) /\ UNCHANGED <<live, state>>
     \/ /\ ~Over(s) /\ s \in (listed \cap Commands) \ live
        /\ state' = [state EXCEPT ![s] = "Exited"]
        /\ Verified(s, TRUE) /\ UNCHANGED live
     \/ /\ ~Over(s) /\ s \in listed /\ (s \in Shells \/ s \in live)
        /\ live' = live \ {s}
        /\ killer' = [killer EXCEPT !.at = s, !.failed = FALSE] /\ UNCHANGED state
     \/ ~Over(s) /\ s \in listed /\ Resists(s)
  /\ UNCHANGED <<controller, listed, executor, task, user>>

\* What kill makes of a session that may have ended meanwhile.
Mark(s) == IF Over(s) THEN state[s] ELSE IF killer.failed THEN "Unknown" ELSE "Terminated"

\* The rest of kill, and kill_task's look at what became of it.
KillMarks ==
  /\ killer.at # None
  /\ state' = [state EXCEPT ![killer.at] = Mark(killer.at)]
  /\ Verified(killer.at, Mark(killer.at) \in Stopped)
  /\ UNCHANGED <<controller, listed, live, executor, task, user>>

\* executor.shell is locked by shell_session_run to its end.
ShellLocked == call.tool = "shell" /\ call.at # "done"

KillEnds(by) ==
  /\ killer.by = by /\ killer.todo = {}
  /\ killer' = NoKill

----------------------------------------------------------------------------
(* The task's thread: drive, cancel *)

\* Only after cancel_active is the task over; the one of execute counted for nothing.
CancelEnds ==
  /\ KillEnds("task")
  /\ shell' = None
  /\ phase' = "over" /\ outcome' = IF killer.sure THEN "Cancelled" ELSE "Unknown"
  /\ UNCHANGED <<registry, claimed, call, polled, paused, cancelled, user>>

Cancels == phase' = "cancelling" /\ paused' = None /\ StartKill("task", ToKill)

\* user_control_interrupt: the claims that are still good, and those the user broke.
Broken == {s \in claimed : ~Over(s) /\ controller[s] # "task"}
Kept == {s \in claimed : ~Over(s)}

\* Mutant: every broken claim is given up with the first one.
KeptUnbroken(s) == {c \in Kept : controller[c] = "task"}

\* One broken claim is reported and given up, the others wait for the next time.
KeptBut(s) == Kept \ {s}

Taken(s, how) == IF s \in Panes THEN [taken EXCEPT ![s] = how] ELSE taken

Pauses(s) ==
  /\ claimed' = KeptBut(s)
  /\ taken' = Taken(s, "seen")
  /\ phase' = "paused" /\ paused' = s
  /\ UNCHANGED <<outcome, killer, shell, call, polled, handing, late>>

\* The task goes on with the next call of the model, or is complete.
GoesOn ==
  /\ Broken = {} /\ claimed' = Kept
  /\ \/ phase' = "call" /\ UNCHANGED outcome
     \/ phase' = "over" /\ outcome' = "Completed"
  /\ UNCHANGED <<paused, killer, shell, call, polled, user>>

Drive ==
  /\ phase = "loop"
  /\ \/ cancelled /\ Cancels /\ UNCHANGED <<outcome, executor, user>>
     \/ ~cancelled /\ \E s \in Broken : Pauses(s)
     \/ ~cancelled /\ GoesOn
  /\ UNCHANGED <<registry, cancelled>>

\* execute begins, unless the task was cancelled since.
Calls(tool, s, at) ==
  /\ phase = "call" /\ ~cancelled
  /\ phase' = "tool" /\ call' = [tool |-> tool, id |-> s, at |-> at]
  /\ UNCHANGED <<registry, shell, claimed, polled, outcome, paused, cancelled, user>>

RunCommand(s) == s \in Commands /\ ~Known(s) /\ Calls("run", s, "spawn") /\ UNCHANGED killer
BgSpawn(s) == s \in Commands /\ ~Known(s) /\ Calls("background", s, "spawn") /\ UNCHANGED killer
ShellRun(s) ==
  /\ IF shell = None THEN s \in Shells /\ ~Known(s) ELSE s = shell
  /\ Calls("shell", s, IF shell = None THEN "spawn" ELSE "check")
  /\ UNCHANGED killer
CommandWait(s) == Known(s) /\ Calls("wait", s, "wait") /\ UNCHANGED killer
\* Others take no input, and a claim of them changes nothing.
WriteInput(s) == s \in Ptys /\ Known(s) /\ Calls("input", s, "check") /\ UNCHANGED killer
CommandClaim(s) == s \in Ptys /\ Known(s) /\ Calls("claim", s, "claim") /\ UNCHANGED killer
CommandKill(s) == Known(s) /\ Calls("kill", s, "kill") /\ StartKill("tool", {s})

NotExecuted ==
  /\ phase = "call" /\ cancelled /\ phase' = "loop"
  /\ UNCHANGED <<registry, executor, outcome, paused, cancelled, killer, user>>

\* The poll of execute sees the token; the worker may have finished since it looked.
PollCancels ==
  /\ phase = "tool" /\ cancelled /\ call.tool \in {"run", "shell"} /\ ~polled
  /\ polled' = TRUE /\ StartKill("poll", ToKill)
  /\ UNCHANGED <<registry, shell, claimed, call, task, user>>

\* Its cancel_active then waits for the lock of the shell, and nobody asks what it found.
PollEnds ==
  /\ KillEnds("poll") /\ ~ShellLocked
  /\ shell' = None
  /\ UNCHANGED <<registry, claimed, call, polled, task, user>>

KillToolEnds ==
  /\ KillEnds("tool")
  /\ call' = [call EXCEPT !.at = "done"]
  /\ UNCHANGED <<registry, shell, claimed, polled, task, user>>

\* The worker is joined and its result recorded.
Returns ==
  /\ phase = "tool" /\ call.at = "done" /\ killer = NoKill
  /\ phase' = "loop" /\ call' = NoCall /\ polled' = FALSE
  /\ UNCHANGED <<registry, shell, claimed, outcome, paused, cancelled, killer, user>>

Begins(s) ==
  \/ RunCommand(s) \/ BgSpawn(s) \/ ShellRun(s)
  \/ CommandWait(s) \/ WriteInput(s) \/ CommandClaim(s) \/ CommandKill(s)

Runtime ==
  \/ Drive \/ NotExecuted \/ Returns \/ (\E s \in Sessions : Begins(s))
  \/ PollCancels \/ PollEnds \/ KillToolEnds \/ CancelEnds

----------------------------------------------------------------------------
(* The tool call under way: in the worker, or in the task's thread *)

At(place) == phase = "tool" /\ call.at = place
GoTo(place) == call' = [call EXCEPT !.at = place]

Spawn ==
  /\ At("spawn")
  /\ \/ live' = live \cup {call.id} /\ GoTo("register")
     \/ "spawn" \in Faults /\ GoTo("done") /\ UNCHANGED live
  /\ UNCHANGED <<state, controller, listed, shell, claimed, polled>>
  /\ UNCHANGED <<task, killer, user>>

\* create_with_capabilities: from now on the session is seen by kill_task.
Register ==
  /\ At("register")
  /\ state' = [state EXCEPT ![call.id] = "Running"]
  /\ controller' = [controller EXCEPT ![call.id] = "task"]
  /\ GoTo("publish")
  /\ UNCHANGED <<listed, live, shell, claimed, polled, task, killer, user>>

\* Where a call goes with its new session.
Then ==
  CASE call.tool = "run" -> "wait" [] call.tool = "shell" -> "check" [] OTHER -> "done"

\* From now on kill finds it, and its end is noticed.  The first line written to a PTY
\* may fail; then the executor never learns of the session.
Publish ==
  /\ At("publish")
  /\ listed' = listed \cup {call.id}
  /\ \/ /\ GoTo(Then)
        /\ shell' = IF call.tool = "shell" THEN call.id ELSE shell
     \/ /\ call.tool = "shell" /\ ("write" \in Faults \/ call.id \notin live)
        /\ GoTo("done") /\ UNCHANGED shell
  /\ UNCHANGED <<state, controller, live, claimed, polled, task, killer, user>>

\* Mutant: only what is waited for ends a wait.
Never == FALSE

\* COMMAND_TIMEOUT, or the one that the model gave, may be over at any moment.
TimedOut == TRUE

\* wait and collect_until_marker.
Waited ==
  /\ At("wait") \/ At("collect")
  /\ \/ Over(call.id) \/ TimedOut
     \/ call.at = "collect" /\ call.id \in live    \* the marker came
  /\ GoTo("done")
  /\ UNCHANGED <<registry, shell, claimed, polled, task, killer, user>>

\* Mutant: the owner of a session may write to it.
MayWriteOwned(s) == controller[s] = "task" \/ s \in Owned

MayWrite(s) == controller[s] = "task"

\* write_stdin of the registry; the lock is released before the bytes are written.
CheckWrite ==
  /\ At("check")
  /\ GoTo(IF MayWrite(call.id) THEN "write" ELSE "done")
  /\ UNCHANGED <<registry, shell, claimed, polled, task, killer, user>>

Write ==
  /\ At("write")
  /\ \/ /\ late' = [late EXCEPT ![call.id] = IF controller[call.id] = "user" THEN @ + 1 ELSE 0]
        /\ GoTo(IF call.tool = "shell" THEN "collect" ELSE "done")
     \/ /\ "write" \in Faults \/ call.id \in Shells \ live
        /\ GoTo("done") /\ UNCHANGED late
  /\ UNCHANGED <<registry, shell, claimed, polled, task, killer, handing, taken>>

\* command_claim: control first, then the claim.
TakesControl ==
  /\ At("claim")
  /\ controller' = [controller EXCEPT ![call.id] = "task"]
  /\ late' = [late EXCEPT ![call.id] = 0]
  /\ GoTo("claimed")
  /\ UNCHANGED <<state, listed, live, shell, claimed, polled, task, killer>>
  /\ UNCHANGED <<handing, taken>>

Claims(s) == claimed \cup {s}

RegistersClaim ==
  /\ At("claimed")
  /\ claimed' = Claims(call.id)
  /\ GoTo("done")
  /\ UNCHANGED <<registry, shell, polled, task, killer, user>>

Worker ==
  \/ Spawn \/ Register \/ Publish \/ Waited
  \/ CheckWrite \/ Write \/ TakesControl \/ RegistersClaim

----------------------------------------------------------------------------
(* The world: processes, their watchers and the user *)

Dies(s) ==
  /\ s \in live /\ live' = live \ {s}
  /\ UNCHANGED <<state, controller, listed, executor, task, killer, user>>

\* spawn_watcher, the end of a PTY's output, the end of a pane's.  A persistent shell
\* tells no exit code.
Noticed(s) ==
  /\ s \in (listed \cup Panes) \ live /\ ~Over(s)
  /\ state' = [state EXCEPT ![s] = IF s \in Commands THEN "Exited" ELSE "Unknown"]
  /\ taken' = Taken(s, "never")
  /\ UNCHANGED <<controller, listed, live, executor, task, killer, handing, late>>

\* By a button, or by typing.
TakeOver(s) ==
  /\ handing = None
  /\ s \in Ptys /\ Known(s) /\ ~Over(s) /\ controller[s] = "task" /\ phase # "over"
  /\ controller' = [controller EXCEPT ![s] = "user"]
  /\ taken' = Taken(s, "unseen")
  /\ late' = [late EXCEPT ![s] = 0]
  /\ UNCHANGED <<state, listed, live, executor, task, killer, handing>>

\* hand_back_to_task.  A pane offers it as long as it remembers the task, the details of
\* the task only for the session it waits for.
HandBack(s) ==
  /\ handing = None /\ phase # "over"
  /\ Known(s) /\ ~Over(s) /\ controller[s] = "user"
  /\ IF s \in Panes THEN taken[s] # "never" ELSE paused = s
  /\ controller' = [controller EXCEPT ![s] = "task"]
  /\ late' = [late EXCEPT ![s] = 0]
  /\ handing' = s
  /\ UNCHANGED <<state, listed, live, executor, task, killer, taken>>

\* The claim, and the command that wakes the task if it waits for this session.
HandedBack ==
  /\ handing # None
  /\ claimed' = Claims(handing) /\ handing' = None
  /\ IF phase = "paused" /\ paused = handing
     THEN phase' = "loop" /\ paused' = None
     ELSE UNCHANGED <<phase, paused>>
  /\ UNCHANGED <<registry, shell, call, polled, outcome, cancelled, killer, taken, late>>

\* The user goes on without handing back.
Continue ==
  /\ handing = None /\ phase = "paused"
  /\ phase' = "loop" /\ paused' = None
  /\ UNCHANGED <<registry, executor, outcome, cancelled, killer, user>>

\* A task that runs is told by its token, one that waits by a command.
Stop ==
  /\ handing = None /\ ~cancelled /\ phase \in {"loop", "call", "tool", "paused"}
  /\ cancelled' = TRUE
  /\ IF phase = "paused" THEN Cancels ELSE UNCHANGED <<phase, paused, killer>>
  /\ UNCHANGED <<registry, executor, outcome, user>>

World ==
  \/ \E s \in Sessions : Dies(s) \/ Noticed(s) \/ TakeOver(s) \/ HandBack(s)
  \/ HandedBack \/ Continue \/ Stop

Killing == KillMarks \/ \E s \in Sessions : KillProcess(s)

Next == Runtime \/ Killing \/ Worker \/ World

Spec == Init /\ [][Next]_vars

\* The threads of the task run.  The user and the processes owe nothing, nor do watchers.
FairSpec == Spec /\ WF_vars(Runtime) /\ WF_vars(Killing) /\ WF_vars(Worker)

----------------------------------------------------------------------------
(* Properties *)

CallType ==
  [tool : {"none", "run", "background", "shell", "wait", "input", "claim", "kill"},
   id : Sessions \cup {None},
   at : {"spawn", "register", "publish", "wait", "collect", "check", "write",
         "claim", "claimed", "kill", "done"}]
KillType ==
  [by : {"nobody", "poll", "task", "tool"}, todo : SUBSET Sessions,
   at : Sessions \cup {None}, failed : BOOLEAN, sure : BOOLEAN]

TypeOK ==
  /\ state \in [Sessions -> {"none", "Running", "Unknown"} \cup Stopped]
  /\ controller \in [Sessions -> {"task", "user"}]
  /\ listed \subseteq Owned /\ live \subseteq Owned
  /\ shell \in Sessions \cup {None} /\ claimed \subseteq Sessions /\ polled \in BOOLEAN
  /\ call \in CallType /\ killer \in KillType
  /\ phase \in {"loop", "call", "tool", "paused", "cancelling", "over"}
  /\ outcome \in {"none", "Completed", "Cancelled", "Unknown"}
  /\ paused \in Sessions \cup {None} /\ cancelled \in BOOLEAN
  /\ handing \in Sessions \cup {None}
  /\ taken \in [Panes -> {"never", "unseen", "seen"}]
  /\ late \in [Sessions -> Nat]

\* A task that is said to be cancelled has left no process behind, at whatever point of
\* its creation or of its end a session was, except one that is said to be unknown.
CancelledLeavesNothing ==
  outcome = "Cancelled" => \A s \in live : state[s] = "Unknown"

\* No call begins, and the task does not end, while it does not know that the user took a
\* pane from it that still runs and that it did not get back.
TakeOverIsReported ==
  [][phase = "loop" /\ (phase' = "call" \/ outcome' = "Completed") =>
       \A s \in Panes : ~(taken[s] = "unseen" /\ controller[s] = "user" /\ ~Over(s))]_vars

\* Once the user has a session, one write of the task may land in it, which was checked
\* before, and no other.
AtMostOneLateWrite == \A s \in Sessions : late[s] <= 1

\* A task that the user stops comes to an end, although cancel_active waits for the lock
\* that the worker holds and the worker for a process that nobody could kill.
StopIsHonoured == cancelled ~> phase = "over"

============================================================================
