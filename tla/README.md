# A verification project for Termior

Termior is a desktop terminal and workspace written in Rust (GPUI) with a
built-in coding agent. This directory holds TLA+ models of the part of it whose
correctness is a matter of *order* - the agent: tasks, their tool calls, the
consent they need, what the user may do while they run, and what is left of them
when the application stops; and around them the child tasks, the automations, the
sessions with external agents and the processes the agent runs.

* `*.tla` - specifications and proofs; `MC*.tla` - instances for TLC;
  `*.cfg` - one file for each run; `PROJECT.json` - the index: components, runs,
  hazards, theorems, findings, and for every definition the lines it models.
* Paths are relative to the repository. `ai` stands for `crates/termior-ai/src`,
  `store` for `crates/termior-store/src`, `ui` for `crates/termior-ui/src`,
  `host` for `crates/termior-agent-host/src`, `terminal` for `crates/termior-terminal/src`.

Every safety invariant and every action property that a passing run checks on a small
instance is also proved for all values of the constants; the runs alone stand for
liveness. The type invariants (`TypeOK`) and `TerminalIsFinal` are in no run of the list:
they are proved only.

To check a run: `tlc -workers 2 -config runtime_prompt.cfg MCTaskRuntime`.
To check the proofs: `tlapm TaskRuntimeProofs.tla`, and so for each `*Proofs` module.

Contents: 1 inventory, 2 plan, 3 the task runtime, 4 the task journal, 5 change
sets and checkpoints, 6 orchestration, 7 automations, 8 external agent sessions,
9 command sessions, 10 the proofs, 11 where code and documents disagree, 12 what is
left out.


## 1. Inventory

The rightmost column of each table says what makes the component correct.

### The agent

| Component | State | Operations | Interacts with | Hard because | Correct when |
|---|---|---|---|---|---|
| **Task runtime** `ai/runtime.rs`, `ai/task.rs` | `Task` (state, waiting reason, turn, budgets, usage, acceptance report), queue of `ToolInvocation`s, history of messages, cancellation token, `verification_started`, `persistence_error` | `handle(RuntimeCommand)`: start, resolve approval, review change, record acceptance, increase budgets, wait, continue, cancel; `drive`, the loop behind most of them | provider (stream), tool executor, journal, hooks; UI sends commands and cancels from another thread | cancellation and take-over between any two steps; a dozen returns out of one loop; policy changes between commands; failures of provider, hook, executor and journal | no call that needs consent starts without it; calls run in order; every state change is legal; a finished task stays finished; a command always returns, never with a task nobody drives; verified means evidence |
| **Task journal and recovery** `store/task_journal.rs`, `store/recovery.rs`, `runtime.rs: emit .. recover_journal` | `events.jsonl`, `snapshot.json`, memory of the runtime | append, write_snapshot, recover (cuts a partial tail), `recover_journal` (replay), `RecoveryCenter::scan` / `apply` | runtime writes; recovery center reads after a restart | a stop between any two writes; a failed write followed by more events; replay and runtime are two programs for one state | nothing runs twice; what had started is never offered again; replay gives the state the runtime had |
| **Built-in executor and change sets** `ai/executor.rs`, `crates/termior-diff` | pending proposals with file baselines, command session manager, claimed session | execute, propose, `accept_edit`, reject, cancel, `user_control_interrupt` | runtime, checkpoints, command sessions, the user's own edits on disk | check-then-write over several files; a proposal lives in memory only | only the text that was reviewed is overwritten; what was replaced can be got back |
| **Checkpoints** `store/checkpoint.rs` | stored pre-images per task and turn | create, plan_restore, restore | executor, UI | restore against newer edits | restore never destroys an edit it did not report |
| **Orchestration** `ai/orchestration.rs` | task graph, scheduler slots, worker threads, records | add, refresh, next_ready, cancel_tree, delete_record, complete, restart | runs child runtimes | completion arrives after cancel, delete or restart | limits hold; a child runs only after its prerequisites; terminal states are final |
| **Automation** `ai/automation.rs` | definitions, runs, queue, in one file replaced as a whole | trigger, dedupe, catch_up, claim_queued, complete_run, enqueue_retry, recover_interrupted | clock, UI composer | restart between claim and completion, clock jumps, limits | one run for one occurrence; limits hold; an interrupted run is not repeated silently |
| **External agent sessions** `host/transport.rs`, `host/session.rs`, `host/restore.rs` | request table, pending responses, event queue, session state, restore records | request, next_event, pump, respond, cancel, restore | agent processes on stdio | late answers after a timeout, cancel racing the end of a turn | an answer is taken only for its request; a turn sees only its own events |
| **Retention and leases** `store/retention.rs`, `task_journal.rs: compact_finished` | lease files, journals of finished tasks | acquire, release, plan, compact, delete | all stores | a lease is checked, then the files are changed | what a live session uses is never removed |
| **Command sessions** `terminal/service.rs`, `bridge.rs`, `crates/termior-terminal-core/src/command.rs` | state and controller of each session, the processes and PTYs, output ring and cursors; in the executor the persistent shell and the claims | create, kill, `kill_task`, wait, write, claim, take over, hand back | executor, runtime, user, operating system | a session is created, killed, waited for and written to by different threads; spawns, writes and kills fail | a cancelled task leaves no process; one controller at a time; a take-over is told; a stop comes to an end |
| **Composer and orchestrator of the UI** `ui/composer_view/` | active task, its commands, cards | `begin_task_command`, `stop_active_task`, policy per command | runtime | the stop button acts without the runtime's lock | a stop reaches the command in progress |
| **Providers** `ai/provider.rs`, `ai/http_provider.rs` | none between requests | `stream_chat` | runtime | a stream may break after progress | an error keeps its progress flag |
| **Tool contracts and gates** `ai/tools.rs`, `crates/termior-security` | none | approval class of a tool, argument and path checks | runtime | text rules | - |
| **Context, rules, skills, memory** `ai/context_engine.rs`, `ai/composer.rs`, ... | caches | build the prompt, compact the history | runtime | text | the answers of open calls are kept |
| **Environments and worktrees** `host/environment.rs`, `crates/termior-vcs/src/worktree.rs` | git worktrees | create, apply, remove with a rollback | git | partial failure | a failed step is undone |
| **MCP client and OAuth** `host/mcp.rs`, `host/mcp_oauth.rs` | cache of tools, tokens | connect, list, call | network | the other side's protocol | - |
| **Hooks** `crates/termior-hooks` | none | run a process, read its verdict | runtime | time limits | a refusal is obeyed |

### The workspace

| Component | State | Why it is not a subject of this project |
|---|---|---|
| PTY and shell integration | parsers, handles | byte streams; order matters little, text much |
| Settings, keymap, collections, migration | whole-file stores | one writer each, replaced atomically |
| File explorer and index, editor, git access | in-memory views | single-threaded, unit-tested |
| SSH, SFTP, port forwarding | OpenSSH processes, transfers | wire formats; resumable transfers are a candidate |
| Workspace views, theme, i18n, preview, platform, UI kit, bench | GPUI entities, tables | presentation |

### How the agent's components interact

```
 user ----commands, stop, take-over----> composer (ui) --handle()--> TaskRuntime
                                                                      |  |  |
       provider <---stream_chat (up to 3 attempts)--------------------+  |  |
       executor <---execute / accept_edit / cancel-----------------------+  |
       journal  <---append, snapshot for every critical event---------------+
                         |
                    after a restart: RecoveryCenter (snapshot only), recover_journal
```

`handle` holds the runtime for the whole of a command, so commands do not
interleave with one another. What does interleave with a command are: the
cancellation token (an atomic flag the UI sets without asking the runtime), a
user who takes a claimed terminal over, the outcome of streams and tools, a journal
that starts to fail, and the end of the process. These are what the models
interleave.

Around the runtime, three more places run side by side: the orchestrator's thread
and its workers, the automation host and the runs it has claimed, and the composer,
the worker of a command and the process of an external agent.

The list of hazards with their lines is in `PROJECT.json`. Those with no
property say why.


## 2. Plan

| # | Module | Models | Composes / abstract specification | State |
|---|---|---|---|---|
| 1 | `TaskModel` | states and edges of tasks and tools, completion from checks | used by 2 and 4 | done |
| 2 | `TaskRuntime` | `handle`, `drive` and the executor as environment | implements `ToolGate` | done, see section 12 for the branches left out |
| 3 | `ToolGate` | abstract: what the queue of calls promises | - | done |
| 4 | `TaskJournal` | events, journal, snapshot, crash, recovery | the runtime's handlers as sequences of events | done |
| 5 | `ChangeSet` | proposal, baseline check, checkpoint, file-by-file write, restore, other programs of the user | - | done |
| 6 | `TaskRuntimeProofs`, `TaskQueueProofs`, `TaskJournalProofs`, `ChangeSetProofs` | theorems | extend 2, 4 and 5; the second also proves the refinement of 3 | all safety properties |
| 7 | `Orchestration`, `OrchestrationProofs` | task graph, slots, workers, cancel, delete, the user's task tree | two books of one thing (graph and scheduler; graph and tree) are compared | done, see section 12; all safety properties proved |
| 8 | `AgentSession` | composer, managed session, transport, agent | - | done for Codex |
| 9 | `AgentRecovery`, `AgentSessionProofs` | checkpoints, query, restart, recovery center | extends 8 with a store and a restart | done, all safety properties of both proved |
| 10 | `Automation`, `AutomationProofs` | schedule, dedupe, claims, retries, failing saves, restart | - | done, all safety properties proved |
| 11 | `CommandSession`, `CommandSessionProofs` | registry, processes, tools, cancellation, the user | the task's thread, its worker, the watchers and the user | done, three theorems |
| 12 | `Retention` | leases and compaction against an opening session | - | not planned any more: one check and one replacement of a file |

Each of 7 to 10 was first checked with larger bounds than its run has, see the
sections; the runs are sized to end within a minute or two.

Worth proving next: that the exceptions which the properties name are the only ones in
the steps that lead to them (a failed journal and the call it leaves `Running`; Yolo's own
acceptance of a change set), and more of what the user's task tree and the graph have in common after
several cancellations. Worth modelling next: the integration queue and the write leases of
the orchestrator, and a scan of the recovery center while a task runs.

Observations from reading that are not yet in a model, kept here so they are not
lost: cancelling after a failed journal leaves a `Running` call; `IncreaseBudgets`
may lower a budget below what was used; after a recovery `started_at_ms` is empty,
so a time budget no longer grows; a second `start_turn` on the in-process backend
is refused; of two or more criteria, one that passed is not run again after the
model has changed files to repair another; a command of a criterion that was
interrupted counts as passed; `ProviderFails` and an unknown review leave the turn
unfinished; the automation's executor has no checkpoint store; `restore_checkpoint`
in the UI plans and applies at once, where FR-ACHG-04 asks for a preview.


## 3. The task runtime (`TaskModel`, `TaskRuntime`, `ToolGate`)

### State and code

| Variable | Code |
|---|---|
| `taskState`, `reason` | `Task::state`, `Task::waiting_reason` |
| `policy`, `budget`, `steps` | `approval_policy`, `RuntimeBudgets::max_model_steps`, `RuntimeUsage::model_steps` |
| `checks` | `AcceptanceReport::checks`; each check also carries the status the command really exited with, which the code never sees |
| `turnFinished` | `Turn::finished_at_ms` is set |
| `invocations` | the queue: ID, tool, state, decision, whether the hook was asked, whether a result of its own is in the history, the criterion it checks |
| `answered` | the call IDs with a result message in the history; a compaction removes old ones |
| `verifying`, `persistFailed`, `cancelled` | `verification_started`, `persistence_error`, the `CancellationToken` |
| `claim` | who controls the command session the executor claimed |
| `pc`, `attempt` | where the command in progress is; the attempt of `request_assistant` |

`handle` and `drive` run in one thread, so a step of the model is a stretch of
code between two points at which another thread can be seen. The loop of
`drive` is cut at: the checks at its top (`loop`), the choice of what to do
(`dispatch`), a tool in progress (`executing`), an automatic acceptance in
progress (`accepting`), the start of a stream (`request`) and the open stream
(`streaming`). `returned` means that no command is in progress.

| Actions | Code |
|---|---|
| `Start`, `ResolveApproval`, `ReviewChange`, `RecordAcceptance`, `IncreaseBudgets`, `WaitForUser`, `ContinueAfterUser`, `Cancel` | the arms of `handle` with what they call |
| `HandBack` | the executor takes a session back, then `ContinueAfterUser` |
| `SetApprovalPolicy` | `begin_task_command` in the composer, before each command |
| `RequestCancel`, `TakeOver` | the user, from another thread, at any moment |
| `StopOnJournalFailure`, `StopOnCancel`, `PauseForTakeOver`, `PauseForBudget`, `EnterIteration` | the top of the loop, in its order |
| `RejectByHook`, `AskApproval`, `ApproveByPolicy`, `Execute`, `Respin` | `process_invocation`, `process_change_batch` |
| `ToolCompletes`, `ToolFails`, `ProposeChange`, `AcceptChange` | what an execution returns, `auto_accept_change` |
| `FinishVerified`, `ContinueVerification` | the acceptance part of the loop |
| `PauseForSteps`, `PauseForContext`, `AskModel`, `OpenStream`, `StreamCancelled`, `Reply`, `RetryStream`, `ProviderFails` | the model's turn |

Faults are a constant: an instance lists which of journal, hook, context
(compaction), kill (a cancelled command cannot be confirmed dead), provider,
review and tool may go wrong. Nothing in the model happens only because it is
convenient for a property: an error return of the code is a disjunct.

Replies of the model are a constant too: sequences of calls with an ID, a tool
(one that needs no consent, a command, a write, a claim of a terminal session) and a verdict of the argument
check. Repeated IDs inside one reply and over several are included.

### Runs

| Run | Instance | Checks | Shows |
|---|---|---|---|
| `runtime_prompt` | two criteria (one with a command), policy Prompt, step budget 2, every fault but the journal | `NeverAbandoned`, `WaitingMatchesQueue`, `SettledWhenOver`, `EveryRunIsChecked`, `VerifiedOnlyOnEvidence`, `DriveReturns` | what the user is asked matches what the queue waits for; a task that is over leaves no open or unanswered call; evidence; every command returns (882,201 distinct states, the longest run: about two minutes) |
| `runtime_yolo` | policy switched between Prompt and Yolo, step budgets 1 and 2, journal, hook, kill, review and tool faults, replies with two writes and a command, or a read between two writes | `ApprovalGate`, `QueueOrder`, `TaskEdgesRespected`, `ToolEdgesRespected`, `ImplementsGate` | consent, order and legal edges under every switch of the policy and every failing write (75,064 distinct states) |
| `acceptance_exit`, `acceptance_ids` | one criterion with a command, a model that only says it is done | one property each | two disagreements, section 11 |

`ImplementsGate` is the refinement: with the stage of a call computed from its
state (`Stage`) and `halted` from the task's, every step of the runtime is a
step of `ToolGate` or a stutter. `ToolGate` does not know approvals, change sets,
hooks, faults or policies: only that a call starts after it was cleared and after
every earlier one is over, that what starts together is consecutive, and that
nothing moves after the halt.

### Bounds, and why they are enough

* `MaxInvocations` (5, 6): when the queue is this long `EnterIteration` is
  disabled and the iteration ends in `PauseForBudget`, which the code may do at any iteration
  (time, output and tokens are not counted, so a pause is possible at all times). Five or six calls hold a batch of two
  writes, a call behind it, a repeated ID, and two runs of an acceptance command.
* `MaxChecks` (1): checks a caller may record by hand on top of those of commands.
* `BudgetValues`: one or two model steps; `IncreaseBudgets` may also lower the
  budget, as the code allows. Two steps give a reply that follows a queue that ran.
* Three attempts of a stream are the code's own bound.

`runtime_prompt` leaves out the `journal` fault and Yolo to stay small. The invariants say
themselves what these two break, and are proved with both:

* `NeverAbandoned`: a failed journal ends the command and leaves the task as it is,
  `Running` with nobody driving it (listed as a hazard); so does an error of Yolo's own
  acceptance of a change set (`auto_accept_change`).
* `WaitingMatchesQueue`: after that error the change set waits for a review that the task
  does not ask for.
* `SettledWhenOver` with `LeftOpen`: a call the journal could not record as running stays
  open, and an acceptance with unknown outcome leaves the calls of that change set without
  an answer of their own and those behind it as they stood. The second was found by
  TLC when the replies got wider: with a read behind the two writes the property without
  it is violated.

`record_missing_tool_results` (`ai/runtime.rs:1004-1006`: no dangling calls are left for the
journal) is called where the user cancels or a tool is interrupted, and not where an
acceptance ends `Unknown`; hence the second case.

### Fairness

`FairSpec` is `Spec` with weak fairness of `Drive` and nothing else. The
executor's thread runs a started command to its end, a stream has a time limit
and a tool has one too, so a step of `drive` that stays possible is taken. There
is no fairness on the user: no command, cancellation, hand-back or take-over ever
has to come. `DriveReturns` is therefore a statement about the loop itself:
retries, refused calls, repeated IDs and failed checks that are fed back to the
model cannot keep it going for ever. It rests on the step budget and, in the
model, on `MaxInvocations`, which stands for the other budgets. Its mutants,
an attempt that is not counted among them, break it.


## 4. The task journal (`TaskJournal`)

Every handler of the runtime emits a fixed sequence of events with at most one
side effect of the executor in between. In this module a handler puts that
sequence into `todo`, and `Emit`, `Save` and `CallExecutor` work it off one
element at a time, exactly in the order of the code: change the memory, append
the record, and, when `task_event_is_critical`, write the snapshot. `Crash` may
come between any two of these steps; it may leave a partial record behind.
`Recover` cuts the partial record off and replays the records behind the snapshot
(`recover_journal`). `CenterView` is what `RecoveryCenter` shows, from the
snapshot alone. Note that in the repository `recover_journal` is called by tests
only, and the recovery center is what the application uses; the module models
both and checks both.

Writing a record may fail before it, in its middle, or after it (the record is
there, the sync was not). A snapshot replaces the old one at once or not at all.
Loss of data that was synced is not modelled.

| Run | Instance | Checks | Shows |
|---|---|---|---|
| `journal_crash` | a command and a write that must be reviewed, or one ID used twice; two crashes, failing disk, up to two calls | `JournalIsPrefix`, `AtMostOnce`, `RunningIsShownUnknown`, `RecoveryMatchesOnline`, `ReasonNeverStale` | at every moment, also between two writes, what a restart would find (476,617 distinct states) |
| `journal_review` | one write under review, one crash | `WriteRecoversUnknown` | a disagreement, section 11 |

In the memory, a repeated call that fails is the one queued last (`Newest`), while the
replay looks it up by its ID and finds the earlier one; and what `cancel` does to the calls is
one short sequence for each of them, joined in their order.

The properties look at `Recovered`, the state a restart *would* build from the
disk as it is now, so they are about a crash at every single state, whether or
not the bound on crashes is used up. `starts` and `durable` are history
variables: how often each side effect began and what the memory was when the
last record was written. `starts` survives crashes, so `AtMostOnce` is about the
whole life of the task.

Bounds: `MaxCalls` 2 calls hold a repeated ID and a command in front of a write;
`MaxCrashes` 2 holds a crash during the life after a recovery; `MaxEvents` only
stops the loop "files changed, review again", which adds one record each time.
There is no fairness: nothing is claimed to happen eventually.

Abstractions: only one write call in an instance (what joins several is in
`TaskRuntime`); events of acceptance, budgets and user messages, hook
refusals and an executor error while writing are not among the handlers (they
add records of the same two sorts, critical and not). `persist_journal`, called
after each command, is not a step of its own. While no write has failed the journal is
complete by then and it writes the same snapshot again. After a failed write it does
more: it appends the events that are missing, one by one, and writes the snapshot
(`runtime.rs:526-550`). That repair is left out; in the model nothing is written after a
failed write until the next restart, which is what happens if the repair fails, too.


## 5. Change sets and checkpoints (`ChangeSet`)

`write_file` writes nothing: it leaves a proposal in the executor, bound to the
text each file had (`propose_write_batch`). `accept_edit` compares every file with
that baseline, saves a checkpoint of what is on disk *then*, and writes the files
one after the other. A restore compares a file with what the checkpoint says of
it before and after the change (`plan_restore`) and then puts the old content back
(`apply_restore`). Nothing locks the workspace, so in every gap other executors,
a restore and the user's programs may change a file.

| Variable | Code |
|---|---|
| `disk`, `version` | the files; a content is a number, a missing file (`Absent`) and an empty one (`Empty`) have the same text, as `accept_edit` sees it |
| `proposal` | `EditProposal`: file, baseline, new content, and the decision of the review |
| `pc`, `todo` | where `accept_edit` is: before the checkpoint (`checked`), writing, and which files with which result are still to come |
| `manifests` | the checkpoint store |
| `restore` | the restore in progress |
| `author`, `stale`, `unsaved`, `moved`, `replaced` | auxiliary: who wrote a file last, which files changed in which gap, what was replaced |

| Actions | Code |
|---|---|
| `Propose`, `Compare`, `SaveCheckpoint`, `WriteFile`, `AcceptFails`, `AcceptReturns` | `propose_write_batch`, `accept_edit` with `CheckpointStore::create`; a conflict changes nothing and is a disabled `Compare` |
| `Abandon` | the task is cancelled: the proposal stays in memory, but no command can accept it |
| `PlanRestore`, `RestoreFile`, `RestoreReturns` | `restore_checkpoint` of the UI |
| `UserEdits`, `Crash` | the environment |

| Run | Instance | Checks | Shows |
|---|---|---|---|
| `change_set` | two executors (symmetric), two files, batches of one file, of two, and of one file twice; two checkpoints; any write may fail | `ReviewedEditsKept`, `NothingLost`, `WritesUndoable`, `RestoreUndoes` | see below (1,494,445 distinct states) |
| `change_reject` | one executor, one file that does not exist | `RejectedIsNotWritten` | a disagreement, section 11 |

* `ReviewedEditsKept`: an executor overwrites only text the review was about. The
  exception is exactly what changed *after* the comparison (`stale`).
* `NothingLost`: what was replaced is in a checkpoint, a write that failed half-way
  and a crash included. It is stronger than the first property where it matters: an edit
  that slipped in after the comparison is overwritten, but saved, because the
  checkpoint reads the disk again instead of taking the baseline. Lost is only
  what comes after that read (`unsaved`).
* `WritesUndoable`: each file with an executor's text is the output of some
  checkpoint, so a restore meets no conflict on it.
* `RestoreUndoes`: a restore undoes the output of its change and nothing else. What is left
  of a plan is the set of its entries still to be done, taken in their order.

The exceptions are what the code does not do: FR-ACHG-02
(`docs/user/termior-spec.md:439`) asks that a parallel edit stops the change, and an
edit inside the two windows - comparison to write, plan to restore - does not.

Bounds: `MaxVersions` 4 is the original content and two new ones: two proposals of one
file, one of two, or a proposal and an edit; deleting a file and restoring one add
no content. Both files exist at first, and creation is reached by deleting one
before the proposal. Two checkpoints allow restores out of order. There is no fairness.

Abstractions: a change is one hunk; a file that cannot be read counts as missing;
links, modes and path checks are a failure; an executor has one proposal at a
time; a batch that names a file twice reads it at one moment. Checkpoint IDs are taken as unique
(task ID and a counter of the executor).

Seen in the model without being a property: of two calls of one batch for the
same file the last entry is written last, so accepting the first and rejecting
the second leaves the old text; after a half-written set a retry conflicts with
itself, and a rejection runs the same comparison, so only a restore or a
cancellation gets out.


## 6. Orchestration (`Orchestration`)

`OrchestrationRuntime` owns a graph of tasks, a scheduler with a queue and slots, and a
thread for each task that runs. One thread calls `submit`, `tick`, `cancel_child`,
`cancel_all`, `delete_record` and `set_global_concurrency`; worker threads send one
completion each over a channel. A child runs when all prerequisites the graph still
relates it to succeeded and a slot of its provider, its workspace, its environment and
of all together is free.

| Variable | Code |
|---|---|
| `state`, `relations`, `dependencies` | `TaskGraph::nodes` and `relations`; what the spec of a task names (the task tree follows that) |
| `ready`, `running`, `cap` | `Scheduler::ready` in its order, the tasks with a slot, the global limit |
| `results`, `token` | accepted results, the cancellation token of a worker |
| `workers`, `completions` | the threads, and what they sent |
| `phase` | `tick` is cut after it has received and refreshed, and after each launch |
| `retired`, `abandoned` | auxiliary: prerequisites whose record was deleted from under a dependent, after they had succeeded or without |

| Actions | Code |
|---|---|
| `Submit`, `CancelChild`, `CancelAll`, `DeleteRecord`, `SetGlobalConcurrency` | the methods of these names |
| `Reap` | the first half of `tick`: all completions that have arrived, each with the verdict of `validate_for`, then `refresh`, then what became ready is queued |
| `Launch`, `EndTick` | `next_ready` until it finds none |
| `Finish` | a worker ends, told to stop or not, with a result, an error, a stale or an unknown outcome |

| Run | Checks | Shows |
|---|---|---|
| `orchestration` | `WorkersAreKnown`, `PrerequisitesSucceeded`, `SchedulerMatchesGraph`, `CancelAgrees`, `OutcomesAreFinal`, `EverythingSettles` | three tasks that share a provider or an environment, limits raised and lowered, every cancel and delete between two steps of `tick`, four submissions (991,852 distinct states) |

* `WorkersAreKnown`: a late completion always finds its record, and a worker without a
  slot belongs to a task whose outcome is unknown and that was told to stop. So
  `delete_record` and a new submission under an old ID never meet a live worker.
* `PrerequisitesSucceeded` asks of everything the *spec* of a ready or running task names,
  not only of the relations that are left: it has succeeded with an accepted result, or
  had when its record was deleted. One exception is the code's, and no more than that one:
  `delete_record` severs the relations of a record whatever became of its task, so a
  prerequisite deleted before it succeeded (failed, cancelled, blocked, stale) holds its
  dependent back no longer, and the next `tick` starts it. This is not what the
  specification asks for; section 11 has the trace.
* `CancelAgrees` compares two programs: `cancel_descendants` of the graph and
  `TaskTreeSnapshot::cancel_child` of the user's tree. They agree as long as the tree
  names the graph's relations; they stop to when a record is deleted and its ID is
  submitted again, because only the graph forgets relations.
* `EverythingSettles` needs weak fairness of `tick` and of each worker: the owner calls
  `tick` in a loop and a launcher runs under the budgets of its spec. Nothing is
  assumed of the user. The bound on submissions matters: without it new tasks of higher
  priority could keep an old one waiting for ever.

The queue `ready` is a sequence in the order of priority. `Without` and `Enqueued` give the
result of `Scheduler::remove` and `enqueue` directly: the entries that stay, by their
position, and the new one behind all of its priority or higher. That a stable sort gives
the same rests on the queue being in order before, which is part of what is proved.

Bounds: three tasks hold a chain, a fork and a join; two of them share a limit; four
submissions hold a task submitted again under its old ID. Provider limit 1, environment
limit 1, workspace limit 2 and a global limit of 1 or 2 make each of them the tightest
one at some time.

Seen in the model: a dependent of a stale or blocked task stays queued for as long as
that record is there, and `is_settled` is never true; cancelling frees the slots at once although the workers go on. Outside of tests
nothing calls this runtime yet; the UI uses the task tree.


## 7. Automations (`Automation`)

The host's timer calls `poll_due`, which turns the instants that passed into runs, and
`claim_queued`, which marks runs as running under its limits. The composer carries
claimed runs out and reports with `complete_run`, which may queue a retry. All state
is one file that each handler loads, changes and saves, some several times.

| Variable | Code |
|---|---|
| `disk`, `mem` | `automations.json` (runs, dedupe keys, sequence, last checks) and the copy of the handler in progress |
| `step`, `todo`, `full`, `claimed` | which handler, what is left of its loop (a set, taken in the order of `Earlier` or `Before`), whether the disk budget is used up, the claims of this tick |
| `executing` | the runs the composer carries out |
| `clock`, `faults`, `crashes` | time in the unit of the schedule, failed saves, stops |
| `history`, `executed` | auxiliary: all runs ever saved, all ever carried out |

| Actions | Code |
|---|---|
| `Launch`, `Recover` | `recover_interrupted`, one save for each run |
| `StartTick`, `RecordInstant`, `MarkChecked`, `EndPoll` | `poll_due` with `catch_up`, one save for each instant |
| `Claim`, `Defer`, `EndClaim` | `claim_queued`, with a save for each noted deferral |
| `Finish`, `Retry`, `TriggerManual` | `complete_run`, `enqueue_retry`, `trigger_manual` |
| `Time`, `Crash` | the world |

| Run | Checks | Shows |
|---|---|---|
| `automation` | `OneRunPerInstant`, `DueIsDecided`, `ExecutionsAreClaimed`, `EveryRunSettles` | an automation that catches up once and one that skips, with a retry or a manual run, one failing save and one stop at any point (213,039 distinct states) |

* `OneRunPerInstant` and `DueIsDecided` are the two sides of the schedule: a stop
  between the row of an instant and the mark that the automation was checked neither
  repeats nor loses it. The first rests on the dedupe keys and their window.
* `ExecutionsAreClaimed`: what starts never ran before, its claim is on the disk, and the
  limits count what the file says, across restarts.
* `EveryRunSettles`: under weak fairness of the handler's steps and strong fairness of
  the timer (with room on the disk) and of the end of an execution, every run ends
  or waits for a person. The timer fires and an execution has budgets; both are
  disabled again and again while another handler runs, hence strong fairness. The
  exception is a save that failed: the run it was about stays `Running` with nobody
  at work and holds its slot until the next start.

Bounds: two instants of one automation, one of the other, a history of two finished
rows, limits of one each and two in all, one fault, one stop and one run besides the
schedule. Each is the smallest number at which the case happens: trimming, a deferral,
a second tick after a stop.

Seen in the model or on the way: `DEDUPE_WINDOW_MS` is in milliseconds and compared with
seconds, so the window is 1000 hours; the anchor itself is never an instant
(`missed_instants`) although `next_run_after` announces it; a stop between the end of a
run and `enqueue_retry` loses the retry; a row that is not to be run may be trimmed
before it is ever saved; two processes with one data directory would overwrite each
other's file (one process is assumed).


## 8. External agent sessions (`AgentSession`, `AgentRecovery`)

The composer starts a worker for each command. The worker locks the managed session, which
sends requests over the transport: a JSON-RPC line on the pipe of the agent's process.
A reader thread collects what the agent writes. `request` reads until its own answer
comes and keeps other messages for `next_event`; `pump_for` reads events until the turn
ends, asks for an approval, or fails. A built-in task that was kept (out of budget, or
waiting for input) when the user chose the agent stays in the composer, and may be
continued or cancelled at any time: `busy` then stands for that command.

| Variable | Code |
|---|---|
| `busy`, `stop`, `card` | the composer's orchestrator: a command runs, its token, the approval it shows |
| `state`, `binding`, `pending` | `ManagedAgentSession` |
| `pc`, `awaiting` | where the worker is, and the request it waits for |
| `nextId`, `events`, `incoming`, `open` | `StdioTransport` and its reader thread |
| `alive`, `toAgent`, `turns`, `requests` | the agent, external: its process, what it has not read, its turns and its own requests |
| `lastStart`, `cut`, `denied` | auxiliary: the last request to start a turn; whether an earlier turn was stopped or lost; the request whose denial was dropped |

| Actions | Code |
|---|---|
| `Start`, `Stop`, `Decide`, `NewSession` | `submit_external`, `stop_active_task`, `take_approval` with `respond`, `new_session` |
| `BeginTask`, `EndTask` | `begin_task_command` and `begin_task_result` of the built-in task |
| `DenyWhileBusy` | `take_approval` of the button that denies, while a command runs: the card goes, `begin_external` drops the answer. The button that approves looks at `busy` first |
| `Receive`, `RequestFails` | `StdioTransport::request`, with `start_turn` or `cancel` behind it |
| `Pump`, `PumpEnds`, `NoticeStop` | `pump_for` and the loop of `run_external_command` |
| `AgentReads`, `AgentAsks`, `AgentCompletes`, `AgentErrs`, `AgentExits`, `BadLine` | the agent |

`AgentRecovery` extends this with what is written down. After each change of its state the
session saves a snapshot (`Checkpoint`; a session that is `Ready` saves none). When the
application starts, each session it has files of is asked for by a new process of the
agent (`Query`), and the answer is written to `recovery.json`, which from then on comes
before the snapshot (`Shown`). The same runs when the user saves the settings, with
sessions that go on (`SaveSettings`). `StopApplication` may come between any two steps.

| Run | Checks | Shows |
|---|---|---|
| `agent_session` | `TurnIsBoundToItsStart`, `RequestsReachTheUser`, `CardMatchesSession`, `EndsByOwnEvent`, `TurnsAreNotForgotten`, `CommandsReturn` | two turns, a request of the agent, an error, a second session, a restart, settings saved at any moment, a built-in command between or beside them (939,258 distinct states) |

* `TurnIsBoundToItsStart`, `RequestsReachTheUser`: answers that come late or out of
  order are never taken for the awaited one, though the agent's own requests carry the same
  numbers; and no request gets lost in the two queues, in the pump, or on a card.
  `RequestsReachTheUser` speaks of sessions that can still be followed. It excepts
  (`Stranded`) a session whose state is unknown, where `pump_for` and `start_turn` refuse
  and nobody reads the queues any more, and the session of a request that was denied
  while a built-in command ran: that request is nowhere.
* `CardMatchesSession`: between two commands the composer and the session agree.
  A session waits without a card in two cases: the agent died before the answer could be
  written (the pending request is taken first), or the request was denied while a built-in
  command ran (the card is taken first, `orchestrator.rs:744-763`, and the command dropped,
  `605-608`). In the second the agent is alive and waits. Only a new session gets out of either.
* `EndsByOwnEvent` excepts sessions with an earlier turn that the user stopped, or whose
  start got no answer in time (`cut`). There `pump_for` does take a stale end for
  the end of the next turn: section 11.
* `TurnsAreNotForgotten`: what was under way at a stop is listed afterwards, whatever
  the snapshot said and whether or not the agent can be asked. Two exceptions: a
  turn the agent began before the first checkpoint (`turn/start` is sent before
  anything is written), and a session that was settled in `recovery.json` while it
  lived. The second: settings are saved between two turns, the query says
  "completed", that is final (`settled_recovery`), and a later turn that a stop
  interrupts is never shown.
* `CommandsReturn`: weak fairness of the worker. Requests end after 30 or 10 seconds and
  a pump after 250 ms, whatever the agent does; of the agent and the user nothing is
  assumed.

Bounds: two turns are what a stale message needs, two sessions what a reset needs. The
model was also checked, before the built-in commands were added, with two requests of the
agent (1,998,322 states) and, without restarts, with three turns (2.6 million), with the
same result. The agent reports honestly what became of the *last* turn; that a query may
read the first one of a list is outside the model.

Seen in the model: a query that fails turns a completed session into an unknown one,
and one query after another overwrites a prepared retry; late answers stay in
`pending_responses` for ever; the stop button does nothing while a card is shown.


## 9. Command sessions (`CommandSession`)

What the agent runs, it runs in a command session: a process of its own (`run_command`,
`shell_bg_spawn`), the task's persistent shell in a PTY (`shell_session_run`), or a pane
of the user that the task has claimed. The registry (`command.rs`) knows of each session
its state and who may write to it; the service (`service.rs`) has the processes, PTYs and
writers. Each has a lock of its own and gives it up between two calls, so a step of
the model is what runs under one lock.

Four threads meet here: the task's, which drives it, executes a tool and polls for a
cancellation; the worker beside it for the two tools that can last; the watcher or reader of each
process; and the main thread, where the user takes over, hands back and stops.

| Variable | Code |
|---|---|
| `state`, `controller` | `CommandSession::state`, `controller`; `none` before `create_with_capabilities` |
| `listed`, `live` | the maps `processes` and `ptys`; whether the process runs |
| `shell`, `claimed` | `ToolExecutor::shell`, `claimed_sessions` |
| `phase`, `outcome`, `paused`, `cancelled` | where the task's thread is, how the task ended, the session it waits for, the token |
| `call`, `polled` | the tool under way, its session and how far it is; whether its poll saw the token |
| `killer` | a `kill_task` or `command_kill` under way: by whom, what is left of its snapshot, whether all is confirmed |
| `handing` | between the two steps of `hand_back_to_task` |
| `taken`, `late` | auxiliary: panes the user took from the task, writes of the task after that |

| Actions | Code |
|---|---|
| `Drive`, `CancelEnds` | the top of `drive`, `user_control_interrupt`, `cancel` |
| `RunCommand`, `BgSpawn`, `ShellRun`, `CommandWait`, `WriteInput`, `CommandClaim`, `CommandKill`, `NotExecuted`, `Returns` | the tools, from `execute` to their result |
| `PollCancels`, `PollEnds` | the poll of `execute` with its `cancel_active` |
| `Spawn`, `Register`, `Publish` | `create`, `create_pty`: the process, the registry, the map that `kill` looks into |
| `Waited`, `CheckWrite`, `Write`, `TakesControl`, `RegistersClaim` | `wait`, `collect_until_marker`, `write_stdin`, `command_claim` |
| `KillProcess`, `KillMarks` | `kill`, and what `kill_task` makes of it |
| `Dies`, `Noticed` | the operating system; `spawn_watcher`, the end of a PTY's output |
| `TakeOver`, `HandBack`, `HandedBack`, `Continue`, `Stop` | the user: buttons, or typing into a pane |

| Run | Checks | Shows |
|---|---|---|
| `command_sessions` | `CancelledLeavesNothing`, `AtMostOneLateWrite`, `TakeOverIsReported`, `StopIsHonoured` | one command, one shell, one pane; spawns, writes and kills that fail (396,716 distinct states) |

* `CancelledLeavesNothing`: `kill_task` looks at the sessions once. It is right because a
  task is only cancelled when no tool is under way: the poll of `execute` may miss a
  session that is being created, the second `cancel_active`, after the worker is
  joined, does not. The exception: a PTY that resists becomes `Unknown` in the kill of
  the poll, whose result nobody reads; the second one skips it, and the task is called
  `Cancelled` with a shell that runs, where the specification asks for unknown
  (`openspec/specs/reliable-agent-runtime/spec.md:35-38`).
* `AtMostOneLateWrite`: `write_stdin` asks who controls the session, lets go of the lock
  and writes then. One write can land in a session the user has taken over in
  between, and no second one.
* `TakeOverIsReported`: several claims may be broken at once, one is told at a time; none
  is dropped with another, and the claim of a hand-back that is not registered yet
  cannot hide a take-over.
* `StopIsHonoured`: weak fairness of the task's thread, of a kill and of the worker. Each is
  a thread that is scheduled, and waits have limits (`COMMAND_TIMEOUT`, or the one the model
  gives). Nothing is assumed of processes, of their watchers or of the user. It is not
  obvious: `cancel_active` waits for the lock that the worker holds until the marker
  comes, the task's thread joins the worker, and the process may be one that cannot be
  killed.

Bounds: one session of each kind, because kinds differ and sessions of one kind meet only
through the executor's sets; that the claims hold a shell next to the pane is what
`TakeOverIsReported` needs. The other three properties are proved for any number of sessions. Everything else is
finite: sessions are not created anew.

Seen in the model or on the way: the task's own shell is not among the claims, so nobody
notices that the user took it over, and it cannot be handed back, although the comment
above `take_over_terminal` says that a running task waits; a persistent shell that ended is
never replaced before the task is cancelled; a PTY whose first line cannot be written
stays registered and live, and the executor does not know it; `read_output` without a cursor never
says that output was dropped; `collect_until_marker` may find the marker in the
echo of its own script.


## 10. Proofs

The eight proof modules hold for every value of the constants that satisfies the named
assumptions of the models: `RuntimeAssumption`, `CriterionAssumption`, `RepliesAssumption`,
`JournalAssumption`, `NoIdAssumption`, `ChangeSetAssumption`, `SessionAssumption`,
`OrchestrationAssumption`, `AgentSessionAssumption`, `AgentRecoveryAssumption` and
`AutomationAssumption`. They say of which kind a constant is (numbers, finite sets of them,
sequences of calls), that an automation's period, the dedupe window and its global limit are not zero, and that the
values for "none" are not names. So the theorems are about any replies,
criteria, policies, budgets, faults, lengths, executors, files, batches, sessions,
schedules, windows, tasks, limits, turns and numbers of crashes. TLC evaluates the
assumptions in every run. The bounds of the runs (`MaxCalls`, `MaxVersions`, ...) are
constants too, hence arbitrary: a trace of any length is within some bound.

Each proof has the same frame: an inductive invariant, one lemma for each action or
for each part of it, and a temporal step that joins them. The inductive invariants of the journal, the restore, the orchestrator, the automations and
the agent sessions hold on the instances of the runs, where TLC checked them before they were
proved; that of the automations also with two instants to catch up, two faults and a longer
window (1,527,683 states).

### The task runtime

| Theorem | States | Argument |
|---|---|---|
| `TypeCorrect` | `Spec => []TypeOK` | `TypeOK` is inductive. It is split into the flags, the queue and the rest, each kept by every action; the three lemmas are combined once |
| `ConsentIsKept` | `ApprovalGate` | inductive together with `TypeOK`; rests on `ItemsStep` |
| `ToolEdgesAreKept` | `ToolEdgesRespected` | from `ItemsStep` and the definition of `ToolEdges` |
| `DriveRunsAlways` | inside `drive` the task is `Running` | the strengthening the next theorem needs: the edges out of `Running` are legal only because every way into the loop sets `Running` first |
| `TaskEdgesAreKept` | `TaskEdgesRespected` | `DriveRuns` and `TypeOK` for the states before, one case for each action |
| `TerminalStays` | `TerminalIsFinal` | `DriveRuns` excludes `drive` in a terminal state, each command's guard excludes itself |
| `PlacedAlways` | `Placed` | the inductive invariant of the queue: where a command stands says which calls may run or wait (`Started`, `Reviewed`, `Asked`), and the model is asked only with an empty queue (`Emptied`) |
| `OrderIsKept` | `QueueOrder` | part of `Placed`; each loop over the queue takes the first call that is not over, so all before it are (`Least`) |
| `TasksAreNotAbandoned`, `WaitsForItsQueue` | `NeverAbandoned`, `WaitingMatchesQueue` | from `Placed`: each return has set the state that matches what the queue waits for |
| `EvidenceComesFirst` | `VerifiedOnlyOnEvidence` | the step that verifies has computed the verdict from the checks, and `Emptied` gives the empty queue |
| `SettledAlways` | `SettledWhenOver` | strengthened by what each closed call has in the history, and which calls a command may leave open on its way to the end |
| `RunsAreChecked` | `EveryRunIsChecked` | one case for each way in which a running call can end |
| `GateIsImplemented` | `ImplementsGate` | the refinement of `ToolGate`: initial states map to initial states; `Changes` says of each step what it does to the queue, and each of these kinds is one step of the abstract queue or a stutter |

`ItemsStep` says, for every action, what can happen to one call of the queue: it stays, or
moves along one of a few edges and takes a decision with it. `Changes` says it
of the queue as a whole. Each is proved once, action by action, and used by every
theorem about calls.

### The journal

| Theorem | States | Argument |
|---|---|---|
| `JournalNeverSkips` | `JournalIsPrefix` | strengthened to `Gapless`: the journal is also a sequence, so that appending has its usual meaning; the step rests on the guard of `persist_latest_event`, which writes only when the journal's length is the number of events emitted before |
| `JournalFits` | `IInv` | see below |
| `SideEffectsOnce` | `AtMostOnce` | in `MemInv`: a side effect is planned only for a call that was not begun, and what was begun is never back in a state from which it is planned |
| `RunningShownUnknown` | `RunningIsShownUnknown` | `Executing`: while a command runs, replay and snapshot say `Running`, because the record and the snapshot of it came before the effect |
| `RecoveryIsFaithful` | `RecoveryMatchesOnline` | `Match` in `DiskFits` |
| `ReasonsStayFresh` | `ReasonNeverStale` | `DiskFits` and the part of `SyncInv` on reasons |

The invariant has three parts besides `Gapless` and the types. `DiskFits` relates what a
replay gives to the memory at the last durable record. `MemInv` says what the
handler in progress still has to do (`Plan`: which calls the steps left are about, in which order states
change, before which effect which record comes). `SyncInv` relates memory and files
while the process runs: they agree unless a write has failed, and then nothing is left
to do that could begin anything. `Plan` is what makes the proof possible and what it is
about: without it any sequence of events could be in `todo`. The replay is a recursive
function over the journal; the proof needs only how it changes when one record is appended,
and that follows from its definition by a bounded induction (lemma `Least`, the
least number for which something fails, instead of the library's induction theorem).
`FlattenSeq` is handled in the same way. Replay looks a call up by its ID, the runtime by its
index; `Leader`, `LaterClosed` and `Misapplied` say where the two differ, which is only for
calls with a repeated ID.

### Change sets

| Theorem | States | Argument |
|---|---|---|
| `ReviewedEditsAreKept` | `ReviewedEditsKept` | with `Shape`: what is still to be written is the end of the change set, in its order; a write of the executor's own file makes it a written one, a write of another makes it stale |
| `ReplacedIsSaved`, `WritesAreUndoable` | `NothingLost`, `WritesUndoable` | strengthened by `Saved`: while files are written, the checkpoints hold the content of every file to come and, unless it changed since, what it replaces. Neither can be proved without it: both look at the moment of the write, the checkpoint was made earlier |
| `RestoresUndo` | `RestoreUndoes` | strengthened by `Restoring`: at every moment of a restore each file was moved, or has got back what an output replaced, or is as it was found with all its outputs still to come. Several entries for one file are the reason that it is not enough to look at one of them |

### Orchestration

| Theorem | States | Argument |
|---|---|---|
| `BooksAgree` | `IInv` | types; `Watched` (a token stands for exactly one worker or completion: live as long as the task runs, cancelled once its outcome is unknown); `Accepted`; `Scheduled` (the queue is in order, without repetition, and its tasks are the ready ones, the slots are the running ones); `EdgesSucceeded` (what a ready or running task is still related to has succeeded); `Named` (a prerequisite that a record's spec names is still related to it, or its own record was deleted) |
| `BooksMatch`, `WorkersStayKnown`, `PrerequisitesComeFirst` | `SchedulerMatchesGraph`, `WorkersAreKnown`, `PrerequisitesSucceeded` | from `IInv`; the last from `EdgesSucceeded` and `Named` together: what a spec names is related or was deleted, and what is related has succeeded. It is a theorem with the exception of section 6 |
| `CancelsAgree` | `CancelAgrees` | the descendants by the graph's relations and by the tree's dependencies are the same set when the relations are, whatever the depth |
| `OutcomesStay` | `OutcomesAreFinal` | `Watched`: a completion that arrives belongs to a task that runs or is unknown |
| `LimitsAreKept` | limits of a provider, a workspace and an environment | the guard of `next_ready`, and that nothing else adds to `running` |

The queue is a sequence built by inserting and removing; lemmas on ranks in a finite set of
numbers say that both keep it ordered, so that `Enqueued` is the result of the code's stable sort.
The global limit is not among the theorems: `set_global_concurrency` may lower it below what runs.

### Automations

| Theorem | States | Argument |
|---|---|---|
| `BooksFit` | `IInv` | see below |
| `InstantsRunOnce` | `OneRunPerInstant` | `KeysKept`: for each row that was to be carried out, a dedupe key no older than it is there, or the window is over; also of the copy a handler works on and when the file could not be saved |
| `InstantsAreDecided` | `DueIsDecided` | `Marked` (what is marked as checked was triggered) and `NewestRun` (an instant that was the newest when it was triggered has a row that was to be carried out) |
| `ClaimsComeFirst` | `ExecutionsAreClaimed` | `Carried`: what is carried out is running in the file, and what ever was is never queued again; `Limited` counts both |

The invariant is about the file, the copy of the handler in progress, and all rows ever saved,
which outlive the history that is trimmed. `Phase` says what each handler relies on in
the middle of its loop.

### External agent sessions

| Theorem | States | Argument |
|---|---|---|
| `SessionFits` | `IInv` of `AgentSession` | card, session and worker agree (`CardInv`); a running session is bound to the turn of its last start (`BindingInv`); every message names something that is there, in the pipe, in both queues and in the agent (`MessageInv`); a turn that waits for an answer has its request under way, unless it was denied while a built-in command ran (`WaitingInv`); one start begins one turn (`StartInv`); while nothing was cut, only the last turn is not over (`LastInv`) |
| `RecoveryFits` | `RInv` of `AgentRecovery` | the same while the session goes on, and what the files say after the application stopped |
| `TurnsStayBound`, `ApprovalsReachTheUser`, `CardsMatch`, `EndsAreOwn` | `TurnIsBoundToItsStart`, `RequestsReachTheUser`, `CardMatchesSession`, `EndsByOwnEvent` | each from its part of `IInv`, with the exceptions of section 8; they are theorems of `AgentRecovery`'s specification, with restarts |
| `CutTurnsAreListed` | `TurnsAreNotForgotten` | `FilesInv`, and that a turn under way has a snapshot or an exception that the property names |

### Command sessions

| Theorem | States | Argument |
|---|---|---|
| `NothingLeft` | `CancelledLeavesNothing` | strengthened by `LiveInv` (a session that is said to be over has no process, and a process without a session is that of the call under way) and `CancelInv` (while the task is cancelled, what runs is unknown, still on the list, or the cancellation is not sure). The step into a cancellation rests on `CallInv`: no call is under way then, so the snapshot holds everything that runs |
| `LateWrites` | `AtMostOneLateWrite` | strengthened by `LateInv`: while a checked write is pending, no other went through since the user has the session, because the check asks for the controller |
| `TakeOvers` | `TakeOverIsReported` | strengthened by `ClaimInv`: a pane that the task controls, or whose take-over it was not told of, is among the claims or on its way there by a claim or a hand-back in progress; and only `GoesOn` leaves the top of the loop |

### Only model-checked

* `DriveReturns`, `EverythingSettles`, `EveryRunSettles`, `CommandsReturn`, `StopIsHonoured` -
  liveness under fairness, out of the prover's reach.
* That the models which follow the code where it disagrees with its documents do so: the four
  runs of section 11 that end in a violation.

What the proofs say ends where the models do: an exception that a property names is an
exception of the theorem, and section 12 lists the branches that are not in the models.


## 11. Where code and documents disagree

Each is a run that ends in a violation; `PROJECT.json` quotes the sentences.

1. **`acceptance_exit`** (`ai/runtime.rs`, `parse_exit_code`). The exit status of
   an acceptance command is read only at the beginning of the output, where the
   built-in `run_command` writes `session_id=`. The status is never found and the
   check falls back to passed: a required command that failed makes the task
   `CompletedVerified`. The covering test uses an executor of its own that writes
   `exit=` first.
2. **`acceptance_ids`** (`schedule_acceptance_check`). The call's number counts the
   checks recorded. A refused command records none, its successor gets the same
   ID and is failed as a repetition, again and again until a budget ends it.
3. **`journal_review`** (`review_change`). The accepted hunks are written before any
   record says so; a stop in between recovers a review that still waits, with
   files that may have been changed, where the specification asks for unknown.
4. **`change_reject`** (`ai/executor.rs`, `accept_edit`). Every file of a change set is
   written, a rejected one with its old text. Rejecting a file that does not
   exist yet creates it, empty.

Seen while modelling, without a run of their own:

* `delete_record` (`ai/orchestration.rs:795-812`) removes the relations of the record with
  it, also those to tasks that wait for it, whatever it ended as. Task 2 is submitted with
  task 1 as its prerequisite; task 1 fails or is cancelled; the user deletes its record;
  the next `tick` refreshes task 2, which has no prerequisite left, to ready and starts
  it. `openspec/specs/agent-orchestration-automation/spec.md:22` makes a node ready only when
  all its prerequisites met their condition, and `:27` lets it stay blocked without taking
  a failure for an empty result. `PrerequisitesSucceeded` without its last disjunct is
  violated by this, in six states.
* Denying a request of an external agent while a built-in command runs (section 8). The
  comment at `composer_view/orchestrator.rs:744-745` says that the card is taken and the command
  dropped, and the test at `:1210` expects the card to be gone; neither says what that
  leaves: a session in WaitingApproval that no card shows, and an agent that waits.
* `pump_for` (`host/session.rs:165`) completes the session on the end of any turn. An
  agent ends a turn that the user stopped, too (`turn/completed` with status
  `interrupted`); the transport keeps that message while it waits for the answer to
  `turn/interrupt`, or nobody reads it until the next turn. So the turn the user
  starts next is over as soon as it has begun, and the agent works on with nobody
  following. `EndsByOwnEvent` without its exception is violated by this.
* `request_assistant` retries a stream that broke without a look at the cancellation
  token: the model is asked once more after the user cancelled
  (`openspec/specs/reliable-agent-runtime/spec.md:56` forbids it).
* `RecoveryCenter::scan` runs on the main thread, also while a task appends to its
  journal (when the settings are saved, or a button of the recovery center is used).
  `append` writes a record and its newline in two calls; a scan between the two cuts
  the record off as a broken tail, and the chain is broken from then on.
* Of the user taking over the task's own persistent shell, and of a PTY that resists a
  kill: section 9.
* What is excepted in the properties of sections 6 to 9, each named there.


## 12. What is left out

Inside the modelled components:

* `TaskRuntime`: a hook that replaces arguments; an executor whose
  `requires_approval` fails, that proposes changes for other tools than writes,
  or that completes or re-asks within a batch (the built-in executor does none of
  these); an error of the executor while a review is written. Clocks, output and token
  counts are one nondeterministic pause. Message texts, the event log and the
  count of compactions are not kept. `RecordAcceptance` has no caller outside the
  runtime; it is included because it is part of its interface.
* `TaskJournal`: the repair of the journal by `persist_journal` after a failed write,
  `RecoveryCenter::apply` (it is in `AgentRecovery`), a scan while the
  task runs, compaction of finished journals.
* The executor: seen by the runtime as outcomes; change sets are in `ChangeSet`, the
  command tools in `CommandSession`, the other tools are not modelled.
* `CommandSession`: output and its cursors, resizing, `release` and `detach` (tests only),
  threads and locks that fail, a budget that pauses the task in `drive`. A session is one
  process: children of it that outlive a kill, or ignore it, are not seen.

* `Orchestration`: the scheduler's own snapshot and restore, the integration queue, the
  shared budget, write leases, the narrowing of permissions, the backoff of a provider.
* `Automation`: repository events and `update_run_status` (tests only), editing of the
  definitions, the audit, the cap of 2000 dedupe keys, what the runs do.
* `AgentSession`, `AgentRecovery`: handshake, permissions, requests the host does not
  know, the ACP and the in-process backend, a checkpoint that cannot be written; the hint
  on missing sandbox accounts, which replaces one message of the agent once
  (`codex.rs:376-380`); the built-in task's own cards.

Components that are not modelled are listed with a reason in `PROJECT.json`: most
are text, presentation or calls of other programs.
