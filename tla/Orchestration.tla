--------------------------- MODULE Orchestration ---------------------------
(***************************************************************************)
(* Child tasks: the graph of their dependencies, the slots of the          *)
(* scheduler, the worker threads and what the user may do to the records   *)
(* meanwhile (crates/termior-ai/src/orchestration.rs, OrchestrationRuntime *)
(* with TaskGraph and Scheduler, and the task tree the user sees).         *)
(*                                                                         *)
(* One thread owns the runtime; tick is cut into what it receives and      *)
(* every launch, and workers send at any time between these steps.  A      *)
(* provider's backoff is left out: the runtime never sets one.  Every      *)
(* dependency of submit asks for success; TaskGraph's other condition,     *)
(* Terminal, has no caller.                                                *)
(***************************************************************************)
EXTENDS Integers, Sequences, FiniteSets

CONSTANTS
  Tasks,           \* the task IDs
  Provider,        \* the provider of each task
  Workspace,       \* its workspace
  Environment,     \* its environment
  PerProvider, PerWorkspace, PerEnvironment,  \* SlotLimits, but for the global one
  Caps,            \* the global limits a user sets
  Priorities,      \* the priorities tasks are submitted with
  Reports,         \* what a worker may send, as the set of its flaws
  MaxSubmits       \* bound: how many tasks are submitted

\* What may be wrong with a report.  An error is a launcher that failed, a worker
\* that panicked or a thread that could not be started; unproven are changes
\* without a change set or acceptance, and data that do not match the schema.
Flaws == {"error", "no evidence", "stale", "unknown", "unproven"}

ASSUME OrchestrationAssumption ==
  /\ Tasks \subseteq Nat /\ IsFiniteSet(Tasks)
  /\ PerProvider \in Nat /\ PerWorkspace \in Nat /\ PerEnvironment \in Nat
  /\ Caps \subseteq 1..64 /\ Caps # {}
  /\ Priorities \subseteq Nat
  /\ Reports \subseteq SUBSET Flaws
  /\ MaxSubmits \in Nat

NodeState == {"Queued", "Ready", "Running", "Succeeded", "Failed", "Cancelled",
              "Unknown", "Blocked", "Stale"}

\* There is no record of the task.
Absent == "Absent"

VARIABLES
  state,        \* TaskGraph::nodes, and Absent without a record
  relations,    \* TaskGraph::relations: prerequisite, dependent
  dependencies, \* what the spec of a task names
  ready,        \* the scheduler's queue, in the order of priority and sequence
  running,      \* the tasks that hold a slot
  cap,          \* the global limit
  results,      \* the tasks with an accepted result
  token,        \* the cancellation token of a task: none, live or cancelled
  workers,      \* how many threads work on a task
  completions,  \* what its threads have sent and tick has not received
  phase,        \* where tick is
  submits,      \* how many tasks were submitted
  retired,      \* history: <<prerequisite, dependent>> whose prerequisite was
                \* deleted after it had succeeded
  abandoned     \* history: the same, deleted when it had not succeeded

graphVars == <<state, relations, dependencies>>
slotVars == <<ready, running, cap>>
workerVars == <<workers, completions>>
history == <<retired, abandoned>>
vars == <<graphVars, slotVars, results, token, workerVars, phase, submits, history>>

Present == {t \in Tasks : state[t] # Absent}
Over == {"Succeeded", "Failed", "Cancelled", "Unknown"}

Ids(queue) == {queue[k].id : k \in DOMAIN queue}

\* The members of a finite set of numbers in ascending order.
Rank(S, n) == Cardinality({m \in S : m <= n})
Ascending(S) == [k \in 1..Cardinality(S) |-> CHOOSE n \in S : Rank(S, n) = k]

\* Scheduler::remove, of every one of the tasks.
Without(queue, ids) ==
  LET kept == Ascending({k \in DOMAIN queue : queue[k].id \notin ids}) IN
    [k \in DOMAIN kept |-> queue[kept[k]]]

\* Scheduler::enqueue: behind every task of no lower priority; the new task has
\* the highest sequence number and the queue is in the order of priority.
Enqueued(queue, task) ==
  LET ahead == Cardinality({k \in DOMAIN queue : queue[k].priority >= task.priority}) IN
    SubSeq(queue, 1, ahead) \o <<task>> \o SubSeq(queue, ahead + 1, Len(queue))

Init ==
  /\ state = [t \in Tasks |-> Absent]
  /\ relations = {} /\ dependencies = [t \in Tasks |-> {}]
  /\ ready = <<>> /\ running = {} /\ cap \in Caps
  /\ results = {} /\ token = [t \in Tasks |-> "none"]
  /\ workers = [t \in Tasks |-> 0] /\ completions = [t \in Tasks |-> <<>>]
  /\ phase = "idle" /\ submits = 0
  /\ retired = {} /\ abandoned = {}

----------------------------------------------------------------------------
(* submit *)

\* The dependencies are records that exist, so the graph gets no cycle.
Submit(t, deps, priority) ==
  /\ phase = "idle" /\ submits < MaxSubmits
  /\ state[t] = Absent
  /\ deps \subseteq Present
  /\ state' = [state EXCEPT ![t] = IF deps = {} THEN "Ready" ELSE "Queued"]
  /\ relations' = relations \cup {<<d, t>> : d \in deps}
  /\ dependencies' = [dependencies EXCEPT ![t] = deps]
  /\ ready' = IF deps = {} THEN Enqueued(ready, [id |-> t, priority |-> priority])
              ELSE ready
  /\ submits' = submits + 1
  /\ UNCHANGED <<running, cap, results, token, workerVars, phase, history>>

----------------------------------------------------------------------------
(* tick: reap the workers, refresh the graph, fill the slots *)

\* ChildTaskResult::validate_for, as the state it leads to: evidence first, then
\* the snapshot, then unknown effects, then changes, acceptance and the schema.
Verdict(report) ==
  IF report \cap {"error", "no evidence"} # {} THEN "Failed"
  ELSE IF "stale" \in report THEN "Stale"
  ELSE IF "unknown" \in report THEN "Unknown"
  ELSE IF "unproven" \in report THEN "Failed" ELSE "Succeeded"

\* The tasks whose completion has arrived.
Reapable == {t \in Tasks : completions[t] # <<>>}

\* The states when the completions are received: each is the outcome of its own
\* task, whatever became of the record meanwhile, so their order does not matter.
Reaped ==
  [t \in Tasks |-> IF t \in Reapable THEN Verdict(Head(completions[t])) ELSE state[t]]

\* Mutant: a task that failed or was cancelled keeps its slot.
FreedOnSuccess(done) == running \ {t \in done : Reaped[t] = "Succeeded"}

\* Scheduler::finish
Freed(done) == running \ done

Prerequisites(t) == {d \in Tasks : <<d, t>> \in relations}

\* Mutant: one prerequisite that succeeded is enough.
SomeSatisfied(s, t) ==
  Prerequisites(t) = {} \/ \E d \in Prerequisites(t) : s[d] = "Succeeded"

\* All that the task waits for has succeeded.
Satisfied(s, t) == \A d \in Prerequisites(t) : s[d] = "Succeeded"

\* TaskGraph::refresh.  It reads only states it never writes, so the order in
\* which it visits the nodes does not matter.
Refreshed(s) ==
  [t \in Tasks |->
     IF s[t] \notin {"Queued", "Blocked"} THEN s[t]
     ELSE IF \E d \in Prerequisites(t) : s[d] \in {"Failed", "Cancelled", "Unknown"}
       THEN "Blocked"
     ELSE IF Satisfied(s, t) THEN "Ready" ELSE "Queued"]

\* Tasks in the order of their IDs, with priority 0, the lowest.
Entries(new) ==
  [k \in 1..Cardinality(new) |-> [id |-> Ascending(new)[k], priority |-> 0]]

\* tick until it starts to launch: all completions that have arrived are received,
\* the graph is refreshed and what became ready is queued.
Reap ==
  /\ phase = "idle" /\ phase' = "launch"
  /\ state' = Refreshed(Reaped)
  /\ results' = results \cup {t \in Reapable : Reaped[t] = "Succeeded"}
  /\ running' = Freed(Reapable)
  /\ token' = [t \in Tasks |-> IF t \in Reapable THEN "none" ELSE token[t]]
  /\ completions' = [t \in Tasks |-> IF t \in Reapable THEN Tail(completions[t]) ELSE <<>>]
  /\ ready' = ready \o Entries({t \in Tasks : state'[t] = "Ready" /\ Reaped[t] # "Ready"})
  /\ UNCHANGED <<relations, dependencies, cap, workers, submits, history>>

\* Scheduler::reason gives no reason to wait.
HasSlot(t) ==
  /\ Cardinality(running) < cap
  /\ Cardinality({r \in running : Provider[r] = Provider[t]}) < PerProvider
  /\ Cardinality({r \in running : Workspace[r] = Workspace[t]}) < PerWorkspace
  /\ Cardinality({r \in running : Environment[r] = Environment[t]}) < PerEnvironment

\* Mutant: the task that was picked stays in the queue.
Peeked(k) == ready

\* The queue without the task that was picked.
Taken(k) == SubSeq(ready, 1, k - 1) \o SubSeq(ready, k + 1, Len(ready))

\* Scheduler::next_ready and the worker: the first task in the queue with a slot.
\* A thread that cannot be started sends its error itself, which is a worker that
\* ends at once.
Launch(k) ==
  /\ phase = "launch"
  /\ HasSlot(ready[k].id) /\ \A j \in 1..(k - 1) : ~HasSlot(ready[j].id)
  /\ LET t == ready[k].id IN
       /\ ready' = Taken(k)
       /\ running' = running \cup {t}
       /\ state' = [state EXCEPT ![t] = "Running"]
       /\ token' = [token EXCEPT ![t] = "live"]
       /\ workers' = [workers EXCEPT ![t] = @ + 1]
  /\ UNCHANGED <<relations, dependencies, cap, results, completions, phase, submits,
                 history>>

EndTick ==
  /\ phase = "launch" /\ \A k \in DOMAIN ready : ~HasSlot(ready[k].id)
  /\ phase' = "idle"
  /\ UNCHANGED <<graphVars, slotVars, results, token, workerVars, submits, history>>

\* A worker thread sends what its launcher returned, told to stop or not.
Finish(t, report) ==
  /\ workers[t] > 0
  /\ workers' = [workers EXCEPT ![t] = @ - 1]
  /\ completions' = [completions EXCEPT ![t] = Append(@, report)]
  /\ UNCHANGED <<graphVars, slotVars, results, token, phase, submits, history>>

----------------------------------------------------------------------------
(* cancel_child, cancel_all, delete_record, set_global_concurrency *)

Closed(edges) == {S \in SUBSET Tasks : \A e \in edges : e[1] \in S => e[2] \in S}

\* The tasks that depend on root, directly or not, and root itself: what every
\* closed set with root holds.
Reachable(edges, root) ==
  LET around == {S \in Closed(edges) : root \in S} IN
    {t \in Tasks : \A S \in around : t \in S}

Descendants(root) == Reachable(relations, root)

\* Mutant: a stale or blocked record is left as it is.
KeepsSettled(t) ==
  IF state[t] = "Running" THEN "Unknown"
  ELSE IF state[t] \in Over \cup {"Stale", "Blocked"} THEN state[t] ELSE "Cancelled"

\* cancel_descendants; nothing is ever confirmed as stopped.
AsDescendant(t) ==
  IF state[t] = "Running" THEN "Unknown"
  ELSE IF state[t] \in Over THEN state[t] ELSE "Cancelled"

\* Mutant: only the state the record is in counts, not a worker still alive.
IgnoresWorker(t) == IF state[t] \in Over THEN state[t] ELSE "Cancelled"

\* retained_cancel_state: unknown while a worker may still act.
AsRoot(t) ==
  IF state[t] = "Unknown" \/ token[t] # "none" THEN "Unknown"
  ELSE IF state[t] \in Over THEN state[t] ELSE "Cancelled"

AfterCancel(root) ==
  LET below == Descendants(root) IN
    [t \in Tasks |-> IF t = root THEN AsRoot(t)
                     ELSE IF t \in below THEN AsDescendant(t) ELSE state[t]]

\* Mutant: the token of the chosen task only.
ToldRoot(root, tasks) ==
  [t \in Tasks |-> IF t = root /\ token[t] = "live" THEN "cancelled" ELSE token[t]]

\* token.cancel() for every task that has one.
Told(root, tasks) ==
  [t \in Tasks |-> IF t \in tasks /\ token[t] = "live" THEN "cancelled" ELSE token[t]]

\* cancel_tree.  Slots are free at once; the workers go on until they notice.
CancelChild(t) ==
  /\ phase = "idle" /\ t \in Present
  /\ LET below == Descendants(t) IN
       /\ ready' = Without(ready, below)
       /\ running' = running \ below
       /\ token' = Told(t, below)
  /\ state' = AfterCancel(t)
  /\ UNCHANGED <<relations, dependencies, cap, results, workerVars, phase, submits,
                 history>>

\* cancel_tree of every task: each is the root once, and what it becomes as a
\* descendant it would become as the root.
CancelAll ==
  /\ phase = "idle" /\ Present # {}
  /\ ready' = <<>> /\ running' = {}
  /\ token' = [t \in Tasks |-> IF token[t] = "live" THEN "cancelled" ELSE token[t]]
  /\ state' = [t \in Tasks |-> IF t \in Present THEN AsRoot(t) ELSE Absent]
  /\ UNCHANGED <<relations, dependencies, cap, results, workerVars, phase, submits,
                 history>>

\* can_delete_task_record; an accepted result never has unknown effects.
CanDelete(t) == state[t] \in {"Succeeded", "Failed", "Cancelled", "Blocked", "Stale"}

\* The relations that do not name the task.
Severed(t) == {e \in relations : e[1] # t /\ e[2] # t}

\* The tasks that still waited for t, or had waited for it, when its record goes.
DependentPairs(t) == {e \in relations : e[1] = t}

\* The record goes with every relation that names it: whoever waits for t waits no
\* more, however t ended, and its own history goes with it.
DeleteRecord(t) ==
  /\ phase = "idle" /\ CanDelete(t)
  /\ state' = [state EXCEPT ![t] = Absent]
  /\ relations' = Severed(t)
  /\ dependencies' = [dependencies EXCEPT ![t] = {}]
  /\ results' = results \ {t}
  /\ ready' = Without(ready, {t}) /\ running' = running \ {t}
  /\ token' = [token EXCEPT ![t] = "none"]
  /\ LET others(edges) == {e \in edges : e[2] # t} IN
       IF state[t] = "Succeeded" /\ t \in results
       THEN retired' = others(retired) \cup DependentPairs(t) /\ abandoned' = others(abandoned)
       ELSE abandoned' = others(abandoned) \cup DependentPairs(t) /\ retired' = others(retired)
  /\ UNCHANGED <<cap, workerVars, phase, submits>>

\* A smaller limit stops no worker.
SetGlobalConcurrency(c) ==
  /\ phase = "idle" /\ cap' = c
  /\ UNCHANGED <<graphVars, ready, running, results, token, workerVars, phase, submits,
                 history>>

----------------------------------------------------------------------------

TickStep ==
  \/ Reap \/ EndTick
  \/ \E k \in DOMAIN ready : Launch(k)

WorkerStep(t) == \E report \in Reports : Finish(t, report)

Next ==
  \/ TickStep
  \/ \E t \in Tasks : WorkerStep(t)
  \/ \E t \in Tasks, deps \in SUBSET Tasks, p \in Priorities : Submit(t, deps, p)
  \/ \E t \in Tasks : CancelChild(t)
  \/ CancelAll
  \/ \E t \in Tasks : DeleteRecord(t)
  \/ \E c \in Caps : SetGlobalConcurrency(c)

Spec == Init /\ [][Next]_vars

\* Who owns the runtime keeps calling tick, and a launcher returns: it runs
\* under the budgets of its spec.
FairSpec == Spec /\ WF_vars(TickStep) /\ \A t \in Tasks : WF_vars(WorkerStep(t))

----------------------------------------------------------------------------
(* The task tree of the user *)

\* descendant_task_ids: what the specs name, not the relations of the graph.
TreeDescendants(root) ==
  Reachable({e \in Tasks \X Present : e[1] \in dependencies[e[2]]}, root)

\* TaskTreeSnapshot::cancel_child with apply_cancel.
TreeAfterCancel(root) ==
  LET below == TreeDescendants(root) IN
    [t \in Tasks |-> IF t \notin below \/ state[t] \in Over THEN state[t]
                     ELSE IF state[t] = "Running" THEN "Unknown" ELSE "Cancelled"]

----------------------------------------------------------------------------
(* Properties *)

TypeOK ==
  /\ state \in [Tasks -> NodeState \cup {Absent}]
  /\ relations \subseteq Present \X Present
  /\ dependencies \in [Tasks -> SUBSET Tasks]
  /\ ready \in Seq([id : Tasks, priority : Nat]) /\ running \subseteq Tasks
  /\ cap \in Caps /\ results \subseteq Present
  /\ token \in [Tasks -> {"none", "live", "cancelled"}]
  /\ workers \in [Tasks -> Nat]
  /\ completions \in [Tasks -> Seq(Reports)]
  /\ phase \in {"idle", "launch"} /\ submits \in 0..MaxSubmits
  /\ retired \subseteq Tasks \X Tasks /\ abandoned \subseteq Tasks \X Tasks

\* A task has at most one worker or completion, and as long as it has one there is
\* a record of it: tick indexes the specs by the task of a completion and would
\* panic.  The worker holds a slot, or its record says that the outcome is not
\* known and it has been told to stop: only such workers exceed the limits.
WorkersAreKnown ==
  \A t \in Tasks :
    LET alive == workers[t] + Len(completions[t]) IN
      /\ alive <= 1
      /\ alive = 1 => \/ t \in running /\ state[t] = "Running"
                      \/ state[t] = "Unknown" /\ token[t] = "cancelled"

\* Of everything that the spec of a ready or running task names, each one has
\* succeeded with an accepted result, or had when its record was deleted, whatever
\* was cancelled, deleted and submitted again.  One way remains past a prerequisite
\* that did not succeed: delete_record severs its relations, so after the user
\* deletes a failed, cancelled, blocked or stale record the next refresh makes the
\* task behind it ready.  The requirement knows no such way (README, section 11).
PrerequisitesSucceeded ==
  \A t \in Tasks : state[t] \in {"Ready", "Running"} =>
    \A d \in dependencies[t] :
      \/ <<d, t>> \in relations /\ state[d] = "Succeeded" /\ d \in results
      \/ <<d, t>> \in retired
      \/ <<d, t>> \in abandoned

\* The scheduler and the graph are two books of one thing: the queue holds every
\* ready task once and no other, and the slots belong to what runs.
SchedulerMatchesGraph ==
  /\ Ids(ready) = {t \in Tasks : state[t] = "Ready"}
  /\ Len(ready) = Cardinality(Ids(ready))
  /\ running = {t \in Tasks : state[t] = "Running"}

\* The user cancels in the task tree, the runtime in its graph: both programs
\* come to the same states, wherever the tree still names the graph's relations
\* (a record deleted and submitted again under its old ID has none).
CancelAgrees ==
  (\A t \in Present : dependencies[t] \cap Present = Prerequisites(t))
    => \A root \in Present : TreeAfterCancel(root) = AfterCancel(root)

\* An outcome is final: no late completion, cancel or refresh overwrites what
\* succeeded, failed or was cancelled; what is unknown changes only by the
\* completion of its own worker; what is stale can only be cancelled.  The record
\* may be deleted, but not an unknown one.
OutcomesAreFinal ==
  [][\A t \in Tasks :
       /\ state[t] \in {"Succeeded", "Failed", "Cancelled"}
            => state'[t] \in {state[t], Absent}
       /\ state[t] = "Unknown" => state'[t] = "Unknown" \/ completions[t] # <<>>
       /\ state[t] = "Stale" => state'[t] \in {"Stale", "Cancelled", Absent}]_vars

\* is_settled
Settled(t) ==
  state[t] \in Over \cup {"Blocked", "Stale", Absent}

\* The record of something that is stale or blocked is there and t depends on it,
\* directly or not.
HeldBack(t) ==
  \E d \in Tasks : state[d] \in {"Stale", "Blocked"} /\ t \in Descendants(d)

\* Once nothing more is submitted all comes to rest: every task that is ready gets
\* its slot, every worker is reaped, and is_settled becomes true and stays so,
\* except for tasks held back by a stale or blocked one, which are queued for as
\* long as its record is there.
EverythingSettles ==
  <>[](\A t \in Tasks : Settled(t) \/ (state[t] = "Queued" /\ HeldBack(t)))

============================================================================
