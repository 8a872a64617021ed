---------------------------- MODULE TaskJournal ----------------------------
(***************************************************************************)
(* What survives of an Agent task when the application stops at any        *)
(* moment: the events the runtime emits (crates/termior-ai/src/runtime.rs, *)
(* emit to persist_journal and recover_journal), the journal they go to    *)
(* (crates/termior-store/src/task_journal.rs) and what the recovery center *)
(* shows after a restart (crates/termior-store/src/recovery.rs).           *)
(*                                                                         *)
(* A handler of the runtime is the sequence of events it emits, in the     *)
(* order of the code, with the side effect of the executor between them.   *)
(* Every event is a step of its own: it changes the memory, is appended to *)
(* the journal, and, when it is critical, is followed by a snapshot.  The  *)
(* process may stop between any two of these steps.                        *)
(***************************************************************************)
EXTENDS TaskModel, SequencesExt

CONSTANTS
  Ids,          \* the call IDs a model may use
  WriteIds,     \* those that name a write_file call, the others name commands
  Replies,      \* the replies a model may give: sequences of call IDs
  MaxCalls,     \* bound: calls the task may queue
  MaxCrashes,   \* bound: how often the process stops
  MaxEvents,    \* bound: records after which a review meets no conflict any more
  DiskFails     \* whether writing to the task directory may fail

\* At most one call writes: what joins several writes into one change set is
\* modelled in TaskRuntime.
ASSUME JournalAssumption ==
  /\ WriteIds \subseteq Ids /\ \A i, j \in WriteIds : i = j
  /\ Replies \subseteq Seq(Ids)
  /\ MaxCalls \in Nat /\ MaxCrashes \in Nat /\ MaxEvents \in Nat
  /\ DiskFails \in BOOLEAN

CONSTANT NoId
ASSUME NoIdAssumption == NoId \notin Ids

VARIABLES
  mem,        \* the runtime's task, invocations and tool results in the history
  emitted,    \* the number of events the runtime holds
  todo,       \* what the handler in progress still has to do
  saving,     \* a critical event was appended and its snapshot is due
  failed,     \* persistence_error
  pc,         \* where the handler leads: "returned" or the "loop" of drive
  effect,     \* the calls whose side effect the executor is carrying out
  proposals,  \* the change sets the executor holds in memory
  log,        \* events.jsonl: the complete records
  tail,       \* a partial record behind them
  snap,       \* snapshot.json
  up,         \* the process is running
  crashes,    \* how often it stopped so far
  starts,     \* history: how often the side effect of each call has begun
  durable     \* history: the memory when the last record was appended

processVars == <<mem, emitted, todo, saving, failed, pc, effect, proposals>>
diskVars == <<log, tail, snap>>
historyVars == <<starts, durable>>
vars == <<processVars, diskVars, up, crashes, historyVars>>

----------------------------------------------------------------------------
(* Events *)

NoReason == [kind |-> "none", id |-> NoId]

Reason(kind, id) == [kind |-> kind, id |-> id]

ToolStep(i, id, state) == [kind |-> "tool", call |-> i, id |-> id, to |-> state]
Decision(i, id, to) == [kind |-> "decision", call |-> i, id |-> id, to |-> to]
Queued(id) == [kind |-> "queued", call |-> 0, id |-> id, to |-> "Proposed"]
Answer(id) == [kind |-> "message", call |-> 0, id |-> id, to |-> "result"]

\* set_state with a waiting reason emits a second event for it.
StateStep(state) == <<[kind |-> "state", call |-> 0, id |-> NoId, to |-> state]>>
Waiting(state, why, id) ==
  <<[kind |-> "state", call |-> 0, id |-> id, to |-> state],
    [kind |-> "waiting", call |-> 0, id |-> id, to |-> why]>>

\* The call that was queued last.
Newest == 0

\* Not an event: the executor begins the side effect of the call.
Effect(i, id) == [kind |-> "effect", call |-> i, id |-> id, to |-> "Running"]

\* Mutant: a new state of the task does not force a snapshot.
CriticalToolsOnly(e) ==
  \/ e.kind \in {"waiting", "queued", "decision"}
  \/ e.kind = "tool" /\ e.to \notin {"AwaitingApproval", "Approved"}

\* task_event_is_critical.
Critical(e) ==
  \/ e.kind \in {"state", "waiting", "queued", "decision"}
  \/ e.kind = "tool" /\ e.to \notin {"AwaitingApproval", "Approved"}

NewCall(id) == [id |-> id, state |-> "Proposed", decision |-> "None"]

ReasonOf(e) ==
  CASE e.to = "WaitingApproval" -> Reason("Approval", e.id)
    [] e.to = "WaitingChangeReview" -> Reason("ChangeReview", e.id)
    [] OTHER -> NoReason

\* What the runtime does to its memory before it emits the event.
Apply(m, e) ==
  CASE e.kind = "queued" -> [m EXCEPT !.calls = Append(@, NewCall(e.id))]
    [] e.kind = "tool" ->
         [m EXCEPT !.calls[IF e.call = Newest THEN Len(m.calls) ELSE e.call].state = e.to]
    [] e.kind = "decision" -> [m EXCEPT !.calls[e.call].decision = e.to]
    [] e.kind = "message" -> [m EXCEPT !.history = Append(@, e.id)]
    [] e.kind = "state" -> [m EXCEPT !.task = e.to, !.reason = ReasonOf(e)]
    [] e.kind = "waiting" -> [m EXCEPT !.reason = Reason(e.to, e.id)]

\* reduce_recovered_event: a call is found by its ID, the first that has it,
\* and a new state leaves the waiting reason alone.
Reduce(m, e) ==
  LET same == {i \in DOMAIN m.calls : m.calls[i].id = e.id}
      first == CHOOSE i \in same : \A j \in same : i <= j
  IN  CASE e.kind = "queued" -> [m EXCEPT !.calls = Append(@, NewCall(e.id))]
        [] e.kind = "tool" /\ same # {} -> [m EXCEPT !.calls[first].state = e.to]
        [] e.kind = "decision" /\ same # {} -> [m EXCEPT !.calls[first].decision = e.to]
        [] e.kind = "message" -> [m EXCEPT !.history = Append(@, e.id)]
        [] e.kind = "state" -> [m EXCEPT !.task = e.to]
        [] e.kind = "waiting" -> [m EXCEPT !.reason = Reason(e.to, e.id)]
        [] OTHER -> m

----------------------------------------------------------------------------
(* Recovery *)

\* Mutant: the event the snapshot was written for is replayed once more.
ReplayedTwice == {k \in DOMAIN log : k >= snap.last}

\* The records recover_journal replays: those behind the snapshot.
Replayed == {k \in DOMAIN log : k > snap.last}

Replay ==
  LET m[k \in 0..Len(log)] ==
        IF k = 0 THEN snap.mem
        ELSE IF k \in Replayed THEN Reduce(m[k - 1], log[k].event) ELSE m[k - 1]
  IN  m[Len(log)]

\* What was in progress is unknown after a restart.
Settle(m) ==
  [m EXCEPT
     !.task = IF m.task \in {"Running", "Cancelling"} THEN "Unknown" ELSE @,
     !.reason = IF m.task \in {"Running", "Cancelling"} THEN NoReason ELSE @,
     !.calls = [i \in DOMAIN @ |->
                  IF @[i].state = "Running" THEN [@[i] EXCEPT !.state = "Unknown"] ELSE @[i]]]

\* recover_journal.
Recovered == Settle(Replay)

\* RecoveryCenter::scan and recovered_state: only the snapshot is looked at.
CenterView ==
  CASE snap.mem.task \in TaskWaiting \cup {"Idle"} -> "Waiting"
    [] snap.mem.task = "Failed" -> "Failed"
    [] snap.mem.task = "Cancelled" -> "Abandoned"
    [] snap.mem.task \in {"CompletedVerified", "CompletedUnverified"} -> "Succeeded"
    [] OTHER -> "Unknown"

----------------------------------------------------------------------------
(* Initial state: try_with_journal *)

NoTask == [task |-> "Idle", reason |-> NoReason, calls |-> <<>>, history |-> <<>>]

Init ==
  /\ mem = NoTask /\ emitted = 0
  /\ todo = <<>> /\ saving = FALSE /\ failed = FALSE /\ pc = "returned"
  /\ effect = {} /\ proposals = {}
  /\ log = <<>> /\ tail = FALSE /\ snap = [last |-> 0, mem |-> NoTask]
  /\ up = TRUE /\ crashes = 0
  /\ starts = [i \in 1..MaxCalls |-> 0] /\ durable = NoTask

----------------------------------------------------------------------------
(* Handlers: what they emit, in order *)

\* Mutant: a failed write of the journal is not noticed.
AlwaysPersisted == TRUE

\* ensure_persistence: nothing is begun behind an event that was not saved.
Persisted == ~failed

Ready == up /\ todo = <<>> /\ ~saving /\ effect = {}
Returned == Ready /\ pc = "returned"
Driving == Ready /\ pc = "loop" /\ Persisted

Unfinished == {i \in DOMAIN mem.calls : mem.calls[i].state \notin ToolTerminal}
First(i) == i \in Unfinished /\ \A j \in Unfinished : i <= j
Id(i) == mem.calls[i].id
IsWrite(i) == Id(i) \in WriteIds

Handle(steps, next) ==
  /\ todo' = steps
  /\ pc' = next
  /\ UNCHANGED <<mem, emitted, saving, failed, effect, proposals, diskVars, up, crashes,
                 historyVars>>

Start ==
  /\ Returned /\ mem.task = "Idle"
  /\ Handle(StateStep("Running"), "loop")

\* enqueue_calls: a call with an ID already used fails at once.
Reply(ids) ==
  LET used == {Id(i) : i \in DOMAIN mem.calls}
      repeated(k) == ids[k] \in used \/ \E j \in 1..(k - 1) : ids[j] = ids[k]
      enqueue(k) ==
        IF repeated(k)
        THEN <<Queued(ids[k]), ToolStep(Newest, ids[k], "Failed"), Answer(ids[k])>>
        ELSE <<Queued(ids[k])>>
  IN  /\ Driving /\ Unfinished = {}
      /\ ids # <<>> /\ Len(mem.calls) + Len(ids) <= MaxCalls
      /\ Handle(FlattenSeq([k \in DOMAIN ids |-> enqueue(k)]), "loop")

\* A reply without calls ends a task that has no acceptance criteria.
Finish ==
  /\ Driving /\ Unfinished = {}
  /\ Handle(StateStep("CompletedUnverified"), "returned")

\* What follows the approval of a call: a command runs, a write proposes a
\* change set, which is left to the user or, under Yolo, accepted at once.
Run(i, yolo) ==
  <<ToolStep(i, Id(i), "Running")>> \o
  IF ~IsWrite(i) THEN <<Effect(i, Id(i))>>
  ELSE <<[Effect(i, Id(i)) EXCEPT !.kind = "propose"],
         ToolStep(i, Id(i), "AwaitingChangeReview")>> \o
       IF yolo THEN <<Effect(i, Id(i))>>
       ELSE Waiting("WaitingChangeReview", "ChangeReview", Id(i))

AskApproval(i) ==
  /\ Driving /\ First(i) /\ mem.calls[i].state = "Proposed"
  /\ Handle(<<ToolStep(i, Id(i), "AwaitingApproval")>>
              \o Waiting("WaitingApproval", "Approval", Id(i)), "returned")

ApproveByPolicy(i) ==
  /\ Driving /\ First(i) /\ mem.calls[i].state = "Proposed"
  /\ Handle(<<Decision(i, Id(i), "Policy"), ToolStep(i, Id(i), "Approved")>>
              \o Run(i, TRUE), "loop")

\* An approved call is run under whatever policy the user selected since.
Execute(i, yolo) ==
  /\ Driving /\ First(i) /\ mem.calls[i].state = "Approved"
  /\ Handle(Run(i, yolo), IF IsWrite(i) /\ ~yolo THEN "returned" ELSE "loop")

ResolveApproval(i, approved) ==
  /\ Returned /\ mem.task = "WaitingApproval" /\ mem.calls[i].state = "AwaitingApproval"
  /\ Handle((IF approved
             THEN <<Decision(i, Id(i), "User"), ToolStep(i, Id(i), "Approved")>>
             ELSE <<Decision(i, Id(i), "Refused"), ToolStep(i, Id(i), "Denied"), Answer(Id(i))>>)
            \o StateStep("Running"), "loop")

\* review_change: nothing is recorded before the executor writes the files.
\* The change set must still be in its memory.
ReviewChange(i) ==
  /\ Returned /\ mem.task = "WaitingChangeReview" /\ Persisted
  /\ mem.calls[i].state = "AwaitingChangeReview" /\ i \in proposals
  /\ effect' = {i}
  /\ starts' = [starts EXCEPT ![i] = @ + 1]
  /\ pc' = "loop"
  /\ UNCHANGED <<mem, emitted, todo, saving, failed, proposals, diskVars, up, crashes, durable>>

\* The files were changed meanwhile: the wait gets another reason.  Bound: the
\* journal holds at most MaxEvents records when it does.
ReviewConflict(i) ==
  /\ Returned /\ mem.task = "WaitingChangeReview" /\ Persisted
  /\ Len(log) < MaxEvents
  /\ mem.calls[i].state = "AwaitingChangeReview" /\ i \in proposals
  /\ Handle(Tail(Waiting("WaitingChangeReview", "Conflict", Id(i))), "returned")

\* The side effect is over; an accepted review lets the task run again.
EndEffect(i, outcome) ==
  /\ up /\ effect = {i}
  /\ IsWrite(i) => outcome = "Succeeded"
  /\ todo' = <<ToolStep(i, Id(i), outcome), Answer(Id(i))>>
             \o (IF mem.task = "WaitingChangeReview" THEN StateStep("Running") ELSE <<>>)
  /\ effect' = {}
  /\ proposals' = proposals \ {i}
  /\ UNCHANGED <<mem, emitted, saving, failed, pc, diskVars, up, crashes, historyVars>>

\* cancel, from its command or the top of the loop.
Cancel(confirmed) ==
  LET each(S, state) ==
        FlattenSeq([i \in DOMAIN mem.calls |->
                      IF i \in S THEN <<ToolStep(i, Id(i), state)>> ELSE <<>>])
      running == {i \in Unfinished : mem.calls[i].state = "Running"}
      over == {i \in DOMAIN mem.calls : i \notin running \/ ~confirmed}
      missing == {i \in over : Id(i) \notin ToSet(mem.history)}
  IN  /\ Ready /\ (pc = "loop" => Persisted)
      /\ mem.task \notin TaskTerminal
      /\ Handle(StateStep("Cancelling") \o each(Unfinished \ running, "Cancelled")
                \o (IF confirmed THEN StateStep("Cancelled")
                    ELSE each(running, "Unknown") \o StateStep("Unknown"))
                \o FlattenSeq([i \in DOMAIN mem.calls |->
                                 IF i \in missing THEN <<Answer(Id(i))>> ELSE <<>>]),
                "returned")

\* ensure_persistence at the top of the loop.
StopOnFailure ==
  /\ Ready /\ pc = "loop" /\ ~Persisted
  /\ Handle(<<>>, "returned")

----------------------------------------------------------------------------
(* emit and persist_latest_event *)

\* Mutant: the journal takes an event whatever it took before.
AnyEvent == TRUE

\* The journal refuses an event when it does not hold the ones before it.
NoGap == Len(log) = emitted

\* How writing one record may end: before it, in its middle, after it.
Outcomes ==
  IF ~NoGap THEN {"gap"}
  ELSE IF DiskFails THEN {"ok", "before", "during", "after"} ELSE {"ok"}

Emit ==
  LET e == Head(todo)
  IN  /\ up /\ todo # <<>> /\ ~saving
      /\ e.kind \notin {"effect", "propose"}
      /\ mem' = Apply(mem, e)
      /\ emitted' = emitted + 1
      /\ todo' = Tail(todo)
      /\ \E outcome \in Outcomes :
           /\ failed' = (failed \/ outcome # "ok")
           /\ tail' = CASE outcome = "during" -> TRUE [] outcome = "before" -> tail
                        [] OTHER -> FALSE
           /\ IF outcome \in {"ok", "after"}
              THEN /\ log' = Append(log, [n |-> emitted', event |-> [e EXCEPT !.call = 0]])
                   /\ durable' = mem'
              ELSE UNCHANGED <<log, durable>>
           /\ saving' = (outcome = "ok" /\ Critical(e))
      /\ UNCHANGED <<pc, effect, proposals, snap, up, crashes, starts>>

\* write_snapshot replaces the file at once or not at all.
Save ==
  /\ up /\ saving
  /\ saving' = FALSE
  /\ \/ snap' = [last |-> Len(log), mem |-> mem] /\ UNCHANGED failed
     \/ DiskFails /\ failed' = TRUE /\ UNCHANGED snap
  /\ UNCHANGED <<mem, emitted, todo, pc, effect, proposals, log, tail, up, crashes, historyVars>>

\* The executor is called, or the command ends with an error.
CallExecutor ==
  LET e == Head(todo)
  IN  /\ up /\ todo # <<>> /\ ~saving
      /\ e.kind \in {"effect", "propose"}
      /\ IF ~Persisted
         THEN /\ todo' = <<>> /\ pc' = "returned"
              /\ UNCHANGED <<effect, proposals, starts>>
         ELSE /\ todo' = Tail(todo)
              /\ IF e.kind = "effect"
                 THEN /\ effect' = {e.call}
                      /\ starts' = [starts EXCEPT ![e.call] = @ + 1]
                      /\ UNCHANGED proposals
                 ELSE /\ proposals' = proposals \cup {e.call}
                      /\ UNCHANGED <<effect, starts>>
              /\ UNCHANGED pc
      /\ UNCHANGED <<mem, emitted, saving, failed, diskVars, up, crashes, durable>>

----------------------------------------------------------------------------
(* The process stops, and the task is recovered *)

\* A record may have been written in part.
Crash ==
  /\ up /\ crashes < MaxCrashes
  /\ up' = FALSE /\ crashes' = crashes + 1
  /\ tail' \in (IF todo # <<>> /\ ~saving THEN {tail, TRUE} ELSE {tail})
  /\ mem' = NoTask /\ emitted' = 0 /\ todo' = <<>> /\ saving' = FALSE /\ failed' = FALSE
  /\ pc' = "returned" /\ effect' = {} /\ proposals' = {}
  /\ UNCHANGED <<log, snap, historyVars>>

\* recover_path cuts the partial record off, recover_journal replays the rest.
Recover ==
  /\ ~up
  /\ up' = TRUE
  /\ tail' = FALSE
  /\ mem' = Recovered /\ durable' = Recovered
  /\ emitted' = Len(log)
  /\ UNCHANGED <<todo, saving, failed, pc, effect, proposals, log, snap, crashes, starts>>

Over == Returned /\ mem.task \in TaskTerminal /\ UNCHANGED vars

Handler ==
  \/ Start \/ Finish \/ StopOnFailure
  \/ \E ids \in Replies : Reply(ids)
  \/ \E i \in DOMAIN mem.calls :
       \/ AskApproval(i) \/ ApproveByPolicy(i)
       \/ \E yolo \in BOOLEAN : Execute(i, yolo)
       \/ \E approved \in BOOLEAN : ResolveApproval(i, approved)
       \/ ReviewChange(i) \/ ReviewConflict(i)
       \/ \E outcome \in {"Succeeded", "Failed"} : EndEffect(i, outcome)
  \/ \E confirmed \in BOOLEAN : Cancel(confirmed)

Next == Handler \/ Emit \/ Save \/ CallExecutor \/ Crash \/ Recover \/ Over

Spec == Init /\ [][Next]_vars

----------------------------------------------------------------------------
(* Properties *)

\* The journal holds the runtime's events from the first one on, none left
\* out, whatever writes failed before (persist_latest_event).
JournalIsPrefix == \A k \in DOMAIN log : log[k].n = k

\* No command is carried out twice, however often the application stops and
\* the journal fails before, between or after its events (process_invocation,
\* recover_journal; the specification forbids to replay a side effect).
AtMostOnce == \A i \in DOMAIN starts : starts[i] <= 1

\* While a command is running, a restart shows the user a task whose outcome
\* is unknown, and the recovery center, which only reads the snapshot, too.
RunningIsShownUnknown ==
  \A i \in effect : ~IsWrite(i) => Recovered.task = "Unknown" /\ CenterView = "Unknown"

\* Recovery gives the state the runtime was in when the last record was
\* written, with what was in progress unknown: no message is lost or doubled,
\* no call forgotten.  Calls that share an ID are not told apart.
RecoveryMatchesOnline ==
  LET online == Settle(durable)
      unique == {i \in DOMAIN durable.calls :
                   \A j \in DOMAIN durable.calls : durable.calls[j].id = durable.calls[i].id => i = j}
  IN  /\ Recovered.task = online.task
      /\ Recovered.history = online.history
      /\ DOMAIN Recovered.calls = DOMAIN online.calls
      /\ \A i \in unique : Recovered.calls[i] = online.calls[i]

\* A recovered task that waits shows what it waits for or shows nothing, never
\* the reason of an earlier wait: reduce_recovered_event leaves the reason alone
\* when the state changes, so this rests on which events force a snapshot.
ReasonNeverStale ==
  Recovered.task \in TaskWaiting => Recovered.reason \in {NoReason, durable.reason}

\* A write that was started is unknown after a restart as well.
WriteRecoversUnknown ==
  \A i \in effect : IsWrite(i) => Recovered.task = "Unknown"

============================================================================
