----------------------------- MODULE Automation -----------------------------
(***************************************************************************)
(* Automations: the host that turns schedules into runs, claims them under *)
(* its limits and settles them (crates/termior-ai/src/automation.rs) and   *)
(* the loop of the UI that drives it                                       *)
(* (crates/termior-ui/src/composer_view/centers.rs).                       *)
(*                                                                         *)
(* Every handler runs on the main thread to its end: it loads              *)
(* automations.json, changes the copy and saves it, some of them several   *)
(* times.  A save is atomic; it may fail, and the process may stop between *)
(* any two.  Runs are carried out by background tasks meanwhile.           *)
(*                                                                         *)
(* The automations themselves do not change: only tests call upsert.  They *)
(* call trigger_repo_event and update_run_status too, which are left out.  *)
(* Left out as well: templates without a budget, the audit, and the cap of *)
(* 2000 dedupe keys, which the model never comes near.                     *)
(***************************************************************************)
EXTENDS Integers, FiniteSets

CONSTANTS
  Automations,     \* the automations, as 1..n: the order of their IDs
  Every, Anchor,   \* the schedule of each
  CatchUp,         \* how many missed instants are run: 0 is skip, 1 run-once
  MaxConcurrency,  \* of the template of each
  Global,          \* HostLimits::max_concurrency
  Window,          \* DEDUPE_WINDOW_MS, in the unit of the clock
  RecentRunLimit,
  Outcomes,        \* what an execution may come to, see Status
  MaxTime,         \* bound: the clock
  MaxExtra,        \* bound: how many runs are triggered by hand or as a retry;
                   \* the code retries for ever
  MaxFaults,       \* bound: how many saves fail
  MaxCrashes       \* bound: how often the process stops

ASSUME AutomationAssumption ==
  /\ Automations \subseteq Nat /\ IsFiniteSet(Automations)
  /\ \A a \in Automations : /\ Every[a] \in Nat \ {0} /\ Anchor[a] \in Nat
                            /\ CatchUp[a] \in Nat /\ MaxConcurrency[a] \in Nat
  /\ Global \in Nat \ {0} /\ Window \in Nat \ {0} /\ RecentRunLimit \in Nat
  /\ Outcomes \subseteq {"completed", "approval", "retry", "stop", "unknown"}
  /\ MaxTime \in Nat /\ MaxExtra \in Nat
  /\ MaxFaults \in Nat /\ MaxCrashes \in Nat

\* last_checked of an automation the host has not observed.
Unobserved == -1

VARIABLES
  disk,       \* automations.json
  mem,        \* the copy the handler works on; the same as disk between handlers
  step,       \* what the main thread is doing
  todo,       \* what is left of it, a set of runs or of entries of the agenda
  full,       \* the disk budget is used up, as this tick measured it
  claimed,    \* the runs this tick has claimed
  executing,  \* the runs that are carried out
  clock,
  faults, crashes,
  history,    \* every run that was ever saved, and whether it was to be carried out
  executed    \* every run that was ever carried out

store == <<disk, mem, history>>
host == <<step, todo, full, claimed>>
work == <<executing, executed>>
vars == <<store, host, work, clock, faults, crashes>>

\* Nobody will carry it out; unlike the others of Finished it never was to be.
Declined == {"Duplicate", "Coalesced", "Missed"}
Finished == {"Completed", "Failed"} \cup Declined

With(s, status) == {r \in s.runs : r.status = status}
Of(s, id) == CHOOSE r \in s.runs : r.id = id
SetStatus(s, id, status) ==
  [s EXCEPT !.runs = {IF r.id = id THEN [r EXCEPT !.status = status] ELSE r : r \in @}]

MoreExtra == Cardinality({h \in history : h.key[1] # "schedule"}) < MaxExtra

Init ==
  /\ disk = [runs |-> {}, seen |-> {}, sequence |-> 0,
             last |-> [a \in Automations |-> Unobserved]]
  /\ mem = disk /\ history = {}
  /\ step = "down" /\ todo = {} /\ full = FALSE /\ claimed = {}
  /\ executing = {} /\ executed = {}
  /\ clock = 0 /\ faults = 0 /\ crashes = 0

----------------------------------------------------------------------------
(* Saving, and the end of a handler *)

Saved(s) ==
  /\ disk' = s
  /\ history' = history \cup
       {[id |-> r.id, key |-> r.key, created |-> r.created, run |-> r.status \notin Declined]
          : r \in s.runs}
  /\ UNCHANGED faults

NotSaved == faults < MaxFaults /\ faults' = faults + 1 /\ UNCHANGED <<disk, history>>

\* The handler is done, and its copy is dropped.
Return == step' = "idle" /\ todo' = {} /\ claimed' = {} /\ full' = FALSE /\ mem' = disk'

\* The process goes on with s after it was saved.
GoesOn(s, next, rest) == mem' = s /\ step' = next /\ todo' = rest

----------------------------------------------------------------------------
(* AutomationEngine: dedupe keys and new runs *)

\* remember: keys that left the window are forgotten first; a known key gets the
\* time of its last trigger.
Remember(seen, key) ==
  LET pruned == IF clock < Window THEN seen ELSE {e \in seen : e.at > clock - Window} IN
    {e \in pruned : e.key # key} \cup {[key |-> key, at |-> clock]}

Known(seen, key) == \E e \in seen : e.key = key /\ (clock < Window \/ e.at > clock - Window)

\* trim_finished_history: the oldest finished runs go, the others stay.
Trimmed(runs) ==
  LET finished == {r \in runs : r.status \in Finished}
      excess == Cardinality(runs) - RecentRunLimit
  IN  runs \ {r \in finished : Cardinality({f \in finished : f.id <= r.id}) <= excess}

\* Mutant: the key of a trigger is not kept.
ForgetsKey(s, a, key, status) ==
  LET id == s.sequence + 1 IN
    [s EXCEPT !.sequence = id,
              !.runs = Trimmed(@ \cup {[id |-> id, automation |-> a, key |-> key, created |-> clock,
                          status |-> IF Known(s.seen, key) THEN "Duplicate" ELSE status]})]

\* trigger and record_trigger, before it is saved.
Triggered(s, a, key, status) ==
  LET id == s.sequence + 1 IN
    [s EXCEPT !.sequence = id,
              !.seen = Remember(@, key),
              !.runs = Trimmed(@ \cup {[id |-> id, automation |-> a, key |-> key, created |-> clock,
                          status |-> IF Known(s.seen, key) THEN "Duplicate" ELSE status]})]

----------------------------------------------------------------------------
(* The start of the process: recover_interrupted *)

\* Recovery goes on with the runs of ids, or is done.
Recovers(ids) ==
  IF ids = {} THEN Return
  ELSE GoesOn(disk', "recover", ids) /\ UNCHANGED <<full, claimed>>

Launch ==
  /\ step = "down"
  /\ UNCHANGED <<disk, history, work, clock, faults, crashes>>
  /\ Recovers({r.id : r \in With(disk, "Running")})

\* Mutant: what was interrupted stays as it is.
LeftRunning(s, id) == s

\* It waits for a person and is not replayed.
Interrupted(s, id) == SetStatus(s, id, "WaitingUser")

\* One run after the other, the oldest first; a save that fails ends it.
Recover ==
  /\ step = "recover"
  /\ \E id \in todo :
       /\ \A other \in todo : id <= other
       /\ \/ Saved(Interrupted(mem, id)) /\ Recovers(todo \ {id})
          \/ NotSaved /\ Return
  /\ UNCHANGED <<work, clock, crashes>>

----------------------------------------------------------------------------
(* The host's tick: poll_due *)

\* missed_instants.  The anchor itself is none.
Missed(a, last, now) ==
  {t \in {Anchor[a] + k * Every[a] : k \in 1..MaxTime} : last < t /\ t <= now}

\* catch_up_times
Selected(a, last, now) ==
  LET missed == Missed(a, last, now) IN
    {t \in missed : Cardinality({u \in missed : u >= t}) <= CatchUp[a]}

ScheduleKey(a, t) == <<"schedule", a, t>>

\* The instants of an automation that poll_due records, and how.
Due(a) ==
  LET missed == Missed(a, disk.last[a], clock)
      selected == Selected(a, disk.last[a], clock)
  IN  {[automation |-> a, at |-> t,
        status |-> IF t \in selected THEN "Queued"
                   ELSE IF CatchUp[a] = 0 THEN "Missed" ELSE "Coalesced"] : t \in missed}

\* The mark that it was checked.
Check(a) == [automation |-> a, at |-> clock, status |-> "checked"]

\* What poll_due does for an automation; the mark is the only thing when it was not
\* observed before.
Agenda(a) ==
  IF disk.last[a] = Unobserved THEN {Check(a)}
  ELSE IF clock <= disk.last[a] THEN {} ELSE Due(a) \cup {Check(a)}

\* Mutant: an automation is marked as checked before it is caught up.
ChecksFirst(e, f) ==
  \/ e.automation < f.automation
  \/ e.automation = f.automation /\ (e.status = "checked" \/ (f.status # "checked" /\ e.at < f.at))

\* The order of the agenda: one automation after the other, of each the oldest
\* instant first and the mark last.
Earlier(e, f) ==
  \/ e.automation < f.automation
  \/ e.automation = f.automation /\ e.status # "checked" /\ (f.status = "checked" \/ e.at < f.at)

\* claim_queued takes the oldest run first, of one second the first by run ID
\* (the numbers of the model have one digit).
Before(r, q) ==
  \/ r.created < q.created
  \/ r.created = q.created /\ r.automation < q.automation
  \/ r.created = q.created /\ r.automation = q.automation /\ r.id < q.id

QueuedRuns(s) == {r.id : r \in With(s, "Queued")}

\* poll_due ends, well or not, and claim_queued begins on the same copy.
Claims(s) == GoesOn(s, "claim", QueuedRuns(s)) /\ UNCHANGED <<full, claimed>>

\* The tick begins; over is what measuring the disk came to.
StartTick(over) ==
  /\ step = "idle" /\ full' = over
  /\ LET agenda == UNION {Agenda(a) : a \in Automations} IN
       IF agenda = {} THEN GoesOn(disk, "claim", QueuedRuns(disk))
       ELSE GoesOn(disk, "poll", agenda)
  /\ UNCHANGED <<disk, history, claimed, work, clock, faults, crashes>>

\* e is what poll_due does next.
IsNext(e) == step = "poll" /\ e \in todo /\ \A f \in todo \ {e} : Earlier(e, f)

\* catch_up, one instant.  The row of an instant that is not run says why.
RecordInstant ==
  /\ \E e \in todo :
       /\ IsNext(e) /\ e.status # "checked"
       /\ LET s == Triggered(mem, e.automation, ScheduleKey(e.automation, e.at), e.status) IN
            \/ Saved(s) /\ GoesOn(s, "poll", todo \ {e}) /\ UNCHANGED <<full, claimed>>
            \/ NotSaved /\ Claims(s)
  /\ UNCHANGED <<work, clock, crashes>>

\* The first observation of an automation, or its catch-up is complete.
MarkChecked ==
  /\ \E e \in todo :
       /\ IsNext(e) /\ e.status = "checked"
       /\ GoesOn([mem EXCEPT !.last[e.automation] = clock], "poll", todo \ {e})
  /\ UNCHANGED <<disk, history, full, claimed, work, clock, faults, crashes>>

EndPoll ==
  /\ step = "poll" /\ todo = {}
  /\ Saved(mem) \/ NotSaved
  /\ Claims(mem)
  /\ UNCHANGED <<work, clock, crashes>>

----------------------------------------------------------------------------
(* The host's tick: claim_queued *)

\* Mutant: only the runs this process carries out count.
CountsOwnWork(id) ==
  LET r == Of(mem, id)
      alive == {q \in With(mem, "Running") : q.id \in executing}
  IN  IF full THEN "disk-budget"
      ELSE IF Cardinality(alive) >= Global THEN "concurrency"
      ELSE IF Cardinality({q \in alive : q.automation = r.automation})
                >= MaxConcurrency[r.automation] THEN "concurrency"
      ELSE "none"

\* Why a queued run is deferred.
Reason(id) ==
  LET r == Of(mem, id)
      running == With(mem, "Running")
  IN  IF full THEN "disk-budget"
      ELSE IF Cardinality(running) >= Global THEN "concurrency"
      ELSE IF Cardinality({q \in running : q.automation = r.automation})
                >= MaxConcurrency[r.automation] THEN "concurrency"
      ELSE "none"

\* The run of id is the next to be claimed or deferred.
IsFirst(id) ==
  /\ step = "claim" /\ id \in todo
  /\ \A other \in todo \ {id} : Before(Of(mem, id), Of(mem, other))

\* The claim is in the copy only.
Claim ==
  /\ \E id \in todo :
       /\ IsFirst(id) /\ Reason(id) = "none"
       /\ claimed' = claimed \cup {id}
       /\ GoesOn(SetStatus(mem, id, "Running"), "claim", todo \ {id})
  /\ UNCHANGED <<disk, history, full, work, clock, faults, crashes>>

\* note_deferral: once for a run and a reason it is noted and saved, and with it
\* what was claimed so far.  When that fails nothing is carried out.
Defer ==
  /\ \E id \in todo :
       /\ IsFirst(id) /\ Reason(id) # "none"
       /\ LET key == <<"defer", id, Reason(id)>>
              s == [mem EXCEPT !.seen = @ \cup {[key |-> key, at |-> clock]}]
          IN  IF \E e \in mem.seen : e.key = key
              THEN /\ GoesOn(mem, "claim", todo \ {id})
                   /\ UNCHANGED <<disk, history, faults, full, claimed>>
              ELSE \/ Saved(s) /\ GoesOn(s, "claim", todo \ {id}) /\ UNCHANGED <<full, claimed>>
                   \/ NotSaved /\ Return
  /\ UNCHANGED <<work, clock, crashes>>

\* What is claimed and saved is carried out.
EndClaim ==
  /\ step = "claim" /\ todo = {}
  /\ \/ claimed = {} /\ UNCHANGED <<disk, history, faults, work>>
     \/ /\ claimed # {} /\ Saved(mem)
        /\ executing' = executing \cup claimed /\ executed' = executed \cup claimed
     \/ claimed # {} /\ NotSaved /\ UNCHANGED work
  /\ Return
  /\ UNCHANGED <<clock, crashes>>

----------------------------------------------------------------------------
(* complete_run, trigger_manual *)

\* drive_automation_run's outcome and classify_retry, as the state they lead to.
Status(outcome) ==
  CASE outcome = "completed" -> "Completed"
    [] outcome \in {"retry", "stop"} -> "Failed"
    [] outcome \in {"approval", "unknown"} -> "WaitingUser"

\* The run has ended; whether that can be saved or not, nobody works on it any more.
Finish(id, outcome) ==
  /\ step = "idle" /\ id \in executing
  /\ outcome = "retry" => MoreExtra
  /\ executing' = executing \ {id}
  /\ LET s == SetStatus(disk, id, Status(outcome)) IN
       \/ /\ Saved(s)
          /\ IF outcome = "retry" THEN GoesOn(s, "retry", {id}) /\ UNCHANGED <<full, claimed>>
             ELSE Return
       \/ NotSaved /\ Return
  /\ UNCHANGED <<executed, clock, crashes>>

\* enqueue_retry: a new run, saved after the old one was.
Retry ==
  /\ step = "retry"
  /\ \E id \in todo :
       \/ Saved(Triggered(mem, Of(mem, id).automation, <<"retry", id, clock>>, "Queued"))
       \/ NotSaved
  /\ Return
  /\ UNCHANGED <<work, clock, crashes>>

TriggerManual(a) ==
  /\ step = "idle" /\ MoreExtra
  /\ \/ Saved(Triggered(disk, a, <<"manual", a, clock, Cardinality(disk.runs)>>, "Queued"))
     \/ NotSaved
  /\ Return
  /\ UNCHANGED <<work, clock, crashes>>

----------------------------------------------------------------------------
(* The world *)

\* A handler reads the clock once.
Time ==
  /\ step \in {"idle", "down"} /\ clock < MaxTime
  /\ clock' = clock + 1
  /\ UNCHANGED <<store, host, work, faults, crashes>>

\* The process stops, between any two saves, and all it carried out with it.
Crash ==
  /\ step # "down" /\ crashes < MaxCrashes
  /\ crashes' = crashes + 1
  /\ step' = "down" /\ todo' = {} /\ full' = FALSE /\ claimed' = {}
  /\ mem' = disk /\ executing' = {}
  /\ UNCHANGED <<disk, history, executed, clock, faults>>

HandlerStep ==
  \/ Launch \/ Recover
  \/ RecordInstant \/ MarkChecked \/ EndPoll
  \/ Claim \/ Defer \/ EndClaim
  \/ Retry

Next ==
  \/ HandlerStep
  \/ \E over \in BOOLEAN : StartTick(over)
  \/ \E id \in executing, outcome \in Outcomes : Finish(id, outcome)
  \/ \E a \in Automations : TriggerManual(a)
  \/ Time \/ Crash

Spec == Init /\ [][Next]_vars

\* Handlers end, the host's timer fires and the disk has room again and again, an
\* execution ends within its budget and the main thread takes its result.
FairSpec ==
  /\ Spec
  /\ WF_vars(HandlerStep)
  /\ SF_vars(StartTick(FALSE))
  /\ SF_vars(\E id \in executing, outcome \in Outcomes : Finish(id, outcome))

----------------------------------------------------------------------------
(* Properties *)

\* No planned time is run twice, whatever crash or failing save lies between its
\* row and the mark that it was checked: a second row that is to be carried out has
\* the same key only when the first is older than the dedupe window.
OneRunPerInstant ==
  \A h, g \in history :
    h.run /\ g.run /\ h.key = g.key /\ h.id < g.id => g.created - h.created >= Window

\* No planned time is lost: when the file says that an automation was checked until
\* now, every instant since the last check was triggered, and the newest one has a
\* run that was to be carried out unless the policy is to skip.  (The row of an
\* instant that is not run may be trimmed before it is ever saved.)
DueIsDecided ==
  [][\A a \in Automations :
       disk.last[a] # Unobserved =>
         \A t \in Missed(a, disk.last[a], disk'.last[a]) :
           /\ \E e \in disk'.seen : e.key = ScheduleKey(a, t)
           /\ CatchUp[a] > 0 /\ Missed(a, t, disk'.last[a]) = {}
                => \E h \in history' : h.key = ScheduleKey(a, t) /\ h.run]_vars

\* What begins to be carried out never was before, whatever became of the process,
\* is running in the file, and keeps within the limits.
ExecutionsAreClaimed ==
  [][\A id \in executing' \ executing :
       /\ id \notin executed
       /\ \E r \in With(disk', "Running") :
            /\ r.id = id
            /\ Cardinality({q \in With(disk', "Running") : q.automation = r.automation})
                 <= MaxConcurrency[r.automation]
       /\ executing' \subseteq {r.id : r \in With(disk', "Running")}
       /\ Cardinality(executing') <= Global]_vars

\* Running in the file, but nobody carries it out.
Orphans == {r \in With(disk, "Running") : r.id \notin executing}

\* Every run comes to an end or to a person.  Only a save that failed leaves a run
\* that is running in the file and nowhere else; it keeps its slot until the next
\* start, and behind it others wait.
EveryRunSettles ==
  <>[](/\ With(disk, "Running") = Orphans
       /\ faults = 0 => Orphans = {}
       /\ \A r \in With(disk, "Queued") :
            \/ Cardinality(Orphans) >= Global
            \/ Cardinality({q \in Orphans : q.automation = r.automation})
                 >= MaxConcurrency[r.automation])

============================================================================
