---------------------------- MODULE AgentRecovery ----------------------------
(***************************************************************************)
(* What is left of a session with an external agent when the application   *)
(* stops: AgentSession with the checkpoints it writes                      *)
(* (crates/termior-agent-host/src/session.rs, restore.rs), the query of    *)
(* the agent and the recovery center afterwards                            *)
(* (crates/termior-store/src/recovery.rs, the composer's configure).       *)
(*                                                                         *)
(* Each session is a task with files of its own; the model follows those   *)
(* of the last one.  A checkpoint that cannot be written is left out.      *)
(***************************************************************************)
EXTENDS AgentSession

CONSTANT
  MaxLives     \* bound: how often the application starts

ASSUME AgentRecoveryAssumption == MaxLives \in Nat \ {0}

VARIABLES
  life,        \* down, or up with the session or after it
  snapshot,    \* the state in snapshot.json
  operation,   \* the state in recovery.json
  lives,
  underWay,    \* history: a turn was under way when the application stopped
  early        \* history: recovery.json had said the task was over before it stopped

files == <<snapshot, operation>>
rvars == <<vars, life, files, lives, underWay, early>>

Nothing == "none"

RInit ==
  /\ Init
  /\ life = "session" /\ snapshot = Nothing /\ operation = Nothing
  /\ lives = 1 /\ underWay = FALSE /\ early = FALSE

----------------------------------------------------------------------------
(* Checkpoints *)

\* snapshot_state: a session that is ready keeps the snapshot it has.
Unsaved == state # "Ready" /\ snapshot # state

\* checkpoint_session, with the file that says where to ask (backend-binding.json).
Checkpoint ==
  /\ life = "session" /\ Unsaved
  /\ snapshot' = state
  /\ UNCHANGED <<vars, life, operation, lives, underWay, early>>

Kept == UNCHANGED <<life, files, lives, underWay, early>>

\* The worker goes on after the checkpoint.
Worker == life = "session" /\ ~Unsaved /\ WorkerStep /\ Kept

User ==
  /\ life = "session"
  /\ Stop \/ EndTask \/ DenyWhileBusy \/ (~Unsaved /\ (Start \/ Decide \/ BeginTask))
  /\ Kept

Agent == life = "session" /\ AgentStep /\ Kept

\* A new session is a new task.
OtherSession ==
  /\ life = "session" /\ ~Unsaved /\ NewSession
  /\ snapshot' = Nothing /\ operation' = Nothing
  /\ UNCHANGED <<life, lives, underWay, early>>

----------------------------------------------------------------------------
(* The query: reconcile_persisted_backend_bindings *)

\* settled_recovery
Settled == operation \in {"Succeeded", "Failed", "Abandoned"}

LastTurn == turns[Len(turns)]
TurnUnderWay == turns # <<>> /\ LastTurn.at # "over"

\* What the agent says of the thread, or that it cannot be asked; a turn that ended with
\* the agent's process may be reported as interrupted.
Reports ==
  {"no answer"} \cup
    IF turns = <<>> THEN {"idle"}
    ELSE IF LastTurn.at = "over" THEN {"completed", "interrupted"}
    ELSE IF life = "session" /\ alive THEN {"running", "waiting-approval"}
    ELSE {"running", "interrupted"}

\* Mutant: what is not waiting and was not interrupted has succeeded.
Guessed(report) ==
  CASE report = "waiting-approval" -> "Waiting"
    [] report = "interrupted" -> "Abandoned"
    [] report \in {"completed", "no answer", "idle", "running"} -> "Succeeded"

\* reduce_queried_backend_status
Reduced(report) ==
  CASE report = "waiting-approval" -> "Waiting"
    [] report = "completed" -> "Succeeded"
    [] report = "interrupted" -> "Abandoned"
    [] report \in {"no answer", "idle", "running"} -> "Unknown"

\* A session that was never checkpointed has no binding; a task that is settled is not
\* asked for.
Query ==
  IF snapshot = Nothing \/ Settled THEN UNCHANGED operation
  ELSE \E report \in Reports : operation' = Reduced(report)

\* configure runs when the settings are saved, too, with a session that goes on.
SaveSettings ==
  /\ life # "down"
  /\ Query
  /\ UNCHANGED <<vars, life, snapshot, lives, underWay, early>>

----------------------------------------------------------------------------
(* Stop and start *)

\* The agent goes with the application; what it has of its turns stays.
StopApplication ==
  /\ life # "down" /\ life' = "down" /\ lives < MaxLives
  /\ underWay' = (underWay \/ TurnUnderWay)
  /\ early' = (early \/ (life = "session" /\ Settled))
  /\ busy' = FALSE /\ stop' = FALSE /\ card' = None
  /\ state' = "Ready" /\ binding' = None /\ pending' = None
  /\ pc' = "none" /\ awaiting' = None
  /\ nextId' = 1 /\ events' = <<>> /\ incoming' = <<>> /\ open' = FALSE
  /\ alive' = FALSE /\ toAgent' = <<>>
  /\ lastStart' = None /\ cut' = FALSE /\ denied' = None
  /\ UNCHANGED <<turns, requests, bounds, files, lives>>

StartApplication ==
  /\ life = "down" /\ life' = "after" /\ lives' = lives + 1
  /\ Query
  /\ UNCHANGED <<vars, snapshot, underWay, early>>

----------------------------------------------------------------------------
(* The recovery center *)

\* scan: an operation in recovery.json comes first; a snapshot of an external session is
\* believed only when it says that the session was over.
Shown ==
  IF operation # Nothing THEN operation
  ELSE IF snapshot = "Completed" THEN "Succeeded" ELSE "Unknown"

Listed == snapshot # Nothing /\ Shown \notin {"Succeeded", "Abandoned"}

\* apply, with the buttons Prepare retry and Abandon; a session that goes on is in the
\* list only once the settings were saved.
Recover(decision) ==
  /\ life = "after" \/ (life = "session" /\ operation # Nothing)
  /\ Listed /\ operation' = decision
  /\ UNCHANGED <<vars, life, snapshot, lives, underWay, early>>

RNext ==
  \/ Worker \/ User \/ Agent \/ Checkpoint \/ OtherSession
  \/ SaveSettings \/ StopApplication \/ StartApplication
  \/ \E decision \in {"Waiting", "Abandoned"} : Recover(decision)

RSpec == RInit /\ [][RNext]_rvars

\* As in AgentSession.
RFairSpec ==
  /\ RSpec
  /\ WF_rvars(Worker) /\ WF_rvars(Checkpoint)
  /\ WF_rvars(life = "session" /\ ~Unsaved /\ NoticeStop /\ Kept)

----------------------------------------------------------------------------
(* Properties *)

\* A turn that was under way when the application stopped is in the list of the
\* recovery center, until the user abandons it or the agent says that it was
\* interrupted: nothing guesses that it ended well.  Two are forgotten: one that the
\* agent began before the session had its first checkpoint, and one of a session that
\* was called over while it went on (early).
TurnsAreNotForgotten ==
  life = "after" /\ underWay /\ ~early /\ snapshot # Nothing
    => Listed \/ operation = "Abandoned"

============================================================================
