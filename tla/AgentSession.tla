---------------------------- MODULE AgentSession ----------------------------
(***************************************************************************)
(* A session with an external agent: the composer that starts turns, stops *)
(* them and answers approval cards (crates/termior-ui/src/composer_view/   *)
(* orchestrator.rs, backend.rs), the managed session and the Codex backend *)
(* under it (crates/termior-agent-host/src/session.rs, codex.rs) and the   *)
(* JSON-RPC transport on the pipes of the agent's process (transport.rs).  *)
(*                                                                         *)
(* The worker of a command, the user and the agent run side by side.  A    *)
(* request may time out and be answered later; the agent may ask while it  *)
(* is asked, end its process, or write a line that is no message.          *)
(*                                                                         *)
(* The agent is external: it answers requests in any order, begins a turn  *)
(* or refuses, and numbers its own requests by itself.                     *)
(* A built-in task may hold the composer meanwhile (one left at the limit  *)
(* of its budget when the user chose the agent); its own cards are left    *)
(* out: they only keep the user from the next turn.                        *)
(*                                                                         *)
(* Left out: text and items of a turn, permissions, requests the host does *)
(* not know, the handshake.  AgentRecovery adds checkpoints and restarts.  *)
(***************************************************************************)
EXTENDS Integers, Sequences, SequencesExt

CONSTANTS
  MaxStarts,    \* bound: turns the user starts
  MaxRequests,  \* bound: approvals the agent asks for
  MaxErrors,    \* bound: errors the agent reports
  MaxSessions   \* bound: sessions the user opens

ASSUME AgentSessionAssumption ==
  /\ MaxStarts \in Nat /\ MaxRequests \in Nat /\ MaxErrors \in Nat /\ MaxSessions \in Nat

VARIABLES
  busy, stop, card,           \* the composer: a command runs, its token, the request it shows
  state, binding, pending,    \* ManagedAgentSession; binding is the turn it is bound to
  pc, awaiting,               \* the worker: what it does, and the ID it waits for
  nextId, events,             \* StdioTransport
  incoming,                   \* what the reader thread has read
  open,                       \* the reader thread still reads
  alive, toAgent,             \* the agent's process, and what it has not read yet
  turns,                      \* its turns, in the order they began
  requests,                   \* the turn of each of its requests
  starts, errors, sessions,
  lastStart,                  \* history: the ID of the last request to start a turn
  cut,                        \* history: whether an earlier command stopped its turn, or
                              \* left it when no answer came in time
  denied                      \* history: the request whose denial was dropped

composer == <<busy, stop, card>>
session == <<state, binding, pending>>
worker == <<pc, awaiting>>
transport == <<nextId, events>>
agent == <<alive, toAgent, turns, requests>>
bounds == <<starts, errors, sessions>>
history == <<lastStart, cut, denied>>
vars == <<composer, session, worker, transport, incoming, open, agent, bounds, history>>

None == 0

Init ==
  /\ busy = FALSE /\ stop = FALSE /\ card = None
  /\ pc = "none" /\ awaiting = None
  /\ state = "Ready" /\ binding = None /\ pending = None
  /\ nextId = 1 /\ events = <<>> /\ incoming = <<>> /\ open = TRUE
  /\ alive = TRUE /\ toAgent = <<>> /\ turns = <<>> /\ requests = <<>>
  /\ starts = 0 /\ errors = 0 /\ sessions = 1
  /\ lastStart = None /\ cut = FALSE /\ denied = None

----------------------------------------------------------------------------
(* The composer *)

\* The command is over: apply_external_result.
Return == busy' = FALSE /\ stop' = FALSE /\ pc' = "none" /\ awaiting' = None

Ended(s, shown) == state' = s /\ card' = shown /\ Return

\* A request of the host: written to the agent's pipe, its answer awaited.
Send(message) ==
  /\ toAgent' = Append(toAgent, message) /\ nextId' = nextId + 1
  /\ UNCHANGED <<alive, turns, requests, events>>

\* Mutant: a session of unknown state may be used again.
NotActive == state \notin {"Running", "WaitingApproval"}

\* start_turn
MayStart == state \notin {"Running", "WaitingApproval", "Unknown"}

\* submit_external.  When the pipe is closed, or the session may not start a turn, the
\* command returns at once and leaves all as it was.
Start ==
  /\ ~busy /\ card = None /\ MayStart /\ alive /\ starts < MaxStarts
  /\ busy' = TRUE /\ pc' = "start" /\ awaiting' = nextId
  /\ Send([kind |-> "start", id |-> nextId, turn |-> None])
  /\ lastStart' = nextId /\ starts' = starts + 1
  /\ UNCHANGED <<stop, card, session, incoming, open, errors, sessions,
                 cut, denied>>

\* The stop button; while a built-in command runs the token is that command's.
Stop ==
  /\ pc # "none" /\ ~stop /\ stop' = TRUE
  /\ UNCHANGED <<busy, card, session, worker, transport, incoming, open, agent, bounds, history>>

\* A command of a built-in task that was kept when the user chose the agent: it may be
\* continued or cancelled at any time, and makes the composer busy.  begin_task_command.
BeginTask ==
  /\ ~busy /\ busy' = TRUE
  /\ UNCHANGED <<stop, card, session, worker, transport, incoming, open, agent, bounds, history>>

\* begin_task_result; the card and the session of the agent are left alone.
EndTask ==
  /\ busy /\ pc = "none" /\ busy' = FALSE
  /\ UNCHANGED <<stop, card, session, worker, transport, incoming, open, agent, bounds, history>>

\* A click on the card: take_approval and respond.  The pending request is taken before
\* the answer is written; when that fails the session goes on waiting, for nothing.
Decide ==
  /\ ~busy /\ card # None /\ card' = None
  /\ state = "WaitingApproval" /\ pending # None /\ pending' = None
  /\ \/ /\ alive
        /\ toAgent' = Append(toAgent, [kind |-> "answer", id |-> pending, turn |-> None])
        /\ state' = "Running" /\ busy' = TRUE /\ pc' = "pump"
     \/ ~alive /\ UNCHANGED <<toAgent, state, busy, pc>>
  /\ UNCHANGED <<stop, binding, awaiting, transport, incoming, open, alive, turns, requests,
                 bounds, history>>

\* The button that denies takes the card also while a built-in command runs, and
\* begin_external then drops the answer.  The button that approves does nothing.
DenyWhileBusy ==
  /\ busy /\ card # None /\ card' = None
  /\ denied' = card
  /\ UNCHANGED <<busy, stop, session, worker, transport, incoming, open, agent, bounds,
                 lastStart, cut>>

\* A new session and the process that connect starts for its first turn; the old one is
\* killed.  The handshake is private: when it fails there is no session, as before.
NewSession ==
  /\ ~busy /\ card = None /\ sessions < MaxSessions /\ sessions' = sessions + 1
  /\ state' = "Ready" /\ binding' = None /\ pending' = None
  /\ nextId' = 1 /\ events' = <<>> /\ incoming' = <<>> /\ open' = TRUE
  /\ alive' = TRUE /\ toAgent' = <<>> /\ turns' = <<>> /\ requests' = <<>>
  /\ lastStart' = None /\ cut' = FALSE /\ denied' = None
  /\ UNCHANGED <<composer, worker, starts, errors>>

----------------------------------------------------------------------------
(* The worker: a request under way *)

Asking == pc \in {"start", "cancel"}

\* Mutant: every message with an ID is an answer.
HasId(m) == m.kind \in {"response", "failure", "request"}

IsResponse(m) == m.kind \in {"response", "failure"}

\* Mutant: the next answer is taken for one's own.
AnyAnswer(m) == TRUE

IsOwn(m) == m.id = awaiting

\* The request to start a turn has come back: start_turn binds the turn.
StartAnswered(m) ==
  /\ pc = "start"
  /\ \/ /\ m.kind = "response"
        /\ binding' = m.turn /\ pending' = None /\ state' = "Running"
        /\ pc' = "pump" /\ awaiting' = None /\ UNCHANGED composer
     \/ /\ m.kind # "response"
        /\ Return /\ UNCHANGED <<card, session>>
  /\ UNCHANGED cut

\* The request to interrupt it has: cancel.
CancelAnswered(m) ==
  /\ pc = "cancel"
  /\ \/ m.kind = "response" /\ Ended("Ready", None) /\ pending' = None
     \/ m.kind # "response" /\ Ended("Unknown", None) /\ UNCHANGED pending
  /\ cut' = TRUE
  /\ UNCHANGED binding

\* request: read until one's own answer comes, and keep what else there is.  The answer
\* to another request goes to pending_responses, where only requests that are still to be
\* made would look for it.
Receive ==
  /\ Asking /\ incoming # <<>> /\ incoming' = Tail(incoming)
  /\ LET m == Head(incoming) IN
       \/ /\ IsResponse(m) /\ IsOwn(m)
          /\ StartAnswered(m) \/ CancelAnswered(m)
          /\ UNCHANGED events
       \/ /\ IsResponse(m) /\ ~IsOwn(m)
          /\ UNCHANGED <<composer, session, worker, events, cut>>
       \/ /\ ~IsResponse(m)
          /\ events' = Append(events, m)
          /\ UNCHANGED <<composer, session, worker, cut>>
  /\ UNCHANGED <<nextId, open, agent, bounds, lastStart, denied>>

\* Mutant: turn/interrupt is waited for without a limit.
StartExpires == pc = "start"

\* The time of the request is over.
Expires == Asking

\* There is nothing more to read, and there never will be.
AtEnd == incoming = <<>> /\ ~open

\* The request fails.  Whether the turn began, or was stopped, is not known.
RequestFails ==
  /\ Asking /\ (Expires \/ AtEnd)
  /\ \/ pc = "start" /\ Return /\ UNCHANGED <<card, session>>
     \/ pc = "cancel" /\ Ended("Unknown", None) /\ UNCHANGED <<binding, pending>>
  /\ cut' = TRUE
  /\ UNCHANGED <<transport, incoming, open, agent, bounds, lastStart, denied>>

----------------------------------------------------------------------------
(* The worker: a turn under way *)

\* next_event: what was kept comes before what is read.
NextEvent == IF events # <<>> THEN Head(events) ELSE Head(incoming)

\* pump_for, one event.  An answer that comes too late is a diagnostic here.
Pump ==
  /\ pc = "pump" /\ (events # <<>> \/ incoming # <<>>)
  /\ IF events # <<>> THEN events' = Tail(events) /\ UNCHANGED incoming
     ELSE incoming' = Tail(incoming) /\ UNCHANGED events
  /\ LET m == NextEvent IN
       \/ m.kind = "request" /\ pending' = m.id /\ Ended("WaitingApproval", m.id)
       \/ m.kind = "completed" /\ UNCHANGED pending /\ Ended("Completed", None)
       \/ m.kind = "error" /\ UNCHANGED pending /\ Ended("Unknown", None)
       \/ IsResponse(m) /\ UNCHANGED <<pending, state, composer, worker>>
  /\ UNCHANGED <<binding, nextId, open, agent, bounds, history>>

\* The agent's output has ended.
PumpEnds ==
  /\ pc = "pump" /\ events = <<>> /\ AtEnd
  /\ Ended("Unknown", None)
  /\ UNCHANGED <<binding, pending, transport, incoming, open, agent, bounds, history>>

\* Mutant: a stopped command returns and leaves the turn alone.
ReturnsAtOnce ==
  /\ pc = "pump" /\ stop /\ Return
  /\ UNCHANGED <<card, session, transport, agent, incoming, open, bounds, history>>

\* Between two pumps the worker looks at the token, and interrupts the turn.
NoticeStop ==
  /\ pc = "pump" /\ stop
  /\ \/ /\ alive /\ pc' = "cancel" /\ awaiting' = nextId
        /\ Send([kind |-> "interrupt", id |-> nextId, turn |-> binding])
        /\ UNCHANGED <<composer, session>>
     \/ /\ ~alive /\ Ended("Unknown", None)
        /\ UNCHANGED <<binding, pending, transport, agent>>
  /\ UNCHANGED <<incoming, open, bounds, history>>

WorkerStep == Receive \/ RequestFails \/ Pump \/ PumpEnds \/ NoticeStop

----------------------------------------------------------------------------
(* The agent and the reader thread *)

Message(kind, id, turn) == [kind |-> kind, id |-> id, turn |-> turn]

\* What the agent writes is read until a line is no message.
Emit(messages) == incoming' = IF open THEN incoming \o messages ELSE incoming

AgentMoves == UNCHANGED <<composer, session, worker, transport, sessions, starts, history>>

\* It takes up what the host sent in any order.
AgentReads(k) ==
  /\ alive /\ toAgent' = RemoveAt(toAgent, k)
  /\ LET m == toAgent[k] IN
       \/ m.kind = "start" /\ Emit(<<Message("failure", m.id, None)>>) /\ UNCHANGED turns
       \/ /\ m.kind = "start"
          /\ turns' = Append(turns, [start |-> m.id, at |-> "working", request |-> None])
          /\ Emit(<<Message("response", m.id, Len(turns) + 1)>>)
       \/ /\ m.kind = "interrupt" /\ turns[m.turn].at # "over"
          /\ turns' = [turns EXCEPT ![m.turn].at = "over"]
          /\ LET done == Message("completed", None, m.turn)
                 answer == Message("response", m.id, None)
             IN  Emit(<<done, answer>>) \/ Emit(<<answer, done>>)
       \/ /\ m.kind = "interrupt" /\ turns[m.turn].at = "over"
          /\ \E kind \in {"response", "failure"} : Emit(<<Message(kind, m.id, None)>>)
          /\ UNCHANGED turns
       \/ /\ m.kind = "answer"
          /\ LET t == requests[m.id] IN
               turns' = IF turns[t].at = "waiting" /\ turns[t].request = m.id
                        THEN [turns EXCEPT ![t].at = "working"] ELSE turns
          /\ UNCHANGED incoming
  /\ AgentMoves /\ UNCHANGED <<open, alive, requests, errors>>

AgentAsks(t) ==
  /\ alive /\ turns[t].at = "working" /\ Len(requests) < MaxRequests
  /\ requests' = Append(requests, t)
  /\ turns' = [turns EXCEPT ![t].at = "waiting", ![t].request = Len(requests) + 1]
  /\ Emit(<<Message("request", Len(requests) + 1, t)>>)
  /\ AgentMoves /\ UNCHANGED <<open, alive, toAgent, errors>>

AgentCompletes(t) ==
  /\ alive /\ turns[t].at = "working"
  /\ turns' = [turns EXCEPT ![t].at = "over"]
  /\ Emit(<<Message("completed", None, t)>>)
  /\ AgentMoves /\ UNCHANGED <<open, alive, toAgent, requests, errors>>

\* An error does not end the turn.
AgentErrs(t) ==
  /\ alive /\ turns[t].at # "over" /\ errors < MaxErrors
  /\ errors' = errors + 1
  /\ Emit(<<Message("error", None, t)>>)
  /\ AgentMoves /\ UNCHANGED <<open, agent>>

AgentExits ==
  /\ alive /\ alive' = FALSE /\ open' = FALSE /\ toAgent' = <<>>
  /\ AgentMoves /\ UNCHANGED <<incoming, turns, requests, errors>>

\* A line that is no message ends the reader thread, and not the agent.  What was read
\* together with it is dropped.
BadLine ==
  /\ alive /\ open /\ open' = FALSE
  /\ \E n \in 0..Len(incoming) : incoming' = SubSeq(incoming, 1, n)
  /\ AgentMoves /\ UNCHANGED <<agent, errors>>

AgentStep ==
  \/ AgentExits \/ BadLine
  \/ \E k \in DOMAIN toAgent : AgentReads(k)
  \/ \E t \in DOMAIN turns : AgentAsks(t) \/ AgentCompletes(t) \/ AgentErrs(t)

Next ==
  \/ Start \/ Stop \/ Decide \/ NewSession
  \/ BeginTask \/ EndTask \/ DenyWhileBusy
  \/ WorkerStep \/ AgentStep

Spec == Init /\ [][Next]_vars

\* The worker's thread runs; every request has a time limit, and every pump lasts 250 ms
\* at most, whatever the agent does.  The agent and the user owe nothing.
FairSpec == Spec /\ WF_vars(WorkerStep) /\ WF_vars(NoticeStop)

----------------------------------------------------------------------------
(* Properties *)

\* The session is bound to the turn that the agent began for its last request, whatever
\* answers of requests that were given up come in between: a stop interrupts that turn.
TurnIsBoundToItsStart ==
  state \in {"Running", "WaitingApproval"} => turns[binding].start = lastStart

\* Where the request r of the agent is, on its way to the user and back.
UnderWay(r) ==
  \/ \E queue \in {events, incoming} :
       \E k \in DOMAIN queue : queue[k].kind = "request" /\ queue[k].id = r
  \/ card = r /\ pending = r /\ state = "WaitingApproval"
  \/ \E k \in DOMAIN toAgent : toAgent[k].kind = "answer" /\ toAgent[k].id = r

\* The session may neither pump nor start a turn: what the agent asks for is not read
\* any more, and the user can but open another session.
Stranded == state = "Unknown" \/ denied # None

\* No approval is forgotten: while a turn waits for one, the request is still to be read,
\* on the card and with the session that can answer it, or its answer is on its way.  The
\* agent numbers its requests by itself, and asks at any time, also while it is asked.
\* Two kinds of session are excepted: one whose state is unknown, where nobody reads on,
\* and one whose request was denied while a built-in command ran.
RequestsReachTheUser ==
  alive /\ open /\ ~Stranded =>
    \A t \in DOMAIN turns : turns[t].at = "waiting" => UnderWay(turns[t].request)

\* Between two commands no turn is under way that nobody follows, and the card shows what
\* the session waits for.  A session waits for an approval without a card in two cases
\* only: the agent had died before the answer was written, or the request was denied while
\* a built-in command ran, and the answer dropped.  The user can but open another.
CardMatchesSession ==
  pc = "none" =>
    /\ state # "Running"
    /\ card = pending \/ (card = None /\ denied = pending)
    /\ card # None => state = "WaitingApproval"
    /\ state = "WaitingApproval" => card # None \/ denied # None \/ ~alive

\* A turn is completed by its own end, unless an earlier one of the session was stopped
\* or its start was given up: pump_for takes the end of any turn.
EndsByOwnEvent ==
  [][state = "Running" /\ state' = "Completed" /\ ~cut => NextEvent.turn = binding]_vars

\* A command that the user stopped, or whose agent writes no more, returns.
CommandsReturn == pc # "none" /\ (stop \/ ~open) ~> pc = "none"

============================================================================
