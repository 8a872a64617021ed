------------------------ MODULE CommandSessionProofs ------------------------
(***************************************************************************)
(* Proofs about CommandSession, for every number of sessions: a cancelled  *)
(* task leaves no process behind that is not said to be unknown, once the  *)
(* user has a session at most one write of the task lands in it, and a     *)
(* pane that the user took is reported before the task goes on.            *)
(***************************************************************************)
EXTENDS CommandSession, TLAPS

\* The call under way belongs to phase "tool", and its session is what its step needs.
CallInv ==
  /\ phase # "tool" => call = NoCall
  /\ call.at # "done" => call.id \in Sessions
  /\ call.at \in {"spawn", "register"} => call.id \in Owned /\ ~Known(call.id)
  /\ call.at = "publish" => call.id \in Owned /\ Known(call.id)

\* What kill can find is registered, a process it killed is dead, and only the task's own
\* cancel kills while the task is being cancelled.
KillInv ==
  /\ \A s \in listed \cup Panes : Known(s)
  /\ killer.at # None => Known(killer.at) /\ (~killer.failed => killer.at \notin live)
  /\ killer.by = "task" <=> phase = "cancelling"
  /\ killer.by = "tool" => call.at = "kill"

\* A session that is said to be over has no process, and a process without a session is
\* that of the call under way.
LiveInv ==
  \A s \in live : /\ state[s] \notin Stopped
                  /\ Known(s) \/ (call.at = "register" /\ call.id = s)

\* While the task is cancelled, a process that runs is still to be killed, unless its
\* session is unknown or the cancellation is not sure.
CancelInv ==
  /\ phase = "cancelling" /\ killer.sure
       => \A s \in live : state[s] = "Unknown" \/ s \in killer.todo
  /\ outcome = "Cancelled" => phase = "over" /\ \A s \in live : state[s] = "Unknown"

\* A write that was checked is the first since the task got the session.
LateInv ==
  /\ \A s \in Sessions : /\ late[s] <= 1
                         /\ controller[s] = "task" => late[s] = 0
                         /\ ~Known(s) => controller[s] = "task"
  /\ call.at = "write" => late[call.id] = 0

\* A pane that the task controls, or that the user took and the task was not told of, is
\* among the claims, or on its way into them by a claim or a hand-back.
ClaimInv ==
  /\ \A s \in Panes :
       ~Over(s) /\ (controller[s] = "task" \/ taken[s] = "unseen") =>
         \/ s \in claimed \/ handing = s
         \/ call.at = "claimed" /\ call.id = s
  /\ handing # None => controller[handing] = "task"
  /\ outcome = "Completed" => phase = "over"

IInv == TypeOK /\ CallInv /\ KillInv /\ LiveInv /\ CancelInv /\ LateInv /\ ClaimInv

----------------------------------------------------------------------------
(* What the operators of a step do to the call and to the killing *)

Places == {"spawn", "register", "publish", "wait", "collect", "check", "write",
           "claim", "claimed", "kill", "done"}

\* A killing begins with nothing done and nothing in doubt.
LEMMA KillStarts ==
  ASSUME NEW by \in {"poll", "task", "tool"}, NEW todo \in SUBSET Sessions,
         StartKill(by, todo)
  PROVE  /\ killer' \in KillType /\ killer'.by = by /\ killer'.todo = todo
         /\ killer'.at = None /\ killer'.sure
  BY DEF StartKill, NoKill, KillType

\* The snapshot of kill_task holds sessions.
LEMMA SnapshotType == ToKill \in SUBSET Sessions
  BY DEF ToKill, Sessions

\* A session that was looked at leaves the list, and a doubt stays.
LEMMA Verifies ==
  ASSUME TypeOK, NEW s \in Sessions, NEW sure \in BOOLEAN, Verified(s, sure)
  PROVE  /\ killer' \in KillType /\ killer'.by = killer.by
         /\ killer'.todo = killer.todo \ {s} /\ killer'.at = None
         /\ killer'.sure => killer.sure /\ sure
  BY DEF Verified, TypeOK, KillType

\* A call goes from place to place with its session.
LEMMA GoesTo ==
  ASSUME TypeOK, NEW place \in Places, GoTo(place)
  PROVE  call' \in CallType /\ call'.at = place /\ call'.id = call.id
  BY DEF GoTo, TypeOK, CallType, Places

\* A call begins with a session that fits.
LEMMA CallBegins ==
  ASSUME TypeOK, NEW s \in Sessions, Begins(s)
  PROVE  /\ phase = "call" /\ phase' = "tool"
         /\ call' \in CallType /\ call'.id = s
         /\ call'.at \in {"spawn", "check", "wait", "claim", "kill"}
         /\ call'.at = "spawn" => s \in Owned /\ ~Known(s)
         /\ killer' \in KillType
         /\ killer' = killer \/ (killer'.by = "tool" /\ killer'.at = None /\ call'.at = "kill")
         /\ UNCHANGED <<state, controller, listed, live, shell, claimed, polled>>
         /\ UNCHANGED <<outcome, paused, cancelled, handing, taken, late>>
  <1> USE DEF TypeOK, Calls, CallType, registry, user
  <1>1. CASE RunCommand(s) BY <1>1 DEF RunCommand, Owned
  <1>2. CASE BgSpawn(s) BY <1>2 DEF BgSpawn, Owned
  <1>3. CASE ShellRun(s) BY <1>3 DEF ShellRun, Owned
  <1>4. CASE CommandWait(s) BY <1>4 DEF CommandWait
  <1>5. CASE WriteInput(s) BY <1>5 DEF WriteInput
  <1>6. CASE CommandClaim(s) BY <1>6 DEF CommandClaim
  <1>7. CASE CommandKill(s) BY <1>7, KillStarts DEF CommandKill
  <1> QED BY <1>1, <1>2, <1>3, <1>4, <1>5, <1>6, <1>7 DEF Begins

\* The session that is marked was stopped, or the cancellation is not sure any more.
LEMMA Marks ==
  ASSUME TypeOK, KillMarks
  PROVE  /\ killer.at \in Sessions /\ killer.at # None
         /\ \A r \in Sessions :
              state'[r] = IF r = killer.at THEN Mark(killer.at) ELSE state[r]
         /\ state' \in [Sessions -> {"none", "Running", "Unknown"} \cup Stopped]
         /\ Known(killer.at) => Mark(killer.at) # "none"
         /\ killer' \in KillType /\ killer'.by = killer.by
         /\ killer'.todo = killer.todo \ {killer.at} /\ killer'.at = None
         /\ killer'.sure => killer.sure /\ Mark(killer.at) \in Stopped
         /\ UNCHANGED <<controller, listed, live, executor, task, user>>
  <1>1. killer.at \in Sessions
    BY DEF KillMarks, TypeOK, KillType
  <1>2. Mark(killer.at) \in {"none", "Running", "Unknown"} \cup Stopped
    BY <1>1 DEF Mark, TypeOK, Stopped
  <1>3. (Mark(killer.at) \in Stopped) \in BOOLEAN
    OBVIOUS
  <1>4. Verified(killer.at, Mark(killer.at) \in Stopped)
    BY DEF KillMarks
  <1>5. Known(killer.at) => Mark(killer.at) # "none"
    BY DEF Mark, Known, Over, Stopped
  <1> QED
    BY <1>1, <1>2, <1>3, <1>4, <1>5, Verifies DEF KillMarks, TypeOK

\* What becomes of a session and its process when they are to be killed.
Passed(s) ==
  /\ UNCHANGED <<state, live>> /\ killer'.at = None /\ killer'.todo = killer.todo \ {s}
  /\ killer'.sure => killer.sure /\ state[s] \in Stopped
Ended(s) ==
  /\ s \in listed /\ s \notin live /\ UNCHANGED live
  /\ \A r \in Sessions : state'[r] = IF r = s THEN "Exited" ELSE state[r]
  /\ state' \in [Sessions -> {"none", "Running", "Unknown"} \cup Stopped]
  /\ killer'.at = None /\ killer'.todo = killer.todo \ {s}
  /\ killer'.sure => killer.sure
Killed(s) ==
  /\ s \in listed /\ UNCHANGED state
  /\ killer'.at = s /\ killer'.todo = killer.todo /\ killer'.sure = killer.sure
  /\ live' = live \ {s} \/ (live' = live /\ killer'.failed)

\* Killing a session ends it or reports that it is over; control stays where it is.
LEMMA Kills ==
  ASSUME TypeOK, NEW s \in Sessions, KillProcess(s)
  PROVE  /\ killer' \in KillType /\ killer'.by = killer.by
         /\ Passed(s) \/ Ended(s) \/ Killed(s)
         /\ UNCHANGED <<controller, listed, executor, task, user>>
  <1>1. CASE Over(s) /\ Verified(s, state[s] \in Stopped) /\ UNCHANGED <<live, state>>
    <2>1. (state[s] \in Stopped) \in BOOLEAN
      OBVIOUS
    <2> QED BY <1>1, <2>1, Verifies DEF KillProcess, Passed
  <1>2. CASE s \notin listed /\ Verified(s, FALSE) /\ UNCHANGED <<live, state>>
    BY <1>2, Verifies DEF KillProcess, Passed
  <1>3. CASE /\ s \in (listed \cap Commands) \ live
             /\ state' = [state EXCEPT ![s] = "Exited"]
             /\ Verified(s, TRUE) /\ UNCHANGED live
    BY <1>3, Verifies DEF KillProcess, Ended, TypeOK, Stopped
  <1>4. CASE /\ s \in listed /\ live' = live \ {s}
             /\ killer' = [killer EXCEPT !.at = s, !.failed = FALSE] /\ UNCHANGED state
    BY <1>4 DEF KillProcess, Killed, TypeOK, KillType
  <1>5. CASE s \in listed /\ Resists(s)
    <2>1. CASE s \in Shells
      BY <1>5, <2>1, ZenonT(60) DEF KillProcess, Resists, Killed, TypeOK, KillType
    <2>2. CASE s \notin Shells
      BY <1>5, <2>2, Verifies DEF KillProcess, Resists, Passed
    <2> QED BY <2>1, <2>2
  <1> QED
    BY <1>1, <1>2, <1>3, <1>4, <1>5 DEF KillProcess

\* Outside a call, a process that runs is in kill_task's snapshot or its session unknown.
LEMMA Snapshot ==
  ASSUME TypeOK, CallInv, LiveInv, phase # "tool"
  PROVE  \A s \in live : state[s] = "Unknown" \/ s \in ToKill
  BY DEF TypeOK, CallInv, LiveInv, NoCall, ToKill, Over, Stopped

----------------------------------------------------------------------------
(* The steps *)

\* Every step keeps the types.
LEMMA TypeStep ==
  ASSUME IInv, Next PROVE TypeOK'
  <1> USE SessionAssumption
      DEF IInv, TypeOK, CallType, KillType, CallInv, Sessions, Stopped, Known,
          registry, executor, task, user
  <1>1. CASE Drive
    BY <1>1, KillStarts, SnapshotType
    DEF Drive, Cancels, Pauses, GoesOn, Broken, Kept, KeptBut, Taken
  <1>2. CASE NotExecuted
    BY <1>2 DEF NotExecuted
  <1>3. CASE Returns
    BY <1>3, ZenonT(60) DEF Returns, NoCall, NoKill
  <1>4. ASSUME NEW s \in Sessions, Begins(s) PROVE TypeOK'
    BY <1>4, CallBegins
  <1>5. CASE PollCancels
    BY <1>5, KillStarts, SnapshotType DEF PollCancels
  <1>6. CASE PollEnds
    BY <1>6 DEF PollEnds, KillEnds, NoKill
  <1>7. CASE KillToolEnds
    BY <1>7 DEF KillToolEnds, KillEnds, NoKill
  <1>8. CASE CancelEnds
    BY <1>8 DEF CancelEnds, KillEnds, NoKill
  <1>9. CASE KillMarks
    BY <1>9, Marks
  <1>10. ASSUME NEW s \in Sessions, KillProcess(s) PROVE TypeOK'
    BY <1>10, Kills DEF Passed, Ended, Killed
  <1>11. CASE Spawn
    BY <1>11 DEF Spawn, At, GoTo
  <1>12. CASE Register
    BY <1>12 DEF Register, At, GoTo
  <1>13. CASE Publish
    BY <1>13 DEF Publish, Then, At, GoTo
  <1>14. CASE Waited
    BY <1>14 DEF Waited, At, GoTo
  <1>15. CASE CheckWrite
    BY <1>15 DEF CheckWrite, MayWrite, At, GoTo
  <1>16. CASE Write
    BY <1>16 DEF Write, At, GoTo
  <1>17. CASE TakesControl
    BY <1>17 DEF TakesControl, At, GoTo
  <1>18. CASE RegistersClaim
    BY <1>18 DEF RegistersClaim, Claims, At, GoTo
  <1>19. ASSUME NEW s \in Sessions, Dies(s) PROVE TypeOK'
    BY <1>19 DEF Dies
  <1>20. ASSUME NEW s \in Sessions, Noticed(s) PROVE TypeOK'
    BY <1>20 DEF Noticed, Taken, Over
  <1>21. ASSUME NEW s \in Sessions, TakeOver(s) PROVE TypeOK'
    BY <1>21 DEF TakeOver, Taken
  <1>22. ASSUME NEW s \in Sessions, HandBack(s) PROVE TypeOK'
    BY <1>22 DEF HandBack
  <1>23. CASE HandedBack
    BY <1>23 DEF HandedBack, Claims
  <1>24. CASE Continue
    BY <1>24 DEF Continue
  <1>25. CASE Stop
    BY <1>25, KillStarts, SnapshotType DEF Stop, Cancels
  <1> QED
    BY <1>1, <1>2, <1>3, <1>4, <1>5, <1>6, <1>7, <1>8, <1>9, <1>10, <1>11, <1>12, <1>13,
       <1>14, <1>15, <1>16, <1>17, <1>18, <1>19, <1>20, <1>21, <1>22, <1>23, <1>24, <1>25
    DEF Next, Runtime, Killing, Worker, World

\* Every step keeps CallInv: one call at a time, and its session fits it.
LEMMA CallStep ==
  ASSUME IInv, Next PROVE CallInv'
  <1> USE SessionAssumption
      DEF IInv, TypeOK, CallInv, KillInv, Known, CallType, Sessions, NoCall,
          registry, executor, task, user
  <1>1. CASE Drive
    BY <1>1, KillStarts, SnapshotType
    DEF Drive, Cancels, Pauses, GoesOn, Broken, Kept, KeptBut, Taken
  <1>2. CASE NotExecuted
    BY <1>2 DEF NotExecuted
  <1>3. CASE Returns
    BY <1>3 DEF Returns, NoCall, NoKill
  <1>4. ASSUME NEW s \in Sessions, Begins(s) PROVE CallInv'
    BY <1>4, CallBegins
  <1>5. CASE PollCancels
    BY <1>5, KillStarts, SnapshotType DEF PollCancels
  <1>6. CASE PollEnds
    BY <1>6 DEF PollEnds, KillEnds, NoKill
  <1>7. CASE KillToolEnds
    BY <1>7 DEF KillToolEnds, KillEnds, NoKill
  <1>8. CASE CancelEnds
    BY <1>8 DEF CancelEnds, KillEnds, NoKill
  <1>9. CASE KillMarks
    <2>1. \A s \in Sessions : Known(s) <=> Known(s)'
      BY <1>9, Marks
    <2> QED BY <1>9, <2>1, Marks
  <1>10. ASSUME NEW s \in Sessions, KillProcess(s) PROVE CallInv'
    BY <1>10, Kills DEF Passed, Ended, Killed
  <1>11. CASE Spawn
    BY <1>11 DEF Spawn, At, GoTo
  <1>12. CASE Register
    BY <1>12 DEF Register, At, GoTo
  <1>13. CASE Publish
    BY <1>13 DEF Publish, Then, At, GoTo
  <1>14. CASE Waited
    BY <1>14 DEF Waited, At, GoTo
  <1>15. CASE CheckWrite
    BY <1>15 DEF CheckWrite, MayWrite, At, GoTo
  <1>16. CASE Write
    BY <1>16 DEF Write, At, GoTo
  <1>17. CASE TakesControl
    BY <1>17 DEF TakesControl, At, GoTo
  <1>18. CASE RegistersClaim
    BY <1>18 DEF RegistersClaim, Claims, At, GoTo
  <1>19. ASSUME NEW s \in Sessions, Dies(s) PROVE CallInv'
    BY <1>19 DEF Dies
  <1>20. ASSUME NEW s \in Sessions, Noticed(s) PROVE CallInv'
    BY <1>20 DEF Noticed, Taken, Over
  <1>21. ASSUME NEW s \in Sessions, TakeOver(s) PROVE CallInv'
    BY <1>21 DEF TakeOver, Taken
  <1>22. ASSUME NEW s \in Sessions, HandBack(s) PROVE CallInv'
    BY <1>22 DEF HandBack
  <1>23. CASE HandedBack
    BY <1>23 DEF HandedBack, Claims
  <1>24. CASE Continue
    BY <1>24 DEF Continue
  <1>25. CASE Stop
    BY <1>25, KillStarts, SnapshotType DEF Stop, Cancels
  <1> QED
    BY <1>1, <1>2, <1>3, <1>4, <1>5, <1>6, <1>7, <1>8, <1>9, <1>10, <1>11, <1>12, <1>13,
       <1>14, <1>15, <1>16, <1>17, <1>18, <1>19, <1>20, <1>21, <1>22, <1>23, <1>24, <1>25
    DEF Next, Runtime, Killing, Worker, World

\* Every step keeps KillInv: kill finds registered sessions, and what it killed is dead.
LEMMA KillStep ==
  ASSUME IInv, Next PROVE KillInv'
  <1> USE SessionAssumption
      DEF IInv, TypeOK, CallInv, KillInv, Known, KillType, Sessions, NoCall,
          registry, executor, task, user
  <1>1. CASE Drive
    BY <1>1, KillStarts, SnapshotType
    DEF Drive, Cancels, Pauses, GoesOn, Broken, Kept, KeptBut, Taken
  <1>2. CASE NotExecuted
    BY <1>2 DEF NotExecuted
  <1>3. CASE Returns
    BY <1>3 DEF Returns, NoCall, NoKill
  <1>4. ASSUME NEW s \in Sessions, Begins(s) PROVE KillInv'
    BY <1>4, CallBegins
  <1>5. CASE PollCancels
    BY <1>5, KillStarts, SnapshotType DEF PollCancels
  <1>6. CASE PollEnds
    BY <1>6 DEF PollEnds, KillEnds, NoKill
  <1>7. CASE KillToolEnds
    BY <1>7 DEF KillToolEnds, KillEnds, NoKill
  <1>8. CASE CancelEnds
    BY <1>8 DEF CancelEnds, KillEnds, NoKill
  <1>9. CASE KillMarks
    BY <1>9, Marks
  <1>10. ASSUME NEW s \in Sessions, KillProcess(s) PROVE KillInv'
    <2>1. CASE Passed(s) BY <1>10, <2>1, Kills DEF Passed
    <2>2. CASE Ended(s) BY <1>10, <2>2, Kills DEF Ended
    <2>3. CASE Killed(s) BY <1>10, <2>3, Kills DEF Killed
    <2> QED BY <1>10, <2>1, <2>2, <2>3, Kills
  <1>11. CASE Spawn
    BY <1>11 DEF Spawn, At, GoTo
  <1>12. CASE Register
    BY <1>12 DEF Register, At, GoTo
  <1>13. CASE Publish
    BY <1>13 DEF Publish, Then, At, GoTo
  <1>14. CASE Waited
    BY <1>14 DEF Waited, At, GoTo
  <1>15. CASE CheckWrite
    BY <1>15 DEF CheckWrite, MayWrite, At, GoTo
  <1>16. CASE Write
    BY <1>16 DEF Write, At, GoTo
  <1>17. CASE TakesControl
    BY <1>17 DEF TakesControl, At, GoTo
  <1>18. CASE RegistersClaim
    BY <1>18 DEF RegistersClaim, Claims, At, GoTo
  <1>19. ASSUME NEW s \in Sessions, Dies(s) PROVE KillInv'
    BY <1>19 DEF Dies
  <1>20. ASSUME NEW s \in Sessions, Noticed(s) PROVE KillInv'
    BY <1>20 DEF Noticed, Taken, Over
  <1>21. ASSUME NEW s \in Sessions, TakeOver(s) PROVE KillInv'
    BY <1>21 DEF TakeOver, Taken
  <1>22. ASSUME NEW s \in Sessions, HandBack(s) PROVE KillInv'
    BY <1>22 DEF HandBack
  <1>23. CASE HandedBack
    BY <1>23 DEF HandedBack, Claims
  <1>24. CASE Continue
    BY <1>24 DEF Continue
  <1>25. CASE Stop
    BY <1>25, KillStarts, SnapshotType DEF Stop, Cancels
  <1> QED
    BY <1>1, <1>2, <1>3, <1>4, <1>5, <1>6, <1>7, <1>8, <1>9, <1>10, <1>11, <1>12, <1>13,
       <1>14, <1>15, <1>16, <1>17, <1>18, <1>19, <1>20, <1>21, <1>22, <1>23, <1>24, <1>25
    DEF Next, Runtime, Killing, Worker, World

\* Every step keeps LiveInv: no process runs in a session that is said to have stopped.
LEMMA LiveStep ==
  ASSUME IInv, Next PROVE LiveInv'
  <1> USE SessionAssumption
      DEF IInv, TypeOK, CallInv, KillInv, LiveInv, Known, Stopped, Sessions, Owned, NoCall,
          registry, executor, task, user
  <1>1. CASE Drive
    BY <1>1, KillStarts, SnapshotType
    DEF Drive, Cancels, Pauses, GoesOn, Broken, Kept, KeptBut, Taken
  <1>2. CASE NotExecuted
    BY <1>2 DEF NotExecuted
  <1>3. CASE Returns
    BY <1>3 DEF Returns, NoCall, NoKill
  <1>4. ASSUME NEW s \in Sessions, Begins(s) PROVE LiveInv'
    BY <1>4, CallBegins
  <1>5. CASE PollCancels
    BY <1>5, KillStarts, SnapshotType DEF PollCancels
  <1>6. CASE PollEnds
    BY <1>6 DEF PollEnds, KillEnds, NoKill
  <1>7. CASE KillToolEnds
    BY <1>7 DEF KillToolEnds, KillEnds, NoKill
  <1>8. CASE CancelEnds
    BY <1>8 DEF CancelEnds, KillEnds, NoKill
  <1>9. CASE KillMarks
    <2>1. ASSUME NEW s \in live PROVE state'[s] = state[s] \/ state'[s] = "Unknown"
      BY <1>9, <2>1, Marks DEF Mark, Over
    <2> QED BY <1>9, <2>1, Marks DEF KillMarks
  <1>10. ASSUME NEW s \in Sessions, KillProcess(s) PROVE LiveInv'
    BY <1>10, Kills DEF Passed, Ended, Killed
  <1>11. CASE Spawn
    <2>1. CASE live' = live \cup {call.id} /\ GoTo("register")
      BY <1>11, <2>1, GoesTo DEF Spawn, At, Places
    <2>2. CASE UNCHANGED live
      BY <1>11, <2>2 DEF Spawn, At
    <2> QED BY <1>11, <2>1, <2>2 DEF Spawn
  <1>12. CASE Register
    BY <1>12 DEF Register, At, GoTo
  <1>13. CASE Publish
    BY <1>13 DEF Publish, Then, At, GoTo
  <1>14. CASE Waited
    BY <1>14 DEF Waited, At, GoTo
  <1>15. CASE CheckWrite
    BY <1>15 DEF CheckWrite, MayWrite, At, GoTo
  <1>16. CASE Write
    BY <1>16 DEF Write, At, GoTo
  <1>17. CASE TakesControl
    BY <1>17 DEF TakesControl, At, GoTo
  <1>18. CASE RegistersClaim
    BY <1>18 DEF RegistersClaim, Claims, At, GoTo
  <1>19. ASSUME NEW s \in Sessions, Dies(s) PROVE LiveInv'
    BY <1>19 DEF Dies
  <1>20. ASSUME NEW s \in Sessions, Noticed(s) PROVE LiveInv'
    BY <1>20 DEF Noticed, Taken, Over
  <1>21. ASSUME NEW s \in Sessions, TakeOver(s) PROVE LiveInv'
    BY <1>21 DEF TakeOver, Taken
  <1>22. ASSUME NEW s \in Sessions, HandBack(s) PROVE LiveInv'
    BY <1>22 DEF HandBack
  <1>23. CASE HandedBack
    BY <1>23 DEF HandedBack, Claims
  <1>24. CASE Continue
    BY <1>24 DEF Continue
  <1>25. CASE Stop
    BY <1>25, KillStarts, SnapshotType DEF Stop, Cancels
  <1> QED
    BY <1>1, <1>2, <1>3, <1>4, <1>5, <1>6, <1>7, <1>8, <1>9, <1>10, <1>11, <1>12, <1>13,
       <1>14, <1>15, <1>16, <1>17, <1>18, <1>19, <1>20, <1>21, <1>22, <1>23, <1>24, <1>25
    DEF Next, Runtime, Killing, Worker, World

\* Every step keeps CancelInv: a cancellation works its snapshot off and forgets nothing.
LEMMA CancelStep ==
  ASSUME IInv, Next PROVE CancelInv'
  <1> USE SessionAssumption
      DEF IInv, TypeOK, CallInv, KillInv, LiveInv, CancelInv, Known, Stopped, Sessions, NoCall,
          registry, executor, task, user
  <1>1. CASE Drive
    BY <1>1, KillStarts, SnapshotType, Snapshot DEF Drive, Cancels, Pauses, GoesOn
  <1>2. CASE NotExecuted
    BY <1>2 DEF NotExecuted
  <1>3. CASE Returns
    BY <1>3 DEF Returns, NoCall, NoKill
  <1>4. ASSUME NEW s \in Sessions, Begins(s) PROVE CancelInv'
    BY <1>4, CallBegins
  <1>5. CASE PollCancels
    BY <1>5, KillStarts, SnapshotType DEF PollCancels
  <1>6. CASE PollEnds
    BY <1>6 DEF PollEnds, KillEnds, NoKill
  <1>7. CASE KillToolEnds
    BY <1>7 DEF KillToolEnds, KillEnds, NoKill
  <1>8. CASE CancelEnds
    BY <1>8 DEF CancelEnds, KillEnds, NoKill
  <1>9. CASE KillMarks
    <2>1. ASSUME NEW s \in live PROVE state'[s] = state[s] \/ state'[s] = "Unknown"
      BY <1>9, <2>1, Marks DEF Mark, Over
    <2> QED BY <1>9, <2>1, Marks
  <1>10. ASSUME NEW s \in Sessions, KillProcess(s) PROVE CancelInv'
    <2>1. CASE Passed(s) BY <1>10, <2>1, Kills DEF Passed
    <2>2. CASE Ended(s) BY <1>10, <2>2, Kills DEF Ended
    <2>3. CASE Killed(s) BY <1>10, <2>3, Kills DEF Killed
    <2> QED BY <1>10, <2>1, <2>2, <2>3, Kills
  <1>11. CASE Spawn
    BY <1>11 DEF Spawn, At, GoTo
  <1>12. CASE Register
    BY <1>12 DEF Register, At, GoTo
  <1>13. CASE Publish
    BY <1>13 DEF Publish, Then, At, GoTo
  <1>14. CASE Waited
    BY <1>14 DEF Waited, At, GoTo
  <1>15. CASE CheckWrite
    BY <1>15 DEF CheckWrite, MayWrite, At, GoTo
  <1>16. CASE Write
    BY <1>16 DEF Write, At, GoTo
  <1>17. CASE TakesControl
    BY <1>17 DEF TakesControl, At, GoTo
  <1>18. CASE RegistersClaim
    BY <1>18 DEF RegistersClaim, Claims, At, GoTo
  <1>19. ASSUME NEW s \in Sessions, Dies(s) PROVE CancelInv'
    BY <1>19 DEF Dies
  <1>20. ASSUME NEW s \in Sessions, Noticed(s) PROVE CancelInv'
    BY <1>20 DEF Noticed, Taken, Over
  <1>21. ASSUME NEW s \in Sessions, TakeOver(s) PROVE CancelInv'
    BY <1>21 DEF TakeOver, Taken
  <1>22. ASSUME NEW s \in Sessions, HandBack(s) PROVE CancelInv'
    BY <1>22 DEF HandBack
  <1>23. CASE HandedBack
    BY <1>23 DEF HandedBack, Claims
  <1>24. CASE Continue
    BY <1>24 DEF Continue
  <1>25. CASE Stop
    BY <1>25, KillStarts, SnapshotType, Snapshot DEF Stop, Cancels
  <1> QED
    BY <1>1, <1>2, <1>3, <1>4, <1>5, <1>6, <1>7, <1>8, <1>9, <1>10, <1>11, <1>12, <1>13,
       <1>14, <1>15, <1>16, <1>17, <1>18, <1>19, <1>20, <1>21, <1>22, <1>23, <1>24, <1>25
    DEF Next, Runtime, Killing, Worker, World

\* Every step keeps LateInv: a second write is refused.
LEMMA LateStep ==
  ASSUME IInv, Next PROVE LateInv'
  <1> USE SessionAssumption
      DEF IInv, TypeOK, CallInv, KillInv, LateInv, Known, CallType,
          registry, executor, task, user
  <1>1. CASE Drive
    BY <1>1, KillStarts, SnapshotType
    DEF Drive, Cancels, Pauses, GoesOn, Broken, Kept, KeptBut, Taken
  <1>2. CASE NotExecuted
    BY <1>2 DEF NotExecuted
  <1>3. CASE Returns
    BY <1>3 DEF Returns, NoCall, NoKill
  <1>4. ASSUME NEW s \in Sessions, Begins(s) PROVE LateInv'
    BY <1>4, CallBegins
  <1>5. CASE PollCancels
    BY <1>5, KillStarts, SnapshotType DEF PollCancels
  <1>6. CASE PollEnds
    BY <1>6 DEF PollEnds, KillEnds, NoKill
  <1>7. CASE KillToolEnds
    BY <1>7 DEF KillToolEnds, KillEnds, NoKill
  <1>8. CASE CancelEnds
    BY <1>8 DEF CancelEnds, KillEnds, NoKill
  <1>9. CASE KillMarks
    BY <1>9, Marks
  <1>10. ASSUME NEW s \in Sessions, KillProcess(s) PROVE LateInv'
    BY <1>10, Kills DEF Passed, Ended, Killed
  <1>11. CASE Spawn
    BY <1>11 DEF Spawn, At, GoTo
  <1>12. CASE Register
    BY <1>12 DEF Register, At, GoTo
  <1>13. CASE Publish
    BY <1>13 DEF Publish, Then, At, GoTo
  <1>14. CASE Waited
    BY <1>14 DEF Waited, At, GoTo
  <1>15. CASE CheckWrite
    BY <1>15 DEF CheckWrite, MayWrite, At, GoTo
  <1>16. CASE Write
    BY <1>16 DEF Write, At, GoTo
  <1>17. CASE TakesControl
    BY <1>17 DEF TakesControl, At, GoTo
  <1>18. CASE RegistersClaim
    BY <1>18 DEF RegistersClaim, Claims, At, GoTo
  <1>19. ASSUME NEW s \in Sessions, Dies(s) PROVE LateInv'
    BY <1>19 DEF Dies
  <1>20. ASSUME NEW s \in Sessions, Noticed(s) PROVE LateInv'
    BY <1>20 DEF Noticed, Taken, Over
  <1>21. ASSUME NEW s \in Sessions, TakeOver(s) PROVE LateInv'
    BY <1>21 DEF TakeOver, Taken
  <1>22. ASSUME NEW s \in Sessions, HandBack(s) PROVE LateInv'
    BY <1>22 DEF HandBack
  <1>23. CASE HandedBack
    BY <1>23 DEF HandedBack, Claims
  <1>24. CASE Continue
    BY <1>24 DEF Continue
  <1>25. CASE Stop
    BY <1>25, KillStarts, SnapshotType DEF Stop, Cancels
  <1> QED
    BY <1>1, <1>2, <1>3, <1>4, <1>5, <1>6, <1>7, <1>8, <1>9, <1>10, <1>11, <1>12, <1>13,
       <1>14, <1>15, <1>16, <1>17, <1>18, <1>19, <1>20, <1>21, <1>22, <1>23, <1>24, <1>25
    DEF Next, Runtime, Killing, Worker, World

\* Every step keeps ClaimInv: a claim is given up only when it is reported or over.
LEMMA ClaimStep ==
  ASSUME IInv, Next PROVE ClaimInv'
  <1> USE SessionAssumption
      DEF IInv, TypeOK, CallInv, KillInv, ClaimInv, Known, Over, Stopped, Sessions, Owned,
          NoCall, registry, executor, task, user
  <1>1. CASE Drive
    BY <1>1, KillStarts, SnapshotType
    DEF Drive, Cancels, Pauses, GoesOn, Broken, Kept, KeptBut, Taken
  <1>2. CASE NotExecuted
    BY <1>2 DEF NotExecuted
  <1>3. CASE Returns
    BY <1>3 DEF Returns, NoCall, NoKill
  <1>4. ASSUME NEW s \in Sessions, Begins(s) PROVE ClaimInv'
    BY <1>4, CallBegins
  <1>5. CASE PollCancels
    BY <1>5, KillStarts, SnapshotType DEF PollCancels
  <1>6. CASE PollEnds
    BY <1>6 DEF PollEnds, KillEnds, NoKill
  <1>7. CASE KillToolEnds
    BY <1>7 DEF KillToolEnds, KillEnds, NoKill
  <1>8. CASE CancelEnds
    BY <1>8 DEF CancelEnds, KillEnds, NoKill
  <1>9. CASE KillMarks
    <2>1. \A s \in Sessions : Over(s) => Over(s)'
      BY <1>9, Marks DEF Mark, Over
    <2> QED BY <1>9, <2>1, Marks
  <1>10. ASSUME NEW s \in Sessions, KillProcess(s) PROVE ClaimInv'
    <2>1. \A r \in Sessions : Over(r) => Over(r)'
      BY <1>10, Kills DEF Passed, Ended, Killed, Over
    <2> QED BY <1>10, <2>1, Kills
  <1>11. CASE Spawn
    BY <1>11 DEF Spawn, At, GoTo
  <1>12. CASE Register
    BY <1>12 DEF Register, At, GoTo
  <1>13. CASE Publish
    BY <1>13 DEF Publish, Then, At, GoTo
  <1>14. CASE Waited
    BY <1>14 DEF Waited, At, GoTo
  <1>15. CASE CheckWrite
    BY <1>15 DEF CheckWrite, MayWrite, At, GoTo
  <1>16. CASE Write
    BY <1>16 DEF Write, At, GoTo
  <1>17. CASE TakesControl
    BY <1>17 DEF TakesControl, At, GoTo
  <1>18. CASE RegistersClaim
    BY <1>18 DEF RegistersClaim, Claims, At, GoTo
  <1>19. ASSUME NEW s \in Sessions, Dies(s) PROVE ClaimInv'
    BY <1>19 DEF Dies
  <1>20. ASSUME NEW s \in Sessions, Noticed(s) PROVE ClaimInv'
    BY <1>20 DEF Noticed, Taken, Over
  <1>21. ASSUME NEW s \in Sessions, TakeOver(s) PROVE ClaimInv'
    BY <1>21 DEF TakeOver, Taken
  <1>22. ASSUME NEW s \in Sessions, HandBack(s) PROVE ClaimInv'
    BY <1>22 DEF HandBack
  <1>23. CASE HandedBack
    BY <1>23 DEF HandedBack, Claims
  <1>24. CASE Continue
    BY <1>24 DEF Continue
  <1>25. CASE Stop
    BY <1>25, KillStarts, SnapshotType DEF Stop, Cancels
  <1> QED
    BY <1>1, <1>2, <1>3, <1>4, <1>5, <1>6, <1>7, <1>8, <1>9, <1>10, <1>11, <1>12, <1>13,
       <1>14, <1>15, <1>16, <1>17, <1>18, <1>19, <1>20, <1>21, <1>22, <1>23, <1>24, <1>25
    DEF Next, Runtime, Killing, Worker, World

----------------------------------------------------------------------------
(* The invariant, and what it says *)

\* No session of the task is there at the beginning.
LEMMA InitIInv == Init => IInv
  <1> SUFFICES ASSUME Init PROVE IInv
    OBVIOUS
  <1> USE SessionAssumption DEF Init, NoCall, NoKill, Sessions
  <1>1. TypeOK BY DEF TypeOK, CallType, KillType, Stopped
  <1>2. CallInv BY DEF CallInv
  <1>3. KillInv BY DEF KillInv, Known
  <1>4. LiveInv /\ CancelInv BY DEF LiveInv, CancelInv
  <1>5. LateInv BY DEF LateInv, Known
  <1>6. ClaimInv BY DEF ClaimInv
  <1> QED BY <1>1, <1>2, <1>3, <1>4, <1>5, <1>6 DEF IInv

\* Every step keeps the invariant, and so does a stutter.
LEMMA NextIInv == IInv /\ [Next]_vars => IInv'
  <1>1. ASSUME IInv, Next PROVE IInv'
    BY <1>1, TypeStep, CallStep, KillStep, LiveStep, CancelStep, LateStep, ClaimStep
    DEF IInv
  <1>2. ASSUME IInv, UNCHANGED vars PROVE IInv'
    <2> USE <1>2 DEF IInv, vars, registry, executor, task, user
    <2>1. TypeOK' BY DEF TypeOK
    <2>2. CallInv' BY DEF CallInv, Known
    <2>3. KillInv' BY DEF KillInv, Known
    <2>4. LiveInv' BY DEF LiveInv, Known
    <2>5. CancelInv' BY DEF CancelInv
    <2>6. LateInv' BY DEF LateInv, Known
    <2>7. ClaimInv' BY DEF ClaimInv, Over
    <2> QED BY <2>1, <2>2, <2>3, <2>4, <2>5, <2>6, <2>7
  <1> QED BY <1>1, <1>2

\* The invariant holds in every state the task, its processes and the user can reach.
THEOREM Inductive == Spec => []IInv
  <1> QED BY InitIInv, NextIInv, PTL DEF Spec

\* CommandSession's CancelledLeavesNothing: a task that is said to be cancelled has left
\* no process but of sessions that are said to be unknown, wherever in run_command,
\* shell_session_run or shell_bg_spawn the cancellation met it.
THEOREM NothingLeft == Spec => []CancelledLeavesNothing
  <1>1. IInv => CancelledLeavesNothing
    BY DEF IInv, CancelInv, CancelledLeavesNothing
  <1> QED BY Inductive, <1>1, PTL

\* CommandSession's AtMostOneLateWrite: between check and write the user may take a
\* session over once, and only one write slips through.
THEOREM LateWrites == Spec => []AtMostOneLateWrite
  <1>1. IInv => AtMostOneLateWrite
    BY DEF IInv, LateInv, AtMostOneLateWrite
  <1> QED BY Inductive, <1>1, PTL

\* A step from the top of drive into a call, or to the end of the task, is GoesOn.
LEMMA OnlyDriveGoesOn ==
  ASSUME IInv, Next, phase = "loop", phase' = "call" \/ outcome' = "Completed"
  PROVE  GoesOn
  <1> USE DEF IInv, TypeOK, CallInv, ClaimInv, NoCall, registry, executor, task, user
  <1>1. CASE Drive
    BY <1>1 DEF Drive, Cancels, Pauses
  <1>2. CASE NotExecuted
    BY <1>2 DEF NotExecuted
  <1>3. CASE Returns
    BY <1>3 DEF Returns, NoCall, NoKill
  <1>4. ASSUME NEW s \in Sessions, Begins(s) PROVE FALSE
    BY <1>4, CallBegins
  <1>5. CASE PollCancels
    BY <1>5 DEF PollCancels
  <1>6. CASE PollEnds
    BY <1>6 DEF PollEnds, KillEnds, NoKill
  <1>7. CASE KillToolEnds
    BY <1>7 DEF KillToolEnds, KillEnds, NoKill
  <1>8. CASE CancelEnds
    BY <1>8 DEF CancelEnds, KillEnds, NoKill
  <1>9. CASE KillMarks
    BY <1>9, Marks
  <1>10. ASSUME NEW s \in Sessions, KillProcess(s) PROVE FALSE
    BY <1>10, Kills
  <1>11. CASE Spawn
    BY <1>11 DEF Spawn, At, GoTo
  <1>12. CASE Register
    BY <1>12 DEF Register, At, GoTo
  <1>13. CASE Publish
    BY <1>13 DEF Publish, Then, At, GoTo
  <1>14. CASE Waited
    BY <1>14 DEF Waited, At, GoTo
  <1>15. CASE CheckWrite
    BY <1>15 DEF CheckWrite, MayWrite, At, GoTo
  <1>16. CASE Write
    BY <1>16 DEF Write, At, GoTo
  <1>17. CASE TakesControl
    BY <1>17 DEF TakesControl, At, GoTo
  <1>18. CASE RegistersClaim
    BY <1>18 DEF RegistersClaim, Claims, At, GoTo
  <1>19. ASSUME NEW s \in Sessions, Dies(s) PROVE FALSE
    BY <1>19 DEF Dies
  <1>20. ASSUME NEW s \in Sessions, Noticed(s) PROVE FALSE
    BY <1>20 DEF Noticed, Taken, Over
  <1>21. ASSUME NEW s \in Sessions, TakeOver(s) PROVE FALSE
    BY <1>21 DEF TakeOver, Taken
  <1>22. ASSUME NEW s \in Sessions, HandBack(s) PROVE FALSE
    BY <1>22 DEF HandBack
  <1>23. CASE HandedBack
    BY <1>23 DEF HandedBack, Claims
  <1>24. CASE Continue
    BY <1>24 DEF Continue
  <1>25. CASE Stop
    BY <1>25 DEF Stop, Cancels
  <1> QED
    BY <1>1, <1>2, <1>3, <1>4, <1>5, <1>6, <1>7, <1>8, <1>9, <1>10, <1>11, <1>12, <1>13,
       <1>14, <1>15, <1>16, <1>17, <1>18, <1>19, <1>20, <1>21, <1>22, <1>23, <1>24, <1>25
    DEF Next, Runtime, Killing, Worker, World

\* CommandSession's TakeOverIsReported: no call begins and no task ends, while a pane was
\* taken from the task by the user and drive has not told it so.
THEOREM TakeOvers == Spec => TakeOverIsReported
  <1> DEFINE Told ==
        \A s \in Panes : ~(taken[s] = "unseen" /\ controller[s] = "user" /\ ~Over(s))
  <1>1. ASSUME IInv, Next, phase = "loop", phase' = "call" \/ outcome' = "Completed"
        PROVE  Told
    <2>1. GoesOn
      BY <1>1, OnlyDriveGoesOn
    <2>2. ASSUME NEW s \in Panes, taken[s] = "unseen", controller[s] = "user", ~Over(s)
          PROVE  FALSE
      <3>1. s \in claimed
        BY <1>1, <2>2, SessionAssumption DEF IInv, ClaimInv, CallInv, NoCall
      <3> QED BY <2>1, <2>2, <3>1 DEF GoesOn, Broken
    <2> QED BY <2>2 DEF Told
  <1>2. IInv /\ [Next]_vars =>
          [phase = "loop" /\ (phase' = "call" \/ outcome' = "Completed") => Told]_vars
    BY <1>1
  <1> QED BY Inductive, <1>2, PTL DEF Spec, TakeOverIsReported

============================================================================
