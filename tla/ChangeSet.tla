----------------------------- MODULE ChangeSet -----------------------------
(***************************************************************************)
(* Change sets on disk: what an agent proposes to write, its review, the   *)
(* checkpoint before it is written and the restore of a checkpoint         *)
(* (crates/termior-ai/src/executor.rs, propose_write_batch to reject_edit, *)
(* and crates/termior-store/src/checkpoint.rs).                            *)
(*                                                                         *)
(* Several executors work on one workspace that the user edits with other  *)
(* programs at any moment.  Reads of different files commute with what     *)
(* happens to other files, so a loop that only reads is one step (a batch  *)
(* that names a file twice reads it twice at one moment); every write of a *)
(* file is a step of its own.                                              *)
(***************************************************************************)
EXTENDS Integers, Sequences

CONSTANTS
  Agents,          \* the executors
  Files,           \* the files of the workspace
  Existing,        \* those that exist at first
  Batches,         \* the files a batch of write_file calls names, in order
  DiskFails,       \* whether writing a file or a checkpoint may fail
  MaxVersions,     \* bound: how many different contents there are
  MaxCheckpoints   \* bound: how many checkpoints are made

\* A missing file and an empty one are different files with the same text;
\* every other content is a number.
Absent == 0
Empty == 1
Original == 2

ASSUME ChangeSetAssumption ==
  /\ Existing \subseteq Files
  /\ Batches \subseteq Seq(Files) \ {<<>>}
  /\ DiskFails \in BOOLEAN
  /\ MaxVersions \in Nat /\ MaxCheckpoints \in Nat
  /\ "user" \notin Agents /\ "restore" \notin Agents

VARIABLES
  disk,        \* what every file holds
  version,     \* the last new content
  pc,          \* where accept_edit of every executor is
  proposal,    \* its change set: file, baseline, new content, decision
  todo,        \* the files still to be written, with their content
  manifests,   \* the checkpoints, each a sequence of file, before and after
  restore      \* the restore in progress: checkpoint, entries to do, contents seen

\* Auxiliary: which file changed under whose hands, and what was replaced.
VARIABLES
  author,      \* who gave every file its content
  stale,       \* files that others changed since the executor compared them
  unsaved,     \* files that others changed since its checkpoint read them
  moved,       \* files that others changed since the restore was planned
  replaced     \* contents the executors replaced, except unsaved ones

agentVars == <<pc, proposal, todo>>
auxVars == <<author, stale, unsaved, moved, replaced>>
vars == <<disk, version, agentVars, manifests, restore, auxVars>>

\* What all checkpoints together have saved.
Entries ==
  UNION {{manifests[m][k] : k \in DOMAIN manifests[m]} : m \in DOMAIN manifests}

Text(content) == IF content = Absent THEN Empty ELSE content

\* What the files hold at first.
Initial == [f \in Files |-> IF f \in Existing THEN Original ELSE Absent]

NoRestore == [of |-> 0, todo |-> {}, seen |-> <<>>]

\* The file gets a content; whoever is between a read and a write of it,
\* except the writer, does not know.
Put(f, content, by) ==
  /\ disk' = [disk EXCEPT ![f] = content]
  /\ author' = [author EXCEPT ![f] = by]
  /\ stale' = [a \in Agents |->
       IF a # by /\ pc[a] \in {"checked", "writing"} THEN stale[a] \cup {f} ELSE stale[a]]
  /\ unsaved' = [a \in Agents |->
       IF a # by /\ pc[a] = "writing" THEN unsaved[a] \cup {f} ELSE unsaved[a]]
  /\ moved' = IF by # "restore" /\ restore.of # 0 THEN moved \cup {f} ELSE moved

\* accept_edit returns: with an error the proposal is kept for another review.
Return(a, next) ==
  /\ pc' = [pc EXCEPT ![a] = next]
  /\ todo' = [todo EXCEPT ![a] = <<>>]
  /\ proposal' = IF next = "idle" THEN [proposal EXCEPT ![a] = <<>>] ELSE proposal
  /\ stale' = [stale EXCEPT ![a] = {}]
  /\ unsaved' = [unsaved EXCEPT ![a] = {}]

----------------------------------------------------------------------------
(* propose_write_batch and accept_edit *)

Init ==
  /\ disk = Initial /\ version = Original
  /\ pc = [a \in Agents |-> "idle"]
  /\ proposal = [a \in Agents |-> <<>>] /\ todo = [a \in Agents |-> <<>>]
  /\ manifests = <<>> /\ restore = NoRestore
  /\ author = [f \in Files |-> "user"]
  /\ stale = [a \in Agents |-> {}] /\ unsaved = [a \in Agents |-> {}]
  /\ moved = {} /\ replaced = {}

\* The new contents are bound to the text the files have now.
Propose(a, files) ==
  /\ pc[a] = "idle" /\ version + Len(files) <= MaxVersions
  /\ proposal' = [proposal EXCEPT ![a] =
       [k \in DOMAIN files |-> [file |-> files[k], old |-> Text(disk[files[k]]),
                                new |-> version + k, accept |-> FALSE]]]
  /\ version' = version + Len(files)
  /\ pc' = [pc EXCEPT ![a] = "review"]
  /\ UNCHANGED <<disk, todo, manifests, restore, auxVars>>

\* Mutant: only the first file is compared with its baseline.
FirstMatches(a) == Text(disk[proposal[a][1].file]) = proposal[a][1].old

\* Every file still has the text the change was made for.
Matches(a) ==
  \A k \in DOMAIN proposal[a] : Text(disk[proposal[a][k].file]) = proposal[a][k].old

\* apply_acceptances: a change that is not accepted keeps the text.
Result(change, accept) == IF accept THEN change.new ELSE change.old

\* The comparison with the baselines; on a conflict nothing happens.
Compare(a, accepted) ==
  /\ pc[a] = "review" /\ Matches(a)
  /\ proposal' = [proposal EXCEPT ![a] =
       [k \in DOMAIN @ |-> [@[k] EXCEPT !.accept = (k \in accepted)]]]
  /\ todo' = [todo EXCEPT ![a] =
       [k \in DOMAIN proposal[a] |-> [file |-> proposal[a][k].file,
                                      content |-> Result(proposal[a][k], k \in accepted)]]]
  /\ pc' = [pc EXCEPT ![a] = "checked"]
  /\ UNCHANGED <<disk, version, manifests, restore, auxVars>>

\* Mutant: the baseline is saved, not what is on disk by now.
BaselineOf(a, k) == proposal[a][k].old

\* CheckpointStore::create reads each file once more.
BeforeImage(a, k) == disk[todo[a][k].file]

SaveCheckpoint(a) ==
  /\ pc[a] = "checked" /\ Len(manifests) < MaxCheckpoints
  /\ manifests' = Append(manifests,
       [k \in DOMAIN todo[a] |-> [file |-> todo[a][k].file, before |-> BeforeImage(a, k),
                                  after |-> todo[a][k].content]])
  /\ pc' = [pc EXCEPT ![a] = "writing"]
  /\ UNCHANGED <<disk, version, proposal, todo, restore, auxVars>>

\* Mutant: the files are written first.
AnyTime(a) == pc[a] \in {"checked", "writing"}

CheckpointSaved(a) == pc[a] = "writing"

\* The files this accept_edit has written so far.
Written(a) ==
  {proposal[a][k].file : k \in 1..(Len(proposal[a]) - Len(todo[a]))}

WriteFile(a) ==
  /\ CheckpointSaved(a) /\ todo[a] # <<>>
  /\ LET f == Head(todo[a]).file
     IN  /\ Put(f, Head(todo[a]).content, a)
         /\ replaced' = IF f \in unsaved[a] \cup Written(a) THEN replaced
                        ELSE replaced \cup {<<f, disk[f]>>}
  /\ todo' = [todo EXCEPT ![a] = Tail(@)]
  /\ UNCHANGED <<version, pc, proposal, manifests, restore>>

\* A checkpoint or a file cannot be written: what was written stays.
AcceptFails(a) ==
  /\ DiskFails
  /\ pc[a] = "checked" \/ (pc[a] = "writing" /\ todo[a] # <<>>)
  /\ Return(a, "review")
  /\ UNCHANGED <<disk, version, manifests, restore, author, moved, replaced>>

AcceptReturns(a) ==
  /\ pc[a] = "writing" /\ todo[a] = <<>>
  /\ Return(a, "idle")
  /\ UNCHANGED <<disk, version, manifests, restore, author, moved, replaced>>

\* The task is cancelled, or fails the calls: nobody accepts the change any more.
Abandon(a) ==
  /\ pc[a] = "review"
  /\ Return(a, "idle")
  /\ UNCHANGED <<disk, version, manifests, restore, author, moved, replaced>>

----------------------------------------------------------------------------
(* plan_restore and apply_restore *)

\* Mutant: whatever the file holds is replaced.
AlwaysRestore(entry) == TRUE

\* The three-way comparison of plan_restore: only the output of the change
\* goes back to what was there before it.
Restorable(entry) == disk[entry.file] # entry.before /\ disk[entry.file] = entry.after

PlanRestore(m) ==
  /\ restore.of = 0
  /\ LET entries == manifests[m]
     IN  restore' = [of |-> m, todo |-> {k \in DOMAIN entries : Restorable(entries[k])},
                     seen |-> [k \in DOMAIN entries |-> disk[entries[k].file]]]
  /\ moved' = {}
  /\ UNCHANGED <<disk, version, agentVars, manifests, author, stale, unsaved, replaced>>

\* Restore writes the blob, DeleteCreated removes a file that did not exist; the
\* entries are taken in their order.
RestoreFile ==
  /\ \E k \in restore.todo :
       LET entry == manifests[restore.of][k]
       IN  /\ \A j \in restore.todo : k <= j
           /\ Put(entry.file, entry.before, "restore")
           /\ restore' = [restore EXCEPT !.todo = @ \ {k}]
  /\ UNCHANGED <<version, agentVars, manifests, replaced>>

\* The restore is over, or a file cannot be written and the rest is left.
RestoreReturns ==
  /\ restore.of # 0
  /\ restore.todo = {} \/ DiskFails
  /\ restore' = NoRestore /\ moved' = {}
  /\ UNCHANGED <<disk, version, agentVars, manifests, author, stale, unsaved, replaced>>

----------------------------------------------------------------------------
(* The user and the process *)

\* Another program saves a new text or deletes the file.
UserEdits(f) ==
  /\ \/ /\ version < MaxVersions
        /\ version' = version + 1
        /\ Put(f, version + 1, "user")
     \/ Put(f, Absent, "user") /\ UNCHANGED version
  /\ UNCHANGED <<agentVars, manifests, restore, replaced>>

\* Change sets are lost with the process, the files and checkpoints are not.
Crash ==
  /\ pc' = [a \in Agents |-> "idle"]
  /\ proposal' = [a \in Agents |-> <<>>] /\ todo' = [a \in Agents |-> <<>>]
  /\ restore' = NoRestore
  /\ stale' = [a \in Agents |-> {}] /\ unsaved' = [a \in Agents |-> {}] /\ moved' = {}
  /\ UNCHANGED <<disk, version, manifests, author, replaced>>

Next ==
  \/ \E a \in Agents :
       \/ \E files \in Batches : Propose(a, files)
       \/ \E accepted \in SUBSET DOMAIN proposal[a] : Compare(a, accepted)
       \/ SaveCheckpoint(a) \/ WriteFile(a)
       \/ AcceptFails(a) \/ AcceptReturns(a) \/ Abandon(a)
  \/ \E m \in DOMAIN manifests : PlanRestore(m)
  \/ RestoreFile \/ RestoreReturns
  \/ \E f \in Files : UserEdits(f)
  \/ Crash

Spec == Init /\ [][Next]_vars

----------------------------------------------------------------------------
(* Properties *)

\* What an executor is about to overwrite is the text its change was reviewed
\* for, whoever edited, restored or accepted something during the review; only
\* a change that comes after the comparison escapes it (accept_edit).
ReviewedEditsKept ==
  \A a \in Agents : \A k \in DOMAIN todo[a] :
    LET f == todo[a][k].file
    IN  \/ f \in stale[a] \cup Written(a)
        \/ Text(disk[f]) = proposal[a][k + Len(proposal[a]) - Len(todo[a])].old

\* Whatever an executor replaced can be got back from a checkpoint, also after
\* a crash or a write that failed half-way, and also if it was put there after
\* the comparison; only a change after the checkpoint read the file is lost.
NothingLost ==
  \A r \in replaced : \E e \in Entries : e.file = r[1] /\ e.before = r[2]

\* At every moment, each file that holds what an executor wrote is the output
\* of some checkpoint, so that a restore finds no conflict on it.
WritesUndoable ==
  \A f \in Files : author[f] \in Agents =>
    \E e \in Entries : e.file = f /\ e.after = disk[f]

\* A restore that went through has put back what was there before the change in
\* every file that held the output of the change, and left any other content
\* as the restore found it; files changed behind its back are not judged
\* (plan_restore, apply_restore).
RestoreUndoes ==
  (restore.of # 0 /\ restore.todo = {}) =>
    \A k \in DOMAIN manifests[restore.of] :
      LET entries == manifests[restore.of]
          f == entries[k].file
          outputs == {j \in DOMAIN entries :
                        entries[j].file = f /\ entries[j].after = restore.seen[k]}
      IN  \/ f \in moved
          \/ outputs = {} /\ disk[f] = restore.seen[k]
          \/ \E j \in outputs : disk[f] = entries[j].before

\* Only what was accepted is written: an executor changes no file of which the
\* user rejected everything.
RejectedIsNotWritten ==
  [][\A a \in Agents, f \in Files :
       (disk'[f] # disk[f] /\ author'[f] = a) =>
         \E k \in DOMAIN proposal[a] :
           proposal[a][k].file = f /\ proposal[a][k].accept]_vars

============================================================================
