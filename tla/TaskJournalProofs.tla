------------------------- MODULE TaskJournalProofs -------------------------
(***************************************************************************)
(* What TLAPS proves about TaskJournal for every value of its constants.   *)
(***************************************************************************)
EXTENDS TaskJournal, FiniteSetTheorems, SequenceTheorems, WellFoundedInduction, TLAPS

----------------------------------------------------------------------------
(* The journal *)

\* The journal is a sequence of records, numbered from one without a gap.
Gapless ==
  /\ \E S : log \in Seq(S)
  /\ JournalIsPrefix

\* Appending the record with the next number keeps the numbers gapless.
LEMMA AppendGapless ==
  ASSUME Gapless, NEW r, r.n = Len(log) + 1, log' = Append(log, r)
  PROVE  Gapless'
  <1>1. PICK S : log \in Seq(S)
    BY DEF Gapless
  <1>2. log \in Seq(S \cup {r})
    BY <1>1, SeqMonotonic
  <1>3. /\ log' \in Seq(S \cup {r}) /\ Len(log') = Len(log) + 1
        /\ \A k \in 1..Len(log) : log'[k] = log[k]
        /\ log'[Len(log) + 1] = r
    BY <1>2, AppendProperties
  <1>4. Len(log) \in Nat /\ DOMAIN log = 1..Len(log) /\ DOMAIN log' = 1..(Len(log) + 1)
    BY <1>1, <1>3, LenProperties
  <1>5. \A k \in 1..Len(log) : log[k].n = k
    BY <1>4 DEF Gapless, JournalIsPrefix
  <1>6. \A k \in DOMAIN log' : log'[k].n = k
    <2> SUFFICES ASSUME NEW k \in 1..(Len(log) + 1) PROVE log'[k].n = k
      BY <1>4
    <2>1. CASE k = Len(log) + 1
      BY <1>3, <2>1
    <2>2. CASE k \in 1..Len(log)
      BY <1>3, <1>5, <2>2
    <2> QED
      BY <1>4, <2>1, <2>2
  <1> QED
    BY <1>3, <1>6 DEF Gapless, JournalIsPrefix

\* Every step keeps the journal or appends the next record.
LEMMA StepGapless ==
  ASSUME Gapless, [Next]_vars
  PROVE  Gapless'
  <1> DEFINE Kept == log' = log
  <1>1. ASSUME Kept PROVE Gapless'
    BY <1>1 DEF Gapless, JournalIsPrefix
  <1>2. CASE Emit
    <2>1. PICK outcome \in Outcomes :
            IF outcome \in {"ok", "after"}
            THEN log' = Append(log, [n |-> emitted', event |-> [Head(todo) EXCEPT !.call = 0]])
            ELSE Kept
      BY <1>2 DEF Emit
    <2>2. CASE outcome \in {"ok", "after"}
      <3> DEFINE r == [n |-> emitted', event |-> [Head(todo) EXCEPT !.call = 0]]
      <3>1. log' = Append(log, r)
        BY <2>1, <2>2
      <3>2. Len(log) = emitted
        BY <2>1, <2>2 DEF Outcomes, NoGap
      <3>3. r.n = Len(log) + 1
        BY <1>2, <3>2 DEF Emit
      <3> HIDE DEF r
      <3> QED
        BY <3>1, <3>3, AppendGapless
    <2> QED
      BY <1>1, <2>1, <2>2
  <1>3. CASE Handler
    BY <1>1, <1>3 DEF Handler, Start, Finish, StopOnFailure, Reply, AskApproval,
      ApproveByPolicy, Execute, ResolveApproval, ReviewChange, ReviewConflict, EndEffect,
      Cancel, Handle, diskVars
  <1>4. CASE Save \/ CallExecutor \/ Crash \/ Recover \/ Over \/ UNCHANGED vars
    BY <1>1, <1>4 DEF Save, CallExecutor, Crash, Recover, Over, vars, diskVars
  <1> QED
    BY <1>2, <1>3, <1>4 DEF Next

\* Whatever fails and however often the process stops, the journal holds the
\* events of the runtime from the first one on without a gap: the check of
\* persist_latest_event is enough, although a failed write is not repeated.
THEOREM JournalNeverSkips == Spec => []JournalIsPrefix
  <1>1. Init => Gapless
    <2> SUFFICES ASSUME Init PROVE Gapless
      OBVIOUS
    <2>1. log = <<>>
      BY DEF Init
    <2>2. log \in Seq({})
      BY <2>1
    <2> QED
      BY <2>1, <2>2 DEF Gapless, JournalIsPrefix
  <1>2. Gapless /\ [Next]_vars => Gapless'
    BY StepGapless
  <1>3. Gapless => JournalIsPrefix
    BY DEF Gapless
  <1> QED
    BY <1>1, <1>2, <1>3, PTL DEF Spec

----------------------------------------------------------------------------
(* What is replayed *)

\* A nonempty set of positions has a least one: the loops over the queue that
\* stop at the first match find it.
LEMMA Least ==
  ASSUME NEW n \in Nat, NEW S, S \subseteq 1..n, S # {}
  PROVE  \E m \in S : \A k \in S : m <= k
  <1> DEFINE below == {1..k : k \in S}
  <1>1. IsWellFoundedOn(StrictSubsetOrdering(1..n), SUBSET (1..n))
    <2>1. IsFiniteSet(1..n)
      BY FS_Interval
    <2>2. FiniteSubsetsOf(1..n) = SUBSET (1..n)
      BY <2>1, FS_FiniteSubsetsOfFinite, Zenon
    <2> QED
      BY <2>2, FS_StrictSubsetOrderingWellFounded, Zenon
  <1>2. below \in SUBSET (SUBSET (1..n)) /\ below # {}
    <2>1. ASSUME NEW k \in S PROVE 1..k \subseteq 1..n
      BY <2>1
    <2>2. below \subseteq SUBSET (1..n)
      BY <2>1
    <2>3. PICK k \in S : TRUE
      OBVIOUS
    <2>4. 1..k \in below
      OBVIOUS
    <2> QED
      BY <2>2, <2>4
  <1>3. PICK least \in below :
          \A other \in below : ~(<<other, least>> \in StrictSubsetOrdering(1..n))
    BY <1>1, <1>2, WFMin
  <1>4. PICK m \in S : least = 1..m
    BY <1>3
  <1>5. ASSUME NEW k \in S PROVE m <= k
    <2>1. 1..k \in below
      BY <1>5
    <2>2. ~(1..k \subseteq 1..m /\ 1..k # 1..m)
      BY <1>2, <1>3, <1>4, <2>1 DEF StrictSubsetOrdering
    <2>3. k \in Nat /\ m \in Nat
      OBVIOUS
    <2>4. ASSUME k < m PROVE 1..k \subseteq 1..m /\ 1..k # 1..m
      <3>1. m \in 1..m /\ m \notin 1..k
        BY <2>3, <2>4
      <3> QED
        BY <2>3, <2>4, <3>1
    <2> QED
      BY <2>2, <2>3, <2>4
  <1> QED
    BY <1>5

\* The memory m[k] for every k up to n is what the first k records of l make of z,
\* where the first s of them are skipped.
Folds(m, l, s, z, n) ==
  /\ m = [k \in 0..n |-> m[k]] /\ m[0] = z
  /\ \A k \in 1..n : m[k] = IF k > s THEN Reduce(m[k - 1], l[k].event) ELSE m[k - 1]

\* There is such a function.
LEMMA FoldExists ==
  ASSUME NEW l, NEW s \in Nat, NEW z, NEW n \in Nat
  PROVE  \E m : Folds(m, l, s, z, n)
<1> DEFINE Has(k) == \E m : Folds(m, l, s, z, k)
           Lacks == {k \in 1..n : ~Has(k)}
<1>1. Has(0)
  <2> DEFINE m == [k \in 0..0 |-> z]
  <2>1. Folds(m, l, s, z, 0)
    BY DEF Folds
  <2> QED BY <2>1
<1>2. ASSUME NEW k \in Nat, Has(k) PROVE Has(k + 1)
  <2>1. PICK m : Folds(m, l, s, z, k)
    BY <1>2
  <2> DEFINE step == IF k + 1 > s THEN Reduce(m[k], l[k + 1].event) ELSE m[k]
  <2>2. PICK x : x = step
    OBVIOUS
  <2> HIDE DEF step
  <2> DEFINE g == [j \in 0..(k + 1) |-> IF j = k + 1 THEN x ELSE m[j]]
  <2>3. g[0] = z /\ g = [j \in 0..(k + 1) |-> g[j]]
    BY <2>1 DEF Folds
  <2>4. ASSUME NEW j \in 1..(k + 1)
        PROVE  g[j] = IF j > s THEN Reduce(g[j - 1], l[j].event) ELSE g[j - 1]
    <3>1. CASE j = k + 1
      <4>1. g[j] = x /\ g[j - 1] = m[k]
        BY <3>1
      <4> QED BY <2>2, <3>1, <4>1 DEF step
    <3>2. CASE j # k + 1
      <4>1. j \in 1..k /\ g[j] = m[j] /\ g[j - 1] = m[j - 1]
        BY <3>2
      <4> QED BY <2>1, <4>1 DEF Folds
    <3> QED BY <3>1, <3>2
  <2> HIDE DEF g
  <2>5. Folds(g, l, s, z, k + 1)
    BY <2>3, <2>4 DEF Folds
  <2> QED BY <2>5
<1> HIDE DEF Has
<1>3. Lacks = {}
  <2> SUFFICES ASSUME Lacks # {} PROVE FALSE
    OBVIOUS
  <2>1. PICK k \in Lacks : \A j \in Lacks : k <= j
    <3>1. Lacks \subseteq 1..n
      OBVIOUS
    <3> HIDE DEF Lacks
    <3> QED BY <3>1, Least
  <2>2. k \in 1..n /\ ~Has(k)
    OBVIOUS
  <2>3. k - 1 = 0 \/ k - 1 \in 1..n
    BY <2>2
  <2>4. Has(k - 1)
    <3>1. CASE k - 1 = 0
      BY <1>1, <3>1
    <3>2. CASE k - 1 \in 1..n
      <4>1. k - 1 \notin Lacks
        BY <2>1, <2>2
      <4> QED BY <3>2, <4>1
    <3> QED BY <2>3, <3>1, <3>2
  <2>5. k - 1 \in Nat /\ (k - 1) + 1 = k
    BY <2>2
  <2>6. Has((k - 1) + 1)
    BY <1>2, <2>4, <2>5
  <2> QED BY <2>2, <2>5, <2>6
<1>4. Has(n)
  BY <1>1, <1>3
<1> QED BY <1>4 DEF Has

\* The first n records of both are the same.
Agree(l, h, n) == \A k \in 1..n : l[k] = h[k]

\* Two such functions agree as far as the records do.
LEMMA FoldSame ==
  ASSUME NEW l, NEW h, NEW s \in Nat, NEW z, NEW n \in Nat, NEW p \in Nat, n <= p,
         Agree(l, h, n), NEW f, Folds(f, l, s, z, n), NEW g, Folds(g, h, s, z, p)
  PROVE  f[n] = g[n]
<1> DEFINE Differ == {k \in 1..n : f[k] # g[k]}
<1>1. Differ = {}
  <2> SUFFICES ASSUME Differ # {} PROVE FALSE
    OBVIOUS
  <2>1. PICK k \in Differ : \A j \in Differ : k <= j
    <3>1. Differ \subseteq 1..n
      OBVIOUS
    <3> HIDE DEF Differ
    <3> QED BY <3>1, Least
  <2>2. k \in 1..n /\ k \in 1..p /\ f[k] # g[k] /\ l[k] = h[k]
    BY DEF Agree
  <2>3. f[k - 1] = g[k - 1]
    <3>1. CASE k = 1
      BY <3>1 DEF Folds
    <3>2. CASE k # 1
      <4>1. k - 1 \in 1..n /\ k - 1 \notin Differ
        BY <2>1, <2>2, <3>2
      <4> QED BY <4>1
    <3> QED BY <3>1, <3>2
  <2> QED BY <2>2, <2>3 DEF Folds
<1>2. CASE n = 0
  BY <1>2 DEF Folds
<1>3. CASE n # 0
  <2>1. n \in 1..n /\ n \notin Differ
    BY <1>1, <1>3
  <2> QED BY <2>1
<1> QED BY <1>2, <1>3

\* The value that the recursive definition of Replay stands for.
Chosen(l, s, z, n, D) ==
  (CHOOSE f : f = [k \in 0..n |->
                     IF k = 0 THEN z
                     ELSE IF k \in {j \in D : j > s} THEN Reduce(f[k - 1], l[k].event)
                          ELSE f[k - 1]])[n]

\* It is the last value of any such function.
LEMMA ChosenFolds ==
  ASSUME NEW l, NEW s \in Nat, NEW z, NEW n \in Nat, NEW D, D = 1..n,
         NEW m, Folds(m, l, s, z, n)
  PROVE  Chosen(l, s, z, n, D) = m[n]
<1> DEFINE Is(f) == f = [k \in 0..n |->
                           IF k = 0 THEN z
                           ELSE IF k \in {j \in D : j > s} THEN Reduce(f[k - 1], l[k].event)
                                ELSE f[k - 1]]
<1>1. ASSUME NEW f, Is(f) PROVE Folds(f, l, s, z, n)
  <2>1. DOMAIN f = 0..n /\ f = [k \in 0..n |-> f[k]]
    BY <1>1
  <2>2. ASSUME NEW k \in 0..n
        PROVE  f[k] = IF k = 0 THEN z
                      ELSE IF k \in {j \in D : j > s} THEN Reduce(f[k - 1], l[k].event)
                           ELSE f[k - 1]
    BY <1>1
  <2> HIDE DEF Is
  <2>3. f[0] = z
    BY <2>2
  <2>4. ASSUME NEW k \in 1..n
        PROVE  f[k] = IF k > s THEN Reduce(f[k - 1], l[k].event) ELSE f[k - 1]
    <3>1. k \in 0..n /\ k # 0 /\ (k \in {j \in D : j > s} <=> k > s)
      OBVIOUS
    <3> QED BY <2>2, <3>1
  <2> QED BY <2>1, <2>3, <2>4 DEF Folds
<1>2. PICK g : Folds(g, l, s, z, n)
  BY FoldExists
<1>3. Is(g)
  <2> DEFINE h == [k \in 0..n |->
                     IF k = 0 THEN z
                     ELSE IF k \in {j \in D : j > s} THEN Reduce(g[k - 1], l[k].event)
                          ELSE g[k - 1]]
  <2>1. ASSUME NEW k \in 0..n
        PROVE  g[k] = IF k = 0 THEN z
                      ELSE IF k \in {j \in D : j > s} THEN Reduce(g[k - 1], l[k].event)
                           ELSE g[k - 1]
    <3>1. CASE k = 0
      BY <1>2, <3>1 DEF Folds
    <3>2. CASE k # 0
      <4>1. k \in 1..n /\ (k \in {j \in D : j > s} <=> k > s)
        BY <3>2
      <4> QED BY <1>2, <3>2, <4>1 DEF Folds
    <3> QED BY <3>1, <3>2
  <2>2. g = [k \in 0..n |-> g[k]]
    BY <1>2, Zenon DEF Folds
  <2>3. \A k \in 0..n : g[k] = h[k]
    BY <2>1
  <2>4. [k \in 0..n |-> g[k]] = h
    BY <2>3, Zenon
  <2> QED BY <2>2, <2>4, Zenon
<1>4. Chosen(l, s, z, n, D) = (CHOOSE f : Is(f))[n]
  BY Zenon DEF Chosen
<1> HIDE DEF Is
<1>5. Is(CHOOSE f : Is(f))
  BY <1>3
<1>6. PICK f : f = CHOOSE e : Is(e)
  OBVIOUS
<1>7. Folds(f, l, s, z, n) /\ Chosen(l, s, z, n, D) = f[n]
  BY <1>1, <1>4, <1>5, <1>6
<1>8. f[n] = m[n]
  <2>1. n <= n /\ Agree(l, l, n)
    BY DEF Agree
  <2> QED BY <1>7, <2>1, FoldSame
<1> QED BY <1>7, <1>8

\* Behind the last record nothing is replayed.
LEMMA ReplayNothing ==
  ASSUME Len(log) \in Nat, DOMAIN log = 1..Len(log), snap.last = Len(log)
  PROVE  Replay = snap.mem
<1> DEFINE m == [k \in 0..Len(log) |-> snap.mem]
<1>1. Folds(m, log, snap.last, snap.mem, Len(log)) /\ m[Len(log)] = snap.mem
  BY DEF Folds
<1> HIDE DEF m
<1>2. Replay = Chosen(log, snap.last, snap.mem, Len(log), DOMAIN log)
  BY Zenon DEF Replay, Replayed, Chosen
<1> QED BY <1>1, <1>2, ChosenFolds

\* The same after a new snapshot.
LEMMA ReplaySaved ==
  ASSUME Len(log) \in Nat, DOMAIN log = 1..Len(log), log' = log, snap'.last = Len(log)
  PROVE  Replay' = snap'.mem
<1>1. PICK l, z, n, D : l = log' /\ z = snap'.mem /\ n = Len(log) /\ D = DOMAIN log
  OBVIOUS
<1> DEFINE m == [k \in 0..n |-> z]
<1>2. Folds(m, l, n, z, n) /\ m[n] = z /\ n \in Nat /\ D = 1..n
  BY <1>1 DEF Folds
<1> HIDE DEF m
<1>3. Replay' = Chosen(log', snap'.last, snap'.mem, Len(log'), DOMAIN log')
  BY Zenon DEF Replay, Replayed, Chosen
<1>4. Replay' = Chosen(l, n, z, n, D)
  BY <1>1, <1>3
<1> QED BY <1>1, <1>2, <1>4, ChosenFolds

\* As long as the files stay, so does what is replayed.
LEMMA ReplaySame ==
  ASSUME log' = log, snap' = snap
  PROVE  Replay' = Replay
BY DEF Replay, Replayed

\* One more record is replayed after the others.
LEMMA ReplayNext ==
  ASSUME Len(log) \in Nat, DOMAIN log = 1..Len(log), snap.last \in 0..Len(log),
         Len(log') = Len(log) + 1, DOMAIN log' = 1..Len(log'),
         \A k \in 1..Len(log) : log'[k] = log[k],
         NEW e, log'[Len(log) + 1].event = e, snap' = snap
  PROVE  Replay' = Reduce(Replay, e)
<1>1. PICK n : n = Len(log)
  OBVIOUS
<1>2. /\ n \in Nat /\ n + 1 \in Nat /\ n \in 0..n /\ n <= n + 1 /\ snap.last \in Nat
      /\ n + 1 \in 1..(n + 1) /\ n + 1 > snap.last /\ (n + 1) - 1 = n
  BY <1>1
<1>8. PICK f : Folds(f, log, snap.last, snap.mem, n)
  BY <1>2, FoldExists, Zenon
<1>3. PICK h : h = log'
  OBVIOUS
<1>4. PICK g : Folds(g, h, snap.last, snap.mem, n + 1)
  BY <1>2, FoldExists, Zenon
<1>5. Replay = f[n]
  <2>1. Replay = Chosen(log, snap.last, snap.mem, Len(log), DOMAIN log)
    BY Zenon DEF Replay, Replayed, Chosen
  <2> QED BY <1>1, <1>2, <1>8, <2>1, ChosenFolds
<1>6. Replay' = g[n + 1]
  <2>1. Replay' = Chosen(log', snap'.last, snap'.mem, Len(log'), DOMAIN log')
    BY Zenon DEF Replay, Replayed, Chosen
  <2>2. Replay' = Chosen(h, snap.last, snap.mem, n + 1, DOMAIN h) /\ DOMAIN h = 1..(n + 1)
    BY <1>1, <1>3, <2>1
  <2> QED BY <1>1, <1>2, <1>4, <2>2, ChosenFolds
<1>7. f[n] = g[n]
  <2>1. Agree(log, h, n)
    BY <1>1, <1>3 DEF Agree
  <2> QED BY <1>2, <1>4, <1>8, <2>1, FoldSame
<1>9. g[n + 1] = Reduce(g[n], h[n + 1].event)
  BY <1>2, <1>4 DEF Folds
<1> QED BY <1>1, <1>3, <1>5, <1>6, <1>7, <1>9

----------------------------------------------------------------------------
(* The invariant *)

\* A task in one of these states may go on after a restart, the others are over or
\* unknown.
Live == {"Idle", "Running"} \cup TaskWaiting

\* No handler takes up a call in such a state; none carries out one that is spent.
Closed == ToolTerminal \cup {"Running"}
Spent == Closed \cup {"AwaitingChangeReview"}

Decisions == {"None", "Policy", "User", "Refused"}
WaitingReasons == {"none", "Approval", "ChangeReview", "Conflict"}
Kinds ==
  {"tool", "decision", "queued", "message", "state", "waiting", "effect", "propose"}

Call == [id : Ids, state : ToolStates, decision : Decisions]
WaitingReason == [kind : WaitingReasons, id : Ids \cup {NoId}]
Memory ==
  [task : TaskStates, reason : WaitingReason, calls : Seq(Call), history : Seq(Ids)]

Marks == TaskStates \cup ToolStates \cup Decisions \cup WaitingReasons \cup {"result"}

StepType == [kind : Kinds, call : Nat, id : Ids \cup {NoId}, to : Marks]

\* A step says what its kind needs.
StepOK(e) ==
  /\ e.kind \in {"queued", "message", "tool", "decision"} => e.id \in Ids
  /\ e.kind = "tool" => e.to \in ToolStates \ {"Proposed"}
  /\ e.kind = "decision" => e.to \in Decisions
  /\ e.kind = "state" => e.to \in TaskStates \ {"Idle"}
  /\ e.kind = "waiting" => e.to \in WaitingReasons

Steps == {e \in StepType : StepOK(e)}

TypeOK ==
  /\ mem \in Memory /\ durable \in Memory /\ snap.mem \in Memory /\ Replay \in Memory
  /\ todo \in Seq(Steps)
  /\ emitted \in Nat /\ snap.last \in 0..Len(log)
  /\ saving \in BOOLEAN /\ failed \in BOOLEAN /\ up \in BOOLEAN
  /\ pc \in {"returned", "loop"}
  /\ effect \subseteq Nat /\ proposals \subseteq Nat
  /\ starts \in [1..MaxCalls -> Nat]

SettledTask(t) == IF t \in {"Running", "Cancelling"} THEN "Unknown" ELSE t
SettledCall(c) == IF c.state = "Running" THEN [c EXCEPT !.state = "Unknown"] ELSE c

\* The call i is the first that has its ID.
Leader(m, i) == \A j \in DOMAIN m.calls : m.calls[j].id = m.calls[i].id => i <= j

Unique(m) ==
  {i \in DOMAIN m.calls : \A j \in DOMAIN m.calls : m.calls[j].id = m.calls[i].id => i = j}

\* What RecoveryMatchesOnline says of the replayed memory m and the memory n.
Match(m, n) ==
  /\ m.history = n.history /\ SettledTask(m.task) = SettledTask(n.task)
  /\ DOMAIN m.calls = DOMAIN n.calls
  /\ \A i \in DOMAIN n.calls : m.calls[i].id = n.calls[i].id
  /\ \A i \in Unique(n) : SettledCall(m.calls[i]) = SettledCall(n.calls[i])

SameCalls(m, n) ==
  /\ DOMAIN m.calls = DOMAIN n.calls
  /\ \A i \in DOMAIN n.calls : SettledCall(m.calls[i]) = SettledCall(n.calls[i])

\* What was begun once, as s counts it, is not taken up again with the memory m.
AllSpent(m, s) ==
  \A i \in DOMAIN s : s[i] >= 1 => i \in DOMAIN m.calls /\ m.calls[i].state \in Spent

\* A call whose ID an earlier call has is closed.
LaterClosed(m) ==
  \A i, j \in DOMAIN m.calls :
    i < j /\ m.calls[i].id = m.calls[j].id => m.calls[j].state \in Closed

\* What the replayed memory r says of the memory d, whether the process runs or not.
DiskFits(r, d, s) ==
  /\ Match(r, d)
  /\ r.task \in TaskWaiting => r.reason \in {NoReason, d.reason}
  /\ r.task \in TaskWaiting \cup {"Idle"} => LaterClosed(r) /\ AllSpent(r, s)

NotStarted(s, e) == \A i \in DOMAIN s : i = e.call => s[i] = 0

IsState(e, S) == e.kind = "state" /\ e.to \in S

\* The tool calls that the steps q are about.
Targets(m, s, q) ==
  \A k \in DOMAIN q :
    /\ q[k].kind \in {"decision", "effect", "propose"} => q[k].call # Newest
    /\ q[k].kind \in {"tool", "decision", "effect", "propose"} /\ q[k].call # Newest =>
         /\ q[k].call \in DOMAIN m.calls /\ m.calls[q[k].call].id = q[k].id
         /\ \/ Leader(m, q[k].call)
            \/ /\ q[k].kind = "tool"
               /\ \/ m.task = "Cancelling"
                  \/ \E j \in DOMAIN q : j < k /\ IsState(q[j], {"Cancelling"})
    /\ q[k].kind = "tool" /\ q[k].to \in {"AwaitingApproval", "Approved"} =>
         q[k].call # Newest /\ NotStarted(s, q[k])

IsQueued(e) == e.kind = "queued"
FailsNewest(e) == e.kind = "tool" /\ e.call = Newest

\* The calls of a reply are queued, and those with a known ID fail.
Queueing(m, q) ==
  /\ \A k \in DOMAIN q : IsQueued(q[k]) \/ FailsNewest(q[k]) =>
       /\ m.task = "Running"
       /\ \A j \in DOMAIN q : IsQueued(q[j]) \/ FailsNewest(q[j]) \/ q[j].kind = "message"
  /\ \A k \in DOMAIN q : FailsNewest(q[k]) =>
       /\ q[k].to = "Failed"
       /\ IF k = 1 THEN m.calls # <<>> /\ m.calls[Len(m.calls)].id = q[k].id
          ELSE IsQueued(q[k - 1]) /\ q[k - 1].id = q[k].id
  /\ \A k \in DOMAIN q : IsQueued(q[k]) =>
       \/ k + 1 \in DOMAIN q /\ FailsNewest(q[k + 1])
       \/ /\ \A i \in DOMAIN m.calls : m.calls[i].id # q[k].id
          /\ \A j \in DOMAIN q : j < k /\ IsQueued(q[j]) => q[j].id # q[k].id

AfterCancelling(e) ==
  e.kind \in {"tool", "message"} \/ IsState(e, {"Cancelling", "Cancelled", "Unknown"})

\* The states that the task takes.
Turns(m, q) ==
  /\ \A k \in DOMAIN q : IsState(q[k], TaskTerminal) =>
       \A j \in DOMAIN q : k < j => q[j].kind = "message"
  /\ \A k \in DOMAIN q : IsState(q[k], TaskWaiting) =>
       /\ m.task = "Running"
       /\ \A j \in DOMAIN q : j < k => q[j].kind \notin {"state", "waiting"}
  /\ \A k \in DOMAIN q : IsState(q[k], {"Cancelling"}) =>
       \A j \in DOMAIN q : k < j => AfterCancelling(q[j])
  /\ \A k \in DOMAIN q : q[k].kind = "waiting" =>
       IF k = 1 THEN m.task \in TaskWaiting ELSE IsState(q[k - 1], TaskWaiting)
  /\ m.task \in TaskTerminal => \A k \in DOMAIN q : q[k].kind = "message"
  /\ m.task = "Cancelling" => \A k \in DOMAIN q : AfterCancelling(q[k])

\* The executor is called for a call whose state says so.
Effects(m, s, q) ==
  \A k \in DOMAIN q : q[k].kind \in {"effect", "propose"} =>
    /\ m.task = "Running"
    /\ \A j \in DOMAIN q : j < k => q[j].kind \in {"tool", "decision", "propose"}
    /\ q[k].kind = "effect" => k = Len(q)
    /\ NotStarted(s, q[k])
    /\ q[k].kind = "propose" => q[k].id \in WriteIds
    /\ IF k = 1 THEN m.calls[q[k].call].state \in {"Running", "AwaitingChangeReview"}
       ELSE /\ q[k - 1].kind = "tool" /\ q[k - 1].call = q[k].call
            /\ q[k - 1].to \in {"Running", "AwaitingChangeReview"}

\* What holds of the steps q that the handler in progress still has to do.
Plan(m, s, q) == Targets(m, s, q) /\ Queueing(m, q) /\ Turns(m, q) /\ Effects(m, s, q)

\* Where drive loops, the task is running or about to be.
Looping(m, f, p, q) ==
  p = "loop" =>
    \/ f # {}
    \/ m.task = "Running" /\ \A k \in DOMAIN q : q[k].kind # "state"
    \/ q # <<>> /\ IsState(q[Len(q)], {"Running"})

NewestFails(q) == q # <<>> /\ FailsNewest(q[1])

\* The same as LaterClosed, but for the call that the next step of q fails.
MostlyClosed(m, q) ==
  \A i, j \in DOMAIN m.calls :
    i < j /\ m.calls[i].id = m.calls[j].id =>
      m.calls[j].state \in Closed \/ (j = Len(m.calls) /\ NewestFails(q))

\* The memory of the process.
Fits(m, s, q) ==
  /\ m.task \in Live => AllSpent(m, s) /\ MostlyClosed(m, q)
  /\ m.task = "Running" => m.reason = NoReason

\* A change set that the executor holds is not written, or is about to be.
Proposing(m, s, f, held) ==
  \A i \in held :
    /\ i \in DOMAIN m.calls /\ m.calls[i].id \in WriteIds
    /\ i \in DOMAIN s /\ s[i] >= 1 => i \in f

\* A side effect in progress: of a command, what the files hold says so.
Executing(m, f, r, shown) ==
  \A i \in f :
    /\ f = {i} /\ i \in DOMAIN m.calls /\ Leader(m, i)
    /\ m.calls[i].state \in {"Running", "AwaitingChangeReview"}
    /\ m.task \in {"Running", "WaitingChangeReview"}
    /\ m.calls[i].id \notin WriteIds =>
         m.task = "Running" /\ shown = "Running" /\ r.task = "Running"

MemInv ==
  /\ AtMostOnce
  /\ up => Fits(mem, starts, todo)
  /\ Plan(mem, starts, todo) /\ Looping(mem, effect, pc, todo)
  /\ Proposing(mem, starts, effect, proposals)
  /\ Executing(mem, effect, Replay, snap.mem.task)
  /\ effect # {} => todo = <<>> /\ ~saving
  /\ ~up => todo = <<>> /\ effect = {} /\ proposals = {} /\ ~saving /\ pc = "returned"

\* A call with a known ID was failed by a record that names an earlier call instead,
\* and nothing is left to do that would let the task go on.
Misapplied(m, q) ==
  /\ m.task = "Running"
  /\ \A k \in DOMAIN q :
       /\ q[k].kind \notin {"effect", "propose", "waiting"}
       /\ q[k].kind = "state" => q[k].to \in {"Cancelling", "Cancelled", "Unknown"}

\* What the files hold of it.
SyncInv ==
  up =>
    /\ Len(log) <= emitted /\ (NoGap => mem = durable)
    /\ ~failed \/ saving => NoGap
    /\ ~failed /\ ~saving /\ mem.task \notin TaskTerminal => Replay.reason = mem.reason
    /\ NoGap /\ mem.task \in Live =>
         SameCalls(Replay, mem) \/ ((failed \/ saving) /\ effect = {} /\ Misapplied(mem, todo))
    /\ NoGap => \A k \in DOMAIN todo : IsState(todo[k], TaskWaiting) =>
                                         Replay.reason = NoReason
    /\ ~failed /\ ~saving /\ todo # <<>> /\ todo[1].kind \in {"effect", "propose"} =>
         snap = [last |-> Len(log), mem |-> mem]

IInv == Gapless /\ TypeOK /\ DiskFits(Replay, durable, starts) /\ MemInv /\ SyncInv

----------------------------------------------------------------------------
(* What an event does to a memory *)

\* n is m with the call c in the place i.
Replaced(m, n, i, c) ==
  /\ n.task = m.task /\ n.reason = m.reason /\ n.history = m.history
  /\ DOMAIN n.calls = DOMAIN m.calls /\ n.calls[i] = c
  /\ \A j \in DOMAIN m.calls : j # i => n.calls[j] = m.calls[j]

\* Replacing one call gives a memory again.
LEMMA Replacing ==
  ASSUME NEW m \in Memory, NEW i \in DOMAIN m.calls, NEW c \in Call,
         NEW n, n = [m EXCEPT !.calls = [@ EXCEPT ![i] = c]]
  PROVE  n \in Memory /\ Replaced(m, n, i, c)
<1>1. m.calls \in Seq(Call) /\ [m.calls EXCEPT ![i] = c] \in Seq(Call)
  <2>1. m.calls \in Seq(Call)
    BY DEF Memory
  <2> QED BY <2>1, ExceptSeq
<1>2. n = [task |-> m.task, reason |-> m.reason, calls |-> [m.calls EXCEPT ![i] = c],
           history |-> m.history]
  BY DEF Memory
<1>3. n \in Memory
  BY <1>1, <1>2 DEF Memory
<1>4. DOMAIN n.calls = DOMAIN m.calls /\ n.calls[i] = c
      /\ \A j \in DOMAIN m.calls : j # i => n.calls[j] = m.calls[j]
  <2>1. n.calls = [m.calls EXCEPT ![i] = c]
    BY <1>2
  <2> QED BY <2>1
<1> QED BY <1>2, <1>3, <1>4 DEF Replaced

\* The call that an event names, in the runtime.
Place(m, e) == IF e.call = Newest THEN Len(m.calls) ELSE e.call

\* The runtime changes the state of the call the event is about,
LEMMA ApplyTool ==
  ASSUME NEW m \in Memory, NEW e, e.kind = "tool", e.to \in ToolStates,
         NEW i \in DOMAIN m.calls, i = Place(m, e)
  PROVE  /\ Apply(m, e) \in Memory
         /\ Replaced(m, Apply(m, e), i, [m.calls[i] EXCEPT !.state = e.to])
<1> DEFINE c == [m.calls[i] EXCEPT !.state = e.to]
<1>1. m.calls[i] \in Call
  BY DEF Memory
<1>2. c \in Call
  BY <1>1 DEF Call
<1>3. Apply(m, e) = [m EXCEPT !.calls = [@ EXCEPT ![i] = c]]
  BY DEF Apply, Place, Memory
<1> HIDE DEF c
<1>4. PICK n : n = [m EXCEPT !.calls = [@ EXCEPT ![i] = c]]
  OBVIOUS
<1>5. n \in Memory /\ Replaced(m, n, i, c)
  BY <1>2, <1>4, Replacing
<1> QED BY <1>3, <1>4, <1>5 DEF c

\* or its decision.
LEMMA ApplyDecision ==
  ASSUME NEW m \in Memory, NEW e, e.kind = "decision", e.to \in Decisions,
         NEW i \in DOMAIN m.calls, i = e.call
  PROVE  /\ Apply(m, e) \in Memory
         /\ Replaced(m, Apply(m, e), i, [m.calls[i] EXCEPT !.decision = e.to])
<1> DEFINE c == [m.calls[i] EXCEPT !.decision = e.to]
<1>1. m.calls[i] \in Call
  BY DEF Memory
<1>2. c \in Call
  BY <1>1 DEF Call
<1>3. Apply(m, e) = [m EXCEPT !.calls = [@ EXCEPT ![i] = c]]
  BY DEF Apply, Memory
<1> HIDE DEF c
<1>4. PICK n : n = [m EXCEPT !.calls = [@ EXCEPT ![i] = c]]
  OBVIOUS
<1>5. n \in Memory /\ Replaced(m, n, i, c)
  BY <1>2, <1>4, Replacing
<1> QED BY <1>3, <1>4, <1>5 DEF c

\* There is a first call with an ID that some call has.
LEMMA HasLeader ==
  ASSUME NEW m \in Memory, NEW k \in DOMAIN m.calls
  PROVE  \E i \in DOMAIN m.calls : m.calls[i].id = m.calls[k].id /\ Leader(m, i)
<1> DEFINE same == {j \in DOMAIN m.calls : m.calls[j].id = m.calls[k].id}
<1>1. PICK n \in Nat : DOMAIN m.calls = 1..n
  <2>1. m.calls \in Seq(Call)
    BY DEF Memory
  <2> QED BY <2>1, LenProperties
<1>2. same \subseteq 1..n /\ k \in same
  BY <1>1
<1>3. PICK i \in same : \A j \in same : i <= j
  <2> HIDE DEF same
  <2> QED BY <1>2, Least
<1> QED BY <1>3 DEF Leader

\* Recovery changes the first call that has the ID of the event.
LEMMA ReduceTool ==
  ASSUME NEW m \in Memory, NEW e, e.kind = "tool", e.to \in ToolStates,
         NEW i \in DOMAIN m.calls, m.calls[i].id = e.id, Leader(m, i)
  PROVE  /\ Reduce(m, e) \in Memory
         /\ Replaced(m, Reduce(m, e), i, [m.calls[i] EXCEPT !.state = e.to])
<1> DEFINE c == [m.calls[i] EXCEPT !.state = e.to]
           same == {j \in DOMAIN m.calls : m.calls[j].id = e.id}
<1>1. m.calls[i] \in Call
  BY DEF Memory
<1>2. c \in Call
  BY <1>1 DEF Call
<1>3. i \in same /\ \A j \in same : i <= j
  BY DEF Leader
<1>4. \A j \in same : j \in Int
  <2>1. m.calls \in Seq(Call)
    BY DEF Memory
  <2> QED BY <2>1, LenProperties
<1>5. (CHOOSE j \in same : \A l \in same : j <= l) = i
  <2> HIDE DEF same
  <2> QED BY <1>3, <1>4
<1>6. Reduce(m, e) = [m EXCEPT !.calls = [@ EXCEPT ![i] = c]]
  <2>1. Reduce(m, e) = [m EXCEPT !.calls[CHOOSE j \in same : \A l \in same : j <= l].state
                                    = e.to]
    BY <1>3 DEF Reduce
  <2> HIDE DEF same
  <2> QED BY <1>5, <2>1 DEF Memory
<1> HIDE DEF c, same
<1>7. PICK n : n = [m EXCEPT !.calls = [@ EXCEPT ![i] = c]]
  OBVIOUS
<1>8. n \in Memory /\ Replaced(m, n, i, c)
  BY <1>2, <1>7, Replacing
<1> QED BY <1>6, <1>7, <1>8 DEF c

\* The same of a decision.
LEMMA ReduceDecision ==
  ASSUME NEW m \in Memory, NEW e, e.kind = "decision", e.to \in Decisions,
         NEW i \in DOMAIN m.calls, m.calls[i].id = e.id, Leader(m, i)
  PROVE  /\ Reduce(m, e) \in Memory
         /\ Replaced(m, Reduce(m, e), i, [m.calls[i] EXCEPT !.decision = e.to])
<1> DEFINE c == [m.calls[i] EXCEPT !.decision = e.to]
           same == {j \in DOMAIN m.calls : m.calls[j].id = e.id}
<1>1. m.calls[i] \in Call
  BY DEF Memory
<1>2. c \in Call
  BY <1>1 DEF Call
<1>3. i \in same /\ \A j \in same : i <= j
  BY DEF Leader
<1>4. \A j \in same : j \in Int
  <2>1. m.calls \in Seq(Call)
    BY DEF Memory
  <2> QED BY <2>1, LenProperties
<1>5. (CHOOSE j \in same : \A l \in same : j <= l) = i
  <2> HIDE DEF same
  <2> QED BY <1>3, <1>4
<1>6. Reduce(m, e) = [m EXCEPT !.calls = [@ EXCEPT ![i] = c]]
  <2>1. Reduce(m, e) =
          [m EXCEPT !.calls[CHOOSE j \in same : \A l \in same : j <= l].decision = e.to]
    BY <1>3 DEF Reduce
  <2> HIDE DEF same
  <2> QED BY <1>5, <2>1 DEF Memory
<1> HIDE DEF c, same
<1>7. PICK n : n = [m EXCEPT !.calls = [@ EXCEPT ![i] = c]]
  OBVIOUS
<1>8. n \in Memory /\ Replaced(m, n, i, c)
  BY <1>2, <1>7, Replacing
<1> QED BY <1>6, <1>7, <1>8 DEF c

\* n is m with the call that e queues.
Longer(m, e, n) ==
  /\ n \in Memory /\ Len(m.calls) \in Nat /\ Len(n.calls) = Len(m.calls) + 1
  /\ DOMAIN m.calls = 1..Len(m.calls) /\ DOMAIN n.calls = 1..(Len(m.calls) + 1)
  /\ n.task = m.task /\ n.reason = m.reason /\ n.history = m.history
  /\ \A j \in DOMAIN m.calls : n.calls[j] = m.calls[j]
  /\ n.calls[Len(m.calls) + 1] = NewCall(e.id)

\* Both queue a call in the same way,
LEMMA QueuedCall ==
  ASSUME NEW m \in Memory, NEW e, e.kind = "queued", e.id \in Ids,
         NEW n \in {Apply(m, e), Reduce(m, e)}
  PROVE  Longer(m, e, n)
<1>1. m.calls \in Seq(Call) /\ NewCall(e.id) \in Call
  BY DEF Memory, NewCall, Call, ToolStates, Decisions
<1>2. n = [m EXCEPT !.calls = Append(@, NewCall(e.id))]
  BY DEF Apply, Reduce
<1>3. n = [task |-> m.task, reason |-> m.reason, calls |-> Append(m.calls, NewCall(e.id)),
           history |-> m.history]
  BY <1>2 DEF Memory
<1>4. PICK c : c = Append(m.calls, NewCall(e.id))
  OBVIOUS
<1>5. /\ c \in Seq(Call) /\ Len(c) = Len(m.calls) + 1
      /\ \A j \in 1..Len(m.calls) : c[j] = m.calls[j]
      /\ c[Len(m.calls) + 1] = NewCall(e.id)
  BY <1>1, <1>4, AppendProperties
<1>6. /\ Len(m.calls) \in Nat /\ DOMAIN m.calls = 1..Len(m.calls)
      /\ DOMAIN c = 1..(Len(m.calls) + 1)
  BY <1>1, <1>5, LenProperties
<1>7. n.calls = c /\ n \in Memory
  BY <1>3, <1>4, <1>5 DEF Memory
<1> QED BY <1>3, <1>5, <1>6, <1>7 DEF Longer

\* What keeping an answer in the history leaves.
Answered(m, e, n) ==
    /\ n \in Memory /\ n.task = m.task /\ n.reason = m.reason /\ n.calls = m.calls
    /\ n.history = Append(m.history, e.id)

\* Both keep an answer in the history.
LEMMA KeptAnswer ==
  ASSUME NEW m \in Memory, NEW e, e.kind = "message", e.id \in Ids,
         NEW n \in {Apply(m, e), Reduce(m, e)}
  PROVE  Answered(m, e, n)
<1>1. m.history \in Seq(Ids) /\ Append(m.history, e.id) \in Seq(Ids)
  <2>1. m.history \in Seq(Ids)
    BY DEF Memory
  <2> QED BY <2>1, AppendProperties
<1>2. n = [m EXCEPT !.history = Append(@, e.id)]
  BY DEF Apply, Reduce
<1>3. n = [task |-> m.task, reason |-> m.reason, calls |-> m.calls,
           history |-> Append(m.history, e.id)]
  BY <1>2 DEF Memory
<1> QED BY <1>1, <1>3 DEF Memory, Answered

\* A state: the runtime sets the reason with it, recovery does not.
LEMMA NewState ==
  ASSUME NEW m \in Memory, NEW e, e.kind = "state", e.to \in TaskStates,
         e.id \in Ids \cup {NoId}
  PROVE  /\ Apply(m, e) \in Memory /\ Apply(m, e).task = e.to
         /\ Apply(m, e).reason = ReasonOf(e)
         /\ Apply(m, e).calls = m.calls /\ Apply(m, e).history = m.history
         /\ Reduce(m, e) \in Memory /\ Reduce(m, e).task = e.to
         /\ Reduce(m, e).reason = m.reason
         /\ Reduce(m, e).calls = m.calls /\ Reduce(m, e).history = m.history
<1>1. ReasonOf(e) \in WaitingReason
  BY DEF ReasonOf, Reason, NoReason, WaitingReason, WaitingReasons
<1>2. Apply(m, e) = [m EXCEPT !.task = e.to, !.reason = ReasonOf(e)]
  BY DEF Apply
<1>3. Apply(m, e) = [task |-> e.to, reason |-> ReasonOf(e), calls |-> m.calls,
                     history |-> m.history]
  BY <1>2 DEF Memory
<1>4. Reduce(m, e) = [m EXCEPT !.task = e.to]
  BY DEF Reduce
<1>5. Reduce(m, e) = [task |-> e.to, reason |-> m.reason, calls |-> m.calls,
                      history |-> m.history]
  BY <1>4 DEF Memory
<1> QED BY <1>1, <1>3, <1>5 DEF Memory

\* A reason is kept by both.
LEMMA NewReason ==
  ASSUME NEW m \in Memory, NEW e, e.kind = "waiting", e.to \in WaitingReasons,
         e.id \in Ids \cup {NoId}, NEW n \in {Apply(m, e), Reduce(m, e)}
  PROVE  /\ n \in Memory /\ n.task = m.task /\ n.reason = Reason(e.to, e.id)
         /\ n.calls = m.calls /\ n.history = m.history
<1>1. Reason(e.to, e.id) \in WaitingReason
  BY DEF Reason, WaitingReason
<1>2. n = [m EXCEPT !.reason = Reason(e.to, e.id)]
  BY DEF Apply, Reduce
<1>3. n = [task |-> m.task, reason |-> Reason(e.to, e.id), calls |-> m.calls,
           history |-> m.history]
  BY <1>2 DEF Memory
<1> QED BY <1>1, <1>3 DEF Memory

----------------------------------------------------------------------------
(* Sequences of steps *)

\* m[k] for every k from 1 to n is the first k of the sequences ss in a row.
Joins(m, ss, n) ==
  /\ m = [k \in 1..n |-> m[k]] /\ (n >= 1 => m[1] = ss[1])
  /\ \A k \in 2..n : m[k] = m[k - 1] \o ss[k]

\* There is such a function.
LEMMA JoinExists ==
  ASSUME NEW ss, NEW n \in Nat
  PROVE  \E m : Joins(m, ss, n)
<1> DEFINE Has(k) == \E m : Joins(m, ss, k)
           Lacks == {k \in 1..n : ~Has(k)}
<1>1. Has(0)
  <2> DEFINE m == [k \in 1..0 |-> ss]
  <2>1. Joins(m, ss, 0)
    BY DEF Joins
  <2> QED BY <2>1
<1>2. ASSUME NEW k \in Nat, Has(k) PROVE Has(k + 1)
  <2>1. PICK m : Joins(m, ss, k)
    BY <1>2
  <2> DEFINE step == IF k = 0 THEN ss[1] ELSE m[k] \o ss[k + 1]
  <2>2. PICK x : x = step
    OBVIOUS
  <2> HIDE DEF step
  <2> DEFINE g == [j \in 1..(k + 1) |-> IF j = k + 1 THEN x ELSE m[j]]
  <2>3. g[1] = ss[1] /\ g = [j \in 1..(k + 1) |-> g[j]]
    <3>1. g[1] = IF 1 = k + 1 THEN x ELSE m[1]
      OBVIOUS
    <3>2. CASE k = 0
      BY <2>2, <3>1, <3>2 DEF step
    <3>3. CASE k # 0
      BY <2>1, <3>1, <3>3 DEF Joins
    <3> QED BY <3>2, <3>3
  <2>4. ASSUME NEW j \in 2..(k + 1) PROVE g[j] = g[j - 1] \o ss[j]
    <3>1. CASE j = k + 1
      <4>1. g[j] = x /\ g[j - 1] = m[k] /\ k # 0
        BY <3>1
      <4> QED BY <2>2, <3>1, <4>1 DEF step
    <3>2. CASE j # k + 1
      <4>1. j \in 2..k /\ g[j] = m[j] /\ g[j - 1] = m[j - 1]
        BY <3>2
      <4> QED BY <2>1, <4>1 DEF Joins
    <3> QED BY <3>1, <3>2
  <2> HIDE DEF g
  <2>5. Joins(g, ss, k + 1)
    BY <2>3, <2>4 DEF Joins
  <2> QED BY <2>5
<1> HIDE DEF Has
<1>3. Lacks = {}
  <2> SUFFICES ASSUME Lacks # {} PROVE FALSE
    OBVIOUS
  <2>1. PICK k \in Lacks : \A j \in Lacks : k <= j
    <3>1. Lacks \subseteq 1..n
      OBVIOUS
    <3> HIDE DEF Lacks
    <3> QED BY <3>1, Least
  <2>2. k \in 1..n /\ ~Has(k)
    OBVIOUS
  <2>3. k - 1 = 0 \/ k - 1 \in 1..n
    BY <2>2
  <2>4. Has(k - 1)
    <3>1. CASE k - 1 = 0
      BY <1>1, <3>1
    <3>2. CASE k - 1 \in 1..n
      <4>1. k - 1 \notin Lacks
        BY <2>1, <2>2
      <4> QED BY <3>2, <4>1
    <3> QED BY <2>3, <3>1, <3>2
  <2>5. k - 1 \in Nat /\ (k - 1) + 1 = k
    BY <2>2
  <2>6. Has((k - 1) + 1)
    BY <1>2, <2>4, <2>5
  <2> QED BY <2>2, <2>5, <2>6
<1>4. Has(n)
  BY <1>1, <1>3
<1> QED BY <1>4 DEF Has

\* FlattenSeq is the last value of such a function.
LEMMA FlattenJoins ==
  ASSUME NEW ss, NEW n \in Nat \ {0}, Len(ss) = n
  PROVE  \E m : Joins(m, ss, n) /\ FlattenSeq(ss) = m[n]
<1> DEFINE Is(f) == f = [i \in 1..n |-> IF i = 1 THEN ss[i] ELSE f[i - 1] \o ss[i]]
<1>1. PICK g : Joins(g, ss, n)
  BY JoinExists
<1>2. Is(g)
  <2> DEFINE h == [i \in 1..n |-> IF i = 1 THEN ss[i] ELSE g[i - 1] \o ss[i]]
  <2>1. ASSUME NEW i \in 1..n PROVE g[i] = IF i = 1 THEN ss[i] ELSE g[i - 1] \o ss[i]
    <3>1. CASE i = 1
      BY <1>1, <3>1 DEF Joins
    <3>2. CASE i # 1
      <4>1. i \in 2..n
        BY <3>2
      <4> QED BY <1>1, <3>2, <4>1 DEF Joins
    <3> QED BY <3>1, <3>2
  <2>2. g = [i \in 1..n |-> g[i]]
    BY <1>1, Zenon DEF Joins
  <2>3. [i \in 1..n |-> g[i]] = h
    BY <2>1, Zenon
  <2> QED BY <2>2, <2>3, Zenon
<1>3. FlattenSeq(ss) = (CHOOSE f : Is(f))[n]
  <2>1. Len(ss) # 0
    OBVIOUS
  <2>2. FlattenSeq(ss) =
          (CHOOSE f : f = [i \in 1..Len(ss) |-> IF i = 1 THEN ss[i] ELSE f[i - 1] \o ss[i]])
            [Len(ss)]
    BY <2>1, Zenon DEF FlattenSeq
  <2> QED BY <2>2
<1>4. ASSUME NEW f, Is(f) PROVE Joins(f, ss, n)
  <2>1. DOMAIN f = 1..n /\ f = [k \in 1..n |-> f[k]]
    BY <1>4
  <2>2. ASSUME NEW k \in 1..n PROVE f[k] = IF k = 1 THEN ss[k] ELSE f[k - 1] \o ss[k]
    BY <1>4
  <2> HIDE DEF Is
  <2>3. f[1] = ss[1]
    BY <2>2
  <2>4. ASSUME NEW k \in 2..n PROVE f[k] = f[k - 1] \o ss[k]
    <3>1. k \in 1..n /\ k # 1
      OBVIOUS
    <3> QED BY <2>2, <3>1
  <2> QED BY <2>1, <2>3, <2>4 DEF Joins
<1> HIDE DEF Is
<1>5. PICK f : f = CHOOSE e : Is(e)
  OBVIOUS
<1>6. Is(f) /\ FlattenSeq(ss) = f[n]
  BY <1>2, <1>3, <1>5
<1> QED BY <1>4, <1>6

\* What is made of sequences over T is one.
LEMMA Flattened ==
  ASSUME NEW T, NEW n \in Nat, NEW ss, DOMAIN ss = 1..n, Len(ss) = n,
         \A k \in 1..n : ss[k] \in Seq(T), n = 0 => ss = <<>>
  PROVE  FlattenSeq(ss) \in Seq(T)
<1>1. CASE n = 0
  <2>1. FlattenSeq(ss) = ss
    BY <1>1, Zenon DEF FlattenSeq
  <2>2. <<>> \in Seq(T)
    OBVIOUS
  <2> QED BY <1>1, <2>1, <2>2
<1>2. CASE n # 0
  <2>1. PICK m : Joins(m, ss, n) /\ FlattenSeq(ss) = m[n]
    BY <1>2, FlattenJoins
  <2> DEFINE Bad == {k \in 1..n : m[k] \notin Seq(T)}
  <2>2. Bad = {}
    <3> SUFFICES ASSUME Bad # {} PROVE FALSE
      OBVIOUS
    <3>1. PICK k \in Bad : \A j \in Bad : k <= j
      <4>1. Bad \subseteq 1..n
        OBVIOUS
      <4> HIDE DEF Bad
      <4> QED BY <4>1, Least
    <3>2. CASE k = 1
      BY <2>1, <3>2 DEF Joins
    <3>3. CASE k # 1
      <4>1. k \in 2..n /\ k - 1 \in 1..n /\ k - 1 \notin Bad
        BY <3>1, <3>3
      <4>2. m[k - 1] \in Seq(T) /\ ss[k] \in Seq(T) /\ m[k] = m[k - 1] \o ss[k]
        BY <2>1, <4>1 DEF Joins
      <4>3. m[k - 1] \o ss[k] \in Seq(T)
        BY <4>2, ConcatProperties
      <4> QED BY <4>2, <4>3
    <3> QED BY <3>2, <3>3
  <2> QED BY <1>2, <2>1, <2>2
<1> QED BY <1>1, <1>2

----------------------------------------------------------------------------
(* A step of the plan is done *)

\* The memory m becomes n by the step e.
Done(m, e, n) ==
  /\ n.task = IF e.kind = "state" THEN e.to ELSE m.task
  /\ e.kind \notin {"state", "waiting"} => n.reason = m.reason
  /\ IF e.kind = "queued"
     THEN /\ Len(n.calls) = Len(m.calls) + 1 /\ DOMAIN n.calls = 1..(Len(m.calls) + 1)
          /\ n.calls[Len(m.calls) + 1] = NewCall(e.id)
     ELSE Len(n.calls) = Len(m.calls) /\ DOMAIN n.calls = DOMAIN m.calls
  /\ \A i \in DOMAIN m.calls :
       /\ n.calls[i].id = m.calls[i].id
       /\ IF e.kind = "tool" /\ i = Place(m, e) THEN n.calls[i].state = e.to
          ELSE n.calls[i].state = m.calls[i].state

\* The positions of a memory's calls.
LEMMA Calls ==
  ASSUME NEW m \in Memory
  PROVE  /\ Len(m.calls) \in Nat /\ DOMAIN m.calls = 1..Len(m.calls)
         /\ \A i \in DOMAIN m.calls : m.calls[i] \in Call
<1>1. m.calls \in Seq(Call)
  BY DEF Memory
<1> QED BY <1>1, LenProperties

\* Every event of a plan does what it says.
LEMMA Emitted ==
  ASSUME NEW m \in Memory, NEW e \in Steps, e.kind \notin {"effect", "propose"},
         e.kind \in {"tool", "decision"} => Place(m, e) \in DOMAIN m.calls,
         e.kind = "decision" => e.call # Newest
  PROVE  Apply(m, e) \in Memory /\ Done(m, e, Apply(m, e))
<1>1. /\ StepOK(e) /\ e.kind \in Kinds /\ e.id \in Ids \cup {NoId}
      /\ Len(m.calls) \in Nat /\ DOMAIN m.calls = 1..Len(m.calls)
  BY Calls DEF Steps, StepType
<1>2. PICK n : n = Apply(m, e)
  OBVIOUS
<1>3. CASE e.kind = "tool"
  <2>1. PICK i \in DOMAIN m.calls : i = Place(m, e)
    BY <1>3
  <2>2. e.to \in ToolStates
    BY <1>1, <1>3 DEF StepOK
  <2>3. n \in Memory /\ Replaced(m, n, i, [m.calls[i] EXCEPT !.state = e.to])
    BY <1>2, <1>3, <2>1, <2>2, ApplyTool
  <2>4. m.calls[i] \in Call /\ Len(n.calls) \in Nat /\ DOMAIN n.calls = 1..Len(n.calls)
    BY <2>3, Calls
  <2>5. /\ [m.calls[i] EXCEPT !.state = e.to].id = m.calls[i].id
        /\ [m.calls[i] EXCEPT !.state = e.to].state = e.to
    BY <2>4 DEF Call
  <2>6. Len(n.calls) = Len(m.calls)
    BY <1>1, <2>3, <2>4 DEF Replaced
  <2> QED BY <1>2, <1>3, <2>1, <2>3, <2>5, <2>6 DEF Done, Replaced
<1>4. CASE e.kind = "decision"
  <2>1. PICK i \in DOMAIN m.calls : i = e.call
    BY <1>4 DEF Place
  <2>2. e.to \in Decisions
    BY <1>1, <1>4 DEF StepOK
  <2>3. n \in Memory /\ Replaced(m, n, i, [m.calls[i] EXCEPT !.decision = e.to])
    BY <1>2, <1>4, <2>1, <2>2, ApplyDecision
  <2>4. m.calls[i] \in Call /\ Len(n.calls) \in Nat /\ DOMAIN n.calls = 1..Len(n.calls)
    BY <2>3, Calls
  <2>5. /\ [m.calls[i] EXCEPT !.decision = e.to].id = m.calls[i].id
        /\ [m.calls[i] EXCEPT !.decision = e.to].state = m.calls[i].state
    BY <2>4 DEF Call
  <2>6. Len(n.calls) = Len(m.calls)
    BY <1>1, <2>3, <2>4 DEF Replaced
  <2> QED BY <1>2, <1>4, <2>3, <2>5, <2>6 DEF Done, Replaced
<1>5. CASE e.kind = "queued"
  <2>1. e.id \in Ids /\ n \in {Apply(m, e), Reduce(m, e)}
    BY <1>1, <1>2, <1>5 DEF StepOK
  <2>2. /\ n \in Memory /\ Len(n.calls) = Len(m.calls) + 1
        /\ DOMAIN n.calls = 1..(Len(m.calls) + 1) /\ n.task = m.task /\ n.reason = m.reason
        /\ \A j \in DOMAIN m.calls : n.calls[j] = m.calls[j]
        /\ n.calls[Len(m.calls) + 1] = NewCall(e.id)
    <3>1. Longer(m, e, n)
      BY <1>5, <2>1, QueuedCall
    <3> QED BY <3>1 DEF Longer
  <2> QED BY <1>2, <1>5, <2>2 DEF Done
<1>6. CASE e.kind = "message"
  <2>1. e.id \in Ids /\ n \in {Apply(m, e), Reduce(m, e)}
    BY <1>1, <1>2, <1>6 DEF StepOK
  <2>2. n \in Memory /\ n.task = m.task /\ n.reason = m.reason /\ n.calls = m.calls
    <3>1. Answered(m, e, n)
      BY <1>6, <2>1, KeptAnswer
    <3> QED BY <3>1 DEF Answered
  <2> QED BY <1>2, <1>6, <2>2 DEF Done
<1>7. CASE e.kind = "state"
  <2>1. e.to \in TaskStates
    BY <1>1, <1>7 DEF StepOK
  <2>2. n \in Memory /\ n.task = e.to /\ n.calls = m.calls
    BY <1>1, <1>2, <1>7, <2>1, NewState
  <2> QED BY <1>2, <1>7, <2>2 DEF Done
<1>8. CASE e.kind = "waiting"
  <2>1. e.to \in WaitingReasons /\ n \in {Apply(m, e), Reduce(m, e)}
    BY <1>1, <1>2, <1>8 DEF StepOK
  <2>2. n \in Memory /\ n.task = m.task /\ n.calls = m.calls
    BY <1>1, <1>8, <2>1, NewReason
  <2> QED BY <1>2, <1>8, <2>2 DEF Done
<1> QED BY <1>1, <1>3, <1>4, <1>5, <1>6, <1>7, <1>8 DEF Kinds

\* The rest of a plan, position by position.
Rest(q, t) ==
  /\ Len(q) \in Nat /\ 1 <= Len(q) /\ Len(t) = Len(q) - 1
  /\ DOMAIN q = 1..Len(q) /\ DOMAIN t = 1..(Len(q) - 1)
  /\ \A k \in DOMAIN t : k + 1 \in DOMAIN q /\ t[k] = q[k + 1]

\* It is what Tail leaves.
LEMMA TailIsRest ==
  ASSUME NEW S, NEW q \in Seq(S), q # <<>>
  PROVE  Tail(q) \in Seq(S) /\ Rest(q, Tail(q)) /\ Head(q) = q[1] /\ q[1] \in S
<1>1. PICK t : t = Tail(q)
  OBVIOUS
<1>2. /\ Head(q) \in S /\ t \in Seq(S) /\ Len(t) = Len(q) - 1
      /\ \A i \in 1..Len(t) : t[i] = q[i + 1]
  BY <1>1, HeadTailProperties
<1>3. Len(q) \in Nat /\ DOMAIN q = 1..Len(q) /\ DOMAIN t = 1..Len(t) /\ Len(q) # 0
  BY <1>2, LenProperties, EmptySeq
<1>4. Head(q) = q[1]
  OBVIOUS
<1>5. Rest(q, t)
  BY <1>2, <1>3 DEF Rest
<1> QED BY <1>1, <1>2, <1>4, <1>5

\* The call that the next step is about exists and has its ID.
LEMMA NextCall ==
  ASSUME NEW m \in Memory, NEW s, NEW q, NEW t, Plan(m, s, q), Rest(q, t),
         q[1].kind \in {"tool", "decision", "effect", "propose"}
  PROVE  /\ Place(m, q[1]) \in DOMAIN m.calls /\ m.calls[Place(m, q[1])].id = q[1].id
         /\ q[1].kind # "tool" => q[1].call # Newest
         /\ q[1].call # Newest =>
              Leader(m, q[1].call) \/ (q[1].kind = "tool" /\ m.task = "Cancelling")
<1>1. 1 \in DOMAIN q /\ ~(\E j \in DOMAIN q : j < 1)
  BY DEF Rest
<1>2. CASE q[1].call # Newest
  BY <1>1, <1>2 DEF Plan, Targets, Place
<1>3. CASE q[1].call = Newest
  <2>1. q[1].kind = "tool"
    BY <1>1, <1>3 DEF Plan, Targets
  <2>2. m.calls # <<>> /\ m.calls[Len(m.calls)].id = q[1].id
    BY <1>1, <1>3, <2>1 DEF Plan, Queueing, FailsNewest
  <2>3. m.calls \in Seq(Call)
    BY DEF Memory
  <2>4. Len(m.calls) \in DOMAIN m.calls
    BY <2>2, <2>3, EmptySeq, LenProperties
  <2> QED BY <1>3, <2>1, <2>2, <2>4 DEF Place
<1> QED BY <1>2, <1>3

\* The IDs of the calls stay, and so does which call is the first with its ID.
LEMMA StillLeader ==
  ASSUME NEW m \in Memory, NEW n, NEW e, Done(m, e, n), NEW i \in DOMAIN m.calls
  PROVE  /\ i \in DOMAIN n.calls /\ n.calls[i].id = m.calls[i].id
         /\ Leader(m, i) => Leader(n, i)
<1>1. Len(m.calls) \in Nat /\ DOMAIN m.calls = 1..Len(m.calls)
  BY Calls
<1>2. i \in DOMAIN n.calls /\ n.calls[i].id = m.calls[i].id
  BY <1>1 DEF Done
<1>3. ASSUME Leader(m, i), NEW j \in DOMAIN n.calls, n.calls[j].id = n.calls[i].id
      PROVE  i <= j
  <2>1. CASE j \in DOMAIN m.calls
    BY <1>2, <1>3, <2>1 DEF Leader, Done
  <2>2. CASE j \notin DOMAIN m.calls
    <3>1. j = Len(m.calls) + 1
      BY <1>1, <2>2 DEF Done
    <3> QED BY <1>1, <3>1
  <2> QED BY <2>1, <2>2
<1> QED BY <1>2, <1>3 DEF Leader

\* Doing the next step leaves a plan.
LEMMA PlanRest ==
  ASSUME NEW m \in Memory, NEW n, NEW s, NEW q, NEW t, Plan(m, s, q), Rest(q, t),
         q[1] \in Steps, q[1].kind # "effect", Done(m, q[1], n)
  PROVE  Plan(n, s, t)
<1> DEFINE e == q[1]
<1>1. /\ 1 \in DOMAIN q /\ StepOK(e) /\ Len(m.calls) \in Nat
      /\ DOMAIN m.calls = 1..Len(m.calls)
  BY Calls DEF Rest, Steps
<1>2. ASSUME NEW k \in DOMAIN t
      PROVE  k \in Nat /\ k >= 1 /\ k + 1 \in DOMAIN q /\ 1 < k + 1 /\ k + 1 # 1
             /\ t[k] = q[k + 1] /\ (k + 1) - 1 = k
             /\ (k = 1 \/ (k - 1 \in DOMAIN t /\ q[k] = t[k - 1] /\ k # 1))
  BY DEF Rest
<1>3. Targets(n, s, t)
  <2> SUFFICES ASSUME NEW k \in DOMAIN t
               PROVE
    /\ t[k].kind \in {"decision", "effect", "propose"} => t[k].call # Newest
    /\ t[k].kind \in {"tool", "decision", "effect", "propose"} /\ t[k].call # Newest =>
         /\ t[k].call \in DOMAIN n.calls /\ n.calls[t[k].call].id = t[k].id
         /\ \/ Leader(n, t[k].call)
            \/ /\ t[k].kind = "tool"
               /\ \/ n.task = "Cancelling"
                  \/ \E j \in DOMAIN t : j < k /\ IsState(t[j], {"Cancelling"})
    /\ t[k].kind = "tool" /\ t[k].to \in {"AwaitingApproval", "Approved"} =>
         t[k].call # Newest /\ NotStarted(s, t[k])
    BY Zenon DEF Targets
  <2>1. k + 1 \in DOMAIN q /\ t[k] = q[k + 1]
    BY <1>2
  <2>2. /\ t[k].kind \in {"decision", "effect", "propose"} => t[k].call # Newest
        /\ t[k].kind = "tool" /\ t[k].to \in {"AwaitingApproval", "Approved"} =>
             t[k].call # Newest /\ NotStarted(s, t[k])
    BY <2>1 DEF Plan, Targets
  <2>3. ASSUME t[k].kind \in {"tool", "decision", "effect", "propose"}, t[k].call # Newest
        PROVE  /\ t[k].call \in DOMAIN n.calls /\ n.calls[t[k].call].id = t[k].id
               /\ \/ Leader(n, t[k].call)
                  \/ /\ t[k].kind = "tool"
                     /\ \/ n.task = "Cancelling"
                        \/ \E j \in DOMAIN t : j < k /\ IsState(t[j], {"Cancelling"})
    <3>1. /\ t[k].call \in DOMAIN m.calls /\ m.calls[t[k].call].id = t[k].id
          /\ \/ Leader(m, t[k].call)
             \/ /\ t[k].kind = "tool"
                /\ \/ m.task = "Cancelling"
                   \/ \E j \in DOMAIN q : j < k + 1 /\ IsState(q[j], {"Cancelling"})
      BY <2>1, <2>3 DEF Plan, Targets
    <3>2. /\ t[k].call \in DOMAIN n.calls /\ n.calls[t[k].call].id = t[k].id
          /\ Leader(m, t[k].call) => Leader(n, t[k].call)
      BY <3>1, StillLeader
    <3>3. ASSUME t[k].kind = "tool", m.task = "Cancelling" PROVE n.task = "Cancelling"
      <4>1. CASE e.kind = "state"
        <5>1. AfterCancelling(e)
          BY <1>1, <3>3 DEF Plan, Turns
        <5>2. ~IsState(e, TaskTerminal)
          BY <1>1, <1>2, <2>1, <3>3 DEF Plan, Turns
        <5> QED BY <4>1, <5>1, <5>2 DEF AfterCancelling, IsState, TaskTerminal, Done
      <4>2. CASE e.kind # "state"
        BY <3>3, <4>2 DEF Done
      <4> QED BY <4>1, <4>2
    <3>4. ASSUME NEW j \in DOMAIN q, j < k + 1, IsState(q[j], {"Cancelling"})
          PROVE  n.task = "Cancelling" \/ \E i \in DOMAIN t : i < k /\ IsState(t[i], {"Cancelling"})
      <4>1. CASE j = 1
        BY <3>4, <4>1 DEF IsState, Done
      <4>2. CASE j # 1
        <5>1. j - 1 \in DOMAIN t /\ t[j - 1] = q[j] /\ j - 1 < k
          <6>1. j \in Nat /\ j >= 2 /\ k \in Nat
            BY <1>2, <4>2 DEF Rest
          <6>2. j - 1 \in DOMAIN t /\ (j - 1) + 1 = j
            BY <6>1 DEF Rest
          <6> QED BY <1>2, <3>4, <6>1, <6>2
        <5> QED BY <3>4, <5>1
      <4> QED BY <4>1, <4>2
    <3> QED BY <3>1, <3>2, <3>3, <3>4
  <2> QED BY <2>2, <2>3
<1>4. Queueing(n, t)
  <2>1. ASSUME NEW k \in DOMAIN t, IsQueued(t[k]) \/ FailsNewest(t[k])
        PROVE  /\ n.task = "Running"
               /\ \A j \in DOMAIN t : IsQueued(t[j]) \/ FailsNewest(t[j]) \/ t[j].kind = "message"
    <3>1. /\ m.task = "Running"
          /\ \A j \in DOMAIN q : IsQueued(q[j]) \/ FailsNewest(q[j]) \/ q[j].kind = "message"
      BY <1>2, <2>1 DEF Plan, Queueing
    <3>2. e.kind # "state"
      BY <1>1, <3>1 DEF IsQueued, FailsNewest
    <3>3. n.task = "Running"
      BY <3>1, <3>2 DEF Done
    <3>4. ASSUME NEW j \in DOMAIN t
          PROVE  IsQueued(t[j]) \/ FailsNewest(t[j]) \/ t[j].kind = "message"
      <4>1. j + 1 \in DOMAIN q /\ t[j] = q[j + 1]
        BY <1>2
      <4> QED BY <3>1, <4>1
    <3> QED BY <3>3, <3>4
  <2>2. ASSUME NEW k \in DOMAIN t, FailsNewest(t[k])
        PROVE  /\ t[k].to = "Failed"
               /\ IF k = 1 THEN n.calls # <<>> /\ n.calls[Len(n.calls)].id = t[k].id
                  ELSE IsQueued(t[k - 1]) /\ t[k - 1].id = t[k].id
    <3>1. t[k].to = "Failed" /\ IsQueued(q[k]) /\ q[k].id = t[k].id
      <4>1. k + 1 \in DOMAIN q /\ t[k] = q[k + 1] /\ k + 1 # 1 /\ (k + 1) - 1 = k
        BY <1>2
      <4>2. /\ q[k + 1].to = "Failed"
            /\ IsQueued(q[(k + 1) - 1]) /\ q[(k + 1) - 1].id = q[k + 1].id
        BY <2>2, <4>1 DEF Plan, Queueing
      <4> QED BY <4>1, <4>2
    <3>2. CASE k = 1
      <4>1. n.calls[Len(n.calls)] = NewCall(e.id) /\ DOMAIN n.calls = 1..(Len(m.calls) + 1)
        BY <3>1, <3>2 DEF Done, IsQueued
      <4>2. n.calls # <<>>
        BY <1>1, <4>1
      <4> QED BY <3>1, <3>2, <4>1, <4>2 DEF NewCall
    <3>3. CASE k # 1
      BY <1>2, <3>1, <3>3
    <3> QED BY <3>1, <3>2, <3>3
  <2>3. ASSUME NEW k \in DOMAIN t, IsQueued(t[k])
        PROVE  \/ k + 1 \in DOMAIN t /\ FailsNewest(t[k + 1])
               \/ /\ \A i \in DOMAIN n.calls : n.calls[i].id # t[k].id
                  /\ \A j \in DOMAIN t : j < k /\ IsQueued(t[j]) => t[j].id # t[k].id
    <3>1. \/ (k + 1) + 1 \in DOMAIN q /\ FailsNewest(q[(k + 1) + 1])
          \/ /\ \A i \in DOMAIN m.calls : m.calls[i].id # t[k].id
             /\ \A j \in DOMAIN q : j < k + 1 /\ IsQueued(q[j]) => q[j].id # t[k].id
      BY <1>2, <2>3 DEF Plan, Queueing
    <3>2. CASE (k + 1) + 1 \in DOMAIN q /\ FailsNewest(q[(k + 1) + 1])
      <4>1. k + 1 \in DOMAIN t
        BY <1>2, <3>2 DEF Rest
      <4> QED BY <1>2, <3>2, <4>1
    <3>3. CASE /\ \A i \in DOMAIN m.calls : m.calls[i].id # t[k].id
               /\ \A j \in DOMAIN q : j < k + 1 /\ IsQueued(q[j]) => q[j].id # t[k].id
      <4>1. ASSUME NEW i \in DOMAIN n.calls PROVE n.calls[i].id # t[k].id
        <5>1. CASE i \in DOMAIN m.calls
          BY <3>3, <5>1 DEF Done
        <5>2. CASE i \notin DOMAIN m.calls
          <6>1. e.kind = "queued" /\ i = Len(m.calls) + 1
            BY <1>1, <5>2 DEF Done
          <6>2. n.calls[i] = NewCall(e.id)
            BY <6>1 DEF Done
          <6>3. e.id # t[k].id
            BY <1>1, <1>2, <3>3, <6>1 DEF IsQueued
          <6> QED BY <6>2, <6>3 DEF NewCall
        <5> QED BY <5>1, <5>2
      <4>2. ASSUME NEW j \in DOMAIN t, j < k, IsQueued(t[j]) PROVE t[j].id # t[k].id
        <5>1. j + 1 \in DOMAIN q /\ t[j] = q[j + 1] /\ j + 1 < k + 1
          BY <1>2, <4>2
        <5> QED BY <3>3, <4>2, <5>1
      <4> QED BY <4>1, <4>2
    <3> QED BY <3>1, <3>2, <3>3
  <2> QED BY <2>1, <2>2, <2>3, Zenon DEF Queueing
<1>5. Turns(n, t)
  <2>1. ASSUME NEW k \in DOMAIN t, IsState(t[k], TaskTerminal), NEW j \in DOMAIN t, k < j
        PROVE  t[j].kind = "message"
    <3>1. k + 1 < j + 1
      BY <1>2, <2>1
    <3> QED BY <1>2, <2>1, <3>1 DEF Plan, Turns
  <2>2. ASSUME NEW k \in DOMAIN t, IsState(t[k], TaskWaiting)
        PROVE  n.task = "Running" /\ \A j \in DOMAIN t : j < k => t[j].kind \notin {"state", "waiting"}
    <3>1. /\ m.task = "Running"
          /\ \A j \in DOMAIN q : j < k + 1 => q[j].kind \notin {"state", "waiting"}
      BY <1>2, <2>2 DEF Plan, Turns
    <3>2. n.task = "Running"
      BY <1>1, <1>2, <3>1 DEF Done
    <3>3. ASSUME NEW j \in DOMAIN t, j < k PROVE t[j].kind \notin {"state", "waiting"}
      <4>1. j + 1 < k + 1
        BY <1>2, <3>3
      <4> QED BY <1>2, <3>1, <4>1
    <3> QED BY <3>2, <3>3
  <2>3. ASSUME NEW k \in DOMAIN t, IsState(t[k], {"Cancelling"}), NEW j \in DOMAIN t, k < j
        PROVE  AfterCancelling(t[j])
    <3>1. k + 1 < j + 1
      BY <1>2, <2>3
    <3> QED BY <1>2, <2>3, <3>1 DEF Plan, Turns
  <2>4. ASSUME NEW k \in DOMAIN t, t[k].kind = "waiting"
        PROVE  IF k = 1 THEN n.task \in TaskWaiting ELSE IsState(t[k - 1], TaskWaiting)
    <3>1. IsState(q[k], TaskWaiting)
      BY <1>2, <2>4 DEF Plan, Turns
    <3> QED BY <1>2, <3>1 DEF IsState, Done
  <2>5. ASSUME n.task \in TaskTerminal, NEW k \in DOMAIN t PROVE t[k].kind = "message"
    <3>1. k + 1 \in DOMAIN q /\ t[k] = q[k + 1] /\ 1 < k + 1
      BY <1>2
    <3>2. CASE e.kind = "state"
      <4>1. IsState(e, TaskTerminal)
        BY <2>5, <3>2 DEF IsState, Done
      <4> QED BY <1>1, <3>1, <4>1 DEF Plan, Turns
    <3>3. CASE e.kind # "state"
      <4>1. m.task \in TaskTerminal
        BY <2>5, <3>3 DEF Done
      <4> QED BY <3>1, <4>1 DEF Plan, Turns
    <3> QED BY <3>2, <3>3
  <2>6. ASSUME n.task = "Cancelling", NEW k \in DOMAIN t PROVE AfterCancelling(t[k])
    <3>1. CASE e.kind = "state"
      <4>1. IsState(e, {"Cancelling"})
        BY <2>6, <3>1 DEF IsState, Done
      <4> QED BY <1>1, <1>2, <4>1 DEF Plan, Turns
    <3>2. CASE e.kind # "state"
      <4>1. m.task = "Cancelling"
        BY <2>6, <3>2 DEF Done
      <4>2. k + 1 \in DOMAIN q /\ t[k] = q[k + 1]
        BY <1>2
      <4> QED BY <4>1, <4>2 DEF Plan, Turns
    <3> QED BY <3>1, <3>2
  <2> QED BY <2>1, <2>2, <2>3, <2>4, <2>5, <2>6, Zenon DEF Turns
<1>6. Effects(n, s, t)
  <2> SUFFICES ASSUME NEW k \in DOMAIN t, t[k].kind \in {"effect", "propose"}
               PROVE
    /\ n.task = "Running"
    /\ \A j \in DOMAIN t : j < k => t[j].kind \in {"tool", "decision", "propose"}
    /\ t[k].kind = "effect" => k = Len(t)
    /\ NotStarted(s, t[k])
    /\ t[k].kind = "propose" => t[k].id \in WriteIds
    /\ IF k = 1 THEN n.calls[t[k].call].state \in {"Running", "AwaitingChangeReview"}
       ELSE /\ t[k - 1].kind = "tool" /\ t[k - 1].call = t[k].call
            /\ t[k - 1].to \in {"Running", "AwaitingChangeReview"}
    BY Zenon DEF Effects
  <2>1. /\ m.task = "Running"
        /\ \A j \in DOMAIN q : j < k + 1 => q[j].kind \in {"tool", "decision", "propose"}
        /\ t[k].kind = "effect" => k + 1 = Len(q)
        /\ NotStarted(s, t[k])
        /\ t[k].kind = "propose" => t[k].id \in WriteIds
        /\ q[k].kind = "tool" /\ q[k].call = t[k].call
        /\ q[k].to \in {"Running", "AwaitingChangeReview"}
    BY <1>2 DEF Plan, Effects
  <2>2. n.task = "Running"
    BY <1>1, <1>2, <2>1 DEF Done
  <2>3. ASSUME NEW j \in DOMAIN t, j < k PROVE t[j].kind \in {"tool", "decision", "propose"}
    <3>1. j + 1 < k + 1
      BY <1>2, <2>3
    <3> QED BY <1>2, <2>1, <3>1
  <2>4. t[k].kind = "effect" => k = Len(t)
    BY <1>2, <2>1 DEF Rest
  <2>5. CASE k = 1
    <3>1. t[k].call # Newest
      BY <1>3 DEF Targets
    <3>2. Place(m, e) = t[k].call /\ Place(m, e) \in DOMAIN m.calls
      BY <2>1, <2>5, <3>1, NextCall DEF Place
    <3>3. n.calls[t[k].call].state = e.to
      BY <2>1, <2>5, <3>2 DEF Done
    <3> QED BY <2>1, <2>2, <2>3, <2>4, <2>5, <3>3
  <2>6. CASE k # 1
    BY <1>2, <2>1, <2>2, <2>3, <2>4, <2>6
  <2> QED BY <2>5, <2>6
<1> QED BY <1>3, <1>4, <1>5, <1>6 DEF Plan

\* A task that goes on did so before.
LEMMA WasLive ==
  ASSUME NEW m \in Memory, NEW n, NEW s, NEW q, NEW t, Plan(m, s, q), Rest(q, t),
         q[1] \in Steps, Done(m, q[1], n), n.task \in Live
  PROVE  m.task \in Live
<1> DEFINE e == q[1]
<1>1. 1 \in DOMAIN q /\ m.task \in TaskStates
  BY DEF Rest, Memory
<1>2. CASE e.kind = "state"
  <2>1. e.to \in Live
    BY <1>2 DEF Done
  <2>2. m.task # "Cancelling"
    <3> SUFFICES ASSUME m.task = "Cancelling" PROVE FALSE
      OBVIOUS
    <3>1. AfterCancelling(e)
      BY <1>1 DEF Plan, Turns
    <3> QED BY <1>2, <2>1, <3>1 DEF AfterCancelling, IsState, Live, TaskWaiting
  <2>3. m.task \notin TaskTerminal
    BY <1>1, <1>2 DEF Plan, Turns
  <2> QED BY <1>1, <2>2, <2>3 DEF TaskStates, TaskTerminal, Live, TaskWaiting
<1>3. CASE e.kind # "state"
  BY <1>3 DEF Done
<1> QED BY <1>2, <1>3

\* What was begun stays spent, and a call with a known ID is closed.
LEMMA SpentRest ==
  ASSUME NEW m \in Memory, NEW n \in Memory, NEW s, NEW q, NEW t, Plan(m, s, q), Rest(q, t),
         q[1] \in Steps, q[1].kind # "effect", Done(m, q[1], n),
         m.task \in Live, AllSpent(m, s), MostlyClosed(m, q)
  PROVE  AllSpent(n, s) /\ MostlyClosed(n, t)
<1> DEFINE e == q[1]
<1>1. /\ 1 \in DOMAIN q /\ q # <<>> /\ StepOK(e)
      /\ Len(m.calls) \in Nat /\ DOMAIN m.calls = 1..Len(m.calls)
  BY Calls DEF Rest, Steps
<1>2. ASSUME NEW i \in DOMAIN s, s[i] >= 1
      PROVE  i \in DOMAIN n.calls /\ n.calls[i].state \in Spent
  <2>1. i \in DOMAIN m.calls /\ m.calls[i].state \in Spent
    BY <1>2 DEF AllSpent
  <2>2. i \in DOMAIN n.calls
    BY <2>1, StillLeader
  <2>3. CASE e.kind = "tool" /\ i = Place(m, e)
    <3>1. n.calls[i].state = e.to /\ e.to \in ToolStates \ {"Proposed"}
      BY <1>1, <2>1, <2>3 DEF Done, StepOK
    <3>2. ASSUME e.to \in {"AwaitingApproval", "Approved"} PROVE FALSE
      <4>1. e.call # Newest /\ NotStarted(s, e)
        BY <1>1, <2>3, <3>2 DEF Plan, Targets
      <4>2. s[i] = 0
        BY <1>2, <2>3, <4>1 DEF Place, NotStarted
      <4> QED BY <1>2, <4>2
    <3> QED BY <2>2, <3>1, <3>2 DEF ToolStates, Spent, Closed, ToolTerminal
  <2>4. CASE ~(e.kind = "tool" /\ i = Place(m, e))
    BY <2>1, <2>2, <2>4 DEF Done
  <2> QED BY <2>3, <2>4
<1>3. ASSUME NEW i \in DOMAIN n.calls, NEW j \in DOMAIN n.calls, i < j,
             n.calls[i].id = n.calls[j].id
      PROVE  n.calls[j].state \in Closed \/ (j = Len(n.calls) /\ NewestFails(t))
  <2>1. CASE j \in DOMAIN m.calls
    <3>1. i \in DOMAIN m.calls /\ m.calls[i].id = m.calls[j].id
      <4>1. i \in DOMAIN m.calls
        BY <1>1, <1>3, <2>1 DEF Done
      <4> QED BY <1>3, <2>1, <4>1 DEF Done
    <3>2. m.calls[j].state \in Closed \/ (j = Len(m.calls) /\ NewestFails(q))
      BY <1>3, <2>1, <3>1 DEF MostlyClosed
    <3>3. CASE e.kind = "tool" /\ j = Place(m, e)
      <4>1. n.calls[j].state = e.to
        BY <2>1, <3>3 DEF Done
      <4>2. CASE e.call = Newest
        <5>1. e.to = "Failed"
          BY <1>1, <3>3, <4>2 DEF Plan, Queueing, FailsNewest
        <5> QED BY <4>1, <5>1 DEF Closed, ToolTerminal
      <4>3. CASE e.call # Newest
        <5>1. j = e.call
          BY <3>3, <4>3 DEF Place
        <5>2. Leader(m, j) \/ m.task = "Cancelling"
          BY <3>3, <4>3, <5>1, NextCall
        <5>3. m.task # "Cancelling"
          BY DEF Live, TaskWaiting
        <5>4. j <= i
          BY <3>1, <5>2, <5>3 DEF Leader
        <5> QED BY <1>1, <1>3, <2>1, <3>1, <5>4
      <4> QED BY <4>2, <4>3
    <3>4. CASE ~(e.kind = "tool" /\ j = Place(m, e))
      <4>1. n.calls[j].state = m.calls[j].state
        BY <2>1, <3>4 DEF Done
      <4>2. ~(j = Len(m.calls) /\ NewestFails(q))
        BY <3>4 DEF NewestFails, FailsNewest, Place
      <4> QED BY <3>2, <4>1, <4>2
    <3> QED BY <3>3, <3>4
  <2>2. CASE j \notin DOMAIN m.calls
    <3>1. e.kind = "queued" /\ j = Len(m.calls) + 1 /\ Len(n.calls) = Len(m.calls) + 1
          /\ n.calls[j] = NewCall(e.id)
      BY <1>1, <2>2 DEF Done
    <3>2. i \in DOMAIN m.calls /\ m.calls[i].id = e.id
      <4>1. i \in DOMAIN m.calls
        BY <1>1, <1>3, <3>1 DEF Done
      <4>2. n.calls[j].id = e.id
        BY <3>1 DEF NewCall
      <4> QED BY <1>3, <4>1, <4>2 DEF Done
    <3>3. 1 + 1 \in DOMAIN q /\ FailsNewest(q[1 + 1])
      BY <1>1, <3>1, <3>2 DEF Plan, Queueing, IsQueued
    <3>4. NewestFails(t)
      <4>1. 1 \in DOMAIN t
        BY <3>3 DEF Rest
      <4>2. t[1] = q[1 + 1] /\ t # <<>>
        BY <4>1 DEF Rest
      <4> QED BY <3>3, <4>2 DEF NewestFails
    <3> QED BY <3>1, <3>4
  <2> QED BY <2>1, <2>2
<1> QED BY <1>2, <1>3 DEF AllSpent, MostlyClosed

\* A running task has no reason to wait.
LEMMA FitsRest ==
  ASSUME NEW m \in Memory, NEW s, NEW q, NEW t, Plan(m, s, q), Rest(q, t), q[1] \in Steps,
         q[1].kind \notin {"effect", "propose"}, Fits(m, s, q), NEW n \in Memory,
         n = Apply(m, q[1]), Done(m, q[1], n)
  PROVE  Fits(n, s, t)
<1> DEFINE e == q[1]
<1>1. ASSUME n.task \in Live PROVE AllSpent(n, s) /\ MostlyClosed(n, t)
  <2>1. m.task \in Live
    BY <1>1, WasLive
  <2> QED BY <2>1, SpentRest DEF Fits
<1>2. ASSUME n.task = "Running" PROVE n.reason = NoReason
  <2>1. 1 \in DOMAIN q /\ StepOK(e) /\ e.id \in Ids \cup {NoId}
    BY DEF Rest, Steps, StepType
  <2>2. CASE e.kind = "state"
    <3>1. n.reason = ReasonOf(e) /\ e.to = "Running"
      <4>1. e.to \in TaskStates
        BY <2>1, <2>2 DEF StepOK
      <4> QED BY <1>2, <2>1, <2>2, <4>1, NewState
    <3> QED BY <3>1 DEF ReasonOf
  <2>3. CASE e.kind = "waiting"
    <3>1. m.task \in TaskWaiting /\ n.task = m.task
      BY <2>1, <2>3 DEF Plan, Turns, Done
    <3> QED BY <1>2, <3>1 DEF TaskWaiting
  <2>4. CASE e.kind \notin {"state", "waiting"}
    BY <1>2, <2>4 DEF Done, Fits
  <2> QED BY <2>2, <2>3, <2>4
<1> QED BY <1>1, <1>2 DEF Fits

\* A loop goes on where it did.
LEMMA LoopingRest ==
  ASSUME NEW m, NEW n, NEW p, NEW q, NEW t, Rest(q, t), Done(m, q[1], n),
         Looping(m, {}, p, q)
  PROVE  Looping(n, {}, p, t)
<1> SUFFICES ASSUME p = "loop"
             PROVE  \/ n.task = "Running" /\ \A k \in DOMAIN t : t[k].kind # "state"
                    \/ t # <<>> /\ IsState(t[Len(t)], {"Running"})
  BY DEF Looping
<1>1. 1 \in DOMAIN q
  BY DEF Rest
<1>2. CASE m.task = "Running" /\ \A k \in DOMAIN q : q[k].kind # "state"
  <2>1. n.task = "Running"
    BY <1>1, <1>2 DEF Done
  <2>2. ASSUME NEW k \in DOMAIN t PROVE t[k].kind # "state"
    BY <1>2 DEF Rest
  <2> QED BY <2>1, <2>2
<1>3. CASE IsState(q[Len(q)], {"Running"})
  <2>1. CASE Len(q) = 1
    <3>1. n.task = "Running" /\ DOMAIN t = {}
      BY <1>3, <2>1 DEF IsState, Done, Rest
    <3> QED BY <3>1
  <2>2. CASE Len(q) # 1
    <3>1. Len(t) \in DOMAIN t /\ Len(t) + 1 = Len(q)
      BY <2>2 DEF Rest
    <3>2. t[Len(t)] = q[Len(q)] /\ t # <<>>
      BY <3>1 DEF Rest
    <3> QED BY <1>3, <3>2
  <2> QED BY <2>1, <2>2
<1> QED BY <1>2, <1>3 DEF Looping

----------------------------------------------------------------------------
(* A record is replayed *)

\* The record of an event leaves out the place of the call.
LEMMA Recorded ==
  ASSUME NEW e \in StepType, NEW r
  PROVE  Reduce(r, [e EXCEPT !.call = 0]) = Reduce(r, e)
<1> DEFINE f == [e EXCEPT !.call = 0]
<1>1. f.kind = e.kind /\ f.id = e.id /\ f.to = e.to
  BY DEF StepType
<1> HIDE DEF f
<1>2. Reduce(r, f) = Reduce(r, e)
  BY <1>1 DEF Reduce
<1> QED BY <1>2 DEF f

\* Calls that are the same but for one that was running.
LEMMA SettledAlike ==
  ASSUME NEW c \in Call, NEW d \in Call, SettledCall(c) = SettledCall(d)
  PROVE  /\ c.id = d.id /\ c.decision = d.decision
         /\ c.state \in Spent <=> d.state \in Spent
         /\ c.state \in Closed <=> d.state \in Closed
         /\ \A x : [c EXCEPT !.state = x] = [d EXCEPT !.state = x]
         /\ \A x : SettledCall([c EXCEPT !.decision = x]) = SettledCall([d EXCEPT !.decision = x])
<1>1. /\ SettledCall(c).id = c.id /\ SettledCall(c).decision = c.decision
      /\ SettledCall(c).state = IF c.state = "Running" THEN "Unknown" ELSE c.state
      /\ SettledCall(d).id = d.id /\ SettledCall(d).decision = d.decision
      /\ SettledCall(d).state = IF d.state = "Running" THEN "Unknown" ELSE d.state
  BY DEF SettledCall, Call
<1>2. /\ c = [id |-> c.id, state |-> c.state, decision |-> c.decision]
      /\ d = [id |-> d.id, state |-> d.state, decision |-> d.decision]
  BY DEF Call
<1>3. c.id = d.id /\ c.decision = d.decision
  BY <1>1
<1>4. /\ c.state \in Spent <=> d.state \in Spent
      /\ c.state \in Closed <=> d.state \in Closed
  BY <1>1 DEF Spent, Closed, ToolTerminal
<1>5. ASSUME NEW x PROVE [c EXCEPT !.state = x] = [d EXCEPT !.state = x]
  BY <1>2, <1>3
<1>6. ASSUME NEW x
      PROVE  SettledCall([c EXCEPT !.decision = x]) = SettledCall([d EXCEPT !.decision = x])
  <2>1. /\ [c EXCEPT !.decision = x] = [id |-> c.id, state |-> c.state, decision |-> x]
        /\ [d EXCEPT !.decision = x] = [id |-> d.id, state |-> d.state, decision |-> x]
    BY <1>2
  <2> QED BY <1>1, <1>3, <2>1 DEF SettledCall
<1> QED BY <1>3, <1>4, <1>5, <1>6

\* One call of each memory is replaced, of r the first that has the ID.
LEMMA ReplacedAlike ==
  ASSUME NEW r \in Memory, NEW m \in Memory, Match(r, m),
         NEW l \in DOMAIN r.calls, NEW p \in DOMAIN m.calls,
         r.calls[l].id = m.calls[p].id, NEW c, NEW d, c.id = r.calls[l].id,
         d.id = m.calls[p].id,
         SettledCall(r.calls[p]) = SettledCall(m.calls[p]) =>
           (l = p => SettledCall(c) = SettledCall(d)),
         NEW r2, Replaced(r, r2, l, c), NEW m2, Replaced(m, m2, p, d)
  PROVE  Match(r2, m2)
<1>1. ASSUME NEW i \in DOMAIN m2.calls
      PROVE  r2.calls[i].id = m2.calls[i].id /\ m2.calls[i].id = m.calls[i].id
  BY <1>1 DEF Match, Replaced
<1>2. ASSUME NEW i \in Unique(m2)
      PROVE  SettledCall(r2.calls[i]) = SettledCall(m2.calls[i])
  <2>1. i \in Unique(m)
    BY <1>1, <1>2 DEF Unique, Replaced
  <2>2. SettledCall(r.calls[i]) = SettledCall(m.calls[i])
    BY <2>1 DEF Match
  <2>3. m.calls[l].id = r.calls[l].id /\ l \in DOMAIN m.calls
    BY DEF Match
  <2>4. CASE i = p
    <3>1. l = p
      BY <2>1, <2>3, <2>4 DEF Unique
    <3> QED BY <2>2, <2>4, <3>1 DEF Replaced
  <2>5. CASE i # p
    <3>1. i # l
      BY <2>1, <2>3, <2>5 DEF Unique
    <3> QED BY <2>1, <2>2, <2>5, <3>1 DEF Replaced, Unique, Match
  <2> QED BY <2>4, <2>5
<1> QED BY <1>1, <1>2 DEF Match, Replaced

\* So the runtime and recovery leave it.
LEMMA BothQueue ==
  ASSUME NEW m \in Memory, NEW e, e.kind = "queued", e.id \in Ids
  PROVE  Longer(m, e, Apply(m, e)) /\ Longer(m, e, Reduce(m, e))
<1>1. PICK n : n = Apply(m, e)
  OBVIOUS
<1>2. PICK x : x = Reduce(m, e)
  OBVIOUS
<1>3. n \in {Apply(m, e), Reduce(m, e)} /\ x \in {Apply(m, e), Reduce(m, e)}
  BY <1>1, <1>2
<1>4. Longer(m, e, n)
  BY <1>3, QueuedCall
<1>5. Longer(m, e, x)
  BY <1>3, QueuedCall
<1> QED BY <1>1, <1>2, <1>4, <1>5

\* What the replayed memory says of the calls stays right.
LEMMA Replaying ==
  ASSUME NEW r \in Memory, NEW m \in Memory, Match(r, m), NEW e \in Steps,
         e.kind \notin {"effect", "propose"},
         e.kind \in {"tool", "decision"} =>
           Place(m, e) \in DOMAIN m.calls /\ m.calls[Place(m, e)].id = e.id,
         e.kind = "decision" => e.call # Newest
  PROVE  Reduce(r, e) \in Memory /\ Match(Reduce(r, e), Apply(m, e))
<1>1. /\ StepOK(e) /\ e.kind \in Kinds /\ e.id \in Ids \cup {NoId}
      /\ Len(m.calls) \in Nat /\ DOMAIN m.calls = 1..Len(m.calls)
      /\ Len(r.calls) \in Nat /\ DOMAIN r.calls = 1..Len(r.calls)
      /\ DOMAIN r.calls = DOMAIN m.calls
  BY Calls DEF Steps, StepType, Match
<1>2. PICK n, x : n = Apply(m, e) /\ x = Reduce(r, e)
  OBVIOUS
<1>3. ASSUME e.kind \in {"tool", "decision"}
      PROVE  \E p \in DOMAIN m.calls, l \in DOMAIN r.calls :
               /\ p = Place(m, e) /\ m.calls[p].id = e.id
               /\ r.calls[l].id = e.id /\ Leader(r, l)
  <2>1. PICK p \in DOMAIN m.calls : p = Place(m, e) /\ m.calls[p].id = e.id
    BY <1>3
  <2>2. p \in DOMAIN r.calls /\ r.calls[p].id = e.id
    BY <1>1, <2>1 DEF Match
  <2>3. PICK l \in DOMAIN r.calls : r.calls[l].id = r.calls[p].id /\ Leader(r, l)
    BY <2>2, HasLeader
  <2> QED BY <2>1, <2>2, <2>3
<1>4. CASE e.kind = "tool"
  <2>1. PICK p \in DOMAIN m.calls, l \in DOMAIN r.calls :
          /\ p = Place(m, e) /\ m.calls[p].id = e.id
          /\ r.calls[l].id = e.id /\ Leader(r, l)
    BY <1>3, <1>4
  <2>2. e.to \in ToolStates
    BY <1>1, <1>4 DEF StepOK
  <2> DEFINE c == [r.calls[l] EXCEPT !.state = e.to]
             d == [m.calls[p] EXCEPT !.state = e.to]
  <2>3. Replaced(m, n, p, d)
    BY <1>2, <1>4, <2>1, <2>2, ApplyTool
  <2>4. x \in Memory /\ Replaced(r, x, l, c)
    BY <1>2, <1>4, <2>1, <2>2, ReduceTool
  <2>5. r.calls[l] \in Call /\ m.calls[p] \in Call
    BY Calls
  <2>6. c.id = r.calls[l].id /\ d.id = m.calls[p].id
    BY <2>5 DEF Call
  <2>7. SettledCall(r.calls[p]) = SettledCall(m.calls[p]) =>
          (l = p => SettledCall(c) = SettledCall(d))
    BY <2>5, SettledAlike
  <2> HIDE DEF c, d
  <2>8. Match(x, n)
    BY <2>1, <2>3, <2>4, <2>6, <2>7, ReplacedAlike
  <2> QED BY <1>2, <2>4, <2>8
<1>5. CASE e.kind = "decision"
  <2>1. PICK p \in DOMAIN m.calls, l \in DOMAIN r.calls :
          /\ p = Place(m, e) /\ m.calls[p].id = e.id
          /\ r.calls[l].id = e.id /\ Leader(r, l)
    BY <1>3, <1>5
  <2>2. e.to \in Decisions /\ p = e.call
    BY <1>1, <1>5, <2>1 DEF StepOK, Place
  <2> DEFINE c == [r.calls[l] EXCEPT !.decision = e.to]
             d == [m.calls[p] EXCEPT !.decision = e.to]
  <2>3. Replaced(m, n, p, d)
    BY <1>2, <1>5, <2>1, <2>2, ApplyDecision
  <2>4. x \in Memory /\ Replaced(r, x, l, c)
    BY <1>2, <1>5, <2>1, <2>2, ReduceDecision
  <2>5. r.calls[l] \in Call /\ m.calls[p] \in Call
    BY Calls
  <2>6. c.id = r.calls[l].id /\ d.id = m.calls[p].id
    BY <2>5 DEF Call
  <2>7. SettledCall(r.calls[p]) = SettledCall(m.calls[p]) =>
          (l = p => SettledCall(c) = SettledCall(d))
    BY <2>5, SettledAlike
  <2> HIDE DEF c, d
  <2>8. Match(x, n)
    BY <2>1, <2>3, <2>4, <2>6, <2>7, ReplacedAlike
  <2> QED BY <1>2, <2>4, <2>8
<1>6. CASE e.kind = "queued"
  <2>1. e.id \in Ids
    BY <1>1, <1>6 DEF StepOK
  <2>2. Longer(m, e, n)
    BY <1>2, <1>6, <2>1, BothQueue
  <2>3. Longer(r, e, x)
    BY <1>2, <1>6, <2>1, BothQueue
  <2>4. Len(r.calls) = Len(m.calls)
    BY <1>1
  <2>5. ASSUME NEW i \in DOMAIN n.calls PROVE x.calls[i].id = n.calls[i].id
    <3>1. i \in DOMAIN m.calls \/ i = Len(m.calls) + 1
      BY <1>1, <2>2 DEF Longer
    <3> QED BY <1>1, <2>2, <2>3, <2>4, <3>1 DEF Match, Longer
  <2>6. ASSUME NEW i \in Unique(n) PROVE SettledCall(x.calls[i]) = SettledCall(n.calls[i])
    <3>1. i \in DOMAIN n.calls /\ (i \in DOMAIN m.calls \/ i = Len(m.calls) + 1)
      BY <1>1, <2>2 DEF Unique, Longer
    <3>2. CASE i \in DOMAIN m.calls
      <4>1. i \in Unique(m)
        <5> SUFFICES ASSUME NEW j \in DOMAIN m.calls, m.calls[j].id = m.calls[i].id
                     PROVE  i = j
          BY <3>2 DEF Unique
        <5>1. j \in DOMAIN n.calls /\ n.calls[j].id = n.calls[i].id
          <6>1. n.calls[j] = m.calls[j] /\ n.calls[i] = m.calls[i] /\ j \in DOMAIN n.calls
            BY <2>2, <3>2 DEF Longer
          <6> QED BY <6>1
        <5> QED BY <2>6, <5>1 DEF Unique
      <4>2. SettledCall(r.calls[i]) = SettledCall(m.calls[i])
        BY <4>1 DEF Match
      <4> QED BY <1>1, <2>2, <2>3, <3>2, <4>2 DEF Longer
    <3>3. CASE i = Len(m.calls) + 1
      BY <2>2, <2>3, <2>4, <3>3 DEF Longer
    <3> QED BY <3>1, <3>2, <3>3
  <2>7. DOMAIN x.calls = DOMAIN n.calls
    BY <2>2, <2>3, <2>4 DEF Longer
  <2> QED BY <1>2, <2>2, <2>3, <2>5, <2>6, <2>7 DEF Match, Longer
<1>7. CASE e.kind = "message"
  <2>1. e.id \in Ids /\ n \in {Apply(m, e), Reduce(m, e)}
    BY <1>1, <1>2, <1>7 DEF StepOK
  <2>4. e.id \in Ids /\ x \in {Apply(r, e), Reduce(r, e)}
    BY <1>1, <1>2, <1>7 DEF StepOK
  <2>2. n.task = m.task /\ n.calls = m.calls /\ n.history = Append(m.history, e.id)
    <3>1. Answered(m, e, n)
      BY <1>7, <2>1, KeptAnswer
    <3> QED BY <3>1 DEF Answered
  <2>3. /\ x \in Memory /\ x.task = r.task /\ x.calls = r.calls
        /\ x.history = Append(r.history, e.id)
    <3>1. Answered(r, e, x)
      BY <1>7, <2>4, KeptAnswer
    <3> QED BY <3>1 DEF Answered
  <2>5. x.history = n.history /\ SettledTask(x.task) = SettledTask(n.task)
    BY <2>2, <2>3 DEF Match
  <2> QED BY <1>2, <2>2, <2>3, <2>5 DEF Match, Unique
<1>8. CASE e.kind = "state"
  <2>1. e.to \in TaskStates
    BY <1>1, <1>8 DEF StepOK
  <2>2. n.task = e.to /\ n.calls = m.calls /\ n.history = m.history
    BY <1>1, <1>2, <1>8, <2>1, NewState
  <2>3. x \in Memory /\ x.task = e.to /\ x.calls = r.calls /\ x.history = r.history
    BY <1>1, <1>2, <1>8, <2>1, NewState
  <2> QED BY <1>2, <2>2, <2>3 DEF Match, Unique
<1>9. CASE e.kind = "waiting"
  <2>1. e.to \in WaitingReasons /\ n \in {Apply(m, e), Reduce(m, e)}
        /\ x \in {Apply(r, e), Reduce(r, e)}
    BY <1>1, <1>2, <1>9 DEF StepOK
  <2>2. n.task = m.task /\ n.calls = m.calls /\ n.history = m.history
    BY <1>1, <1>9, <2>1, NewReason
  <2>3. x \in Memory /\ x.task = r.task /\ x.calls = r.calls /\ x.history = r.history
    BY <1>1, <1>9, <2>1, NewReason
  <2> QED BY <1>2, <2>2, <2>3 DEF Match, Unique
<1> QED BY <1>1, <1>4, <1>5, <1>6, <1>7, <1>8, <1>9 DEF Kinds

\* The replayed memory r becomes x by the record of the event e.
Redone(r, e, x) ==
  /\ x.task = IF e.kind = "state" THEN e.to ELSE r.task
  /\ e.kind # "waiting" => x.reason = r.reason
  /\ e.kind # "queued" => DOMAIN x.calls = DOMAIN r.calls
  /\ \A i \in DOMAIN r.calls :
       /\ i \in DOMAIN x.calls /\ x.calls[i].id = r.calls[i].id
       /\ IF e.kind = "tool" /\ r.calls[i].id = e.id /\ Leader(r, i)
          THEN x.calls[i].state = e.to
          ELSE x.calls[i].state = r.calls[i].state

\* There is one first call with an ID.
LEMMA OneLeader ==
  ASSUME NEW m \in Memory, NEW i \in DOMAIN m.calls, NEW j \in DOMAIN m.calls,
         m.calls[i].id = m.calls[j].id, Leader(m, i), Leader(m, j)
  PROVE  i = j
<1>1. i <= j /\ j <= i /\ i \in Nat /\ j \in Nat
  BY Calls DEF Leader
<1> QED BY <1>1

\* Recovery does what the record says to the first call with its ID.
LEMMA Reduced ==
  ASSUME NEW r \in Memory, NEW e \in Steps, e.kind \notin {"effect", "propose"},
         e.kind \in {"tool", "decision"} => \E k \in DOMAIN r.calls : r.calls[k].id = e.id
  PROVE  Redone(r, e, Reduce(r, e))
<1>1. /\ StepOK(e) /\ e.kind \in Kinds /\ e.id \in Ids \cup {NoId}
      /\ Len(r.calls) \in Nat /\ DOMAIN r.calls = 1..Len(r.calls)
  BY Calls DEF Steps, StepType
<1>2. PICK x : x = Reduce(r, e)
  OBVIOUS
<1>3. ASSUME e.kind \in {"tool", "decision"}
      PROVE  \E l \in DOMAIN r.calls : r.calls[l].id = e.id /\ Leader(r, l)
  <2>1. PICK k \in DOMAIN r.calls : r.calls[k].id = e.id
    BY <1>3
  <2>2. PICK l \in DOMAIN r.calls : r.calls[l].id = r.calls[k].id /\ Leader(r, l)
    BY HasLeader
  <2> QED BY <2>1, <2>2
<1>4. CASE e.kind = "tool"
  <2>1. PICK l \in DOMAIN r.calls : r.calls[l].id = e.id /\ Leader(r, l)
    BY <1>3, <1>4
  <2>2. e.to \in ToolStates
    BY <1>1, <1>4 DEF StepOK
  <2> DEFINE c == [r.calls[l] EXCEPT !.state = e.to]
  <2>3. x \in Memory /\ Replaced(r, x, l, c)
    BY <1>2, <1>4, <2>1, <2>2, ReduceTool
  <2>4. c.id = r.calls[l].id /\ c.state = e.to
    <3>1. r.calls[l] \in Call
      BY Calls
    <3> QED BY <3>1 DEF Call
  <2> HIDE DEF c
  <2>5. ASSUME NEW i \in DOMAIN r.calls
        PROVE  /\ i \in DOMAIN x.calls /\ x.calls[i].id = r.calls[i].id
               /\ IF r.calls[i].id = e.id /\ Leader(r, i) THEN x.calls[i].state = e.to
                  ELSE x.calls[i].state = r.calls[i].state
    <3>1. CASE i = l
      BY <2>1, <2>3, <2>4, <3>1 DEF Replaced
    <3>2. CASE i # l
      <4>1. ~(r.calls[i].id = e.id /\ Leader(r, i))
        BY <2>1, <3>2, OneLeader
      <4> QED BY <2>3, <3>2, <4>1 DEF Replaced
    <3> QED BY <3>1, <3>2
  <2> QED BY <1>2, <1>4, <2>3, <2>5 DEF Replaced, Redone
<1>5. CASE e.kind = "decision"
  <2>1. PICK l \in DOMAIN r.calls : r.calls[l].id = e.id /\ Leader(r, l)
    BY <1>3, <1>5
  <2>2. e.to \in Decisions
    BY <1>1, <1>5 DEF StepOK
  <2> DEFINE c == [r.calls[l] EXCEPT !.decision = e.to]
  <2>3. x \in Memory /\ Replaced(r, x, l, c)
    BY <1>2, <1>5, <2>1, <2>2, ReduceDecision
  <2>4. c.id = r.calls[l].id /\ c.state = r.calls[l].state
    <3>1. r.calls[l] \in Call
      BY Calls
    <3> QED BY <3>1 DEF Call
  <2> HIDE DEF c
  <2>5. ASSUME NEW i \in DOMAIN r.calls
        PROVE  /\ i \in DOMAIN x.calls /\ x.calls[i].id = r.calls[i].id
               /\ x.calls[i].state = r.calls[i].state
    BY <2>3, <2>4 DEF Replaced
  <2> QED BY <1>2, <1>5, <2>3, <2>5 DEF Replaced, Redone
<1>6. CASE e.kind = "queued"
  <2>1. e.id \in Ids
    BY <1>1, <1>6 DEF StepOK
  <2>2. Longer(r, e, x)
    BY <1>2, <1>6, <2>1, BothQueue
  <2>3. x.reason = r.reason
    BY <1>2, <1>6 DEF Reduce, Memory
  <2>4. \A i \in DOMAIN r.calls : i \in DOMAIN x.calls /\ x.calls[i] = r.calls[i]
    BY <1>1, <2>2 DEF Longer
  <2> QED BY <1>2, <1>6, <2>2, <2>3, <2>4 DEF Longer, Redone
<1>7. CASE e.kind = "message"
  <2>1. e.id \in Ids /\ x \in {Apply(r, e), Reduce(r, e)}
    BY <1>1, <1>2, <1>7 DEF StepOK
  <2>2. x.task = r.task /\ x.calls = r.calls /\ x.reason = r.reason
    <3>1. Answered(r, e, x)
      BY <1>7, <2>1, KeptAnswer
    <3> QED BY <3>1 DEF Answered
  <2> QED BY <1>2, <1>7, <2>2 DEF Redone
<1>8. CASE e.kind = "state"
  <2>1. e.to \in TaskStates
    BY <1>1, <1>8 DEF StepOK
  <2>2. x.task = e.to /\ x.calls = r.calls /\ x.reason = r.reason
    BY <1>1, <1>2, <1>8, <2>1, NewState
  <2> QED BY <1>2, <1>8, <2>2 DEF Redone
<1>9. CASE e.kind = "waiting"
  <2>1. e.to \in WaitingReasons /\ x \in {Apply(r, e), Reduce(r, e)}
    BY <1>1, <1>2, <1>9 DEF StepOK
  <2>2. x.task = r.task /\ x.calls = r.calls
    BY <1>1, <1>9, <2>1, NewReason
  <2> QED BY <1>2, <1>9, <2>2 DEF Redone
<1> QED BY <1>1, <1>4, <1>5, <1>6, <1>7, <1>8, <1>9 DEF Kinds

\* The first calls are the same in both memories.
LEMMA LeadersMatch ==
  ASSUME NEW r, NEW m, Match(r, m), NEW i \in DOMAIN m.calls
  PROVE  i \in DOMAIN r.calls /\ r.calls[i].id = m.calls[i].id /\ (Leader(r, i) <=> Leader(m, i))
BY DEF Match, Leader

\* A task that a restart does not make unknown is replayed as it was.
LEMMA SameTask ==
  ASSUME NEW r, NEW m, Match(r, m), r.task \in TaskWaiting \cup {"Idle"}
  PROVE  m.task = r.task
BY DEF Match, SettledTask, TaskWaiting

\* Calls that are the same but for running ones are spent and closed alike.
LEMMA SameSpent ==
  ASSUME NEW r \in Memory, NEW m \in Memory, SameCalls(r, m), NEW s
  PROVE  (AllSpent(m, s) <=> AllSpent(r, s)) /\ (LaterClosed(m) <=> LaterClosed(r))
<1>1. DOMAIN r.calls = DOMAIN m.calls
  BY DEF SameCalls
<1>2. ASSUME NEW i \in DOMAIN m.calls
      PROVE  /\ r.calls[i].id = m.calls[i].id
             /\ r.calls[i].state \in Spent <=> m.calls[i].state \in Spent
             /\ r.calls[i].state \in Closed <=> m.calls[i].state \in Closed
  <2>1. r.calls[i] \in Call /\ m.calls[i] \in Call
    BY <1>1, Calls
  <2>2. SettledCall(r.calls[i]) = SettledCall(m.calls[i])
    BY DEF SameCalls
  <2> QED BY <2>1, <2>2, SettledAlike
<1>3. AllSpent(m, s) <=> AllSpent(r, s)
  BY <1>1, <1>2 DEF AllSpent
<1>4. LaterClosed(m) <=> LaterClosed(r)
  BY <1>1, <1>2 DEF LaterClosed
<1> QED BY <1>3, <1>4

\* What the record says of the calls of a task that may go on.
LEMMA LiveDisk ==
  ASSUME NEW r \in Memory, NEW m \in Memory, NEW s, NEW q, NEW t, Match(r, m),
         Plan(m, s, q), Rest(q, t), q[1] \in Steps,
         q[1].kind \notin {"effect", "propose", "state"}, NEW x, Redone(r, q[1], x),
         r.task \in TaskWaiting \cup {"Idle"}, LaterClosed(r), AllSpent(r, s)
  PROVE  LaterClosed(x) /\ AllSpent(x, s)
<1> DEFINE e == q[1]
<1>1. 1 \in DOMAIN q /\ StepOK(e)
  BY DEF Rest, Steps
<1>2. m.task = r.task /\ m.task # "Running" /\ m.task # "Cancelling"
  BY SameTask DEF TaskWaiting
<1>3. e.kind # "queued" /\ ~FailsNewest(e)
  BY <1>1, <1>2 DEF Plan, Queueing, IsQueued
<1>4. ASSUME e.kind = "tool"
      PROVE  /\ e.call \in DOMAIN r.calls /\ r.calls[e.call].id = e.id /\ Leader(r, e.call)
             /\ e.to \in {"AwaitingApproval", "Approved"} => NotStarted(s, e)
  <2>1. e.call # Newest
    BY <1>3, <1>4 DEF FailsNewest
  <2>2. e.call \in DOMAIN m.calls /\ m.calls[e.call].id = e.id /\ Leader(m, e.call)
    <3>1. Place(m, e) = e.call
      BY <2>1 DEF Place
    <3> QED BY <1>2, <1>4, <2>1, <3>1, NextCall
  <2>3. e.to \in {"AwaitingApproval", "Approved"} => NotStarted(s, e)
    BY <1>1, <1>4 DEF Plan, Targets
  <2> QED BY <2>2, <2>3, LeadersMatch
<1>5. DOMAIN x.calls = DOMAIN r.calls
  BY <1>3 DEF Redone
<1>6. LaterClosed(x)
  <2> SUFFICES ASSUME NEW i \in DOMAIN r.calls, NEW j \in DOMAIN r.calls, i < j,
                      x.calls[i].id = x.calls[j].id
               PROVE  x.calls[j].state \in Closed
    BY <1>5 DEF LaterClosed
  <2>1. r.calls[i].id = r.calls[j].id
    BY DEF Redone
  <2>2. ~Leader(r, j)
    <3>1. i \in Nat /\ j \in Nat
      BY Calls
    <3> QED BY <2>1, <3>1 DEF Leader
  <2>3. x.calls[j].state = r.calls[j].state
    BY <2>2 DEF Redone
  <2> QED BY <2>1, <2>3 DEF LaterClosed
<1>7. AllSpent(x, s)
  <2> SUFFICES ASSUME NEW i \in DOMAIN s, s[i] >= 1
               PROVE  i \in DOMAIN x.calls /\ x.calls[i].state \in Spent
    BY DEF AllSpent
  <2>1. i \in DOMAIN r.calls /\ r.calls[i].state \in Spent
    BY DEF AllSpent
  <2>2. CASE e.kind = "tool" /\ r.calls[i].id = e.id /\ Leader(r, i)
    <3>1. x.calls[i].state = e.to
      BY <2>1, <2>2 DEF Redone
    <3>2. i = e.call
      BY <1>4, <2>1, <2>2, OneLeader
    <3>3. e.to \notin {"AwaitingApproval", "Approved"}
      BY <1>4, <2>2, <3>2 DEF NotStarted
    <3>4. e.to \in ToolStates \ {"Proposed"}
      BY <1>1, <2>2 DEF StepOK
    <3> QED BY <1>5, <2>1, <3>1, <3>3, <3>4 DEF ToolStates, Spent, Closed, ToolTerminal
  <2>3. CASE ~(e.kind = "tool" /\ r.calls[i].id = e.id /\ Leader(r, i))
    <3>1. x.calls[i].state = r.calls[i].state
      BY <2>1, <2>3 DEF Redone
    <3> QED BY <1>5, <2>1, <3>1
  <2> QED BY <2>2, <2>3
<1> QED BY <1>6, <1>7

\* What the files hold stays right when the next event is recorded.
LEMMA DiskRest ==
  ASSUME NEW r \in Memory, NEW m \in Memory, NEW s, NEW q, NEW t, DiskFits(r, m, s),
         Plan(m, s, q), Rest(q, t), q[1] \in Steps,
         q[1].kind \notin {"effect", "propose"}, Fits(m, s, q),
         m.task \in Live => SameCalls(r, m) \/ Misapplied(m, q),
         IsState(q[1], TaskWaiting) => r.reason = NoReason,
         NEW x, x = Reduce(r, q[1]), NEW n, n = Apply(m, q[1])
  PROVE  x \in Memory /\ Redone(r, q[1], x) /\ DiskFits(x, n, s)
<1> DEFINE e == q[1]
<1>1. /\ 1 \in DOMAIN q /\ q # <<>> /\ StepOK(e) /\ Match(r, m)
      /\ e.kind \in Kinds /\ e.id \in Ids \cup {NoId}
  BY DEF Rest, Steps, StepType, DiskFits
<1>2. e.kind \in {"tool", "decision"} =>
        Place(m, e) \in DOMAIN m.calls /\ m.calls[Place(m, e)].id = e.id
  BY NextCall
<1>3. e.kind = "decision" => e.call # Newest
  BY NextCall
<1>4. x \in Memory /\ Match(x, n)
  BY <1>1, <1>2, <1>3, Replaying
<1>5. n \in Memory /\ Done(m, e, n)
  BY <1>2, <1>3, Emitted
<1>6. Redone(r, e, x)
  <2>1. ASSUME e.kind \in {"tool", "decision"}
        PROVE  \E k \in DOMAIN r.calls : r.calls[k].id = e.id
    <3>1. PICK p : p = Place(m, e)
      OBVIOUS
    <3>2. p \in DOMAIN m.calls /\ m.calls[p].id = e.id
      BY <1>2, <2>1, <3>1
    <3>3. p \in DOMAIN r.calls /\ r.calls[p].id = e.id
      BY <1>1, <3>2, LeadersMatch
    <3> QED BY <3>3
  <2> QED BY <2>1, Reduced
<1>7. CASE e.kind = "state"
  <2>1. x.task = e.to /\ e.to # "Idle" /\ x.reason = r.reason /\ x.calls = r.calls
    <3>1. e.to \in TaskStates \ {"Idle"}
      BY <1>1, <1>7 DEF StepOK
    <3> QED BY <1>1, <1>7, <3>1, NewState
  <2>2. ASSUME x.task \in TaskWaiting \cup {"Idle"} PROVE LaterClosed(x) /\ AllSpent(x, s)
    <3>1. IsState(e, TaskWaiting)
      BY <1>7, <2>1, <2>2 DEF IsState
    <3>2. m.task = "Running"
      BY <1>1, <3>1 DEF Plan, Turns
    <3>3. AllSpent(m, s) /\ LaterClosed(m)
      <4>1. AllSpent(m, s) /\ MostlyClosed(m, q)
        BY <3>2 DEF Fits, Live
      <4>2. ~NewestFails(q)
        BY <1>7 DEF NewestFails, FailsNewest
      <4> QED BY <4>1, <4>2 DEF MostlyClosed, LaterClosed
    <3>4. ~Misapplied(m, q)
      BY <1>1, <3>1 DEF Misapplied, IsState, TaskWaiting
    <3>5. SameCalls(r, m)
      BY <3>2, <3>4 DEF Live
    <3>6. AllSpent(r, s) /\ LaterClosed(r)
      BY <3>3, <3>5, SameSpent
    <3> QED BY <2>1, <3>6 DEF AllSpent, LaterClosed
  <2>3. ASSUME x.task \in TaskWaiting PROVE x.reason \in {NoReason, n.reason}
    BY <1>7, <2>1, <2>3 DEF IsState
  <2> QED BY <1>4, <1>6, <2>2, <2>3 DEF DiskFits
<1>8. CASE e.kind # "state"
  <2>1. x.task = r.task
    BY <1>6, <1>8 DEF Redone
  <2>2. ASSUME x.task \in TaskWaiting \cup {"Idle"} PROVE LaterClosed(x) /\ AllSpent(x, s)
    <3>1. LaterClosed(r) /\ AllSpent(r, s)
      BY <2>1, <2>2 DEF DiskFits
    <3> QED BY <1>1, <1>6, <1>8, <2>1, <2>2, <3>1, LiveDisk
  <2>3. ASSUME x.task \in TaskWaiting PROVE x.reason \in {NoReason, n.reason}
    <3>1. r.reason \in {NoReason, m.reason}
      BY <2>1, <2>3 DEF DiskFits
    <3>2. CASE e.kind = "waiting"
      <4>1. e.to \in WaitingReasons
        BY <1>1, <3>2 DEF StepOK
      <4>2. x.reason = Reason(e.to, e.id)
        <5>1. x \in {Apply(r, e), Reduce(r, e)}
          OBVIOUS
        <5> QED BY <1>1, <3>2, <4>1, <5>1, NewReason
      <4>3. n.reason = Reason(e.to, e.id)
        <5>1. n \in {Apply(m, e), Reduce(m, e)}
          OBVIOUS
        <5> QED BY <1>1, <3>2, <4>1, <5>1, NewReason
      <4> QED BY <4>2, <4>3
    <3>3. CASE e.kind # "waiting"
      BY <1>5, <1>6, <1>8, <3>1, <3>3 DEF Redone, Done
    <3> QED BY <3>2, <3>3
  <2> QED BY <1>4, <1>6, <2>2, <2>3 DEF DiskFits
<1> QED BY <1>7, <1>8

\* The calls stay the same, or the record is about another call of the same ID.
LEMMA SameRest ==
  ASSUME NEW r \in Memory, NEW m \in Memory, NEW s, NEW q, NEW t, Match(r, m),
         Plan(m, s, q), Rest(q, t), q[1] \in Steps,
         q[1].kind \notin {"effect", "propose"}, m.task \in Live, SameCalls(r, m),
         NEW x, x = Reduce(r, q[1]), NEW n, n = Apply(m, q[1]), Done(m, q[1], n)
  PROVE  SameCalls(x, n) \/ (Misapplied(n, t) /\ q[1].kind = "tool" /\ q[1].to = "Failed")
<1> DEFINE e == q[1]
<1>1. /\ 1 \in DOMAIN q /\ q # <<>> /\ StepOK(e)
      /\ e.kind \in Kinds /\ e.id \in Ids \cup {NoId}
      /\ Len(r.calls) \in Nat /\ DOMAIN r.calls = 1..Len(r.calls)
      /\ Len(m.calls) \in Nat /\ DOMAIN m.calls = 1..Len(m.calls)
      /\ DOMAIN r.calls = DOMAIN m.calls
  BY Calls DEF Rest, Steps, StepType, Match
<1>2. ASSUME e.kind \in {"tool", "decision"}, e.call # Newest
      PROVE  /\ e.call \in DOMAIN m.calls /\ m.calls[e.call].id = e.id /\ e.call = Place(m, e)
             /\ e.call \in DOMAIN r.calls /\ r.calls[e.call].id = e.id /\ Leader(r, e.call)
  <2>1. Place(m, e) = e.call /\ m.task # "Cancelling"
    BY <1>2 DEF Place, Live, TaskWaiting
  <2>2. e.call \in DOMAIN m.calls /\ m.calls[e.call].id = e.id /\ Leader(m, e.call)
    BY <1>2, <2>1, NextCall
  <2> QED BY <2>1, <2>2, LeadersMatch
<1>3. CASE e.kind = "tool" /\ e.call # Newest
  <2>1. PICK p : p = e.call
    OBVIOUS
  <2>2. /\ p \in DOMAIN m.calls /\ p \in DOMAIN r.calls /\ p = Place(m, e)
        /\ r.calls[p].id = e.id /\ Leader(r, p) /\ e.to \in ToolStates
    BY <1>1, <1>2, <1>3, <2>1 DEF StepOK
  <2> DEFINE c == [r.calls[p] EXCEPT !.state = e.to]
             d == [m.calls[p] EXCEPT !.state = e.to]
  <2>3. Replaced(m, n, p, d)
    BY <1>3, <2>2, ApplyTool
  <2>4. Replaced(r, x, p, c)
    BY <1>3, <2>2, ReduceTool
  <2>5. c = d
    <3>1. r.calls[p] \in Call /\ m.calls[p] \in Call
      BY <2>2, Calls
    <3>2. SettledCall(r.calls[p]) = SettledCall(m.calls[p])
      BY <2>2 DEF SameCalls
    <3>3. \A y : [r.calls[p] EXCEPT !.state = y] = [m.calls[p] EXCEPT !.state = y]
      BY <3>1, <3>2, SettledAlike
    <3> QED BY <3>3
  <2> HIDE DEF c, d
  <2>6. x.calls[p] = n.calls[p] /\ DOMAIN x.calls = DOMAIN n.calls
        /\ DOMAIN n.calls = DOMAIN m.calls
    BY <1>1, <2>3, <2>4, <2>5 DEF Replaced
  <2>7. ASSUME NEW i \in DOMAIN n.calls PROVE SettledCall(x.calls[i]) = SettledCall(n.calls[i])
    <3>1. CASE i = p
      BY <2>6, <3>1
    <3>2. CASE i # p
      <4>1. x.calls[i] = r.calls[i] /\ n.calls[i] = m.calls[i] /\ i \in DOMAIN m.calls
        BY <1>1, <2>3, <2>4, <2>6, <3>2 DEF Replaced
      <4> QED BY <4>1 DEF SameCalls
    <3> QED BY <3>1, <3>2
  <2> QED BY <2>6, <2>7 DEF SameCalls
<1>4. CASE e.kind = "tool" /\ e.call = Newest
  <2>1. e.to = "Failed"
    BY <1>1, <1>4 DEF Plan, Queueing, FailsNewest
  <2>2. n.task = "Running"
    BY <1>1, <1>4 DEF Plan, Queueing, FailsNewest, Done
  <2>3. ASSUME NEW k \in DOMAIN t
        PROVE  t[k].kind \in {"queued", "tool", "message"}
    <3>1. k + 1 \in DOMAIN q /\ t[k] = q[k + 1]
      BY DEF Rest
    <3> QED BY <1>1, <1>4, <3>1 DEF Plan, Queueing, FailsNewest, IsQueued
  <2>4. Misapplied(n, t)
    BY <2>2, <2>3 DEF Misapplied
  <2> QED BY <1>4, <2>1, <2>4
<1>5. CASE e.kind = "decision"
  <2>1. PICK p : p = e.call
    OBVIOUS
  <2>2. /\ p \in DOMAIN m.calls /\ p \in DOMAIN r.calls
        /\ r.calls[p].id = e.id /\ Leader(r, p) /\ e.to \in Decisions
    BY <1>1, <1>2, <1>5, <2>1, NextCall DEF StepOK
  <2> DEFINE c == [r.calls[p] EXCEPT !.decision = e.to]
             d == [m.calls[p] EXCEPT !.decision = e.to]
  <2>3. Replaced(m, n, p, d)
    BY <1>5, <2>1, <2>2, ApplyDecision
  <2>4. Replaced(r, x, p, c)
    BY <1>5, <2>2, ReduceDecision
  <2>5. SettledCall(c) = SettledCall(d)
    <3>1. r.calls[p] \in Call /\ m.calls[p] \in Call
      BY <2>2, Calls
    <3>2. SettledCall(r.calls[p]) = SettledCall(m.calls[p])
      BY <2>2 DEF SameCalls
    <3>3. \A y : SettledCall([r.calls[p] EXCEPT !.decision = y])
                 = SettledCall([m.calls[p] EXCEPT !.decision = y])
      BY <3>1, <3>2, SettledAlike
    <3> QED BY <3>3
  <2> HIDE DEF c, d
  <2> QED BY <1>1, <2>2, <2>3, <2>4, <2>5 DEF Replaced, SameCalls
<1>6. CASE e.kind = "queued"
  <2>1. e.id \in Ids
    BY <1>1, <1>6 DEF StepOK
  <2>2. Longer(m, e, n) /\ Longer(r, e, x)
    BY <1>6, <2>1, BothQueue
  <2>3. Len(r.calls) = Len(m.calls)
    BY <1>1
  <2>4. ASSUME NEW i \in DOMAIN n.calls PROVE SettledCall(x.calls[i]) = SettledCall(n.calls[i])
    <3>1. CASE i \in DOMAIN m.calls
      BY <1>1, <2>2, <3>1 DEF Longer, SameCalls
    <3>2. CASE i \notin DOMAIN m.calls
      <4>1. i = Len(m.calls) + 1
        BY <1>1, <2>2, <3>2 DEF Longer
      <4> QED BY <2>2, <2>3, <4>1 DEF Longer
    <3> QED BY <3>1, <3>2
  <2> QED BY <2>2, <2>3, <2>4 DEF Longer, SameCalls
<1>7. CASE e.kind \in {"message", "state", "waiting"}
  <2>1. n.calls = m.calls
    BY <1>7 DEF Apply, Memory
  <2>2. x.calls = r.calls
    BY <1>7 DEF Reduce, Memory
  <2> QED BY <2>1, <2>2 DEF SameCalls
<1> QED BY <1>1, <1>3, <1>4, <1>5, <1>6, <1>7 DEF Kinds

----------------------------------------------------------------------------
(* Every step keeps the invariant *)

\* The journal as a sequence.
LEMMA LogFits ==
  ASSUME Gapless
  PROVE  Len(log) \in Nat /\ DOMAIN log = 1..Len(log)
<1>1. PICK S : log \in Seq(S)
  BY DEF Gapless
<1> QED BY <1>1, LenProperties

\* One more record.
LEMMA LogNext ==
  ASSUME Gapless, TypeOK, NEW x, log' = Append(log, x), snap' = snap
  PROVE  Len(log') = Len(log) + 1 /\ Replay' = Reduce(Replay, x.event)
<1>1. PICK S : log \in Seq(S)
  BY DEF Gapless
<1>2. log \in Seq(S \cup {x})
  BY <1>1, SeqMonotonic
<1>3. /\ log' \in Seq(S \cup {x}) /\ Len(log') = Len(log) + 1
      /\ \A k \in 1..Len(log) : log'[k] = log[k]
      /\ log'[Len(log) + 1] = x
  BY <1>2, AppendProperties
<1>4. Len(log) \in Nat /\ DOMAIN log = 1..Len(log) /\ DOMAIN log' = 1..Len(log')
  BY <1>1, <1>3, LenProperties
<1>5. log'[Len(log) + 1].event = x.event /\ snap.last \in 0..Len(log)
  BY <1>3 DEF TypeOK
<1> QED BY <1>3, <1>4, <1>5, ReplayNext

\* What emitting an event does to the process.
LEMMA EmitMemory ==
  ASSUME IInv, Emit
  PROVE  /\ Rest(todo, todo') /\ todo[1] \in Steps /\ todo' \in Seq(Steps)
         /\ todo[1].kind \notin {"effect", "propose"} /\ Head(todo) = todo[1]
         /\ mem' \in Memory /\ mem' = Apply(mem, todo[1]) /\ Done(mem, todo[1], mem')
         /\ MemInv'
<1>1. /\ todo \in Seq(Steps) /\ todo # <<>> /\ todo' = Tail(todo) /\ mem \in Memory
      /\ up /\ ~saving /\ effect = {}
  BY DEF IInv, TypeOK, Emit, MemInv
<1>2. todo' \in Seq(Steps) /\ Rest(todo, todo') /\ Head(todo) = todo[1] /\ todo[1] \in Steps
  BY <1>1, TailIsRest
<1>3. todo[1].kind \notin {"effect", "propose"} /\ mem' = Apply(mem, todo[1])
  BY <1>2 DEF Emit
<1>4. PICK m, n, s, q, t : m = mem /\ n = mem' /\ s = starts /\ q = todo /\ t = todo'
  OBVIOUS
<1>5. /\ Plan(m, s, q) /\ Fits(m, s, q) /\ Looping(m, {}, pc, q) /\ m \in Memory
      /\ Rest(q, t) /\ q[1] \in Steps /\ q[1].kind \notin {"effect", "propose"}
      /\ n = Apply(m, q[1])
  BY <1>1, <1>2, <1>3, <1>4 DEF IInv, MemInv
<1>6. /\ q[1].kind \in {"tool", "decision"} => Place(m, q[1]) \in DOMAIN m.calls
      /\ q[1].kind = "decision" => q[1].call # Newest
  BY <1>5, NextCall
<1>7. n \in Memory /\ Done(m, q[1], n)
  BY <1>5, <1>6, Emitted
<1>8. Plan(n, s, t)
  BY <1>5, <1>7, PlanRest
<1>9. Fits(n, s, t)
  BY <1>5, <1>7, FitsRest
<1>10. Looping(n, {}, pc, t)
  BY <1>5, <1>7, LoopingRest
<1>11. Proposing(n, s, {}, proposals)
  <2>1. Proposing(m, s, {}, proposals)
    BY <1>1, <1>4 DEF IInv, MemInv
  <2> QED BY <1>5, <1>7, <2>1, StillLeader DEF Proposing
<1>12. /\ starts' = starts /\ effect' = {} /\ proposals' = proposals /\ pc' = pc
       /\ up' = up
  BY <1>1 DEF Emit
<1>13. MemInv'
  <2>1. AtMostOnce'
    BY <1>12 DEF IInv, MemInv, AtMostOnce
  <2>2. Fits(mem', starts', todo') /\ Plan(mem', starts', todo')
        /\ Looping(mem', effect', pc', todo') /\ Proposing(mem', starts', effect', proposals')
    BY <1>4, <1>8, <1>9, <1>10, <1>11, <1>12
  <2>3. Executing(mem', effect', Replay', snap'.mem.task)
    BY <1>12 DEF Executing
  <2> QED BY <1>1, <1>12, <2>1, <2>2, <2>3 DEF MemInv
<1> QED BY <1>2, <1>3, <1>4, <1>7, <1>13

\* An event that the journal takes.
LEMMA EmitLogged ==
  ASSUME IInv, Emit, NoGap, log' = Append(log, [n |-> emitted',
                                         event |-> [Head(todo) EXCEPT !.call = 0]]),
         durable' = mem'
  PROVE  /\ Len(log') = emitted' /\ Replay' \in Memory
         /\ Redone(Replay, todo[1], Replay') /\ DiskFits(Replay', mem', starts)
         /\ mem'.task \in Live =>
              \/ SameCalls(Replay', mem')
              \/ /\ Misapplied(mem', todo')
                 /\ failed \/ (todo[1].kind = "tool" /\ todo[1].to = "Failed")
<1>1. /\ Rest(todo, todo') /\ todo[1] \in Steps
      /\ todo[1].kind \notin {"effect", "propose"} /\ Head(todo) = todo[1]
      /\ mem' \in Memory /\ mem' = Apply(mem, todo[1]) /\ Done(mem, todo[1], mem')
  BY EmitMemory
<1>2. PICK e : e = todo[1]
  OBVIOUS
<1>3. PICK rec : rec = [n |-> emitted', event |-> [e EXCEPT !.call = 0]]
  OBVIOUS
<1>4. Len(log') = Len(log) + 1 /\ Replay' = Reduce(Replay, e)
  <2>1. Gapless /\ TypeOK /\ log' = Append(log, rec) /\ snap' = snap
    BY <1>1, <1>2, <1>3 DEF IInv, Emit
  <2>2. Len(log') = Len(log) + 1 /\ Replay' = Reduce(Replay, rec.event)
    BY <2>1, LogNext
  <2>3. rec.event = [e EXCEPT !.call = 0] /\ e \in StepType
    BY <1>1, <1>2, <1>3 DEF Steps
  <2> QED BY <2>2, <2>3, Recorded
<1>5. Len(log') = emitted'
  BY <1>4 DEF NoGap, Emit
<1>6. PICK m, n, s, q, t, r, x :
        /\ m = mem /\ n = mem' /\ s = starts /\ q = todo /\ t = todo'
        /\ r = Replay /\ x = Replay'
  OBVIOUS
<1>7. /\ m \in Memory /\ r \in Memory /\ Plan(m, s, q) /\ Fits(m, s, q) /\ DiskFits(r, m, s)
      /\ Rest(q, t) /\ q[1] \in Steps /\ q[1].kind \notin {"effect", "propose"}
      /\ n = Apply(m, q[1]) /\ x = Reduce(r, q[1]) /\ Done(m, q[1], n)
  BY <1>1, <1>2, <1>4, <1>6 DEF IInv, TypeOK, MemInv, SyncInv, Emit
<1>8. /\ m.task \in Live => SameCalls(r, m) \/ (failed /\ Misapplied(m, q))
      /\ IsState(q[1], TaskWaiting) => r.reason = NoReason
  <2>1. 1 \in DOMAIN todo
    BY <1>1 DEF Rest
  <2> QED BY <1>6, <2>1 DEF IInv, SyncInv, Emit
<1>9. x \in Memory /\ Redone(r, q[1], x) /\ DiskFits(x, n, s)
  BY <1>7, <1>8, DiskRest
<1>10. ASSUME n.task \in Live
       PROVE  \/ SameCalls(x, n)
              \/ /\ Misapplied(n, t)
                 /\ failed \/ (q[1].kind = "tool" /\ q[1].to = "Failed")
  <2>1. m.task \in Live
    BY <1>7, <1>10, WasLive
  <2>2. CASE SameCalls(r, m)
    <3>1. Match(r, m)
      BY <1>7 DEF DiskFits
    <3> QED BY <1>7, <2>1, <2>2, <3>1, SameRest
  <2>3. CASE failed /\ Misapplied(m, q)
    <3>1. 1 \in DOMAIN q
      BY <1>7 DEF Rest
    <3>2. n.task = "Running"
      <4>1. CASE q[1].kind = "state"
        <5>1. q[1].to \in {"Cancelling", "Cancelled", "Unknown"} /\ n.task = q[1].to
          BY <1>7, <2>3, <3>1, <4>1 DEF Misapplied, Done
        <5> QED BY <1>10, <5>1 DEF Live, TaskWaiting
      <4>2. CASE q[1].kind # "state"
        BY <1>7, <2>3, <4>2 DEF Misapplied, Done
      <4> QED BY <4>1, <4>2
    <3>3. \A k \in DOMAIN t : k + 1 \in DOMAIN q /\ t[k] = q[k + 1]
      BY <1>7 DEF Rest
    <3>4. Misapplied(n, t)
      BY <2>3, <3>2, <3>3 DEF Misapplied
    <3> QED BY <2>3, <3>4
  <2> QED BY <1>8, <2>1, <2>2, <2>3
<1> QED BY <1>5, <1>6, <1>9, <1>10

\* Emitting an event keeps the invariant, whatever becomes of its record.
LEMMA EmitKeeps ==
  ASSUME IInv, Emit
  PROVE  TypeOK' /\ DiskFits(Replay', durable', starts') /\ MemInv' /\ SyncInv'
<1>1. /\ Rest(todo, todo') /\ todo[1] \in Steps /\ todo' \in Seq(Steps)
      /\ todo[1].kind \notin {"effect", "propose"} /\ Head(todo) = todo[1]
      /\ mem' \in Memory /\ mem' = Apply(mem, todo[1]) /\ Done(mem, todo[1], mem') /\ MemInv'
  BY EmitMemory
<1>2. PICK outcome \in Outcomes :
        /\ failed' = (failed \/ outcome # "ok")
        /\ IF outcome \in {"ok", "after"}
           THEN /\ log' = Append(log, [n |-> emitted',
                                       event |-> [Head(todo) EXCEPT !.call = 0]])
                /\ durable' = mem'
           ELSE UNCHANGED <<log, durable>>
        /\ saving' = (outcome = "ok" /\ Critical(Head(todo)))
  BY Zenon DEF Emit
<1>3. /\ emitted' = emitted + 1 /\ emitted \in Nat /\ Len(log) \in Nat /\ Len(log) <= emitted
      /\ snap' = snap /\ starts' = starts /\ up' = up /\ up /\ pc' = pc /\ ~saving
      /\ effect' = effect /\ proposals' = proposals /\ effect = {}
      /\ Gapless /\ snap.last \in 0..Len(log) /\ mem \in Memory
      /\ Plan(mem, starts, todo)
  <2>1. effect = {}
    BY DEF IInv, MemInv, Emit
  <2>2. Len(log) \in Nat
    BY LogFits DEF IInv
  <2> QED BY <2>1, <2>2 DEF IInv, TypeOK, MemInv, SyncInv, Emit
<1>4. saving' \in BOOLEAN /\ failed' \in BOOLEAN
  BY <1>2
<1>5. PICK e, m, n, q, t : e = todo[1] /\ m = mem /\ n = mem' /\ q = todo /\ t = todo'
  OBVIOUS
<1>6. 1 \in DOMAIN q /\ StepOK(e) /\ q[1] = e /\ Rest(q, t) /\ e.kind \in Kinds
  BY <1>1, <1>5 DEF Rest, Steps, StepType
<1>7. ASSUME NEW k \in DOMAIN t, IsState(t[k], TaskWaiting)
      PROVE  k + 1 \in DOMAIN q /\ t[k] = q[k + 1] /\ e.kind \notin {"state", "waiting"}
  <2>1. k + 1 \in DOMAIN q /\ t[k] = q[k + 1] /\ 1 < k + 1
    BY <1>6 DEF Rest
  <2>2. Turns(m, q)
    BY <1>3, <1>5 DEF Plan
  <2> QED BY <1>6, <1>7, <2>1, <2>2 DEF Turns
<1>8. ASSUME t # <<>>, t[1].kind \in {"effect", "propose"}
      PROVE  e.kind = "tool" /\ Critical(e)
  <2>1. t \in Seq(Steps)
    BY <1>1, <1>5
  <2>2. 1 \in DOMAIN t
    BY <1>8, <2>1, EmptySeq, LenProperties
  <2>3. 1 + 1 \in DOMAIN q /\ t[1] = q[1 + 1] /\ (1 + 1) - 1 = 1
    BY <1>6, <2>2 DEF Rest
  <2>4. e.kind = "tool" /\ e.to \in {"Running", "AwaitingChangeReview"}
    BY <1>3, <1>5, <1>6, <1>8, <2>3 DEF Plan, Effects
  <2> QED BY <2>4 DEF Critical
<1>9. CASE outcome \in {"ok", "after"}
  <2>1. NoGap
    BY <1>9 DEF Outcomes
  <2>2. /\ log' = Append(log, [n |-> emitted', event |-> [Head(todo) EXCEPT !.call = 0]])
        /\ durable' = mem'
    BY <1>2, <1>9
  <2>3. /\ Len(log') = emitted' /\ Replay' \in Memory
        /\ Redone(Replay, todo[1], Replay') /\ DiskFits(Replay', mem', starts)
        /\ mem'.task \in Live =>
              \/ SameCalls(Replay', mem')
              \/ /\ Misapplied(mem', todo')
                 /\ failed \/ (todo[1].kind = "tool" /\ todo[1].to = "Failed")
    BY <2>1, <2>2, EmitLogged
  <2>4. TypeOK'
    <3>1. snap'.last \in 0..Len(log')
      BY <1>3, <2>1, <2>3 DEF NoGap
    <3> QED BY <1>1, <1>3, <1>4, <2>2, <2>3, <3>1 DEF IInv, TypeOK
  <2>5. ASSUME ~failed', ~saving', mem'.task \notin TaskTerminal
        PROVE  Replay'.reason = mem'.reason
    <3>1. ~failed /\ outcome = "ok" /\ ~Critical(e)
      BY <1>1, <1>2, <1>5, <2>5
    <3>2. e.kind \notin {"state", "waiting"}
      BY <3>1 DEF Critical
    <3>3. mem.task = mem'.task /\ mem'.reason = mem.reason /\ Replay'.reason = Replay.reason
      BY <1>1, <1>5, <2>3, <3>2 DEF Done, Redone
    <3>4. Replay.reason = mem.reason
      BY <1>3, <2>5, <3>1, <3>3 DEF IInv, SyncInv
    <3> QED BY <3>3, <3>4
  <2>6. ASSUME mem'.task \in Live
        PROVE  SameCalls(Replay', mem')
               \/ ((failed' \/ saving') /\ effect' = {} /\ Misapplied(mem', todo'))
    <3>1. CASE failed \/ outcome = "after"
      BY <1>2, <1>3, <2>3, <2>6, <3>1
    <3>2. CASE ~failed /\ outcome = "ok"
      <4>1. e.kind = "tool" /\ e.to = "Failed" => Critical(e)
        BY DEF Critical
      <4> QED BY <1>1, <1>2, <1>3, <1>5, <2>3, <2>6, <3>2, <4>1
    <3> QED BY <1>9, <3>1, <3>2
  <2>7. ASSUME NEW k \in DOMAIN todo', IsState(todo'[k], TaskWaiting)
        PROVE  Replay'.reason = NoReason
    <3>1. k + 1 \in DOMAIN todo /\ IsState(todo[k + 1], TaskWaiting)
          /\ e.kind \notin {"state", "waiting"}
      BY <1>5, <1>7, <2>7
    <3>2. Replay.reason = NoReason
      BY <1>3, <2>1, <3>1 DEF IInv, SyncInv
    <3> QED BY <1>5, <2>3, <3>1, <3>2 DEF Redone
  <2>8. ASSUME ~failed', ~saving', todo' # <<>>, todo'[1].kind \in {"effect", "propose"}
        PROVE  FALSE
    BY <1>1, <1>2, <1>5, <1>8, <2>8
  <2>9. SyncInv'
    <3>1. NoGap' /\ Len(log') <= emitted'
      BY <1>3, <2>3 DEF NoGap
    <3> QED BY <2>2, <2>5, <2>6, <2>7, <2>8, <3>1 DEF SyncInv
  <2> QED BY <1>1, <1>3, <2>2, <2>3, <2>4, <2>9
<1>10. CASE outcome \notin {"ok", "after"}
  <2>1. log' = log /\ durable' = durable /\ failed' /\ ~saving'
    BY <1>2, <1>10
  <2>2. Replay' = Replay
    BY <1>3, <2>1, ReplaySame
  <2>3. TypeOK'
    BY <1>1, <1>3, <1>4, <2>1, <2>2 DEF IInv, TypeOK
  <2>4. ~NoGap' /\ Len(log') <= emitted'
    BY <1>3, <2>1 DEF NoGap
  <2>5. SyncInv'
    BY <2>1, <2>4 DEF SyncInv
  <2>6. DiskFits(Replay', durable', starts')
    BY <1>3, <2>1, <2>2 DEF IInv
  <2> QED BY <1>1, <2>3, <2>5, <2>6
<1> QED BY <1>9, <1>10

\* A memory is what it is replayed as.
LEMMA Itself ==
  ASSUME NEW m
  PROVE  Match(m, m) /\ SameCalls(m, m)
BY DEF Match, SameCalls

\* A snapshot keeps the invariant.
LEMMA SaveKeeps ==
  ASSUME IInv, Save
  PROVE  TypeOK' /\ DiskFits(Replay', durable', starts') /\ MemInv' /\ SyncInv'
<1>1. /\ mem' = mem /\ emitted' = emitted /\ todo' = todo /\ pc' = pc /\ effect' = effect
      /\ proposals' = proposals /\ log' = log /\ up' = up /\ starts' = starts
      /\ durable' = durable /\ ~saving' /\ saving' \in BOOLEAN /\ up /\ saving /\ effect = {}
      /\ Len(log) \in Nat /\ DOMAIN log = 1..Len(log)
      /\ Plan(mem, starts, todo) /\ Fits(mem, starts, todo)
  <2>1. Len(log) \in Nat /\ DOMAIN log = 1..Len(log)
    BY LogFits DEF IInv
  <2> QED BY <2>1 DEF Save, historyVars, IInv, MemInv
<1>2. NoGap /\ mem = durable /\ NoGap' /\ Len(log') <= emitted' /\ mem' = durable'
  BY <1>1 DEF IInv, SyncInv, NoGap
<1>3. MemInv'
  <2>1. AtMostOnce'
    BY <1>1 DEF IInv, MemInv, AtMostOnce
  <2>2. Executing(mem', effect', Replay', snap'.mem.task)
    BY <1>1 DEF Executing
  <2> QED BY <1>1, <2>1, <2>2 DEF IInv, MemInv
<1>4. CASE snap' = [last |-> Len(log), mem |-> mem] /\ UNCHANGED failed
  <2>1. Replay' = mem /\ snap'.mem = mem /\ snap'.last = Len(log)
    <3>1. snap'.mem = mem /\ snap'.last = Len(log)
      BY <1>4
    <3> QED BY <1>1, <3>1, ReplaySaved
  <2>2. TypeOK'
    BY <1>1, <1>4, <2>1 DEF IInv, TypeOK
  <2>3. DiskFits(mem, mem, starts)
    <3>1. ASSUME mem.task \in TaskWaiting \cup {"Idle"}
          PROVE  LaterClosed(mem) /\ AllSpent(mem, starts)
      <4>1. AllSpent(mem, starts) /\ MostlyClosed(mem, todo)
        BY <1>1, <3>1 DEF Fits, Live
      <4>2. ~NewestFails(todo)
        <5> SUFFICES ASSUME todo # <<>>, FailsNewest(todo[1]) PROVE FALSE
          BY DEF NewestFails
        <5>1. todo \in Seq(Steps)
          BY DEF IInv, TypeOK
        <5>2. 1 \in DOMAIN todo
          BY <5>1, EmptySeq, LenProperties
        <5>3. mem.task = "Running"
          BY <1>1, <5>2 DEF Plan, Queueing
        <5> QED BY <3>1, <5>3 DEF TaskWaiting
      <4> QED BY <4>1, <4>2 DEF MostlyClosed, LaterClosed
    <3> QED BY <3>1, Itself DEF DiskFits
  <2>4. ASSUME NEW k \in DOMAIN todo, IsState(todo[k], TaskWaiting) PROVE mem.reason = NoReason
    BY <1>1, <2>4 DEF Plan, Turns, Fits
  <2>5. SyncInv'
    BY <1>1, <1>2, <1>4, <2>1, <2>4, Itself DEF SyncInv
  <2> QED BY <1>1, <1>2, <1>3, <2>1, <2>2, <2>3, <2>5
<1>5. CASE failed' = TRUE /\ UNCHANGED snap
  <2>1. Replay' = Replay
    BY <1>1, <1>5, ReplaySame
  <2>2. TypeOK'
    BY <1>1, <1>5, <2>1 DEF IInv, TypeOK
  <2>3. ASSUME mem.task \in Live
        PROVE  SameCalls(Replay, mem) \/ Misapplied(mem, todo)
    BY <1>1, <1>2, <2>3 DEF IInv, SyncInv
  <2>4. SyncInv'
    BY <1>1, <1>2, <1>5, <2>1, <2>3 DEF IInv, SyncInv
  <2> QED BY <1>1, <1>3, <2>1, <2>2, <2>4 DEF IInv
<1> QED BY <1>4, <1>5 DEF Save

\* When the process stops, the files stay.
LEMMA CrashKeeps ==
  ASSUME IInv, Crash
  PROVE  TypeOK' /\ DiskFits(Replay', durable', starts') /\ MemInv' /\ SyncInv'
<1>1. /\ up' = FALSE /\ mem' = NoTask /\ emitted' = 0 /\ todo' = <<>> /\ saving' = FALSE
      /\ failed' = FALSE /\ pc' = "returned" /\ effect' = {} /\ proposals' = {}
      /\ log' = log /\ snap' = snap /\ starts' = starts /\ durable' = durable
  BY DEF Crash, historyVars
<1>2. Replay' = Replay
  BY <1>1, ReplaySame
<1>3. NoTask \in Memory
  BY DEF NoTask, Memory, TaskStates, NoReason, WaitingReason, WaitingReasons
<1>4. TypeOK'
  <2>1. <<>> \in Seq(Steps)
    OBVIOUS
  <2> QED BY <1>1, <1>2, <1>3, <2>1 DEF IInv, TypeOK
<1>5. MemInv'
  <2>1. AtMostOnce'
    BY <1>1 DEF IInv, MemInv, AtMostOnce
  <2>2. Plan(NoTask, starts, <<>>)
    BY DEF Plan, Targets, Queueing, Turns, Effects, NoTask, TaskTerminal
  <2>3. Looping(NoTask, {}, "returned", <<>>) /\ Proposing(NoTask, starts, {}, {})
    BY DEF Looping, Proposing
  <2>4. Executing(NoTask, {}, Replay', snap'.mem.task)
    BY DEF Executing
  <2> QED BY <1>1, <2>1, <2>2, <2>3, <2>4 DEF MemInv
<1> QED BY <1>1, <1>2, <1>4, <1>5 DEF IInv, SyncInv

\* What Settle leaves of a replayed memory.
LEMMA Settled ==
  ASSUME NEW r \in Memory
  PROVE  /\ Settle(r) \in Memory /\ Settle(r).task = SettledTask(r.task)
         /\ Settle(r).task \in Live => Settle(r).task = r.task
         /\ r.task \notin {"Running", "Cancelling"} => Settle(r).reason = r.reason
         /\ Settle(r).history = r.history /\ DOMAIN Settle(r).calls = DOMAIN r.calls
         /\ \A i \in DOMAIN r.calls : Settle(r).calls[i] = SettledCall(r.calls[i])
<1> DEFINE cs == [i \in DOMAIN r.calls |-> SettledCall(r.calls[i])]
           task == SettledTask(r.task)
           reason == IF r.task \in {"Running", "Cancelling"} THEN NoReason ELSE r.reason
<1>1. Settle(r) = [task |-> task, reason |-> reason, calls |-> cs, history |-> r.history]
  <2>1. Settle(r) = [r EXCEPT !.task = task, !.reason = reason, !.calls = cs]
    BY Zenon DEF Settle, SettledCall, SettledTask
  <2> HIDE DEF task, reason, cs
  <2> QED BY <2>1 DEF Memory
<1>2. cs \in Seq(Call)
  <2>1. Len(r.calls) \in Nat /\ DOMAIN r.calls = 1..Len(r.calls)
    BY Calls
  <2>2. ASSUME NEW i \in DOMAIN r.calls PROVE SettledCall(r.calls[i]) \in Call
    <3>1. r.calls[i] \in Call
      BY Calls
    <3> QED BY <3>1 DEF SettledCall, Call, ToolStates
  <2>3. cs \in [1..Len(r.calls) -> Call]
    BY <2>1, <2>2
  <2> HIDE DEF cs
  <2> QED BY <2>1, <2>3, SeqDef
<1>3. task \in TaskStates /\ reason \in WaitingReason /\ r.history \in Seq(Ids)
  BY DEF Memory, SettledTask, TaskStates, NoReason, WaitingReason, WaitingReasons
<1>4. task \in Live => task = r.task
  BY DEF SettledTask, Live, TaskWaiting
<1> HIDE DEF task, reason
<1>5. /\ Settle(r).task = task /\ Settle(r).reason = reason /\ Settle(r).calls = cs
      /\ Settle(r).history = r.history /\ Settle(r) \in Memory
  <2> HIDE DEF cs
  <2> QED BY <1>1, <1>2, <1>3 DEF Memory
<1> QED BY <1>4, <1>5 DEF task, reason

\* The recovered memory agrees with what is replayed.
LEMMA SettledFits ==
  ASSUME NEW r \in Memory, NEW m, m = Settle(r)
  PROVE  Match(r, m) /\ SameCalls(r, m)
<1>1. /\ m.task = SettledTask(r.task) /\ m.history = r.history /\ DOMAIN m.calls = DOMAIN r.calls
      /\ \A i \in DOMAIN r.calls : m.calls[i] = SettledCall(r.calls[i])
  BY Settled
<1>2. ASSUME NEW i \in DOMAIN r.calls
      PROVE  /\ SettledCall(r.calls[i]).id = r.calls[i].id
             /\ SettledCall(SettledCall(r.calls[i])) = SettledCall(r.calls[i])
  <2>1. r.calls[i] \in Call
    BY Calls
  <2> QED BY <2>1 DEF Call, SettledCall
<1>3. SettledTask(SettledTask(r.task)) = SettledTask(r.task)
  BY DEF SettledTask
<1> QED BY <1>1, <1>2, <1>3 DEF Match, SameCalls, Unique

\* Recovery keeps the invariant.
LEMMA RecoverKeeps ==
  ASSUME IInv, Recover
  PROVE  TypeOK' /\ DiskFits(Replay', durable', starts') /\ MemInv' /\ SyncInv'
<1>1. /\ ~up /\ up' = TRUE /\ mem' = Settle(Replay) /\ durable' = Settle(Replay)
      /\ emitted' = Len(log)
      /\ todo' = todo /\ saving' = saving /\ failed' = failed /\ pc' = pc /\ effect' = effect
      /\ proposals' = proposals /\ log' = log /\ snap' = snap /\ starts' = starts
      /\ todo = <<>> /\ effect = {} /\ proposals = {} /\ ~saving /\ pc = "returned"
      /\ Len(log) \in Nat
  <2>1. Len(log) \in Nat
    BY LogFits DEF IInv
  <2> QED BY <2>1 DEF Recover, Recovered, IInv, MemInv
<1>2. Replay' = Replay /\ Replay \in Memory
  BY <1>1, ReplaySame DEF IInv, TypeOK
<1>3. PICK m, r, s : m = Settle(Replay) /\ r = Replay /\ s = starts
  OBVIOUS
<1>4. /\ r \in Memory /\ m = Settle(r) /\ m \in Memory /\ m.task = SettledTask(r.task)
      /\ m.task \in Live => m.task = r.task
      /\ r.task \notin {"Running", "Cancelling"} => m.reason = r.reason
      /\ Match(r, m) /\ SameCalls(r, m) /\ SameCalls(r, m)
  BY <1>2, <1>3, Settled, SettledFits
<1>5. r.task \in TaskWaiting \cup {"Idle"} => LaterClosed(r) /\ AllSpent(r, s)
  BY <1>3 DEF IInv, DiskFits
<1>6. DiskFits(r, m, s)
  <2>1. r.task \in TaskWaiting => m.reason = r.reason
    BY <1>4 DEF TaskWaiting
  <2> QED BY <1>4, <1>5, <2>1 DEF DiskFits
<1>7. m.task # "Running" /\ m.task # "Cancelling"
  BY <1>4 DEF SettledTask
<1>8. TypeOK'
  <2>1. Len(log) \in Nat
    BY <1>1
  <2> QED BY <1>1, <1>2, <1>3, <1>4, <2>1 DEF IInv, TypeOK
<1>9. MemInv'
  <2>1. AtMostOnce'
    BY <1>1 DEF IInv, MemInv, AtMostOnce
  <2>2. Fits(m, s, <<>>)
    <3>1. ASSUME m.task \in Live PROVE AllSpent(m, s) /\ MostlyClosed(m, <<>>)
      <4>1. r.task \in TaskWaiting \cup {"Idle"}
        BY <1>4, <1>7, <3>1 DEF Live
      <4>2. LaterClosed(m) /\ AllSpent(m, s)
        BY <1>4, <1>5, <4>1, SameSpent
      <4> QED BY <4>2 DEF MostlyClosed, LaterClosed
    <3> QED BY <1>7, <3>1 DEF Fits
  <2>3. Plan(m, s, <<>>)
    BY DEF Plan, Targets, Queueing, Turns, Effects
  <2>4. Looping(m, {}, "returned", <<>>) /\ Proposing(m, s, {}, {})
    BY DEF Looping, Proposing
  <2>5. Executing(m, {}, Replay', snap'.mem.task)
    BY DEF Executing
  <2> QED BY <1>1, <1>3, <2>1, <2>2, <2>3, <2>4, <2>5 DEF MemInv
<1>10. m.task \notin TaskTerminal => r.reason = m.reason
  BY <1>4 DEF SettledTask, TaskTerminal
<1>11. SyncInv'
  <2>1. NoGap' /\ Len(log') <= emitted'
    BY <1>1 DEF NoGap
  <2>2. DOMAIN todo' = {} /\ todo' = <<>>
    BY <1>1
  <2> QED BY <1>1, <1>2, <1>3, <1>4, <1>10, <2>1, <2>2 DEF SyncInv
<1> QED BY <1>1, <1>2, <1>3, <1>6, <1>8, <1>9, <1>11

\* z is s, but the call i was begun once.
Once(n, s, i, z) ==
  /\ z \in [1..n -> Nat] /\ DOMAIN z = DOMAIN s
  /\ \A j \in DOMAIN z : j # i => z[j] = s[j]
  /\ \A j \in DOMAIN z : j = i => z[j] = 1

\* One more side effect is counted, of a call that had none.
LEMMA Counted ==
  ASSUME NEW n, NEW s \in [1..n -> Nat], NEW i, i \in DOMAIN s => s[i] = 0,
         NEW z, z = [s EXCEPT ![i] = @ + 1]
  PROVE  Once(n, s, i, z)
<1>1. DOMAIN s = 1..n /\ DOMAIN z = 1..n /\ z = [j \in 1..n |-> z[j]]
  OBVIOUS
<1>2. ASSUME NEW j \in 1..n PROVE z[j] = IF j = i THEN 1 ELSE s[j]
  <2>1. CASE j = i
    BY <2>1
  <2>2. CASE j # i
    BY <2>2
  <2> QED BY <2>1, <2>2
<1>3. ASSUME NEW j \in 1..n PROVE z[j] \in Nat
  BY <1>2
<1> QED BY <1>1, <1>2, <1>3 DEF Once

\* The executor is called for what is recorded as running.
LEMMA CallKeeps ==
  ASSUME IInv, CallExecutor
  PROVE  TypeOK' /\ DiskFits(Replay', durable', starts') /\ MemInv' /\ SyncInv'
<1>1. /\ mem' = mem /\ emitted' = emitted /\ saving' = saving /\ failed' = failed
      /\ log' = log /\ snap' = snap /\ up' = up /\ durable' = durable
      /\ up /\ todo # <<>> /\ ~saving /\ effect = {} /\ mem \in Memory
      /\ Len(log) \in Nat /\ DOMAIN log = 1..Len(log)
      /\ Plan(mem, starts, todo) /\ Fits(mem, starts, todo) /\ todo \in Seq(Steps)
  <2>1. Len(log) \in Nat /\ DOMAIN log = 1..Len(log)
    BY LogFits DEF IInv
  <2>2. effect = {}
    BY DEF CallExecutor, IInv, MemInv
  <2> QED BY <2>1, <2>2 DEF CallExecutor, diskVars, IInv, TypeOK, MemInv
<1>2. Replay' = Replay
  BY <1>1, ReplaySame
<1>3. PICK e, t : e = todo[1] /\ t = Tail(todo)
  OBVIOUS
<1>4. /\ t \in Seq(Steps) /\ Rest(todo, t) /\ Head(todo) = e /\ e \in Steps
      /\ e.kind \in {"effect", "propose"}
  <2>1. t \in Seq(Steps) /\ Rest(todo, t) /\ Head(todo) = e /\ e \in Steps
    BY <1>1, <1>3, TailIsRest
  <2> QED BY <2>1 DEF CallExecutor
<1>5. 1 \in DOMAIN todo /\ todo[1] = e
  BY <1>3, <1>4 DEF Rest
<1>6. /\ mem.task = "Running" /\ NotStarted(starts, e)
      /\ e.kind = "effect" => Len(todo) = 1
      /\ e.kind = "propose" => e.id \in WriteIds
      /\ mem.calls[e.call].state \in {"Running", "AwaitingChangeReview"}
  BY <1>1, <1>4, <1>5 DEF Plan, Effects
<1>7. /\ e.call \in DOMAIN mem.calls /\ mem.calls[e.call].id = e.id /\ Leader(mem, e.call)
  <2>1. e.call # Newest /\ e.kind # "tool"
    BY <1>1, <1>4, <1>5 DEF Plan, Targets
  <2>2. Place(mem, e) = e.call
    BY <2>1 DEF Place
  <2> QED BY <1>1, <1>4, <1>5, <2>1, <2>2, NextCall
<1>8. AllSpent(mem, starts) /\ LaterClosed(mem) /\ ~NewestFails(todo) /\ mem.reason = NoReason
  <2>1. ~NewestFails(todo)
    BY <1>4, <1>5 DEF NewestFails, FailsNewest
  <2> QED BY <1>1, <1>6, <2>1 DEF Fits, Live, MostlyClosed, LaterClosed
<1>9. e.call \in Nat
  BY <1>4 DEF Steps, StepType
<1>10. CASE ~Persisted
  <2>1. /\ todo' = <<>> /\ pc' = "returned" /\ effect' = effect /\ proposals' = proposals
        /\ starts' = starts
    BY <1>10 DEF CallExecutor
  <2>2. TypeOK'
    BY <1>1, <1>2, <2>1 DEF IInv, TypeOK
  <2>3. MemInv'
    <3>1. AtMostOnce'
      BY <2>1 DEF IInv, MemInv, AtMostOnce
    <3>2. Plan(mem, starts, <<>>)
      BY DEF Plan, Targets, Queueing, Turns, Effects
    <3>3. Looping(mem, effect, "returned", <<>>)
      BY DEF Looping
    <3>4. Fits(mem, starts, <<>>)
      BY <1>8 DEF Fits, MostlyClosed, LaterClosed
    <3>5. Executing(mem', effect', Replay', snap'.mem.task)
      BY <1>1, <2>1 DEF Executing
    <3> QED BY <1>1, <2>1, <3>1, <3>2, <3>3, <3>4, <3>5 DEF IInv, MemInv
  <2>4. SyncInv'
    <3>1. NoGap' = NoGap
      BY <1>1 DEF NoGap
    <3>2. failed
      BY <1>10 DEF Persisted
    <3>3. Misapplied(mem, <<>>)
      BY <1>6 DEF Misapplied
    <3> QED BY <1>1, <1>2, <2>1, <3>1, <3>2, <3>3 DEF IInv, SyncInv
  <2> QED BY <1>1, <1>2, <2>1, <2>2, <2>3, <2>4 DEF IInv
<1>11. CASE Persisted
  <2>1. ~failed /\ snap = [last |-> Len(log), mem |-> mem]
    BY <1>1, <1>4, <1>5, <1>11 DEF IInv, SyncInv, Persisted
  <2>2. Replay = mem /\ snap.mem = mem
    <3>1. snap.last = Len(log) /\ snap.mem = mem
      BY <2>1
    <3> QED BY <1>1, <3>1, ReplayNothing
  <2>3. todo' = t /\ pc' = pc
    BY <1>3, <1>11 DEF CallExecutor
  <2>4. Done(mem, e, mem)
    BY <1>4 DEF Done
  <2>5. Plan(mem, starts, t)
    <3>1. CASE e.kind = "propose"
      BY <1>1, <1>4, <1>5, <2>4, <3>1, PlanRest
    <3>2. CASE e.kind = "effect"
      <4>1. DOMAIN t = {}
        <5>1. Len(todo) = 1 /\ DOMAIN t = 1..(Len(todo) - 1)
          BY <1>4, <1>6, <3>2 DEF Rest
        <5> QED BY <5>1
      <4> QED BY <1>6, <4>1 DEF Plan, Targets, Queueing, Turns, Effects, TaskTerminal
    <3> QED BY <1>4, <3>1, <3>2
  <2>6. AtMostOnce /\ Proposing(mem, starts, {}, proposals) /\ Looping(mem, {}, pc, todo)
    BY <1>1 DEF IInv, MemInv
  <2>7. NoGap' = NoGap /\ NoGap
    BY <1>1, <2>1 DEF IInv, SyncInv, NoGap
  <2>8. /\ up' = TRUE /\ Len(log') <= emitted' /\ mem' = durable'
        /\ snap' = [last |-> Len(log'), mem |-> mem'] /\ Replay' = mem' /\ mem'.reason = NoReason
    BY <1>1, <1>2, <1>8, <2>1, <2>2, <2>7 DEF IInv, SyncInv
  <2>9. SyncInv'
    BY <2>7, <2>8, Itself DEF SyncInv
  <2>10. mem.task \notin TaskWaiting \cup {"Idle"}
    BY <1>6 DEF TaskWaiting
  <2>11. CASE e.kind = "effect"
    <3>1. /\ effect' = {e.call} /\ starts' = [starts EXCEPT ![e.call] = @ + 1]
          /\ proposals' = proposals
      BY <1>4, <1>11, <2>11 DEF CallExecutor
    <3>2. t = <<>>
      <4>1. Len(t) = 0
        <5>1. Len(todo) = 1 /\ Len(t) = Len(todo) - 1
          BY <1>4, <1>6, <2>11 DEF Rest
        <5> QED BY <5>1
      <4> QED BY <1>4, <4>1, EmptySeq
    <3>3. PICK s : s = starts'
      OBVIOUS
    <3>4. /\ s \in [1..MaxCalls -> Nat] /\ DOMAIN s = DOMAIN starts
          /\ \A i \in DOMAIN s : i # e.call => s[i] = starts[i]
          /\ \A i \in DOMAIN s : i = e.call => s[i] = 1
      <4>1. starts \in [1..MaxCalls -> Nat]
        BY DEF IInv, TypeOK
      <4>2. e.call \in DOMAIN starts => starts[e.call] = 0
        BY <1>6 DEF NotStarted
      <4>3. s = [starts EXCEPT ![e.call] = @ + 1]
        BY <3>1, <3>3
      <4>4. Once(MaxCalls, starts, e.call, s)
        BY <4>1, <4>2, <4>3, Counted
      <4> QED BY <4>4 DEF Once
    <3>5. TypeOK'
      BY <1>1, <1>2, <1>4, <1>9, <2>3, <3>1, <3>3, <3>4 DEF IInv, TypeOK
    <3>6. DiskFits(Replay', durable', starts')
      BY <2>8, <2>10, <1>1, Itself DEF DiskFits
    <3>7. AllSpent(mem, s)
      BY <1>6, <1>7, <1>8, <3>4 DEF AllSpent, Spent, Closed
    <3>8. \A i \in DOMAIN s : s[i] <= 1
      BY <2>6, <3>4 DEF AtMostOnce
    <3>9. Plan(mem, s, <<>>)
      BY <1>6 DEF Plan, Targets, Queueing, Turns, Effects, TaskTerminal
    <3>10. Fits(mem, s, <<>>)
      BY <1>8, <3>7 DEF Fits, MostlyClosed, LaterClosed
    <3>11. Proposing(mem, s, {e.call}, proposals)
      BY <2>6, <3>4 DEF Proposing
    <3>12. Looping(mem, {e.call}, pc, <<>>)
      BY DEF Looping
    <3>13. Executing(mem, {e.call}, mem, mem.task)
      BY <1>6, <1>7 DEF Executing
    <3>14. MemInv'
      BY <1>1, <1>2, <2>2, <2>3, <3>1, <3>2, <3>3, <3>8, <3>9, <3>10, <3>11, <3>12, <3>13
         DEF MemInv, AtMostOnce
    <3> QED BY <2>9, <3>5, <3>6, <3>14
  <2>12. CASE e.kind = "propose"
    <3>1. effect' = {} /\ starts' = starts /\ proposals' = proposals \cup {e.call}
      BY <1>1, <1>4, <1>11, <2>12 DEF CallExecutor
    <3>2. TypeOK'
      BY <1>1, <1>2, <1>4, <1>9, <2>3, <3>1 DEF IInv, TypeOK
    <3>3. DiskFits(Replay', durable', starts')
      BY <2>8, <2>10, <1>1, Itself DEF DiskFits
    <3>4. Fits(mem, starts, t)
      BY <1>8 DEF Fits, MostlyClosed, LaterClosed
    <3>5. Proposing(mem, starts, {}, proposals \cup {e.call})
      <4>1. ASSUME NEW i \in DOMAIN starts, i = e.call PROVE ~(starts[i] >= 1)
        BY <1>6, <4>1 DEF NotStarted
      <4> QED BY <1>6, <1>7, <2>6, <2>12, <4>1 DEF Proposing
    <3>6. Looping(mem, {}, pc, t)
      BY <1>4, <1>5, <2>4, <2>6, LoopingRest
    <3>7. Executing(mem', effect', Replay', snap'.mem.task)
      BY <3>1 DEF Executing
    <3>8. MemInv'
      BY <1>1, <2>3, <2>5, <2>6, <3>1, <3>4, <3>5, <3>6, <3>7 DEF MemInv, AtMostOnce
    <3> QED BY <2>9, <3>2, <3>3, <3>8
  <2> QED BY <1>4, <2>11, <2>12
<1> QED BY <1>10, <1>11 DEF Persisted

\* Accepting a change set: what is recorded is the review it waits for.
LEMMA ReviewKeeps ==
  ASSUME IInv, NEW i \in DOMAIN mem.calls, ReviewChange(i)
  PROVE  TypeOK' /\ DiskFits(Replay', durable', starts') /\ MemInv' /\ SyncInv'
<1>1. /\ mem' = mem /\ emitted' = emitted /\ todo' = todo /\ saving' = saving
      /\ failed' = failed /\ proposals' = proposals /\ log' = log /\ snap' = snap /\ up' = up
      /\ durable' = durable /\ effect' = {i} /\ starts' = [starts EXCEPT ![i] = @ + 1]
      /\ pc' = "loop"
      /\ up /\ todo = <<>> /\ ~saving /\ effect = {} /\ ~failed /\ mem \in Memory
      /\ mem.task = "WaitingChangeReview" /\ mem.calls[i].state = "AwaitingChangeReview"
      /\ i \in proposals
  BY DEF ReviewChange, Returned, Ready, Persisted, diskVars, IInv, TypeOK
<1>2. Replay' = Replay /\ Replay \in Memory
  BY <1>1, ReplaySame DEF IInv, TypeOK
<1>3. /\ AtMostOnce /\ Fits(mem, starts, todo) /\ Plan(mem, starts, todo)
      /\ Proposing(mem, starts, {}, proposals)
  BY <1>1 DEF IInv, MemInv
<1>4. AllSpent(mem, starts) /\ LaterClosed(mem)
  <2>1. ~NewestFails(todo)
    BY <1>1 DEF NewestFails
  <2> QED BY <1>1, <1>3, <2>1 DEF Fits, Live, TaskWaiting, MostlyClosed, LaterClosed
<1>5. mem.calls[i].id \in WriteIds /\ (i \in DOMAIN starts => ~(starts[i] >= 1))
  BY <1>1, <1>3 DEF Proposing
<1>6. Leader(mem, i)
  <2> SUFFICES ASSUME NEW j \in DOMAIN mem.calls, mem.calls[j].id = mem.calls[i].id PROVE i <= j
    BY DEF Leader
  <2>1. i \in Nat /\ j \in Nat
    BY <1>1, Calls
  <2>2. ~(j < i)
    BY <1>1, <1>4 DEF LaterClosed, Closed, ToolTerminal
  <2> QED BY <2>1, <2>2
<1>7. PICK s : s = starts'
  OBVIOUS
<1>8. /\ s \in [1..MaxCalls -> Nat] /\ DOMAIN s = DOMAIN starts
      /\ \A j \in DOMAIN s : j # i => s[j] = starts[j]
      /\ \A j \in DOMAIN s : j = i => s[j] = 1
  <2>1. starts \in [1..MaxCalls -> Nat]
    BY DEF IInv, TypeOK
  <2>2. i \in DOMAIN starts => starts[i] = 0
    BY <1>5, <2>1
  <2>3. s = [starts EXCEPT ![i] = @ + 1]
    BY <1>1, <1>7
  <2>4. Once(MaxCalls, starts, i, s)
    BY <2>1, <2>2, <2>3, Counted
  <2> QED BY <2>4 DEF Once
<1>9. i \in Nat
  BY <1>1, Calls
<1>10. NoGap /\ mem = durable /\ SameCalls(Replay, mem)
  BY <1>1 DEF IInv, SyncInv, Live, TaskWaiting
<1>11. TypeOK'
  BY <1>1, <1>2, <1>7, <1>8, <1>9 DEF IInv, TypeOK
<1>12. DiskFits(Replay', durable', starts')
  <2>1. AllSpent(mem, s)
    BY <1>1, <1>4, <1>8 DEF AllSpent, Spent
  <2>2. AllSpent(Replay, s)
    BY <1>1, <1>2, <1>10, <2>1, SameSpent
  <2> QED BY <1>1, <1>2, <1>7, <2>2 DEF IInv, DiskFits
<1>13. MemInv'
  <2>1. \A j \in DOMAIN s : s[j] <= 1
    <3>1. \A j \in DOMAIN starts : starts[j] <= 1
      BY <1>3 DEF AtMostOnce
    <3> QED BY <1>8, <3>1
  <2>2. AllSpent(mem, s)
    BY <1>1, <1>4, <1>8 DEF AllSpent, Spent
  <2>3. Fits(mem, s, <<>>)
    BY <1>3, <1>4, <2>2 DEF Fits, MostlyClosed, LaterClosed
  <2>4. Plan(mem, s, <<>>)
    BY <1>1 DEF Plan, Targets, Queueing, Turns, Effects, TaskTerminal
  <2>5. Looping(mem, {i}, "loop", <<>>)
    BY DEF Looping
  <2>6. Proposing(mem, s, {i}, proposals)
    BY <1>3, <1>8 DEF Proposing
  <2>7. Executing(mem, {i}, Replay', snap'.mem.task)
    BY <1>1, <1>5, <1>6 DEF Executing
  <2> QED BY <1>1, <1>7, <2>1, <2>3, <2>4, <2>5, <2>6, <2>7 DEF MemInv, AtMostOnce
<1>14. SyncInv'
  <2>1. NoGap' = NoGap
    BY <1>1 DEF NoGap
  <2> QED BY <1>1, <1>2, <1>10, <2>1 DEF IInv, SyncInv
<1> QED BY <1>11, <1>12, <1>13, <1>14

----------------------------------------------------------------------------
(* What a handler plans *)

\* A plan that may begin with the memory m.
Begins(m, s, lost, next, q) ==
  /\ q \in Seq(Steps) /\ Plan(m, s, q) /\ Looping(m, {}, next, q)
  /\ q # <<>> => q[1].kind \notin {"effect", "propose"}
  /\ lost /\ m.task = "Running" => Misapplied(m, q)
  /\ \A k \in DOMAIN q : IsState(q[k], TaskWaiting) => ~lost

\* A handler that begins such a plan keeps the invariant.
LEMMA HandleKeeps ==
  ASSUME IInv, Ready, NEW steps, NEW next \in {"returned", "loop"}, Handle(steps, next),
         Begins(mem, starts, failed, next, steps)
  PROVE  TypeOK' /\ DiskFits(Replay', durable', starts') /\ MemInv' /\ SyncInv'
<1>1. /\ todo' = steps /\ pc' = next /\ mem' = mem /\ emitted' = emitted /\ saving' = saving
      /\ failed' = failed /\ effect' = effect /\ proposals' = proposals /\ log' = log
      /\ snap' = snap /\ up' = up /\ starts' = starts /\ durable' = durable
      /\ up /\ todo = <<>> /\ ~saving /\ effect = {}
  BY DEF Handle, diskVars, historyVars, Ready
<1>2. Replay' = Replay
  BY <1>1, ReplaySame
<1>3. TypeOK'
  BY <1>1, <1>2 DEF IInv, TypeOK, Begins
<1>4. MemInv'
  <2>1. AtMostOnce'
    BY <1>1 DEF IInv, MemInv, AtMostOnce
  <2>2. Fits(mem, starts, steps)
    <3>1. Fits(mem, starts, todo) /\ ~NewestFails(todo)
      BY <1>1 DEF IInv, MemInv, NewestFails
    <3> QED BY <3>1 DEF Fits, MostlyClosed
  <2>3. Executing(mem', effect', Replay', snap'.mem.task)
    BY <1>1 DEF Executing
  <2> QED BY <1>1, <2>1, <2>2, <2>3 DEF IInv, MemInv, Begins
<1>5. SyncInv'
  <2>1. NoGap' = NoGap
    BY <1>1 DEF NoGap
  <2>2. ASSUME NEW k \in DOMAIN steps, IsState(steps[k], TaskWaiting)
        PROVE  Replay.reason = NoReason
    <3>1. mem.task = "Running" /\ ~failed
      BY <2>2 DEF Begins, Plan, Turns
    <3>2. mem.reason = NoReason
      BY <1>1, <3>1 DEF IInv, MemInv, Fits
    <3> QED BY <1>1, <3>1, <3>2 DEF IInv, SyncInv, TaskTerminal
  <2>3. ASSUME NoGap, mem.task \in Live
        PROVE  SameCalls(Replay, mem) \/ (failed /\ Misapplied(mem, steps))
    <3>1. SameCalls(Replay, mem) \/ (failed /\ mem.task = "Running")
      BY <1>1, <2>3 DEF IInv, SyncInv, Misapplied
    <3> QED BY <3>1 DEF Begins
  <2>4. ~(todo' # <<>> /\ todo'[1].kind \in {"effect", "propose"})
    BY <1>1 DEF Begins
  <2> QED BY <1>1, <1>2, <2>1, <2>2, <2>3, <2>4 DEF IInv, SyncInv
<1> QED BY <1>1, <1>2, <1>3, <1>4, <1>5 DEF IInv

\* What holds when a handler is called.
LEMMA ReadyFacts ==
  ASSUME IInv, Ready
  PROVE  /\ mem \in Memory /\ starts \in [1..MaxCalls -> Nat]
         /\ mem.task \in Live => AllSpent(mem, starts) /\ LaterClosed(mem)
         /\ pc = "loop" => mem.task = "Running"
         /\ \A i \in DOMAIN mem.calls : mem.calls[i].id \in Ids /\ i \in Nat /\ i # Newest
<1>1. todo = <<>> /\ effect = {} /\ up /\ mem \in Memory
  BY DEF Ready, IInv, TypeOK
<1>2. mem.task \in Live => AllSpent(mem, starts) /\ LaterClosed(mem)
  BY <1>1 DEF IInv, MemInv, Fits, MostlyClosed, LaterClosed, NewestFails
<1>3. pc = "loop" => mem.task = "Running"
  BY <1>1 DEF IInv, MemInv, Looping
<1>4. ASSUME NEW i \in DOMAIN mem.calls PROVE mem.calls[i].id \in Ids /\ i \in Nat /\ i # Newest
  <2>1. mem.calls[i] \in Call /\ DOMAIN mem.calls = 1..Len(mem.calls) /\ Len(mem.calls) \in Nat
    BY <1>1, Calls
  <2> QED BY <2>1 DEF Call, Newest
<1> QED BY <1>1, <1>2, <1>3, <1>4 DEF IInv, TypeOK

\* A call that is not closed is the first with its ID, and not begun unless it is spent.
LEMMA OpenCall ==
  ASSUME NEW m \in Memory, NEW s \in [1..MaxCalls -> Nat], AllSpent(m, s), LaterClosed(m),
         NEW i \in DOMAIN m.calls, m.calls[i].state \notin Closed
  PROVE  /\ Leader(m, i)
         /\ m.calls[i].state \notin Spent => \A j \in DOMAIN s : j = i => s[j] = 0
<1>1. Leader(m, i)
  <2> SUFFICES ASSUME NEW j \in DOMAIN m.calls, m.calls[j].id = m.calls[i].id PROVE i <= j
    BY DEF Leader
  <2>1. i \in Nat /\ j \in Nat
    BY Calls
  <2>2. ~(j < i)
    BY DEF LaterClosed
  <2> QED BY <2>1, <2>2
<1>2. m.calls[i].state \notin Spent => \A j \in DOMAIN s : j = i => s[j] = 0
  <2>1. \A j \in DOMAIN s : s[j] \in Nat
    OBVIOUS
  <2> QED BY <2>1 DEF AllSpent
<1> QED BY <1>1, <1>2

\* The change set of a call is proposed.
Propose(i, id) == [kind |-> "propose", call |-> i, id |-> id, to |-> "Running"]

\* The steps that handlers plan are steps.
LEMMA StepsFit ==
  ASSUME NEW i \in Nat, NEW id \in Ids
  PROVE  /\ \A x \in ToolStates \ {"Proposed"} : ToolStep(i, id, x) \in Steps
         /\ \A x \in Decisions : Decision(i, id, x) \in Steps
         /\ Queued(id) \in Steps /\ Answer(id) \in Steps /\ Effect(i, id) \in Steps
         /\ Propose(i, id) \in Steps
         /\ \A x \in WaitingReasons :
              [kind |-> "waiting", call |-> 0, id |-> id, to |-> x] \in Steps
         /\ \A x \in TaskStates \ {"Idle"} :
              [kind |-> "state", call |-> 0, id |-> id, to |-> x] \in Steps
<1>1. ASSUME NEW x \in ToolStates \ {"Proposed"} PROVE ToolStep(i, id, x) \in Steps
  BY DEF ToolStep, Steps, StepType, StepOK, Kinds, Marks
<1>2. ASSUME NEW x \in Decisions PROVE Decision(i, id, x) \in Steps
  BY DEF Decision, Steps, StepType, StepOK, Kinds, Marks
<1>3. Queued(id) \in Steps /\ Answer(id) \in Steps /\ Effect(i, id) \in Steps
  BY DEF Queued, Answer, Effect, Steps, StepType, StepOK, Kinds, Marks, ToolStates
<1>4. Propose(i, id) \in Steps
  BY DEF Propose, Steps, StepType, StepOK, Kinds, Marks, ToolStates
<1>5. ASSUME NEW x \in WaitingReasons
      PROVE  [kind |-> "waiting", call |-> 0, id |-> id, to |-> x] \in Steps
  BY DEF Steps, StepType, StepOK, Kinds, Marks
<1>6. ASSUME NEW x \in TaskStates \ {"Idle"}
      PROVE  [kind |-> "state", call |-> 0, id |-> id, to |-> x] \in Steps
  BY DEF Steps, StepType, StepOK, Kinds, Marks
<1> QED BY <1>1, <1>2, <1>3, <1>4, <1>5, <1>6

\* So is a new state of the task.
LEMMA StatesFit ==
  ASSUME NEW x \in TaskStates \ {"Idle"}
  PROVE  [kind |-> "state", call |-> 0, id |-> NoId, to |-> x] \in Steps
BY DEF Steps, StepType, StepOK, Kinds, Marks

\* drive begins.
LEMMA StartKeeps ==
  ASSUME IInv, Start
  PROVE  TypeOK' /\ DiskFits(Replay', durable', starts') /\ MemInv' /\ SyncInv'
<1>1. Ready /\ mem.task = "Idle" /\ Handle(StateStep("Running"), "loop")
  BY DEF Start, Returned
<1>2. PICK e : e = [kind |-> "state", call |-> 0, id |-> NoId, to |-> "Running"]
  OBVIOUS
<1>3. PICK q : q = <<e>>
  OBVIOUS
<1>4. e \in Steps /\ e.kind = "state" /\ e.to = "Running"
  BY <1>2, StatesFit DEF TaskStates
<1>5. StateStep("Running") = q /\ q \in Seq(Steps) /\ Len(q) = 1 /\ DOMAIN q = {1} /\ q[1] = e
      /\ q # <<>>
  BY <1>2, <1>3, <1>4 DEF StateStep
<1>6. Plan(mem, starts, q)
  BY <1>1, <1>4, <1>5 DEF Plan, Targets, Queueing, Turns, Effects, IsState, IsQueued,
    FailsNewest, TaskTerminal, TaskWaiting, AfterCancelling
<1>7. Begins(mem, starts, failed, "loop", q)
  BY <1>1, <1>4, <1>5, <1>6 DEF Begins, Looping, IsState, TaskWaiting
<1> QED BY <1>1, <1>5, <1>7, HandleKeeps

\* A task without acceptance criteria ends.
LEMMA FinishKeeps ==
  ASSUME IInv, Finish
  PROVE  TypeOK' /\ DiskFits(Replay', durable', starts') /\ MemInv' /\ SyncInv'
<1>1. Ready /\ ~failed /\ pc = "loop" /\ Handle(StateStep("CompletedUnverified"), "returned")
  BY DEF Finish, Driving, Persisted
<1>2. mem.task = "Running"
  BY <1>1, ReadyFacts
<1>3. PICK e : e = [kind |-> "state", call |-> 0, id |-> NoId, to |-> "CompletedUnverified"]
  OBVIOUS
<1>4. PICK q : q = <<e>>
  OBVIOUS
<1>5. e \in Steps /\ e.kind = "state" /\ e.to = "CompletedUnverified"
  BY <1>3, StatesFit DEF TaskStates
<1>6. /\ StateStep("CompletedUnverified") = q /\ q \in Seq(Steps)
      /\ Len(q) = 1 /\ DOMAIN q = {1} /\ q[1] = e /\ q # <<>>
  BY <1>3, <1>4, <1>5 DEF StateStep
<1>7. Plan(mem, starts, q)
  BY <1>2, <1>5, <1>6 DEF Plan, Targets, Queueing, Turns, Effects, IsState, IsQueued,
    FailsNewest, TaskTerminal, TaskWaiting, AfterCancelling
<1>8. Begins(mem, starts, failed, "returned", q)
  BY <1>1, <1>5, <1>6, <1>7 DEF Begins, Looping, IsState, TaskWaiting
<1> QED BY <1>1, <1>6, <1>8, HandleKeeps

\* The loop stops with nothing left to do.
LEMMA StopKeeps ==
  ASSUME IInv, StopOnFailure
  PROVE  TypeOK' /\ DiskFits(Replay', durable', starts') /\ MemInv' /\ SyncInv'
<1>1. Ready /\ failed /\ pc = "loop" /\ Handle(<<>>, "returned")
  BY DEF StopOnFailure, Persisted
<1>2. mem.task = "Running"
  BY <1>1, ReadyFacts
<1>3. PICK q : q = <<>>
  OBVIOUS
<1>4. q \in Seq(Steps) /\ DOMAIN q = {}
  BY <1>3
<1>5. Plan(mem, starts, q)
  BY <1>2, <1>4 DEF Plan, Targets, Queueing, Turns, Effects, TaskTerminal
<1>6. Begins(mem, starts, failed, "returned", q)
  BY <1>2, <1>3, <1>4, <1>5 DEF Begins, Looping, Misapplied
<1> QED BY <1>1, <1>3, <1>6, HandleKeeps

\* x is u followed by v.
Joined(u, v, x) ==
  /\ Len(u) \in Nat /\ Len(v) \in Nat /\ DOMAIN u = 1..Len(u) /\ DOMAIN v = 1..Len(v)
  /\ DOMAIN x = 1..(Len(u) + Len(v)) /\ Len(x) = Len(u) + Len(v)
  /\ \A k \in 1..Len(u) : x[k] = u[k]
  /\ \A k \in 1..Len(v) : x[Len(u) + k] = v[k]

\* That is what \o makes.
LEMMA Join ==
  ASSUME NEW S, NEW u \in Seq(S), NEW v \in Seq(S), NEW x, x = u \o v
  PROVE  x \in Seq(S) /\ Joined(u, v, x)
<1>1. /\ x \in Seq(S) /\ Len(x) = Len(u) + Len(v)
      /\ \A i \in 1..(Len(u) + Len(v)) :
           x[i] = IF i <= Len(u) THEN u[i] ELSE v[i - Len(u)]
  BY ConcatProperties
<1>2. /\ Len(u) \in Nat /\ Len(v) \in Nat /\ DOMAIN u = 1..Len(u) /\ DOMAIN v = 1..Len(v)
      /\ DOMAIN x = 1..Len(x)
  BY <1>1, LenProperties
<1>3. ASSUME NEW k \in 1..Len(u) PROVE x[k] = u[k]
  BY <1>1, <1>2
<1>4. ASSUME NEW k \in 1..Len(v) PROVE x[Len(u) + k] = v[k]
  <2>1. /\ Len(u) + k \in 1..(Len(u) + Len(v)) /\ ~(Len(u) + k <= Len(u))
        /\ (Len(u) + k) - Len(u) = k
    BY <1>2
  <2> QED BY <1>1, <2>1
<1> QED BY <1>1, <1>2, <1>3, <1>4 DEF Joined

\* Steps that are about the call i, or about none.
OwnSteps(m, i, q) ==
  \A k \in DOMAIN q :
    /\ q[k].kind # "queued"
    /\ q[k].kind \in {"tool", "decision", "effect", "propose"} =>
         q[k].call = i /\ q[k].id = m.calls[i].id

\* Such steps name the first call with its ID, when i is that one.
LEMMA OwnPlan ==
  ASSUME NEW m, NEW s, NEW i \in DOMAIN m.calls, i # Newest, Leader(m, i), NEW q,
         OwnSteps(m, i, q),
         \/ \A j \in DOMAIN s : j = i => s[j] = 0
         \/ \A k \in DOMAIN q : ~(q[k].kind = "tool" /\ q[k].to \in {"AwaitingApproval", "Approved"})
  PROVE  Targets(m, s, q) /\ Queueing(m, q)
<1>1. Queueing(m, q)
  BY DEF Queueing, OwnSteps, IsQueued, FailsNewest
<1>2. Targets(m, s, q)
  BY DEF Targets, OwnSteps, NotStarted
<1> QED BY <1>1, <1>2

\* y is one step followed by x: the places, counted.
AfterOne(x, y) ==
  /\ Len(y) = Len(x) + 1
  /\ Len(x) >= 1 => y[2] = x[1]
  /\ Len(x) >= 2 => y[3] = x[2]
  /\ Len(x) >= 3 => y[4] = x[3]
  /\ Len(x) >= 4 => y[5] = x[4]

\* The same for two steps.
AfterTwo(x, y) ==
  /\ Len(y) = Len(x) + 2
  /\ Len(x) >= 1 => y[3] = x[1]
  /\ Len(x) >= 2 => y[4] = x[2]
  /\ Len(x) >= 3 => y[5] = x[3]
  /\ Len(x) >= 4 => y[6] = x[4]

\* With the first or the first two, it is a sequence over S.
OneAndThen(S, a, x, y) == y \in Seq(S) /\ y[1] = a /\ AfterOne(x, y)
TwoAndThen(S, v, x, y) == y \in Seq(S) /\ y[1] = v[1] /\ y[2] = v[2] /\ AfterTwo(x, y)

\* That is what \o makes of one step,
LEMMA ShiftOne ==
  ASSUME NEW S, NEW a \in S, NEW x \in Seq(S), NEW y, y = <<a>> \o x
  PROVE  OneAndThen(S, a, x, y)
<1>1. PICK v : v = <<a>>
  OBVIOUS
<1>2. v \in Seq(S) /\ Len(v) = 1 /\ v[1] = a
  BY <1>1
<1>3. y \in Seq(S) /\ Joined(v, x, y)
  BY <1>1, <1>2, Join
<1>4. Len(x) \in Nat
  BY LenProperties
<1>5. Len(y) = Len(x) + 1 /\ y[1] = a
  BY <1>2, <1>3, <1>4 DEF Joined
<1>6. ASSUME NEW k \in {1, 2, 3, 4}, Len(x) >= k PROVE y[1 + k] = x[k]
  BY <1>2, <1>3, <1>4, <1>6 DEF Joined
<1>7. 1 + 1 = 2 /\ 1 + 2 = 3 /\ 1 + 3 = 4 /\ 1 + 4 = 5
  OBVIOUS
<1> QED BY <1>3, <1>5, <1>6, <1>7 DEF AfterOne, OneAndThen

\* of two steps as well.
LEMMA ShiftTwo ==
  ASSUME NEW S, NEW v \in Seq(S), Len(v) = 2, NEW x \in Seq(S), NEW y, y = v \o x
  PROVE  TwoAndThen(S, v, x, y)
<1>1. y \in Seq(S) /\ Joined(v, x, y)
  BY Join
<1>2. Len(x) \in Nat
  BY LenProperties
<1>3. Len(y) = Len(x) + 2 /\ y[1] = v[1] /\ y[2] = v[2]
  BY <1>1, <1>2 DEF Joined
<1>4. ASSUME NEW k \in {1, 2, 3, 4}, Len(x) >= k PROVE y[2 + k] = x[k]
  BY <1>1, <1>2, <1>4 DEF Joined
<1>5. 2 + 1 = 3 /\ 2 + 2 = 4 /\ 2 + 3 = 5 /\ 2 + 4 = 6
  OBVIOUS
<1> QED BY <1>1, <1>3, <1>4, <1>5 DEF AfterTwo, TwoAndThen

\* A step alone, or two.
LEMMA Short ==
  ASSUME NEW S, NEW a \in S, NEW b \in S
  PROVE  /\ <<a>> \in Seq(S) /\ Len(<<a>>) = 1 /\ <<a>>[1] = a
         /\ <<a, b>> \in Seq(S) /\ Len(<<a, b>>) = 2 /\ <<a, b>>[1] = a /\ <<a, b>>[2] = b
OBVIOUS

\* The state of a task that waits for the call id.
StateFor(id, x) == [kind |-> "state", call |-> 0, id |-> id, to |-> x]
WaitFor(id, x) == [kind |-> "waiting", call |-> 0, id |-> id, to |-> x]

\* A wait is two steps.
LEMMA WaitSteps ==
  ASSUME NEW id \in Ids, NEW x \in TaskStates \ {"Idle"}, NEW y \in WaitingReasons,
         NEW w, w = Waiting(x, y, id)
  PROVE  /\ StateFor(id, x) \in Steps /\ WaitFor(id, y) \in Steps
         /\ w \in Seq(Steps) /\ Len(w) = 2 /\ w[1] = StateFor(id, x) /\ w[2] = WaitFor(id, y)
<1>1. StateFor(id, x) \in Steps /\ WaitFor(id, y) \in Steps
  BY DEF StateFor, WaitFor, Steps, StepType, StepOK, Kinds, Marks
<1>2. w = <<StateFor(id, x), WaitFor(id, y)>>
  BY DEF Waiting, StateFor, WaitFor
<1> QED BY <1>1, <1>2, Short

\* What follows the approval of a call, step by step.
Runs(q, i, id, writes, yolo) ==
  /\ q[1] = ToolStep(i, id, "Running")
  /\ ~writes => Len(q) = 2 /\ q[2] = Effect(i, id)
  /\ writes =>
       /\ q[2] = Propose(i, id) /\ q[3] = ToolStep(i, id, "AwaitingChangeReview")
       /\ yolo => Len(q) = 4 /\ q[4] = Effect(i, id)
       /\ ~yolo => Len(q) = 5 /\ q[4] = StateFor(id, "WaitingChangeReview")
                   /\ q[5] = WaitFor(id, "ChangeReview")

\* That is what Run plans.
LEMMA RunSteps ==
  ASSUME NEW i \in Nat, Id(i) \in Ids, NEW yolo \in BOOLEAN, NEW q, q = Run(i, yolo)
  PROVE  q \in Seq(Steps) /\ Runs(q, i, Id(i), IsWrite(i), yolo)
<1>1. PICK a, b, c, d : /\ a = ToolStep(i, Id(i), "Running") /\ b = Effect(i, Id(i))
                        /\ c = Propose(i, Id(i))
                        /\ d = ToolStep(i, Id(i), "AwaitingChangeReview")
  OBVIOUS
<1>2. /\ "Running" \in ToolStates \ {"Proposed"}
      /\ "AwaitingChangeReview" \in ToolStates \ {"Proposed"}
      /\ "WaitingChangeReview" \in TaskStates \ {"Idle"} /\ "ChangeReview" \in WaitingReasons
  BY DEF ToolStates, TaskStates, WaitingReasons
<1>3. a \in Steps /\ b \in Steps /\ c \in Steps /\ d \in Steps
  BY <1>1, <1>2, StepsFit
<1>4. PICK w, v : w = Waiting("WaitingChangeReview", "ChangeReview", Id(i)) /\ v = <<b>>
  OBVIOUS
<1>5. q = <<a>> \o (IF ~IsWrite(i) THEN v ELSE <<c, d>> \o (IF yolo THEN v ELSE w))
  <2>1. [Effect(i, Id(i)) EXCEPT !.kind = "propose"] = c
    BY <1>1 DEF Effect, Propose
  <2> QED BY <1>1, <1>4, <2>1, Zenon DEF Run
<1>6. v \in Seq(Steps) /\ Len(v) = 1 /\ v[1] = b
  BY <1>3, <1>4, Short
<1>7. /\ w \in Seq(Steps) /\ Len(w) = 2 /\ w[1] = StateFor(Id(i), "WaitingChangeReview")
      /\ w[2] = WaitFor(Id(i), "ChangeReview")
  BY <1>2, <1>4, WaitSteps
<1>8. PICK y : y = <<c, d>>
  OBVIOUS
<1>9. y \in Seq(Steps) /\ Len(y) = 2 /\ y[1] = c /\ y[2] = d
  BY <1>3, <1>8
<1>10. CASE ~IsWrite(i)
  <2>1. q = <<a>> \o v
    BY <1>5, <1>10
  <2>2. OneAndThen(Steps, a, v, q)
    BY <1>3, <1>6, <2>1, ShiftOne
  <2>3. Len(q) = 2 /\ q[2] = b
    BY <1>6, <2>2 DEF OneAndThen, AfterOne
  <2> QED BY <1>1, <1>10, <2>2, <2>3 DEF Runs, OneAndThen
<1>11. CASE IsWrite(i)
  <2>1. PICK z : z = (IF yolo THEN v ELSE w)
    OBVIOUS
  <2>2. PICK u : u = y \o z
    OBVIOUS
  <2>3. q = <<a>> \o u /\ z \in Seq(Steps)
    BY <1>5, <1>6, <1>7, <1>11, <1>8, <2>1, <2>2
  <2>4. u \in Seq(Steps) /\ u[1] = c /\ u[2] = d /\ AfterTwo(z, u)
    <3>1. y \in Seq(Steps) /\ Len(y) = 2 /\ z \in Seq(Steps) /\ u = y \o z
      BY <1>9, <2>2, <2>3
    <3>2. TwoAndThen(Steps, y, z, u)
      BY <3>1, ShiftTwo
    <3> QED BY <1>9, <3>2 DEF TwoAndThen
  <2>5. q \in Seq(Steps) /\ q[1] = a /\ AfterOne(u, q)
    <3>1. OneAndThen(Steps, a, u, q)
      BY <1>3, <2>3, <2>4, ShiftOne
    <3> QED BY <3>1 DEF OneAndThen
  <2>6. CASE yolo
    <3>1. Len(z) = 1 /\ z[1] = b
      BY <1>6, <2>1, <2>6
    <3>2. Len(u) = 3 /\ u[3] = b
      BY <2>4, <3>1 DEF AfterTwo
    <3>3. Len(q) = 4 /\ q[2] = c /\ q[3] = d /\ q[4] = b
      BY <2>4, <2>5, <3>2 DEF AfterOne
    <3> QED BY <1>1, <1>11, <2>5, <2>6, <3>3 DEF Runs
  <2>7. CASE ~yolo
    <3>1. Len(z) = 2 /\ z[1] = w[1] /\ z[2] = w[2]
      BY <1>7, <2>1, <2>7
    <3>2. Len(u) = 4 /\ u[3] = w[1] /\ u[4] = w[2]
      BY <2>4, <3>1 DEF AfterTwo
    <3>3. Len(q) = 5 /\ q[2] = c /\ q[3] = d /\ q[4] = w[1] /\ q[5] = w[2]
      BY <2>4, <2>5, <3>2 DEF AfterOne
    <3> QED BY <1>1, <1>7, <1>11, <2>5, <2>7, <3>3 DEF Runs
  <2> QED BY <2>6, <2>7
<1> QED BY <1>10, <1>11

----------------------------------------------------------------------------
(* Handlers of one call *)

\* A call may be taken up: it is open and the first one that has its ID.
Takes(i, state) ==
  /\ i \in DOMAIN mem.calls /\ mem.calls[i].id \in Ids /\ i \in Nat /\ i # Newest
  /\ mem.calls[i].state = state /\ Leader(mem, i)
  /\ state \notin Spent => \A j \in DOMAIN starts : j = i => starts[j] = 0

\* That is so for every call that waits for the loop or the user.
LEMMA TakesUp ==
  ASSUME IInv, Ready, mem.task \in Live, NEW i \in DOMAIN mem.calls, NEW state,
         mem.calls[i].state = state, state \notin Closed
  PROVE  Takes(i, state)
<1>1. /\ mem \in Memory /\ starts \in [1..MaxCalls -> Nat]
      /\ AllSpent(mem, starts) /\ LaterClosed(mem)
      /\ mem.calls[i].id \in Ids /\ i \in Nat /\ i # Newest
  BY ReadyFacts
<1>2. /\ Leader(mem, i)
      /\ mem.calls[i].state \notin Spent => \A j \in DOMAIN starts : j = i => starts[j] = 0
  BY <1>1, OpenCall
<1> QED BY <1>1, <1>2 DEF Takes

\* q is what asks the user about a call.
Asks(q, i, id) ==
  /\ Len(q) = 3 /\ DOMAIN q = {1, 2, 3}
  /\ q[1] = ToolStep(i, id, "AwaitingApproval")
  /\ q[2] = StateFor(id, "WaitingApproval") /\ q[3] = WaitFor(id, "Approval")

\* The user is asked.
LEMMA AskKeeps ==
  ASSUME IInv, NEW i \in DOMAIN mem.calls, AskApproval(i)
  PROVE  TypeOK' /\ DiskFits(Replay', durable', starts') /\ MemInv' /\ SyncInv'
<1>1. PICK a, w : /\ a = ToolStep(i, Id(i), "AwaitingApproval")
                  /\ w = Waiting("WaitingApproval", "Approval", Id(i))
  OBVIOUS
<1>2. PICK q : q = <<a>> \o w
  OBVIOUS
<1>3. /\ Ready /\ ~failed /\ pc = "loop" /\ mem.calls[i].state = "Proposed"
      /\ Handle(q, "returned")
  BY <1>1, <1>2, Zenon DEF AskApproval, Driving, Persisted
<1>4. mem.task = "Running"
  BY <1>3, ReadyFacts
<1>5. Takes(i, "Proposed")
  BY <1>3, <1>4, TakesUp DEF Live, Closed, ToolTerminal
<1>6. Id(i) = mem.calls[i].id /\ Id(i) \in Ids /\ i \in Nat /\ i # Newest
  BY <1>5 DEF Takes, Id
<1>7. q \in Seq(Steps) /\ Asks(q, i, Id(i))
  <2>1. a \in Steps
    BY <1>1, <1>6, StepsFit DEF ToolStates
  <2>2. /\ w \in Seq(Steps) /\ Len(w) = 2 /\ w[1] = StateFor(Id(i), "WaitingApproval")
        /\ w[2] = WaitFor(Id(i), "Approval")
    BY <1>1, <1>6, WaitSteps DEF TaskStates, WaitingReasons
  <2>3. OneAndThen(Steps, a, w, q)
    BY <1>2, <2>1, <2>2, ShiftOne
  <2>4. Len(q) = 3 /\ q[2] = w[1] /\ q[3] = w[2]
    BY <2>2, <2>3 DEF OneAndThen, AfterOne
  <2>5. DOMAIN q = {1, 2, 3}
    BY <2>3, <2>4, LenProperties DEF OneAndThen
  <2> QED BY <1>1, <2>2, <2>3, <2>4, <2>5 DEF Asks, OneAndThen
<1>8. /\ Len(q) = 3 /\ DOMAIN q = {1, 2, 3}
      /\ q[1].kind = "tool" /\ q[1].call = i /\ q[1].id = mem.calls[i].id
      /\ q[1].to = "AwaitingApproval"
      /\ q[2].kind = "state" /\ q[2].to = "WaitingApproval"
      /\ q[3].kind = "waiting" /\ q[3].to = "Approval"
  BY <1>6, <1>7 DEF Asks, ToolStep, StateFor, WaitFor
<1>9. Targets(mem, starts, q) /\ Queueing(mem, q)
  <2>1. OwnSteps(mem, i, q)
    BY <1>8 DEF OwnSteps
  <2> QED BY <1>5, <2>1, OwnPlan DEF Takes, Spent, Closed, ToolTerminal
<1>10. Turns(mem, q)
  BY <1>4, <1>8 DEF Turns, IsState, TaskTerminal, TaskWaiting
<1>11. Effects(mem, starts, q)
  BY <1>8 DEF Effects
<1>12. Begins(mem, starts, failed, "returned", q)
  BY <1>3, <1>7, <1>8, <1>9, <1>10, <1>11 DEF Begins, Plan, Looping
<1> QED BY <1>3, <1>12, HandleKeeps

\* A plan about one call need only be looked at for its turns and its effects.
LEMMA TakenPlan ==
  ASSUME NEW i, NEW state, Takes(i, state),
         NEW q, OwnSteps(mem, i, q),
         \/ state \notin Spent
         \/ \A k \in DOMAIN q : ~(q[k].kind = "tool" /\ q[k].to \in {"AwaitingApproval", "Approved"})
  PROVE  Targets(mem, starts, q) /\ Queueing(mem, q)
BY OwnPlan DEF Takes

\* An approved call is carried out.
LEMMA ExecuteKeeps ==
  ASSUME IInv, NEW i \in DOMAIN mem.calls, NEW yolo \in BOOLEAN, Execute(i, yolo)
  PROVE  TypeOK' /\ DiskFits(Replay', durable', starts') /\ MemInv' /\ SyncInv'
<1>1. PICK q, next : q = Run(i, yolo) /\ next = (IF IsWrite(i) /\ ~yolo THEN "returned" ELSE "loop")
  OBVIOUS
<1>2. /\ Ready /\ ~failed /\ pc = "loop" /\ mem.calls[i].state = "Approved"
      /\ Handle(q, next) /\ next \in {"returned", "loop"}
  BY <1>1, Zenon DEF Execute, Driving, Persisted
<1>3. mem.task = "Running"
  BY <1>2, ReadyFacts
<1>4. Takes(i, "Approved")
  BY <1>2, <1>3, TakesUp DEF Live, Closed, ToolTerminal
<1>5. /\ Id(i) = mem.calls[i].id /\ Id(i) \in Ids /\ i \in Nat /\ i # Newest
      /\ \A j \in DOMAIN starts : j = i => starts[j] = 0
  BY <1>4 DEF Takes, Id, Spent, Closed, ToolTerminal
<1>6. q \in Seq(Steps) /\ Runs(q, i, Id(i), IsWrite(i), yolo)
  BY <1>1, <1>5, RunSteps
<1>7. DOMAIN q = 1..Len(q) /\ Len(q) \in Nat
  BY <1>6, LenProperties
<1>8. /\ q[1].kind = "tool" /\ q[1].call = i /\ q[1].id = mem.calls[i].id
      /\ q[1].to = "Running"
  BY <1>5, <1>6 DEF Runs, ToolStep
<1>9. CASE ~IsWrite(i)
  <2>1. /\ Len(q) = 2 /\ DOMAIN q = {1, 2}
        /\ q[2].kind = "effect" /\ q[2].call = i /\ q[2].id = mem.calls[i].id
    BY <1>5, <1>6, <1>7, <1>9 DEF Runs, Effect
  <2>2. OwnSteps(mem, i, q)
    BY <1>8, <2>1 DEF OwnSteps
  <2>3. Targets(mem, starts, q) /\ Queueing(mem, q)
    BY <1>4, <1>8, <2>2, TakenPlan DEF Spent, Closed, ToolTerminal
  <2>4. Turns(mem, q)
    BY <1>3, <1>8, <2>1 DEF Turns, IsState, TaskTerminal
  <2>5. Effects(mem, starts, q)
    BY <1>3, <1>5, <1>8, <2>1 DEF Effects, NotStarted
  <2> QED BY <1>2, <1>3, <1>6, <1>8, <2>1, <2>3, <2>4, <2>5, HandleKeeps
          DEF Begins, Plan, Looping, IsState
<1>10. CASE IsWrite(i) /\ yolo
  <2>1. /\ Len(q) = 4 /\ DOMAIN q = {1, 2, 3, 4}
        /\ q[2].kind = "propose" /\ q[2].call = i /\ q[2].id = mem.calls[i].id
        /\ q[3].kind = "tool" /\ q[3].call = i /\ q[3].id = mem.calls[i].id
        /\ q[3].to = "AwaitingChangeReview"
        /\ q[4].kind = "effect" /\ q[4].call = i /\ q[4].id = mem.calls[i].id
    BY <1>5, <1>6, <1>7, <1>10 DEF Runs, Propose, ToolStep, Effect
  <2>2. OwnSteps(mem, i, q)
    BY <1>8, <2>1 DEF OwnSteps
  <2>3. Targets(mem, starts, q) /\ Queueing(mem, q)
    BY <1>4, <1>8, <2>1, <2>2, TakenPlan DEF Spent, Closed, ToolTerminal
  <2>4. Turns(mem, q)
    BY <1>3, <1>8, <2>1 DEF Turns, IsState, TaskTerminal
  <2>5. Effects(mem, starts, q)
    BY <1>3, <1>5, <1>8, <1>10, <2>1 DEF Effects, NotStarted, IsWrite
  <2> QED BY <1>2, <1>3, <1>6, <1>8, <2>1, <2>3, <2>4, <2>5, HandleKeeps
          DEF Begins, Plan, Looping, IsState
<1>11. CASE IsWrite(i) /\ ~yolo
  <2>1. /\ Len(q) = 5 /\ DOMAIN q = {1, 2, 3, 4, 5}
        /\ q[2].kind = "propose" /\ q[2].call = i /\ q[2].id = mem.calls[i].id
        /\ q[3].kind = "tool" /\ q[3].call = i /\ q[3].id = mem.calls[i].id
        /\ q[3].to = "AwaitingChangeReview"
        /\ q[4].kind = "state" /\ q[4].to = "WaitingChangeReview"
        /\ q[5].kind = "waiting"
    BY <1>5, <1>6, <1>7, <1>11 DEF Runs, Propose, ToolStep, StateFor, WaitFor
  <2>2. OwnSteps(mem, i, q)
    BY <1>8, <2>1 DEF OwnSteps
  <2>3. Targets(mem, starts, q) /\ Queueing(mem, q)
    BY <1>4, <1>8, <2>1, <2>2, TakenPlan DEF Spent, Closed, ToolTerminal
  <2>4. Turns(mem, q)
    BY <1>3, <1>8, <2>1 DEF Turns, IsState, TaskTerminal, TaskWaiting
  <2>5. Effects(mem, starts, q)
    BY <1>3, <1>5, <1>8, <1>11, <2>1 DEF Effects, NotStarted, IsWrite
  <2>6. next = "returned"
    BY <1>1, <1>11
  <2> QED BY <1>2, <1>3, <1>6, <1>8, <2>1, <2>3, <2>4, <2>5, <2>6, HandleKeeps
          DEF Begins, Plan, Looping, IsState
<1> QED BY <1>9, <1>10, <1>11

\* The policy approves a call, which is carried out at once.
LEMMA PolicyKeeps ==
  ASSUME IInv, NEW i \in DOMAIN mem.calls, ApproveByPolicy(i)
  PROVE  TypeOK' /\ DiskFits(Replay', durable', starts') /\ MemInv' /\ SyncInv'
<1>1. PICK r, v : /\ r = Run(i, TRUE)
                  /\ v = <<Decision(i, Id(i), "Policy"), ToolStep(i, Id(i), "Approved")>>
  OBVIOUS
<1>2. PICK q : q = v \o r
  OBVIOUS
<1>3. /\ Ready /\ ~failed /\ pc = "loop" /\ mem.calls[i].state = "Proposed"
      /\ Handle(q, "loop")
  BY <1>1, <1>2, Zenon DEF ApproveByPolicy, Driving, Persisted
<1>4. mem.task = "Running"
  BY <1>3, ReadyFacts
<1>5. Takes(i, "Proposed")
  BY <1>3, <1>4, TakesUp DEF Live, Closed, ToolTerminal
<1>6. /\ Id(i) = mem.calls[i].id /\ Id(i) \in Ids /\ i \in Nat /\ i # Newest
      /\ \A j \in DOMAIN starts : j = i => starts[j] = 0
  BY <1>5 DEF Takes, Id, Spent, Closed, ToolTerminal
<1>7. r \in Seq(Steps) /\ Runs(r, i, Id(i), IsWrite(i), TRUE)
  BY <1>1, <1>6, RunSteps
<1>8. /\ v \in Seq(Steps) /\ Len(v) = 2 /\ v[1] = Decision(i, Id(i), "Policy")
      /\ v[2] = ToolStep(i, Id(i), "Approved")
  <2>1. Decision(i, Id(i), "Policy") \in Steps /\ ToolStep(i, Id(i), "Approved") \in Steps
    BY <1>6, StepsFit DEF Decisions, ToolStates
  <2> QED BY <1>1, <2>1
<1>9. TwoAndThen(Steps, v, r, q)
  BY <1>2, <1>7, <1>8, ShiftTwo
<1>10. q \in Seq(Steps) /\ DOMAIN q = 1..Len(q) /\ Len(q) \in Nat /\ Len(r) \in Nat
  BY <1>7, <1>9, LenProperties DEF TwoAndThen
<1>11. /\ q[1].kind = "decision" /\ q[1].call = i /\ q[1].id = mem.calls[i].id
       /\ q[2].kind = "tool" /\ q[2].call = i /\ q[2].id = mem.calls[i].id
  BY <1>6, <1>8, <1>9 DEF TwoAndThen, Decision, ToolStep
<1>12. CASE ~IsWrite(i)
  <2>1. Len(r) = 2 /\ r[1] = ToolStep(i, Id(i), "Running") /\ r[2] = Effect(i, Id(i))
    BY <1>7, <1>12 DEF Runs
  <2>2. Len(q) = 4 /\ q[3] = r[1] /\ q[4] = r[2]
    BY <1>9, <2>1 DEF TwoAndThen, AfterTwo
  <2>3. /\ DOMAIN q = {1, 2, 3, 4}
        /\ q[3].kind = "tool" /\ q[3].call = i /\ q[3].id = mem.calls[i].id
        /\ q[3].to = "Running"
        /\ q[4].kind = "effect" /\ q[4].call = i /\ q[4].id = mem.calls[i].id
    BY <1>6, <1>10, <2>1, <2>2 DEF ToolStep, Effect
  <2>4. OwnSteps(mem, i, q)
    BY <1>11, <2>3 DEF OwnSteps
  <2>5. Targets(mem, starts, q) /\ Queueing(mem, q)
    BY <1>5, <2>4, TakenPlan DEF Spent, Closed, ToolTerminal
  <2>6. Turns(mem, q)
    BY <1>4, <1>11, <2>3 DEF Turns, IsState, TaskTerminal
  <2>7. Effects(mem, starts, q)
    BY <1>4, <1>6, <1>11, <2>2, <2>3 DEF Effects, NotStarted
  <2> QED BY <1>3, <1>4, <1>10, <1>11, <2>3, <2>5, <2>6, <2>7, HandleKeeps
          DEF Begins, Plan, Looping, IsState
<1>13. CASE IsWrite(i)
  <2>1. /\ Len(r) = 4 /\ r[1] = ToolStep(i, Id(i), "Running") /\ r[2] = Propose(i, Id(i))
        /\ r[3] = ToolStep(i, Id(i), "AwaitingChangeReview") /\ r[4] = Effect(i, Id(i))
    BY <1>7, <1>13 DEF Runs
  <2>2. Len(q) = 6 /\ q[3] = r[1] /\ q[4] = r[2] /\ q[5] = r[3] /\ q[6] = r[4]
    BY <1>9, <2>1 DEF TwoAndThen, AfterTwo
  <2>3. /\ DOMAIN q = {1, 2, 3, 4, 5, 6}
        /\ q[3].kind = "tool" /\ q[3].call = i /\ q[3].id = mem.calls[i].id
        /\ q[3].to = "Running"
        /\ q[4].kind = "propose" /\ q[4].call = i /\ q[4].id = mem.calls[i].id
        /\ q[5].kind = "tool" /\ q[5].call = i /\ q[5].id = mem.calls[i].id
        /\ q[5].to = "AwaitingChangeReview"
        /\ q[6].kind = "effect" /\ q[6].call = i /\ q[6].id = mem.calls[i].id
    BY <1>6, <1>10, <2>1, <2>2 DEF ToolStep, Propose, Effect
  <2>4. OwnSteps(mem, i, q)
    BY <1>11, <2>3 DEF OwnSteps
  <2>5. Targets(mem, starts, q) /\ Queueing(mem, q)
    BY <1>5, <2>4, TakenPlan DEF Spent, Closed, ToolTerminal
  <2>6. Turns(mem, q)
    BY <1>4, <1>11, <2>3 DEF Turns, IsState, TaskTerminal
  <2>7. Effects(mem, starts, q)
    BY <1>4, <1>6, <1>11, <1>13, <2>2, <2>3 DEF Effects, NotStarted, IsWrite
  <2> QED BY <1>3, <1>4, <1>10, <1>11, <2>3, <2>5, <2>6, <2>7, HandleKeeps
          DEF Begins, Plan, Looping, IsState
<1> QED BY <1>12, <1>13

\* The user approves a call or refuses it.
LEMMA ResolveKeeps ==
  ASSUME IInv, NEW i \in DOMAIN mem.calls, NEW approved \in BOOLEAN,
         ResolveApproval(i, approved)
  PROVE  TypeOK' /\ DiskFits(Replay', durable', starts') /\ MemInv' /\ SyncInv'
<1>1. PICK w, e : w = StateStep("Running")
                  /\ e = [kind |-> "state", call |-> 0, id |-> NoId, to |-> "Running"]
  OBVIOUS
<1>2. PICK u : u = (IF approved
             THEN <<Decision(i, Id(i), "User"), ToolStep(i, Id(i), "Approved")>>
             ELSE <<Decision(i, Id(i), "Refused"), ToolStep(i, Id(i), "Denied"), Answer(Id(i))>>)
  OBVIOUS
<1>3. PICK q : q = u \o w
  OBVIOUS
<1>4. /\ Ready /\ mem.task = "WaitingApproval" /\ mem.calls[i].state = "AwaitingApproval"
      /\ Handle(q, "loop")
  BY <1>1, <1>2, <1>3, Zenon DEF ResolveApproval, Returned
<1>5. Takes(i, "AwaitingApproval")
  BY <1>4, TakesUp DEF Live, TaskWaiting, Closed, ToolTerminal
<1>6. /\ Id(i) = mem.calls[i].id /\ Id(i) \in Ids /\ i \in Nat /\ i # Newest
  BY <1>5 DEF Takes, Id
<1>7. w \in Seq(Steps) /\ Len(w) = 1 /\ w[1].kind = "state" /\ w[1].to = "Running"
  <2>1. e \in Steps /\ e.kind = "state" /\ e.to = "Running" /\ w = <<e>>
    BY <1>1, StatesFit DEF TaskStates, StateStep
  <2> QED BY <2>1
<1>8. CASE approved
  <2>1. PICK a, b : a = Decision(i, Id(i), "User") /\ b = ToolStep(i, Id(i), "Approved")
    OBVIOUS
  <2>2. a \in Steps /\ b \in Steps /\ u = <<a, b>>
    BY <1>2, <1>6, <1>8, <2>1, StepsFit DEF Decisions, ToolStates
  <2>3. u \in Seq(Steps) /\ Len(u) = 2 /\ u[1] = a /\ u[2] = b
    BY <2>2
  <2>4. q \in Seq(Steps) /\ Joined(u, w, q)
    BY <1>3, <1>7, <2>3, Join
  <2>5. Len(q) = 3 /\ DOMAIN q = {1, 2, 3} /\ q[1] = a /\ q[2] = b /\ q[2 + 1] = w[1]
    BY <1>7, <2>3, <2>4 DEF Joined
  <2>6. /\ q[1].kind = "decision" /\ q[1].call = i /\ q[1].id = mem.calls[i].id
        /\ q[2].kind = "tool" /\ q[2].call = i /\ q[2].id = mem.calls[i].id
        /\ q[3].kind = "state" /\ q[3].to = "Running"
    BY <1>6, <1>7, <2>1, <2>5 DEF Decision, ToolStep
  <2>7. OwnSteps(mem, i, q)
    BY <2>5, <2>6 DEF OwnSteps
  <2>8. Targets(mem, starts, q) /\ Queueing(mem, q)
    BY <1>5, <2>7, TakenPlan DEF Spent, Closed, ToolTerminal
  <2>9. Turns(mem, q)
    BY <1>4, <2>5, <2>6 DEF Turns, IsState, TaskTerminal, TaskWaiting
  <2>10. Effects(mem, starts, q)
    BY <2>5, <2>6 DEF Effects
  <2>11. Looping(mem, {}, "loop", q)
    <3>1. q # <<>> /\ q[Len(q)].kind = "state" /\ q[Len(q)].to = "Running"
      <4>1. Len(q) # 0
        BY <2>5
      <4>2. q # <<>>
        BY <2>4, <4>1, EmptySeq
      <4> QED BY <2>5, <2>6, <4>2
    <3> QED BY <3>1 DEF Looping, IsState
  <2>12. Begins(mem, starts, failed, "loop", q)
    BY <1>4, <2>4, <2>5, <2>6, <2>8, <2>9, <2>10, <2>11 DEF Begins, Plan, IsState, TaskWaiting
  <2> QED BY <1>4, <2>12, HandleKeeps
<1>9. CASE ~approved
  <2>1. PICK a, b, c : /\ a = Decision(i, Id(i), "Refused") /\ b = ToolStep(i, Id(i), "Denied")
                       /\ c = Answer(Id(i))
    OBVIOUS
  <2>2. a \in Steps /\ b \in Steps /\ c \in Steps /\ u = <<a, b, c>>
    BY <1>2, <1>6, <1>9, <2>1, StepsFit DEF Decisions, ToolStates
  <2>3. u \in Seq(Steps) /\ Len(u) = 3 /\ u[1] = a /\ u[2] = b /\ u[3] = c
    BY <2>2
  <2>4. q \in Seq(Steps) /\ Joined(u, w, q)
    BY <1>3, <1>7, <2>3, Join
  <2>5. /\ Len(q) = 4 /\ DOMAIN q = {1, 2, 3, 4}
        /\ q[1] = a /\ q[2] = b /\ q[3] = c /\ q[3 + 1] = w[1]
    BY <1>7, <2>3, <2>4 DEF Joined
  <2>6. /\ q[1].kind = "decision" /\ q[1].call = i /\ q[1].id = mem.calls[i].id
        /\ q[2].kind = "tool" /\ q[2].call = i /\ q[2].id = mem.calls[i].id
        /\ q[2].to = "Denied" /\ q[3].kind = "message"
        /\ q[4].kind = "state" /\ q[4].to = "Running"
    BY <1>6, <1>7, <2>1, <2>5 DEF Decision, ToolStep, Answer
  <2>7. OwnSteps(mem, i, q)
    BY <2>5, <2>6 DEF OwnSteps
  <2>8. Targets(mem, starts, q) /\ Queueing(mem, q)
    BY <1>5, <2>7, TakenPlan DEF Spent, Closed, ToolTerminal
  <2>9. Turns(mem, q)
    BY <1>4, <2>5, <2>6 DEF Turns, IsState, TaskTerminal, TaskWaiting
  <2>10. Effects(mem, starts, q)
    BY <2>5, <2>6 DEF Effects
  <2>11. Looping(mem, {}, "loop", q)
    <3>1. q # <<>> /\ q[Len(q)].kind = "state" /\ q[Len(q)].to = "Running"
      <4>1. Len(q) # 0
        BY <2>5
      <4>2. q # <<>>
        BY <2>4, <4>1, EmptySeq
      <4> QED BY <2>5, <2>6, <4>2
    <3> QED BY <3>1 DEF Looping, IsState
  <2>12. Begins(mem, starts, failed, "loop", q)
    BY <1>4, <2>4, <2>5, <2>6, <2>8, <2>9, <2>10, <2>11 DEF Begins, Plan, IsState, TaskWaiting
  <2> QED BY <1>4, <2>12, HandleKeeps
<1> QED BY <1>8, <1>9

\* The wait for a review gets another reason.
LEMMA ConflictKeeps ==
  ASSUME IInv, NEW i \in DOMAIN mem.calls, ReviewConflict(i)
  PROVE  TypeOK' /\ DiskFits(Replay', durable', starts') /\ MemInv' /\ SyncInv'
<1>1. PICK a, b, w : /\ a = StateFor(Id(i), "WaitingChangeReview")
                     /\ b = WaitFor(Id(i), "Conflict")
                     /\ w = Waiting("WaitingChangeReview", "Conflict", Id(i))
  OBVIOUS
<1>2. PICK q : q = Tail(w)
  OBVIOUS
<1>3. /\ Ready /\ mem.task = "WaitingChangeReview" /\ ~failed
      /\ mem.calls[i].state = "AwaitingChangeReview" /\ Handle(q, "returned")
  BY <1>1, <1>2, Zenon DEF ReviewConflict, Returned, Persisted
<1>4. Takes(i, "AwaitingChangeReview")
  BY <1>3, TakesUp DEF Live, TaskWaiting, Closed, ToolTerminal
<1>5. Id(i) \in Ids
  BY <1>4 DEF Takes, Id
<1>6. w \in Seq(Steps) /\ Len(w) = 2 /\ w[2] = b
  BY <1>1, <1>5, WaitSteps DEF TaskStates, WaitingReasons
<1>7. q \in Seq(Steps) /\ Len(q) = 1 /\ DOMAIN q = {1} /\ q[1] = b
  <2>1. w # <<>>
    BY <1>6
  <2>2. q \in Seq(Steps) /\ Rest(w, q)
    BY <1>2, <1>6, <2>1, TailIsRest
  <2>3. Len(q) = 1 /\ DOMAIN q = {1} /\ q[1] = w[1 + 1]
    BY <1>6, <2>2 DEF Rest
  <2> QED BY <1>6, <2>2, <2>3
<1>8. q[1].kind = "waiting"
  BY <1>1, <1>7 DEF WaitFor
<1>9. OwnSteps(mem, i, q)
  BY <1>7, <1>8 DEF OwnSteps
<1>10. Targets(mem, starts, q) /\ Queueing(mem, q)
  BY <1>4, <1>7, <1>8, <1>9, TakenPlan
<1>11. Turns(mem, q)
  BY <1>3, <1>7, <1>8 DEF Turns, IsState, TaskTerminal, TaskWaiting
<1>12. Effects(mem, starts, q)
  BY <1>7, <1>8 DEF Effects
<1>13. Begins(mem, starts, failed, "returned", q)
  BY <1>3, <1>7, <1>8, <1>10, <1>11, <1>12 DEF Begins, Plan, Looping, IsState
<1> QED BY <1>3, <1>13, HandleKeeps

\* q is how a side effect of the call i ends, and whether the task runs again.
Ends(q, i, id, outcome, again) ==
  /\ q[1] = ToolStep(i, id, outcome) /\ q[2] = Answer(id)
  /\ ~again => Len(q) = 2
  /\ again => Len(q) = 3 /\ q[3].kind = "state" /\ q[3].to = "Running"

\* The side effect is over.
LEMMA EndKeeps ==
  ASSUME IInv, NEW i \in DOMAIN mem.calls, NEW outcome \in {"Succeeded", "Failed"},
         EndEffect(i, outcome)
  PROVE  TypeOK' /\ DiskFits(Replay', durable', starts') /\ MemInv' /\ SyncInv'
<1>1. PICK again \in BOOLEAN : again <=> mem.task = "WaitingChangeReview"
  OBVIOUS
<1>2. PICK v, w : v = <<ToolStep(i, Id(i), outcome), Answer(Id(i))>>
                  /\ w = (IF again THEN StateStep("Running") ELSE <<>>)
  OBVIOUS
<1>3. PICK q : q = v \o w
  OBVIOUS
<1>4. /\ up /\ effect = {i} /\ todo' = q /\ effect' = {} /\ proposals' = proposals \ {i}
      /\ mem' = mem /\ emitted' = emitted /\ saving' = saving /\ failed' = failed /\ pc' = pc
      /\ log' = log /\ snap' = snap /\ up' = up /\ starts' = starts /\ durable' = durable
  <2>1. todo' = q
    BY <1>1, <1>2, <1>3, Zenon DEF EndEffect
  <2> QED BY <2>1 DEF EndEffect, diskVars, historyVars
<1>5. /\ todo = <<>> /\ ~saving /\ mem \in Memory /\ Leader(mem, i)
      /\ mem.task \in {"Running", "WaitingChangeReview"}
      /\ Fits(mem, starts, todo) /\ Proposing(mem, starts, {i}, proposals)
  <2>1. Executing(mem, effect, Replay, snap.mem.task) /\ effect # {} /\ i \in effect
    BY <1>4 DEF IInv, MemInv
  <2> QED BY <1>4, <2>1 DEF IInv, MemInv, Executing, TypeOK
<1>6. Replay' = Replay
  BY <1>4, ReplaySame
<1>7. Id(i) = mem.calls[i].id /\ Id(i) \in Ids /\ i \in Nat /\ i # Newest
  <2>1. mem.calls[i] \in Call /\ DOMAIN mem.calls = 1..Len(mem.calls) /\ Len(mem.calls) \in Nat
    BY <1>5, Calls
  <2> QED BY <2>1 DEF Call, Newest, Id
<1>8. q \in Seq(Steps) /\ Ends(q, i, Id(i), outcome, again)
  <2>1. PICK a, b : a = ToolStep(i, Id(i), outcome) /\ b = Answer(Id(i))
    OBVIOUS
  <2>2. a \in Steps /\ b \in Steps /\ v = <<a, b>>
    BY <1>2, <1>7, <2>1, StepsFit DEF ToolStates
  <2>3. v \in Seq(Steps) /\ Len(v) = 2 /\ v[1] = a /\ v[2] = b
    BY <2>2
  <2>4. /\ w \in Seq(Steps)
        /\ ~again => Len(w) = 0
        /\ again => Len(w) = 1 /\ w[1].kind = "state" /\ w[1].to = "Running"
    <3>1. CASE again
      <4>1. PICK e : e = [kind |-> "state", call |-> 0, id |-> NoId, to |-> "Running"]
        OBVIOUS
      <4>2. e \in Steps /\ e.kind = "state" /\ e.to = "Running" /\ w = <<e>>
        BY <1>2, <3>1, <4>1, StatesFit DEF TaskStates, StateStep
      <4> QED BY <3>1, <4>2
    <3>2. CASE ~again
      BY <1>2, <3>2
    <3> QED BY <3>1, <3>2
  <2>5. q \in Seq(Steps) /\ Joined(v, w, q)
    BY <1>3, <2>3, <2>4, Join
  <2>6. ~again => Len(q) = 2
    BY <2>3, <2>4, <2>5 DEF Joined
  <2>7. again => Len(q) = 3 /\ q[2 + 1] = w[1]
    <3> SUFFICES ASSUME again PROVE Len(q) = 3 /\ q[2 + 1] = w[1]
      OBVIOUS
    <3>1. /\ Len(q) = Len(v) + Len(w) /\ Len(w) = 1
          /\ \A k \in 1..Len(w) : q[Len(v) + k] = w[k]
      BY <2>4, <2>5 DEF Joined
    <3>2. Len(q) = 3 /\ q[Len(v) + 1] = w[1]
      BY <2>3, <3>1
    <3> QED BY <2>3, <3>2
  <2>8. q[1] = a /\ q[2] = b
    BY <2>3, <2>5 DEF Joined
  <2> QED BY <2>1, <2>4, <2>5, <2>6, <2>7, <2>8 DEF Ends
<1>9. /\ DOMAIN q = 1..Len(q) /\ Len(q) \in {2, 3}
      /\ q[1].kind = "tool" /\ q[1].call = i /\ q[1].id = mem.calls[i].id
      /\ q[1].to = outcome /\ q[2].kind = "message"
      /\ 3 \in DOMAIN q => again /\ q[3].kind = "state" /\ q[3].to = "Running"
      /\ again => Len(q) = 3
  BY <1>7, <1>8, LenProperties DEF Ends, ToolStep, Answer
<1>10. DOMAIN q \subseteq {1, 2, 3} /\ 1 \in DOMAIN q
  BY <1>9
<1>11. Plan(mem, starts, q)
  <2>1. OwnSteps(mem, i, q)
    BY <1>9, <1>10 DEF OwnSteps
  <2>2. \A k \in DOMAIN q : ~(q[k].kind = "tool" /\ q[k].to \in {"AwaitingApproval", "Approved"})
    BY <1>9, <1>10
  <2>3. Targets(mem, starts, q) /\ Queueing(mem, q)
    BY <1>5, <1>7, <2>1, <2>2, OwnPlan
  <2>4. Turns(mem, q)
    BY <1>5, <1>9, <1>10 DEF Turns, IsState, TaskTerminal, TaskWaiting
  <2>5. Effects(mem, starts, q)
    BY <1>9, <1>10 DEF Effects
  <2> QED BY <2>3, <2>4, <2>5 DEF Plan
<1>12. TypeOK'
  BY <1>4, <1>6, <1>8 DEF IInv, TypeOK
<1>13. MemInv'
  <2>1. Fits(mem, starts, q)
    <3>1. ~NewestFails(todo)
      BY <1>5 DEF NewestFails
    <3> QED BY <1>5, <3>1 DEF Fits, MostlyClosed
  <2>2. Looping(mem, {}, pc, q)
    <3>1. CASE again
      <4>1. 3 \in DOMAIN q /\ Len(q) = 3 /\ q # <<>>
        BY <1>9, <1>10, <3>1
      <4> QED BY <1>9, <4>1 DEF Looping, IsState
    <3>2. CASE ~again
      BY <1>1, <1>5, <1>9, <1>10, <3>2 DEF Looping
    <3> QED BY <3>1, <3>2
  <2>3. Proposing(mem, starts, {}, proposals \ {i})
    BY <1>5 DEF Proposing
  <2>4. Executing(mem', effect', Replay', snap'.mem.task)
    BY <1>4 DEF Executing
  <2> QED BY <1>4, <1>11, <2>1, <2>2, <2>3, <2>4 DEF IInv, MemInv, AtMostOnce
<1>14. SyncInv'
  <2>1. NoGap' = NoGap
    BY <1>4 DEF NoGap
  <2>2. NoGap /\ mem.task \in Live => SameCalls(Replay, mem)
    BY <1>4 DEF IInv, SyncInv
  <2>3. \A k \in DOMAIN q : ~IsState(q[k], TaskWaiting)
    BY <1>9, <1>10 DEF IsState, TaskWaiting
  <2> QED BY <1>4, <1>5, <1>6, <1>9, <2>1, <2>2, <2>3 DEF IInv, SyncInv
<1> QED BY <1>4, <1>6, <1>12, <1>13, <1>14 DEF IInv

----------------------------------------------------------------------------
(* Cancelling *)

\* How cancel ends the calls that are not over.
Ending(m) ==
  {e \in Steps : e.kind = "tool" /\ e.call \in DOMAIN m.calls /\ e.call # Newest
                   /\ e.id = m.calls[e.call].id /\ e.to \in {"Cancelled", "Unknown"}}

Messages == {e \in Steps : e.kind = "message"}

\* What LET names in Cancel.
RunningCalls == {i \in Unfinished : mem.calls[i].state = "Running"}
OverCalls(confirmed) == {i \in DOMAIN mem.calls : i \notin RunningCalls \/ ~confirmed}
Missing(confirmed) == {i \in OverCalls(confirmed) : Id(i) \notin ToSet(mem.history)}
Each(S, state) ==
  FlattenSeq([i \in DOMAIN mem.calls |->
                IF i \in S THEN <<ToolStep(i, Id(i), state)>> ELSE <<>>])
Answers(S) ==
  FlattenSeq([i \in DOMAIN mem.calls |-> IF i \in S THEN <<Answer(Id(i))>> ELSE <<>>])

\* One short sequence for each call make one sequence.
LEMMA FlattenedCalls ==
  ASSUME mem \in Memory, NEW T, NEW ss, DOMAIN ss = DOMAIN mem.calls,
         ss = [i \in DOMAIN mem.calls |-> ss[i]],
         \A i \in DOMAIN mem.calls : ss[i] \in Seq(T)
  PROVE  FlattenSeq(ss) \in Seq(T)
<1>1. PICK n \in Nat : DOMAIN mem.calls = 1..n
  BY Calls
<1>2. ss \in [1..n -> Seq(T)]
  BY <1>1
<1>3. ss \in Seq(Seq(T))
  BY <1>2, SeqDef
<1>4. Len(ss) = n
  BY <1>1, <1>2, <1>3, LenProperties
<1>5. n = 0 => ss = <<>>
  BY <1>3, <1>4, EmptySeq
<1> QED BY <1>1, <1>2, <1>4, <1>5, Flattened

\* The calls are ended one by one,
LEMMA EachEnds ==
  ASSUME mem \in Memory, NEW S, NEW state \in {"Cancelled", "Unknown"},
         NEW q, q = Each(S, state)
  PROVE  q \in Seq(Ending(mem))
<1> DEFINE of(i) == IF i \in S THEN <<ToolStep(i, Id(i), state)>> ELSE <<>>
<1>1. PICK ss : ss = [i \in DOMAIN mem.calls |-> of(i)]
  OBVIOUS
<1>2. ASSUME NEW i \in DOMAIN mem.calls PROVE ss[i] \in Seq(Ending(mem))
  <2>1. /\ mem.calls[i] \in Call /\ DOMAIN mem.calls = 1..Len(mem.calls)
        /\ Len(mem.calls) \in Nat
    BY Calls
  <2>2. i \in Nat /\ i # Newest /\ Id(i) \in Ids /\ Id(i) = mem.calls[i].id
    BY <2>1 DEF Call, Newest, Id
  <2>3. PICK e : e = ToolStep(i, Id(i), state)
    OBVIOUS
  <2>4. e \in Steps
    BY <2>2, <2>3, StepsFit DEF ToolStates
  <2>5. e \in Ending(mem)
    BY <2>2, <2>3, <2>4 DEF Ending, ToolStep
  <2>6. ss[i] = IF i \in S THEN <<e>> ELSE <<>>
    BY <1>1, <2>3
  <2> QED BY <2>5, <2>6
<1>3. DOMAIN ss = DOMAIN mem.calls /\ ss = [i \in DOMAIN mem.calls |-> ss[i]]
  BY <1>1
<1>4. q = FlattenSeq(ss)
  BY <1>1, Zenon DEF Each
<1> HIDE DEF of
<1> QED BY <1>2, <1>3, <1>4, FlattenedCalls

\* and so are the answers the model has not had.
LEMMA AnswersFit ==
  ASSUME mem \in Memory, NEW S, NEW q, q = Answers(S)
  PROVE  q \in Seq(Messages)
<1> DEFINE of(i) == IF i \in S THEN <<Answer(Id(i))>> ELSE <<>>
<1>1. PICK ss : ss = [i \in DOMAIN mem.calls |-> of(i)]
  OBVIOUS
<1>2. ASSUME NEW i \in DOMAIN mem.calls PROVE ss[i] \in Seq(Messages)
  <2>1. mem.calls[i] \in Call
    BY Calls
  <2>2. Id(i) \in Ids /\ 0 \in Nat
    BY <2>1 DEF Call, Id
  <2>3. PICK e : e = Answer(Id(i))
    OBVIOUS
  <2>4. e \in Steps
    BY <2>2, <2>3, StepsFit
  <2>5. e \in Messages
    BY <2>3, <2>4 DEF Messages, Answer
  <2>6. ss[i] = IF i \in S THEN <<e>> ELSE <<>>
    BY <1>1, <2>3
  <2> QED BY <2>5, <2>6
<1>3. DOMAIN ss = DOMAIN mem.calls /\ ss = [i \in DOMAIN mem.calls |-> ss[i]]
  BY <1>1
<1>4. q = FlattenSeq(ss)
  BY <1>1, Zenon DEF Answers
<1> HIDE DEF of
<1> QED BY <1>2, <1>3, <1>4, FlattenedCalls

\* b ends calls and then the task.
Closes(m, b) ==
  /\ b \in Seq(Steps) /\ Len(b) >= 1
  /\ \A k \in DOMAIN b : k < Len(b) => b[k] \in Ending(m)
  /\ IsState(b[Len(b)], {"Cancelled", "Unknown"})

\* q cancels: a state, ends of calls up to f, the last state at f, answers.
Cancels(m, q, f) ==
  /\ f \in DOMAIN q /\ f > 1 /\ IsState(q[1], {"Cancelling"})
  /\ \A k \in DOMAIN q : 1 < k /\ k < f => q[k] \in Ending(m)
  /\ IsState(q[f], {"Cancelled", "Unknown"})
  /\ \A k \in DOMAIN q : f < k => q[k].kind = "message"

\* Put together from its parts, it does.
LEMMA CancelParts ==
  ASSUME NEW m, NEW c \in Seq(Steps), Len(c) = 1, IsState(c[1], {"Cancelling"}),
         NEW a \in Seq(Ending(m)), NEW b, Closes(m, b), NEW r \in Seq(Messages),
         NEW x, x = c \o a, NEW y, y = x \o b, NEW q, q = y \o r
  PROVE  q \in Seq(Steps) /\ \E f \in DOMAIN q : Cancels(m, q, f)
<1>1. a \in Seq(Steps) /\ r \in Seq(Steps) /\ b \in Seq(Steps)
  <2>1. Ending(m) \subseteq Steps /\ Messages \subseteq Steps
    BY DEF Ending, Messages
  <2> QED BY <2>1, SeqMonotonic DEF Closes
<1>2. /\ \A k \in 1..Len(a) : a[k] \in Ending(m)
      /\ \A k \in 1..Len(r) : r[k].kind = "message"
  <2>1. \A k \in 1..Len(a) : a[k] \in Ending(m)
    BY ElementOfSeq
  <2>2. \A k \in 1..Len(r) : r[k] \in Messages
    BY ElementOfSeq
  <2> QED BY <2>1, <2>2 DEF Messages
<1>3. x \in Seq(Steps) /\ Joined(c, a, x)
  BY <1>1, Join
<1>4. y \in Seq(Steps) /\ Joined(x, b, y)
  BY <1>1, <1>3, Join
<1>5. q \in Seq(Steps) /\ Joined(y, r, q)
  BY <1>1, <1>4, Join
<1>6. PICK f : f = Len(y)
  OBVIOUS
<1>7. /\ Len(a) \in Nat /\ Len(b) \in Nat /\ Len(r) \in Nat /\ Len(b) >= 1
      /\ Len(x) = 1 + Len(a) /\ f = 1 + Len(a) + Len(b)
      /\ DOMAIN q = 1..(f + Len(r)) /\ DOMAIN b = 1..Len(b)
  BY <1>3, <1>4, <1>5, <1>6 DEF Joined, Closes
<1>8. \A k \in 1..f : q[k] = y[k]
  BY <1>5, <1>6 DEF Joined
<1>9. \A k \in 1..Len(x) : y[k] = x[k]
  BY <1>4 DEF Joined
<1>10. \A k \in 1..Len(b) : y[Len(x) + k] = b[k]
  BY <1>4 DEF Joined
<1>11. x[1] = c[1] /\ \A k \in 1..Len(a) : x[1 + k] = a[k]
  BY <1>3 DEF Joined
<1>12. IsState(q[1], {"Cancelling"})
  <2>1. 1 \in 1..f /\ 1 \in 1..Len(x)
    BY <1>7
  <2>2. q[1] = y[1] /\ y[1] = x[1] /\ x[1] = c[1]
    BY <1>8, <1>9, <1>11, <2>1
  <2> QED BY <2>2
<1>13. ASSUME NEW k \in DOMAIN q, 1 < k, k < f PROVE q[k] \in Ending(m)
  <2>1. k \in 1..f /\ q[k] = y[k]
    BY <1>7, <1>8, <1>13
  <2>2. CASE k <= Len(x)
    <3>1. k \in 1..Len(x) /\ k - 1 \in 1..Len(a) /\ 1 + (k - 1) = k
      <4>1. k \in Nat /\ Len(a) \in Nat /\ Len(x) = 1 + Len(a) /\ k <= Len(x) /\ 1 < k
        BY <1>7, <1>13, <2>1, <2>2
      <4> QED BY <4>1
    <3>2. y[k] = x[k] /\ x[k] = a[k - 1]
      BY <1>9, <1>11, <3>1
    <3> QED BY <1>2, <2>1, <3>1, <3>2
  <2>3. CASE k > Len(x)
    <3>1. /\ k - Len(x) \in 1..Len(b) /\ Len(x) + (k - Len(x)) = k /\ k - Len(x) < Len(b)
      <4>1. /\ k \in Nat /\ Len(b) \in Nat /\ Len(x) \in Nat
            /\ f = Len(x) + Len(b) /\ k < f /\ k > Len(x)
        BY <1>7, <1>13, <2>1, <2>3
      <4> QED BY <4>1
    <3>2. y[k] = b[k - Len(x)]
      BY <1>10, <3>1
    <3> QED BY <1>7, <2>1, <3>1, <3>2 DEF Closes
  <2> QED BY <1>7, <2>1, <2>2, <2>3
<1>14. IsState(q[f], {"Cancelled", "Unknown"})
  <2>1. f \in 1..f /\ Len(b) \in 1..Len(b) /\ Len(x) + Len(b) = f
    BY <1>7
  <2>2. q[f] = b[Len(b)]
    BY <1>8, <1>10, <2>1
  <2> QED BY <2>2 DEF Closes
<1>15. ASSUME NEW k \in DOMAIN q, f < k PROVE q[k].kind = "message"
  <2>1. k - f \in 1..Len(r) /\ f + (k - f) = k
    <3>1. f \in Nat /\ k \in 1..(f + Len(r)) /\ Len(r) \in Nat
      BY <1>7, <1>15
    <3> QED BY <1>15, <3>1
  <2>2. q[k] = r[k - f]
    BY <1>5, <1>6, <2>1 DEF Joined
  <2> QED BY <1>2, <2>1, <2>2
<1>16. f \in DOMAIN q /\ f > 1
  BY <1>7
<1> QED BY <1>5, <1>12, <1>13, <1>14, <1>15, <1>16 DEF Cancels

\* What cancels is a plan for any memory whose task is not over.
LEMMA CancelPlan ==
  ASSUME NEW m, NEW s, m.task \notin TaskTerminal, NEW q \in Seq(Steps),
         NEW f \in DOMAIN q, Cancels(m, q, f)
  PROVE  /\ Plan(m, s, q) /\ q[1].kind = "state"
         /\ \A k \in DOMAIN q : ~IsState(q[k], TaskWaiting)
         /\ m.task = "Running" => Misapplied(m, q)
<1>1. /\ DOMAIN q = 1..Len(q) /\ Len(q) \in Nat /\ 1 \in DOMAIN q /\ f \in Nat /\ f > 1
  <2>1. DOMAIN q = 1..Len(q) /\ Len(q) \in Nat
    BY LenProperties
  <2> QED BY <2>1 DEF Cancels
<1>2. q[1].kind = "state" /\ q[1].to = "Cancelling"
  BY DEF Cancels, IsState
<1>3. ASSUME NEW k \in DOMAIN q, k # 1
      PROVE  /\ k < f => q[k] \in Ending(m)
             /\ k = f => q[k].kind = "state" /\ q[k].to \in {"Cancelled", "Unknown"}
             /\ f < k => q[k].kind = "message"
             /\ k \in Nat /\ k > 1 /\ (k < f \/ k = f \/ f < k)
  BY <1>1, <1>3 DEF Cancels, IsState
<1>4. ASSUME NEW k \in DOMAIN q
      PROVE  /\ q[k].kind \in {"state", "tool", "message"}
             /\ q[k].kind = "tool" => k > 1 /\ k < f /\ q[k] \in Ending(m)
             /\ q[k].kind = "state" =>
                  (k = 1 /\ q[k].to = "Cancelling") \/ (k = f /\ q[k].to \in {"Cancelled", "Unknown"})
  BY <1>2, <1>3 DEF Ending
<1>5. Targets(m, s, q)
  <2>1. IsState(q[1], {"Cancelling"})
    BY <1>2 DEF IsState
  <2> SUFFICES ASSUME NEW k \in DOMAIN q, q[k].kind = "tool"
               PROVE  /\ q[k].call \in DOMAIN m.calls /\ m.calls[q[k].call].id = q[k].id
                      /\ \E j \in DOMAIN q : j < k /\ IsState(q[j], {"Cancelling"})
                      /\ q[k].to \notin {"AwaitingApproval", "Approved"}
    BY <1>4 DEF Targets
  <2>2. k > 1 /\ q[k] \in Ending(m)
    BY <1>4
  <2> QED BY <1>1, <2>1, <2>2 DEF Ending
<1>6. Queueing(m, q)
  <2>1. \A k \in DOMAIN q : ~IsQueued(q[k]) /\ ~FailsNewest(q[k])
    BY <1>4 DEF IsQueued, FailsNewest, Ending
  <2> QED BY <2>1 DEF Queueing
<1>7. ASSUME NEW k \in DOMAIN q PROVE AfterCancelling(q[k])
  BY <1>4 DEF AfterCancelling, IsState
<1>8. \A k \in DOMAIN q : ~IsState(q[k], TaskWaiting) /\ q[k].kind # "waiting"
  BY <1>4 DEF IsState, TaskWaiting
<1>9. ASSUME NEW k \in DOMAIN q, IsState(q[k], TaskTerminal), NEW j \in DOMAIN q, k < j
      PROVE  q[j].kind = "message"
  <2>1. k = f
    BY <1>4, <1>9 DEF IsState, TaskTerminal
  <2> QED BY <1>1, <1>3, <1>9, <2>1
<1>10. Turns(m, q)
  BY <1>7, <1>8, <1>9 DEF Turns
<1>11. Effects(m, s, q)
  BY <1>4 DEF Effects
<1>12. m.task = "Running" => Misapplied(m, q)
  BY <1>4 DEF Misapplied
<1> QED BY <1>2, <1>5, <1>6, <1>8, <1>10, <1>11, <1>12 DEF Plan

\* cancel.
LEMMA CancelKeeps ==
  ASSUME IInv, NEW confirmed \in BOOLEAN, Cancel(confirmed)
  PROVE  TypeOK' /\ DiskFits(Replay', durable', starts') /\ MemInv' /\ SyncInv'
<1>1. PICK c, a, g, u, r : /\ c = StateStep("Cancelling")
                           /\ a = Each(Unfinished \ RunningCalls, "Cancelled")
                           /\ g = StateStep(IF confirmed THEN "Cancelled" ELSE "Unknown")
                           /\ u = Each(RunningCalls, "Unknown")
                           /\ r = Answers(Missing(confirmed))
  OBVIOUS
<1>2. PICK b : b = IF confirmed THEN g ELSE u \o g
  OBVIOUS
<1>3. PICK x : x = c \o a
  OBVIOUS
<1>4. PICK y : y = x \o b
  OBVIOUS
<1>5. PICK q : q = y \o r
  OBVIOUS
<1>6. Ready /\ mem.task \notin TaskTerminal /\ Handle(q, "returned")
  <2>1. Handle(StateStep("Cancelling") \o Each(Unfinished \ RunningCalls, "Cancelled")
                 \o (IF confirmed THEN StateStep("Cancelled")
                     ELSE Each(RunningCalls, "Unknown") \o StateStep("Unknown"))
                 \o Answers(Missing(confirmed)), "returned")
    BY Zenon DEF Cancel, Each, Answers, Missing, OverCalls, RunningCalls
  <2>2. b = IF confirmed THEN StateStep("Cancelled")
            ELSE Each(RunningCalls, "Unknown") \o StateStep("Unknown")
    BY <1>1, <1>2, Zenon
  <2>3. Handle(q, "returned")
    BY <1>1, <1>3, <1>4, <1>5, <2>1, <2>2, Zenon
  <2> QED BY <2>3 DEF Cancel
<1>7. mem \in Memory
  BY DEF IInv, TypeOK
<1>8. c \in Seq(Steps) /\ Len(c) = 1 /\ IsState(c[1], {"Cancelling"})
  <2>1. PICK e : e = [kind |-> "state", call |-> 0, id |-> NoId, to |-> "Cancelling"]
    OBVIOUS
  <2>2. e \in Steps /\ e.kind = "state" /\ e.to = "Cancelling" /\ c = <<e>>
    BY <1>1, <2>1, StatesFit DEF TaskStates, StateStep
  <2> QED BY <2>2 DEF IsState
<1>9. g \in Seq(Steps) /\ Len(g) = 1 /\ IsState(g[1], {"Cancelled", "Unknown"})
  <2>1. PICK t : t = IF confirmed THEN "Cancelled" ELSE "Unknown"
    OBVIOUS
  <2>2. PICK e : e = [kind |-> "state", call |-> 0, id |-> NoId, to |-> t]
    OBVIOUS
  <2>3. /\ e \in Steps /\ e.kind = "state" /\ e.to \in {"Cancelled", "Unknown"}
        /\ g = <<e>>
    BY <1>1, <2>1, <2>2, StatesFit DEF TaskStates, StateStep
  <2> QED BY <2>3 DEF IsState
<1>10. a \in Seq(Ending(mem)) /\ u \in Seq(Ending(mem)) /\ r \in Seq(Messages)
  BY <1>1, <1>7, EachEnds, AnswersFit
<1>11. Closes(mem, b)
  <2>1. CASE confirmed
    <3>1. b = g /\ DOMAIN g = {1}
      BY <1>2, <1>9, <2>1, LenProperties
    <3>2. \A k \in DOMAIN b : ~(k < Len(b))
      <4>1. DOMAIN b = {1} /\ Len(b) = 1
        BY <1>9, <3>1
      <4> QED BY <4>1
    <3>3. b \in Seq(Steps) /\ Len(b) = 1 /\ IsState(b[Len(b)], {"Cancelled", "Unknown"})
      BY <1>9, <3>1
    <3> QED BY <3>2, <3>3 DEF Closes
  <2>2. CASE ~confirmed
    <3>1. b = u \o g
      BY <1>2, <2>2
    <3>2. u \in Seq(Steps)
      BY <1>10, SeqMonotonic DEF Ending
    <3>3. b \in Seq(Steps) /\ Joined(u, g, b)
      BY <1>9, <3>1, <3>2, Join
    <3>4. /\ Len(u) \in Nat /\ Len(b) = Len(u) + 1 /\ DOMAIN b = 1..(Len(u) + 1)
          /\ b[Len(u) + 1] = g[1]
      BY <1>9, <3>3 DEF Joined
    <3>5. ASSUME NEW k \in DOMAIN b, k < Len(b) PROVE b[k] \in Ending(mem)
      <4>1. k \in 1..Len(u) /\ b[k] = u[k]
        BY <3>3, <3>4, <3>5 DEF Joined
      <4> QED BY <1>10, <4>1, ElementOfSeq
    <3> QED BY <1>9, <3>3, <3>4, <3>5 DEF Closes
  <2> QED BY <2>1, <2>2
<1>12. q \in Seq(Steps) /\ \E f \in DOMAIN q : Cancels(mem, q, f)
  BY <1>3, <1>4, <1>5, <1>8, <1>10, <1>11, CancelParts
<1>13. PICK f \in DOMAIN q : Cancels(mem, q, f)
  BY <1>12
<1>14. /\ Plan(mem, starts, q) /\ q[1].kind = "state"
       /\ \A k \in DOMAIN q : ~IsState(q[k], TaskWaiting)
       /\ mem.task = "Running" => Misapplied(mem, q)
  BY <1>6, <1>12, <1>13, CancelPlan
<1>15. Begins(mem, starts, failed, "returned", q)
  BY <1>12, <1>14 DEF Begins, Looping
<1> QED BY <1>6, <1>15, HandleKeeps

----------------------------------------------------------------------------
(* A reply *)

\* What one call of a reply adds: it is queued, and fails when its ID is known.
Piece(m, ids, s, n) ==
  /\ s \in Seq(Steps)
  /\ IsQueued(s[1]) /\ s[1].id = ids[n]
  /\ \/ /\ Len(s) = 3 /\ FailsNewest(s[2]) /\ s[2].to = "Failed" /\ s[2].id = ids[n]
        /\ s[3].kind = "message"
     \/ /\ Len(s) = 1
        /\ \A i \in DOMAIN m.calls : m.calls[i].id # ids[n]
        /\ \A j \in 1..(n - 1) : ids[j] # ids[n]

\* What the first n calls of a reply add.
Pieces(m, ids, p, n) ==
  /\ p \in Seq(Steps)
  /\ \A k \in DOMAIN p : IsQueued(p[k]) \/ FailsNewest(p[k]) \/ p[k].kind = "message"
  /\ \A k \in DOMAIN p : FailsNewest(p[k]) =>
       k > 1 /\ p[k].to = "Failed" /\ IsQueued(p[k - 1]) /\ p[k - 1].id = p[k].id
  /\ \A k \in DOMAIN p : IsQueued(p[k]) =>
       \/ k + 1 \in DOMAIN p /\ FailsNewest(p[k + 1])
       \/ /\ \A i \in DOMAIN m.calls : m.calls[i].id # p[k].id
          /\ \A j \in DOMAIN p : j < k /\ IsQueued(p[j]) => p[j].id # p[k].id
  /\ \A k \in DOMAIN p : IsQueued(p[k]) => \E j \in 1..n : p[k].id = ids[j]

\* One more call adds one more piece.
LEMMA NextPiece ==
  ASSUME NEW m, NEW ids, NEW n \in Nat \ {0}, NEW p, Pieces(m, ids, p, n - 1),
         NEW s, Piece(m, ids, s, n), NEW x, x = p \o s
  PROVE  Pieces(m, ids, x, n)
<1>1. x \in Seq(Steps) /\ Joined(p, s, x)
  BY Join DEF Pieces, Piece
<1>2. PICK a, b : a = Len(p) /\ b = Len(s)
  OBVIOUS
<1>3. /\ a \in Nat /\ b \in {1, 3} /\ DOMAIN p = 1..a /\ DOMAIN x = 1..(a + b)
      /\ \A k \in 1..a : x[k] = p[k]
      /\ x[a + 1] = s[1]
      /\ b = 3 => x[a + 2] = s[2] /\ x[a + 3] = s[3]
  <2>1. /\ a \in Nat /\ DOMAIN p = 1..a /\ DOMAIN x = 1..(a + b)
        /\ \A k \in 1..a : x[k] = p[k]
        /\ \A k \in 1..b : x[a + k] = s[k]
    BY <1>1, <1>2 DEF Joined
  <2>2. b \in {1, 3}
    BY <1>2 DEF Piece
  <2>3. 1 \in 1..b /\ (b = 3 => 2 \in 1..b /\ 3 \in 1..b)
    BY <2>2
  <2> QED BY <2>1, <2>2, <2>3
<1>4. /\ IsQueued(x[a + 1]) /\ x[a + 1].id = ids[n]
      /\ \/ /\ b = 3 /\ FailsNewest(x[a + 2]) /\ x[a + 2].to = "Failed"
            /\ x[a + 2].id = ids[n] /\ x[a + 3].kind = "message"
         \/ /\ b = 1
            /\ \A i \in DOMAIN m.calls : m.calls[i].id # ids[n]
            /\ \A j \in 1..(n - 1) : ids[j] # ids[n]
  <2>1. IsQueued(x[a + 1]) /\ x[a + 1].id = ids[n]
    BY <1>3 DEF Piece
  <2> QED BY <1>2, <1>3, <2>1 DEF Piece
<1>5. ~IsQueued(x[a + 2]) \/ b = 1
  BY <1>4 DEF IsQueued, FailsNewest
<1>6. (~IsQueued(x[a + 3]) /\ ~FailsNewest(x[a + 3])) \/ b = 1
  <2>1. x[a + 3].kind = "message" \/ b = 1
    BY <1>4
  <2> QED BY <2>1 DEF IsQueued, FailsNewest
<1>7. ~FailsNewest(x[a + 1])
  BY <1>4 DEF IsQueued, FailsNewest
<1>8. ASSUME NEW k \in DOMAIN x
      PROVE  k \in Nat /\ (k \in 1..a \/ k = a + 1 \/ (b = 3 /\ k = a + 2) \/ (b = 3 /\ k = a + 3))
  <2>1. k \in 1..(a + b) /\ a \in Nat
    BY <1>3, <1>8
  <2>2. CASE b = 3
    BY <2>1, <2>2
  <2>3. CASE b = 1
    BY <2>1, <2>3
  <2> QED BY <1>3, <2>2, <2>3
<1>9. ASSUME NEW k \in DOMAIN x
      PROVE  IsQueued(x[k]) \/ FailsNewest(x[k]) \/ x[k].kind = "message"
  <2>1. CASE k \in 1..a
    BY <1>3, <2>1 DEF Pieces
  <2>2. CASE k = a + 1
    BY <1>4, <2>2
  <2>3. CASE b = 3 /\ k = a + 2
    BY <1>4, <2>3
  <2>4. CASE b = 3 /\ k = a + 3
    BY <1>4, <2>4
  <2> QED BY <1>8, <2>1, <2>2, <2>3, <2>4
<1>10. ASSUME NEW k \in DOMAIN x, FailsNewest(x[k])
       PROVE  k > 1 /\ x[k].to = "Failed" /\ IsQueued(x[k - 1]) /\ x[k - 1].id = x[k].id
  <2>1. CASE k \in 1..a
    <3>1. FailsNewest(p[k]) /\ k \in DOMAIN p
      BY <1>3, <1>10, <2>1
    <3>2. k > 1 /\ p[k].to = "Failed" /\ IsQueued(p[k - 1]) /\ p[k - 1].id = p[k].id
      BY <3>1 DEF Pieces
    <3>3. k - 1 \in 1..a
      BY <1>3, <2>1, <3>2
    <3> QED BY <1>3, <2>1, <3>2, <3>3
  <2>2. CASE k \notin 1..a
    <3>1. k = a + 2 /\ b = 3
      BY <1>6, <1>7, <1>8, <1>10, <2>2
    <3>2. k - 1 = a + 1 /\ k > 1
      BY <1>3, <3>1
    <3> QED BY <1>4, <3>1, <3>2
  <2> QED BY <2>1, <2>2
<1>11. ASSUME NEW k \in DOMAIN x, IsQueued(x[k])
       PROVE  k \in 1..a \/ k = a + 1
  <2>1. k \in 1..a \/ k = a + 1 \/ (b = 3 /\ k = a + 2) \/ (b = 3 /\ k = a + 3)
    BY <1>8
  <2>2. CASE b = 3 /\ k = a + 2
    BY <1>5, <1>11, <2>2
  <2>3. CASE b = 3 /\ k = a + 3
    BY <1>6, <1>11, <2>3
  <2> QED BY <2>1, <2>2, <2>3
<1>12. ASSUME NEW k \in 1..a, IsQueued(x[k]) PROVE \E j \in 1..(n - 1) : x[k].id = ids[j]
  <2>1. k \in DOMAIN p /\ x[k] = p[k]
    BY <1>3, <1>12
  <2>2. IsQueued(p[k])
    BY <1>12, <2>1
  <2> QED BY <2>1, <2>2 DEF Pieces
<1>13. ASSUME NEW k \in DOMAIN x, IsQueued(x[k]) PROVE \E j \in 1..n : x[k].id = ids[j]
  <2>1. CASE k \in 1..a
    BY <1>12, <1>13, <2>1
  <2>2. CASE k = a + 1
    BY <1>4, <2>2
  <2> QED BY <1>11, <1>13, <2>1, <2>2
<1>14. ASSUME NEW k \in DOMAIN x, IsQueued(x[k])
       PROVE  \/ k + 1 \in DOMAIN x /\ FailsNewest(x[k + 1])
              \/ /\ \A i \in DOMAIN m.calls : m.calls[i].id # x[k].id
                 /\ \A j \in DOMAIN x : j < k /\ IsQueued(x[j]) => x[j].id # x[k].id
  <2>1. CASE k \in 1..a
    <3>1. IsQueued(p[k]) /\ k \in DOMAIN p /\ x[k] = p[k]
      BY <1>3, <1>14, <2>1
    <3>2. CASE k + 1 \in DOMAIN p /\ FailsNewest(p[k + 1])
      <4>1. k + 1 \in DOMAIN x /\ x[k + 1] = p[k + 1]
        BY <1>3, <2>1, <3>2
      <4> QED BY <3>2, <4>1
    <3>3. CASE /\ \A i \in DOMAIN m.calls : m.calls[i].id # p[k].id
               /\ \A j \in DOMAIN p : j < k /\ IsQueued(p[j]) => p[j].id # p[k].id
      <4>1. ASSUME NEW j \in DOMAIN x, j < k, IsQueued(x[j]) PROVE x[j].id # x[k].id
        <5>1. j \in DOMAIN p /\ x[j] = p[j]
          BY <1>3, <2>1, <4>1
        <5> QED BY <3>1, <3>3, <4>1, <5>1
      <4> QED BY <3>1, <3>3, <4>1
    <3> QED BY <3>1, <3>2, <3>3 DEF Pieces
  <2>2. CASE k = a + 1
    <3>1. CASE b = 3
      <4>1. k + 1 = a + 2 /\ a + 2 \in DOMAIN x
        BY <1>3, <2>2, <3>1
      <4> QED BY <1>4, <3>1, <4>1
    <3>2. CASE b = 1
      <4>1. /\ \A i \in DOMAIN m.calls : m.calls[i].id # ids[n]
            /\ \A j \in 1..(n - 1) : ids[j] # ids[n]
        BY <1>4, <3>2
      <4>2. ASSUME NEW j \in DOMAIN x, j < k, IsQueued(x[j]) PROVE x[j].id # x[k].id
        <5>1. j \in 1..a
          BY <1>3, <2>2, <4>2
        <5>2. \E l \in 1..(n - 1) : x[j].id = ids[l]
          BY <1>12, <4>2, <5>1
        <5> QED BY <1>4, <2>2, <4>1, <5>2
      <4> QED BY <1>4, <2>2, <4>1, <4>2
    <3> QED BY <1>3, <3>1, <3>2
  <2> QED BY <1>11, <1>14, <2>1, <2>2
<1> QED BY <1>1, <1>9, <1>10, <1>13, <1>14 DEF Pieces

\* The pieces of all its calls in a row.
LEMMA AllPieces ==
  ASSUME NEW m, NEW ids, NEW n \in Nat \ {0}, NEW ss, Len(ss) = n,
         \A k \in 1..n : Piece(m, ids, ss[k], k), NEW q, q = FlattenSeq(ss)
  PROVE  Pieces(m, ids, q, n)
<1>1. PICK f : Joins(f, ss, n) /\ FlattenSeq(ss) = f[n]
  BY FlattenJoins
<1> DEFINE Bad == {k \in 1..n : ~Pieces(m, ids, f[k], k)}
<1>2. Bad = {}
  <2> SUFFICES ASSUME Bad # {} PROVE FALSE
    OBVIOUS
  <2>1. PICK k \in Bad : \A j \in Bad : k <= j
    <3>1. Bad \subseteq 1..n
      OBVIOUS
    <3> HIDE DEF Bad
    <3> QED BY <3>1, Least
  <2>2. k \in 1..n /\ ~Pieces(m, ids, f[k], k) /\ Piece(m, ids, ss[k], k)
    OBVIOUS
  <2>3. CASE k = 1
    <3>1. PICK p : p = <<>>
      OBVIOUS
    <3>2. Pieces(m, ids, p, 0) /\ p \in Seq(Steps)
      BY <3>1 DEF Pieces
    <3>3. f[1] = ss[1] /\ ss[1] \in Seq(Steps)
      BY <1>1, <2>2, <2>3 DEF Joins, Piece
    <3>4. f[1] = p \o ss[1]
      BY <3>1, <3>3, ConcatEmptySeq
    <3>5. 1 - 1 = 0 /\ 1 \in Nat \ {0}
      OBVIOUS
    <3>6. Pieces(m, ids, f[1], 1)
      <4>1. Pieces(m, ids, p, 1 - 1) /\ Piece(m, ids, ss[1], 1)
        BY <2>2, <2>3, <3>2, <3>5
      <4>2. PICK x, s : x = f[1] /\ s = ss[1]
        OBVIOUS
      <4> QED BY <3>4, <3>5, <4>1, <4>2, NextPiece
    <3> QED BY <2>2, <2>3, <3>6
  <2>4. CASE k # 1
    <3>1. k \in 2..n /\ k - 1 \in 1..n /\ k - 1 \notin Bad /\ k \in Nat \ {0}
      BY <2>1, <2>2, <2>4
    <3>2. PICK p, s, x : p = f[k - 1] /\ s = ss[k] /\ x = f[k]
      OBVIOUS
    <3>3. Pieces(m, ids, p, k - 1) /\ x = p \o s /\ Piece(m, ids, s, k)
      BY <1>1, <2>2, <3>1, <3>2 DEF Joins
    <3>4. Pieces(m, ids, x, k)
      BY <3>1, <3>3, NextPiece
    <3> QED BY <2>2, <3>2, <3>4
  <2> QED BY <2>3, <2>4
<1> QED BY <1>1, <1>2

\* What LET names in Reply.
Repeated(ids, k) ==
  ids[k] \in {Id(i) : i \in DOMAIN mem.calls} \/ \E j \in 1..(k - 1) : ids[j] = ids[k]
Enqueue(ids, k) ==
  IF Repeated(ids, k)
  THEN <<Queued(ids[k]), ToolStep(Newest, ids[k], "Failed"), Answer(ids[k])>>
  ELSE <<Queued(ids[k])>>

\* enqueue_calls.
LEMMA ReplyKeeps ==
  ASSUME IInv, NEW ids \in Replies, Reply(ids)
  PROVE  TypeOK' /\ DiskFits(Replay', durable', starts') /\ MemInv' /\ SyncInv'
<1>1. PICK ss : ss = [k \in DOMAIN ids |-> Enqueue(ids, k)]
  OBVIOUS
<1>2. PICK q : q = FlattenSeq(ss)
  OBVIOUS
<1>3. Ready /\ ~failed /\ pc = "loop" /\ ids # <<>> /\ Handle(q, "loop")
  <2>1. Handle(FlattenSeq([k \in DOMAIN ids |-> Enqueue(ids, k)]), "loop")
    BY Zenon DEF Reply, Enqueue, Repeated
  <2>2. Handle(q, "loop")
    BY <1>1, <1>2, <2>1, Zenon
  <2> QED BY <2>2 DEF Reply, Driving, Persisted
<1>4. mem.task = "Running" /\ mem \in Memory
  BY <1>3, ReadyFacts
<1>5. PICK n : n = Len(ids)
  OBVIOUS
<1>6. ids \in Seq(Ids) /\ n \in Nat \ {0} /\ DOMAIN ids = 1..n /\ \A k \in 1..n : ids[k] \in Ids
  <2>1. ids \in Seq(Ids)
    BY JournalAssumption
  <2> QED BY <1>3, <1>5, <2>1, EmptySeq, LenProperties, ElementOfSeq
<1>7. ASSUME NEW k \in 1..n PROVE Piece(mem, ids, ss[k], k)
  <2>1. PICK a, b, c : /\ a = Queued(ids[k]) /\ b = ToolStep(Newest, ids[k], "Failed")
                       /\ c = Answer(ids[k])
    OBVIOUS
  <2>2. a \in Steps /\ b \in Steps /\ c \in Steps
    BY <1>6, <2>1, StepsFit DEF Newest, ToolStates
  <2>3. PICK s : s = ss[k]
    OBVIOUS
  <2>4. s = IF Repeated(ids, k) THEN <<a, b, c>> ELSE <<a>>
    BY <1>1, <1>6, <2>1, <2>3, Zenon DEF Enqueue
  <2>5. IsQueued(a) /\ a.id = ids[k]
    BY <2>1 DEF IsQueued, Queued
  <2>6. CASE Repeated(ids, k)
    <3>1. s = <<a, b, c>>
      BY <2>4, <2>6
    <3>2. s \in Seq(Steps) /\ Len(s) = 3 /\ s[1] = a /\ s[2] = b /\ s[3] = c
      BY <2>2, <3>1
    <3>3. FailsNewest(b) /\ b.to = "Failed" /\ b.id = ids[k] /\ c.kind = "message"
      BY <2>1 DEF FailsNewest, ToolStep, Answer
    <3> QED BY <2>3, <2>5, <3>2, <3>3 DEF Piece
  <2>7. CASE ~Repeated(ids, k)
    <3>1. s = <<a>>
      BY <2>4, <2>7
    <3>2. s \in Seq(Steps) /\ Len(s) = 1 /\ s[1] = a
      BY <2>2, <3>1
    <3>3. /\ \A i \in DOMAIN mem.calls : mem.calls[i].id # ids[k]
          /\ \A j \in 1..(k - 1) : ids[j] # ids[k]
      BY <2>7 DEF Repeated, Id
    <3> QED BY <2>3, <2>5, <3>2, <3>3 DEF Piece
  <2> QED BY <2>6, <2>7
<1>8. Len(ss) = n
  <2>1. DOMAIN ss = 1..n /\ ss = [k \in 1..n |-> ss[k]]
    BY <1>1, <1>6
  <2>2. \A k \in 1..n : ss[k] \in Seq(Steps)
    BY <1>7 DEF Piece
  <2>3. ss \in [1..n -> Seq(Steps)]
    BY <2>1, <2>2
  <2>4. ss \in Seq(Seq(Steps))
    BY <1>6, <2>3, SeqDef
  <2>5. DOMAIN ss = 1..Len(ss) /\ Len(ss) \in Nat
    BY <2>4, LenProperties
  <2> QED BY <1>6, <2>1, <2>5
<1>9. Pieces(mem, ids, q, n)
  BY <1>2, <1>6, <1>7, <1>8, AllPieces
<1>10. ASSUME NEW k \in DOMAIN q
       PROVE  /\ q[k].kind \in {"queued", "tool", "message"}
              /\ q[k].kind = "tool" => q[k].call = Newest /\ q[k].to = "Failed"
  BY <1>9 DEF Pieces, IsQueued, FailsNewest
<1>11. Targets(mem, starts, q)
  BY <1>10 DEF Targets
<1>12. Queueing(mem, q)
  <2>1. \A k \in DOMAIN q : IsQueued(q[k]) \/ FailsNewest(q[k]) \/ q[k].kind = "message"
    BY <1>9 DEF Pieces
  <2>2. ASSUME NEW k \in DOMAIN q, FailsNewest(q[k])
        PROVE  k # 1 /\ q[k].to = "Failed" /\ IsQueued(q[k - 1]) /\ q[k - 1].id = q[k].id
    BY <1>9, <2>2 DEF Pieces
  <2>3. ASSUME NEW k \in DOMAIN q, IsQueued(q[k])
        PROVE  \/ k + 1 \in DOMAIN q /\ FailsNewest(q[k + 1])
               \/ /\ \A i \in DOMAIN mem.calls : mem.calls[i].id # q[k].id
                  /\ \A j \in DOMAIN q : j < k /\ IsQueued(q[j]) => q[j].id # q[k].id
    BY <1>9, <2>3 DEF Pieces
  <2> QED BY <1>4, <2>1, <2>2, <2>3 DEF Queueing
<1>13. Turns(mem, q)
  BY <1>4, <1>10 DEF Turns, IsState, TaskTerminal
<1>14. Effects(mem, starts, q)
  BY <1>10 DEF Effects
<1>15. q \in Seq(Steps)
  BY <1>9 DEF Pieces
<1>16. q # <<>> => q[1].kind \notin {"effect", "propose"}
  <2>1. q # <<>> => 1 \in DOMAIN q
    BY <1>15, EmptySeq, LenProperties
  <2> QED BY <1>10, <2>1
<1>17. Begins(mem, starts, failed, "loop", q)
  BY <1>3, <1>4, <1>10, <1>11, <1>12, <1>13, <1>14, <1>15, <1>16
     DEF Begins, Plan, Looping, IsState
<1> QED BY <1>3, <1>17, HandleKeeps

----------------------------------------------------------------------------
(* The invariant is inductive *)

\* Nothing that is done leaves everything as it was.
LEMMA StutterKeeps ==
  ASSUME IInv, UNCHANGED vars
  PROVE  TypeOK' /\ DiskFits(Replay', durable', starts') /\ MemInv' /\ SyncInv'
<1>1. /\ mem' = mem /\ emitted' = emitted /\ todo' = todo /\ saving' = saving
      /\ failed' = failed /\ pc' = pc /\ effect' = effect /\ proposals' = proposals
      /\ log' = log /\ snap' = snap /\ up' = up /\ starts' = starts /\ durable' = durable
  BY DEF vars, processVars, diskVars, historyVars
<1>2. Replay' = Replay
  BY <1>1, ReplaySame
<1>3. NoGap' = NoGap
  BY <1>1 DEF NoGap
<1>4. TypeOK'
  BY <1>1, <1>2 DEF IInv, TypeOK
<1>5. DiskFits(Replay', durable', starts')
  BY <1>1, <1>2 DEF IInv
<1>6. MemInv'
  BY <1>1, <1>2 DEF IInv, MemInv, AtMostOnce
<1>7. SyncInv'
  BY <1>1, <1>2, <1>3 DEF IInv, SyncInv
<1> QED BY <1>4, <1>5, <1>6, <1>7

\* The task before anything happened.
LEMMA InitFits ==
  ASSUME Init
  PROVE  IInv
<1>1. /\ mem = NoTask /\ emitted = 0 /\ todo = <<>> /\ saving = FALSE /\ failed = FALSE
      /\ pc = "returned" /\ effect = {} /\ proposals = {} /\ log = <<>>
      /\ snap.last = 0 /\ snap.mem = NoTask /\ up = TRUE
      /\ starts = [i \in 1..MaxCalls |-> 0] /\ durable = NoTask
  BY DEF Init
<1>2. Len(log) = 0 /\ DOMAIN log = 1..0 /\ log \in Seq({})
  <2>1. log \in Seq({}) /\ Len(log) = 0
    BY <1>1, EmptySeq
  <2> QED BY <2>1, LenProperties
<1>3. Gapless
  BY <1>1, <1>2 DEF Gapless, JournalIsPrefix
<1>4. Replay = NoTask
  BY <1>1, <1>2, ReplayNothing
<1>5. /\ NoTask \in Memory /\ NoTask.task = "Idle" /\ NoTask.reason = NoReason
      /\ NoTask.calls = <<>> /\ DOMAIN NoTask.calls = {}
  <2>1. NoReason \in WaitingReason
    BY DEF NoReason, WaitingReason, WaitingReasons
  <2>2. "Idle" \in TaskStates
    BY DEF TaskStates
  <2> QED BY <2>1, <2>2 DEF NoTask, Memory
<1>6. /\ starts \in [1..MaxCalls -> Nat] /\ \A i \in DOMAIN starts : starts[i] = 0
  BY <1>1
<1>7. TypeOK
  <2>1. todo \in Seq(Steps)
    BY <1>1, EmptySeq
  <2>2. mem \in Memory /\ durable \in Memory /\ snap.mem \in Memory /\ Replay \in Memory
    BY <1>1, <1>4, <1>5
  <2>3. emitted \in Nat /\ snap.last \in 0..Len(log) /\ pc \in {"returned", "loop"}
    BY <1>1, <1>2
  <2> QED BY <1>1, <1>6, <2>1, <2>2, <2>3 DEF TypeOK
<1>8. AllSpent(NoTask, starts)
  BY <1>6 DEF AllSpent
<1>9. DiskFits(Replay, durable, starts)
  <2>1. LaterClosed(NoTask)
    BY <1>5 DEF LaterClosed
  <2> QED BY <1>1, <1>4, <1>5, <1>8, <2>1, Itself DEF DiskFits, TaskWaiting
<1>10. DOMAIN todo = {}
  BY <1>1
<1>11. MemInv
  <2>1. AtMostOnce
    BY <1>6 DEF AtMostOnce
  <2>2. Fits(NoTask, starts, todo)
    BY <1>5, <1>8 DEF Fits, MostlyClosed
  <2>3. Plan(NoTask, starts, todo)
    BY <1>5, <1>10 DEF Plan, Targets, Queueing, Turns, Effects, TaskTerminal
  <2>4. Looping(NoTask, effect, pc, todo)
    BY <1>1 DEF Looping
  <2>5. Proposing(NoTask, starts, effect, proposals)
    BY <1>1 DEF Proposing
  <2>6. Executing(NoTask, effect, Replay, snap.mem.task)
    BY <1>1 DEF Executing
  <2> QED BY <1>1, <2>1, <2>2, <2>3, <2>4, <2>5, <2>6 DEF MemInv
<1>12. SyncInv
  BY <1>1, <1>2, <1>4, <1>10, Itself DEF SyncInv, NoGap
<1> QED BY <1>3, <1>7, <1>9, <1>11, <1>12 DEF IInv

\* Every step keeps it.
LEMMA StepFits ==
  ASSUME IInv, [Next]_vars
  PROVE  IInv'
<1> DEFINE Kept ==
      TypeOK' /\ DiskFits(Replay', durable', starts') /\ MemInv' /\ SyncInv'
<1>1. Gapless'
  BY StepGapless DEF IInv
<1> SUFFICES Kept
  BY <1>1 DEF IInv
<1>2. CASE Handler
  <2>1. CASE Start
    BY <2>1, StartKeeps
  <2>2. CASE Finish
    BY <2>2, FinishKeeps
  <2>3. CASE StopOnFailure
    BY <2>3, StopKeeps
  <2>4. CASE \E ids \in Replies : Reply(ids)
    <3>1. PICK ids \in Replies : Reply(ids)
      BY <2>4
    <3> QED BY <3>1, ReplyKeeps
  <2>5. CASE \E i \in DOMAIN mem.calls :
               \/ AskApproval(i) \/ ApproveByPolicy(i)
               \/ \E yolo \in BOOLEAN : Execute(i, yolo)
               \/ \E approved \in BOOLEAN : ResolveApproval(i, approved)
               \/ ReviewChange(i) \/ ReviewConflict(i)
               \/ \E outcome \in {"Succeeded", "Failed"} : EndEffect(i, outcome)
    <3>1. PICK i \in DOMAIN mem.calls :
               \/ AskApproval(i) \/ ApproveByPolicy(i)
               \/ \E yolo \in BOOLEAN : Execute(i, yolo)
               \/ \E approved \in BOOLEAN : ResolveApproval(i, approved)
               \/ ReviewChange(i) \/ ReviewConflict(i)
               \/ \E outcome \in {"Succeeded", "Failed"} : EndEffect(i, outcome)
      BY <2>5
    <3>2. CASE AskApproval(i)
      BY <3>2, AskKeeps
    <3>3. CASE ApproveByPolicy(i)
      BY <3>3, PolicyKeeps
    <3>4. ASSUME NEW yolo \in BOOLEAN, Execute(i, yolo) PROVE Kept
      BY <3>4, ExecuteKeeps
    <3>5. ASSUME NEW approved \in BOOLEAN, ResolveApproval(i, approved) PROVE Kept
      BY <3>5, ResolveKeeps
    <3>6. CASE ReviewChange(i)
      BY <3>6, ReviewKeeps
    <3>7. CASE ReviewConflict(i)
      BY <3>7, ConflictKeeps
    <3>8. ASSUME NEW outcome \in {"Succeeded", "Failed"}, EndEffect(i, outcome) PROVE Kept
      BY <3>8, EndKeeps
    <3> QED BY <3>1, <3>2, <3>3, <3>4, <3>5, <3>6, <3>7, <3>8
  <2>6. CASE \E confirmed \in BOOLEAN : Cancel(confirmed)
    <3>1. PICK confirmed \in BOOLEAN : Cancel(confirmed)
      BY <2>6
    <3> QED BY <3>1, CancelKeeps
  <2> QED BY <1>2, <2>1, <2>2, <2>3, <2>4, <2>5, <2>6 DEF Handler
<1>3. CASE Emit
  BY <1>3, EmitKeeps
<1>4. CASE Save
  BY <1>4, SaveKeeps
<1>5. CASE CallExecutor
  BY <1>5, CallKeeps
<1>6. CASE Crash
  BY <1>6, CrashKeeps
<1>7. CASE Recover
  BY <1>7, RecoverKeeps
<1>8. CASE UNCHANGED vars
  BY <1>8, StutterKeeps
<1> QED BY <1>2, <1>3, <1>4, <1>5, <1>6, <1>7, <1>8 DEF Next, Over

\* What the process keeps in memory, what it still has to do and what the files hold fit
\* each other in every reachable state, whatever stops and fails.
THEOREM JournalFits == Spec => []IInv
<1>1. Init => IInv
  BY InitFits
<1>2. IInv /\ [Next]_vars => IInv'
  BY StepFits
<1> QED BY <1>1, <1>2, PTL DEF Spec

\* No side effect of a tool is begun twice, although calls are retried after a restart and
\* after errors: a call that was begun is recorded as such before (process_invocation), and
\* nothing is begun while the journal fails (ensure_persistence).
THEOREM SideEffectsOnce == Spec => []AtMostOnce
<1>1. IInv => AtMostOnce
  BY DEF IInv, MemInv
<1> QED BY <1>1, JournalFits, PTL

\* A command in progress is recorded as running before it begins, by an event and by the
\* snapshot: a restart and the recovery center both show that its outcome is unknown.
THEOREM RunningShownUnknown == Spec => []RunningIsShownUnknown
<1>1. ASSUME IInv PROVE RunningIsShownUnknown
  <2> SUFFICES ASSUME NEW i \in effect, ~IsWrite(i)
               PROVE  Recovered.task = "Unknown" /\ CenterView = "Unknown"
    BY DEF RunningIsShownUnknown
  <2>1. Replay.task = "Running" /\ snap.mem.task = "Running" /\ Replay \in Memory
    BY <1>1 DEF IInv, MemInv, Executing, IsWrite, Id, TypeOK
  <2>2. Recovered.task = SettledTask(Replay.task)
    BY <2>1, Settled DEF Recovered
  <2>3. CenterView = "Unknown"
    BY <2>1 DEF CenterView, TaskWaiting
  <2> QED BY <2>1, <2>2, <2>3 DEF SettledTask
<1> QED BY <1>1, JournalFits, PTL

\* A restart gives back the task, its history and its calls as they were when the last
\* record was written, up to what was in progress and to calls that share an ID, whether
\* the snapshot is newer or older than the records behind it (recover_journal).
THEOREM RecoveryIsFaithful == Spec => []RecoveryMatchesOnline
<1>1. ASSUME IInv PROVE RecoveryMatchesOnline
  <2>1. Replay \in Memory /\ durable \in Memory /\ Match(Replay, durable)
    BY <1>1 DEF IInv, TypeOK, DiskFits
  <2>2. PICK r, d : r = Recovered /\ d = Settle(durable)
    OBVIOUS
  <2>3. /\ r.task = SettledTask(Replay.task) /\ r.history = Replay.history
        /\ DOMAIN r.calls = DOMAIN Replay.calls
        /\ \A i \in DOMAIN Replay.calls : r.calls[i] = SettledCall(Replay.calls[i])
    BY <2>1, <2>2, Settled DEF Recovered
  <2>4. /\ d.task = SettledTask(durable.task) /\ d.history = durable.history
        /\ DOMAIN d.calls = DOMAIN durable.calls
        /\ \A i \in DOMAIN durable.calls : d.calls[i] = SettledCall(durable.calls[i])
    BY <2>1, <2>2, Settled
  <2>5. /\ r.task = d.task /\ r.history = d.history /\ DOMAIN r.calls = DOMAIN d.calls
        /\ \A i \in Unique(durable) : r.calls[i] = d.calls[i]
    BY <2>1, <2>3, <2>4 DEF Match, Unique
  <2> QED BY <2>2, <2>5, Zenon DEF RecoveryMatchesOnline, Unique
<1> QED BY <1>1, JournalFits, PTL

\* A recovered task that waits shows the reason it waits for or none, although replaying a
\* state leaves the reason of an earlier wait alone (reduce_recovered_event).
THEOREM ReasonsStayFresh == Spec => []ReasonNeverStale
<1>1. ASSUME IInv PROVE ReasonNeverStale
  <2> SUFFICES ASSUME Recovered.task \in TaskWaiting
               PROVE  Recovered.reason \in {NoReason, durable.reason}
    BY DEF ReasonNeverStale
  <2>1. Replay \in Memory /\ DiskFits(Replay, durable, starts)
    BY <1>1 DEF IInv, TypeOK
  <2>2. /\ Recovered.task = SettledTask(Replay.task)
        /\ Replay.task \notin {"Running", "Cancelling"} => Recovered.reason = Replay.reason
    BY <2>1, Settled DEF Recovered
  <2>3. Replay.task \in TaskWaiting /\ Replay.task \notin {"Running", "Cancelling"}
    BY <2>2 DEF SettledTask, TaskWaiting
  <2> QED BY <2>1, <2>2, <2>3 DEF DiskFits
<1> QED BY <1>1, JournalFits, PTL

============================================================================
