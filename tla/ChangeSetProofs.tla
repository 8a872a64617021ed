-------------------------- MODULE ChangeSetProofs --------------------------
(***************************************************************************)
(* What TLAPS proves about ChangeSet for every value of its constants.     *)
(***************************************************************************)
EXTENDS ChangeSet, SequenceTheorems, TLAPS

IsSeq(s) == \E S : s \in Seq(S)

\* The variables are functions on the executors and the files.
Domains ==
  /\ pc = [a \in Agents |-> pc[a]] /\ proposal = [a \in Agents |-> proposal[a]]
  /\ todo = [a \in Agents |-> todo[a]]
  /\ stale = [a \in Agents |-> stale[a]] /\ unsaved = [a \in Agents |-> unsaved[a]]
  /\ disk = [f \in Files |-> disk[f]] /\ author = [f \in Files |-> author[f]]

\* How far accept_edit has got: what is still to be written is the end of the
\* change set, and there is nothing to write outside accept_edit.
Progress(a) ==
  /\ IsSeq(todo[a]) /\ IsSeq(proposal[a])
  /\ Len(todo[a]) <= Len(proposal[a])
  /\ todo[a] # <<>> => pc[a] \in {"checked", "writing"}
  /\ pc[a] = "checked" => Len(todo[a]) = Len(proposal[a])
  /\ \A k \in DOMAIN proposal[a] : proposal[a][k].file \in Files
  /\ \A k \in DOMAIN todo[a] :
       /\ todo[a][k].file \in Files
       /\ todo[a][k].file = proposal[a][k + Len(proposal[a]) - Len(todo[a])].file

Shape == Domains /\ \A a \in Agents : Progress(a)

\* Lemmas about sequences of any kind.
LEMMA SeqDomain ==
  ASSUME NEW s, IsSeq(s)
  PROVE  Len(s) \in Nat /\ DOMAIN s = 1..Len(s) /\ (s = <<>> <=> Len(s) = 0)
  <1>1. PICK S : s \in Seq(S)
    BY DEF IsSeq
  <1> QED
    BY <1>1, LenProperties, EmptySeq

\* The tail of a sequence drops its first element.
LEMMA TailOf ==
  ASSUME NEW s, IsSeq(s), s # <<>>
  PROVE  /\ IsSeq(Tail(s)) /\ Len(Tail(s)) = Len(s) - 1
         /\ \A k \in 1..(Len(s) - 1) : Tail(s)[k] = s[k + 1]
         /\ Head(s) = s[1]
  <1>1. PICK S : s \in Seq(S)
    BY DEF IsSeq
  <1> QED
    BY <1>1, HeadTailProperties DEF IsSeq

\* An appended element comes last.
LEMMA AppendOf ==
  ASSUME NEW s, IsSeq(s), NEW x
  PROVE  /\ IsSeq(Append(s, x)) /\ Len(Append(s, x)) = Len(s) + 1
         /\ \A k \in 1..Len(s) : Append(s, x)[k] = s[k]
         /\ Append(s, x)[Len(s) + 1] = x
  <1>1. PICK S : s \in Seq(S)
    BY DEF IsSeq
  <1>2. s \in Seq(S \cup {x})
    BY <1>1, SeqMonotonic
  <1> QED
    BY <1>2, AppendProperties DEF IsSeq

\* A function on 1..n is a sequence.
LEMMA FunctionIsSeq ==
  ASSUME NEW s, NEW n \in Nat, s = [k \in 1..n |-> s[k]]
  PROVE  IsSeq(s) /\ Len(s) = n
  <1>1. s \in [1..n -> {s[k] : k \in 1..n}]
    OBVIOUS
  <1>2. s \in Seq({s[k] : k \in 1..n})
    BY <1>1, SeqDef
  <1>3. Len(s) \in Nat /\ 1..n = 1..Len(s)
    BY <1>1, <1>2, LenProperties
  <1>4. Len(s) = n
    <2>1. CASE n < Len(s)
      <3>1. Len(s) \in 1..Len(s) /\ Len(s) \notin 1..n
        BY <1>3, <2>1
      <3> QED
        BY <1>3, <3>1
    <2>2. CASE Len(s) < n
      <3>1. n \in 1..n /\ n \notin 1..Len(s)
        BY <1>3, <2>2
      <3> QED
        BY <1>3, <3>1
    <2> QED
      BY <1>3, <2>1, <2>2
  <1> QED
    BY <1>2, <1>4 DEF IsSeq

----------------------------------------------------------------------------
(* The shape of accept_edit *)

\* The empty sequence is one.
LEMMA EmptyIsSeq == IsSeq(<<>>) /\ Len(<<>>) = 0 /\ DOMAIN <<>> = {}
  BY EmptySeq, SeqDomain DEF IsSeq

\* If the calls to come are the end of a change set, so are those after the next.
LEMMA RestIsEnd ==
  ASSUME NEW t, NEW p, IsSeq(t), IsSeq(p), t # <<>>, Len(t) <= Len(p),
         \A k \in DOMAIN t :
           t[k].file \in Files /\ t[k].file = p[k + Len(p) - Len(t)].file
  PROVE  /\ IsSeq(Tail(t)) /\ Len(Tail(t)) <= Len(p)
         /\ \A k \in DOMAIN Tail(t) :
              /\ Tail(t)[k].file \in Files
              /\ Tail(t)[k].file = p[k + Len(p) - Len(Tail(t))].file
  <1>1. /\ IsSeq(Tail(t)) /\ Len(Tail(t)) = Len(t) - 1
        /\ \A k \in 1..(Len(t) - 1) : Tail(t)[k] = t[k + 1]
    BY TailOf
  <1>2. /\ Len(t) \in Nat /\ DOMAIN t = 1..Len(t) /\ Len(p) \in Nat
        /\ DOMAIN Tail(t) = 1..(Len(t) - 1)
    BY <1>1, SeqDomain
  <1>3. ASSUME NEW k \in 1..(Len(t) - 1)
        PROVE  /\ Tail(t)[k].file \in Files
               /\ Tail(t)[k].file = p[k + Len(p) - Len(Tail(t))].file
    <2>1. t[k + 1].file \in Files /\ t[k + 1].file = p[(k + 1) + Len(p) - Len(t)].file
      BY <1>2
    <2>2. (k + 1) + Len(p) - Len(t) = k + Len(p) - Len(Tail(t))
      BY <1>1, <1>2
    <2> QED
      BY <1>1, <2>1, <2>2
  <1> QED
    BY <1>1, <1>2, <1>3

\* Who is not concerned keeps its progress.
LEMMA OthersProgress ==
  ASSUME NEW b, Progress(b), pc'[b] = pc[b], proposal'[b] = proposal[b], todo'[b] = todo[b]
  PROVE  Progress(b)'
  BY DEF Progress, IsSeq

\* Who has nothing to write and does not start to.
LEMMA RestProgress ==
  ASSUME NEW b, IsSeq(proposal'[b]), todo'[b] = <<>>, pc'[b] # "checked",
         \A k \in DOMAIN proposal'[b] : proposal'[b][k].file \in Files
  PROVE  Progress(b)'
  <1>1. Len(proposal'[b]) \in Nat
    BY SeqDomain
  <1> QED
    BY <1>1, EmptyIsSeq DEF Progress, IsSeq

\* The shape holds at first...
LEMMA ShapeInit == Init => Shape
  <1> SUFFICES ASSUME Init PROVE Shape
    OBVIOUS
  <1>1. Domains
    BY DEF Init, Initial, Domains
  <1>2. ASSUME NEW a \in Agents PROVE Progress(a)
    <2>1. pc[a] = "idle" /\ proposal[a] = <<>> /\ todo[a] = <<>>
      BY DEF Init
    <2> QED
      BY <2>1, EmptyIsSeq DEF Progress
  <1> QED
    BY <1>1, <1>2 DEF Shape

\* ... and no step breaks it...
LEMMA ShapeStep ==
  ASSUME Shape, [Next]_vars, ChangeSetAssumption
  PROVE  Shape'
  <1> USE DEF Shape
  <1>1. CASE \E a \in Agents : \E files \in Batches : Propose(a, files)
    <2>1. PICK a \in Agents, files \in Batches : Propose(a, files)
      BY <1>1
    <2>2. Domains'
      BY <2>1 DEF Propose, Domains, auxVars
    <2>3. IsSeq(proposal'[a]) /\ \A k \in DOMAIN proposal'[a] : proposal'[a][k].file \in Files
      <3>1. /\ Len(files) \in Nat /\ DOMAIN files = 1..Len(files)
            /\ \A k \in 1..Len(files) : files[k] \in Files
        <4>1. files \in Seq(Files)
          BY DEF ChangeSetAssumption
        <4> QED
          BY <4>1, LenProperties
      <3>2. proposal'[a] = [k \in 1..Len(files) |-> proposal'[a][k]]
        BY <2>1, <3>1 DEF Propose, Domains
      <3>3. IsSeq(proposal'[a])
        BY <3>1, <3>2, FunctionIsSeq
      <3>4. \A k \in DOMAIN proposal'[a] : proposal'[a][k].file \in Files
        BY <2>1, <3>1, <3>2 DEF Propose, Domains
      <3> QED
        BY <3>3, <3>4
    <2>4. todo'[a] = <<>> /\ pc'[a] # "checked"
      BY <2>1, SeqDomain DEF Propose, Domains, Progress
    <2>5. Progress(a)'
      BY <2>3, <2>4, RestProgress
    <2>6. ASSUME NEW b \in Agents \ {a} PROVE Progress(b)'
      <3>1. pc'[b] = pc[b] /\ proposal'[b] = proposal[b] /\ todo'[b] = todo[b]
        BY <2>1 DEF Propose, Domains
      <3> QED
        BY <3>1, OthersProgress
    <2> QED
      BY <2>2, <2>5, <2>6
  <1>2. CASE \E a \in Agents : \E accepted \in SUBSET DOMAIN proposal[a] : Compare(a, accepted)
    <2>a. PICK a \in Agents : \E accepted \in SUBSET DOMAIN proposal[a] : Compare(a, accepted)
      BY <1>2
    <2>1. PICK accepted \in SUBSET DOMAIN proposal[a] : Compare(a, accepted)
      BY <2>a
    <2>2. Domains'
      BY <2>1 DEF Compare, Domains, auxVars
    <2> DEFINE n == Len(proposal[a])
    <2>3. n \in Nat /\ DOMAIN proposal[a] = 1..n
      BY SeqDomain DEF Progress
    <2>4. /\ proposal'[a] = [k \in 1..n |-> [proposal[a][k] EXCEPT !.accept = (k \in accepted)]]
          /\ todo'[a] = [k \in 1..n |-> [file |-> proposal[a][k].file,
                                         content |-> Result(proposal[a][k], k \in accepted)]]
          /\ pc'[a] = "checked"
      BY <2>1, <2>3 DEF Compare, Domains
    <2>5. IsSeq(proposal'[a]) /\ Len(proposal'[a]) = n
      BY <2>3, <2>4, FunctionIsSeq, ZenonT(60)
    <2>6. IsSeq(todo'[a]) /\ Len(todo'[a]) = n
      BY <2>3, <2>4, FunctionIsSeq, ZenonT(60)
    <2>7. Progress(a)'
      BY <2>3, <2>4, <2>5, <2>6 DEF Progress
    <2>8. ASSUME NEW b \in Agents \ {a} PROVE Progress(b)'
      <3>1. pc'[b] = pc[b] /\ proposal'[b] = proposal[b] /\ todo'[b] = todo[b]
        BY <2>1 DEF Compare, Domains
      <3> QED
        BY <3>1, OthersProgress
    <2> QED
      BY <2>2, <2>7, <2>8
  <1>3. CASE \E a \in Agents : SaveCheckpoint(a)
    <2>1. PICK a \in Agents : SaveCheckpoint(a)
      BY <1>3
    <2>2. Domains'
      BY <2>1 DEF SaveCheckpoint, Domains, auxVars
    <2>3. Progress(a)'
      BY <2>1 DEF SaveCheckpoint, Domains, Progress, IsSeq
    <2>4. ASSUME NEW b \in Agents \ {a} PROVE Progress(b)'
      <3>1. pc'[b] = pc[b] /\ proposal'[b] = proposal[b] /\ todo'[b] = todo[b]
        BY <2>1 DEF SaveCheckpoint, Domains
      <3> QED
        BY <3>1, OthersProgress
    <2> QED
      BY <2>2, <2>3, <2>4
  <1>4. CASE \E a \in Agents : WriteFile(a)
    <2>1. PICK a \in Agents : WriteFile(a)
      BY <1>4
    <2>2. Domains'
      BY <2>1 DEF WriteFile, Put, Domains
    <2>3. todo'[a] = Tail(todo[a]) /\ proposal'[a] = proposal[a] /\ pc'[a] = "writing"
      BY <2>1 DEF WriteFile, CheckpointSaved, Domains
    <2>4. IsSeq(todo[a]) /\ IsSeq(proposal[a]) /\ todo[a] # <<>>
      BY <2>1 DEF WriteFile, Progress
    <2>5. /\ IsSeq(Tail(todo[a])) /\ Len(Tail(todo[a])) <= Len(proposal[a])
          /\ \A k \in DOMAIN Tail(todo[a]) :
               /\ Tail(todo[a])[k].file \in Files
               /\ Tail(todo[a])[k].file
                    = proposal[a][k + Len(proposal[a]) - Len(Tail(todo[a]))].file
      BY <2>4, RestIsEnd DEF Progress
    <2>7. Progress(a)'
      BY <2>3, <2>4, <2>5 DEF Progress, IsSeq
    <2>8. ASSUME NEW b \in Agents \ {a} PROVE Progress(b)'
      <3>1. pc'[b] = pc[b] /\ proposal'[b] = proposal[b] /\ todo'[b] = todo[b]
        BY <2>1 DEF WriteFile, Domains
      <3> QED
        BY <3>1, OthersProgress
    <2> QED
      BY <2>2, <2>7, <2>8
  <1>5. CASE \E a \in Agents : AcceptFails(a) \/ AcceptReturns(a) \/ Abandon(a)
    <2>1. PICK a \in Agents, next \in {"review", "idle"} :
            Return(a, next) /\ UNCHANGED <<disk, author>>
      BY <1>5 DEF AcceptFails, AcceptReturns, Abandon
    <2>2. Domains'
      BY <2>1 DEF Return, Domains
    <2>3. /\ IsSeq(proposal'[a]) /\ todo'[a] = <<>> /\ pc'[a] # "checked"
          /\ \A k \in DOMAIN proposal'[a] : proposal'[a][k].file \in Files
      BY <2>1, EmptyIsSeq DEF Return, Domains, Progress
    <2>4. Progress(a)'
      BY <2>3, RestProgress
    <2>5. ASSUME NEW b \in Agents \ {a} PROVE Progress(b)'
      <3>1. pc'[b] = pc[b] /\ proposal'[b] = proposal[b] /\ todo'[b] = todo[b]
        BY <2>1 DEF Return, Domains
      <3> QED
        BY <3>1, OthersProgress
    <2> QED
      BY <2>2, <2>4, <2>5
  <1>6. CASE RestoreFile \/ \E f \in Files : UserEdits(f)
    <2>1. UNCHANGED agentVars
      BY <1>6 DEF RestoreFile, UserEdits
    <2>2. Domains'
      BY <1>6 DEF RestoreFile, UserEdits, Put, Domains, agentVars
    <2>3. ASSUME NEW b \in Agents PROVE Progress(b)'
      BY <2>1, OthersProgress DEF agentVars
    <2> QED
      BY <2>2, <2>3
  <1>7. CASE (\E m \in DOMAIN manifests : PlanRestore(m)) \/ RestoreReturns
    <2>1. UNCHANGED <<agentVars, disk, author, stale, unsaved>>
      BY <1>7 DEF PlanRestore, RestoreReturns
    <2>2. ASSUME NEW b \in Agents PROVE Progress(b)'
      BY <2>1, OthersProgress DEF agentVars
    <2> QED
      BY <2>1, <2>2 DEF agentVars, Domains
  <1>8. CASE Crash
    <2>1. Domains'
      BY <1>8 DEF Crash, Domains
    <2>2. ASSUME NEW b \in Agents PROVE Progress(b)'
      <3>1. proposal'[b] = <<>> /\ todo'[b] = <<>> /\ pc'[b] = "idle"
        BY <1>8 DEF Crash
      <3> QED
        BY <3>1, EmptyIsSeq, RestProgress
    <2> QED
      BY <2>1, <2>2
  <1>9. CASE UNCHANGED vars
    <2>1. ASSUME NEW b \in Agents PROVE Progress(b)'
      BY <1>9, OthersProgress DEF vars, agentVars
    <2> QED
      BY <1>9, <2>1 DEF vars, agentVars, auxVars, Domains
  <1> QED
    BY <1>1, <1>2, <1>3, <1>4, <1>5, <1>6, <1>7, <1>8, <1>9 DEF Next

\* ... hence it always holds.
LEMMA ShapeAlways == ASSUME ChangeSetAssumption PROVE Spec => []Shape
  <1>1. Shape /\ [Next]_vars => Shape'
    BY ShapeStep
  <1> QED
    BY <1>1, ShapeInit, PTL DEF Spec

----------------------------------------------------------------------------
(* The text that was reviewed *)

\* The files of the change set p that are written when t is left to be written.
Done(p, t) == {p[k].file : k \in 1..(Len(p) - Len(t))}

\* What is left agrees with the text of the files in d, except those in s.
Agrees(p, t, d, s) ==
  \A k \in DOMAIN t :
    \/ t[k].file \in s \cup Done(p, t)
    \/ Text(d[t[k].file]) = p[k + Len(p) - Len(t)].old

\* What Progress says of a change set p and the part t of it.
EndOf(p, t) ==
  /\ IsSeq(t) /\ IsSeq(p) /\ Len(t) <= Len(p)
  /\ \A k \in DOMAIN t :
       t[k].file \in Files /\ t[k].file = p[k + Len(p) - Len(t)].file

Reviewed == \A a \in Agents : Agrees(proposal[a], todo[a], disk, stale[a])

\* The file that is written next is counted among the written ones.
LEMMA DoneGrows ==
  ASSUME NEW p, NEW t, EndOf(p, t), t # <<>>
  PROVE  Done(p, t) \cup {t[1].file} \subseteq Done(p, Tail(t))
  <1>1. Len(Tail(t)) = Len(t) - 1
    BY TailOf DEF EndOf
  <1>2. Len(t) \in Nat \ {0} /\ Len(p) \in Nat /\ Len(t) <= Len(p) /\ DOMAIN t = 1..Len(t)
    BY SeqDomain DEF EndOf
  <1>3. (Len(p) - Len(t)) + 1 = Len(p) - Len(Tail(t))
    BY <1>1, <1>2
  <1>4. 1..(Len(p) - Len(t)) \subseteq 1..(Len(p) - Len(Tail(t)))
    BY <1>2, <1>3
  <1>5. t[1].file = p[1 + Len(p) - Len(t)].file
    BY <1>2 DEF EndOf
  <1>6. 1 + Len(p) - Len(t) \in 1..(Len(p) - Len(Tail(t)))
    BY <1>2, <1>3
  <1> QED
    BY <1>4, <1>5, <1>6 DEF Done

\* Writing the next file leaves the others as they were reviewed.
LEMMA AgreesAfterWrite ==
  ASSUME NEW p, NEW t, NEW d, NEW e, NEW s, EndOf(p, t), t # <<>>, Agrees(p, t, d, s),
         \A f \in Files \ {t[1].file} : e[f] = d[f]
  PROVE  Agrees(p, Tail(t), e, s)
  <1>1. /\ IsSeq(Tail(t)) /\ Len(Tail(t)) = Len(t) - 1
        /\ \A k \in 1..(Len(t) - 1) : Tail(t)[k] = t[k + 1]
    BY TailOf DEF EndOf
  <1>2. /\ Len(t) \in Nat /\ DOMAIN t = 1..Len(t) /\ Len(p) \in Nat
        /\ DOMAIN Tail(t) = 1..(Len(t) - 1)
    BY <1>1, SeqDomain DEF EndOf
  <1> SUFFICES ASSUME NEW k \in 1..(Len(t) - 1)
               PROVE  \/ Tail(t)[k].file \in s \cup Done(p, Tail(t))
                      \/ Text(e[Tail(t)[k].file]) = p[k + Len(p) - Len(Tail(t))].old
    BY <1>2 DEF Agrees
  <1> DEFINE f == t[k + 1].file
  <1>3. Tail(t)[k].file = f /\ k + 1 \in DOMAIN t /\ f \in Files
    BY <1>1, <1>2 DEF EndOf
  <1>4. (k + 1) + Len(p) - Len(t) = k + Len(p) - Len(Tail(t))
    BY <1>1, <1>2
  <1>5. f \in s \cup Done(p, t) \/ Text(d[f]) = p[(k + 1) + Len(p) - Len(t)].old
    BY <1>3 DEF Agrees
  <1>6. Done(p, t) \cup {t[1].file} \subseteq Done(p, Tail(t))
    BY DoneGrows
  <1> QED
    BY <1>3, <1>4, <1>5, <1>6

\* A write of another one makes the file stale or leaves the text.
LEMMA AgreesAfterOther ==
  ASSUME NEW p, NEW t, NEW d, NEW e, NEW s, NEW r, NEW f, Agrees(p, t, d, s),
         \A k \in DOMAIN t : t[k].file \in Files,
         \A g \in Files \ {f} : e[g] = d[g],
         t # <<>> => r = s \cup {f}, IsSeq(t)
  PROVE  Agrees(p, t, e, r)
  <1>1. t = <<>> => DOMAIN t = {}
    BY EmptyIsSeq
  <1> QED
    BY <1>1 DEF Agrees

\* No step overwrites an edit of the user's without a review.
LEMMA ReviewedStep ==
  ASSUME Shape, Reviewed, [Next]_vars, ChangeSetAssumption
  PROVE  Reviewed'
  <1> DEFINE Kept(b) ==
        proposal'[b] = proposal[b] /\ todo'[b] = todo[b] /\ stale'[b] = stale[b]
  <1>1. ASSUME NEW b \in Agents, disk' = disk, todo'[b] = todo[b],
               stale'[b] = stale[b], proposal'[b] = proposal[b]
        PROVE  Agrees(proposal[b], todo[b], disk, stale[b])'
    BY <1>1 DEF Reviewed, Agrees, Done
  <1>2. ASSUME NEW b \in Agents, todo'[b] = <<>>
        PROVE  Agrees(proposal[b], todo[b], disk, stale[b])'
    BY <1>2, EmptyIsSeq DEF Agrees
  <1>3. ASSUME NEW b \in Agents, NEW f, NEW c, NEW by, b # by, Put(f, c, by),
               UNCHANGED <<pc, proposal>>, todo'[b] = todo[b]
        PROVE  Agrees(proposal[b], todo[b], disk, stale[b])'
    <2>1. IsSeq(todo[b]) /\ \A k \in DOMAIN todo[b] : todo[b][k].file \in Files
      BY DEF Shape, Progress
    <2>2. \A g \in Files \ {f} : disk'[g] = disk[g]
      BY <1>3 DEF Put, Shape, Domains
    <2>3. todo[b] # <<>> => stale'[b] = stale[b] \cup {f}
      BY <1>3 DEF Put, Shape, Progress
    <2>4. Agrees(proposal[b], todo[b], disk, stale[b])
      BY DEF Reviewed
    <2>5. Agrees(proposal[b], todo[b], disk', stale'[b])
      BY <2>1, <2>2, <2>3, <2>4, AgreesAfterOther
    <2> QED
      BY <1>3, <2>5 DEF Agrees, Done
  <1>4. ASSUME NEW a \in Agents, NEW files \in Batches, Propose(a, files) PROVE Reviewed'
    <2>1. todo[a] = <<>>
      BY <1>4, SeqDomain DEF Propose, Shape, Progress
    <2>2. \A b \in Agents \ {a} : proposal'[b] = proposal[b]
      BY <1>4 DEF Propose, Shape, Domains
    <2>3. UNCHANGED <<disk, todo, stale>>
      BY <1>4 DEF Propose, auxVars
    <2> QED
      BY <1>1, <1>2, <2>1, <2>2, <2>3 DEF Reviewed
  <1>5. ASSUME NEW a \in Agents, NEW accepted, Compare(a, accepted) PROVE Reviewed'
    <2> DEFINE n == Len(proposal[a])
    <2>1. n \in Nat /\ DOMAIN proposal[a] = 1..n
      BY SeqDomain DEF Shape, Progress
    <2>2. /\ proposal'[a] = [k \in 1..n |-> [proposal[a][k] EXCEPT !.accept = (k \in accepted)]]
          /\ todo'[a] = [k \in 1..n |-> [file |-> proposal[a][k].file,
                                         content |-> Result(proposal[a][k], k \in accepted)]]
          /\ UNCHANGED <<disk, stale>>
      BY <1>5, <2>1 DEF Compare, Shape, Domains, auxVars
    <2>3. Len(proposal'[a]) = n /\ Len(todo'[a]) = n
      BY <2>1, <2>2, FunctionIsSeq
    <2>4. ASSUME NEW k \in 1..n
          PROVE  Text(disk[todo'[a][k].file]) = proposal'[a][k].old
      BY <1>5, <2>1, <2>2 DEF Compare, Matches
    <2>5. ASSUME NEW k \in 1..n PROVE k + n - n = k
      BY <2>1
    <2>6. Agrees(proposal[a], todo[a], disk, stale[a])'
      BY <2>2, <2>3, <2>4, <2>5 DEF Agrees
    <2>7. ASSUME NEW b \in Agents \ {a} PROVE Agrees(proposal[b], todo[b], disk, stale[b])'
      <3>1. proposal'[b] = proposal[b] /\ todo'[b] = todo[b]
        BY <1>5 DEF Compare, Shape, Domains
      <3> QED
        BY <1>1, <2>2, <3>1
    <2> QED
      BY <2>6, <2>7 DEF Reviewed
  <1>6. ASSUME NEW a \in Agents, WriteFile(a) PROVE Reviewed'
    <2>1. /\ todo[a] # <<>> /\ EndOf(proposal[a], todo[a])
          /\ Agrees(proposal[a], todo[a], disk, stale[a])
      BY <1>6 DEF WriteFile, Shape, Progress, EndOf, Reviewed
    <2>2. Head(todo[a]) = todo[a][1]
      BY <2>1, TailOf DEF EndOf
    <2>3. \A f \in Files \ {todo[a][1].file} : disk'[f] = disk[f]
      BY <1>6, <2>2 DEF WriteFile, Put, Shape, Domains
    <2>4. Agrees(proposal[a], Tail(todo[a]), disk', stale[a])
      BY <2>1, <2>3, AgreesAfterWrite
    <2>5. proposal'[a] = proposal[a] /\ todo'[a] = Tail(todo[a]) /\ stale'[a] = stale[a]
      BY <1>6 DEF WriteFile, Put, Shape, Domains
    <2>6. Agrees(proposal[a], todo[a], disk, stale[a])'
      BY <2>4, <2>5 DEF Agrees, Done
    <2>7. ASSUME NEW b \in Agents \ {a} PROVE Agrees(proposal[b], todo[b], disk, stale[b])'
      <3>1. Put(Head(todo[a]).file, Head(todo[a]).content, a) /\ UNCHANGED <<pc, proposal>>
        BY <1>6 DEF WriteFile
      <3>2. todo'[b] = todo[b]
        BY <1>6 DEF WriteFile, Shape, Domains
      <3> QED
        BY <1>3, <3>1, <3>2
    <2> QED
      BY <2>6, <2>7 DEF Reviewed
  <1>7. ASSUME NEW a \in Agents, SaveCheckpoint(a) PROVE Reviewed'
    BY <1>1, <1>7 DEF SaveCheckpoint, auxVars, Reviewed
  <1>8. ASSUME NEW a \in Agents, AcceptFails(a) \/ AcceptReturns(a) \/ Abandon(a)
        PROVE  Reviewed'
    <2>1. PICK next \in {"review", "idle"} : Return(a, next) /\ UNCHANGED disk
      BY <1>8 DEF AcceptFails, AcceptReturns, Abandon
    <2>2. todo'[a] = <<>>
      BY <2>1 DEF Return, Shape, Domains
    <2>3. ASSUME NEW b \in Agents \ {a} PROVE Kept(b)
      BY <2>1 DEF Return, Shape, Domains
    <2> QED
      BY <1>1, <1>2, <2>1, <2>2, <2>3 DEF Reviewed
  <1>9. CASE RestoreFile \/ \E f \in Files : UserEdits(f)
    <2>1. PICK f, c, by : Put(f, c, by) /\ by \notin Agents /\ UNCHANGED agentVars
      BY <1>9 DEF RestoreFile, UserEdits, ChangeSetAssumption
    <2> QED
      BY <1>3, <2>1 DEF agentVars, Reviewed
  <1>10. CASE (\E m \in DOMAIN manifests : PlanRestore(m)) \/ RestoreReturns \/ UNCHANGED vars
    <2>1. UNCHANGED <<agentVars, disk, stale>>
      BY <1>10 DEF PlanRestore, RestoreReturns, vars, auxVars
    <2> QED
      BY <1>1, <2>1 DEF agentVars, Reviewed
  <1>11. CASE Crash
    BY <1>2, <1>11 DEF Crash, Reviewed
  <1> QED
    BY <1>4, <1>5, <1>6, <1>7, <1>8, <1>9, <1>10, <1>11 DEF Next

\* What accept_edit is about to overwrite is the text that was reviewed, with
\* any number of executors, files and restores at work and at every crash.
THEOREM ReviewedEditsAreKept == ASSUME ChangeSetAssumption PROVE Spec => []ReviewedEditsKept
  <1>1. Init => Reviewed
    BY EmptyIsSeq DEF Init, Reviewed, Agrees
  <1>2. Shape /\ Reviewed /\ [Next]_vars => Reviewed'
    BY ReviewedStep
  <1>3. Reviewed => ReviewedEditsKept
    BY DEF Reviewed, ReviewedEditsKept, Agrees, Done, Written
  <1> QED
    BY <1>1, <1>2, <1>3, ShapeAlways, PTL DEF Spec

----------------------------------------------------------------------------
(* What checkpoints have saved *)

\* The entries E hold everything of t that is still to be written: its content,
\* and what it replaces in d, except for files in u.
Covers(E, p, t, d, u) ==
  \A k \in DOMAIN t :
    /\ \E e \in E : e.file = t[k].file /\ e.after = t[k].content
    /\ \/ t[k].file \in u \cup Done(p, t)
       \/ \E e \in E : e.file = t[k].file /\ e.before = d[t[k].file]

Saved ==
  /\ IsSeq(manifests)
  /\ \A a \in Agents :
       pc[a] = "writing" => Covers(Entries, proposal[a], todo[a], disk, unsaved[a])

SavedInv == Shape /\ Saved /\ NothingLost /\ WritesUndoable

\* An appended manifest adds its entries, and the earlier ones remain.
LEMMA EntriesGrow ==
  ASSUME IsSeq(manifests), NEW x, manifests' = Append(manifests, x)
  PROVE  /\ IsSeq(manifests') /\ Entries \subseteq Entries'
         /\ \A k \in DOMAIN x : x[k] \in Entries'
  <1>1. /\ IsSeq(manifests') /\ Len(manifests') = Len(manifests) + 1
        /\ \A m \in 1..Len(manifests) : manifests'[m] = manifests[m]
        /\ manifests'[Len(manifests) + 1] = x
    BY AppendOf
  <1>2. /\ Len(manifests) \in Nat /\ DOMAIN manifests = 1..Len(manifests)
        /\ DOMAIN manifests' = 1..(Len(manifests) + 1)
    BY <1>1, SeqDomain
  <1> QED
    BY <1>1, <1>2 DEF Entries

\* Writing the next file changes nothing for the others.
LEMMA CoversAfterWrite ==
  ASSUME NEW E, NEW p, NEW t, NEW d, NEW e, NEW u, EndOf(p, t), t # <<>>,
         Covers(E, p, t, d, u), \A f \in Files \ {t[1].file} : e[f] = d[f]
  PROVE  Covers(E, p, Tail(t), e, u)
  <1>1. /\ IsSeq(Tail(t)) /\ Len(Tail(t)) = Len(t) - 1
        /\ \A k \in 1..(Len(t) - 1) : Tail(t)[k] = t[k + 1]
    BY TailOf DEF EndOf
  <1>2. /\ Len(t) \in Nat /\ DOMAIN t = 1..Len(t) /\ Len(p) \in Nat
        /\ DOMAIN Tail(t) = 1..(Len(t) - 1)
    BY <1>1, SeqDomain DEF EndOf
  <1>3. Done(p, t) \cup {t[1].file} \subseteq Done(p, Tail(t))
    BY DoneGrows
  <1> SUFFICES ASSUME NEW k \in 1..(Len(t) - 1)
      PROVE  /\ \E n \in E : n.file = Tail(t)[k].file /\ n.after = Tail(t)[k].content
             /\ \/ Tail(t)[k].file \in u \cup Done(p, Tail(t))
                \/ \E n \in E : n.file = Tail(t)[k].file /\ n.before = e[Tail(t)[k].file]
    BY <1>2 DEF Covers
  <1>4. Tail(t)[k] = t[k + 1] /\ k + 1 \in DOMAIN t /\ t[k + 1].file \in Files
    BY <1>1, <1>2 DEF EndOf
  <1>5. /\ \E n \in E : n.file = t[k + 1].file /\ n.after = t[k + 1].content
        /\ \/ t[k + 1].file \in u \cup Done(p, t)
           \/ \E n \in E : n.file = t[k + 1].file /\ n.before = d[t[k + 1].file]
    BY <1>4 DEF Covers
  <1> QED
    BY <1>3, <1>4, <1>5

\* A write to one file leaves the rest covered, that file counting as unsaved.
LEMMA CoversAfterOther ==
  ASSUME NEW E, NEW p, NEW t, NEW d, NEW e, NEW u, NEW f, Covers(E, p, t, d, u),
         \A k \in DOMAIN t : t[k].file \in Files,
         \A g \in Files \ {f} : e[g] = d[g]
  PROVE  Covers(E, p, t, e, u \cup {f})
  BY DEF Covers

\* No step loses a content the checkpoints do not hold.
LEMMA SavedStep ==
  ASSUME SavedInv, [Next]_vars, ChangeSetAssumption
  PROVE  Saved' /\ NothingLost' /\ WritesUndoable'
  <1> USE DEF SavedInv
  <1>1. ASSUME manifests' = manifests PROVE IsSeq(manifests') /\ Entries' = Entries
    BY <1>1 DEF Saved, Entries
  <1>2. ASSUME NEW b \in Agents, UNCHANGED <<disk, manifests>>, pc'[b] = pc[b],
               todo'[b] = todo[b], unsaved'[b] = unsaved[b], proposal'[b] = proposal[b]
        PROVE  (pc[b] = "writing" => Covers(Entries, proposal[b], todo[b], disk, unsaved[b]))'
    <2>1. pc[b] = "writing" => Covers(Entries, proposal[b], todo[b], disk, unsaved[b])
      BY DEF Saved
    <2>2. Entries' = Entries /\ disk' = disk
      BY <1>1, <1>2
    <2> QED
      BY <1>2, <2>1, <2>2 DEF Covers, Done
  <1>3. ASSUME NEW b \in Agents, NEW f, NEW c, NEW by, b # by, Put(f, c, by),
               UNCHANGED <<pc, proposal, manifests>>, todo'[b] = todo[b]
        PROVE  (pc[b] = "writing" => Covers(Entries, proposal[b], todo[b], disk, unsaved[b]))'
    <2> SUFFICES ASSUME pc[b] = "writing"
                 PROVE  Covers(Entries, proposal[b], todo[b], disk, unsaved[b])'
      BY <1>3
    <2>1. \A k \in DOMAIN todo[b] : todo[b][k].file \in Files
      BY DEF Shape, Progress
    <2>2. \A g \in Files \ {f} : disk'[g] = disk[g]
      BY <1>3 DEF Put, Shape, Domains
    <2>3. unsaved'[b] = unsaved[b] \cup {f}
      BY <1>3 DEF Put, Shape, Domains
    <2>4. Covers(Entries, proposal[b], todo[b], disk, unsaved[b])
      BY DEF Saved
    <2>a. Covers(Entries, proposal[b], todo[b], disk', unsaved[b] \cup {f})
      BY <2>1, <2>2, <2>4, CoversAfterOther
    <2>5. Covers(Entries, proposal[b], todo[b], disk', unsaved'[b])
      BY <2>3, <2>a
    <2>6. Entries' = Entries /\ proposal'[b] = proposal[b] /\ todo'[b] = todo[b]
      BY <1>1, <1>3
    <2> QED
      BY <2>5, <2>6, Zenon
  <1>4. ASSUME UNCHANGED <<disk, author, manifests, replaced>>
        PROVE  NothingLost' /\ WritesUndoable'
    BY <1>1, <1>4 DEF NothingLost, WritesUndoable
  <1>5. ASSUME NEW a \in Agents, NEW files \in Batches, Propose(a, files)
        PROVE  Saved' /\ NothingLost' /\ WritesUndoable'
    <2>1. UNCHANGED <<disk, todo, manifests, unsaved, author, replaced>> /\ pc'[a] = "review"
      BY <1>5 DEF Propose, auxVars, Shape, Domains
    <2>2. \A b \in Agents \ {a} : pc'[b] = pc[b] /\ proposal'[b] = proposal[b]
      BY <1>5 DEF Propose, Shape, Domains
    <2> QED
      BY <1>1, <1>2, <1>4, <2>1, <2>2 DEF Saved
  <1>6. ASSUME NEW a \in Agents, NEW accepted, Compare(a, accepted)
        PROVE  Saved' /\ NothingLost' /\ WritesUndoable'
    <2>1. UNCHANGED <<disk, manifests, unsaved, author, replaced>> /\ pc'[a] = "checked"
      BY <1>6 DEF Compare, auxVars, Shape, Domains
    <2>2. \A b \in Agents \ {a} :
            pc'[b] = pc[b] /\ proposal'[b] = proposal[b] /\ todo'[b] = todo[b]
      BY <1>6 DEF Compare, Shape, Domains
    <2> QED
      BY <1>1, <1>2, <1>4, <2>1, <2>2 DEF Saved
  <1>7. ASSUME NEW a \in Agents, SaveCheckpoint(a)
        PROVE  Saved' /\ NothingLost' /\ WritesUndoable'
    <2> DEFINE x == [k \in DOMAIN todo[a] |->
                       [file |-> todo[a][k].file, before |-> BeforeImage(a, k),
                        after |-> todo[a][k].content]]
    <2>1. manifests' = Append(manifests, x)
      BY <1>7 DEF SaveCheckpoint
    <2>2. /\ IsSeq(manifests') /\ Entries \subseteq Entries'
          /\ \A k \in DOMAIN x : x[k] \in Entries'
      BY <2>1, EntriesGrow DEF Saved
    <2>3. UNCHANGED <<disk, todo, proposal, unsaved, author, replaced>>
      BY <1>7 DEF SaveCheckpoint, auxVars
    <2>4. Covers(Entries, proposal[a], todo[a], disk, unsaved[a])'
      <3>1. \A k \in DOMAIN todo[a] :
              /\ x[k] \in Entries' /\ x[k].file = todo[a][k].file
              /\ x[k].after = todo[a][k].content /\ x[k].before = disk[todo[a][k].file]
        BY <2>2 DEF BeforeImage
      <3> QED
        BY <2>3, <3>1 DEF Covers
    <2>5. ASSUME NEW b \in Agents \ {a}, pc'[b] = "writing"
          PROVE  Covers(Entries, proposal[b], todo[b], disk, unsaved[b])'
      <3>1. pc[b] = "writing"
        BY <1>7, <2>5 DEF SaveCheckpoint, Shape, Domains
      <3>2. Covers(Entries, proposal[b], todo[b], disk, unsaved[b])
        BY <3>1 DEF Saved
      <3> QED
        BY <2>2, <2>3, <3>2 DEF Covers, Done
    <2>6. NothingLost' /\ WritesUndoable'
      BY <2>2, <2>3 DEF NothingLost, WritesUndoable
    <2> QED
      BY <2>2, <2>4, <2>5, <2>6 DEF Saved
  <1>8. ASSUME NEW a \in Agents, WriteFile(a)
        PROVE  Saved' /\ NothingLost' /\ WritesUndoable'
    <2> DEFINE f == todo[a][1].file
    <2>1. /\ todo[a] # <<>> /\ EndOf(proposal[a], todo[a])
          /\ Covers(Entries, proposal[a], todo[a], disk, unsaved[a])
      BY <1>8 DEF WriteFile, CheckpointSaved, Shape, Progress, EndOf, Saved
    <2>2. Head(todo[a]) = todo[a][1] /\ 1 \in DOMAIN todo[a]
      BY <2>1, TailOf, SeqDomain DEF EndOf
    <2>3. /\ Put(f, todo[a][1].content, a)
          /\ UNCHANGED <<pc, proposal, manifests>>
      BY <1>8, <2>2 DEF WriteFile
    <2>4. /\ \A g \in Files \ {f} : disk'[g] = disk[g] /\ author'[g] = author[g]
          /\ f \in Files => disk'[f] = todo[a][1].content
      BY <2>3 DEF Put, Shape, Domains
    <2>5. Covers(Entries, proposal[a], Tail(todo[a]), disk', unsaved[a])
      BY <2>1, <2>4, CoversAfterWrite
    <2>6. todo'[a] = Tail(todo[a]) /\ unsaved'[a] = unsaved[a]
      BY <1>8, <2>3 DEF WriteFile, Put, Shape, Domains
    <2>7. Covers(Entries, proposal[a], todo[a], disk, unsaved[a])'
      BY <1>1, <2>3, <2>5, <2>6 DEF Covers, Done
    <2>8. ASSUME NEW b \in Agents \ {a}
          PROVE  (pc[b] = "writing" => Covers(Entries, proposal[b], todo[b], disk, unsaved[b]))'
      <3>1. todo'[b] = todo[b]
        BY <1>8 DEF WriteFile, Shape, Domains
      <3> QED
        BY <1>3, <2>3, <3>1
    <2>9. NothingLost'
      <3>1. replaced' = IF f \in unsaved[a] \cup Done(proposal[a], todo[a]) THEN replaced
                        ELSE replaced \cup {<<f, disk[f]>>}
        BY <1>8, <2>2 DEF WriteFile, Written, Done
      <3>2. f \in unsaved[a] \cup Done(proposal[a], todo[a])
              \/ \E e \in Entries : e.file = f /\ e.before = disk[f]
        BY <2>1, <2>2 DEF Covers
      <3> QED
        BY <1>1, <2>3, <3>1, <3>2 DEF NothingLost
    <2>10. WritesUndoable'
      <3>1. \E e \in Entries : e.file = f /\ e.after = todo[a][1].content
        BY <2>1, <2>2 DEF Covers
      <3> QED
        BY <1>1, <2>3, <2>4, <3>1 DEF WritesUndoable
    <2> QED
      BY <1>1, <2>3, <2>7, <2>8, <2>9, <2>10 DEF Saved
  <1>9. ASSUME NEW a \in Agents, AcceptFails(a) \/ AcceptReturns(a) \/ Abandon(a)
        PROVE  Saved' /\ NothingLost' /\ WritesUndoable'
    <2>1. PICK next \in {"review", "idle"} :
            Return(a, next) /\ UNCHANGED <<disk, manifests, author, replaced>>
      BY <1>9 DEF AcceptFails, AcceptReturns, Abandon
    <2>2. pc'[a] # "writing"
      BY <2>1 DEF Return, Shape, Domains
    <2>3. \A b \in Agents \ {a} : /\ pc'[b] = pc[b] /\ proposal'[b] = proposal[b]
                                  /\ todo'[b] = todo[b] /\ unsaved'[b] = unsaved[b]
      BY <2>1 DEF Return, Shape, Domains
    <2> QED
      BY <1>1, <1>2, <1>4, <2>1, <2>2, <2>3 DEF Saved
  <1>10. CASE RestoreFile \/ \E f \in Files : UserEdits(f)
    <2>1. PICK f, c, by : /\ Put(f, c, by) /\ by \notin Agents
                          /\ UNCHANGED <<agentVars, manifests, replaced>>
      BY <1>10 DEF RestoreFile, UserEdits, ChangeSetAssumption
    <2>2. Saved'
      BY <1>1, <1>3, <2>1 DEF agentVars, Saved
    <2>3. NothingLost'
      BY <1>1, <2>1 DEF NothingLost
    <2>4. \A g \in Files : author'[g] \in Agents => author'[g] = author[g] /\ disk'[g] = disk[g]
      BY <2>1 DEF Put, Shape, Domains
    <2>5. WritesUndoable'
      BY <1>1, <2>1, <2>4 DEF WritesUndoable
    <2> QED
      BY <2>2, <2>3, <2>5
  <1>11. CASE (\E m \in DOMAIN manifests : PlanRestore(m)) \/ RestoreReturns \/ UNCHANGED vars
    <2>1. UNCHANGED <<agentVars, disk, manifests, unsaved, author, replaced>>
      BY <1>11 DEF PlanRestore, RestoreReturns, vars, auxVars
    <2> QED
      BY <1>1, <1>2, <1>4, <2>1 DEF agentVars, Saved
  <1>12. CASE Crash
    <2>1. /\ UNCHANGED <<disk, manifests, author, replaced>>
          /\ \A b \in Agents : pc'[b] = "idle"
      BY <1>12 DEF Crash
    <2> QED
      BY <1>1, <1>4, <2>1 DEF Saved
  <1> QED
    BY <1>5, <1>6, <1>7, <1>8, <1>9, <1>10, <1>11, <1>12 DEF Next

\* Hence every replaced content stays saved.
LEMMA SavedAlways == ASSUME ChangeSetAssumption PROVE Spec => []SavedInv
  <1>1. Init => Saved /\ NothingLost /\ WritesUndoable
    BY EmptyIsSeq DEF Init, Saved, NothingLost, WritesUndoable, ChangeSetAssumption
  <1>2. SavedInv /\ [Next]_vars => Saved' /\ NothingLost' /\ WritesUndoable'
    BY SavedStep
  <1>3. SavedInv /\ [Next]_vars => SavedInv'
    BY <1>2, ShapeStep DEF SavedInv
  <1> QED
    BY <1>1, <1>3, ShapeInit, PTL DEF Spec, SavedInv

\* Whatever an executor replaces is in a checkpoint, except what another one
\* wrote after the checkpoint read the file.
THEOREM ReplacedIsSaved == ASSUME ChangeSetAssumption PROVE Spec => []NothingLost
  BY SavedAlways, PTL DEF SavedInv

\* Every file that holds an executor's text is the output of some checkpoint.
THEOREM WritesAreUndoable == ASSUME ChangeSetAssumption PROVE Spec => []WritesUndoable
  BY SavedAlways, PTL DEF SavedInv

----------------------------------------------------------------------------
(* The restore of a checkpoint *)

\* The entries of the checkpoint E that hold the content c of the file f as the
\* output of the change.
Outputs(E, f, c) == {j \in DOMAIN E : E[j].file = f /\ E[j].after = c}

\* Where the restore is with the file of entry k of the checkpoint E, if t is
\* left to be done and c was found in the file: it was changed behind the
\* restore's back, has got back what an output of the change replaced, or is as
\* it was found, with everything that is to be put back still to come.
OnItsWay(E, t, c, k, d, m) ==
  \/ E[k].file \in m
  \/ \E j \in Outputs(E, E[k].file, c) : d[E[k].file] = E[j].before
  \/ /\ d[E[k].file] = c
     /\ \A j \in Outputs(E, E[k].file, c) : E[j].before # c => j \in t

\* What is left of the restore concerns outputs of the change only.
Planned(E, t, s) ==
  \A j \in t : /\ j \in DOMAIN E
              /\ \A k \in DOMAIN E : E[k].file = E[j].file => E[j].after = s[k]

Restoring ==
  /\ restore = [of |-> restore.of, todo |-> restore.todo, seen |-> restore.seen]
  /\ restore.of = 0 => restore.todo = {}
  /\ restore.of # 0 =>
       /\ restore.of \in DOMAIN manifests
       /\ Planned(manifests[restore.of], restore.todo, restore.seen)
       /\ \A k \in DOMAIN manifests[restore.of] :
            OnItsWay(manifests[restore.of], restore.todo, restore.seen[k], k, disk, moved)

\* The checkpoints are of files of the workspace.
KnownFiles ==
  \A m \in DOMAIN manifests : \A k \in DOMAIN manifests[m] : manifests[m][k].file \in Files

RestoreInv == Shape /\ IsSeq(manifests) /\ KnownFiles /\ Restoring

\* A write by someone else is remembered, and the rest stays on its way.
LEMMA MovedOnItsWay ==
  ASSUME NEW E, NEW t, NEW c, NEW k \in DOMAIN E, NEW d, NEW e, NEW m, NEW f,
         E[k].file \in Files, OnItsWay(E, t, c, k, d, m),
         \A g \in Files \ {f} : e[g] = d[g]
  PROVE  OnItsWay(E, t, c, k, e, m \cup {f})
  BY DEF OnItsWay

\* Putting back what an output replaced brings its file on, and does not
\* concern the entries of other files.
LEMMA RestoredOnItsWay ==
  ASSUME NEW E, NEW t, NEW c, NEW k \in DOMAIN E, NEW d, NEW e, NEW m, NEW j \in t,
         j \in DOMAIN E, E[k].file = E[j].file => E[j].after = c,
         E[k].file \in Files, OnItsWay(E, t, c, k, d, m),
         \A g \in Files \ {E[j].file} : e[g] = d[g],
         E[j].file \in Files => e[E[j].file] = E[j].before
  PROVE  OnItsWay(E, t \ {j}, c, k, e, m)
  <1>1. CASE E[k].file = E[j].file
    <2>1. j \in Outputs(E, E[k].file, c) /\ e[E[k].file] = E[j].before
      BY <1>1 DEF Outputs
    <2> QED
      BY <2>1 DEF OnItsWay
  <1>2. CASE E[k].file # E[j].file
    <2>1. j \notin Outputs(E, E[k].file, c) /\ e[E[k].file] = d[E[k].file]
      BY <1>2 DEF Outputs
    <2> QED
      BY <2>1 DEF OnItsWay
  <1> QED
    BY <1>1, <1>2

\* At the start of a restore every file is as it was found.
LEMMA PlanFits ==
  ASSUME NEW m \in DOMAIN manifests, PlanRestore(m)
  PROVE  /\ restore' = [of |-> m, todo |-> restore'.todo, seen |-> restore'.seen]
         /\ Planned(manifests[m], restore'.todo, restore'.seen)
         /\ \A k \in DOMAIN manifests[m] :
              OnItsWay(manifests[m], restore'.todo, restore'.seen[k], k, disk, {})
  <1> DEFINE E == manifests[m]
             t == {k \in DOMAIN E : Restorable(E[k])}
             s == [k \in DOMAIN E |-> disk[E[k].file]]
  <1>1. restore' = [of |-> m, todo |-> t, seen |-> s]
    BY DEF PlanRestore
  <1>2. Planned(E, t, s)
    BY DEF Planned, Restorable
  <1>3. ASSUME NEW k \in DOMAIN E PROVE OnItsWay(E, t, s[k], k, disk, {})
    <2>1. s[k] = disk[E[k].file]
      OBVIOUS
    <2>2. ASSUME NEW j \in Outputs(E, E[k].file, s[k]), E[j].before # s[k] PROVE j \in t
      BY <2>1, <2>2 DEF Outputs, Restorable
    <2> HIDE DEF s, t
    <2> QED
      BY <2>1, <2>2 DEF OnItsWay
  <1> HIDE DEF s, t
  <1> QED
    BY <1>1, <1>2, <1>3

\* No step brings a restore off its way.
LEMMA RestoringStep ==
  ASSUME RestoreInv, [Next]_vars, ChangeSetAssumption
  PROVE  (IsSeq(manifests) /\ KnownFiles /\ Restoring)'
  <1> USE DEF RestoreInv
  <1> DEFINE E == manifests[restore.of]
  <1>1. ASSUME UNCHANGED <<disk, manifests, restore, moved>>
        PROVE  (IsSeq(manifests) /\ KnownFiles /\ Restoring)'
    BY <1>1 DEF KnownFiles, Restoring, IsSeq
  <1>2. ASSUME UNCHANGED manifests PROVE IsSeq(manifests') /\ KnownFiles'
    BY <1>2 DEF KnownFiles, IsSeq
  <1>3. ASSUME NEW f, NEW c, NEW by, by # "restore", Put(f, c, by), UNCHANGED <<manifests, restore>>
        PROVE  Restoring'
    <2> SUFFICES ASSUME restore.of # 0
                 PROVE  \A k \in DOMAIN E :
                          OnItsWay(E, restore.todo, restore.seen[k], k, disk', moved')
      BY <1>3 DEF Restoring
    <2>1. moved' = moved \cup {f} /\ \A g \in Files \ {f} : disk'[g] = disk[g]
      BY <1>3 DEF Put, Shape, Domains
    <2>2. ASSUME NEW k \in DOMAIN E
          PROVE  OnItsWay(E, restore.todo, restore.seen[k], k, disk', moved')
      <3>1. E[k].file \in Files /\ OnItsWay(E, restore.todo, restore.seen[k], k, disk, moved)
        BY DEF KnownFiles, Restoring
      <3> QED
        BY <2>1, <3>1, MovedOnItsWay
    <2> QED
      BY <2>2
  <1>4. ASSUME NEW a \in Agents, SaveCheckpoint(a)
        PROVE  (IsSeq(manifests) /\ KnownFiles /\ Restoring)'
    <2> DEFINE x == [k \in DOMAIN todo[a] |->
                       [file |-> todo[a][k].file, before |-> BeforeImage(a, k),
                        after |-> todo[a][k].content]]
    <2>1. manifests' = Append(manifests, x) /\ UNCHANGED <<disk, restore, moved>>
      BY <1>4 DEF SaveCheckpoint, auxVars
    <2>2. /\ IsSeq(manifests') /\ Len(manifests') = Len(manifests) + 1
          /\ \A m \in 1..Len(manifests) : manifests'[m] = manifests[m]
          /\ manifests'[Len(manifests) + 1] = x
      BY <2>1, AppendOf
    <2>3. /\ Len(manifests) \in Nat /\ DOMAIN manifests = 1..Len(manifests)
          /\ DOMAIN manifests' = 1..(Len(manifests) + 1)
      BY <2>2, SeqDomain
    <2>4. \A k \in DOMAIN x : x[k].file \in Files
      BY DEF Shape, Progress
    <2>5. KnownFiles'
      <3>1. ASSUME NEW m \in 1..(Len(manifests) + 1), NEW k \in DOMAIN manifests'[m]
            PROVE  manifests'[m][k].file \in Files
        <4> HIDE DEF x
        <4>1. CASE m = Len(manifests) + 1
          BY <2>2, <2>4, <4>1
        <4>2. CASE m \in 1..Len(manifests)
          BY <2>2, <2>3, <4>2 DEF KnownFiles
        <4> QED
          BY <2>3, <4>1, <4>2
      <3> QED
        BY <2>3, <3>1 DEF KnownFiles
    <2>6. Restoring'
      <3>1. restore.of # 0 => restore.of \in DOMAIN manifests' /\ manifests'[restore.of] = E
        BY <2>2, <2>3 DEF Restoring
      <3> QED
        BY <2>1, <3>1 DEF Restoring
    <2> QED
      BY <2>2, <2>5, <2>6
  <1>5. ASSUME NEW a \in Agents, WriteFile(a)
        PROVE  (IsSeq(manifests) /\ KnownFiles /\ Restoring)'
    <2>1. Put(Head(todo[a]).file, Head(todo[a]).content, a) /\ UNCHANGED <<manifests, restore>>
      BY <1>5 DEF WriteFile
    <2>2. a # "restore"
      BY DEF ChangeSetAssumption
    <2> QED
      BY <1>2, <1>3, <2>1, <2>2
  <1>6. ASSUME NEW m \in DOMAIN manifests, PlanRestore(m)
        PROVE  (IsSeq(manifests) /\ KnownFiles /\ Restoring)'
    <2>1. UNCHANGED <<disk, manifests>> /\ moved' = {}
      BY <1>6 DEF PlanRestore
    <2>2. m # 0
      BY SeqDomain
    <2>3. Restoring'
      BY <1>6, <2>1, <2>2, PlanFits DEF Restoring
    <2> QED
      BY <1>2, <2>1, <2>3
  <1>7. CASE RestoreFile
    <2>1. PICK j \in restore.todo :
            /\ Put(E[j].file, E[j].before, "restore")
            /\ restore' = [restore EXCEPT !.todo = @ \ {j}]
      BY <1>7 DEF RestoreFile
    <2>2. UNCHANGED <<manifests, moved>>
      BY <1>7, <2>1 DEF RestoreFile, Put
    <2>3. restore.of # 0
      BY DEF Restoring
    <2>4. restore' = [of |-> restore.of, todo |-> restore.todo \ {j}, seen |-> restore.seen]
      BY <2>1 DEF Restoring
    <2>5. /\ \A g \in Files \ {E[j].file} : disk'[g] = disk[g]
          /\ E[j].file \in Files => disk'[E[j].file] = E[j].before
      BY <2>1 DEF Put, Shape, Domains
    <2>6. Planned(E, restore.todo, restore.seen)
      BY <2>3 DEF Restoring
    <2>7. ASSUME NEW k \in DOMAIN E
          PROVE  OnItsWay(E, restore.todo \ {j}, restore.seen[k], k, disk', moved)
      <3>1. E[k].file \in Files /\ OnItsWay(E, restore.todo, restore.seen[k], k, disk, moved)
        BY <2>3 DEF KnownFiles, Restoring
      <3>2. j \in DOMAIN E /\ (E[k].file = E[j].file => E[j].after = restore.seen[k])
        BY <2>6 DEF Planned
      <3> QED
        BY <2>5, <3>1, <3>2, RestoredOnItsWay
    <2>8. Planned(E, restore.todo \ {j}, restore.seen)
      BY <2>6 DEF Planned
    <2>9. Restoring'
      BY <2>2, <2>3, <2>4, <2>7, <2>8 DEF Restoring
    <2> QED
      BY <1>2, <2>2, <2>9
  <1>8. CASE RestoreReturns \/ Crash
    <2>1. UNCHANGED manifests /\ restore' = NoRestore
      BY <1>8 DEF RestoreReturns, Crash
    <2> QED
      BY <1>2, <2>1 DEF NoRestore, Restoring
  <1>9. ASSUME NEW f \in Files, UserEdits(f)
        PROVE  (IsSeq(manifests) /\ KnownFiles /\ Restoring)'
    <2>1. PICK c : Put(f, c, "user") /\ UNCHANGED <<manifests, restore>>
      BY <1>9 DEF UserEdits
    <2> QED
      BY <1>2, <1>3, <2>1
  <1>10. ASSUME NEW a \in Agents,
                \/ \E files \in Batches : Propose(a, files)
                \/ \E accepted \in SUBSET DOMAIN proposal[a] : Compare(a, accepted)
                \/ AcceptFails(a) \/ AcceptReturns(a) \/ Abandon(a)
         PROVE  (IsSeq(manifests) /\ KnownFiles /\ Restoring)'
    <2>1. UNCHANGED <<disk, manifests, restore, moved>>
      BY <1>10 DEF Propose, Compare, AcceptFails, AcceptReturns, Abandon, auxVars
    <2> QED
      BY <1>1, <2>1
  <1>11. CASE UNCHANGED vars
    BY <1>1, <1>11 DEF vars, auxVars
  <1> QED
    BY <1>4, <1>5, <1>6, <1>7, <1>8, <1>9, <1>10, <1>11 DEF Next

\* A restore that went through has undone the change wherever its output was
\* found and nowhere else, with any number of files, an entry for one file
\* more than once, and edits, executors and crashes in between.
THEOREM RestoresUndo == ASSUME ChangeSetAssumption PROVE Spec => []RestoreUndoes
  <1>1. Init => IsSeq(manifests) /\ KnownFiles /\ Restoring
    BY EmptyIsSeq DEF Init, KnownFiles, Restoring, NoRestore
  <1>2. RestoreInv /\ [Next]_vars => RestoreInv'
    BY ShapeStep, RestoringStep DEF RestoreInv
  <1>3. RestoreInv => RestoreUndoes
    <2> SUFFICES ASSUME RestoreInv, restore.of # 0, restore.todo = {},
                        NEW k \in DOMAIN manifests[restore.of]
                 PROVE  LET E == manifests[restore.of]
                            f == E[k].file
                            c == restore.seen[k]
                        IN  \/ f \in moved
                            \/ Outputs(E, f, c) = {} /\ disk[f] = c
                            \/ \E j \in Outputs(E, f, c) : disk[f] = E[j].before
      BY DEF RestoreUndoes, Outputs
    <2>1. OnItsWay(manifests[restore.of], {}, restore.seen[k], k, disk, moved)
      BY DEF RestoreInv, Restoring
    <2> QED
      BY <2>1 DEF OnItsWay
  <1> QED
    BY <1>1, <1>2, <1>3, ShapeInit, PTL DEF Spec, RestoreInv

============================================================================
