-------------------------- MODULE AutomationProofs --------------------------
(***************************************************************************)
(* What TLAPS proves about Automation for every value of its constants: no *)
(* instant is run twice and none is lost, and what is carried out was      *)
(* claimed within the limits.                                              *)
(***************************************************************************)
EXTENDS Automation, FiniteSetTheorems, TLAPS

----------------------------------------------------------------------------
(* The inductive invariant *)

Statuses == {"Queued", "Running", "WaitingUser"} \cup Finished
Reasons == {"disk-budget", "concurrency"}

Keys ==
  ({"schedule"} \X Automations \X Nat) \cup ({"manual"} \X Automations \X Nat \X Nat)
    \cup ({"retry"} \X Nat \X Nat) \cup ({"defer"} \X Nat \X Reasons)

Run == [id : Nat, automation : Automations, key : Keys, created : Nat, status : Statuses]
Store == [runs : SUBSET Run, seen : SUBSET [key : Keys, at : Nat], sequence : Nat,
          last : [Automations -> Nat \cup {Unobserved}]]

\* A run in the history.
Row(r) == [id |-> r.id, key |-> r.key, created |-> r.created, run |-> r.status \notin Declined]
Rows(s) == {Row(r) : r \in s.runs}
RowOK == [id : Nat, key : Keys, created : Nat, run : BOOLEAN]

IDs(s, status) == {r.id : r \in With(s, status)}
Own(s, a) == {r \in With(s, "Running") : r.automation = a}

\* The runs of a file.
RunsFit(s) ==
  /\ s \in Store /\ IsFiniteSet(s.runs)
  /\ \A r \in s.runs : r.id <= s.sequence
  /\ \A r, q \in s.runs : r.id = q.id => r = q

\* No more of them are running than there may be.
Limited(s) ==
  /\ Cardinality(With(s, "Running")) <= Global
  /\ \A a \in Automations : Cardinality(Own(s, a)) <= MaxConcurrency[a]

\* Of the rows in H at most one within the window has a key and was to be carried out.
Once(H) ==
  \A h, g \in H :
    h.run /\ g.run /\ h.key = g.key /\ h.id < g.id => g.created - h.created >= Window

\* seen holds the key of every row in H that was to be carried out until the window is over.
KeysKept(seen, H, now) ==
  \A h \in H : h.run => \/ h.created + Window <= now
                        \/ \E e \in seen : e.key = h.key /\ e.at >= h.created

\* The newest instant when its key was seen has a row that was to be carried out.
NewestRun(seen, H) ==
  \A e \in seen, a \in Automations, t \in Nat :
    e.key = ScheduleKey(a, t) /\ CatchUp[a] > 0 /\ Missed(a, t, e.at) = {}
      => \E h \in H : h.key = e.key /\ h.run

\* A file and all the rows that are known with it.
Books(s, H, now) ==
  /\ RunsFit(s) /\ Limited(s)
  /\ H \subseteq RowOK /\ \A h \in H : h.id <= s.sequence /\ h.created <= now
  /\ \A e \in s.seen : e.at <= now
  /\ Once(H) /\ KeysKept(s.seen, H, now) /\ NewestRun(s.seen, H)

\* What is carried out is running in s, and what ever was is not queued.
Carried(s, going, begun) ==
  /\ going \subseteq IDs(s, "Running")
  /\ \A r \in s.runs : r.id \in begun => r.status # "Queued"

\* An instant was triggered now.
Noted(seen, a, t, now) == \E e \in seen : e.key = ScheduleKey(a, t) /\ e.at = now

\* What m marks as checked and d does not was triggered now.
Marked(d, m, now) ==
  \A a \in Automations :
    /\ m.last[a] \in {d.last[a], now}
    /\ d.last[a] # Unobserved =>
         \A t \in Missed(a, d.last[a], m.last[a]) : Noted(m.seen, a, t, now)

Entry == [automation : Automations, at : Nat, status : {"Queued", "Missed", "Coalesced", "checked"}]

\* The agenda T still has every instant that is due and was not triggered.
Planned(d, m, T, now) ==
  /\ T \subseteq Entry
  /\ \A e \in T :
       e.status # "checked" /\ CatchUp[e.automation] > 0 /\ Missed(e.automation, e.at, now) = {}
         => e.status = "Queued"
  /\ \A a \in Automations : d.last[a] # Unobserved =>
       \A t \in Missed(a, d.last[a], now) :
         \/ Noted(m.seen, a, t, now)
         \/ \E e \in T : e.automation = a /\ e.at = t /\ e.status # "checked"

\* The file d, the copy m and the history H.
Files(d, m, H, now) ==
  /\ Books(d, H, now) /\ Rows(d) \subseteq H
  /\ Books(m, H \cup Rows(m), now)
  /\ d.sequence <= m.sequence

\* What each step of the main thread relies on.
Phase ==
  /\ step \in {"down", "recover", "idle", "poll", "claim", "retry"}
  /\ step \in {"down", "recover"} => executing = {}
  /\ step \in {"down", "recover", "idle", "retry"} => mem = disk
  /\ step # "claim" => claimed = {}
  /\ step = "recover" => todo \subseteq IDs(mem, "Running")
  /\ step = "retry" => todo \subseteq {r.id : r \in mem.runs}
  /\ step = "poll" => mem = [disk EXCEPT !.last = mem.last] /\ Planned(disk, mem, todo, clock)
  /\ step = "claim" => /\ todo \subseteq IDs(mem, "Queued")
                       /\ claimed \subseteq IDs(mem, "Running")
                       /\ claimed \cap executed = {}

IInv ==
  /\ clock \in Nat
  /\ Files(disk, mem, history, clock)
  /\ Carried(disk, executing, executed) /\ Carried(mem, executing, executed)
  /\ executed \subseteq 0..disk.sequence
  /\ Marked(disk, mem, clock) /\ Phase

----------------------------------------------------------------------------
(* Instants *)

\* An instant that was missed lies after the last check, and now at the latest.
LEMMA Instants ==
  ASSUME NEW a \in Automations, NEW l \in Int, NEW n \in Int, NEW t \in Missed(a, l, n)
  PROVE  t \in Nat /\ l < t /\ t <= n
<1>1. /\ Anchor[a] \in Nat /\ Every[a] \in Nat /\ MaxTime \in Nat /\ l < t /\ t <= n
      /\ \E k \in 1..MaxTime : t = Anchor[a] + k * Every[a]
  BY AutomationAssumption DEF Missed
<1>2. PICK k \in 1..MaxTime : t = Anchor[a] + k * Every[a]
  BY <1>1
<1>3. k * Every[a] \in Nat
  BY <1>1
<1> QED BY <1>1, <1>2, <1>3

\* What was missed until now was missed until later.
LEMMA LaterInstants ==
  ASSUME NEW a \in Automations, NEW l \in Int, NEW n \in Int, NEW p \in Int, n <= p
  PROVE  Missed(a, l, n) \subseteq Missed(a, l, p)
<1> SUFFICES ASSUME NEW t \in Missed(a, l, n) PROVE t \in Missed(a, l, p)
  OBVIOUS
<1>1. t \in Nat /\ t <= n
  BY Instants
<1> QED BY <1>1 DEF Missed

\* Nothing was missed since now.
LEMMA NoInstants ==
  ASSUME NEW a \in Automations, NEW n \in Int PROVE Missed(a, n, n) = {}
<1> SUFFICES ASSUME NEW t \in Missed(a, n, n) PROVE FALSE
  OBVIOUS
<1> QED BY Instants

\* The newest instant is among those that are run, unless none is.
LEMMA NewestSelected ==
  ASSUME NEW a \in Automations, NEW l \in Int, NEW n \in Int, NEW t \in Missed(a, l, n),
         CatchUp[a] > 0, Missed(a, t, n) = {}
  PROVE  t \in Selected(a, l, n)
<1>1. t \in Nat /\ l < t /\ t <= n
  BY Instants
<1>2. ASSUME NEW u \in Missed(a, l, n), u >= t PROVE u = t
  <2>1. u \in Nat /\ u <= n
    BY <1>2, Instants
  <2>2. u > t => u \in Missed(a, t, n)
    BY <1>1, <2>1 DEF Missed
  <2> QED BY <1>1, <1>2, <2>1, <2>2
<1>3. PICK S : S = {u \in Missed(a, l, n) : u >= t}
  OBVIOUS
<1>4. t \in S
  BY <1>1, <1>3
<1>5. S = {t}
  BY <1>2, <1>3, <1>4
<1>6. Cardinality(S) = 1
  BY <1>5, FS_Singleton
<1>7. CatchUp[a] \in Nat
  BY AutomationAssumption
<1> QED BY <1>3, <1>6, <1>7 DEF Selected

----------------------------------------------------------------------------
(* A new run *)

\* The fields of a file.
LEMMA Fields ==
  ASSUME NEW s \in Store
  PROVE  /\ s.runs \subseteq Run /\ s.sequence \in Nat
         /\ s.seen \subseteq [key : Keys, at : Nat]
         /\ s.last \in [Automations -> Nat \cup {Unobserved}]
BY DEF Store

\* The fields of a run.
LEMMA RunFields ==
  ASSUME NEW r \in Run
  PROVE  /\ r.id \in Nat /\ r.automation \in Automations /\ r.key \in Keys
         /\ r.created \in Nat /\ r.status \in Statuses
         /\ Row(r) \in RowOK /\ Row(r).id = r.id /\ Row(r).key = r.key
         /\ Row(r).created = r.created /\ Row(r).run = (r.status \notin Declined)
BY DEF Run, Row, RowOK

\* n is s with the new run r, whose key was seen now; older runs that were finished, and
\* the new one, may have been trimmed.
Adds(s, n, r, key, status) ==
  /\ r \in Run /\ r.id = s.sequence + 1 /\ r.key = key /\ r.created = clock
  /\ r.status = IF Known(s.seen, key) THEN "Duplicate" ELSE status
  /\ n \in Store /\ IsFiniteSet(n.runs)
  /\ n.runs \subseteq s.runs \cup {r}
  /\ \A q \in s.runs \cup {r} : q.status \notin Finished => q \in n.runs
  /\ n.sequence = s.sequence + 1 /\ n.last = s.last /\ n.seen = Remember(s.seen, key)

\* That is what a trigger makes.
LEMMA TriggeredAdds ==
  ASSUME NEW s \in Store, IsFiniteSet(s.runs), NEW a \in Automations, NEW key \in Keys,
         NEW status \in Statuses, clock \in Nat, NEW n, n = Triggered(s, a, key, status)
  PROVE  \E r : Adds(s, n, r, key, status)
<1> DEFINE r == [id |-> s.sequence + 1, automation |-> a, key |-> key, created |-> clock,
                 status |-> IF Known(s.seen, key) THEN "Duplicate" ELSE status]
           all == s.runs \cup {r}
<1>1. /\ s.runs \subseteq Run /\ s.sequence \in Nat /\ s.seen \subseteq [key : Keys, at : Nat]
      /\ s.last \in [Automations -> Nat \cup {Unobserved}]
  BY Fields
<1>2. r \in Run
  BY <1>1 DEF Run, Statuses, Finished, Declined
<1>3. n = [runs |-> Trimmed(all), seen |-> Remember(s.seen, key), sequence |-> s.sequence + 1,
           last |-> s.last]
  BY DEF Triggered, Store
<1>4. Trimmed(all) \subseteq all /\ \A q \in all : q.status \notin Finished => q \in Trimmed(all)
  BY DEF Trimmed
<1>5. IsFiniteSet(Trimmed(all))
  BY <1>4, FS_AddElement, FS_Subset
<1>6. Remember(s.seen, key) \in SUBSET [key : Keys, at : Nat]
  BY <1>1 DEF Remember
<1>7. n \in Store
  <2>1. Trimmed(all) \in SUBSET Run
    BY <1>1, <1>2, <1>4
  <2>2. s.sequence + 1 \in Nat
    BY <1>1
  <2>3. PICK seen, last : seen = Remember(s.seen, key) /\ last = s.last
    OBVIOUS
  <2>4. PICK runs, sequence : runs = Trimmed(all) /\ sequence = s.sequence + 1
    OBVIOUS
  <2>5. n = [runs |-> runs, seen |-> seen, sequence |-> sequence, last |-> last]
    BY <1>3, <2>3, <2>4
  <2>6. /\ seen \in SUBSET [key : Keys, at : Nat] /\ last \in [Automations -> Nat \cup {Unobserved}]
        /\ runs \in SUBSET Run /\ sequence \in Nat
    BY <1>1, <1>6, <2>1, <2>2, <2>3, <2>4
  <2> QED BY <2>5, <2>6 DEF Store
<1>8. r.id = s.sequence + 1 /\ r.key = key /\ r.created = clock
      /\ r.status = IF Known(s.seen, key) THEN "Duplicate" ELSE status
  OBVIOUS
<1> HIDE DEF r
<1>9. /\ n.runs = Trimmed(all) /\ n.seen = Remember(s.seen, key)
      /\ n.sequence = s.sequence + 1 /\ n.last = s.last
  BY <1>3
<1>10. n.runs \subseteq all /\ \A q \in all : q.status \notin Finished => q \in n.runs
  BY <1>4, <1>9
<1> QED BY <1>2, <1>5, <1>7, <1>8, <1>9, <1>10 DEF Adds

\* A key that was seen is kept, unless the window is over.
LEMMA Remembered ==
  ASSUME NEW seen \in SUBSET [key : Keys, at : Nat], NEW key \in Keys, clock \in Nat,
         \A e \in seen : e.at <= clock
  PROVE  /\ Remember(seen, key) \in SUBSET [key : Keys, at : Nat]
         /\ \A e \in Remember(seen, key) : e.at <= clock
         /\ \A e \in Remember(seen, key) : e \in seen \/ (e.key = key /\ e.at = clock)
         /\ \E e \in Remember(seen, key) : e.key = key /\ e.at = clock
         /\ \A e \in seen : \/ e.at + Window <= clock
                            \/ \E f \in Remember(seen, key) : f.key = e.key /\ f.at >= e.at
         /\ \A e \in seen : e.at = clock =>
              \E f \in Remember(seen, key) : f.key = e.key /\ f.at = clock
<1> DEFINE new == [key |-> key, at |-> clock]
           R == Remember(seen, key)
<1>1. Window \in Nat \ {0}
  BY AutomationAssumption
<1>2. new \in [key : Keys, at : Nat] /\ new.key = key /\ new.at = clock /\ new \in R
  BY DEF Remember
<1>3. \A e \in R : e \in seen \/ e = new
  BY DEF Remember
<1>4. ASSUME NEW e \in seen, ~(e.at + Window <= clock), e.key # key PROVE e \in R
  BY <1>1, <1>4 DEF Remember
<1>5. \A e \in seen : e.at \in Nat
  OBVIOUS
<1> HIDE DEF R, new
<1>6. ASSUME NEW e \in seen
      PROVE  /\ \/ e.at + Window <= clock
                \/ \E f \in R : f.key = e.key /\ f.at >= e.at
             /\ e.at = clock => \E f \in R : f.key = e.key /\ f.at = clock
  <2>1. CASE e.key = key
    BY <1>2, <2>1
  <2>2. CASE e.key # key
    <3>1. e.at \in Nat
      BY <1>5
    <3>2. e.at = clock => ~(e.at + Window <= clock)
      BY <1>1
    <3> QED BY <1>4, <2>2, <3>1, <3>2
  <2> QED BY <2>1, <2>2
<1>7. R \subseteq [key : Keys, at : Nat]
  BY <1>2, <1>3
<1>8. \A e \in R : e.at <= clock
  BY <1>2, <1>3
<1> QED BY <1>2, <1>3, <1>6, <1>7, <1>8 DEF R

\* Why a run is recorded and not carried out, or that it is queued.
Recorded == {"Queued", "Missed", "Coalesced"}

\* Only the newest instant must be run.
Allowed(key, status) ==
  \A a \in Automations, t \in Nat :
    key = ScheduleKey(a, t) /\ CatchUp[a] > 0 /\ Missed(a, t, clock) = {} => status = "Queued"

\* The new row comes after all others, and the key it has was not seen within the window.
LEMMA RowAdded ==
  ASSUME NEW s, NEW H, Books(s, H, clock), NEW n, NEW r, NEW key, NEW status \in Recorded,
         Adds(s, n, r, key, status), clock \in Nat, NEW H2,
         H \subseteq H2, H2 \subseteq H \cup {Row(r)}
  PROVE  H2 \subseteq RowOK /\ Once(H2) /\ \A h \in H2 : h.id <= n.sequence /\ h.created <= clock
<1>1. /\ s \in Store /\ H \subseteq RowOK /\ Once(H) /\ KeysKept(s.seen, H, clock)
      /\ \A h \in H : h.id <= s.sequence /\ h.created <= clock
  BY DEF Books, RunsFit
<1>2. s.sequence \in Nat /\ s.seen \subseteq [key : Keys, at : Nat] /\ Window \in Nat \ {0}
  BY <1>1, Fields, AutomationAssumption
<1>3. PICK w : w = Row(r)
  OBVIOUS
<1>4. /\ w \in RowOK /\ w.id = s.sequence + 1 /\ w.key = key /\ w.created = clock
      /\ w.run <=> ~Known(s.seen, key) /\ status = "Queued"
      /\ n.sequence = s.sequence + 1
  BY <1>3, RunFields DEF Adds, Declined, Recorded
<1>5. \A h \in H : h.id \in Nat /\ h.created \in Nat /\ h.id < w.id
  BY <1>1, <1>2, <1>4 DEF RowOK
<1>6. ASSUME NEW h \in H, h.run, w.run, h.key = key PROVE clock - h.created >= Window
  <2>1. CASE h.created + Window <= clock
    BY <1>2, <1>5, <2>1
  <2>2. CASE \E e \in s.seen : e.key = h.key /\ e.at >= h.created
    <3>1. PICK e \in s.seen : e.key = key /\ e.at >= h.created
      BY <1>6, <2>2
    <3>2. ~(clock < Window \/ e.at > clock - Window)
      BY <1>4, <1>6, <3>1 DEF Known
    <3>3. e.at \in Nat /\ h.created \in Nat
      BY <1>2, <1>5
    <3> QED BY <1>2, <3>1, <3>2, <3>3
  <2> QED BY <1>1, <1>6, <2>1, <2>2 DEF KeysKept
<1>7. Once(H2)
  <2> SUFFICES ASSUME NEW h \in H2, NEW g \in H2, h.run, g.run, h.key = g.key, h.id < g.id
               PROVE  g.created - h.created >= Window
    BY DEF Once
  <2>1. h \in H
    <3>1. (h \in H \/ h = w) /\ (g \in H \/ g = w)
      BY <1>3
    <3>2. w.id \in Nat /\ (g \in H => g.id \in Nat /\ g.id < w.id)
      BY <1>2, <1>4, <1>5
    <3> QED BY <3>1, <3>2
  <2>2. CASE g \in H
    BY <1>1, <2>1, <2>2 DEF Once
  <2>3. CASE g = w
    BY <1>4, <1>6, <2>1, <2>3
  <2> QED BY <1>3, <2>2, <2>3
<1>8. \A h \in H2 : h.id <= n.sequence /\ h.created <= clock
  BY <1>1, <1>2, <1>3, <1>4, <1>5
<1>9. H2 \subseteq RowOK
  BY <1>1, <1>3, <1>4
<1> QED BY <1>7, <1>8, <1>9

\* The keys stay with their rows.
LEMMA KeyAdded ==
  ASSUME NEW s, NEW H, Books(s, H, clock), NEW n, NEW r, NEW key \in Keys, NEW status \in Recorded,
         Adds(s, n, r, key, status), Allowed(key, status), clock \in Nat, Rows(s) \subseteq H
  PROVE  LET H2 == H \cup Rows(n)
         IN  KeysKept(n.seen, H2, clock) /\ NewestRun(n.seen, H2)
<1> DEFINE H2 == H \cup Rows(n)
<1>1. /\ s \in Store /\ H \subseteq RowOK /\ KeysKept(s.seen, H, clock) /\ NewestRun(s.seen, H)
      /\ \A e \in s.seen : e.at <= clock
  BY DEF Books, RunsFit
<1>2. s.seen \in SUBSET [key : Keys, at : Nat] /\ Window \in Nat \ {0}
  BY <1>1, Fields, AutomationAssumption
<1>3. PICK R : R = n.seen /\ R = Remember(s.seen, key)
  BY DEF Adds
<1>4. /\ R \in SUBSET [key : Keys, at : Nat]
      /\ \A e \in R : e.at <= clock
      /\ \A e \in R : e \in s.seen \/ (e.key = key /\ e.at = clock)
      /\ \E e \in R : e.key = key /\ e.at = clock
      /\ \A e \in s.seen : \/ e.at + Window <= clock
                            \/ \E f \in R : f.key = e.key /\ f.at >= e.at
  BY <1>1, <1>2, <1>3, Remembered
<1>5. PICK w : w = Row(r)
  OBVIOUS
<1>6. /\ w.key = key /\ w.created = clock
      /\ w.run <=> ~Known(s.seen, key) /\ status = "Queued"
  BY <1>5, RunFields DEF Adds, Declined, Recorded
<1>7. H2 \subseteq H \cup {w}
  <2> SUFFICES ASSUME NEW q \in n.runs PROVE Row(q) \in H \cup {w}
    BY DEF Rows
  <2>1. q \in s.runs \/ q = r
    BY DEF Adds
  <2> QED BY <1>5, <2>1 DEF Rows
<1>8. ASSUME ~Known(s.seen, key), status = "Queued" PROVE w \in H2
  <2>1. r.status = "Queued" /\ r \in s.runs \cup {r}
    BY <1>8 DEF Adds
  <2>2. \A q \in s.runs \cup {r} : q.status \notin Finished => q \in n.runs
    BY DEF Adds
  <2>3. r \in n.runs
    BY <2>1, <2>2 DEF Finished, Declined
  <2> QED BY <1>5, <2>3 DEF Rows
<1>9. KeysKept(R, H2, clock)
  <2> SUFFICES ASSUME NEW h \in H2, h.run, ~(h.created + Window <= clock)
               PROVE  \E e \in R : e.key = h.key /\ e.at >= h.created
    BY DEF KeysKept
  <2>1. CASE h = w
    BY <1>4, <1>6, <2>1
  <2>2. CASE h \in H
    <3>1. PICK e \in s.seen : e.key = h.key /\ e.at >= h.created
      BY <1>1, <2>2 DEF KeysKept
    <3>2. e.at \in Nat /\ h.created \in Nat
      BY <1>1, <1>2, <2>2 DEF RowOK
    <3>3. ~(e.at + Window <= clock)
      BY <1>2, <3>1, <3>2
    <3>4. PICK f \in R : f.key = e.key /\ f.at >= e.at
      BY <1>4, <3>3
    <3>5. f.at \in Nat
      BY <1>4
    <3> QED BY <3>1, <3>2, <3>4, <3>5
  <2> QED BY <1>7, <2>1, <2>2
<1>10. NewestRun(R, H2)
  <2> SUFFICES ASSUME NEW e \in R, NEW a \in Automations, NEW t \in Nat,
                      e.key = ScheduleKey(a, t), CatchUp[a] > 0, Missed(a, t, e.at) = {}
               PROVE  \E h \in H2 : h.key = e.key /\ h.run
    BY DEF NewestRun
  <2>1. ASSUME NEW f \in s.seen, f.key = e.key, Missed(a, t, f.at) = {}
        PROVE  \E h \in H2 : h.key = e.key /\ h.run
    BY <1>1, <2>1 DEF NewestRun
  <2>2. CASE e \in s.seen
    BY <2>1, <2>2
  <2>3. CASE e.key = key /\ e.at = clock
    <3>1. status = "Queued"
      BY <2>3 DEF Allowed
    <3>2. CASE Known(s.seen, key)
      <4>1. PICK f \in s.seen : f.key = key
        BY <3>2 DEF Known
      <4>2. f.at \in Nat /\ f.at <= clock
        BY <1>1, <1>2
      <4>3. Missed(a, t, f.at) = {}
        BY <2>3, <4>2, LaterInstants
      <4> QED BY <2>1, <2>3, <4>1, <4>3
    <3>3. CASE ~Known(s.seen, key)
      <4>1. w \in H2 /\ w.key = key
        BY <1>6, <1>8, <3>1, <3>3
      <4>2. w.run
        BY <1>6, <3>1, <3>3
      <4> QED BY <2>3, <4>1, <4>2
    <3> QED BY <3>2, <3>3
  <2> QED BY <1>4, <2>2, <2>3
<1> QED BY <1>3, <1>9, <1>10

\* What else a trigger leaves: who runs, and what was noted.
Grows(s, n) ==
  /\ n.sequence = s.sequence + 1 /\ n.last = s.last
  /\ With(n, "Running") = With(s, "Running")
  /\ \A r \in n.runs : r \in s.runs \/ r.id = n.sequence
  /\ \A a \in Automations, t \in Nat : Noted(s.seen, a, t, clock) => Noted(n.seen, a, t, clock)

\* A trigger leaves what runs and what was noted as it was.
LEMMA TriggerGrows ==
  ASSUME NEW s \in Store, NEW n, NEW r, NEW key \in Keys, NEW status \in Recorded,
         Adds(s, n, r, key, status), clock \in Nat, \A e \in s.seen : e.at <= clock
  PROVE  Grows(s, n) /\ \E e \in n.seen : e.key = key /\ e.at = clock
<1>1. s.seen \in SUBSET [key : Keys, at : Nat]
  BY Fields
<1>2. PICK R : R = n.seen /\ R = Remember(s.seen, key)
  BY DEF Adds
<1>3. /\ \E e \in R : e.key = key /\ e.at = clock
      /\ \A e \in s.seen : e.at = clock => \E f \in R : f.key = e.key /\ f.at = clock
  BY <1>1, <1>2, Remembered
<1>4. \A a \in Automations, t \in Nat : Noted(s.seen, a, t, clock) => Noted(n.seen, a, t, clock)
  BY <1>2, <1>3 DEF Noted
<1>5. /\ r.status # "Running" /\ n.runs \subseteq s.runs \cup {r} /\ r.id = s.sequence + 1
      /\ n.sequence = s.sequence + 1 /\ n.last = s.last
      /\ \A q \in s.runs \cup {r} : q.status \notin Finished => q \in n.runs
  BY DEF Adds, Recorded
<1>6. With(n, "Running") = With(s, "Running")
  <2>1. ASSUME NEW q \in s.runs, q.status = "Running" PROVE q \in n.runs
    BY <1>5, <2>1 DEF Finished, Declined
  <2> QED BY <1>5, <2>1 DEF With
<1> QED BY <1>2, <1>3, <1>4, <1>5, <1>6 DEF Grows

\* A trigger keeps the books: no instant twice, its key remembered, the newest one run.
LEMMA TriggerBooks ==
  ASSUME NEW s, NEW H, Books(s, H, clock), Rows(s) \subseteq H, NEW a \in Automations,
         NEW key \in Keys, NEW status \in Recorded, Allowed(key, status), clock \in Nat,
         NEW n, n = Triggered(s, a, key, status)
  PROVE  /\ Books(n, H \cup Rows(n), clock) /\ Grows(s, n)
         /\ \E e \in n.seen : e.key = key /\ e.at = clock
<1>1. /\ s \in Store /\ IsFiniteSet(s.runs) /\ \A e \in s.seen : e.at <= clock
      /\ \A r \in s.runs : r.id <= s.sequence
      /\ \A r, q \in s.runs : r.id = q.id => r = q
      /\ Limited(s)
  BY DEF Books, RunsFit
<1>2. PICK r : Adds(s, n, r, key, status)
  <2>1. status \in Statuses
    BY DEF Recorded, Statuses, Finished, Declined
  <2> QED BY <1>1, <2>1, TriggeredAdds
<1>3. Grows(s, n) /\ \E e \in n.seen : e.key = key /\ e.at = clock
  BY <1>1, <1>2, TriggerGrows
<1>4. RunsFit(n)
  <2>1. s.sequence \in Nat /\ s.runs \subseteq Run
    BY <1>1, Fields
  <2>2. /\ n \in Store /\ IsFiniteSet(n.runs) /\ n.sequence = s.sequence + 1
        /\ r.id = s.sequence + 1 /\ n.runs \subseteq s.runs \cup {r}
    BY <1>2 DEF Adds
  <2>3. \A q \in s.runs : q.id \in Nat
    BY <2>1 DEF Run
  <2>4. \A q \in n.runs : q.id <= n.sequence
    BY <1>1, <2>1, <2>2, <2>3
  <2>5. \A p, q \in n.runs : p.id = q.id => p = q
    BY <1>1, <2>1, <2>2, <2>3
  <2> QED BY <2>2, <2>4, <2>5 DEF RunsFit
<1>5. Limited(n)
  <2>1. With(n, "Running") = With(s, "Running")
    BY <1>3 DEF Grows
  <2>2. \A b \in Automations : Own(n, b) = Own(s, b)
    BY <2>1 DEF Own
  <2> QED BY <1>1, <2>1, <2>2 DEF Limited
<1>6. PICK H2 : H2 = H \cup Rows(n)
  OBVIOUS
<1>7. H2 \subseteq H \cup {Row(r)}
  <2> SUFFICES ASSUME NEW q \in n.runs PROVE Row(q) \in H \cup {Row(r)}
    BY <1>6 DEF Rows
  <2>1. q \in s.runs \/ q = r
    BY <1>2 DEF Adds
  <2> QED BY <2>1 DEF Rows
<1>8. H2 \subseteq RowOK /\ Once(H2) /\ \A h \in H2 : h.id <= n.sequence /\ h.created <= clock
  BY <1>2, <1>6, <1>7, RowAdded
<1>9. KeysKept(n.seen, H2, clock) /\ NewestRun(n.seen, H2)
  BY <1>2, <1>6, KeyAdded
<1>10. \A e \in n.seen : e.at <= clock
  <2>1. s.seen \in SUBSET [key : Keys, at : Nat] /\ n.seen = Remember(s.seen, key)
    BY <1>1, <1>2, Fields DEF Adds
  <2> QED BY <1>1, <2>1, Remembered
<1> QED BY <1>3, <1>4, <1>5, <1>6, <1>8, <1>9, <1>10 DEF Books

----------------------------------------------------------------------------
(* A new state of a run *)

\* Of the runs of s only the state of one changes.
LEMMA StatusSet ==
  ASSUME NEW s, RunsFit(s), NEW id, NEW status \in Statuses, NEW n, n = SetStatus(s, id, status)
  PROVE  /\ RunsFit(n) /\ n.sequence = s.sequence /\ n.last = s.last /\ n.seen = s.seen
         /\ \A r \in s.runs : r.id # id => r \in n.runs
         /\ \A r \in n.runs : r.id # id => r \in s.runs
         /\ \A r \in n.runs : r.id = id =>
              /\ r.status = status
              /\ \E q \in s.runs : /\ q.id = id /\ q.automation = r.automation
                                   /\ q.key = r.key /\ q.created = r.created
         /\ \A r \in s.runs : r.id = id =>
              \E q \in n.runs : /\ q.id = id /\ q.automation = r.automation /\ q.status = status
                                /\ q.key = r.key /\ q.created = r.created
<1> DEFINE to(r) == [id |-> r.id, automation |-> r.automation, key |-> r.key,
                     created |-> r.created, status |-> status]
           new == {IF r.id = id THEN to(r) ELSE r : r \in s.runs}
<1>1. /\ s \in Store /\ IsFiniteSet(s.runs) /\ s.runs \subseteq Run
      /\ \A r \in s.runs : r.id <= s.sequence
      /\ \A r, q \in s.runs : r.id = q.id => r = q
  BY Fields DEF RunsFit
<1>2. \A r \in s.runs : [r EXCEPT !.status = status] = to(r) /\ to(r) \in Run
  BY <1>1 DEF Run
<1>3. n = [s EXCEPT !.runs = new]
  <2>1. {IF r.id = id THEN [r EXCEPT !.status = status] ELSE r : r \in s.runs} = new
    BY <1>2
  <2> QED BY <1>1, <2>1 DEF SetStatus, Store
<1>4. /\ n.runs = new /\ n.sequence = s.sequence /\ n.last = s.last /\ n.seen = s.seen
      /\ n = [runs |-> new, seen |-> s.seen, sequence |-> s.sequence, last |-> s.last]
  BY <1>1, <1>3 DEF Store
<1>5. new \subseteq Run
  BY <1>1, <1>2
<1>6. n \in Store
  BY <1>1, <1>4, <1>5 DEF Store
<1>7. IsFiniteSet(new)
  <2> DEFINE f == [r \in s.runs |-> IF r.id = id THEN to(r) ELSE r]
  <2>1. f \in Surjection(s.runs, new)
    BY DEF Surjection
  <2> QED BY <1>1, <2>1, FS_Surjection
<1>8. \A r \in s.runs : to(r).id = r.id
  OBVIOUS
<1>9. \A r \in new : r.id <= s.sequence
  BY <1>1, <1>8
<1>10. \A p, q \in new : p.id = q.id => p = q
  BY <1>1, <1>8
<1>11. RunsFit(n)
  BY <1>4, <1>6, <1>7, <1>9, <1>10 DEF RunsFit
<1>12. \A r \in s.runs : r.id # id => r \in new
  OBVIOUS
<1>13. \A r \in s.runs : r.id = id => to(r) \in new
  OBVIOUS
<1>14. ASSUME NEW q \in new PROVE \E r \in s.runs : q = IF r.id = id THEN to(r) ELSE r
  BY <1>14
<1>15. ASSUME NEW q \in new, q.id # id PROVE q \in s.runs
  BY <1>8, <1>14, <1>15
<1>16. ASSUME NEW q \in new, q.id = id PROVE \E r \in s.runs : r.id = id /\ q = to(r)
  BY <1>8, <1>14, <1>16
<1>17. \A r : /\ to(r).automation = r.automation /\ to(r).key = r.key /\ to(r).id = r.id
              /\ to(r).created = r.created /\ to(r).status = status
  OBVIOUS
<1> HIDE DEF new, to
<1>18. ASSUME NEW r \in n.runs, r.id = id
       PROVE  /\ r.status = status
              /\ \E q \in s.runs : /\ q.id = id /\ q.automation = r.automation
                                   /\ q.key = r.key /\ q.created = r.created
  <2>1. PICK q \in s.runs : q.id = id /\ r = to(q)
    BY <1>4, <1>16, <1>18
  <2> QED BY <1>17, <2>1
<1>19. ASSUME NEW r \in s.runs, r.id = id
       PROVE  \E q \in n.runs : /\ q.id = id /\ q.automation = r.automation /\ q.status = status
                                /\ q.key = r.key /\ q.created = r.created
  BY <1>4, <1>13, <1>17, <1>19
<1> QED BY <1>4, <1>11, <1>12, <1>15, <1>18, <1>19

\* The state of a run that was to be carried out is nothing the rows tell apart.
LEMMA SameRows ==
  ASSUME NEW s, RunsFit(s), NEW id, NEW status \in Statuses \ Declined,
         \A r \in s.runs : r.id = id => r.status \notin Declined,
         NEW n, n = SetStatus(s, id, status)
  PROVE  Rows(n) = Rows(s)
<1>1. s.runs \subseteq Run /\ n.runs \subseteq Run
  BY StatusSet, Fields DEF RunsFit
<1>2. ASSUME NEW r \in n.runs PROVE \E q \in s.runs : Row(r) = Row(q)
  <2>1. CASE r.id # id
    BY <2>1, StatusSet
  <2>2. CASE r.id = id
    <3>1. PICK q \in s.runs : q.id = id /\ q.key = r.key /\ q.created = r.created
      BY <2>2, StatusSet
    <3>2. r.status = status
      BY <2>2, StatusSet
    <3> QED BY <2>2, <3>1, <3>2 DEF Row
  <2> QED BY <2>1, <2>2
<1>3. ASSUME NEW q \in s.runs PROVE \E r \in n.runs : Row(r) = Row(q)
  <2>1. CASE q.id # id
    BY <2>1, StatusSet
  <2>2. CASE q.id = id
    <3>1. PICK r \in n.runs : /\ r.id = id /\ r.status = status
                              /\ r.key = q.key /\ r.created = q.created
      BY <2>2, StatusSet
    <3> QED BY <2>2, <3>1 DEF Row
  <2> QED BY <2>1, <2>2
<1> QED BY <1>2, <1>3 DEF Rows

\* Books that hold of a file hold when a run that was to be carried out gets another state.
LEMMA StatusBooks ==
  ASSUME NEW s, NEW H, NEW now, Books(s, H, now), NEW id, NEW status \in Statuses \ Declined,
         NEW n, n = SetStatus(s, id, status), Limited(n)
  PROVE  Books(n, H, now)
<1>1. RunsFit(n) /\ n.sequence = s.sequence /\ n.seen = s.seen
  BY StatusSet DEF Books
<1> QED BY <1>1 DEF Books

\* Fewer runs keep within the limits.
LEMMA FewerRunning ==
  ASSUME NEW s, NEW n, RunsFit(s), Limited(s), With(n, "Running") \subseteq With(s, "Running")
  PROVE  Limited(n)
<1>1. IsFiniteSet(s.runs) /\ With(s, "Running") \subseteq s.runs
  BY DEF RunsFit, With
<1>2. PICK S, T : S = With(s, "Running") /\ T = With(n, "Running")
  OBVIOUS
<1>3. IsFiniteSet(S) /\ T \subseteq S
  BY <1>1, <1>2, FS_Subset
<1>4. Cardinality(S) \in Nat /\ Cardinality(T) \in Nat /\ Cardinality(T) <= Cardinality(S)
  BY <1>3, FS_Subset, FS_CardinalityType
<1>5. ASSUME NEW a \in Automations PROVE Cardinality(Own(n, a)) <= MaxConcurrency[a]
  <2>1. PICK U, V : U = Own(s, a) /\ V = Own(n, a)
    OBVIOUS
  <2>2. U \subseteq S /\ V \subseteq U
    BY <1>2, <1>3, <2>1 DEF Own
  <2>3. IsFiniteSet(U) /\ IsFiniteSet(V) /\ Cardinality(V) <= Cardinality(U)
    BY <1>3, <2>2, FS_Subset
  <2>4. Cardinality(U) \in Nat /\ Cardinality(V) \in Nat /\ MaxConcurrency[a] \in Nat
    BY <2>3, FS_CardinalityType, AutomationAssumption
  <2>5. Cardinality(U) <= MaxConcurrency[a]
    BY <2>1 DEF Limited
  <2> QED BY <2>1, <2>3, <2>4, <2>5
<1> QED BY <1>2, <1>4, <1>5, AutomationAssumption DEF Limited

\* A run that stops running leaves the others within the limits.
LEMMA StoppedRunning ==
  ASSUME NEW s, RunsFit(s), Limited(s), NEW id, NEW status \in Statuses, status # "Running",
         NEW n, n = SetStatus(s, id, status)
  PROVE  Limited(n)
<1>1. ASSUME NEW r \in n.runs, r.status = "Running" PROVE r \in s.runs
  BY <1>1, StatusSet
<1> QED BY <1>1, FewerRunning DEF With

\* What is carried out still runs in the file, and what was carried out is not queued.
LEMMA StatusCarried ==
  ASSUME NEW s, RunsFit(s), NEW going, NEW begun, Carried(s, going, begun),
         NEW id, NEW status \in Statuses, status # "Queued", NEW n, n = SetStatus(s, id, status),
         NEW going2 \in SUBSET going, status = "Running" \/ id \notin going2
  PROVE  Carried(n, going2, begun)
<1>1. ASSUME NEW i \in going2 PROVE i \in IDs(n, "Running")
  <2>1. PICK r \in s.runs : r.id = i /\ r.status = "Running"
    BY DEF Carried, IDs, With
  <2>2. CASE i # id
    BY <2>1, <2>2, StatusSet DEF IDs, With
  <2>3. CASE i = id
    <3>1. PICK q \in n.runs : q.id = i /\ q.status = status
      BY <2>1, <2>3, StatusSet
    <3> QED BY <2>3, <3>1 DEF IDs, With
  <2> QED BY <2>2, <2>3
<1>2. ASSUME NEW r \in n.runs, r.id \in begun PROVE r.status # "Queued"
  <2>1. CASE r.id = id
    BY <2>1, StatusSet
  <2>2. CASE r.id # id
    BY <1>2, <2>2, StatusSet DEF Carried
  <2> QED BY <2>1, <2>2
<1> QED BY <1>1, <1>2 DEF Carried

\* The runs of a file, by their IDs.
LEMMA RunOf ==
  ASSUME NEW s, RunsFit(s), NEW status, NEW id \in IDs(s, status)
  PROVE  /\ Of(s, id) \in s.runs /\ Of(s, id).id = id /\ Of(s, id).status = status
         /\ \A r \in s.runs : r.id = id => r = Of(s, id)
         /\ id \in Nat /\ id <= s.sequence
<1>1. PICK r \in s.runs : r.id = id /\ r.status = status
  BY DEF IDs, With
<1>2. \A q \in s.runs : q.id = id => q = r
  BY <1>1 DEF RunsFit
<1>3. Of(s, id) = r
  BY <1>1, <1>2 DEF Of
<1>4. r \in Run /\ r.id <= s.sequence
  BY Fields DEF RunsFit
<1> QED BY <1>1, <1>2, <1>3, <1>4, RunFields

\* The others keep the state they have.
LEMMA OtherIDs ==
  ASSUME NEW s, RunsFit(s), NEW id, NEW status \in Statuses, NEW n, n = SetStatus(s, id, status),
         NEW other
  PROVE  IDs(s, other) \ {id} \subseteq IDs(n, other)
<1> SUFFICES ASSUME NEW r \in s.runs, r.status = other, r.id # id PROVE r.id \in IDs(n, other)
  BY DEF IDs, With
<1>1. r \in n.runs
  BY StatusSet
<1> QED BY <1>1 DEF IDs, With

\* A run that may be claimed keeps the files within the limits.
LEMMA ClaimLimited ==
  ASSUME RunsFit(mem), Limited(mem), NEW id \in IDs(mem, "Queued"), Reason(id) = "none",
         NEW n, n = SetStatus(mem, id, "Running")
  PROVE  Limited(n)
<1>1. PICK a, S : a = Of(mem, id).automation /\ S = With(mem, "Running")
  OBVIOUS
<1>2. /\ Of(mem, id) \in mem.runs /\ Of(mem, id).id = id
      /\ \A r \in mem.runs : r.id = id => r = Of(mem, id)
  BY RunOf
<1>3. a \in Automations
  <2>1. Of(mem, id) \in Run
    BY <1>2, Fields DEF RunsFit
  <2> QED BY <1>1, <2>1, RunFields
<1>4. ~(Cardinality(S) >= Global) /\ ~(Cardinality(Own(mem, a)) >= MaxConcurrency[a])
  <2>1. {q \in S : q.automation = a} = Own(mem, a)
    BY <1>1 DEF Own
  <2> QED BY <1>1, <2>1 DEF Reason
<1>5. IsFiniteSet(S)
  <2>1. S \subseteq mem.runs
    BY <1>1 DEF With
  <2> QED BY <2>1, FS_Subset DEF RunsFit
<1>6. PICK q \in n.runs : q.id = id /\ q.automation = a
  <2>1. "Running" \in Statuses
    BY DEF Statuses
  <2> QED BY <1>1, <1>2, <2>1, StatusSet
<1>7. /\ RunsFit(n)
      /\ \A r \in n.runs : r.id # id => r \in mem.runs
  BY StatusSet DEF Statuses
<1>8. With(n, "Running") \subseteq S \cup {q}
  BY <1>1, <1>6, <1>7 DEF With, RunsFit
<1>9. \A b \in Automations : b # a => Own(n, b) \subseteq Own(mem, b)
  BY <1>1, <1>6, <1>8 DEF Own
<1>10. Own(n, a) \subseteq Own(mem, a) \cup {q}
  BY <1>1, <1>8 DEF Own
<1>11. \A T, U, x : IsFiniteSet(T) /\ U \subseteq T \cup {x} =>
          /\ Cardinality(T) \in Nat /\ Cardinality(U) \in Nat
          /\ Cardinality(U) <= Cardinality(T) + 1
  <2> SUFFICES ASSUME NEW T, NEW x, NEW U \in SUBSET (T \cup {x}), IsFiniteSet(T)
               PROVE  /\ Cardinality(T) \in Nat /\ Cardinality(U) \in Nat
                      /\ Cardinality(U) <= Cardinality(T) + 1
    OBVIOUS
  <2>1. PICK V : V = T \cup {x}
    OBVIOUS
  <2>2. IsFiniteSet(V) /\ Cardinality(V) = IF x \in T THEN Cardinality(T) ELSE Cardinality(T) + 1
    BY <2>1, FS_AddElement
  <2>3. IsFiniteSet(U) /\ Cardinality(U) <= Cardinality(V)
    BY <2>1, <2>2, FS_Subset
  <2> QED BY <2>2, <2>3, FS_CardinalityType
<1>12. Cardinality(With(n, "Running")) <= Global
  <2>1. /\ Cardinality(S) \in Nat /\ Cardinality(With(n, "Running")) \in Nat
        /\ Cardinality(With(n, "Running")) <= Cardinality(S) + 1
    BY <1>5, <1>8, <1>11
  <2> QED BY <1>4, <2>1, AutomationAssumption
<1>13. ASSUME NEW b \in Automations PROVE Cardinality(Own(n, b)) <= MaxConcurrency[b]
  <2>1. IsFiniteSet(Own(mem, b)) /\ MaxConcurrency[b] \in Nat
    <3>1. Own(mem, b) \subseteq S
      BY <1>1 DEF Own
    <3> QED BY <1>5, <3>1, FS_Subset, AutomationAssumption
  <2>2. CASE b = a
    <3>1. /\ Cardinality(Own(mem, a)) \in Nat /\ Cardinality(Own(n, a)) \in Nat
          /\ Cardinality(Own(n, a)) <= Cardinality(Own(mem, a)) + 1
      BY <1>10, <1>11, <2>1, <2>2
    <3> QED BY <1>4, <2>1, <2>2, <3>1
  <2>3. CASE b # a
    <3>1. PICK U, V : U = Own(mem, b) /\ V = Own(n, b)
      OBVIOUS
    <3>2. IsFiniteSet(U) /\ V \subseteq U
      BY <1>9, <2>1, <2>3, <3>1
    <3>3. IsFiniteSet(V) /\ Cardinality(V) <= Cardinality(U)
      BY <3>2, FS_Subset
    <3>4. Cardinality(V) \in Nat /\ Cardinality(U) \in Nat
      BY <3>2, <3>3, FS_CardinalityType
    <3>5. Cardinality(U) <= MaxConcurrency[b]
      BY <3>1 DEF Limited
    <3> QED BY <2>1, <3>1, <3>3, <3>4, <3>5
  <2> QED BY <2>2, <2>3
<1> QED BY <1>12, <1>13 DEF Limited

----------------------------------------------------------------------------
(* The ends of a handler *)

\* A file that is its own copy.
LEMMA Alone ==
  ASSUME NEW d, NEW H, NEW now \in Nat, Books(d, H, now), Rows(d) \subseteq H
  PROVE  Files(d, d, H, now) /\ Marked(d, d, now)
<1>1. H \cup Rows(d) = H
  OBVIOUS
<1>2. d.last \in [Automations -> Nat \cup {Unobserved}] /\ d.sequence \in Nat
  BY Fields DEF Books, RunsFit
<1>3. \A a \in Automations : Missed(a, d.last[a], d.last[a]) = {}
  BY <1>2, NoInstants DEF Unobserved
<1> QED BY <1>1, <1>2, <1>3 DEF Files, Marked

\* What a save adds to the history.
LEMMA SavedRows ==
  ASSUME NEW s, Saved(s) PROVE disk' = s /\ history' = history \cup Rows(s)
BY DEF Saved, Rows, Row

\* The invariant after the copy s was saved and nothing is left to do with it.
LEMMA SavedKeeps ==
  ASSUME NEW s, disk' = s, mem' = s, history' = history \cup Rows(s), clock' = clock,
         clock \in Nat, Books(s, history \cup Rows(s), clock),
         Carried(s, executing', executed'), executed' \subseteq 0..s.sequence, Phase'
  PROVE  IInv'
<1>1. Rows(s) \subseteq history \cup Rows(s)
  OBVIOUS
<1>2. Files(s, s, history \cup Rows(s), clock) /\ Marked(s, s, clock)
  BY <1>1, Alone
<1> QED BY <1>2 DEF IInv

\* A handler that ends after a save.
LEMMA SaveReturns ==
  ASSUME NEW s, Saved(s), Return, clock' = clock, clock \in Nat,
         Books(s, history \cup Rows(s), clock),
         Carried(s, executing', executed'), executed' \subseteq 0..s.sequence
  PROVE  IInv'
<1>1. disk' = s /\ mem' = s /\ history' = history \cup Rows(s)
  BY SavedRows DEF Return
<1>2. Phase'
  BY <1>1 DEF Return, Phase
<1> QED BY <1>1, <1>2, SavedKeeps

\* A handler that ends and drops its copy.
LEMMA DropReturns ==
  ASSUME IInv, UNCHANGED <<disk, history, clock>>, mem' = disk', claimed' = {},
         step' \in {"idle", "down"}, executing' \subseteq executing, executed' = executed,
         step' = "down" => executing' = {}
  PROVE  IInv'
<1>1. clock \in Nat /\ Books(disk, history, clock) /\ Rows(disk) \subseteq history
  BY DEF IInv, Files
<1>2. Files(disk, disk, history, clock) /\ Marked(disk, disk, clock)
  BY <1>1, Alone
<1>3. Carried(disk, executing', executed') /\ executed' \subseteq 0..disk.sequence
  BY DEF IInv, Carried
<1>4. Phase'
  BY DEF Phase
<1> QED BY <1>1, <1>2, <1>3, <1>4 DEF IInv

\* Between handlers a file and its history.
LEMMA Idle ==
  ASSUME IInv, step \in {"down", "recover", "idle", "retry"}
  PROVE  /\ mem = disk /\ claimed = {} /\ clock \in Nat
         /\ Books(disk, history, clock) /\ Rows(disk) \subseteq history
         /\ RunsFit(disk) /\ Limited(disk) /\ disk.sequence \in Nat
         /\ Carried(disk, executing, executed) /\ executed \subseteq 0..disk.sequence
<1>1. Books(disk, history, clock) /\ Rows(disk) \subseteq history /\ clock \in Nat
  BY DEF IInv, Files
<1>2. RunsFit(disk) /\ Limited(disk) /\ disk.sequence \in Nat
  BY <1>1, Fields DEF Books, RunsFit
<1> QED BY <1>1, <1>2 DEF IInv, Phase

\* The new run is none that was carried out.
LEMMA GrowsCarried ==
  ASSUME NEW s, NEW n, NEW going, NEW begun, Carried(s, going, begun), Grows(s, n),
         s.sequence \in Nat, begun \subseteq 0..s.sequence
  PROVE  Carried(n, going, begun) /\ begun \subseteq 0..n.sequence
<1>1. n.sequence = s.sequence + 1
  BY DEF Grows
<1>2. going \subseteq IDs(n, "Running")
  BY DEF Carried, Grows, IDs
<1>3. ASSUME NEW r \in n.runs, r.id \in begun PROVE r.status # "Queued"
  <2>1. r.id # n.sequence
    BY <1>1, <1>3
  <2> QED BY <1>3, <2>1 DEF Grows, Carried
<1> QED BY <1>1, <1>2, <1>3 DEF Carried

\* A step writes no mark into the file but those of the copy, and with them the keys of
\* what was triggered now.
Carries ==
  \/ disk'.last = disk.last
  \/ /\ disk'.last = mem.last
     /\ \A a \in Automations, t \in Nat :
          Noted(mem.seen, a, t, clock) => Noted(disk'.seen, a, t, clock)

----------------------------------------------------------------------------
(* The start of the process *)

\* The process starts: what runs in the file is all that is left to recover.
LEMMA LaunchKeeps ==
  ASSUME IInv, Launch PROVE IInv'
<1>1. /\ step = "down" /\ UNCHANGED <<disk, history, clock>>
      /\ executing' = executing /\ executed' = executed
      /\ Recovers({r.id : r \in With(disk, "Running")})
  BY DEF Launch, work
<1>2. executing = {} /\ claimed = {}
  BY <1>1 DEF IInv, Phase
<1>3. CASE Return
  BY <1>1, <1>2, <1>3, DropReturns DEF Return
<1>4. CASE /\ mem' = disk' /\ step' = "recover" /\ claimed' = claimed
           /\ todo' = {r.id : r \in With(disk, "Running")}
  <2>1. Phase'
    BY <1>1, <1>2, <1>4 DEF Phase, IDs
  <2>2. /\ clock \in Nat /\ Books(disk, history, clock) /\ Rows(disk) \subseteq history
        /\ Carried(disk, executing, executed) /\ executed \subseteq 0..disk.sequence
    BY <1>1, Idle
  <2>3. Files(disk, disk, history, clock) /\ Marked(disk, disk, clock)
    BY <2>2, Alone
  <2> QED BY <1>1, <1>4, <2>1, <2>2, <2>3 DEF IInv
<1> QED BY <1>1, <1>3, <1>4 DEF Recovers, GoesOn

\* One interrupted run is left to a person, or the save fails.
LEMMA RecoverKeeps ==
  ASSUME IInv, Recover PROVE IInv'
<1>1. /\ step = "recover" /\ clock' = clock /\ executing' = executing /\ executed' = executed
  BY DEF Recover, work
<1>2. /\ mem = disk /\ claimed = {} /\ clock \in Nat
      /\ Books(disk, history, clock) /\ Rows(disk) \subseteq history
      /\ RunsFit(disk) /\ Limited(disk)
      /\ Carried(disk, executing, executed) /\ executed \subseteq 0..disk.sequence
  BY <1>1, Idle
<1>3. executing = {} /\ todo \subseteq IDs(disk, "Running")
  BY <1>1, <1>2 DEF IInv, Phase
<1>4. CASE NotSaved /\ Return
  BY <1>1, <1>3, <1>4, DropReturns DEF NotSaved, Return
<1>5. ASSUME NEW id \in todo, Saved(Interrupted(mem, id)), Recovers(todo \ {id}) PROVE IInv'
  <2>1. PICK n : n = SetStatus(disk, id, "WaitingUser")
    OBVIOUS
  <2>2. disk' = n /\ history' = history \cup Rows(n)
    BY <1>2, <1>5, <2>1, SavedRows DEF Interrupted
  <2>3. "WaitingUser" \in Statuses \ Declined /\ "WaitingUser" \notin {"Running", "Queued"}
    BY DEF Statuses, Declined
  <2>4. \A r \in disk.runs : r.id = id => r.status \notin Declined
    BY <1>2, <1>3, RunOf DEF Declined
  <2>5. Rows(n) = Rows(disk) /\ Limited(n) /\ RunsFit(n) /\ n.sequence = disk.sequence
    BY <1>2, <2>1, <2>3, <2>4, SameRows, StoppedRunning, StatusSet
  <2>6. Books(n, history, clock) /\ history \cup Rows(n) = history
    BY <1>2, <2>1, <2>3, <2>5, StatusBooks
  <2>7. Carried(n, executing, executed)
    BY <1>2, <1>3, <2>1, <2>3, StatusCarried
  <2>8. CASE Return
    BY <1>1, <1>2, <1>5, <2>1, <2>5, <2>6, <2>7, <2>8, SaveReturns DEF Interrupted
  <2>9. CASE mem' = disk' /\ step' = "recover" /\ todo' = todo \ {id} /\ claimed' = claimed
    <3>1. todo \ {id} \subseteq IDs(n, "Running")
      BY <1>2, <1>3, <2>1, <2>3, OtherIDs
    <3>2. Phase'
      BY <1>1, <1>2, <1>3, <2>2, <2>9, <3>1 DEF Phase
    <3> QED BY <1>1, <1>2, <2>2, <2>5, <2>6, <2>7, <2>9, <3>2, SavedKeeps
  <2> QED BY <1>5, <2>8, <2>9 DEF Recovers, GoesOn
<1> QED BY <1>4, <1>5 DEF Recover

----------------------------------------------------------------------------
(* poll_due *)

\* What the agenda of an automation holds.
LEMMA AgendaOf ==
  ASSUME RunsFit(disk), clock \in Nat, NEW a \in Automations
  PROVE  /\ Agenda(a) \subseteq Entry
         /\ \A e \in Agenda(a) :
              /\ e.automation = a
              /\ e.status # "checked" /\ CatchUp[a] > 0 /\ Missed(a, e.at, clock) = {}
                   => e.status = "Queued"
         /\ disk.last[a] # Unobserved =>
              \A t \in Missed(a, disk.last[a], clock) :
                \E e \in Agenda(a) : e.automation = a /\ e.at = t /\ e.status # "checked"
<1> DEFINE to(t) == IF t \in Selected(a, disk.last[a], clock) THEN "Queued"
                    ELSE IF CatchUp[a] = 0 THEN "Missed" ELSE "Coalesced"
<1>1. disk.last[a] \in Nat \cup {Unobserved} /\ disk.last[a] \in Int
  BY Fields DEF RunsFit, Unobserved
<1>2. /\ Check(a) \in Entry /\ Check(a).automation = a /\ Check(a).status = "checked"
  BY DEF Check, Entry
<1>3. Due(a) = {[automation |-> a, at |-> t, status |-> to(t)] : t \in Missed(a, disk.last[a], clock)}
  BY DEF Due
<1>4. ASSUME NEW t \in Missed(a, disk.last[a], clock), CatchUp[a] > 0, Missed(a, t, clock) = {}
      PROVE  to(t) = "Queued"
  BY <1>1, <1>4, NewestSelected
<1>5. \A t : to(t) \in {"Queued", "Missed", "Coalesced"}
  OBVIOUS
<1>6. \A t \in Missed(a, disk.last[a], clock) : t \in Nat
  BY <1>1, Instants
<1> HIDE DEF to
<1>7. ASSUME NEW e \in Due(a)
      PROVE  /\ e \in Entry /\ e.automation = a
             /\ CatchUp[a] > 0 /\ Missed(a, e.at, clock) = {} => e.status = "Queued"
  <2>1. PICK t \in Missed(a, disk.last[a], clock) :
             e = [automation |-> a, at |-> t, status |-> to(t)]
    BY <1>3
  <2>2. e.automation = a /\ e.at = t /\ e.status = to(t)
    BY <2>1
  <2>3. e \in Entry
    BY <1>5, <1>6, <2>1 DEF Entry
  <2> QED BY <1>4, <2>2, <2>3
<1>8. ASSUME NEW t \in Missed(a, disk.last[a], clock)
      PROVE  \E e \in Due(a) : e.automation = a /\ e.at = t /\ e.status # "checked"
  <2>1. PICK e : e = [automation |-> a, at |-> t, status |-> to(t)]
    OBVIOUS
  <2>2. e \in Due(a)
    BY <1>3, <2>1
  <2>3. e.automation = a /\ e.at = t /\ e.status # "checked"
    BY <1>5, <2>1
  <2> QED BY <2>2, <2>3
<1>9. Agenda(a) \subseteq Due(a) \cup {Check(a)}
  BY DEF Agenda
<1>10. disk.last[a] # Unobserved /\ Missed(a, disk.last[a], clock) # {} => Due(a) \subseteq Agenda(a)
  <2>1. ASSUME NEW t \in Missed(a, disk.last[a], clock) PROVE ~(clock <= disk.last[a])
    <3>1. t \in Nat /\ disk.last[a] < t /\ t <= clock
      BY <1>1, Instants
    <3> QED BY <1>1, <3>1
  <2> QED BY <2>1 DEF Agenda
<1> QED BY <1>2, <1>7, <1>8, <1>9, <1>10

\* The tick begins with all instants that are due on its agenda.
LEMMA StartTickKeeps ==
  ASSUME IInv, NEW over, StartTick(over) PROVE IInv'
<1> DEFINE agenda == UNION {Agenda(a) : a \in Automations}
<1>1. /\ step = "idle" /\ UNCHANGED <<disk, history, claimed, clock, executing, executed>>
      /\ mem' = disk
      /\ \/ step' = "claim" /\ todo' = QueuedRuns(disk)
         \/ step' = "poll" /\ todo' = agenda
  BY DEF StartTick, GoesOn, work
<1>2. /\ claimed = {} /\ clock \in Nat /\ Books(disk, history, clock) /\ Rows(disk) \subseteq history
      /\ RunsFit(disk) /\ Carried(disk, executing, executed) /\ executed \subseteq 0..disk.sequence
  BY <1>1, Idle
<1>3. Files(disk, disk, history, clock) /\ Marked(disk, disk, clock)
  BY <1>2, Alone
<1>4. CASE step' = "claim" /\ todo' = QueuedRuns(disk)
  <2>1. Phase'
    BY <1>1, <1>2, <1>4 DEF Phase, QueuedRuns, IDs
  <2> QED BY <1>1, <1>2, <1>3, <2>1 DEF IInv
<1>5. CASE step' = "poll" /\ todo' = agenda
  <2>1. \A e \in agenda : \E a \in Automations : e \in Agenda(a)
    OBVIOUS
  <2>2. \A a \in Automations : Agenda(a) \subseteq agenda
    OBVIOUS
  <2> HIDE DEF agenda
  <2>3. agenda \subseteq Entry
    BY <1>2, <2>1, AgendaOf
  <2>4. \A e \in agenda :
          e.status # "checked" /\ CatchUp[e.automation] > 0
              /\ Missed(e.automation, e.at, clock) = {} => e.status = "Queued"
    BY <1>2, <2>1, AgendaOf
  <2>5. ASSUME NEW a \in Automations, disk.last[a] # Unobserved,
               NEW t \in Missed(a, disk.last[a], clock)
        PROVE  \E e \in agenda : e.automation = a /\ e.at = t /\ e.status # "checked"
    BY <1>2, <2>2, <2>5, AgendaOf
  <2>6. Planned(disk, disk, agenda, clock)
    BY <2>3, <2>4, <2>5 DEF Planned
  <2>7. disk = [disk EXCEPT !.last = disk.last]
    BY <1>2 DEF RunsFit, Store
  <2>8. Phase'
    BY <1>1, <1>2, <1>5, <2>6, <2>7 DEF Phase
  <2> QED BY <1>1, <1>2, <1>3, <2>8 DEF IInv
<1> QED BY <1>1, <1>4, <1>5

\* The copy while the agenda is worked off.
LEMMA Polling ==
  ASSUME IInv, step = "poll"
  PROVE  /\ clock \in Nat /\ claimed = {} /\ mem = [disk EXCEPT !.last = mem.last]
         /\ RunsFit(disk) /\ RunsFit(mem) /\ Planned(disk, mem, todo, clock)
         /\ mem.runs = disk.runs /\ mem.seen = disk.seen /\ mem.sequence = disk.sequence
         /\ Rows(mem) \subseteq history /\ Books(mem, history, clock)
         /\ Carried(mem, executing, executed) /\ executed \subseteq 0..mem.sequence
         /\ mem.sequence \in Nat /\ Marked(disk, mem, clock)
         /\ \A a \in Automations : /\ disk.last[a] \in Int /\ mem.last[a] \in {disk.last[a], clock}
<1>1. /\ clock \in Nat /\ Books(disk, history, clock) /\ Rows(disk) \subseteq history
      /\ Books(mem, history \cup Rows(mem), clock) /\ Marked(disk, mem, clock)
      /\ Carried(mem, executing, executed) /\ executed \subseteq 0..disk.sequence
      /\ claimed = {} /\ mem = [disk EXCEPT !.last = mem.last] /\ Planned(disk, mem, todo, clock)
  BY DEF IInv, Files, Phase
<1>2. RunsFit(disk) /\ RunsFit(mem)
  BY <1>1 DEF Books
<1>3. disk.last \in [Automations -> Nat \cup {Unobserved}] /\ disk.sequence \in Nat
  BY <1>2, Fields DEF RunsFit
<1>4. mem.runs = disk.runs /\ mem.seen = disk.seen /\ mem.sequence = disk.sequence
  BY <1>1, <1>2 DEF RunsFit, Store
<1>5. Rows(mem) = Rows(disk) /\ history \cup Rows(mem) = history
  BY <1>1, <1>4 DEF Rows
<1>6. \A a \in Automations : /\ disk.last[a] \in Int /\ mem.last[a] \in {disk.last[a], clock}
  BY <1>1, <1>3 DEF Marked, Unobserved
<1>7. executed \subseteq 0..mem.sequence /\ mem.sequence \in Nat
  BY <1>1, <1>3, <1>4
<1>8. Rows(mem) \subseteq history /\ Books(mem, history, clock)
  BY <1>1, <1>5
<1> QED BY <1>1, <1>2, <1>4, <1>6, <1>7, <1>8

\* One instant is triggered, and saved or not.
LEMMA RecordKeeps ==
  ASSUME IInv, RecordInstant PROVE IInv' /\ Carries
<1>0. PICK e \in todo :
        /\ IsNext(e) /\ e.status # "checked"
        /\ LET n == Triggered(mem, e.automation, ScheduleKey(e.automation, e.at), e.status) IN
             \/ Saved(n) /\ GoesOn(n, "poll", todo \ {e}) /\ UNCHANGED <<full, claimed>>
             \/ NotSaved /\ Claims(n)
  BY DEF RecordInstant
<1>1. PICK n :
        /\ IsNext(e) /\ e.status # "checked"
        /\ n = Triggered(mem, e.automation, ScheduleKey(e.automation, e.at), e.status)
        /\ \/ Saved(n) /\ GoesOn(n, "poll", todo \ {e}) /\ UNCHANGED <<full, claimed>>
           \/ NotSaved /\ Claims(n)
  BY <1>0
<1>2. step = "poll" /\ clock' = clock /\ executing' = executing /\ executed' = executed
  BY <1>1 DEF RecordInstant, work, IsNext
<1>3. /\ clock \in Nat /\ claimed = {} /\ mem = [disk EXCEPT !.last = mem.last]
      /\ RunsFit(disk) /\ RunsFit(mem) /\ Planned(disk, mem, todo, clock)
      /\ Rows(mem) \subseteq history /\ Books(mem, history, clock)
      /\ Carried(mem, executing, executed) /\ executed \subseteq 0..mem.sequence
      /\ mem.sequence \in Nat /\ mem.sequence = disk.sequence /\ Marked(disk, mem, clock)
      /\ \A a \in Automations : disk.last[a] \in Int /\ mem.last[a] \in {disk.last[a], clock}
  BY <1>2, Polling
<1>4. PICK a, t, key : a = e.automation /\ t = e.at /\ key = ScheduleKey(a, t)
  OBVIOUS
<1>5. e \in Entry
  BY <1>3 DEF Planned
<1>6. a \in Automations /\ t \in Nat /\ e.status \in Recorded
  BY <1>1, <1>4, <1>5 DEF Entry, Recorded
<1>7. key \in Keys
  BY <1>4, <1>6 DEF Keys, ScheduleKey
<1>8. Allowed(key, e.status)
  <2> SUFFICES ASSUME NEW b \in Automations, NEW u \in Nat, key = ScheduleKey(b, u),
                      CatchUp[b] > 0, Missed(b, u, clock) = {}
               PROVE  e.status = "Queued"
    BY DEF Allowed
  <2>1. b = a /\ u = t
    <3>1. ScheduleKey(a, t) = ScheduleKey(b, u)
      BY <1>4
    <3> QED BY <3>1 DEF ScheduleKey
  <2> QED BY <1>1, <1>3, <1>4, <2>1 DEF Planned
<1>9. n = Triggered(mem, a, key, e.status)
  BY <1>1, <1>4
<1>10. /\ Books(n, history \cup Rows(n), clock) /\ Grows(mem, n)
       /\ \E f \in n.seen : f.key = key /\ f.at = clock
  BY <1>3, <1>6, <1>7, <1>8, <1>9, TriggerBooks
<1>11. Carried(n, executing, executed) /\ executed \subseteq 0..n.sequence
  BY <1>3, <1>10, GrowsCarried
<1>12. /\ n.last = mem.last /\ n.sequence = mem.sequence + 1
       /\ \A b \in Automations, u \in Nat : Noted(mem.seen, b, u, clock) => Noted(n.seen, b, u, clock)
  BY <1>10 DEF Grows
<1>13. Noted(n.seen, a, t, clock)
  BY <1>4, <1>10 DEF Noted
<1>14. CASE Saved(n) /\ GoesOn(n, "poll", todo \ {e}) /\ UNCHANGED <<full, claimed>>
  <2>1. /\ disk' = n /\ mem' = n /\ history' = history \cup Rows(n) /\ step' = "poll"
        /\ todo' = todo \ {e} /\ claimed' = claimed
    BY <1>14, SavedRows DEF GoesOn
  <2>2. ASSUME NEW b \in Automations, n.last[b] # Unobserved, NEW u \in Missed(b, n.last[b], clock)
        PROVE  \/ Noted(n.seen, b, u, clock)
               \/ \E f \in todo \ {e} : f.automation = b /\ f.at = u /\ f.status # "checked"
    <3>1. n.last[b] # clock
      BY <1>3, <2>2, NoInstants
    <3>2. n.last[b] = disk.last[b]
      BY <1>3, <1>12, <3>1
    <3>3. u \in Nat
      BY <1>3, <2>2, <3>2, Instants
    <3>4. \/ Noted(mem.seen, b, u, clock)
          \/ \E f \in todo : f.automation = b /\ f.at = u /\ f.status # "checked"
      BY <1>3, <2>2, <3>2 DEF Planned
    <3>5. CASE Noted(mem.seen, b, u, clock)
      BY <1>12, <3>3, <3>5
    <3>6. ASSUME NEW f \in todo, f.automation = b, f.at = u, f.status # "checked"
          PROVE  Noted(n.seen, b, u, clock) \/ f \in todo \ {e}
      BY <1>4, <1>13, <3>6
    <3> QED BY <3>4, <3>5, <3>6
  <2>3. Planned(n, n, todo \ {e}, clock)
    BY <1>3, <2>2 DEF Planned
  <2>4. n = [n EXCEPT !.last = n.last]
    BY <1>10 DEF Books, RunsFit, Store
  <2>5. Phase'
    BY <1>2, <1>3, <2>1, <2>3, <2>4 DEF Phase
  <2>6. Carries
    BY <1>12, <2>1 DEF Carries
  <2> QED BY <1>2, <1>3, <1>10, <1>11, <2>1, <2>5, <2>6, SavedKeeps
<1>15. CASE NotSaved /\ Claims(n)
  <2>1. /\ disk' = disk /\ mem' = n /\ history' = history /\ step' = "claim"
        /\ todo' = IDs(n, "Queued") /\ claimed' = claimed
    BY <1>15 DEF NotSaved, Claims, GoesOn, QueuedRuns, IDs
  <2>2. Phase'
    BY <1>2, <1>3, <2>1 DEF Phase
  <2>3. Files(disk, n, history, clock)
    BY <1>3, <1>10, <1>12 DEF IInv, Files
  <2>4. Marked(disk, n, clock)
    <3> SUFFICES ASSUME NEW b \in Automations, disk.last[b] # Unobserved,
                        NEW u \in Missed(b, disk.last[b], mem.last[b])
                 PROVE  Noted(n.seen, b, u, clock)
      BY <1>3, <1>12 DEF Marked
    <3>1. u \in Nat
      BY <1>3, Instants
    <3>2. Noted(mem.seen, b, u, clock)
      BY <1>3 DEF Marked
    <3> QED BY <1>12, <3>1, <3>2
  <2>5. Carried(disk, executing, executed) /\ executed \subseteq 0..disk.sequence
    BY DEF IInv
  <2>6. Carries
    BY <2>1 DEF Carries
  <2> QED BY <1>2, <1>3, <1>11, <2>1, <2>2, <2>3, <2>4, <2>5, <2>6 DEF IInv
<1> QED BY <1>1, <1>14, <1>15

\* Only the marks of a file change.
LEMMA LastSet ==
  ASSUME NEW s, NEW H, NEW now \in Nat, Books(s, H, now), NEW a \in Automations,
         NEW n, n = [s EXCEPT !.last[a] = now]
  PROVE  /\ Books(n, H, now) /\ n.runs = s.runs /\ n.seen = s.seen /\ n.sequence = s.sequence
         /\ n.last = [s.last EXCEPT ![a] = now] /\ Rows(n) = Rows(s)
<1>1. s \in Store /\ s.last \in [Automations -> Nat \cup {Unobserved}]
  BY Fields DEF Books, RunsFit
<1>2. PICK last : last = [s.last EXCEPT ![a] = now]
  OBVIOUS
<1>3. last \in [Automations -> Nat \cup {Unobserved}]
  BY <1>1, <1>2
<1>4. n = [runs |-> s.runs, seen |-> s.seen, sequence |-> s.sequence, last |-> last]
  BY <1>1, <1>2 DEF Store
<1>5. n \in Store /\ n.runs = s.runs /\ n.seen = s.seen /\ n.sequence = s.sequence /\ n.last = last
  BY <1>1, <1>3, <1>4 DEF Store
<1>6. RunsFit(n)
  BY <1>5 DEF Books, RunsFit
<1>7. With(n, "Running") = With(s, "Running") /\ \A b : Own(n, b) = Own(s, b)
  BY <1>5 DEF With, Own
<1>8. Limited(n)
  BY <1>7 DEF Books, Limited
<1>9. Rows(n) = Rows(s)
  BY <1>5 DEF Rows
<1> QED BY <1>2, <1>5, <1>6, <1>8, <1>9 DEF Books

\* An automation is marked in the copy when none of its instants is left.
LEMMA MarkKeeps ==
  ASSUME IInv, MarkChecked PROVE IInv'
<1>1. PICK e \in todo :
        /\ IsNext(e) /\ e.status = "checked"
        /\ GoesOn([mem EXCEPT !.last[e.automation] = clock], "poll", todo \ {e})
  BY DEF MarkChecked
<1>2. /\ step = "poll" /\ UNCHANGED <<disk, history, claimed, clock, executing, executed>>
      /\ \A f \in todo \ {e} : Earlier(e, f)
  BY <1>1 DEF MarkChecked, work, IsNext
<1>3. /\ clock \in Nat /\ claimed = {} /\ mem = [disk EXCEPT !.last = mem.last]
      /\ RunsFit(disk) /\ RunsFit(mem) /\ Planned(disk, mem, todo, clock)
      /\ Rows(mem) \subseteq history /\ Books(mem, history, clock)
      /\ mem.sequence = disk.sequence /\ Marked(disk, mem, clock)
      /\ mem.runs = disk.runs /\ mem.seen = disk.seen
  BY <1>2, Polling
<1>4. PICK a : a = e.automation
  OBVIOUS
<1>5. a \in Automations /\ a \in Nat
  BY <1>3, <1>4, AutomationAssumption DEF Planned, Entry
<1>6. PICK n : n = [mem EXCEPT !.last[a] = clock]
  OBVIOUS
<1>7. mem' = n /\ step' = "poll" /\ todo' = todo \ {e}
  BY <1>1, <1>4, <1>6 DEF GoesOn
<1>8. /\ Books(n, history, clock) /\ n.runs = mem.runs /\ n.seen = mem.seen
      /\ n.sequence = mem.sequence /\ n.last = [mem.last EXCEPT ![a] = clock]
      /\ Rows(n) = Rows(mem)
  BY <1>3, <1>5, <1>6, LastSet
<1>9. \A f \in todo \ {e} : f.automation # a \/ f.status = "checked"
  <2> SUFFICES ASSUME NEW f \in todo \ {e}, f.automation = a, f.status # "checked" PROVE FALSE
    OBVIOUS
  <2>1. Earlier(e, f)
    BY <1>2
  <2> QED BY <1>1, <1>4, <1>5, <2>1 DEF Earlier
<1>10. Marked(disk, n, clock)
  <2>1. mem.last \in [Automations -> Nat \cup {Unobserved}]
    BY <1>3, Fields DEF RunsFit
  <2>2. ASSUME NEW b \in Automations
        PROVE  /\ n.last[b] \in {disk.last[b], clock}
               /\ disk.last[b] # Unobserved =>
                    \A t \in Missed(b, disk.last[b], n.last[b]) : Noted(n.seen, b, t, clock)
    <3>1. CASE b # a
      <4>1. n.last[b] = mem.last[b]
        BY <1>8, <2>1, <3>1
      <4> QED BY <1>3, <1>8, <4>1 DEF Marked
    <3>2. CASE b = a
      <4>1. n.last[b] = clock
        BY <1>8, <2>1, <3>2
      <4>2. ASSUME disk.last[b] # Unobserved, NEW t \in Missed(b, disk.last[b], clock)
            PROVE  Noted(n.seen, b, t, clock)
        <5>1. \/ Noted(mem.seen, b, t, clock)
              \/ \E f \in todo : f.automation = b /\ f.at = t /\ f.status # "checked"
          BY <1>3, <4>2 DEF Planned
        <5> QED BY <1>1, <1>8, <1>9, <3>2, <5>1
      <4> QED BY <4>1, <4>2
    <3> QED BY <3>1, <3>2
  <2> QED BY <2>2 DEF Marked
<1>11. Planned(disk, n, todo \ {e}, clock)
  BY <1>1, <1>3, <1>8 DEF Planned
<1>12. n = [disk EXCEPT !.last = n.last]
  BY <1>3, <1>8 DEF RunsFit, Store, Books
<1>13. Phase'
  BY <1>2, <1>3, <1>7, <1>11, <1>12 DEF Phase
<1>14. Files(disk, n, history, clock)
  <2>1. history \cup Rows(n) = history
    BY <1>3, <1>8
  <2> QED BY <1>3, <1>8, <2>1 DEF IInv, Files
<1>15. /\ Carried(disk, executing, executed) /\ Carried(n, executing, executed)
       /\ executed \subseteq 0..disk.sequence
  BY <1>8 DEF IInv, Carried, IDs, With
<1> QED BY <1>2, <1>3, <1>7, <1>10, <1>13, <1>14, <1>15 DEF IInv

\* The marks are saved, or the save fails and the claims work on the copy.
LEMMA EndPollKeeps ==
  ASSUME IInv, EndPoll PROVE IInv'
<1>1. /\ step = "poll" /\ clock' = clock /\ executing' = executing /\ executed' = executed
      /\ mem' = mem /\ step' = "claim" /\ todo' = IDs(mem, "Queued") /\ claimed' = claimed
      /\ Saved(mem) \/ NotSaved
  BY DEF EndPoll, work, Claims, GoesOn, QueuedRuns, IDs
<1>2. /\ clock \in Nat /\ claimed = {}
      /\ Rows(mem) \subseteq history /\ Books(mem, history, clock)
      /\ Carried(mem, executing, executed) /\ executed \subseteq 0..mem.sequence
  BY <1>1, Polling
<1>3. Phase'
  BY <1>1, <1>2 DEF Phase
<1>4. CASE Saved(mem)
  <2>1. history \cup Rows(mem) = history
    BY <1>2
  <2> QED BY <1>1, <1>2, <1>3, <1>4, <2>1, SavedRows, SavedKeeps
<1>5. CASE NotSaved
  BY <1>1, <1>3, <1>5 DEF IInv, NotSaved
<1> QED BY <1>1, <1>4, <1>5

----------------------------------------------------------------------------
(* claim_queued *)

\* The copy while runs are claimed.
LEMMA Claiming ==
  ASSUME IInv, step = "claim"
  PROVE  /\ clock \in Nat /\ RunsFit(mem) /\ Limited(mem) /\ Books(mem, history \cup Rows(mem), clock)
         /\ Carried(mem, executing, executed) /\ executed \subseteq 0..mem.sequence
         /\ Files(disk, mem, history, clock) /\ Marked(disk, mem, clock)
         /\ todo \subseteq IDs(mem, "Queued") /\ claimed \subseteq IDs(mem, "Running")
         /\ claimed \cap executed = {}
<1>1. /\ clock \in Nat /\ Books(mem, history \cup Rows(mem), clock)
      /\ Books(disk, history, clock) /\ disk.sequence <= mem.sequence
      /\ Carried(mem, executing, executed) /\ executed \subseteq 0..disk.sequence
      /\ todo \subseteq IDs(mem, "Queued") /\ claimed \subseteq IDs(mem, "Running")
      /\ claimed \cap executed = {}
  BY DEF IInv, Files, Phase
<1>2. RunsFit(mem) /\ Limited(mem) /\ RunsFit(disk)
  BY <1>1 DEF Books
<1>3. disk.sequence \in Nat /\ mem.sequence \in Nat
  BY <1>2, Fields DEF RunsFit
<1>4. executed \subseteq 0..mem.sequence
  BY <1>1, <1>3
<1> QED BY <1>1, <1>2, <1>4 DEF IInv

\* A queued run is claimed in the copy, within the limits.
LEMMA ClaimKeeps ==
  ASSUME IInv, Claim PROVE IInv'
<1>1. PICK id \in todo : /\ IsFirst(id) /\ Reason(id) = "none"
                         /\ claimed' = claimed \cup {id}
                         /\ GoesOn(SetStatus(mem, id, "Running"), "claim", todo \ {id})
  BY DEF Claim
<1>2. step = "claim" /\ UNCHANGED <<disk, history, clock, executing, executed>>
  BY <1>1 DEF Claim, work, IsFirst
<1>3. /\ clock \in Nat /\ RunsFit(mem) /\ Limited(mem) /\ Books(mem, history \cup Rows(mem), clock)
      /\ Carried(mem, executing, executed)
      /\ Files(disk, mem, history, clock) /\ Marked(disk, mem, clock)
      /\ todo \subseteq IDs(mem, "Queued") /\ claimed \subseteq IDs(mem, "Running")
      /\ claimed \cap executed = {}
  BY <1>2, Claiming
<1>4. PICK n : n = SetStatus(mem, id, "Running")
  OBVIOUS
<1>5. mem' = n /\ step' = "claim" /\ todo' = todo \ {id}
  BY <1>1, <1>4 DEF GoesOn
<1>6. /\ "Running" \in Statuses \ Declined /\ "Running" # "Queued"
      /\ \A r \in mem.runs : r.id = id => r.status \notin Declined
  BY <1>3, RunOf DEF Statuses, Declined
<1>7. Limited(n)
  BY <1>1, <1>3, <1>4, ClaimLimited
<1>8. /\ Rows(n) = Rows(mem) /\ RunsFit(n) /\ n.sequence = mem.sequence
      /\ n.last = mem.last /\ n.seen = mem.seen
  BY <1>3, <1>4, <1>6, SameRows, StatusSet
<1>9. Books(n, history \cup Rows(mem), clock)
  BY <1>3, <1>4, <1>6, <1>7, StatusBooks
<1>10. Carried(n, executing, executed)
  BY <1>3, <1>4, <1>6, StatusCarried
<1>11. Files(disk, n, history, clock)
  BY <1>3, <1>8, <1>9 DEF Files
<1>12. Marked(disk, n, clock)
  BY <1>3, <1>8 DEF Marked
<1>13. id \notin executed
  <2>1. PICK r \in mem.runs : r.id = id /\ r.status = "Queued"
    BY <1>3 DEF IDs, With
  <2> QED BY <1>3, <2>1 DEF Carried
<1>14. id \in IDs(n, "Running")
  <2>1. PICK r \in mem.runs : r.id = id
    BY <1>3 DEF IDs, With
  <2>2. PICK q \in n.runs : q.id = id /\ q.status = "Running"
    BY <1>3, <1>4, <1>6, <2>1, StatusSet
  <2> QED BY <2>2 DEF IDs, With
<1>15. todo \ {id} \subseteq IDs(n, "Queued") /\ claimed \cup {id} \subseteq IDs(n, "Running")
  <2>1. IDs(mem, "Queued") \ {id} \subseteq IDs(n, "Queued")
    BY <1>3, <1>4, <1>6, OtherIDs
  <2>2. IDs(mem, "Running") \ {id} \subseteq IDs(n, "Running")
    BY <1>3, <1>4, <1>6, OtherIDs
  <2> QED BY <1>3, <1>14, <2>1, <2>2
<1>16. Phase'
  BY <1>1, <1>2, <1>3, <1>5, <1>13, <1>15 DEF Phase
<1> QED BY <1>2, <1>3, <1>5, <1>10, <1>11, <1>12, <1>16 DEF IInv

\* Another key does not harm.
LEMMA SeenSet ==
  ASSUME NEW s, NEW H, NEW now \in Nat, Books(s, H, now), NEW id \in Nat, NEW why \in Reasons,
         NEW n, n = [s EXCEPT !.seen = @ \cup {[key |-> <<"defer", id, why>>, at |-> now]}]
  PROVE  /\ Books(n, H, now) /\ n.runs = s.runs /\ n.last = s.last /\ n.sequence = s.sequence
         /\ s.seen \subseteq n.seen /\ Rows(n) = Rows(s)
<1>1. /\ s \in Store /\ s.seen \subseteq [key : Keys, at : Nat]
      /\ s.last \in [Automations -> Nat \cup {Unobserved}]
  BY Fields DEF Books, RunsFit
<1>2. PICK e : e = [key |-> <<"defer", id, why>>, at |-> now]
  OBVIOUS
<1>3. <<"defer", id, why>> \in Keys
  BY DEF Keys
<1>4. e \in [key : Keys, at : Nat] /\ e.at = now /\ \A a, t : e.key # ScheduleKey(a, t)
  <2>1. \A a, t : <<"defer", id, why>> # ScheduleKey(a, t)
    BY DEF ScheduleKey
  <2> QED BY <1>2, <1>3, <2>1
<1>5. PICK seen : seen = s.seen \cup {e}
  OBVIOUS
<1>6. n = [runs |-> s.runs, seen |-> seen, sequence |-> s.sequence, last |-> s.last]
  BY <1>1, <1>2, <1>5 DEF Store
<1>7. /\ n \in Store /\ n.runs = s.runs /\ n.seen = seen
      /\ n.sequence = s.sequence /\ n.last = s.last
  BY <1>1, <1>4, <1>5, <1>6 DEF Store
<1>8. RunsFit(n)
  BY <1>7 DEF Books, RunsFit
<1>9. With(n, "Running") = With(s, "Running") /\ \A b : Own(n, b) = Own(s, b)
  BY <1>7 DEF With, Own
<1>10. Limited(n)
  BY <1>9 DEF Books, Limited
<1>11. KeysKept(n.seen, H, now)
  BY <1>5, <1>7 DEF Books, KeysKept
<1>12. NewestRun(n.seen, H)
  <2> SUFFICES ASSUME NEW f \in seen, NEW a \in Automations, NEW t \in Nat,
                      f.key = ScheduleKey(a, t), CatchUp[a] > 0, Missed(a, t, f.at) = {}
               PROVE  \E h \in H : h.key = f.key /\ h.run
    BY <1>7 DEF NewestRun
  <2>1. f \in s.seen
    BY <1>4, <1>5
  <2> QED BY <2>1 DEF Books, NewestRun
<1>13. \A f \in n.seen : f.at <= now
  BY <1>4, <1>5, <1>7 DEF Books
<1>14. Rows(n) = Rows(s)
  BY <1>7 DEF Rows
<1> QED BY <1>5, <1>7, <1>8, <1>10, <1>11, <1>12, <1>13, <1>14 DEF Books

\* A run is deferred; what was claimed so far is saved with the note.
LEMMA DeferKeeps ==
  ASSUME IInv, Defer PROVE IInv'
<1>0. PICK id \in todo :
        /\ IsFirst(id) /\ Reason(id) # "none"
        /\ LET key == <<"defer", id, Reason(id)>>
               s == [mem EXCEPT !.seen = @ \cup {[key |-> key, at |-> clock]}]
           IN  IF \E e \in mem.seen : e.key = key
               THEN /\ GoesOn(mem, "claim", todo \ {id})
                    /\ UNCHANGED <<disk, history, faults, full, claimed>>
               ELSE \/ Saved(s) /\ GoesOn(s, "claim", todo \ {id}) /\ UNCHANGED <<full, claimed>>
                    \/ NotSaved /\ Return
  BY DEF Defer
<1>1. PICK why, n :
        /\ why = Reason(id)
        /\ n = [mem EXCEPT !.seen = @ \cup {[key |-> <<"defer", id, why>>, at |-> clock]}]
  OBVIOUS
<1>2. \/ GoesOn(mem, "claim", todo \ {id}) /\ UNCHANGED <<disk, history, faults, full, claimed>>
      \/ Saved(n) /\ GoesOn(n, "claim", todo \ {id}) /\ UNCHANGED <<full, claimed>>
      \/ NotSaved /\ Return
  BY <1>0, <1>1
<1>3. /\ step = "claim" /\ clock' = clock /\ executing' = executing /\ executed' = executed
      /\ IsFirst(id) /\ why # "none"
  BY <1>0, <1>1 DEF Defer, work, IsFirst
<1>4. /\ clock \in Nat /\ RunsFit(mem) /\ Books(mem, history \cup Rows(mem), clock)
      /\ Carried(mem, executing, executed) /\ executed \subseteq 0..mem.sequence
      /\ todo \subseteq IDs(mem, "Queued") /\ claimed \subseteq IDs(mem, "Running")
      /\ claimed \cap executed = {}
  BY <1>3, Claiming
<1>5. why \in Reasons /\ id \in Nat
  BY <1>1, <1>3, <1>4, RunOf DEF Reason, Reasons
<1>6. /\ Books(n, history \cup Rows(mem), clock) /\ n.runs = mem.runs /\ n.sequence = mem.sequence
      /\ Rows(n) = Rows(mem)
  BY <1>1, <1>4, <1>5, SeenSet
<1>7. Carried(n, executing, executed) /\ \A status : IDs(n, status) = IDs(mem, status)
  BY <1>4, <1>6 DEF Carried, IDs, With
<1>8. CASE GoesOn(mem, "claim", todo \ {id}) /\ UNCHANGED <<disk, history, faults, full, claimed>>
  <2>1. Phase'
    BY <1>3, <1>4, <1>8 DEF Phase, GoesOn
  <2> QED BY <1>3, <1>8, <2>1 DEF IInv, GoesOn
<1>9. CASE Saved(n) /\ GoesOn(n, "claim", todo \ {id}) /\ UNCHANGED <<full, claimed>>
  <2>1. /\ disk' = n /\ mem' = n /\ history' = history \cup Rows(n) /\ claimed' = claimed
        /\ todo' = todo \ {id} /\ step' = "claim"
    BY <1>9, SavedRows DEF GoesOn
  <2>2. Phase'
    BY <1>3, <1>4, <1>7, <2>1 DEF Phase
  <2> QED BY <1>3, <1>4, <1>6, <1>7, <2>1, <2>2, SavedKeeps
<1>10. CASE NotSaved /\ Return
  BY <1>3, <1>10, DropReturns DEF NotSaved, Return
<1> QED BY <1>2, <1>8, <1>9, <1>10

\* What was claimed is saved and carried out, or dropped.
LEMMA EndClaimKeeps ==
  ASSUME IInv, EndClaim PROVE IInv'
<1>1. step = "claim" /\ clock' = clock /\ Return
  BY DEF EndClaim
<1>2. /\ clock \in Nat /\ RunsFit(mem) /\ Books(mem, history \cup Rows(mem), clock)
      /\ Carried(mem, executing, executed) /\ executed \subseteq 0..mem.sequence
      /\ claimed \subseteq IDs(mem, "Running")
  BY <1>1, Claiming
<1>3. CASE UNCHANGED <<disk, history, executing, executed>>
  BY <1>1, <1>3, DropReturns DEF Return
<1>4. CASE /\ Saved(mem)
           /\ executing' = executing \cup claimed /\ executed' = executed \cup claimed
  <2>1. \A i \in claimed : i \in 0..mem.sequence
    <3>1. mem.sequence \in Nat
      BY <1>2, Fields DEF RunsFit
    <3> QED BY <1>2, <3>1, RunOf
  <2>2. ASSUME NEW r \in mem.runs, r.id \in claimed PROVE r.status # "Queued"
    <3>1. r.id \in IDs(mem, "Running")
      BY <1>2, <2>2
    <3>2. PICK i : i = r.id
      OBVIOUS
    <3>3. Of(mem, i).status = "Running" /\ r = Of(mem, i)
      BY <1>2, <3>1, <3>2, RunOf
    <3> QED BY <3>3
  <2>3. Carried(mem, executing', executed')
    BY <1>2, <1>4, <2>2 DEF Carried
  <2>4. executed' \subseteq 0..mem.sequence
    BY <1>2, <1>4, <2>1
  <2> QED BY <1>1, <1>2, <1>4, <2>3, <2>4, SaveReturns
<1> QED BY <1>3, <1>4 DEF EndClaim, work, NotSaved

----------------------------------------------------------------------------
(* complete_run, trigger_manual *)

\* A run ends, and its outcome is saved or not.
LEMMA FinishKeeps ==
  ASSUME IInv, NEW id \in executing, NEW outcome \in Outcomes, Finish(id, outcome)
  PROVE  IInv'
<1>1. PICK n, status : status = Status(outcome) /\ n = SetStatus(disk, id, status)
  OBVIOUS
<1>2. /\ step = "idle" /\ clock' = clock /\ executing' = executing \ {id} /\ executed' = executed
      /\ \/ Saved(n) /\ Return
         \/ Saved(n) /\ GoesOn(n, "retry", {id}) /\ UNCHANGED <<full, claimed>>
         \/ NotSaved /\ Return
  BY <1>1 DEF Finish
<1>3. /\ claimed = {} /\ clock \in Nat
      /\ Books(disk, history, clock) /\ Rows(disk) \subseteq history
      /\ RunsFit(disk) /\ Limited(disk)
      /\ Carried(disk, executing, executed) /\ executed \subseteq 0..disk.sequence
  BY <1>2, Idle
<1>4. id \in IDs(disk, "Running")
  BY <1>3 DEF Carried
<1>5. status \in Statuses \ Declined /\ status # "Running" /\ status # "Queued"
  <2>1. outcome \in {"completed", "approval", "retry", "stop", "unknown"}
    BY AutomationAssumption
  <2>2. status \in {"Completed", "Failed", "WaitingUser"}
    BY <1>1, <2>1 DEF Status
  <2> QED BY <2>2 DEF Statuses, Finished, Declined
<1>6. \A r \in disk.runs : r.id = id => r.status \notin Declined
  BY <1>3, <1>4, RunOf DEF Declined
<1>7. Rows(n) = Rows(disk) /\ Limited(n) /\ RunsFit(n) /\ n.sequence = disk.sequence
  BY <1>1, <1>3, <1>5, <1>6, SameRows, StoppedRunning, StatusSet
<1>8. Books(n, history, clock) /\ history \cup Rows(n) = history
  BY <1>1, <1>3, <1>5, <1>7, StatusBooks
<1>9. Carried(n, executing', executed')
  <2>1. executing' \subseteq executing /\ id \notin executing'
    BY <1>2
  <2> QED BY <1>1, <1>2, <1>3, <1>5, <2>1, StatusCarried
<1>10. executed' \subseteq 0..n.sequence
  BY <1>2, <1>3, <1>7
<1>11. CASE Saved(n) /\ Return
  BY <1>2, <1>3, <1>8, <1>9, <1>10, <1>11, SaveReturns
<1>12. CASE Saved(n) /\ GoesOn(n, "retry", {id}) /\ UNCHANGED <<full, claimed>>
  <2>1. /\ disk' = n /\ mem' = n /\ history' = history \cup Rows(n) /\ claimed' = claimed
        /\ todo' = {id} /\ step' = "retry"
    BY <1>12, SavedRows DEF GoesOn
  <2>2. \E q \in n.runs : q.id = id
    <3>1. PICK r \in disk.runs : r.id = id
      BY <1>4 DEF IDs, With
    <3> QED BY <1>1, <1>3, <1>5, <3>1, StatusSet
  <2>3. Phase'
    BY <1>3, <2>1, <2>2 DEF Phase
  <2> QED BY <1>2, <1>3, <1>8, <1>9, <1>10, <2>1, <2>3, SavedKeeps
<1>13. CASE NotSaved /\ Return
  BY <1>2, <1>13, DropReturns DEF NotSaved, Return
<1> QED BY <1>2, <1>11, <1>12, <1>13

\* A new run that is triggered between two ticks.
LEMMA NewRunReturns ==
  ASSUME IInv, step \in {"idle", "retry"}, NEW a \in Automations, NEW key \in Keys,
         \A b, t : key # ScheduleKey(b, t),
         \/ Saved(Triggered(disk, a, key, "Queued"))
         \/ NotSaved,
         Return, UNCHANGED <<clock, executing, executed>>
  PROVE  IInv' /\ Carries
<1>1. /\ clock \in Nat /\ Books(disk, history, clock) /\ Rows(disk) \subseteq history
      /\ disk.sequence \in Nat
      /\ Carried(disk, executing, executed) /\ executed \subseteq 0..disk.sequence
  BY Idle
<1>2. PICK n : n = Triggered(disk, a, key, "Queued")
  OBVIOUS
<1>3. "Queued" \in Recorded /\ Allowed(key, "Queued")
  BY DEF Recorded, Allowed
<1>4. Books(n, history \cup Rows(n), clock) /\ Grows(disk, n)
  BY <1>1, <1>2, <1>3, TriggerBooks
<1>5. Carried(n, executing, executed) /\ executed \subseteq 0..n.sequence
  BY <1>1, <1>4, GrowsCarried
<1>6. CASE Saved(n)
  BY <1>1, <1>4, <1>5, <1>6, SaveReturns, SavedRows DEF Carries, Grows
<1>7. CASE NotSaved
  BY <1>7, DropReturns DEF NotSaved, Return, Carries
<1> QED BY <1>2, <1>6, <1>7

\* A retry is queued as a run of its own.
LEMMA RetryKeeps ==
  ASSUME IInv, Retry PROVE IInv' /\ Carries
<1>1. PICK id \in todo :
        \/ Saved(Triggered(mem, Of(mem, id).automation, <<"retry", id, clock>>, "Queued"))
        \/ NotSaved
  BY DEF Retry
<1>2. step = "retry" /\ Return /\ UNCHANGED <<clock, executing, executed>>
  BY DEF Retry, work
<1>3. mem = disk /\ RunsFit(disk) /\ clock \in Nat
  BY <1>2, Idle
<1>4. \E r \in disk.runs : r.id = id
  BY <1>2, <1>3 DEF IInv, Phase
<1>5. Of(disk, id) \in disk.runs /\ Of(disk, id).id = id
  BY <1>4 DEF Of
<1>6. Of(disk, id).automation \in Automations /\ id \in Nat
  BY <1>3, <1>5, Fields, RunFields DEF RunsFit
<1>7. PICK key : key = <<"retry", id, clock>>
  OBVIOUS
<1>8. key \in Keys /\ \A b, t : key # ScheduleKey(b, t)
  BY <1>3, <1>6, <1>7 DEF Keys, ScheduleKey
<1> QED BY <1>1, <1>2, <1>3, <1>6, <1>7, <1>8, NewRunReturns

\* A run is triggered by hand.
LEMMA ManualKeeps ==
  ASSUME IInv, NEW a \in Automations, TriggerManual(a) PROVE IInv' /\ Carries
<1>1. /\ step = "idle" /\ Return /\ UNCHANGED <<clock, executing, executed>>
      /\ \/ Saved(Triggered(disk, a, <<"manual", a, clock, Cardinality(disk.runs)>>, "Queued"))
         \/ NotSaved
  BY DEF TriggerManual, work
<1>2. RunsFit(disk) /\ clock \in Nat
  BY <1>1, Idle
<1>3. PICK size : size = Cardinality(disk.runs)
  OBVIOUS
<1>4. size \in Nat
  BY <1>2, <1>3, FS_CardinalityType DEF RunsFit
<1>5. PICK key : key = <<"manual", a, clock, size>>
  OBVIOUS
<1>6. key \in Keys /\ \A b, t : key # ScheduleKey(b, t)
  BY <1>2, <1>4, <1>5 DEF Keys, ScheduleKey
<1> QED BY <1>1, <1>3, <1>5, <1>6, NewRunReturns

----------------------------------------------------------------------------
(* The world *)

\* The books are still right later.
LEMMA BooksLater ==
  ASSUME NEW s, NEW H, NEW now \in Nat, Books(s, H, now) PROVE Books(s, H, now + 1)
<1>1. H \subseteq RowOK /\ s.seen \subseteq [key : Keys, at : Nat] /\ Window \in Nat
  BY Fields, AutomationAssumption DEF Books, RunsFit
<1>2. \A h \in H : h.created \in Nat /\ (h.created <= now => h.created <= now + 1)
  BY <1>1 DEF RowOK
<1>3. \A e \in s.seen : e.at \in Nat /\ (e.at <= now => e.at <= now + 1)
  BY <1>1
<1>4. \A h \in H : h.created + Window <= now => h.created + Window <= now + 1
  BY <1>1, <1>2
<1>5. KeysKept(s.seen, H, now + 1)
  BY <1>4 DEF Books, KeysKept
<1> QED BY <1>2, <1>3, <1>5 DEF Books

\* Time goes on between handlers.
LEMMA TimeKeeps ==
  ASSUME IInv, Time PROVE IInv'
<1>1. /\ step \in {"idle", "down"} /\ clock' = clock + 1
      /\ UNCHANGED <<disk, mem, history, step, todo, full, claimed, executing, executed>>
  BY DEF Time, store, host, work
<1>2. /\ mem = disk /\ clock \in Nat /\ Books(disk, history, clock) /\ Rows(disk) \subseteq history
  BY <1>1, Idle
<1>3. Books(disk, history, clock + 1)
  BY <1>2, BooksLater
<1>4. Files(disk, disk, history, clock + 1) /\ Marked(disk, disk, clock + 1)
  BY <1>2, <1>3, Alone
<1>5. Phase'
  BY <1>1 DEF IInv, Phase
<1> QED BY <1>1, <1>2, <1>4, <1>5 DEF IInv

\* The process stops anywhere; the copy is lost and the file is not.
LEMMA CrashKeeps ==
  ASSUME IInv, Crash PROVE IInv'
BY DropReturns DEF Crash

\* Nothing happens.
LEMMA StutterKeeps ==
  ASSUME IInv, UNCHANGED vars PROVE IInv'
<1>1. UNCHANGED <<disk, mem, history, step, todo, claimed, executing, executed, clock>>
  BY DEF vars, store, host, work
<1>2. Phase' <=> Phase
  BY <1>1 DEF Phase
<1> QED BY <1>1, <1>2 DEF IInv

\* At first there is an empty file and no process.
LEMMA InitHolds == Init => IInv
<1> SUFFICES ASSUME Init PROVE IInv
  OBVIOUS
<1>1. PICK d : d = [runs |-> {}, seen |-> {}, sequence |-> 0,
                    last |-> [a \in Automations |-> Unobserved]]
  OBVIOUS
<1>2. disk = d /\ mem = d /\ history = {} /\ clock = 0 /\ executing = {} /\ executed = {}
  BY <1>1 DEF Init
<1>3. d \in Store /\ d.runs = {} /\ d.seen = {} /\ d.sequence = 0
  BY <1>1 DEF Store
<1>4. RunsFit(d)
  BY <1>3, FS_EmptySet DEF RunsFit
<1>5. With(d, "Running") = {} /\ \A a : Own(d, a) = {}
  BY <1>3 DEF With, Own
<1>6. Limited(d)
  BY <1>5, FS_EmptySet, AutomationAssumption DEF Limited
<1>7. Books(d, {}, 0)
  BY <1>3, <1>4, <1>6 DEF Books, Once, KeysKept, NewestRun
<1>8. Rows(d) = {}
  BY <1>3 DEF Rows
<1>9. Files(d, d, {}, 0) /\ Marked(d, d, 0)
  BY <1>7, <1>8, Alone
<1>10. Carried(d, {}, {})
  BY DEF Carried
<1>11. Phase
  BY <1>2 DEF Init, Phase
<1> QED BY <1>2, <1>9, <1>10, <1>11 DEF IInv

\* Every step keeps the invariant, and what it writes into the file is what was decided.
LEMMA StepKeeps == IInv /\ [Next]_vars => IInv' /\ Carries
<1> SUFFICES ASSUME IInv, [Next]_vars PROVE IInv' /\ Carries
  OBVIOUS
<1>1. CASE disk' = disk /\ \/ Launch \/ MarkChecked \/ Claim \/ Time \/ Crash \/ UNCHANGED vars
                           \/ \E over \in BOOLEAN : StartTick(over)
  BY <1>1, LaunchKeeps, MarkKeeps, ClaimKeeps, TimeKeeps, CrashKeeps, StutterKeeps,
     StartTickKeeps DEF Carries
<1>2. \/ Launch \/ MarkChecked \/ Claim \/ Time \/ Crash \/ UNCHANGED vars
      \/ \E over \in BOOLEAN : StartTick(over)
      => disk' = disk
  BY DEF Launch, MarkChecked, Claim, Time, Crash, StartTick, store, vars
<1>3. CASE Recover
  <2>1. step = "recover" /\ mem = disk /\ RunsFit(disk)
    BY <1>3, Idle DEF Recover
  <2>2. PICK id : disk' = disk \/ Saved(Interrupted(disk, id))
    BY <1>3, <2>1 DEF Recover, NotSaved
  <2>3. Interrupted(disk, id).last = disk.last
    BY <2>1, StatusSet DEF Interrupted, Statuses
  <2>4. Carries
    BY <2>2, <2>3, SavedRows DEF Carries
  <2> QED BY <1>3, <2>4, RecoverKeeps
<1>4. CASE EndPoll
  BY <1>4, EndPollKeeps, SavedRows DEF EndPoll, NotSaved, Carries
<1>5. CASE EndClaim
  BY <1>5, EndClaimKeeps, SavedRows DEF EndClaim, NotSaved, Carries
<1>6. CASE Defer
  <2>1. PICK id \in todo :
          \/ disk' = disk
          \/ disk' = [mem EXCEPT !.seen =
                        @ \cup {[key |-> <<"defer", id, Reason(id)>>, at |-> clock]}]
    BY <1>6 DEF Defer, Saved, NotSaved
  <2>2. mem \in Store
    BY <1>6, Claiming DEF Defer, IsFirst, RunsFit
  <2>3. disk' = disk \/ (disk'.last = mem.last /\ mem.seen \subseteq disk'.seen)
    BY <2>1, <2>2 DEF Store
  <2>4. Carries
    BY <2>3 DEF Carries, Noted
  <2> QED BY <1>6, <2>4, DeferKeeps
<1>7. ASSUME NEW id \in executing, NEW outcome \in Outcomes, Finish(id, outcome)
      PROVE  IInv' /\ Carries
  <2>1. step = "idle" /\ (disk' = disk \/ Saved(SetStatus(disk, id, Status(outcome))))
    BY <1>7 DEF Finish, NotSaved
  <2>2. RunsFit(disk)
    BY <2>1, Idle
  <2>3. SetStatus(disk, id, Status(outcome)).last = disk.last
    BY <2>2 DEF SetStatus, RunsFit, Store
  <2>4. Carries
    BY <2>1, <2>3, SavedRows DEF Carries
  <2> QED BY <1>7, <2>4, FinishKeeps
<1> QED BY <1>1, <1>2, <1>3, <1>4, <1>5, <1>6, <1>7, RecordKeeps, RetryKeeps, ManualKeeps
        DEF Next, HandlerStep

----------------------------------------------------------------------------
(* Theorems *)

\* The file, the copy a handler works on and the history fit each other in every reachable
\* state, whatever save fails and wherever the process stops.
THEOREM BooksFit == Spec => []IInv
<1>1. Init => IInv
  BY InitHolds
<1>2. IInv /\ [Next]_vars => IInv'
  BY StepKeeps
<1> QED BY <1>1, <1>2, PTL DEF Spec

\* No planned time is run twice within the dedupe window, whatever crash or failing save
\* lies between its row and the mark that it was checked (AutomationEngine::trigger).
THEOREM InstantsRunOnce == Spec => []OneRunPerInstant
<1>1. IInv => OneRunPerInstant
  <2> SUFFICES ASSUME IInv PROVE OneRunPerInstant
    OBVIOUS
  <2>1. Once(history)
    BY DEF IInv, Files, Books
  <2> QED BY <2>1 DEF Once, OneRunPerInstant
<1> QED BY <1>1, BooksFit, PTL

\* No planned time is lost: what the file says was checked was triggered, and the newest
\* instant has a run unless the policy is to skip (poll_due, catch_up).
THEOREM InstantsAreDecided == Spec => DueIsDecided
<1> DEFINE Decided(a, t) ==
             /\ \E e \in disk'.seen : e.key = ScheduleKey(a, t)
             /\ CatchUp[a] > 0 /\ Missed(a, t, disk'.last[a]) = {}
                  => \E h \in history' : h.key = ScheduleKey(a, t) /\ h.run
           All == \A a \in Automations : disk.last[a] # Unobserved =>
                    \A t \in Missed(a, disk.last[a], disk'.last[a]) : Decided(a, t)
<1>1. ASSUME IInv, [Next]_vars PROVE All
  <2> SUFFICES ASSUME NEW a \in Automations, disk.last[a] # Unobserved,
                      NEW t \in Missed(a, disk.last[a], disk'.last[a])
               PROVE  Decided(a, t)
    OBVIOUS
  <2>1. IInv' /\ Carries
    BY <1>1, StepKeeps
  <2>2. Marked(disk, mem, clock) /\ clock \in Nat /\ NewestRun(disk'.seen, history')
    BY <1>1, <2>1 DEF IInv, Files, Books
  <2>3. disk.last[a] \in Nat
    BY <1>1, Fields DEF IInv, Files, Books, RunsFit
  <2>4. disk'.last # disk.last
    BY <2>3, NoInstants
  <2>5. /\ disk'.last = mem.last
        /\ \A u \in Nat : Noted(mem.seen, a, u, clock) => Noted(disk'.seen, a, u, clock)
    BY <2>1, <2>4 DEF Carries
  <2>6. disk'.last[a] = clock
    BY <2>2, <2>3, <2>5, NoInstants DEF Marked
  <2>7. t \in Nat
    BY <2>2, <2>3, <2>6, Instants
  <2>8. Noted(disk'.seen, a, t, clock)
    BY <2>2, <2>5, <2>7 DEF Marked
  <2>9. PICK e \in disk'.seen : e.key = ScheduleKey(a, t) /\ e.at = clock
    BY <2>8 DEF Noted
  <2>10. CatchUp[a] > 0 /\ Missed(a, t, clock) = {}
           => \E h \in history' : h.key = ScheduleKey(a, t) /\ h.run
    BY <2>2, <2>7, <2>9 DEF NewestRun
  <2> QED BY <2>6, <2>9, <2>10
<1>2. IInv /\ [Next]_vars => [All]_vars
  BY <1>1
<1> QED BY <1>2, BooksFit, PTL DEF Spec, DueIsDecided

\* What begins to be carried out was claimed and saved, never was carried out before and
\* keeps within the limits of the host and its template (claim_queued).
THEOREM ClaimsComeFirst == Spec => ExecutionsAreClaimed
<1> DEFINE Claimed(id) ==
             /\ id \notin executed
             /\ \E r \in With(disk', "Running") :
                  /\ r.id = id
                  /\ Cardinality({q \in With(disk', "Running") : q.automation = r.automation})
                       <= MaxConcurrency[r.automation]
             /\ executing' \subseteq {r.id : r \in With(disk', "Running")}
             /\ Cardinality(executing') <= Global
           All == \A id \in executing' \ executing : Claimed(id)
<1>1. ASSUME IInv, [Next]_vars PROVE All
  <2> SUFFICES ASSUME NEW id \in executing' \ executing PROVE Claimed(id)
    OBVIOUS
  <2>1. EndClaim
    BY <1>1 DEF Next, HandlerStep, Launch, Recover, StartTick, RecordInstant, MarkChecked,
                EndPoll, Claim, Defer, Finish, Retry, TriggerManual, Time, Crash, vars, work
  <2>2. id \in claimed /\ claimed \cap executed = {}
    BY <1>1, <2>1, Claiming DEF EndClaim, work
  <2>3. Carried(disk', executing', executed') /\ RunsFit(disk') /\ Limited(disk')
    BY <1>1, StepKeeps DEF IInv, Files, Books
  <2>4. PICK S, G : S = With(disk', "Running") /\ G = executing'
    OBVIOUS
  <2>5. G \subseteq {r.id : r \in S}
    BY <2>3, <2>4 DEF Carried, IDs
  <2>6. PICK r \in S : r.id = id
    BY <2>4, <2>5
  <2>7. r.automation \in Automations
    BY <2>3, <2>4, Fields, RunFields DEF RunsFit, With
  <2>8. Cardinality({q \in S : q.automation = r.automation}) <= MaxConcurrency[r.automation]
    BY <2>3, <2>4, <2>7 DEF Limited, Own
  <2>9. Cardinality(G) <= Global
    <3>1. IsFiniteSet(S)
      BY <2>3, <2>4, FS_Subset DEF RunsFit, With
    <3>2. PICK I : I = {q.id : q \in S}
      OBVIOUS
    <3> DEFINE f == [q \in S |-> q.id]
    <3>3. f \in Surjection(S, I)
      BY <3>2 DEF Surjection
    <3>4. IsFiniteSet(I) /\ Cardinality(I) <= Cardinality(S)
      BY <3>1, <3>3, FS_Surjection
    <3>5. IsFiniteSet(G) /\ Cardinality(G) <= Cardinality(I)
      BY <2>5, <3>2, <3>4, FS_Subset
    <3>6. Cardinality(S) \in Nat /\ Cardinality(I) \in Nat /\ Cardinality(G) \in Nat
      BY <3>1, <3>4, <3>5, FS_CardinalityType
    <3>7. Cardinality(S) <= Global
      BY <2>3, <2>4 DEF Limited
    <3> QED BY <3>4, <3>5, <3>6, <3>7, AutomationAssumption
  <2> QED BY <2>2, <2>4, <2>5, <2>6, <2>8, <2>9
<1>2. IInv /\ [Next]_vars => [All]_vars
  BY <1>1
<1> QED BY <1>2, BooksFit, PTL DEF Spec, ExecutionsAreClaimed

============================================================================
