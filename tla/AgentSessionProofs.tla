------------------------- MODULE AgentSessionProofs -------------------------
(***************************************************************************)
(* Proofs about AgentSession and AgentRecovery, for every number of turns, *)
(* approvals and starts of the application: the session is bound to the    *)
(* turn its last request began, no approval is forgotten, the card shows   *)
(* what the session waits for, a turn ends by its own end, and a turn that *)
(* was cut off by the end of the application is not forgotten.             *)
(***************************************************************************)
EXTENDS AgentRecovery, SequenceTheorems, TLAPS

\* What the host has sent and the agent has not taken, what is read of the agent and not
\* yet used, and the order in which it will be used.
Sent == Range(toAgent)
Heard == Range(events) \cup Range(incoming)
Inbox == events \o incoming

HostMessage == [kind : {"start", "interrupt", "answer"}, id : Nat, turn : Nat]
AgentMessage ==
  [kind : {"response", "failure", "request", "completed", "error"}, id : Nat, turn : Nat]
Turn == [start : Nat, at : {"working", "waiting", "over"}, request : Nat]

TypeOK ==
  /\ busy \in BOOLEAN /\ stop \in BOOLEAN /\ cut \in BOOLEAN
  /\ open \in BOOLEAN /\ alive \in BOOLEAN
  /\ card \in Nat /\ binding \in Nat /\ pending \in Nat /\ awaiting \in Nat
  /\ nextId \in Nat /\ lastStart \in Nat /\ denied \in Nat
  /\ state \in {"Ready", "Running", "WaitingApproval", "Completed", "Unknown"}
  /\ pc \in {"none", "start", "pump", "cancel"}
  /\ events \in Seq(AgentMessage) /\ incoming \in Seq(AgentMessage)
  /\ toAgent \in Seq(HostMessage) /\ turns \in Seq(Turn) /\ requests \in Seq(Nat)

\* What the composer shows, what the worker does and the state of the session agree.
CardInv ==
  /\ pc # "none" => busy /\ card = None /\ pending = None
  /\ pc = "start" => state \in {"Ready", "Completed"}
  /\ pc \in {"pump", "cancel"} => state = "Running"
  /\ pc = "none" => state # "Running" /\ (card = pending \/ (card = None /\ denied = pending))
  /\ card # None => state = "WaitingApproval" /\ card \in DOMAIN requests
  /\ denied # None => state = "WaitingApproval" /\ card = None
  /\ state = "WaitingApproval" /\ alive => card # None \/ denied # None

\* The worker waits for its last request to start a turn, and is then bound to it.
BindingInv ==
  /\ lastStart < nextId
  /\ pc = "start" => awaiting = lastStart
  /\ state \in {"Running", "WaitingApproval"}
       => binding \in DOMAIN turns /\ turns[binding].start = lastStart

\* What the messages on their way name is there.
SentOK(m) ==
  /\ m.kind \in {"start", "interrupt"} => m.id < nextId
  /\ m.kind = "interrupt" => m.turn \in DOMAIN turns /\ m.id # lastStart
  /\ m.kind = "answer" => m.id \in DOMAIN requests

HeardOK(m) ==
  /\ IsResponse(m) => m.id < nextId
  /\ m.kind = "response" /\ m.turn = None => m.id # lastStart
  /\ m.kind = "response" /\ m.turn # None
       => m.turn \in DOMAIN turns /\ turns[m.turn].start = m.id
  /\ m.kind = "request" => m.id \in DOMAIN requests
  /\ m.kind = "completed" => m.turn \in DOMAIN turns /\ turns[m.turn].at = "over"

MessageInv ==
  /\ \A m \in Sent : SentOK(m)
  /\ \A m \in Heard : HeardOK(m)

\* UnderWay, with the sets.
OnItsWay(r) ==
  \/ \E m \in Heard : m.kind = "request" /\ m.id = r
  \/ card = r /\ pending = r /\ state = "WaitingApproval"
  \/ \E m \in Sent : m.kind = "answer" /\ m.id = r

\* A turn waits for a request of its own, and the request is under way unless it was
\* denied while a built-in command ran.
WaitingInv ==
  /\ \A r \in DOMAIN requests : requests[r] \in DOMAIN turns
  /\ \A t \in DOMAIN turns : turns[t].at = "waiting" =>
       turns[t].request \in DOMAIN requests /\ requests[turns[t].request] = t
  /\ alive /\ open /\ denied = None =>
       \A t \in DOMAIN turns : turns[t].at = "waiting" => OnItsWay(turns[t].request)

\* No two requests to start a turn in the queue q have the same ID.
StartsOnce(q) ==
  \A k, l \in DOMAIN q :
    q[k].kind = "start" /\ q[l].kind = "start" /\ q[k].id = q[l].id => k = l

\* A request to start a turn is on its way, or has been refused, or has begun one turn.
StartInv ==
  /\ StartsOnce(toAgent)
  /\ \A t, u \in DOMAIN turns : turns[t].start = turns[u].start => t = u
  /\ \A t \in DOMAIN turns : turns[t].start < nextId
  /\ \A m \in Sent : m.kind = "start" => \A t \in DOMAIN turns : turns[t].start # m.id
  /\ \A m \in Heard : m.kind = "failure" /\ m.id = lastStart =>
       /\ \A t \in DOMAIN turns : turns[t].start # lastStart
       /\ \A n \in Sent : n.kind = "start" => n.id # lastStart

\* No turn ends twice in the queue q.
EndsOnce(q) ==
  \A k, l \in DOMAIN q :
    q[k].kind = "completed" /\ q[l].kind = "completed" /\ q[k].turn = q[l].turn => k = l

\* While no command was cut short, only the last turn may go on or has its end still to
\* be read, and when the session is ready no turn does.
LastInv ==
  ~cut =>
    /\ \A t \in DOMAIN turns : turns[t].start # lastStart => turns[t].at = "over"
    /\ \A m \in Heard : m.kind = "completed" => turns[m.turn].start = lastStart
    /\ \A m \in Sent : m.kind = "start" => m.id = lastStart /\ pc = "start"
    /\ pc # "start" /\ state \in {"Ready", "Completed"} =>
         /\ \A t \in DOMAIN turns : turns[t].at = "over"
         /\ \A m \in Heard : m.kind # "completed"

IInv ==
  /\ TypeOK /\ CardInv /\ BindingInv /\ MessageInv
  /\ WaitingInv /\ StartInv /\ EndsOnce(Inbox) /\ LastInv

\* After the application stopped nothing of the session is left but its files.
Gone ==
  /\ state = "Ready" /\ ~busy /\ card = None /\ pending = None /\ ~alive
  /\ pc = "none" /\ turns \in Seq(Turn)

\* What the files and the history say of a session that is gone.
FilesInv ==
  /\ underWay \in BOOLEAN /\ early \in BOOLEAN
  /\ life = "session" => ~underWay /\ ~early
  /\ life # "session" => (underWay <=> TurnUnderWay)
  /\ life # "session" /\ underWay /\ ~early => operation # "Succeeded"
  /\ life = "after" /\ snapshot # Nothing => operation # Nothing

RInv == (IF life = "session" THEN IInv ELSE Gone) /\ FilesInv

----------------------------------------------------------------------------
(* Queues *)

\* Appending adds what is appended.
LEMMA Appended ==
  ASSUME NEW S, NEW s \in Seq(S), NEW e \in S
  PROVE  /\ Append(s, e) \in Seq(S) /\ Len(Append(s, e)) = Len(s) + 1
         /\ DOMAIN Append(s, e) = DOMAIN s \cup {Len(s) + 1}
         /\ \A k \in DOMAIN s : Append(s, e)[k] = s[k]
         /\ Append(s, e)[Len(s) + 1] = e
         /\ Range(Append(s, e)) = Range(s) \cup {e}
<1>1. /\ Append(s, e) \in Seq(S) /\ Len(Append(s, e)) = Len(s) + 1
      /\ DOMAIN Append(s, e) = DOMAIN s \cup {Len(s) + 1}
      /\ \A k \in DOMAIN s : Append(s, e)[k] = s[k]
      /\ Append(s, e)[Len(s) + 1] = e
  OBVIOUS
<1>2. Range(Append(s, e)) = Range(s) \cup {e}
  <2>1. ASSUME NEW x \in Range(Append(s, e)) PROVE x \in Range(s) \cup {e}
    BY <1>1 DEF Range
  <2>2. ASSUME NEW x \in Range(s) PROVE x \in Range(Append(s, e))
    BY <1>1 DEF Range
  <2>3. e \in Range(Append(s, e))
    BY <1>1 DEF Range
  <2> QED BY <2>1, <2>2, <2>3
<1> QED BY <1>1, <1>2

\* A queue that is not empty is its first entry and the rest.
LEMMA Taken ==
  ASSUME NEW S, NEW s \in Seq(S), s # <<>>
  PROVE  /\ Head(s) \in S /\ Tail(s) \in Seq(S)
         /\ Len(Tail(s)) = Len(s) - 1 /\ Head(s) = s[1]
         /\ \A k \in 1..Len(Tail(s)) : Tail(s)[k] = s[k + 1]
         /\ Range(s) = {Head(s)} \cup Range(Tail(s))
<1>1. /\ Head(s) \in S /\ Tail(s) \in Seq(S) /\ Len(s) \in Nat \ {0}
      /\ Len(Tail(s)) = Len(s) - 1 /\ Head(s) = s[1]
      /\ \A k \in 1..Len(Tail(s)) : Tail(s)[k] = s[k + 1]
  BY HeadTailProperties, EmptySeq, LenProperties
<1>2. Range(s) = {Head(s)} \cup Range(Tail(s))
  <2>1. ASSUME NEW k \in 1..Len(s) PROVE s[k] \in {Head(s)} \cup Range(Tail(s))
    <3>1. CASE k = 1
      BY <1>1, <3>1
    <3>2. CASE k # 1
      <4>1. k - 1 \in DOMAIN Tail(s) /\ Tail(s)[k - 1] = s[k]
        BY <1>1, <3>2
      <4> QED BY <4>1 DEF Range
    <3> QED BY <3>1, <3>2
  <2>2. ASSUME NEW k \in 1..Len(Tail(s)) PROVE Tail(s)[k] \in Range(s)
    <3>1. k + 1 \in DOMAIN s /\ Tail(s)[k] = s[k + 1]
      BY <1>1
    <3> QED BY <3>1 DEF Range
  <2>3. Head(s) \in Range(s)
    BY <1>1 DEF Range
  <2>4. DOMAIN s = 1..Len(s) /\ DOMAIN Tail(s) = 1..Len(Tail(s))
    BY <1>1
  <2> QED BY <2>1, <2>2, <2>3, <2>4 DEF Range
<1> QED BY <1>1, <1>2

\* One queue after the other.
LEMMA Joined ==
  ASSUME NEW S, NEW s \in Seq(S), NEW t \in Seq(S)
  PROVE  /\ s \o t \in Seq(S) /\ Len(s \o t) = Len(s) + Len(t)
         /\ \A k \in 1..Len(s) : (s \o t)[k] = s[k]
         /\ \A k \in 1..Len(t) : (s \o t)[Len(s) + k] = t[k]
         /\ Range(s \o t) = Range(s) \cup Range(t)
<1>1. /\ s \o t \in Seq(S) /\ Len(s \o t) = Len(s) + Len(t)
      /\ Len(s) \in Nat /\ Len(t) \in Nat
      /\ \A k \in 1..Len(s) : (s \o t)[k] = s[k]
      /\ \A k \in 1..Len(t) : (s \o t)[Len(s) + k] = t[k]
  <2>1. /\ s \o t \in Seq(S) /\ Len(s \o t) = Len(s) + Len(t)
        /\ Len(s) \in Nat /\ Len(t) \in Nat
    BY ConcatProperties, LenProperties
  <2>2. \A k \in 1..(Len(s) + Len(t)) :
          (s \o t)[k] = IF k <= Len(s) THEN s[k] ELSE t[k - Len(s)]
    BY ConcatProperties
  <2> QED BY <2>1, <2>2
<1>2. DOMAIN s = 1..Len(s) /\ DOMAIN t = 1..Len(t) /\ DOMAIN (s \o t) = 1..Len(s \o t)
  BY <1>1, LenProperties
<1>3. ASSUME NEW k \in 1..Len(s \o t) PROVE (s \o t)[k] \in Range(s) \cup Range(t)
  <2>1. CASE k <= Len(s)
    BY <1>1, <1>2, <2>1 DEF Range
  <2>2. CASE k > Len(s)
    <3>1. k - Len(s) \in 1..Len(t) /\ (s \o t)[k] = t[k - Len(s)]
      BY <1>1, <2>2
    <3> QED BY <1>2, <3>1 DEF Range
  <2> QED BY <1>1, <2>1, <2>2
<1>4. ASSUME NEW k \in 1..Len(s) PROVE s[k] \in Range(s \o t)
  BY <1>1, <1>2 DEF Range
<1>5. ASSUME NEW k \in 1..Len(t) PROVE t[k] \in Range(s \o t)
  <2>1. Len(s) + k \in 1..Len(s \o t) /\ (s \o t)[Len(s) + k] = t[k]
    BY <1>1
  <2> QED BY <1>2, <2>1 DEF Range
<1>6. Range(s \o t) \subseteq Range(s) \cup Range(t)
  BY <1>2, <1>3 DEF Range
<1>7. Range(s) \subseteq Range(s \o t)
  BY <1>2, <1>4 DEF Range
<1>8. Range(t) \subseteq Range(s \o t)
  BY <1>2, <1>5 DEF Range
<1> QED BY <1>1, <1>6, <1>7, <1>8, Zenon

\* What the worker kept and what the reader left, as one queue.
LEMMA InboxOf ==
  ASSUME NEW e \in Seq(AgentMessage), NEW i \in Seq(AgentMessage)
  PROVE  e \o i \in Seq(AgentMessage) /\ Range(e \o i) = Range(e) \cup Range(i)
  BY Joined

\* Where the entry j of the queue without its entry k was.
Was(j, k) == IF j < k THEN j ELSE j + 1

\* RemoveAt takes one entry out and leaves the others in their order.
LEMMA TakenOut ==
  ASSUME NEW S, NEW s \in Seq(S), NEW k \in DOMAIN s
  PROVE  /\ RemoveAt(s, k) \in Seq(S) /\ Len(RemoveAt(s, k)) = Len(s) - 1
         /\ \A j \in DOMAIN RemoveAt(s, k) :
              Was(j, k) \in DOMAIN s \ {k} /\ RemoveAt(s, k)[j] = s[Was(j, k)]
         /\ \A j \in DOMAIN s \ {k} : s[j] \in Range(RemoveAt(s, k))
         /\ Range(RemoveAt(s, k)) \subseteq Range(s)
<1> DEFINE a == SubSeq(s, 1, k - 1)
           b == SubSeq(s, k + 1, Len(s))
<1>1. /\ Len(s) \in Nat /\ k \in 1..Len(s) /\ DOMAIN s = 1..Len(s)
      /\ k - 1 \in Int /\ k + 1 \in Int
  BY LenProperties
<1>2. a \in Seq(S) /\ Len(a) = k - 1 /\ \A j \in 1..(k - 1) : a[j] = s[j]
  <2>1. \A j \in 1..(k - 1) : s[j] \in S
    BY <1>1
  <2>2. /\ a \in Seq(S) /\ Len(a) = IF 1 <= k - 1 THEN (k - 1) - 1 + 1 ELSE 0
        /\ \A j \in 1..((k - 1) - 1 + 1) : a[j] = s[1 + j - 1]
    BY <1>1, <2>1, SubSeqProperties
  <2> HIDE DEF a
  <2> QED BY <1>1, <2>2
<1>3. b \in Seq(S) /\ Len(b) = Len(s) - k /\ \A j \in 1..(Len(s) - k) : b[j] = s[k + j]
  <2>1. \A j \in (k + 1)..Len(s) : s[j] \in S
    BY <1>1
  <2>2. /\ b \in Seq(S) /\ Len(b) = IF k + 1 <= Len(s) THEN Len(s) - (k + 1) + 1 ELSE 0
        /\ \A j \in 1..(Len(s) - (k + 1) + 1) : b[j] = s[(k + 1) + j - 1]
    BY <1>1, <2>1, SubSeqProperties
  <2> HIDE DEF b
  <2>3. Len(s) - (k + 1) + 1 = Len(s) - k
    BY <1>1
  <2>4. Len(b) = Len(s) - k
    BY <1>1, <2>2
  <2>5. ASSUME NEW j \in 1..(Len(s) - k) PROVE b[j] = s[k + j]
    <3>1. (k + 1) + j - 1 = k + j
      BY <1>1
    <3> QED BY <2>2, <2>3, <3>1
  <2> QED BY <2>2, <2>4, <2>5
<1>4. RemoveAt(s, k) = a \o b
  BY DEF RemoveAt
<1> HIDE DEF a, b
<1>5. /\ a \o b \in Seq(S) /\ Len(a \o b) = Len(s) - 1
      /\ \A j \in 1..(Len(s) - 1) : (a \o b)[j] = IF j < k THEN s[j] ELSE s[j + 1]
  <2>1. a \o b \in Seq(S) /\ Len(a \o b) = Len(a) + Len(b)
        /\ \A j \in 1..(Len(a) + Len(b)) :
             (a \o b)[j] = IF j <= Len(a) THEN a[j] ELSE b[j - Len(a)]
    BY <1>2, <1>3, ConcatProperties
  <2>2. Len(a) + Len(b) = Len(s) - 1
    BY <1>1, <1>2, <1>3
  <2>3. ASSUME NEW j \in 1..(Len(s) - 1)
        PROVE  (a \o b)[j] = IF j < k THEN s[j] ELSE s[j + 1]
    <3>1. CASE j < k
      BY <1>1, <1>2, <2>1, <2>2, <3>1
    <3>2. CASE ~(j < k)
      <4>1. (a \o b)[j] = b[j - (k - 1)]
        <5>1. j \in 1..(Len(a) + Len(b)) /\ ~(j <= Len(a)) /\ Len(a) = k - 1
          BY <1>1, <1>2, <2>2, <3>2
        <5> QED BY <2>1, <5>1
      <4>2. j - (k - 1) \in 1..(Len(s) - k) /\ k + (j - (k - 1)) = j + 1
        BY <1>1, <3>2
      <4>3. b[j - (k - 1)] = s[j + 1]
        BY <1>3, <4>2
      <4> QED BY <3>2, <4>1, <4>3
    <3> QED BY <3>1, <3>2
  <2> QED BY <2>1, <2>2, <2>3
<1> DEFINE c == a \o b
<1>6. /\ c \in Seq(S) /\ Len(c) = Len(s) - 1 /\ DOMAIN c = 1..(Len(s) - 1)
      /\ \A j \in 1..(Len(s) - 1) : c[j] = IF j < k THEN s[j] ELSE s[j + 1]
  BY <1>5, LenProperties
<1> HIDE DEF c
<1>7. ASSUME NEW j \in 1..(Len(s) - 1)
      PROVE  Was(j, k) \in (1..Len(s)) \ {k} /\ c[j] = s[Was(j, k)]
  <2>1. Was(j, k) \in (1..Len(s)) \ {k}
    BY <1>1 DEF Was
  <2>2. c[j] = s[Was(j, k)]
    BY <1>6 DEF Was
  <2> QED BY <2>1, <2>2
<1>8. ASSUME NEW j \in (1..Len(s)) \ {k} PROVE s[j] \in Range(c)
  <2>1. CASE j < k
    <3>1. j \in 1..(Len(s) - 1)
      BY <1>1, <2>1
    <3>2. c[j] = s[j]
      BY <1>6, <2>1, <3>1
    <3> QED BY <1>6, <3>1, <3>2 DEF Range
  <2>2. CASE j > k
    <3>1. j - 1 \in 1..(Len(s) - 1) /\ ~(j - 1 < k) /\ (j - 1) + 1 = j
      BY <1>1, <2>2
    <3>2. c[j - 1] = s[j]
      BY <1>6, <3>1
    <3> QED BY <1>6, <3>1, <3>2 DEF Range
  <2> QED BY <1>1, <2>1, <2>2
<1>9. Range(c) \subseteq Range(s)
  <2>1. DOMAIN c = 1..(Len(s) - 1) /\ DOMAIN s = 1..Len(s)
    BY <1>1, <1>6
  <2>2. ASSUME NEW j \in 1..(Len(s) - 1) PROVE c[j] \in Range(s)
    <3>1. Was(j, k) \in DOMAIN s /\ c[j] = s[Was(j, k)]
      BY <1>7, <2>1, Zenon
    <3> QED BY <3>1 DEF Range
  <2> QED BY <2>1, <2>2 DEF Range
<1>10. RemoveAt(s, k) = c
  BY <1>4 DEF c
<1>11. \A j \in DOMAIN c : Was(j, k) \in DOMAIN s \ {k} /\ c[j] = s[Was(j, k)]
  <2>1. DOMAIN c = 1..(Len(s) - 1) /\ DOMAIN s = 1..Len(s)
    BY <1>1, <1>6
  <2> QED BY <1>7, <2>1, Zenon
<1>12. \A j \in DOMAIN s \ {k} : s[j] \in Range(c)
  <2>1. DOMAIN s = 1..Len(s)
    BY <1>1
  <2> QED BY <1>8, <2>1, Zenon
<1>13. c \in Seq(S) /\ Len(c) = Len(s) - 1
  BY <1>6
<1> QED BY <1>9, <1>10, <1>11, <1>12, <1>13, Zenon


\* A request to start a turn that is taken out of the queue is not among the rest.
LEMMA FewerStarts ==
  ASSUME NEW q \in Seq(HostMessage), NEW k \in DOMAIN q, StartsOnce(q)
  PROVE  /\ StartsOnce(RemoveAt(q, k))
         /\ \A m \in Range(RemoveAt(q, k)) :
              ~(m.kind = "start" /\ q[k].kind = "start" /\ m.id = q[k].id)
<1> DEFINE r == RemoveAt(q, k)
<1>1. \A j \in DOMAIN r : Was(j, k) \in DOMAIN q \ {k} /\ r[j] = q[Was(j, k)]
  BY TakenOut
<1>2. DOMAIN r \subseteq Int
  BY TakenOut, LenProperties
<1> HIDE DEF r
<1>3. \A i, j \in DOMAIN r : Was(i, k) = Was(j, k) => i = j
  BY <1>2, k \in Int, LenProperties DEF Was
<1>4. StartsOnce(r)
  BY <1>1, <1>3 DEF StartsOnce
<1>5. ASSUME NEW m \in Range(r)
      PROVE  ~(m.kind = "start" /\ q[k].kind = "start" /\ m.id = q[k].id)
  <2>1. PICK j \in DOMAIN r : m = r[j]
    BY DEF Range
  <2> QED BY <1>1, <2>1 DEF StartsOnce
<1> QED BY <1>4, <1>5 DEF r

\* The queue r is the queue q without its entry k.
IsWithout(r, q, k) ==
  \A j \in DOMAIN r : Was(j, k) \in DOMAIN q \ {k} /\ r[j] = q[Was(j, k)]

\* An end that is taken out of the queue is not among the rest.
LEMMA FewerEnds ==
  ASSUME NEW q \in Seq(AgentMessage), NEW r \in Seq(AgentMessage), NEW k \in DOMAIN q,
         IsWithout(r, q, k), EndsOnce(q)
  PROVE  /\ EndsOnce(r)
         /\ \A m \in Range(r) :
              ~(m.kind = "completed" /\ q[k].kind = "completed" /\ m.turn = q[k].turn)
<1>1. \A j \in DOMAIN r : Was(j, k) \in DOMAIN q \ {k} /\ r[j] = q[Was(j, k)]
  BY DEF IsWithout
<1>2. DOMAIN r \subseteq Int
  BY LenProperties
<1>3. \A i, j \in DOMAIN r : Was(i, k) = Was(j, k) => i = j
  BY <1>2, k \in Int, LenProperties DEF Was
<1>4. EndsOnce(r)
  BY <1>1, <1>3 DEF EndsOnce
<1>5. ASSUME NEW m \in Range(r)
      PROVE  ~(m.kind = "completed" /\ q[k].kind = "completed" /\ m.turn = q[k].turn)
  <2>1. PICK j \in DOMAIN r : m = r[j]
    BY DEF Range
  <2> QED BY <1>1, <2>1 DEF EndsOnce
<1> QED BY <1>4, <1>5

\* The worker takes the first of the events it kept,
LEMMA KeptTaken ==
  ASSUME NEW S, NEW s \in Seq(S), NEW t \in Seq(S), s # <<>>
  PROVE  /\ Tail(s) \o t \in Seq(S) /\ 1 \in DOMAIN (s \o t) /\ (s \o t)[1] = Head(s)
         /\ IsWithout(Tail(s) \o t, s \o t, 1)
<1> DEFINE n == Len(s)
           p == Len(t)
           u == Tail(s)
           q == s \o t
           r == u \o t
<1>1. n \in Nat \ {0} /\ p \in Nat
  BY LenProperties, EmptySeq
<1>2. u \in Seq(S) /\ Len(u) = n - 1 /\ Head(s) = s[1] /\ \A k \in 1..(n - 1) : u[k] = s[k + 1]
  BY Taken
<1>3. /\ q \in Seq(S) /\ Len(q) = n + p
      /\ \A k \in 1..(n + p) : q[k] = IF k <= n THEN s[k] ELSE t[k - n]
  BY ConcatProperties
<1>4. /\ r \in Seq(S) /\ Len(r) = Len(u) + p
      /\ \A k \in 1..(Len(u) + p) : r[k] = IF k <= Len(u) THEN u[k] ELSE t[k - Len(u)]
  <2>1. u \in Seq(S)
    BY <1>2
  <2> HIDE DEF u
  <2> QED BY <2>1, ConcatProperties
<1> HIDE DEF n, p, u, q, r
<1>5. /\ Len(r) = (n - 1) + p
      /\ \A k \in 1..((n - 1) + p) : r[k] = IF k <= n - 1 THEN u[k] ELSE t[k - (n - 1)]
  BY <1>1, <1>2, <1>4
<1>6. DOMAIN q = 1..(n + p) /\ DOMAIN r = 1..((n - 1) + p)
  BY <1>3, <1>4, <1>5, LenProperties
<1>7. ASSUME NEW j \in 1..((n - 1) + p) PROVE r[j] = q[j + 1]
  <2>1. j + 1 \in 1..(n + p) /\ (j + 1) - n = j - (n - 1)
    BY <1>1
  <2>2. CASE j <= n - 1
    <3>1. j \in 1..(n - 1) /\ j + 1 <= n
      BY <1>1, <2>2
    <3>2. r[j] = u[j] /\ u[j] = s[j + 1]
      BY <1>2, <1>5, <2>2, <3>1
    <3>3. q[j + 1] = s[j + 1]
      BY <1>3, <2>1, <3>1
    <3> QED BY <3>2, <3>3
  <2>3. CASE j > n - 1
    <3>1. ~(j <= n - 1) /\ ~(j + 1 <= n)
      BY <1>1, <2>3
    <3>2. r[j] = t[j - (n - 1)]
      BY <1>5, <3>1
    <3>3. q[j + 1] = t[(j + 1) - n]
      BY <1>3, <2>1, <3>1
    <3> QED BY <2>1, <3>2, <3>3
  <2> QED BY <1>1, <2>2, <2>3
<1>8. ASSUME NEW j \in DOMAIN r
      PROVE  Was(j, 1) \in DOMAIN q \ {1} /\ r[j] = q[Was(j, 1)]
  <2>1. j \in 1..((n - 1) + p)
    BY <1>6
  <2>2. Was(j, 1) = j + 1 /\ j + 1 \in 1..(n + p) /\ j + 1 # 1
    BY <1>1, <2>1 DEF Was
  <2>3. r[j] = q[j + 1]
    BY <1>7, <2>1
  <2> QED BY <1>6, <2>2, <2>3
<1>9. 1 \in DOMAIN q /\ q[1] = Head(s)
  BY <1>1, <1>2, <1>3, <1>6
<1> QED BY <1>4, <1>8, <1>9 DEF IsWithout, q, r, u

\* or the next that was read.
LEMMA NextTaken ==
  ASSUME NEW S, NEW s \in Seq(S), NEW t \in Seq(S), t # <<>>
  PROVE  /\ s \o Tail(t) \in Seq(S) /\ Len(s) + 1 \in DOMAIN (s \o t)
         /\ (s \o t)[Len(s) + 1] = Head(t)
         /\ IsWithout(s \o Tail(t), s \o t, Len(s) + 1)
<1> DEFINE n == Len(s)
           p == Len(t)
           u == Tail(t)
           q == s \o t
           r == s \o u
<1>1. n \in Nat /\ p \in Nat \ {0}
  BY LenProperties, EmptySeq
<1>2. u \in Seq(S) /\ Len(u) = p - 1 /\ Head(t) = t[1] /\ \A k \in 1..(p - 1) : u[k] = t[k + 1]
  BY Taken
<1>3. /\ q \in Seq(S) /\ Len(q) = n + p
      /\ \A k \in 1..(n + p) : q[k] = IF k <= n THEN s[k] ELSE t[k - n]
  BY ConcatProperties
<1>4. /\ r \in Seq(S) /\ Len(r) = n + Len(u)
      /\ \A k \in 1..(n + Len(u)) : r[k] = IF k <= n THEN s[k] ELSE u[k - n]
  <2>1. u \in Seq(S)
    BY <1>2
  <2> HIDE DEF u
  <2> QED BY <2>1, ConcatProperties
<1> HIDE DEF n, p, u, q, r
<1>5. /\ Len(r) = n + (p - 1)
      /\ \A k \in 1..(n + (p - 1)) : r[k] = IF k <= n THEN s[k] ELSE u[k - n]
  BY <1>2, <1>4
<1>6. DOMAIN q = 1..(n + p) /\ DOMAIN r = 1..(n + (p - 1))
  BY <1>3, <1>4, <1>5, LenProperties
<1>7. ASSUME NEW j \in 1..(n + (p - 1))
      PROVE  /\ j <= n => r[j] = q[j]
             /\ j > n => r[j] = q[j + 1]
  <2>1. CASE j <= n
    <3>1. j \in 1..(n + p) /\ ~(j > n)
      BY <1>1, <2>1
    <3>2. q[j] = s[j]
      BY <1>3, <2>1, <3>1
    <3>3. r[j] = s[j]
      BY <1>5, <2>1
    <3> QED BY <3>1, <3>2, <3>3
  <2>2. CASE j > n
    <3>1. /\ j - n \in 1..(p - 1) /\ (j + 1) - n = (j - n) + 1
          /\ j + 1 \in 1..(n + p) /\ ~(j + 1 <= n) /\ ~(j <= n)
      BY <1>1, <2>2
    <3>2. r[j] = u[j - n] /\ u[j - n] = t[(j - n) + 1]
      BY <1>2, <1>5, <3>1
    <3>3. q[j + 1] = t[(j + 1) - n]
      BY <1>3, <3>1
    <3> QED BY <2>2, <3>1, <3>2, <3>3
  <2> QED BY <1>1, <2>1, <2>2
<1>8. ASSUME NEW j \in DOMAIN r
      PROVE  Was(j, n + 1) \in DOMAIN q \ {n + 1} /\ r[j] = q[Was(j, n + 1)]
  <2>1. j \in 1..(n + (p - 1))
    BY <1>6
  <2>2. Was(j, n + 1) \in 1..(n + p) /\ Was(j, n + 1) # n + 1
        /\ Was(j, n + 1) = IF j <= n THEN j ELSE j + 1
    <3>1. Was(j, n + 1) = IF j <= n THEN j ELSE j + 1
      BY <1>1, <2>1 DEF Was
    <3> QED BY <1>1, <2>1, <3>1
  <2>3. r[j] = q[Was(j, n + 1)]
    BY <1>1, <1>7, <2>1, <2>2
  <2> QED BY <1>6, <2>2, <2>3
<1>9. n + 1 \in DOMAIN q /\ q[n + 1] = Head(t)
  <2>1. n + 1 \in 1..(n + p) /\ ~(n + 1 <= n) /\ (n + 1) - n = 1
    BY <1>1
  <2> QED BY <1>2, <1>3, <1>6, <2>1
<1> QED BY <1>4, <1>8, <1>9 DEF IsWithout, q, r, u, n

\* Keeping an event changes nothing of the order.
LEMMA KeptInOrder ==
  ASSUME NEW S, NEW s \in Seq(S), NEW t \in Seq(S), t # <<>>
  PROVE  Append(s, Head(t)) \o Tail(t) = s \o t
<1> DEFINE n == Len(s)
           p == Len(t)
           a == Append(s, Head(t))
           u == Tail(t)
           q == s \o t
           r == a \o u
<1>1. n \in Nat /\ p \in Nat \ {0}
  BY LenProperties, EmptySeq
<1>2. /\ u \in Seq(S) /\ Len(u) = p - 1 /\ Head(t) = t[1] /\ Head(t) \in S
      /\ \A k \in 1..(p - 1) : u[k] = t[k + 1]
  BY Taken
<1>3. /\ a \in Seq(S) /\ Len(a) = n + 1 /\ a[n + 1] = t[1]
      /\ \A k \in 1..n : a[k] = s[k]
  BY <1>1, <1>2, Appended, LenProperties
<1>4. /\ q \in Seq(S) /\ Len(q) = n + p
      /\ \A k \in 1..(n + p) : q[k] = IF k <= n THEN s[k] ELSE t[k - n]
  BY ConcatProperties
<1>5. /\ r \in Seq(S) /\ Len(r) = Len(a) + Len(u)
      /\ \A k \in 1..(Len(a) + Len(u)) : r[k] = IF k <= Len(a) THEN a[k] ELSE u[k - Len(a)]
  <2>1. a \in Seq(S) /\ u \in Seq(S)
    BY <1>2, <1>3
  <2> HIDE DEF n, p, a, u, q
  <2>2. a \o u \in Seq(S) /\ Len(a \o u) = Len(a) + Len(u)
    BY <2>1, ConcatProperties
  <2>3. \A k \in 1..(Len(a) + Len(u)) :
          (a \o u)[k] = IF k <= Len(a) THEN a[k] ELSE u[k - Len(a)]
    BY <2>1, ConcatProperties
  <2> QED BY <2>2, <2>3
<1> HIDE DEF n, p, a, u, q, r
<1>6. /\ Len(r) = n + p
      /\ \A k \in 1..(n + p) : r[k] = IF k <= n + 1 THEN a[k] ELSE u[k - (n + 1)]
  <2>1. Len(a) + Len(u) = n + p /\ Len(a) = n + 1
    BY <1>1, <1>2, <1>3
  <2> QED BY <1>5, <2>1
<1>7. ASSUME NEW j \in 1..(n + p) PROVE r[j] = q[j]
  <2>1. CASE j <= n
    <3>1. j \in 1..n /\ j <= n + 1
      BY <1>1, <2>1
    <3>2. q[j] = s[j]
      BY <1>4, <2>1
    <3>3. r[j] = a[j] /\ a[j] = s[j]
      BY <1>3, <1>6, <3>1
    <3> QED BY <3>2, <3>3
  <2>2. CASE j = n + 1
    <3>1. ~(j <= n) /\ j <= n + 1 /\ j - n = 1
      BY <1>1, <2>2
    <3>2. r[j] = t[1]
      BY <1>3, <1>6, <2>2, <3>1
    <3>3. q[j] = t[j - n]
      BY <1>4, <3>1
    <3> QED BY <3>1, <3>2, <3>3
  <2>3. CASE j > n + 1
    <3>1. /\ j - (n + 1) \in 1..(p - 1) /\ (j - (n + 1)) + 1 = j - n
          /\ ~(j <= n) /\ ~(j <= n + 1)
      BY <1>1, <2>3
    <3>2. r[j] = u[j - (n + 1)] /\ u[j - (n + 1)] = t[(j - (n + 1)) + 1]
      BY <1>2, <1>6, <3>1
    <3>3. q[j] = t[j - n]
      BY <1>4, <3>1
    <3> QED BY <3>1, <3>2, <3>3
  <2> QED BY <1>1, <2>1, <2>2, <2>3
<1>8. q = r
  BY <1>4, <1>5, <1>6, <1>7, SeqEqual
<1> QED BY <1>8 DEF a, u, q, r

\* A new request to start a turn is no second one.
LEMMA MoreStarts ==
  ASSUME NEW q \in Seq(HostMessage), NEW m \in HostMessage, StartsOnce(q),
         m.kind = "start" => \A n \in Range(q) : ~(n.kind = "start" /\ n.id = m.id)
  PROVE  StartsOnce(Append(q, m))
<1>1. /\ DOMAIN Append(q, m) = DOMAIN q \cup {Len(q) + 1}
      /\ \A k \in DOMAIN q : Append(q, m)[k] = q[k]
      /\ Append(q, m)[Len(q) + 1] = m
  BY Appended
<1> DEFINE r == Append(q, m)
           n == Len(q) + 1
<1> HIDE DEF r, n
<1>2. DOMAIN r = DOMAIN q \cup {n} /\ r[n] = m /\ \A k \in DOMAIN q : r[k] = q[k]
  BY <1>1 DEF r, n
<1>3. StartsOnce(r)
  BY <1>2 DEF StartsOnce, Range
<1> QED BY <1>3 DEF r

\* Neither is the end of a turn whose end was not in the queue.
LEMMA MoreEnds ==
  ASSUME NEW q \in Seq(AgentMessage), NEW m \in AgentMessage, EndsOnce(q),
         m.kind = "completed" =>
           \A n \in Range(q) : ~(n.kind = "completed" /\ n.turn = m.turn)
  PROVE  EndsOnce(Append(q, m))
<1>1. /\ DOMAIN Append(q, m) = DOMAIN q \cup {Len(q) + 1}
      /\ \A k \in DOMAIN q : Append(q, m)[k] = q[k]
      /\ Append(q, m)[Len(q) + 1] = m
  BY Appended
<1> DEFINE r == Append(q, m)
           n == Len(q) + 1
<1> HIDE DEF r, n
<1>2. DOMAIN r = DOMAIN q \cup {n} /\ r[n] = m /\ \A k \in DOMAIN q : r[k] = q[k]
  BY <1>1 DEF r, n
<1>3. EndsOnce(r)
  BY <1>2 DEF EndsOnce, Range
<1> QED BY <1>3 DEF r


\* What the agent writes comes after all that was written.
LEMMA Written ==
  ASSUME NEW s \in Seq(AgentMessage), NEW t \in Seq(AgentMessage), NEW m \in AgentMessage
  PROVE  /\ t \o <<m>> \in Seq(AgentMessage)
         /\ Range(t \o <<m>>) = Range(t) \cup {m}
         /\ s \o (t \o <<m>>) = Append(s \o t, m)
<1>1. Append(t, m) = t \o <<m>>
  BY AppendIsConcat
<1>2. s \o t \in Seq(AgentMessage) /\ <<m>> \in Seq(AgentMessage)
  BY ConcatProperties
<1>3. Append(s \o t, m) = (s \o t) \o <<m>>
  BY <1>2, AppendIsConcat
<1>4. (s \o t) \o <<m>> = s \o (t \o <<m>>)
  BY <1>2, ConcatAssociative
<1>5. Append(t, m) \in Seq(AgentMessage) /\ Range(Append(t, m)) = Range(t) \cup {m}
  BY Appended
<1> QED BY <1>1, <1>3, <1>4, <1>5, Zenon

\* Two messages are written one after the other.
LEMMA WrittenTwo ==
  ASSUME NEW t \in Seq(AgentMessage), NEW m \in AgentMessage, NEW n \in AgentMessage
  PROVE  t \o <<m, n>> = (t \o <<m>>) \o <<n>>
<1>1. <<m>> \in Seq(AgentMessage) /\ <<n>> \in Seq(AgentMessage)
  OBVIOUS
<1>2. Append(<<m>>, n) = <<m>> \o <<n>>
  BY <1>1, AppendIsConcat
<1>3. Append(<<m>>, n) = <<m, n>>
  <2>1. /\ Append(<<m>>, n) \in Seq(AgentMessage) /\ Len(Append(<<m>>, n)) = 2
        /\ Append(<<m>>, n)[1] = m /\ Append(<<m>>, n)[2] = n
    BY <1>1, AppendProperties
  <2>2. <<m, n>> \in Seq(AgentMessage) /\ Len(<<m, n>>) = 2
        /\ <<m, n>>[1] = m /\ <<m, n>>[2] = n
    OBVIOUS
  <2> DEFINE a == Append(<<m>>, n)
             b == <<m, n>>
  <2> HIDE DEF a, b
  <2>3. a \in Seq(AgentMessage) /\ b \in Seq(AgentMessage) /\ Len(a) = Len(b)
        /\ \A i \in 1..Len(a) : a[i] = b[i]
    <3>1. /\ Len(a) = 2 /\ Len(b) = 2 /\ a[1] = b[1] /\ a[2] = b[2]
          /\ a \in Seq(AgentMessage) /\ b \in Seq(AgentMessage)
      BY <2>1, <2>2 DEF a, b
    <3> QED BY <3>1
  <2>4. a = b
    BY <2>3, SeqEqual
  <2> QED BY <2>4 DEF a, b
<1>4. t \o (<<m>> \o <<n>>) = (t \o <<m>>) \o <<n>>
  BY <1>1, ConcatAssociative
<1> QED BY <1>2, <1>3, <1>4, Zenon

\* The end of the turn t is not among what is read.
NoEndOf(t) == \A n \in Heard : ~(n.kind = "completed" /\ n.turn = t)

\* One message of the agent.
LEMMA EmitOne ==
  ASSUME TypeOK, EndsOnce(Inbox), NEW m \in AgentMessage, Emit(<<m>>), events' = events,
         m.kind = "completed" => NoEndOf(m.turn)
  PROVE  /\ incoming' \in Seq(AgentMessage) /\ EndsOnce(Inbox')
         /\ Heard \subseteq Heard' /\ Heard' \subseteq Heard \cup {m}
         /\ open => m \in Heard'
<1>1. CASE ~open
  BY <1>1 DEF Emit, Heard, Inbox, TypeOK
<1>2. CASE open
  <2>1. incoming' = incoming \o <<m>>
    BY <1>2 DEF Emit
  <2>2. /\ incoming' \in Seq(AgentMessage) /\ Range(incoming') = Range(incoming) \cup {m}
        /\ Inbox' = Append(Inbox, m)
    BY <2>1, Written DEF Inbox, TypeOK
  <2>3. Inbox \in Seq(AgentMessage) /\ Range(Inbox) = Heard
    BY Joined DEF Inbox, Heard, TypeOK
  <2>4. EndsOnce(Append(Inbox, m))
    <3> HIDE DEF Inbox, Heard, AgentMessage
    <3> QED BY <2>3, MoreEnds DEF NoEndOf
  <2> QED BY <2>2, <2>4 DEF Heard
<1> QED BY <1>1, <1>2

\* Two, of which one is the end of a turn.
LEMMA EmitTwo ==
  ASSUME TypeOK, EndsOnce(Inbox), NEW m \in AgentMessage, NEW n \in AgentMessage,
         Emit(<<m, n>>), events' = events,
         m.kind # "completed" \/ n.kind # "completed",
         m.kind = "completed" => NoEndOf(m.turn), n.kind = "completed" => NoEndOf(n.turn)
  PROVE  /\ incoming' \in Seq(AgentMessage) /\ EndsOnce(Inbox')
         /\ Heard \subseteq Heard' /\ Heard' \subseteq Heard \cup {m, n}
<1>1. CASE ~open
  BY <1>1 DEF Emit, Heard, Inbox, TypeOK
<1>2. CASE open
  <2> DEFINE q == Append(Inbox, m)
  <2>1. incoming' = (incoming \o <<m>>) \o <<n>>
    BY <1>2, WrittenTwo DEF Emit, TypeOK
  <2>2. /\ incoming \o <<m>> \in Seq(AgentMessage)
        /\ Range(incoming \o <<m>>) = Range(incoming) \cup {m}
        /\ events \o (incoming \o <<m>>) = q
    BY Written DEF Inbox, TypeOK
  <2>3. /\ incoming' \in Seq(AgentMessage)
        /\ Range(incoming') = Range(incoming) \cup {m, n}
        /\ Inbox' = Append(q, n)
    <3>1. events \in Seq(AgentMessage)
      BY DEF TypeOK
    <3> HIDE DEF AgentMessage, q
    <3>2. /\ (incoming \o <<m>>) \o <<n>> \in Seq(AgentMessage)
          /\ Range((incoming \o <<m>>) \o <<n>>) = Range(incoming \o <<m>>) \cup {n}
          /\ events \o ((incoming \o <<m>>) \o <<n>>) = Append(events \o (incoming \o <<m>>), n)
      BY <2>2, <3>1, Written
    <3> QED BY <2>1, <2>2, <3>2 DEF Inbox
  <2>4. Inbox \in Seq(AgentMessage) /\ Range(Inbox) = Heard
    BY Joined DEF Inbox, Heard, TypeOK
  <2>5. EndsOnce(q) /\ q \in Seq(AgentMessage) /\ Range(q) = Heard \cup {m}
    <3> HIDE DEF Inbox, Heard, AgentMessage
    <3> QED BY <2>4, MoreEnds, Appended DEF NoEndOf
  <2>6. EndsOnce(Append(q, n))
    <3> HIDE DEF q, Heard, AgentMessage
    <3> QED BY <2>5, MoreEnds DEF NoEndOf
  <2> QED BY <2>3, <2>6 DEF Heard
<1> QED BY <1>1, <1>2


\* Every message and every turn has its type.
LEMMA Types ==
  ASSUME TypeOK
  PROVE  /\ \A n \in Sent : n \in HostMessage /\ n.id \in Nat /\ n.turn \in Nat
         /\ \A n \in Heard : n \in AgentMessage /\ n.id \in Nat /\ n.turn \in Nat
         /\ \A t \in DOMAIN turns : turns[t] \in Turn /\ turns[t].start \in Nat
         /\ DOMAIN turns = 1..Len(turns) /\ Len(turns) \in Nat
         /\ DOMAIN requests = 1..Len(requests) /\ Len(requests) \in Nat
<1>1. \A S : \A q \in Seq(S) : Range(q) \subseteq S
  BY DEF Range
<1>2. Sent \subseteq HostMessage /\ Heard \subseteq AgentMessage
  BY <1>1 DEF Sent, Heard, TypeOK
<1>3. \A t \in DOMAIN turns : turns[t] \in Turn
  BY DEF TypeOK
<1>4. /\ DOMAIN turns = 1..Len(turns) /\ Len(turns) \in Nat
      /\ DOMAIN requests = 1..Len(requests) /\ Len(requests) \in Nat
  BY LenProperties DEF TypeOK
<1>5. \A n \in HostMessage : n.id \in Nat /\ n.turn \in Nat
  BY DEF HostMessage
<1>6. \A n \in AgentMessage : n.id \in Nat /\ n.turn \in Nat
  BY DEF AgentMessage
<1>7. \A n \in Turn : n.start \in Nat
  BY DEF Turn
<1> QED BY <1>2, <1>3, <1>4, <1>5, <1>6, <1>7

----------------------------------------------------------------------------
(* The composer *)

\* What depends on the messages and the turns alone stays while they do.
LEMMA Untouched ==
  ASSUME IInv, UNCHANGED <<transport, incoming, toAgent, turns, requests, lastStart>>
  PROVE  MessageInv' /\ StartInv' /\ EndsOnce(Inbox)'
  BY DEF IInv, MessageInv, StartInv, StartsOnce, EndsOnce, Inbox, Sent, Heard,
         SentOK, HeardOK, IsResponse, transport

\* The composer submits: the request to start a turn is sent or refused.
LEMMA StartKeeps ==
  ASSUME IInv, Start
  PROVE  IInv'
<1> DEFINE m == [kind |-> "start", id |-> nextId, turn |-> None]
<1> USE DEF IInv
<1>1. /\ m \in HostMessage /\ m.kind = "start" /\ m.id = nextId
      /\ toAgent' = Append(toAgent, m) /\ nextId' = nextId + 1 /\ lastStart' = nextId
      /\ nextId \in Nat
      /\ UNCHANGED <<events, incoming, turns, requests, open, alive, cut, denied>>
  BY DEF Start, Send, TypeOK, HostMessage, None
<1> HIDE DEF m
<1>2. toAgent' \in Seq(HostMessage) /\ Sent' = Sent \cup {m}
  BY <1>1, Appended DEF Sent, TypeOK
<1>3. TypeOK'
  BY <1>1, <1>2 DEF TypeOK, Start, session
<1>4. CardInv' /\ BindingInv'
  BY <1>1 DEF CardInv, BindingInv, Start, MayStart, TypeOK, session
<1>5. MessageInv'
  <2>1. ASSUME NEW n \in Sent' PROVE SentOK(n)'
    <3>1. CASE n \in Sent
      <4>1. SentOK(n)
        BY <3>1 DEF MessageInv
      <4>2. n.id \in Nat
        BY <3>1, Types
      <4> QED BY <1>1, <4>1, <4>2 DEF SentOK
    <3>2. CASE n = m
      BY <1>1, <3>2 DEF SentOK
    <3> QED BY <1>2, <2>1, <3>1, <3>2
  <2>2. ASSUME NEW n \in Heard' PROVE HeardOK(n)'
    <3>1. n \in Heard
      BY <1>1, <2>2 DEF Heard
    <3>2. n.id \in Nat
      BY <3>1, Types
    <3>3. HeardOK(n)
      BY <3>1 DEF MessageInv
    <3> QED BY <1>1, <3>2, <3>3 DEF HeardOK, IsResponse
  <2> QED BY <2>1, <2>2 DEF MessageInv
<1>6. WaitingInv'
  <2>1. ASSUME NEW r \in Nat \ {0}, OnItsWay(r) PROVE OnItsWay(r)'
    BY <1>1, <1>2, <2>1 DEF OnItsWay, Start, Heard, None
  <2>2. \A r \in DOMAIN requests : r \in Nat \ {0}
    BY DEF TypeOK
  <2> QED BY <1>1, <2>1, <2>2 DEF WaitingInv
<1>7. StartInv'
  <2>1. \A n \in Sent : ~(n.kind = "start" /\ n.id = m.id)
    BY <1>1, Types DEF MessageInv, SentOK
  <2>2. StartsOnce(toAgent')
    BY <1>1, <2>1, MoreStarts DEF StartInv, Sent, TypeOK
  <2>3. \A t \in DOMAIN turns : turns[t].start < nextId /\ turns[t].start \in Nat
    BY Types DEF StartInv
  <2>4. \A n \in Heard : n.kind = "failure" => n.id < nextId /\ n.id \in Nat
    BY Types DEF MessageInv, HeardOK, IsResponse
  <2> QED BY <1>1, <1>2, <2>2, <2>3, <2>4 DEF StartInv, Heard
<1>8. EndsOnce(Inbox)'
  BY <1>1 DEF Inbox, EndsOnce
<1>9. LastInv'
  <2>1. pc = "none" /\ pc' = "start" /\ state \in {"Ready", "Completed"}
    BY DEF Start, MayStart, CardInv, TypeOK
  <2>2. ASSUME ~cut PROVE \A n \in Sent : n.kind # "start"
    BY <2>1, <2>2 DEF LastInv
  <2> QED BY <1>1, <1>2, <2>1, <2>2 DEF LastInv, Heard
<1> QED BY <1>3, <1>4, <1>5, <1>6, <1>7, <1>8, <1>9

\* The user stops the command that goes on.
LEMMA StopKeeps ==
  ASSUME IInv, Stop
  PROVE  IInv'
<1> USE DEF IInv
<1>1. UNCHANGED <<busy, card, session, worker, transport, incoming, open, agent, bounds,
                  history>> /\ stop' = TRUE
  BY DEF Stop
<1>2. MessageInv' /\ StartInv' /\ EndsOnce(Inbox)'
  BY <1>1, Untouched DEF agent, history
<1>3. TypeOK' /\ CardInv' /\ BindingInv'
  BY <1>1 DEF TypeOK, CardInv, BindingInv, session, worker, transport, agent, history
<1>4. WaitingInv'
  BY <1>1 DEF WaitingInv, OnItsWay, Heard, Sent, session, transport, agent, history
<1>5. LastInv'
  BY <1>1 DEF LastInv, Heard, Sent, session, worker, transport, agent, history
<1> QED BY <1>2, <1>3, <1>4, <1>5

\* A command of a built-in task begins or ends, or the request on the card is denied while
\* it runs: only the composer changes.
LEMMA TaskKeeps ==
  ASSUME IInv, BeginTask \/ EndTask \/ DenyWhileBusy
  PROVE  IInv'
<1> USE DEF IInv
<1>1. UNCHANGED <<stop, session, worker, transport, incoming, open, agent, bounds,
                  lastStart, cut>>
  BY DEF BeginTask, EndTask, DenyWhileBusy, history
<1>2. MessageInv' /\ StartInv' /\ EndsOnce(Inbox)'
  BY <1>1, Untouched DEF agent
<1>3. BindingInv' /\ LastInv'
  BY <1>1 DEF BindingInv, LastInv, Heard, Sent, session, worker, transport, agent
<1>4. CASE BeginTask \/ EndTask
  <2>1. UNCHANGED <<card, denied>> /\ busy' \in BOOLEAN /\ (pc # "none" => busy')
    BY <1>4 DEF BeginTask, EndTask, history, CardInv
  <2>2. TypeOK' /\ CardInv'
    BY <1>1, <2>1 DEF TypeOK, CardInv, session, worker, transport, agent
  <2>3. WaitingInv'
    BY <1>1, <2>1 DEF WaitingInv, OnItsWay, Heard, Sent, session, transport, agent
  <2> QED BY <1>2, <1>3, <2>2, <2>3
<1>5. CASE DenyWhileBusy
  <2>1. /\ card # None /\ card' = None /\ denied' = card /\ busy' = busy
        /\ pc = "none" /\ state = "WaitingApproval" /\ card = pending
    BY <1>5 DEF DenyWhileBusy, CardInv
  <2>2. TypeOK' /\ CardInv'
    BY <1>1, <2>1 DEF TypeOK, CardInv, None, session, worker, transport, agent
  <2>3. WaitingInv'
    BY <1>1, <2>1 DEF WaitingInv, None, agent
  <2> QED BY <1>2, <1>3, <2>2, <2>3
<1> QED BY <1>4, <1>5

\* The user decides the request on the card; the answer is sent, or fails to be.
LEMMA DecideKeeps ==
  ASSUME IInv, Decide
  PROVE  IInv'
<1> DEFINE m == [kind |-> "answer", id |-> pending, turn |-> None]
<1> USE DEF IInv
<1>1. /\ m \in HostMessage /\ m.kind = "answer" /\ m.id = pending
      /\ pc = "none" /\ card = pending /\ pending \in DOMAIN requests /\ denied = None
      /\ state = "WaitingApproval" /\ card' = None /\ pending' = None
      /\ UNCHANGED <<stop, binding, awaiting, nextId, events, incoming, open, alive, turns,
                     requests, lastStart, cut, denied>>
  BY DEF Decide, CardInv, TypeOK, HostMessage, None, transport, history
<1> HIDE DEF m
<1>2. CASE ~alive /\ UNCHANGED <<toAgent, state, busy, pc>>
  <2>1. MessageInv' /\ StartInv' /\ EndsOnce(Inbox)'
    BY <1>1, <1>2, Untouched DEF transport
  <2>2. TypeOK' /\ CardInv' /\ BindingInv' /\ WaitingInv'
    BY <1>1, <1>2 DEF TypeOK, CardInv, BindingInv, WaitingInv, None
  <2>3. LastInv'
    BY <1>1, <1>2 DEF LastInv, Heard, Sent
  <2> QED BY <2>1, <2>2, <2>3
<1>3. CASE alive /\ toAgent' = Append(toAgent, m) /\ state' = "Running" /\ busy' = TRUE
           /\ pc' = "pump"
  <2>1. toAgent' \in Seq(HostMessage) /\ Sent' = Sent \cup {m} /\ Heard' = Heard
    BY <1>1, <1>3, Appended DEF Sent, Heard, TypeOK
  <2>2. TypeOK' /\ CardInv' /\ BindingInv'
    BY <1>1, <1>3, <2>1 DEF TypeOK, CardInv, BindingInv, None
  <2>3. MessageInv'
    <3>1. \A n : n = m => SentOK(n)'
      BY <1>1 DEF SentOK
    <3>2. \A n \in Sent : SentOK(n)' <=> SentOK(n)
      BY <1>1 DEF SentOK
    <3>3. \A n \in Heard : HeardOK(n)' <=> HeardOK(n)
      BY <1>1 DEF HeardOK, IsResponse
    <3> QED BY <2>1, <3>1, <3>2, <3>3 DEF MessageInv
  <2>4. WaitingInv'
    <3>1. ASSUME NEW r, OnItsWay(r) PROVE OnItsWay(r)'
      BY <1>1, <2>1, <3>1 DEF OnItsWay
    <3> QED BY <1>1, <3>1 DEF WaitingInv
  <2>5. StartInv'
    <3>1. StartsOnce(toAgent')
      BY <1>1, <1>3, MoreStarts DEF StartInv, TypeOK
    <3> QED BY <1>1, <2>1, <3>1 DEF StartInv
  <2>6. EndsOnce(Inbox)'
    BY <1>1 DEF Inbox, EndsOnce
  <2>7. LastInv'
    BY <1>1, <1>3, <2>1 DEF LastInv
  <2> QED BY <2>2, <2>3, <2>4, <2>5, <2>6, <2>7
<1> QED BY <1>2, <1>3 DEF Decide, m

\* The composer asks for a new session, and all of the old one is dropped.
LEMMA NewSessionKeeps ==
  ASSUME IInv, NewSession
  PROVE  IInv'
<1> USE DEF IInv
<1>1. /\ pc = "none" /\ card = None /\ state' = "Ready" /\ binding' = None /\ pending' = None
      /\ nextId' = 1 /\ events' = <<>> /\ incoming' = <<>> /\ open' = TRUE
      /\ alive' = TRUE /\ toAgent' = <<>> /\ turns' = <<>> /\ requests' = <<>>
      /\ lastStart' = None /\ cut' = FALSE /\ denied' = None
      /\ UNCHANGED <<busy, stop, card, pc, awaiting>>
  BY DEF NewSession, CardInv, composer, worker
<1>2. Sent' = {} /\ Heard' = {} /\ Inbox' = <<>> /\ DOMAIN Inbox' = {}
  <2>1. Range(<<>>) = {} /\ <<>> \o <<>> = <<>>
    BY DEF Range
  <2> QED BY <1>1, <2>1 DEF Sent, Heard, Inbox
<1>3. DOMAIN turns' = {} /\ DOMAIN requests' = {} /\ DOMAIN toAgent' = {}
  BY <1>1
<1>4. TypeOK'
  <2>1. \A S : <<>> \in Seq(S)
    OBVIOUS
  <2> QED BY <1>1, <2>1 DEF TypeOK, None
<1>5. CardInv' /\ BindingInv'
  BY <1>1 DEF CardInv, BindingInv, None
<1>6. MessageInv' /\ WaitingInv' /\ StartInv' /\ EndsOnce(Inbox)' /\ LastInv'
  BY <1>2, <1>3, Zenon
     DEF MessageInv, WaitingInv, StartInv, StartsOnce, EndsOnce, LastInv
<1> QED BY <1>4, <1>5, <1>6


----------------------------------------------------------------------------
(* The worker *)

\* With fewer messages to be read, and no other, the same holds of them.
LEMMA FewerMessages ==
  ASSUME IInv, Heard' \subseteq Heard, EndsOnce(Inbox'),
         UNCHANGED <<toAgent, turns, requests, nextId, lastStart>>
  PROVE  MessageInv' /\ StartInv' /\ EndsOnce(Inbox)'
<1>1. Sent' = Sent
  BY DEF Sent
<1>2. MessageInv'
  <2>1. \A n \in Sent : SentOK(n)' <=> SentOK(n)
    BY DEF SentOK
  <2>2. \A n \in Heard : HeardOK(n)' <=> HeardOK(n)
    BY DEF HeardOK, IsResponse
  <2> QED BY <1>1, <2>1, <2>2 DEF MessageInv, IInv
<1>3. StartInv'
  BY <1>1 DEF StartInv, IInv
<1> QED BY <1>2, <1>3 DEF EndsOnce

\* A command shows no card, so a request that is under way is with the messages.
LEMMA CommandWaits ==
  ASSUME IInv, pc # "none", UNCHANGED <<alive, open, turns, requests, denied>>, Sent \subseteq Sent',
         \A n \in Heard : n.kind = "request" => n \in Heard'
  PROVE  WaitingInv'
<1>1. ASSUME NEW r \in Nat \ {0}, OnItsWay(r) PROVE OnItsWay(r)'
  BY <1>1 DEF OnItsWay, IInv, CardInv, None
<1>2. \A r \in DOMAIN requests : r \in Nat \ {0}
  BY Types DEF IInv
<1> QED BY <1>1, <1>2 DEF WaitingInv, IInv

\* The next message that was read is taken and not kept.
LEMMA ReadOne ==
  ASSUME IInv, incoming # <<>>, incoming' = Tail(incoming), events' = events
  PROVE  /\ incoming' \in Seq(AgentMessage) /\ Head(incoming) \in Heard
         /\ Heard' \subseteq Heard /\ Heard \subseteq Heard' \cup {Head(incoming)}
         /\ EndsOnce(Inbox')
         /\ \A m : m = Head(incoming) /\ m.kind = "completed" => NoEndOf(m.turn)'
<1>1. /\ incoming' \in Seq(AgentMessage)
      /\ Range(incoming) = {Head(incoming)} \cup Range(incoming')
  BY Taken DEF IInv, TypeOK
<1>2. events \in Seq(AgentMessage) /\ incoming \in Seq(AgentMessage)
  BY DEF IInv, TypeOK
<1>3. /\ Inbox' \in Seq(AgentMessage) /\ Len(events) + 1 \in DOMAIN Inbox
      /\ Inbox[Len(events) + 1] = Head(incoming)
      /\ IsWithout(Inbox', Inbox, Len(events) + 1)
  <2>1. incoming # <<>> /\ Inbox' = events \o Tail(incoming) /\ Inbox = events \o incoming
    BY DEF Inbox
  <2>2. /\ events \o Tail(incoming) \in Seq(AgentMessage)
        /\ Len(events) + 1 \in DOMAIN (events \o incoming)
        /\ (events \o incoming)[Len(events) + 1] = Head(incoming)
        /\ IsWithout(events \o Tail(incoming), events \o incoming, Len(events) + 1)
    BY <1>2, <2>1, NextTaken
  <2> QED BY <2>1, <2>2, Zenon
<1>4. Inbox \in Seq(AgentMessage) /\ Range(Inbox') = Heard'
  <2>1. PICK e, i : e = events' /\ i = incoming'
    OBVIOUS
  <2>2. e \in Seq(AgentMessage) /\ i \in Seq(AgentMessage)
    BY <1>1, <1>2, <2>1
  <2>3. Range(e \o i) = Range(e) \cup Range(i)
    BY <2>2, InboxOf
  <2>4. Inbox' = e \o i
    BY <2>1 DEF Inbox
  <2>5. Heard' = Range(e) \cup Range(i)
    BY <2>1 DEF Heard
  <2>6. Inbox \in Seq(AgentMessage)
    BY <1>2, InboxOf DEF Inbox
  <2> QED BY <2>3, <2>4, <2>5, <2>6
<1> DEFINE k == Len(events) + 1
<1>5. /\ EndsOnce(Inbox')
      /\ \A m \in Range(Inbox') :
           ~(m.kind = "completed" /\ Inbox[k].kind = "completed" /\ m.turn = Inbox[k].turn)
  <2> HIDE DEF k
  <2>1. k \in DOMAIN Inbox /\ IsWithout(Inbox', Inbox, k)
    BY <1>3 DEF k
  <2> QED BY <1>3, <1>4, <2>1, FewerEnds DEF IInv
<1> HIDE DEF IsWithout
<1>6. \A m : m = Head(incoming) /\ m.kind = "completed" => NoEndOf(m.turn)'
  BY <1>2, <1>3, <1>4, <1>5 DEF NoEndOf
<1> QED BY <1>1, <1>5, <1>6 DEF Heard

\* The same of the events that were kept.
LEMMA ReadKept ==
  ASSUME IInv, events # <<>>, events' = Tail(events), incoming' = incoming
  PROVE  /\ events' \in Seq(AgentMessage) /\ Head(events) \in Heard
         /\ Heard' \subseteq Heard /\ Heard \subseteq Heard' \cup {Head(events)}
         /\ EndsOnce(Inbox')
         /\ \A m : m = Head(events) /\ m.kind = "completed" => NoEndOf(m.turn)'
<1>1. events' \in Seq(AgentMessage) /\ Range(events) = {Head(events)} \cup Range(events')
  BY Taken DEF IInv, TypeOK
<1>2. events \in Seq(AgentMessage) /\ incoming \in Seq(AgentMessage)
  BY DEF IInv, TypeOK
<1>3. /\ Inbox' \in Seq(AgentMessage) /\ 1 \in DOMAIN Inbox /\ Inbox[1] = Head(events)
      /\ IsWithout(Inbox', Inbox, 1)
  BY <1>2, KeptTaken DEF Inbox
<1>4. Inbox \in Seq(AgentMessage) /\ Range(Inbox') = Heard'
  <2>1. PICK e, i : e = events' /\ i = incoming'
    OBVIOUS
  <2>2. e \in Seq(AgentMessage) /\ i \in Seq(AgentMessage)
    BY <1>1, <1>2, <2>1
  <2>3. Range(e \o i) = Range(e) \cup Range(i)
    BY <2>2, InboxOf
  <2>4. Inbox' = e \o i
    BY <2>1 DEF Inbox
  <2>5. Heard' = Range(e) \cup Range(i)
    BY <2>1 DEF Heard
  <2>6. Inbox \in Seq(AgentMessage)
    BY <1>2, InboxOf DEF Inbox
  <2> QED BY <2>3, <2>4, <2>5, <2>6
<1>5. /\ EndsOnce(Inbox')
      /\ \A m \in Range(Inbox') :
           ~(m.kind = "completed" /\ Inbox[1].kind = "completed" /\ m.turn = Inbox[1].turn)
  BY <1>3, <1>4, FewerEnds DEF IInv
<1>6. \A m : m = Head(events) /\ m.kind = "completed" => NoEndOf(m.turn)'
  BY <1>3, <1>4, <1>5 DEF NoEndOf
<1> QED BY <1>1, <1>5, <1>6 DEF Heard


\* One's own answer to the request to start a turn.
LEMMA StartIsAnswered ==
  ASSUME IInv, NEW m \in Heard, IsResponse(m), IsOwn(m), StartAnswered(m),
         UNCHANGED <<toAgent, turns, requests, nextId, lastStart, alive, denied>>,
         Heard' \subseteq Heard
  PROVE  CardInv' /\ BindingInv' /\ LastInv' /\ binding' \in Nat
<1> USE DEF IInv
<1>1. /\ pc = "start" /\ busy /\ m.id = lastStart /\ cut' = cut /\ Sent' = Sent
      /\ card = None /\ pending = None /\ state \in {"Ready", "Completed"}
  BY DEF StartAnswered, IsOwn, CardInv, BindingInv, Sent
<1>2. CASE m.kind = "response"
  <2>1. binding' = m.turn /\ pending' = None /\ state' = "Running" /\ pc' = "pump"
        /\ UNCHANGED <<busy, stop, card>>
    BY <1>2 DEF StartAnswered, composer
  <2>2. m.turn \in DOMAIN turns /\ turns[m.turn].start = lastStart /\ m.turn \in Nat
    BY <1>1, <1>2, Types DEF MessageInv, HeardOK
  <2>3. CardInv' /\ BindingInv' /\ binding' \in Nat
    BY <1>1, <2>1, <2>2 DEF CardInv, BindingInv, None
  <2>4. ASSUME ~cut PROVE \A n \in Sent : n.kind # "start"
    BY <2>2, <2>4 DEF LastInv, StartInv
  <2>5. LastInv'
    BY <1>1, <2>1, <2>4 DEF LastInv
  <2> QED BY <2>3, <2>5
<1>3. CASE m.kind # "response"
  <2>1. m.kind = "failure"
    BY <1>3 DEF IsResponse
  <2>2. ~busy' /\ pc' = "none" /\ UNCHANGED <<card, state, binding, pending>>
    BY <1>3 DEF StartAnswered, Return, session
  <2>3. /\ \A t \in DOMAIN turns : turns[t].start # lastStart
        /\ \A n \in Sent : n.kind = "start" => n.id # lastStart
    BY <1>1, <2>1 DEF StartInv
  <2>4. CardInv' /\ BindingInv' /\ binding' \in Nat
    BY <1>1, <2>2 DEF CardInv, BindingInv, TypeOK, None
  <2>5. ASSUME ~cut
        PROVE  /\ \A t \in DOMAIN turns : turns[t].at = "over"
               /\ \A n \in Sent : n.kind # "start"
               /\ \A n \in Heard : n.kind # "completed"
    <3>1. /\ \A t \in DOMAIN turns : turns[t].at = "over"
          /\ \A n \in Sent : n.kind # "start"
      BY <2>3, <2>5 DEF LastInv
    <3>2. ASSUME NEW n \in Heard, n.kind = "completed" PROVE FALSE
      <4>1. n.turn \in DOMAIN turns
        BY <3>2 DEF MessageInv, HeardOK
      <4> QED BY <2>3, <2>5, <3>2, <4>1 DEF LastInv
    <3> QED BY <3>1, <3>2
  <2>6. LastInv'
    BY <1>1, <2>2, <2>5 DEF LastInv
  <2> QED BY <2>4, <2>6
<1> QED BY <1>2, <1>3

\* A command takes one message: its own answer, or an event it keeps for later.
LEMMA ReceiveKeeps ==
  ASSUME IInv, Receive
  PROVE  IInv'
<1> DEFINE m == Head(incoming)
<1> USE DEF IInv
<1>1. /\ Asking /\ incoming # <<>> /\ incoming' = Tail(incoming) /\ busy
      /\ pc # "none"
      /\ UNCHANGED <<nextId, open, alive, toAgent, turns, requests, lastStart,
                     denied>>
  BY DEF Receive, agent, Asking, CardInv, TypeOK
<1>2. Sent' = Sent
  BY <1>1 DEF Sent
<1>3. CASE IsResponse(m) /\ IsOwn(m) /\ (StartAnswered(m) \/ CancelAnswered(m))
           /\ UNCHANGED events
  <2>1. /\ incoming' \in Seq(AgentMessage) /\ m \in Heard /\ Heard' \subseteq Heard
        /\ Heard \subseteq Heard' \cup {m} /\ EndsOnce(Inbox')
    BY <1>1, <1>3, ReadOne
  <2> HIDE DEF m
  <2>2. MessageInv' /\ StartInv' /\ EndsOnce(Inbox)'
    BY <1>1, <2>1, FewerMessages
  <2>3. WaitingInv'
    BY <1>1, <1>2, <1>3, <2>1, CommandWaits DEF IsResponse
  <2>4. CASE StartAnswered(m)
    <3>1. CardInv' /\ BindingInv' /\ LastInv' /\ binding' \in Nat
      BY <1>1, <1>3, <2>1, <2>4, StartIsAnswered
    <3>2. /\ state' \in {state, "Running"} /\ pc' \in {"none", "pump"} /\ awaiting' = None
          /\ pending' \in {None, pending} /\ card' = card /\ cut' = cut
          /\ stop' \in BOOLEAN /\ busy' \in BOOLEAN
      BY <2>4 DEF StartAnswered, Return, composer, session, TypeOK
    <3>3. TypeOK'
      BY <1>1, <1>3, <2>1, <3>1, <3>2 DEF TypeOK, None
    <3> QED BY <2>2, <2>3, <3>1, <3>3
  <2>5. CASE CancelAnswered(m)
    <3>1. /\ ~busy' /\ ~stop' /\ card' = None /\ pc' = "none" /\ awaiting' = None
          /\ pc = "cancel"
          /\ state' \in {"Ready", "Unknown"} /\ cut' /\ cut' \in BOOLEAN
          /\ binding' = binding
          /\ pending' \in {None, pending} /\ stop' \in BOOLEAN /\ busy' \in BOOLEAN
      BY <2>5 DEF CancelAnswered, Ended, Return
    <3>2. pending = None /\ denied = None
      BY <1>1, <3>1 DEF CardInv
    <3>3. TypeOK'
      BY <1>1, <1>3, <2>1, <3>1, <3>2 DEF TypeOK, None
    <3>4. CardInv' /\ BindingInv' /\ LastInv'
      BY <1>1, <3>1, <3>2 DEF CardInv, BindingInv, LastInv, None
    <3> QED BY <2>2, <2>3, <3>3, <3>4
  <2> QED BY <1>3, <2>4, <2>5
<1>4. CASE IsResponse(m) /\ UNCHANGED <<composer, session, worker, events, cut>>
  <2>1. /\ incoming' \in Seq(AgentMessage) /\ m \in Heard /\ Heard' \subseteq Heard
        /\ Heard \subseteq Heard' \cup {m} /\ EndsOnce(Inbox')
    BY <1>1, <1>4, ReadOne
  <2> HIDE DEF m
  <2>2. MessageInv' /\ StartInv' /\ EndsOnce(Inbox)'
    BY <1>1, <2>1, FewerMessages
  <2>3. WaitingInv'
    BY <1>1, <1>2, <1>4, <2>1, CommandWaits DEF IsResponse
  <2>4. TypeOK' /\ CardInv' /\ BindingInv'
    BY <1>1, <1>4, <2>1 DEF TypeOK, CardInv, BindingInv, composer, session, worker
  <2>5. LastInv'
    BY <1>1, <1>2, <1>4, <2>1 DEF LastInv, session, worker
  <2> QED BY <2>2, <2>3, <2>4, <2>5
<1>5. CASE events' = Append(events, m) /\ UNCHANGED <<composer, session, worker, cut>>
  <2>1. /\ m \in AgentMessage /\ incoming' \in Seq(AgentMessage)
        /\ events' \in Seq(AgentMessage) /\ Heard' = Heard /\ Inbox' = Inbox
    <3>1. /\ m \in AgentMessage /\ incoming' \in Seq(AgentMessage)
          /\ Range(incoming) = {m} \cup Range(incoming')
      BY <1>1, Taken DEF TypeOK
    <3>2. events' \in Seq(AgentMessage) /\ Range(events') = Range(events) \cup {m}
      BY <1>5, <3>1, Appended DEF TypeOK
    <3>3. Inbox' = Inbox
      BY <1>1, <1>5, KeptInOrder DEF Inbox, TypeOK
    <3> QED BY <3>1, <3>2, <3>3 DEF Heard
  <2> HIDE DEF m
  <2>2. MessageInv' /\ StartInv' /\ EndsOnce(Inbox)'
    BY <1>1, <2>1, FewerMessages
  <2>3. WaitingInv'
    BY <1>1, <1>2, <2>1, CommandWaits
  <2>4. TypeOK' /\ CardInv' /\ BindingInv'
    BY <1>1, <1>5, <2>1 DEF TypeOK, CardInv, BindingInv, composer, session, worker
  <2>5. LastInv'
    BY <1>1, <1>2, <1>5, <2>1 DEF LastInv, session, worker
  <2> QED BY <2>2, <2>3, <2>4, <2>5
<1> QED BY <1>3, <1>4, <1>5 DEF Receive

\* A command finds the agent gone and reports the failure.
LEMMA RequestFailsKeeps ==
  ASSUME IInv, RequestFails
  PROVE  IInv'
<1> USE DEF IInv
<1>1. /\ pc # "none" /\ denied' = denied /\ pending = None /\ card = None /\ cut' = TRUE /\ binding' = binding
      /\ pending' = pending /\ card' = None
      /\ ~busy' /\ ~stop' /\ busy' \in BOOLEAN /\ stop' \in BOOLEAN
      /\ pc' = "none" /\ awaiting' = None /\ state' \in {"Ready", "Completed", "Unknown"}
      /\ UNCHANGED <<nextId, events, incoming, open, alive, toAgent, turns, requests,
                     lastStart>>
  BY DEF RequestFails, Asking, Return, Ended, CardInv, session, transport, agent, None
<1>2. MessageInv' /\ StartInv' /\ EndsOnce(Inbox)'
  BY <1>1, Untouched DEF transport
<1>3. TypeOK' /\ CardInv' /\ BindingInv' /\ LastInv'
  BY <1>1 DEF TypeOK, CardInv, BindingInv, LastInv, None
<1>4. WaitingInv'
  BY <1>1, CommandWaits DEF Sent, Heard
<1> QED BY <1>2, <1>3, <1>4

\* The pump has nothing more to take.
LEMMA PumpEndsKeeps ==
  ASSUME IInv, PumpEnds
  PROVE  IInv'
<1> USE DEF IInv
<1>1. /\ busy /\ pending = None /\ card' = None
      /\ ~busy' /\ ~stop' /\ busy' \in BOOLEAN /\ stop' \in BOOLEAN
      /\ pc' = "none" /\ awaiting' = None /\ state' = "Unknown" /\ pc = "pump"
      /\ UNCHANGED <<nextId, events, incoming, open, alive, toAgent, turns, requests,
                     lastStart, cut, denied, binding, pending>>
  BY DEF PumpEnds, Return, Ended, CardInv, transport, agent, history
<1>2. MessageInv' /\ StartInv' /\ EndsOnce(Inbox)'
  BY <1>1, Untouched DEF transport
<1>3. TypeOK' /\ CardInv' /\ BindingInv'
  BY <1>1 DEF TypeOK, CardInv, BindingInv, None
<1>4. WaitingInv'
  BY <1>1, CommandWaits DEF Sent, Heard
<1>5. LastInv'
  BY <1>1 DEF LastInv, Sent, Heard
<1> QED BY <1>2, <1>3, <1>4, <1>5

\* The worker notices that it was asked to stop, and asks the agent to interrupt.
LEMMA NoticeStopKeeps ==
  ASSUME IInv, NoticeStop
  PROVE  IInv'
<1> DEFINE m == [kind |-> "interrupt", id |-> nextId, turn |-> binding]
<1> USE DEF IInv
<1>1. /\ pc = "pump" /\ busy /\ state = "Running" /\ card = None /\ pending = None
      /\ binding \in DOMAIN turns /\ nextId \in Nat /\ lastStart < nextId
      /\ lastStart \in Nat /\ m \in HostMessage
      /\ m.kind = "interrupt" /\ m.id = nextId /\ m.turn = binding
      /\ UNCHANGED <<incoming, open, lastStart, cut, denied>>
  BY DEF NoticeStop, CardInv, BindingInv, TypeOK, HostMessage, history
<1> HIDE DEF m
<1>2. CASE ~alive /\ Ended("Unknown", None)
           /\ UNCHANGED <<binding, pending, transport, agent>>
  <2>1. /\ card' = None /\ ~busy' /\ ~stop' /\ busy' \in BOOLEAN /\ stop' \in BOOLEAN
        /\ pc' = "none" /\ awaiting' = None /\ state' = "Unknown"
        /\ UNCHANGED <<nextId, events, alive, toAgent, turns, requests, binding, pending>>
    BY <1>2 DEF Ended, Return, transport, agent
  <2>2. MessageInv' /\ StartInv' /\ EndsOnce(Inbox)'
    BY <1>1, <2>1, Untouched DEF transport
  <2>3. TypeOK' /\ CardInv' /\ BindingInv'
    BY <1>1, <2>1 DEF TypeOK, CardInv, BindingInv, None
  <2>4. WaitingInv'
    BY <1>1, <2>1, CommandWaits DEF Sent, Heard
  <2>5. LastInv'
    BY <1>1, <2>1 DEF LastInv, Sent, Heard
  <2> QED BY <2>2, <2>3, <2>4, <2>5
<1>3. CASE alive /\ pc' = "cancel" /\ awaiting' = nextId /\ Send(m)
           /\ UNCHANGED <<composer, session>>
  <2>1. /\ toAgent' = Append(toAgent, m) /\ nextId' = nextId + 1
        /\ UNCHANGED <<alive, turns, requests, events, busy, stop, card, state, binding,
                       pending>>
    BY <1>3 DEF Send, composer, session
  <2>2. toAgent' \in Seq(HostMessage) /\ Sent' = Sent \cup {m} /\ Heard' = Heard
    BY <1>1, <2>1, Appended DEF Sent, Heard, TypeOK
  <2>3. TypeOK' /\ CardInv' /\ BindingInv'
    BY <1>1, <1>3, <2>1, <2>2 DEF TypeOK, CardInv, BindingInv
  <2>4. MessageInv'
    <3>1. \A n : n = m => SentOK(n)'
      BY <1>1, <2>1 DEF SentOK
    <3>2. \A n \in Sent : SentOK(n) => SentOK(n)'
      BY <1>1, <2>1, Types DEF SentOK
    <3>3. \A n \in Heard : HeardOK(n) => HeardOK(n)'
      BY <1>1, <2>1, Types DEF HeardOK, IsResponse
    <3> QED BY <2>2, <3>1, <3>2, <3>3 DEF MessageInv
  <2>5. StartInv'
    <3>1. StartsOnce(toAgent')
      BY <1>1, <2>1, MoreStarts DEF StartInv, TypeOK
    <3>2. \A t \in DOMAIN turns : turns[t].start < nextId + 1
      BY <1>1, Types DEF StartInv
    <3> QED BY <1>1, <2>1, <2>2, <3>1, <3>2 DEF StartInv
  <2>6. WaitingInv'
    BY <1>1, <2>1, <2>2, CommandWaits
  <2>7. EndsOnce(Inbox)' /\ LastInv'
    BY <1>1, <1>3, <2>1, <2>2 DEF EndsOnce, Inbox, LastInv
  <2> QED BY <2>3, <2>4, <2>5, <2>6, <2>7
<1> QED BY <1>2, <1>3 DEF NoticeStop, m


\* The pump applies one event: an end, a request for approval, or an error.
LEMMA PumpKeeps ==
  ASSUME IInv, Pump
  PROVE  IInv'
<1> USE DEF IInv
<1> DEFINE m == NextEvent
<1>1. /\ pc = "pump" /\ busy /\ state = "Running" /\ card = None /\ pending = None
      /\ UNCHANGED <<binding, nextId, open, alive, toAgent, turns, requests, lastStart, cut, denied>>
  BY DEF Pump, CardInv, agent, history
<1>2. /\ incoming' \in Seq(AgentMessage) /\ events' \in Seq(AgentMessage) /\ m \in Heard
      /\ Heard' \subseteq Heard /\ Heard \subseteq Heard' \cup {m} /\ EndsOnce(Inbox')
      /\ \A n : n = m /\ n.kind = "completed" => NoEndOf(n.turn)'
  <2>1. CASE events # <<>>
    <3>1. events' = Tail(events) /\ incoming' = incoming
      BY <2>1 DEF Pump
    <3> QED BY <2>1, <3>1, ReadKept DEF NextEvent, TypeOK
  <2>2. CASE events = <<>>
    <3>1. incoming # <<>> /\ incoming' = Tail(incoming) /\ events' = events
      BY <2>2 DEF Pump
    <3> QED BY <2>2, <3>1, ReadOne DEF NextEvent, TypeOK
  <2> QED BY <2>1, <2>2
<1>3. \/ m.kind = "request" /\ pending' = m.id /\ Ended("WaitingApproval", m.id)
      \/ m.kind = "completed" /\ pending' = pending /\ Ended("Completed", None)
      \/ m.kind = "error" /\ pending' = pending /\ Ended("Unknown", None)
      \/ IsResponse(m) /\ UNCHANGED <<pending, state, composer, worker>>
  BY DEF Pump
<1> HIDE DEF m
<1>4. MessageInv' /\ StartInv' /\ EndsOnce(Inbox)'
  BY <1>1, <1>2, FewerMessages
<1>5. HeardOK(m) /\ m.id \in Nat /\ m.turn \in Nat /\ Sent' = Sent
  BY <1>1, <1>2, Types DEF MessageInv, Sent
<1>6. CASE m.kind = "request" /\ pending' = m.id /\ Ended("WaitingApproval", m.id)
  <2>1. /\ card' = m.id /\ state' = "WaitingApproval" /\ m.id \in DOMAIN requests
        /\ ~busy' /\ ~stop' /\ busy' \in BOOLEAN /\ stop' \in BOOLEAN
        /\ pc' = "none" /\ awaiting' = None /\ m.id # None
    <3>1. m.id \in DOMAIN requests
      BY <1>5, <1>6 DEF HeardOK
    <3>2. m.id # None
      BY <3>1, Types DEF None
    <3> QED BY <1>6, <3>1, <3>2 DEF Ended, Return
  <2>2. TypeOK' /\ CardInv' /\ BindingInv'
    BY <1>1, <1>2, <1>5, <1>6, <2>1 DEF TypeOK, CardInv, BindingInv, None
  <2>3. WaitingInv'
    <3>1. ASSUME NEW r \in DOMAIN requests, OnItsWay(r) PROVE OnItsWay(r)'
      <4>1. r # None
        BY Types DEF None
      <4> QED BY <1>1, <1>2, <1>5, <1>6, <2>1, <3>1, <4>1 DEF OnItsWay
    <3> QED BY <1>1, <3>1 DEF WaitingInv
  <2>4. LastInv'
    BY <1>1, <1>2, <1>5, <2>1 DEF LastInv
  <2> QED BY <1>4, <2>2, <2>3, <2>4
<1>7. CASE m.kind = "completed" /\ pending' = pending /\ Ended("Completed", None)
  <2>1. /\ card' = None /\ state' = "Completed"
        /\ ~busy' /\ ~stop' /\ busy' \in BOOLEAN /\ stop' \in BOOLEAN
        /\ pc' = "none" /\ awaiting' = None
    BY <1>7 DEF Ended, Return
  <2>2. TypeOK' /\ CardInv' /\ BindingInv'
    BY <1>1, <1>2, <1>7, <2>1 DEF TypeOK, CardInv, BindingInv, None
  <2>3. WaitingInv'
    BY <1>1, <1>2, <1>5, <1>7, CommandWaits
  <2>4. LastInv'
    <3>1. ASSUME ~cut
          PROVE  /\ \A t \in DOMAIN turns : turns[t].at = "over"
                 /\ \A n \in Sent : n.kind # "start"
                 /\ \A n \in Heard' : n.kind # "completed"
      <4>1. /\ m.turn \in DOMAIN turns /\ turns[m.turn].at = "over"
            /\ turns[m.turn].start = lastStart
        BY <1>2, <1>5, <1>7, <3>1 DEF HeardOK, LastInv
      <4>2. \A t \in DOMAIN turns : turns[t].at = "over"
        BY <3>1, <4>1 DEF LastInv, StartInv
      <4>3. \A n \in Sent : n.kind # "start"
        BY <1>1, <3>1 DEF LastInv
      <4>4. ASSUME NEW n \in Heard', n.kind = "completed" PROVE FALSE
        <5>1. n \in Heard /\ n.turn \in DOMAIN turns /\ turns[n.turn].start = lastStart
          BY <1>2, <3>1, <4>4 DEF LastInv, MessageInv, HeardOK
        <5>2. n.turn = m.turn
          BY <4>1, <5>1 DEF StartInv
        <5>3. \A o : o = m => NoEndOf(o.turn)'
          BY <1>2, <1>7
        <5>4. PICK o : o = m
          OBVIOUS
        <5> QED BY <4>4, <5>2, <5>3, <5>4 DEF NoEndOf
      <4> QED BY <4>2, <4>3, <4>4
    <3> QED BY <1>1, <1>5, <2>1, <3>1 DEF LastInv
  <2> QED BY <1>4, <2>2, <2>3, <2>4
<1>8. CASE m.kind = "error" /\ pending' = pending /\ Ended("Unknown", None)
  <2>1. /\ card' = None /\ state' = "Unknown"
        /\ ~busy' /\ ~stop' /\ busy' \in BOOLEAN /\ stop' \in BOOLEAN
        /\ pc' = "none" /\ awaiting' = None
    BY <1>8 DEF Ended, Return
  <2>2. TypeOK' /\ CardInv' /\ BindingInv'
    BY <1>1, <1>2, <1>8, <2>1 DEF TypeOK, CardInv, BindingInv, None
  <2>3. WaitingInv'
    BY <1>1, <1>2, <1>5, <1>8, CommandWaits
  <2>4. LastInv'
    BY <1>1, <1>2, <1>5, <2>1 DEF LastInv
  <2> QED BY <1>4, <2>2, <2>3, <2>4
<1>9. CASE IsResponse(m) /\ UNCHANGED <<pending, state, composer, worker>>
  <2>1. UNCHANGED <<pending, state, busy, stop, card, pc, awaiting>>
    BY <1>9 DEF composer, worker
  <2>2. TypeOK' /\ CardInv' /\ BindingInv'
    BY <1>1, <1>2, <2>1 DEF TypeOK, CardInv, BindingInv
  <2>3. WaitingInv'
    BY <1>1, <1>2, <1>5, <1>9, CommandWaits DEF IsResponse
  <2>4. LastInv'
    BY <1>1, <1>2, <1>5, <2>1 DEF LastInv
  <2> QED BY <1>4, <2>2, <2>3, <2>4
<1> QED BY <1>3, <1>6, <1>7, <1>8, <1>9


----------------------------------------------------------------------------
(* The agent *)

\* What the agent began and asked stays, and what is over stays over.
Grows ==
  /\ DOMAIN turns \subseteq DOMAIN turns' /\ DOMAIN requests \subseteq DOMAIN requests'
  /\ \A t \in DOMAIN turns : /\ turns'[t].start = turns[t].start
                             /\ turns[t].at = "over" => turns'[t].at = "over"

\* A move of the agent touches neither the composer nor the session.
LEMMA AgentApart ==
  ASSUME IInv, AgentMoves, Grows, alive' => alive
  PROVE  /\ CardInv' /\ BindingInv'
         /\ \A n \in Sent : SentOK(n)'
         /\ \A n \in Heard : HeardOK(n)'
<1>1. UNCHANGED <<busy, stop, card, state, binding, pending, pc, awaiting, nextId, events,
                  lastStart, cut, denied>>
  BY DEF AgentMoves, composer, session, worker, transport, history
<1>2. CardInv' /\ BindingInv'
  BY <1>1 DEF IInv, CardInv, BindingInv, Grows
<1>3. \A n \in Sent : SentOK(n)'
  BY <1>1 DEF IInv, MessageInv, SentOK, Grows
<1>4. \A n \in Heard : HeardOK(n)'
  BY <1>1 DEF IInv, MessageInv, HeardOK, IsResponse, Grows
<1> QED BY <1>2, <1>3, <1>4

\* The agent takes one message of the host.
LEMMA TakesOne ==
  ASSUME IInv, NEW k \in DOMAIN toAgent, toAgent' = RemoveAt(toAgent, k),
         NEW m, m = toAgent[k]
  PROVE  /\ toAgent' \in Seq(HostMessage) /\ StartsOnce(toAgent') /\ m \in Sent
         /\ Sent' \subseteq Sent /\ Sent \subseteq Sent' \cup {m}
         /\ m.kind = "start" => \A n \in Sent' : n.kind = "start" => n.id # m.id
<1>1. toAgent \in Seq(HostMessage)
  BY DEF IInv, TypeOK
<1>2. /\ toAgent' \in Seq(HostMessage) /\ Sent' \subseteq Sent
      /\ \A j \in DOMAIN toAgent \ {k} : toAgent[j] \in Sent'
  BY <1>1, TakenOut DEF Sent
<1>3. StartsOnce(toAgent') /\ \A n \in Sent' : ~(n.kind = "start" /\ toAgent[k].kind = "start"
                                                /\ n.id = toAgent[k].id)
  BY <1>1, FewerStarts DEF Sent, IInv, StartInv
<1>4. m \in Sent /\ Sent \subseteq Sent' \cup {m}
  BY <1>2 DEF Sent, Range
<1> QED BY <1>2, <1>3, <1>4

\* The end of a turn that goes on is not among what is read.
LEMMA NotEnded ==
  ASSUME IInv, NEW t \in DOMAIN turns, turns[t].at # "over"
  PROVE  NoEndOf(t)
  BY DEF IInv, MessageInv, HeardOK, NoEndOf

\* It refuses to begin a turn.
LEMMA RefuseKeeps ==
  ASSUME IInv, AgentMoves, UNCHANGED <<open, alive, requests, errors, turns>>,
         NEW k \in DOMAIN toAgent, toAgent' = RemoveAt(toAgent, k),
         toAgent[k].kind = "start", Emit(<<Message("failure", toAgent[k].id, None)>>)
  PROVE  IInv'
<1> USE DEF IInv
<1>1. PICK m : m = toAgent[k]
  OBVIOUS
<1>2. PICK f : f = Message("failure", m.id, None)
  OBVIOUS
<1>3. /\ toAgent' \in Seq(HostMessage) /\ StartsOnce(toAgent') /\ m \in Sent
      /\ Sent' \subseteq Sent /\ Sent \subseteq Sent' \cup {m} /\ m.kind = "start"
      /\ \A n \in Sent' : n.kind = "start" => n.id # m.id
  BY <1>1, TakesOne
<1>4. /\ m.id \in Nat /\ m.id < nextId /\ f \in AgentMessage
      /\ f.kind = "failure" /\ f.id = m.id /\ f.turn = None
  <2>1. m.id \in Nat /\ m.id < nextId
    BY <1>3, Types DEF MessageInv, SentOK
  <2> QED BY <1>2, <2>1 DEF Message, AgentMessage, None
<1>5. UNCHANGED <<busy, stop, card, state, binding, pending, pc, awaiting, nextId, events,
                  lastStart, cut, denied>>
  BY DEF AgentMoves, composer, session, worker, transport, history
<1>6. /\ incoming' \in Seq(AgentMessage) /\ EndsOnce(Inbox')
      /\ Heard \subseteq Heard' /\ Heard' \subseteq Heard \cup {f}
  BY <1>1, <1>2, <1>4, <1>5, EmitOne
<1>7. TypeOK'
  BY <1>3, <1>5, <1>6 DEF TypeOK
<1>8. /\ CardInv' /\ BindingInv'
      /\ \A n \in Sent : SentOK(n)'
      /\ \A n \in Heard : HeardOK(n)'
  BY AgentApart DEF Grows
<1>9. MessageInv'
  <2>1. HeardOK(f)'
    BY <1>4, <1>5 DEF HeardOK, IsResponse
  <2> QED BY <1>3, <1>6, <1>8, <2>1 DEF MessageInv
<1>10. WaitingInv'
  <2>1. ASSUME NEW r, OnItsWay(r) PROVE OnItsWay(r)'
    BY <1>3, <1>5, <1>6, <2>1 DEF OnItsWay
  <2> QED BY <1>5, <2>1 DEF WaitingInv
<1>11. StartInv'
  <2>1. f.id = lastStart =>
          /\ \A t \in DOMAIN turns : turns[t].start # lastStart
          /\ \A n \in Sent' : n.kind = "start" => n.id # lastStart
    BY <1>3, <1>4 DEF StartInv
  <2> QED BY <1>3, <1>5, <1>6, <2>1 DEF StartInv
<1>12. LastInv'
  BY <1>3, <1>4, <1>5, <1>6 DEF LastInv
<1> QED BY <1>6, <1>7, <1>8, <1>9, <1>10, <1>11, <1>12

\* It begins a turn.
LEMMA BeginKeeps ==
  ASSUME IInv, AgentMoves, UNCHANGED <<open, alive, requests, errors>>,
         NEW k \in DOMAIN toAgent, toAgent' = RemoveAt(toAgent, k),
         toAgent[k].kind = "start",
         turns' = Append(turns, [start |-> toAgent[k].id, at |-> "working", request |-> None]),
         Emit(<<Message("response", toAgent[k].id, Len(turns) + 1)>>)
  PROVE  IInv'
<1> USE DEF IInv
<1>1. PICK m : m = toAgent[k]
  OBVIOUS
<1>2. PICK u : u = Len(turns) + 1
  OBVIOUS
<1>3. PICK f : f = Message("response", m.id, u)
  OBVIOUS
<1>4. PICK b : b = [start |-> m.id, at |-> "working", request |-> None]
  OBVIOUS
<1>5. /\ toAgent' \in Seq(HostMessage) /\ StartsOnce(toAgent') /\ m \in Sent
      /\ Sent' \subseteq Sent /\ Sent \subseteq Sent' \cup {m} /\ m.kind = "start"
      /\ \A n \in Sent' : n.kind = "start" => n.id # m.id
  BY <1>1, TakesOne
<1>6. m.id \in Nat /\ m.id < nextId
  BY <1>5, Types DEF MessageInv, SentOK
<1>7. /\ f \in AgentMessage /\ f.kind = "response" /\ f.id = m.id /\ f.turn = u
      /\ b \in Turn /\ b.start = m.id /\ b.at = "working"
      /\ u \in Nat /\ u # None /\ u \notin DOMAIN turns
  <2>1. u \in Nat /\ u # None /\ u \notin DOMAIN turns
    BY <1>2, Types DEF None
  <2> QED BY <1>3, <1>4, <1>6, <2>1 DEF Message, AgentMessage, Turn, None
<1>8. /\ turns' \in Seq(Turn) /\ DOMAIN turns' = DOMAIN turns \cup {u} /\ turns'[u] = b
      /\ \A t \in DOMAIN turns : turns'[t] = turns[t]
  <2>1. turns' = Append(turns, b)
    BY <1>1, <1>4
  <2> QED BY <1>2, <1>7, <2>1, Appended DEF TypeOK
<1>9. UNCHANGED <<busy, stop, card, state, binding, pending, pc, awaiting, nextId, events,
                  lastStart, cut, denied>>
  BY DEF AgentMoves, composer, session, worker, transport, history
<1>10. /\ incoming' \in Seq(AgentMessage) /\ EndsOnce(Inbox')
       /\ Heard \subseteq Heard' /\ Heard' \subseteq Heard \cup {f}
  BY <1>1, <1>2, <1>3, <1>7, <1>9, EmitOne
<1>11. TypeOK'
  BY <1>5, <1>8, <1>9, <1>10 DEF TypeOK
<1>12. /\ CardInv' /\ BindingInv'
       /\ \A n \in Sent : SentOK(n)'
       /\ \A n \in Heard : HeardOK(n)'
  BY <1>8, AgentApart DEF Grows
<1>13. MessageInv'
  <2>1. HeardOK(f)'
    BY <1>6, <1>7, <1>8, <1>9 DEF HeardOK, IsResponse
  <2> QED BY <1>5, <1>10, <1>12, <2>1 DEF MessageInv
<1>14. WaitingInv'
  <2>1. ASSUME NEW r, OnItsWay(r) PROVE OnItsWay(r)'
    BY <1>5, <1>9, <1>10, <2>1 DEF OnItsWay
  <2> QED BY <1>7, <1>8, <1>9, <2>1 DEF WaitingInv
<1>15. StartInv'
  <2>1. \A t \in DOMAIN turns : turns[t].start # m.id
    BY <1>5 DEF StartInv
  <2>2. \A n \in Heard : n.kind = "failure" /\ n.id = lastStart => m.id # lastStart
    BY <1>5 DEF StartInv
  <2>3. /\ \A t, v \in DOMAIN turns' : turns'[t].start = turns'[v].start => t = v
        /\ \A t \in DOMAIN turns' : turns'[t].start < nextId
    BY <1>6, <1>7, <1>8, <2>1 DEF StartInv
  <2>4. \A n \in Sent' : n.kind = "start" => \A t \in DOMAIN turns' : turns'[t].start # n.id
    BY <1>5, <1>7, <1>8 DEF StartInv
  <2>5. \A n \in Heard' : n.kind = "failure" /\ n.id = lastStart =>
          /\ \A t \in DOMAIN turns' : turns'[t].start # lastStart
          /\ \A o \in Sent' : o.kind = "start" => o.id # lastStart
    BY <1>5, <1>7, <1>8, <1>10, <2>2 DEF StartInv
  <2> QED BY <1>5, <1>9, <2>3, <2>4, <2>5 DEF StartInv
<1>16. LastInv'
  <2>1. ASSUME ~cut PROVE m.id = lastStart /\ pc = "start"
    BY <1>5, <2>1 DEF LastInv
  <2>2. \A n \in Heard : n.kind = "completed" => n.turn \in DOMAIN turns
    BY DEF MessageInv, HeardOK
  <2> QED BY <1>5, <1>7, <1>8, <1>9, <1>10, <2>1, <2>2 DEF LastInv
<1> QED BY <1>10, <1>11, <1>12, <1>13, <1>14, <1>15, <1>16


\* Changing a turn in place leaves the others and the request that began it.
LEMMA TurnChanged ==
  ASSUME TypeOK, NEW t \in DOMAIN turns, NEW b \in Turn, b.start = turns[t].start,
         turns' = [turns EXCEPT ![t] = b]
  PROVE  /\ turns' \in Seq(Turn) /\ DOMAIN turns' = DOMAIN turns /\ turns'[t] = b
         /\ \A v \in DOMAIN turns \ {t} : turns'[v] = turns[v]
         /\ \A v \in DOMAIN turns : turns'[v].start = turns[v].start
<1>1. turns \in Seq(Turn)
  BY DEF TypeOK
<1>2. /\ DOMAIN turns' = DOMAIN turns /\ turns'[t] = b
      /\ \A v \in DOMAIN turns \ {t} : turns'[v] = turns[v]
  BY <1>1
<1>3. turns' \in Seq(Turn)
  BY <1>1
<1> QED BY <1>2, <1>3

\* The turn t ends, and the messages N, of which one may say so, are written.
LEMMA EndingKeeps ==
  ASSUME IInv, AgentMoves, UNCHANGED <<open, alive, requests>>,
         NEW t \in DOMAIN turns, turns[t].at # "over",
         turns' = [turns EXCEPT ![t].at = "over"],
         toAgent' \in Seq(HostMessage), StartsOnce(toAgent'), Sent' \subseteq Sent,
         \A n \in Sent : n.kind = "answer" => n \in Sent',
         incoming' \in Seq(AgentMessage), EndsOnce(Inbox'), NEW N,
         Heard \subseteq Heard', Heard' \subseteq Heard \cup N,
         \A n \in N : \/ n.kind = "completed" /\ n.turn = t
                      \/ /\ n.kind = "response" /\ n.turn = None
                         /\ n.id < nextId /\ n.id # lastStart
  PROVE  IInv'
<1> USE DEF IInv
<1> DEFINE b == [turns[t] EXCEPT !.at = "over"]
<1>1. /\ b \in Turn /\ b.start = turns[t].start /\ b.at = "over"
      /\ turns' = [turns EXCEPT ![t] = b]
  <2>1. turns[t] \in Turn
    BY Types
  <2> QED BY <2>1 DEF Turn
<1> HIDE DEF b
<1>2. /\ turns' \in Seq(Turn) /\ DOMAIN turns' = DOMAIN turns /\ turns'[t] = b
      /\ \A v \in DOMAIN turns \ {t} : turns'[v] = turns[v]
      /\ \A v \in DOMAIN turns : turns'[v].start = turns[v].start
  BY <1>1, TurnChanged
<1>3. UNCHANGED <<busy, stop, card, state, binding, pending, pc, awaiting, nextId, events,
                  lastStart, cut, denied>>
  BY DEF AgentMoves, composer, session, worker, transport, history
<1>4. TypeOK'
  BY <1>2, <1>3 DEF TypeOK
<1>5. /\ CardInv' /\ BindingInv'
      /\ \A n \in Sent : SentOK(n)'
      /\ \A n \in Heard : HeardOK(n)'
  <2>1. Grows
    BY <1>1, <1>2 DEF Grows
  <2> QED BY <2>1, AgentApart
<1>6. MessageInv'
  <2>1. ASSUME NEW n \in N PROVE HeardOK(n)'
    BY <1>1, <1>2, <1>3, <2>1 DEF HeardOK, IsResponse
  <2> QED BY <1>5, <2>1 DEF MessageInv
<1>7. WaitingInv'
  <2>1. ASSUME NEW r, OnItsWay(r) PROVE OnItsWay(r)'
    BY <1>3, <2>1 DEF OnItsWay
  <2> QED BY <1>1, <1>2, <1>3, <2>1 DEF WaitingInv
<1>8. StartInv'
  <2>1. /\ \A v, w \in DOMAIN turns' : turns'[v].start = turns'[w].start => v = w
        /\ \A v \in DOMAIN turns' : turns'[v].start < nextId
        /\ \A n \in Sent' : n.kind = "start" =>
             \A v \in DOMAIN turns' : turns'[v].start # n.id
    BY <1>2 DEF StartInv
  <2>2. \A n \in Heard' : n.kind = "failure" => n \in Heard
    OBVIOUS
  <2>3. \A n \in Heard' : n.kind = "failure" /\ n.id = lastStart =>
          /\ \A v \in DOMAIN turns' : turns'[v].start # lastStart
          /\ \A o \in Sent' : o.kind = "start" => o.id # lastStart
    BY <1>2, <2>2 DEF StartInv
  <2> QED BY <1>3, <2>1, <2>3 DEF StartInv
<1>9. LastInv'
  <2>1. ASSUME ~cut
        PROVE  /\ turns[t].start = lastStart
               /\ ~(pc # "start" /\ state \in {"Ready", "Completed"})
    BY <2>1 DEF LastInv
  <2>2. ASSUME ~cut, NEW n \in Heard', n.kind = "completed"
        PROVE  turns'[n.turn].start = lastStart
    <3>1. CASE n \in Heard
      <4>1. n.turn \in DOMAIN turns /\ turns[n.turn].start = lastStart
        BY <2>2, <3>1 DEF LastInv, MessageInv, HeardOK
      <4> QED BY <1>2, <4>1
    <3>2. CASE n \in N
      BY <1>2, <2>1, <2>2, <3>2
    <3> QED BY <3>1, <3>2
  <2>3. ASSUME ~cut, NEW v \in DOMAIN turns', turns'[v].start # lastStart
        PROVE  turns'[v].at = "over"
    BY <1>1, <1>2, <2>3 DEF LastInv
  <2> QED BY <1>3, <2>1, <2>2, <2>3 DEF LastInv
<1> QED BY <1>4, <1>5, <1>6, <1>7, <1>8, <1>9 DEF EndsOnce

\* It ends the turn that it is asked to interrupt.
LEMMA InterruptKeeps ==
  ASSUME IInv, AgentMoves, UNCHANGED <<open, alive, requests, errors>>,
         NEW k \in DOMAIN toAgent, toAgent' = RemoveAt(toAgent, k),
         toAgent[k].kind = "interrupt", turns[toAgent[k].turn].at # "over",
         turns' = [turns EXCEPT ![toAgent[k].turn].at = "over"],
         \/ Emit(<<Message("completed", None, toAgent[k].turn),
                   Message("response", toAgent[k].id, None)>>)
         \/ Emit(<<Message("response", toAgent[k].id, None),
                   Message("completed", None, toAgent[k].turn)>>)
  PROVE  IInv'
<1>1. PICK m : m = toAgent[k]
  OBVIOUS
<1>2. PICK t : t = m.turn
  OBVIOUS
<1>3. PICK f : f = Message("response", m.id, None)
  OBVIOUS
<1>4. PICK d : d = Message("completed", None, t)
  OBVIOUS
<1>5. /\ toAgent' \in Seq(HostMessage) /\ StartsOnce(toAgent') /\ m \in Sent
      /\ Sent' \subseteq Sent /\ Sent \subseteq Sent' \cup {m} /\ m.kind = "interrupt"
  BY <1>1, TakesOne
<1>6. /\ m.id \in Nat /\ t \in Nat /\ m.id < nextId /\ m.id # lastStart
      /\ t \in DOMAIN turns /\ turns[t].at # "over"
      /\ turns' = [turns EXCEPT ![t].at = "over"]
  BY <1>1, <1>2, <1>5, Types DEF IInv, MessageInv, SentOK
<1>7. /\ f \in AgentMessage /\ f.kind = "response" /\ f.id = m.id /\ f.turn = None
      /\ d \in AgentMessage /\ d.kind = "completed" /\ d.turn = t
  BY <1>3, <1>4, <1>6 DEF Message, AgentMessage, None
<1>8. TypeOK /\ EndsOnce(Inbox) /\ events' = events /\ NoEndOf(t)
  BY <1>6, NotEnded DEF IInv, AgentMoves, transport
<1>9. Emit(<<d, f>>) \/ Emit(<<f, d>>)
  BY <1>1, <1>2, <1>3, <1>4
<1>10. /\ incoming' \in Seq(AgentMessage) /\ EndsOnce(Inbox')
       /\ Heard \subseteq Heard' /\ Heard' \subseteq Heard \cup {d, f}
  <2>1. CASE Emit(<<d, f>>)
    BY <1>7, <1>8, <2>1, EmitTwo
  <2>2. CASE Emit(<<f, d>>)
    BY <1>7, <1>8, <2>2, EmitTwo
  <2> QED BY <1>9, <2>1, <2>2
<1>11. \A n \in Sent : n.kind = "answer" => n \in Sent'
  BY <1>5
<1>12. PICK N : N = {d, f}
  OBVIOUS
<1>13. \A n \in N : \/ n.kind = "completed" /\ n.turn = t
                    \/ /\ n.kind = "response" /\ n.turn = None
                       /\ n.id < nextId /\ n.id # lastStart
  BY <1>6, <1>7, <1>12
<1>14. Heard \subseteq Heard' /\ Heard' \subseteq Heard \cup N
  BY <1>10, <1>12
<1> QED BY <1>5, <1>6, <1>10, <1>11, <1>13, <1>14, EndingKeeps

\* The agent ends a turn by itself.
LEMMA CompletesKeeps ==
  ASSUME IInv, NEW t \in DOMAIN turns, AgentCompletes(t)
  PROVE  IInv'
<1>1. PICK d : d = Message("completed", None, t)
  OBVIOUS
<1>2. /\ turns[t].at # "over" /\ turns' = [turns EXCEPT ![t].at = "over"] /\ AgentMoves
      /\ UNCHANGED <<open, alive, toAgent, requests>> /\ Emit(<<d>>) /\ t \in Nat
  BY <1>1, Types DEF AgentCompletes, IInv
<1>3. d \in AgentMessage /\ d.kind = "completed" /\ d.turn = t
  BY <1>1, <1>2 DEF Message, AgentMessage, None
<1>4. TypeOK /\ EndsOnce(Inbox) /\ events' = events /\ NoEndOf(t)
  BY <1>2, NotEnded DEF IInv, AgentMoves, transport
<1>5. /\ incoming' \in Seq(AgentMessage) /\ EndsOnce(Inbox')
      /\ Heard \subseteq Heard' /\ Heard' \subseteq Heard \cup {d}
  BY <1>2, <1>3, <1>4, EmitOne
<1>6. toAgent' \in Seq(HostMessage) /\ StartsOnce(toAgent') /\ Sent' = Sent
  BY <1>2 DEF IInv, TypeOK, StartInv, Sent, StartsOnce
<1>7. PICK N : N = {d}
  OBVIOUS
<1>8. \A n \in N : \/ n.kind = "completed" /\ n.turn = t
                   \/ /\ n.kind = "response" /\ n.turn = None
                      /\ n.id < nextId /\ n.id # lastStart
  BY <1>3, <1>7
<1>9. \A n \in Sent : n.kind = "answer" => n \in Sent'
  BY <1>6
<1>10. Heard \subseteq Heard' /\ Heard' \subseteq Heard \cup N /\ Sent' \subseteq Sent
  BY <1>5, <1>6, <1>7
<1> QED BY <1>2, <1>5, <1>6, <1>8, <1>9, <1>10, EndingKeeps

\* The turn that it is asked to interrupt is over: it says so, or refuses.
LEMMA TooLateKeeps ==
  ASSUME IInv, AgentMoves, UNCHANGED <<open, alive, requests, errors, turns>>,
         NEW k \in DOMAIN toAgent, toAgent' = RemoveAt(toAgent, k),
         toAgent[k].kind = "interrupt", NEW kind \in {"response", "failure"},
         Emit(<<Message(kind, toAgent[k].id, None)>>)
  PROVE  IInv'
<1> USE DEF IInv
<1>1. PICK m : m = toAgent[k]
  OBVIOUS
<1>2. PICK f : f = Message(kind, m.id, None)
  OBVIOUS
<1>3. /\ toAgent' \in Seq(HostMessage) /\ StartsOnce(toAgent') /\ m \in Sent
      /\ Sent' \subseteq Sent /\ Sent \subseteq Sent' \cup {m} /\ m.kind = "interrupt"
  BY <1>1, TakesOne
<1>4. /\ m.id \in Nat /\ m.id < nextId /\ m.id # lastStart /\ f \in AgentMessage
      /\ f.kind = kind /\ f.id = m.id /\ f.turn = None
  <2>1. m.id \in Nat /\ m.id < nextId /\ m.id # lastStart
    BY <1>3, Types DEF MessageInv, SentOK
  <2> QED BY <1>2, <2>1 DEF Message, AgentMessage, None
<1>5. UNCHANGED <<busy, stop, card, state, binding, pending, pc, awaiting, nextId, events,
                  lastStart, cut, denied>>
  BY DEF AgentMoves, composer, session, worker, transport, history
<1>6. /\ incoming' \in Seq(AgentMessage) /\ EndsOnce(Inbox')
      /\ Heard \subseteq Heard' /\ Heard' \subseteq Heard \cup {f}
  <2>1. f.kind # "completed"
    BY <1>4
  <2> QED BY <1>1, <1>2, <1>4, <1>5, <2>1, EmitOne
<1>7. TypeOK'
  BY <1>3, <1>5, <1>6 DEF TypeOK
<1>8. /\ CardInv' /\ BindingInv'
      /\ \A n \in Sent : SentOK(n)'
      /\ \A n \in Heard : HeardOK(n)'
  BY AgentApart DEF Grows
<1>9. MessageInv'
  <2>1. HeardOK(f)'
    BY <1>4, <1>5 DEF HeardOK, IsResponse
  <2> QED BY <1>3, <1>6, <1>8, <2>1 DEF MessageInv
<1>10. WaitingInv'
  <2>1. ASSUME NEW r, OnItsWay(r) PROVE OnItsWay(r)'
    BY <1>3, <1>5, <1>6, <2>1 DEF OnItsWay
  <2> QED BY <1>5, <2>1 DEF WaitingInv
<1>11. StartInv'
  BY <1>3, <1>4, <1>5, <1>6 DEF StartInv
<1>12. LastInv'
  BY <1>3, <1>4, <1>5, <1>6 DEF LastInv
<1> QED BY <1>6, <1>7, <1>8, <1>9, <1>10, <1>11, <1>12

\* It goes on with the turn whose request is answered.
LEMMA AnsweredKeeps ==
  ASSUME IInv, AgentMoves, UNCHANGED <<open, alive, requests, errors, incoming>>,
         NEW k \in DOMAIN toAgent, toAgent' = RemoveAt(toAgent, k),
         toAgent[k].kind = "answer", NEW t, t = requests[toAgent[k].id],
         turns' = IF turns[t].at = "waiting" /\ turns[t].request = toAgent[k].id
                  THEN [turns EXCEPT ![t].at = "working"] ELSE turns
  PROVE  IInv'
<1> USE DEF IInv
<1>1. PICK m : m = toAgent[k]
  OBVIOUS
<1>2. /\ toAgent' \in Seq(HostMessage) /\ StartsOnce(toAgent') /\ m \in Sent
      /\ Sent' \subseteq Sent /\ Sent \subseteq Sent' \cup {m} /\ m.kind = "answer"
  BY <1>1, TakesOne
<1>3. /\ m.id \in DOMAIN requests /\ t = requests[m.id] /\ t \in DOMAIN turns
      /\ turns' = IF turns[t].at = "waiting" /\ turns[t].request = m.id
                  THEN [turns EXCEPT ![t].at = "working"] ELSE turns
  BY <1>1, <1>2 DEF MessageInv, SentOK, WaitingInv
<1>4. UNCHANGED <<busy, stop, card, state, binding, pending, pc, awaiting, nextId, events,
                  lastStart, cut, denied>> /\ Heard' = Heard /\ Inbox' = Inbox
  BY DEF AgentMoves, composer, session, worker, transport, history, Heard, Inbox
<1>5. /\ turns' \in Seq(Turn) /\ DOMAIN turns' = DOMAIN turns
      /\ \A v \in DOMAIN turns : /\ turns'[v].start = turns[v].start
                                 /\ turns'[v].at = "over" <=> turns[v].at = "over"
                                 /\ turns'[v].at = "waiting" =>
                                      /\ turns[v].at = "waiting"
                                      /\ turns'[v].request = turns[v].request
                                      /\ turns[v].request # m.id
  <2>1. ASSUME NEW v \in DOMAIN turns, turns[v].at = "waiting", turns[v].request = m.id
        PROVE  v = t
    BY <1>3, <2>1 DEF WaitingInv
  <2>2. CASE turns[t].at = "waiting" /\ turns[t].request = m.id
    <3> DEFINE b == [turns[t] EXCEPT !.at = "working"]
    <3>1. b \in Turn /\ b.start = turns[t].start /\ b.at = "working"
          /\ turns' = [turns EXCEPT ![t] = b]
      <4>1. turns[t] \in Turn
        BY <1>3, Types
      <4> QED BY <1>3, <2>2, <4>1 DEF Turn
    <3> HIDE DEF b
    <3>2. /\ turns' \in Seq(Turn) /\ DOMAIN turns' = DOMAIN turns /\ turns'[t] = b
          /\ \A v \in DOMAIN turns \ {t} : turns'[v] = turns[v]
          /\ \A v \in DOMAIN turns : turns'[v].start = turns[v].start
      BY <1>3, <3>1, TurnChanged
    <3> QED BY <2>1, <2>2, <3>1, <3>2
  <2>3. CASE ~(turns[t].at = "waiting" /\ turns[t].request = m.id)
    BY <1>3, <2>1, <2>3 DEF TypeOK
  <2> QED BY <2>2, <2>3
<1>6. TypeOK'
  BY <1>2, <1>4, <1>5 DEF TypeOK
<1>7. /\ CardInv' /\ BindingInv'
      /\ \A n \in Sent : SentOK(n)'
      /\ \A n \in Heard : HeardOK(n)'
  <2>1. Grows
    BY <1>5 DEF Grows
  <2> QED BY <2>1, AgentApart
<1>8. MessageInv'
  BY <1>2, <1>4, <1>7 DEF MessageInv
<1>9. WaitingInv'
  <2>1. ASSUME NEW r, r # m.id, OnItsWay(r) PROVE OnItsWay(r)'
    BY <1>2, <1>4, <2>1 DEF OnItsWay
  <2>2. \A v \in DOMAIN turns' : turns'[v].at = "waiting" =>
          /\ turns[v].request \in DOMAIN requests /\ requests[turns[v].request] = v
          /\ turns'[v].request = turns[v].request /\ turns[v].request # m.id
    BY <1>5 DEF WaitingInv
  <2>3. alive /\ open /\ denied = None => \A v \in DOMAIN turns : turns[v].at = "waiting" =>
                           OnItsWay(turns[v].request)
    BY DEF WaitingInv
  <2>4. ASSUME alive', open', denied' = None, NEW v \in DOMAIN turns', turns'[v].at = "waiting"
        PROVE  OnItsWay(turns[v].request)'
    <3>1. PICK r : r = turns[v].request
      OBVIOUS
    <3>2. OnItsWay(r) /\ r # m.id /\ turns'[v].request = r
      BY <1>4, <1>5, <2>2, <2>3, <2>4, <3>1 DEF AgentMoves
    <3>3. OnItsWay(r)'
      BY <2>1, <3>2
    <3> QED BY <3>2, <3>3, Zenon DEF OnItsWay
  <2>5. \A r \in DOMAIN requests' : requests'[r] \in DOMAIN turns'
    BY <1>5 DEF WaitingInv
  <2>6. \A v \in DOMAIN turns' : turns'[v].at = "waiting" =>
          turns'[v].request \in DOMAIN requests' /\ requests'[turns'[v].request] = v
    BY <1>5, <2>2
  <2> QED BY <2>4, <2>5, <2>6, ZenonT(30) DEF WaitingInv
<1>10. StartInv'
  BY <1>2, <1>4, <1>5 DEF StartInv
<1>11. LastInv'
  <2>1. ASSUME ~cut, NEW n \in Heard, n.kind = "completed"
        PROVE  turns'[n.turn].start = lastStart
    BY <1>5, <2>1 DEF LastInv, MessageInv, HeardOK
  <2>2. ASSUME ~cut, NEW v \in DOMAIN turns', turns'[v].start # lastStart
        PROVE  turns'[v].at = "over"
    BY <1>5, <2>2 DEF LastInv
  <2>3. ASSUME ~cut, pc # "start", state \in {"Ready", "Completed"}
        PROVE  \A v \in DOMAIN turns' : turns'[v].at = "over"
    BY <1>5, <2>3 DEF LastInv
  <2> QED BY <1>2, <1>4, <2>1, <2>2, <2>3 DEF LastInv
<1> QED BY <1>4, <1>6, <1>7, <1>8, <1>9, <1>10, <1>11 DEF EndsOnce

\* The agent takes any message of the host and does what it asks for.
LEMMA ReadsKeeps ==
  ASSUME IInv, NEW k \in DOMAIN toAgent, AgentReads(k)
  PROVE  IInv'
<1>1. /\ AgentMoves /\ UNCHANGED <<open, alive, requests, errors>>
      /\ toAgent' = RemoveAt(toAgent, k)
  BY DEF AgentReads
<1>2. CASE /\ toAgent[k].kind = "start" /\ UNCHANGED turns
           /\ Emit(<<Message("failure", toAgent[k].id, None)>>)
  BY <1>1, <1>2, RefuseKeeps
<1>3. CASE /\ toAgent[k].kind = "start"
           /\ turns' = Append(turns, [start |-> toAgent[k].id, at |-> "working",
                                      request |-> None])
           /\ Emit(<<Message("response", toAgent[k].id, Len(turns) + 1)>>)
  BY <1>1, <1>3, BeginKeeps
<1>4. CASE /\ toAgent[k].kind = "interrupt" /\ turns[toAgent[k].turn].at # "over"
           /\ turns' = [turns EXCEPT ![toAgent[k].turn].at = "over"]
           /\ \/ Emit(<<Message("completed", None, toAgent[k].turn),
                        Message("response", toAgent[k].id, None)>>)
              \/ Emit(<<Message("response", toAgent[k].id, None),
                        Message("completed", None, toAgent[k].turn)>>)
  BY <1>1, <1>4, InterruptKeeps
<1>5. CASE /\ toAgent[k].kind = "interrupt" /\ UNCHANGED turns
           /\ \E kind \in {"response", "failure"} :
                Emit(<<Message(kind, toAgent[k].id, None)>>)
  BY <1>1, <1>5, TooLateKeeps
<1>6. CASE /\ toAgent[k].kind = "answer" /\ UNCHANGED incoming
           /\ LET t == requests[toAgent[k].id] IN
                turns' = IF turns[t].at = "waiting" /\ turns[t].request = toAgent[k].id
                         THEN [turns EXCEPT ![t].at = "working"] ELSE turns
  BY <1>1, <1>6, AnsweredKeeps
<1> QED BY <1>2, <1>3, <1>4, <1>5, <1>6 DEF AgentReads

\* The agent asks for an approval within a turn that works.
LEMMA AsksKeeps ==
  ASSUME IInv, NEW t \in DOMAIN turns, AgentAsks(t)
  PROVE  IInv'
<1> USE DEF IInv
<1>1. PICK u : u = Len(requests) + 1
  OBVIOUS
<1>2. PICK q : q = Message("request", u, t)
  OBVIOUS
<1>3. /\ alive /\ turns[t].at = "working" /\ requests' = Append(requests, t)
      /\ turns' = [turns EXCEPT ![t].at = "waiting", ![t].request = u]
      /\ Emit(<<q>>) /\ AgentMoves /\ UNCHANGED <<open, alive, toAgent>>
  BY <1>1, <1>2 DEF AgentAsks
<1>4. /\ u \in Nat /\ u \notin DOMAIN requests /\ t \in Nat
      /\ q \in AgentMessage /\ q.kind = "request" /\ q.id = u
  <2>1. u \in Nat /\ u \notin DOMAIN requests /\ t \in Nat
    BY <1>1, Types
  <2> QED BY <1>2, <2>1 DEF Message, AgentMessage
<1>5. /\ requests' \in Seq(Nat) /\ DOMAIN requests' = DOMAIN requests \cup {u}
      /\ requests'[u] = t /\ \A r \in DOMAIN requests : requests'[r] = requests[r]
  <2>1. requests \in Seq(Nat)
    BY DEF TypeOK
  <2> QED BY <1>1, <1>3, <1>4, <2>1, Appended
<1> DEFINE b == [turns[t] EXCEPT !.at = "waiting", !.request = u]
<1>6. b \in Turn /\ b.start = turns[t].start /\ b.at = "waiting" /\ b.request = u
      /\ turns' = [turns EXCEPT ![t] = b]
  <2>1. turns[t] \in Turn
    BY Types
  <2> QED BY <1>3, <1>4, <2>1 DEF Turn
<1> HIDE DEF b
<1>7. /\ turns' \in Seq(Turn) /\ DOMAIN turns' = DOMAIN turns /\ turns'[t] = b
      /\ \A v \in DOMAIN turns \ {t} : turns'[v] = turns[v]
      /\ \A v \in DOMAIN turns : turns'[v].start = turns[v].start
  BY <1>6, TurnChanged
<1>8. UNCHANGED <<busy, stop, card, state, binding, pending, pc, awaiting, nextId, events,
                  lastStart, cut, denied>> /\ Sent' = Sent
  BY <1>3 DEF AgentMoves, composer, session, worker, transport, history, Sent
<1>9. /\ incoming' \in Seq(AgentMessage) /\ EndsOnce(Inbox')
      /\ Heard \subseteq Heard' /\ Heard' \subseteq Heard \cup {q}
      /\ open => q \in Heard'
  <2>1. q.kind # "completed"
    BY <1>4
  <2> QED BY <1>3, <1>4, <1>8, <2>1, EmitOne
<1>10. TypeOK'
  BY <1>3, <1>5, <1>7, <1>8, <1>9 DEF TypeOK
<1>11. /\ CardInv' /\ BindingInv'
       /\ \A n \in Sent : SentOK(n)'
       /\ \A n \in Heard : HeardOK(n)'
  <2>1. Grows
    BY <1>3, <1>5, <1>7 DEF Grows
  <2> QED BY <1>3, <2>1, AgentApart
<1>12. MessageInv'
  <2>1. HeardOK(q)'
    BY <1>4, <1>5 DEF HeardOK, IsResponse
  <2> QED BY <1>8, <1>9, <1>11, <2>1 DEF MessageInv
<1>13. WaitingInv'
  <2>1. ASSUME NEW r, OnItsWay(r) PROVE OnItsWay(r)'
    BY <1>8, <1>9, <2>1 DEF OnItsWay
  <2>2. open => OnItsWay(u)'
    BY <1>4, <1>9 DEF OnItsWay
  <2>3. \A r \in DOMAIN requests' : requests'[r] \in DOMAIN turns'
    BY <1>5, <1>7 DEF WaitingInv
  <2>4. ASSUME NEW v \in DOMAIN turns', turns'[v].at = "waiting"
        PROVE  /\ turns'[v].request \in DOMAIN requests'
               /\ requests'[turns'[v].request] = v
               /\ alive /\ open /\ denied = None => OnItsWay(turns[v].request)'
    <3>1. CASE v = t
      BY <1>5, <1>6, <1>7, <2>2, <3>1
    <3>2. CASE v # t
      <4>1. turns'[v] = turns[v] /\ v \in DOMAIN turns
        BY <1>7, <3>2
      <4>2. /\ turns[v].request \in DOMAIN requests /\ requests[turns[v].request] = v
            /\ alive /\ open /\ denied = None => OnItsWay(turns[v].request)
        BY <2>4, <4>1 DEF WaitingInv
      <4> QED BY <1>5, <2>1, <4>1, <4>2
    <3> QED BY <3>1, <3>2
  <2> QED BY <1>3, <1>8, <2>3, <2>4 DEF WaitingInv
<1>14. StartInv'
  <2>1. StartsOnce(toAgent')
    BY <1>3 DEF StartInv
  <2>2. \A n \in Heard' : n.kind = "failure" => n \in Heard
    BY <1>4, <1>9
  <2> QED BY <1>7, <1>8, <2>1, <2>2 DEF StartInv
<1>15. LastInv'
  <2>1. \A n \in Heard' : n.kind = "completed" => n \in Heard
    BY <1>4, <1>9
  <2>2. ASSUME ~cut, NEW n \in Heard', n.kind = "completed"
        PROVE  turns'[n.turn].start = lastStart
    BY <1>7, <2>1, <2>2 DEF LastInv, MessageInv, HeardOK
  <2>3. ASSUME ~cut
        PROVE  /\ turns[t].start = lastStart
               /\ ~(pc # "start" /\ state \in {"Ready", "Completed"})
    BY <1>3, <2>3 DEF LastInv
  <2>4. ASSUME ~cut, NEW v \in DOMAIN turns', turns'[v].start # lastStart
        PROVE  turns'[v].at = "over"
    BY <1>7, <2>3, <2>4 DEF LastInv
  <2> QED BY <1>8, <2>2, <2>3, <2>4 DEF LastInv
<1> QED BY <1>9, <1>10, <1>11, <1>12, <1>13, <1>14, <1>15

\* The agent reports an error outside of every turn.
LEMMA ErrsKeeps ==
  ASSUME IInv, NEW t \in DOMAIN turns, AgentErrs(t)
  PROVE  IInv'
<1> USE DEF IInv
<1>1. PICK f : f = Message("error", None, t)
  OBVIOUS
<1>2. /\ Emit(<<f>>) /\ AgentMoves /\ UNCHANGED <<open, alive, toAgent, turns, requests>>
  BY <1>1 DEF AgentErrs, agent
<1>3. f \in AgentMessage /\ f.kind = "error"
  BY <1>1, Types DEF Message, AgentMessage, None
<1>4. UNCHANGED <<busy, stop, card, state, binding, pending, pc, awaiting, nextId, events,
                  lastStart, cut, denied>> /\ Sent' = Sent
  BY <1>2 DEF AgentMoves, composer, session, worker, transport, history, Sent
<1>5. /\ incoming' \in Seq(AgentMessage) /\ EndsOnce(Inbox')
      /\ Heard \subseteq Heard' /\ Heard' \subseteq Heard \cup {f}
  <2>1. f.kind # "completed"
    BY <1>3
  <2> QED BY <1>2, <1>3, <1>4, <2>1, EmitOne
<1>6. TypeOK'
  BY <1>2, <1>4, <1>5 DEF TypeOK
<1>7. /\ CardInv' /\ BindingInv'
      /\ \A n \in Sent : SentOK(n)'
      /\ \A n \in Heard : HeardOK(n)'
  BY <1>2, AgentApart DEF Grows
<1>8. MessageInv'
  <2>1. HeardOK(f)'
    BY <1>3 DEF HeardOK, IsResponse
  <2> QED BY <1>4, <1>5, <1>7, <2>1 DEF MessageInv
<1>9. WaitingInv'
  <2>1. ASSUME NEW r, OnItsWay(r) PROVE OnItsWay(r)'
    BY <1>4, <1>5, <2>1 DEF OnItsWay
  <2> QED BY <1>2, <1>4, <2>1 DEF WaitingInv
<1>10. StartInv' /\ LastInv'
  BY <1>2, <1>3, <1>4, <1>5 DEF StartInv, LastInv
<1> QED BY <1>5, <1>6, <1>7, <1>8, <1>9, <1>10

\* What is left of the queue when the reader drops what comes last.
LEMMA Shortened ==
  ASSUME NEW e \in Seq(AgentMessage), NEW i \in Seq(AgentMessage), NEW n \in 0..Len(i),
         EndsOnce(e \o i)
  PROVE  /\ SubSeq(i, 1, n) \in Seq(AgentMessage)
         /\ Range(SubSeq(i, 1, n)) \subseteq Range(i)
         /\ EndsOnce(e \o SubSeq(i, 1, n))
<1> DEFINE p == SubSeq(i, 1, n)
<1>1. Len(i) \in Nat /\ n \in Nat /\ n <= Len(i) /\ DOMAIN i = 1..Len(i)
  BY LenProperties
<1>2. p \in Seq(AgentMessage) /\ Len(p) = n /\ \A k \in 1..n : p[k] = i[k]
  <2>1. \A k \in 1..n : i[k] \in AgentMessage
    BY <1>1, ElementOfSeq
  <2>2. /\ p \in Seq(AgentMessage) /\ Len(p) = IF 1 <= n THEN n - 1 + 1 ELSE 0
        /\ \A k \in 1..(n - 1 + 1) : p[k] = i[1 + k - 1]
    BY <1>1, <2>1, SubSeqProperties
  <2> HIDE DEF p, AgentMessage
  <2> QED BY <1>1, <2>2
<1> HIDE DEF p
<1>3. Range(p) \subseteq Range(i)
  <2>1. DOMAIN p = 1..n
    BY <1>2, LenProperties
  <2> QED BY <1>1, <1>2, <2>1 DEF Range
<1>4. \A k \in DOMAIN (e \o p) : k \in DOMAIN (e \o i) /\ (e \o p)[k] = (e \o i)[k]
  <2> DEFINE l == Len(e)
             q == e \o p
             r == e \o i
  <2>1. /\ l \in Nat
        /\ Len(q) = l + n /\ \A k \in 1..(l + n) : q[k] = IF k <= l THEN e[k] ELSE p[k - l]
        /\ Len(r) = l + Len(i)
        /\ \A k \in 1..(l + Len(i)) : r[k] = IF k <= l THEN e[k] ELSE i[k - l]
    BY <1>2, LenProperties, ConcatProperties
  <2>2. DOMAIN q = 1..(l + n) /\ DOMAIN r = 1..(l + Len(i))
    BY <1>2, <2>1, ConcatProperties, LenProperties
  <2> HIDE DEF l, q, r
  <2>3. ASSUME NEW k \in 1..(l + n) PROVE k \in 1..(l + Len(i)) /\ q[k] = r[k]
    <3>1. k \in 1..(l + Len(i))
      BY <1>1, <2>1
    <3>2. CASE k <= l
      BY <2>1, <3>1, <3>2
    <3>3. CASE ~(k <= l)
      <4>1. k - l \in 1..n
        BY <1>1, <2>1, <3>3
      <4> QED BY <1>2, <2>1, <3>1, <3>3, <4>1
    <3> QED BY <3>1, <3>2, <3>3
  <2> QED BY <2>2, <2>3 DEF q, r
<1>5. EndsOnce(e \o p)
  BY <1>4 DEF EndsOnce
<1> QED BY <1>2, <1>3, <1>5 DEF p

\* The agent's process ends, or the reader thread does.
LEMMA EndKeeps ==
  ASSUME IInv, AgentExits \/ BadLine
  PROVE  IInv'
<1> USE DEF IInv
<1>1. /\ AgentMoves /\ open' = FALSE /\ (alive' => alive) /\ alive' \in BOOLEAN
      /\ toAgent' \in {toAgent, <<>>} /\ UNCHANGED <<turns, requests>>
  BY DEF AgentExits, BadLine, agent, TypeOK
<1>2. UNCHANGED <<busy, stop, card, state, binding, pending, pc, awaiting, nextId, events,
                  lastStart, cut, denied>>
  BY <1>1 DEF AgentMoves, composer, session, worker, transport, history
<1>2a. incoming' \in Seq(AgentMessage) /\ Heard' \subseteq Heard /\ EndsOnce(Inbox')
  <2>1. CASE AgentExits
    BY <1>2, <2>1 DEF AgentExits, Heard, Inbox, EndsOnce, TypeOK
  <2>2. CASE BadLine
    <3>1. PICK n \in 0..Len(incoming) : incoming' = SubSeq(incoming, 1, n)
      BY <2>2 DEF BadLine
    <3>2. EndsOnce(events \o incoming)
      BY DEF Inbox
    <3>3. /\ incoming' \in Seq(AgentMessage) /\ Range(incoming') \subseteq Range(incoming)
          /\ EndsOnce(events \o incoming')
      BY <3>1, <3>2, Shortened DEF TypeOK
    <3> QED BY <1>2, <3>3 DEF Heard, Inbox
  <2> QED BY <2>1, <2>2
<1>3. Sent' \subseteq Sent /\ toAgent' \in Seq(HostMessage) /\ StartsOnce(toAgent')
  <2>1. Range(<<>>) = {} /\ StartsOnce(<<>>)
    BY DEF Range, StartsOnce
  <2>2. CASE toAgent' = <<>>
    <3>1. Sent' = {} /\ StartsOnce(toAgent')
      BY <2>1, <2>2 DEF Sent
    <3>2. toAgent' \in Seq(HostMessage)
      BY <2>2
    <3> QED BY <3>1, <3>2
  <2>3. CASE toAgent' = toAgent
    BY <2>3 DEF Sent, TypeOK, StartInv
  <2> QED BY <1>1, <2>2, <2>3
<1>4. TypeOK'
  BY <1>2a, <1>1, <1>2, <1>3 DEF TypeOK
<1>5. /\ CardInv' /\ BindingInv'
      /\ \A n \in Sent : SentOK(n)'
      /\ \A n \in Heard : HeardOK(n)'
  BY <1>1, AgentApart DEF Grows
<1>6. MessageInv' /\ WaitingInv'
  BY <1>2a, <1>1, <1>2, <1>3, <1>5 DEF MessageInv, WaitingInv
<1>7. StartInv' /\ LastInv'
  BY <1>2a, <1>1, <1>2, <1>3 DEF StartInv, LastInv
<1> QED BY <1>2a, <1>4, <1>5, <1>6, <1>7 DEF EndsOnce


----------------------------------------------------------------------------
(* The session *)

\* A session that has just been opened fits.
LEMMA InitHolds == Init => IInv
<1> SUFFICES ASSUME Init PROVE IInv
  OBVIOUS
<1>1. Sent = {} /\ Heard = {} /\ Inbox = <<>> /\ DOMAIN Inbox = {}
  <2>1. Range(<<>>) = {} /\ <<>> \o <<>> = <<>>
    BY DEF Range
  <2> QED BY <2>1 DEF Sent, Heard, Inbox, Init
<1>2. DOMAIN turns = {} /\ DOMAIN requests = {} /\ DOMAIN toAgent = {}
  BY DEF Init
<1>3. TypeOK
  <2>1. \A S : <<>> \in Seq(S)
    OBVIOUS
  <2> QED BY <2>1 DEF Init, TypeOK, None
<1>4. CardInv /\ BindingInv
  BY DEF Init, CardInv, BindingInv, None
<1>5. MessageInv /\ WaitingInv /\ StartInv /\ EndsOnce(Inbox) /\ LastInv
  BY <1>1, <1>2, Zenon
     DEF MessageInv, WaitingInv, StartInv, StartsOnce, EndsOnce, LastInv
<1> QED BY <1>3, <1>4, <1>5 DEF IInv

\* A step of the worker, reader or pump, keeps the invariant;
LEMMA WorkerKeeps ==
  ASSUME IInv, WorkerStep
  PROVE  IInv'
  BY ReceiveKeeps, RequestFailsKeeps, PumpKeeps, PumpEndsKeeps, NoticeStopKeeps
     DEF WorkerStep

\* a step of the agent keeps it;
LEMMA AgentKeeps ==
  ASSUME IInv, AgentStep
  PROVE  IInv'
  BY EndKeeps, ReadsKeeps, AsksKeeps, CompletesKeeps, ErrsKeeps DEF AgentStep

\* A step that changes nothing of the session keeps the invariant.
LEMMA StutterKeeps ==
  ASSUME IInv, UNCHANGED vars
  PROVE  IInv'
<1>1. UNCHANGED <<busy, stop, card, state, binding, pending, pc, awaiting, nextId, events,
                  incoming, open, alive, toAgent, turns, requests, lastStart, cut, denied>>
  BY DEF vars, composer, session, worker, transport, agent, history
<1>2. MessageInv' /\ StartInv' /\ EndsOnce(Inbox)'
  BY <1>1, Untouched DEF transport
<1>3. TypeOK' /\ CardInv' /\ BindingInv'
  BY <1>1 DEF IInv, TypeOK, CardInv, BindingInv
<1>4. WaitingInv'
  BY <1>1 DEF IInv, WaitingInv, OnItsWay, Heard, Sent
<1>5. LastInv'
  BY <1>1 DEF IInv, LastInv, Heard, Sent
<1> QED BY <1>2, <1>3, <1>4, <1>5 DEF IInv

\* and so does every step, one that changes nothing included.
LEMMA NextKeeps ==
  ASSUME IInv, [Next]_vars
  PROVE  IInv'
  BY StartKeeps, StopKeeps, DecideKeeps, TaskKeeps, NewSessionKeeps, WorkerKeeps,
     AgentKeeps, StutterKeeps DEF Next

\* The session as it is without checkpoints and restarts: the card, the binding, the
\* messages on their way and the turns of the agent always fit together.
THEOREM SessionFits == Spec => []IInv
<1>1. Init => IInv
  BY InitHolds
<1>2. IInv /\ [Next]_vars => IInv'
  BY NextKeeps
<1> QED BY <1>1, <1>2, PTL DEF Spec

----------------------------------------------------------------------------
(* With checkpoints and restarts *)

\* The first session fits, and no file lists a turn yet.
LEMMA RInitHolds == RInit => RInv
  BY InitHolds DEF RInit, RInv, FilesInv, Nothing

\* A query says something, unless nothing was saved, and never that a turn which goes on
\* has succeeded.
LEMMA QueryTells ==
  ASSUME Query, TurnUnderWay
  PROVE  /\ operation # "Succeeded" => operation' # "Succeeded"
         /\ snapshot # Nothing => operation' # Nothing
<1>1. CASE snapshot = Nothing \/ Settled
  BY <1>1 DEF Query, Settled, Nothing
<1>2. CASE ~(snapshot = Nothing \/ Settled)
  <2>1. PICK report \in Reports : operation' = Reduced(report)
    BY <1>2 DEF Query
  <2>2. report \in {"no answer", "running", "waiting-approval", "interrupted"}
    BY <2>1 DEF Reports, TurnUnderWay
  <2> QED BY <2>1, <2>2 DEF Reduced, Nothing
<1> QED BY <1>1, <1>2

\* A query that is made says something.
LEMMA QueryAnswers ==
  ASSUME Query, snapshot # Nothing
  PROVE  operation' # Nothing
<1>1. CASE Settled
  BY <1>1 DEF Query, Settled, Nothing
<1>2. CASE ~Settled
  <2>1. PICK report \in Reports : operation' = Reduced(report)
    BY <1>2 DEF Query
  <2>2. report \in {"no answer", "idle", "completed", "running", "waiting-approval",
                    "interrupted"}
    BY <2>1 DEF Reports
  <2> QED BY <2>1, <2>2 DEF Reduced, Nothing
<1> QED BY <1>1, <1>2

\* What is gone stays gone.
LEMMA GoneStays ==
  ASSUME Gone, UNCHANGED vars
  PROVE  Gone'
  BY DEF Gone, vars, composer, session, worker, agent

\* A step of the session, the end of the application and its next start keep that.
LEMMA RNextKeeps ==
  ASSUME RInv, [RNext]_rvars
  PROVE  RInv'
<1>1. ASSUME Worker \/ User \/ Agent PROVE RInv'
  <2>1. life = "session" /\ IInv /\ Kept
    BY <1>1 DEF Worker, User, Agent, RInv
  <2>2. Next
    BY <1>1 DEF Worker, User, Agent, Next
  <2>3. IInv'
    BY <2>1, <2>2, NextKeeps
  <2> QED BY <2>1, <2>3 DEF RInv, FilesInv, Kept
<1>2. ASSUME OtherSession PROVE RInv'
  <2>1. IInv' /\ life = "session" /\ UNCHANGED <<life, underWay, early>>
    BY <1>2, NewSessionKeeps DEF OtherSession, RInv
  <2> QED BY <2>1 DEF RInv, FilesInv
<1>3. ASSUME Checkpoint PROVE RInv'
  <2>1. IInv' /\ life = "session" /\ UNCHANGED <<life, underWay, early>>
    BY <1>3, StutterKeeps DEF Checkpoint, RInv
  <2> QED BY <2>1 DEF RInv, FilesInv
<1>4. ASSUME SaveSettings PROVE RInv'
  <2>1. /\ UNCHANGED <<vars, life, snapshot, underWay, early>> /\ Query
        /\ (TurnUnderWay' <=> TurnUnderWay)
    BY <1>4 DEF SaveSettings, TurnUnderWay, LastTurn, vars, agent
  <2>2. (IF life = "session" THEN IInv ELSE Gone)'
    BY <2>1, StutterKeeps, GoneStays DEF RInv
  <2>3. FilesInv'
    BY <2>1, QueryTells, QueryAnswers DEF RInv, FilesInv
  <2> QED BY <2>2, <2>3 DEF RInv
<1>5. ASSUME StopApplication PROVE RInv'
  <2>1. turns \in Seq(Turn)
    BY DEF RInv, IInv, TypeOK, Gone
  <2>2. Gone' /\ life' = "down" /\ UNCHANGED <<turns, operation>>
    BY <1>5, <2>1 DEF StopApplication, Gone, None, files
  <2>3. (TurnUnderWay' <=> TurnUnderWay)
    BY <2>2 DEF TurnUnderWay, LastTurn
  <2>4. FilesInv'
    <3>1. /\ underWay' = (underWay \/ TurnUnderWay) /\ underWay' \in BOOLEAN
          /\ early' = (early \/ (life = "session" /\ Settled)) /\ early' \in BOOLEAN
      BY <1>5 DEF StopApplication
    <3>2. FilesInv
      BY DEF RInv
    <3>3. CASE life = "session"
      <4>1. (underWay' <=> TurnUnderWay) /\ (early' <=> Settled)
        BY <3>1, <3>2, <3>3 DEF FilesInv
      <4>2. underWay' <=> TurnUnderWay'
        BY <2>3, <4>1
      <4>3. ~early' => operation' # "Succeeded"
        BY <2>2, <4>1 DEF Settled
      <4> QED BY <2>2, <3>1, <4>2, <4>3, SMT DEF FilesInv
    <3>4. CASE life # "session"
      <4>1. underWay' <=> TurnUnderWay
        BY <3>1, <3>2, <3>4 DEF FilesInv
      <4>2. early' <=> early
        BY <3>1, <3>2, <3>4 DEF FilesInv
      <4>3. underWay' /\ ~early' => operation # "Succeeded"
        BY <3>2, <3>4, <4>1, <4>2 DEF FilesInv
      <4>4. underWay' <=> TurnUnderWay'
        BY <2>3, <4>1
      <4>5. underWay' /\ ~early' => operation' # "Succeeded"
        BY <2>2, <4>3
      <4> QED BY <2>2, <3>1, <4>4, <4>5, SMT DEF FilesInv
    <3> QED BY <3>3, <3>4
  <2> QED BY <2>2, <2>4 DEF RInv
<1>6. ASSUME StartApplication PROVE RInv'
  <2>1. /\ UNCHANGED <<vars, snapshot, underWay, early>> /\ Query
        /\ life = "down" /\ life' = "after" /\ (TurnUnderWay' <=> TurnUnderWay)
    BY <1>6 DEF StartApplication, TurnUnderWay, LastTurn, vars, agent
  <2>2. Gone'
    BY <2>1, GoneStays DEF RInv
  <2>3. FilesInv'
    BY <2>1, QueryTells, QueryAnswers DEF RInv, FilesInv
  <2> QED BY <2>1, <2>2, <2>3 DEF RInv
<1>7. ASSUME NEW decision \in {"Waiting", "Abandoned"}, Recover(decision) PROVE RInv'
  <2>1. /\ UNCHANGED <<vars, life, underWay, early>>
        /\ operation' \in {"Waiting", "Abandoned"} /\ (TurnUnderWay' <=> TurnUnderWay)
    BY <1>7 DEF Recover, TurnUnderWay, LastTurn, vars, agent
  <2>2. (IF life = "session" THEN IInv ELSE Gone)'
    BY <2>1, StutterKeeps, GoneStays DEF RInv
  <2>3. FilesInv'
    BY <2>1 DEF RInv, FilesInv, Nothing
  <2> QED BY <2>2, <2>3 DEF RInv
<1>8. ASSUME UNCHANGED rvars PROVE RInv'
  <2>1. /\ UNCHANGED <<vars, life, snapshot, operation, underWay, early>>
        /\ (TurnUnderWay' <=> TurnUnderWay)
    BY <1>8 DEF rvars, files, TurnUnderWay, LastTurn, vars, agent
  <2>2. (IF life = "session" THEN IInv ELSE Gone)'
    BY <2>1, StutterKeeps, GoneStays DEF RInv
  <2> QED BY <2>1, <2>2 DEF RInv, FilesInv
<1> QED BY <1>1, <1>2, <1>3, <1>4, <1>5, <1>6, <1>7, <1>8 DEF RNext

\* The session, its files and what is left of it always fit together.
THEOREM RecoveryFits == RSpec => []RInv
<1>1. RInit => RInv
  BY RInitHolds
<1>2. RInv /\ [RNext]_rvars => RInv'
  BY RNextKeeps
<1> QED BY <1>1, <1>2, PTL DEF RSpec

\* A stop interrupts the turn that the last request to start one began: the session is
\* bound to no other, whatever answers of requests that were given up come in between.
THEOREM TurnsStayBound == RSpec => []TurnIsBoundToItsStart
<1>1. RInv => TurnIsBoundToItsStart
  BY DEF RInv, IInv, BindingInv, Gone, TurnIsBoundToItsStart
<1> QED BY <1>1, RecoveryFits, PTL

\* No approval that the agent asks for is forgotten, at whatever moment it asks.
THEOREM ApprovalsReachTheUser == RSpec => []RequestsReachTheUser
<1>1. ASSUME NEW r, OnItsWay(r) PROVE UnderWay(r)
  BY <1>1 DEF OnItsWay, UnderWay, Heard, Sent, Range
<1>2. RInv => RequestsReachTheUser
  BY <1>1 DEF RInv, IInv, WaitingInv, Gone, RequestsReachTheUser, Stranded
<1> QED BY <1>2, RecoveryFits, PTL

\* Between two commands the card shows what the session waits for.
THEOREM CardsMatch == RSpec => []CardMatchesSession
<1>1. RInv => CardMatchesSession
  BY DEF RInv, IInv, CardInv, Gone, CardMatchesSession, None
<1> QED BY <1>1, RecoveryFits, PTL

\* Only pump_for completes a turn, and it takes the end of the turn it follows.
LEMMA OwnEnd ==
  ASSUME IInv, Next, state = "Running", state' = "Completed", ~cut
  PROVE  NextEvent.turn = binding
<1> USE DEF IInv
<1>1. Pump
  <2>1. ~BeginTask /\ ~EndTask /\ ~DenyWhileBusy
    BY DEF BeginTask, EndTask, DenyWhileBusy, session
  <2>2. ~Start /\ ~Stop /\ ~Decide /\ ~NewSession /\ ~AgentStep
    BY DEF Start, Stop, Decide, NewSession, AgentStep, AgentReads, AgentAsks, AgentCompletes,
           AgentErrs, AgentExits, BadLine, AgentMoves, session
  <2>3. ~Receive
    BY DEF Receive, StartAnswered, CancelAnswered, Ended, CardInv, session
  <2>4. ~RequestFails /\ ~PumpEnds /\ ~NoticeStop
    BY DEF RequestFails, PumpEnds, NoticeStop, Ended, session
  <2> QED BY <2>1, <2>2, <2>3, <2>4 DEF Next, WorkerStep
<1> DEFINE m == NextEvent
<1>2. m.kind = "completed" /\ m \in Heard
  <2>1. m.kind = "completed"
    BY <1>1 DEF Pump, Ended, IsResponse
  <2>2. CASE events # <<>>
    <3>1. Head(events) \in Range(events)
      BY <2>2, Taken DEF TypeOK
    <3> QED BY <2>1, <2>2, <3>1 DEF NextEvent, Heard
  <2>3. CASE events = <<>>
    <3>1. Head(incoming) \in Range(incoming)
      BY <1>1, <2>3, Taken DEF Pump, TypeOK
    <3> QED BY <2>1, <2>3, <3>1 DEF NextEvent, Heard
  <2> QED BY <2>2, <2>3
<1> HIDE DEF m
<1>3. m.turn \in DOMAIN turns /\ turns[m.turn].start = lastStart
  BY <1>2 DEF MessageInv, HeardOK, LastInv
<1>4. binding \in DOMAIN turns /\ turns[binding].start = lastStart
  BY DEF BindingInv
<1>5. m.turn = binding
  BY <1>3, <1>4 DEF StartInv
<1> QED BY <1>5 DEF m

\* A turn is completed by its own end as long as no earlier turn of the session was
\* stopped and no start was given up: nothing of such a turn is left to be read.
THEOREM EndsAreOwn == RSpec => EndsByOwnEvent
<1> DEFINE Own == state = "Running" /\ state' = "Completed" /\ ~cut
                    => NextEvent.turn = binding
<1>1. ASSUME RInv, [RNext]_rvars PROVE [Own]_vars
  <2>1. SUFFICES ASSUME state = "Running", state' = "Completed", ~cut
                 PROVE  NextEvent.turn = binding
    OBVIOUS
  <2>2. life = "session" /\ IInv
    BY <1>1, <2>1 DEF RInv, Gone
  <2>3. Worker \/ User \/ Agent \/ OtherSession
    <3>1. ~Checkpoint /\ ~SaveSettings /\ ~StopApplication /\ ~StartApplication
          /\ (\A decision : ~Recover(decision)) /\ ~UNCHANGED rvars
      BY <2>1 DEF Checkpoint, SaveSettings, StopApplication, StartApplication, Recover,
                  rvars, vars, session
    <3> QED BY <1>1, <3>1 DEF RNext
  <2>4. Next
    BY <2>3 DEF Worker, User, Agent, OtherSession, Next
  <2> QED BY <2>1, <2>2, <2>4, OwnEnd
<1> QED BY <1>1, RecoveryFits, PTL DEF RSpec, EndsByOwnEvent

\* A turn that was under way when the application stopped stays in the list of the
\* recovery center until the user or the agent has given it up.
THEOREM CutTurnsAreListed == RSpec => []TurnsAreNotForgotten
<1>1. RInv => TurnsAreNotForgotten
  BY DEF RInv, FilesInv, TurnsAreNotForgotten, Listed, Shown
<1> QED BY <1>1, RecoveryFits, PTL

=============================================================================
