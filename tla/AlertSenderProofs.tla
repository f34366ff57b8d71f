------------------------- MODULE AlertSenderProofs -------------------------
(***************************************************************************)
(* Proofs about AlertSender, for every set of findings, queue size, number *)
(* of attempts and counter width.                                          *)
(***************************************************************************)
EXTENDS AlertSender, TLAPS

USE DEF None

\* Bump keeps every counter within its width.
LEMMA BumpType ==
    ASSUME NEW c \in Counters, counters \in [Counters -> 0 .. CounterModulus - 1],
           Bump(c)
    PROVE  counters' \in [Counters -> 0 .. CounterModulus - 1]
BY SenderAssumption DEF Bump, Wrap

\* A payload that is enqueued well typed leaves queue, open and counts well typed.
LEMMA EnqueueType ==
    ASSUME TypeOK, NEW p \in Payload,
           NEW opened \in [Ids -> Severities \cup {None}], enqueue(p, opened)
    PROVE  /\ open' \in [Ids -> Severities \cup {None}]
           /\ queue' \in Seq(Payload) /\ Len(queue') <= QueueSize
           /\ counters' \in [Counters -> 0 .. CounterModulus - 1]
           /\ enqueued' \in 0 .. CounterModulus - 1
           /\ full' \in BOOLEAN
<1>1. CASE Len(queue) < QueueSize
  <2>1. enqueued' \in 0 .. CounterModulus - 1
    BY <1>1, SenderAssumption DEF enqueue, TypeOK, Wrap
  <2>2. queue' \in Seq(Payload) /\ Len(queue') <= QueueSize
    <3>1. queue' = Append(queue, p) /\ queue \in Seq(Payload) /\ Len(queue) \in Nat
      BY <1>1 DEF enqueue, TypeOK
    <3> HIDE DEF Payload
    <3>2. queue' \in Seq(Payload) /\ Len(queue') = Len(queue) + 1
      BY <3>1
    <3> QED
      BY <1>1, <3>1, <3>2, SenderAssumption
  <2> QED
    BY <1>1, <2>1, <2>2 DEF enqueue, TypeOK
<1>2. CASE ~(Len(queue) < QueueSize)
  <2>1. counters' \in [Counters -> 0 .. CounterModulus - 1]
    BY <1>2, BumpType DEF enqueue, TypeOK, Counters
  <2> QED
    BY <1>2, <2>1 DEF enqueue, TypeOK
<1> QED
  BY <1>1, <1>2

\* The payloads Notify builds are payloads.
LEMMA PayloadType ==
    ASSUME NEW id \in Ids, NEW severity \in Severities,
           NEW previous \in Severities \cup {None}
    PROVE  /\ firingPayload(id, "firing", severity, previous) \in Payload
           /\ firingPayload(id, "escalated", severity, previous) \in Payload
           /\ severity = previous => resolvedPayload(id, previous) \in Payload
BY DEF firingPayload, resolvedPayload, Payload, Severities

\* TypeOK is inductive: no step of Notify, run, deliver or Close leaves the types,
\* the queue's capacity or the attempt limit.
LEMMA TypeStep == TypeOK /\ [Next]_vars => TypeOK'
<1> SUFFICES ASSUME TypeOK, [Next]_vars PROVE TypeOK'
  OBVIOUS
<1>1. CASE NotifyBegin
  BY <1>1 DEF NotifyBegin, TypeOK, workerVars, receiverVars
<1>2. ASSUME NEW id \in Ids, NotifyFinding(id) PROVE TypeOK'
  <2> DEFINE opened == [open EXCEPT ![id] = recs[id]]
  <2>1. Notifiable(id) => recs[id] \in Severities
    BY SenderAssumption DEF Notifiable, TypeOK
  <2>2. Notifiable(id) => opened \in [Ids -> Severities \cup {None}]
    BY <2>1 DEF TypeOK
  <2>3. /\ open' \in [Ids -> Severities \cup {None}]
        /\ queue' \in Seq(Payload) /\ Len(queue') <= QueueSize
        /\ counters' \in [Counters -> 0 .. CounterModulus - 1]
        /\ enqueued' \in 0 .. CounterModulus - 1
        /\ full' \in BOOLEAN
    <3>1. CASE ~Notifiable(id) /\ UNCHANGED senderVars
      BY <3>1 DEF TypeOK, senderVars
    <3>2. CASE Notifiable(id) /\ enqueue(firingPayload(id, "firing", recs[id], None), opened)
      <4>1. firingPayload(id, "firing", recs[id], None) \in Payload
        BY <2>1, <3>2, PayloadType
      <4> QED
        BY <2>2, <3>2, <4>1, EnqueueType
    <3>3. CASE Notifiable(id) /\ enqueue(firingPayload(id, "escalated", recs[id], open[id]), opened)
      <4>1. firingPayload(id, "escalated", recs[id], open[id]) \in Payload
        BY <2>1, <3>3, PayloadType DEF TypeOK
      <4> QED
        BY <2>2, <3>3, <4>1, EnqueueType
    <3>4. CASE Bump("suppressed") /\ UNCHANGED <<open, queue, enqueued, full>>
      BY <3>4, BumpType DEF TypeOK, Counters
    <3> QED
      BY <1>2, <3>1, <3>2, <3>3, <3>4 DEF NotifyFinding
  <2> QED
    BY <1>2, <2>3 DEF NotifyFinding, TypeOK, workerVars, receiverVars
<1>3. CASE NotifyResolutions
  BY <1>3 DEF NotifyResolutions, TypeOK, senderVars, workerVars, receiverVars
<1>4. ASSUME NEW id \in Ids, NotifyResolve(id) PROVE TypeOK'
  <2>1. resolvedPayload(id, open[id]) \in Payload
    BY DEF TypeOK, resolvedPayload, Payload, Severities
  <2>2. [open EXCEPT ![id] = None] \in [Ids -> Severities \cup {None}]
    BY DEF TypeOK
  <2>3. /\ open' \in [Ids -> Severities \cup {None}]
        /\ queue' \in Seq(Payload) /\ Len(queue') <= QueueSize
        /\ counters' \in [Counters -> 0 .. CounterModulus - 1]
        /\ enqueued' \in 0 .. CounterModulus - 1
        /\ full' \in BOOLEAN
    BY <1>4, <2>1, <2>2, EnqueueType DEF NotifyResolve
  <2> QED
    BY <1>4, <2>3 DEF NotifyResolve, TypeOK, workerVars, receiverVars
<1>5. CASE NotifyReturn
  BY <1>5 DEF NotifyReturn, TypeOK, senderVars, workerVars, receiverVars
<1>6. CASE WorkerTake
  <2>1. Head(queue) \in Payload /\ Tail(queue) \in Seq(Payload) /\ Len(Tail(queue)) <= QueueSize
    BY <1>6, SenderAssumption DEF WorkerTake, TypeOK
  <2> QED
    BY <1>6, <2>1, SenderAssumption DEF WorkerTake, TypeOK, notifyVars
<1>7. CASE WorkerStop
  BY <1>7 DEF WorkerStop, TypeOK, senderVars, notifyVars, receiverVars
<1>8. CASE WorkerReturn
  BY <1>8 DEF WorkerReturn, TypeOK, senderVars, notifyVars, receiverVars
<1>9. ASSUME NEW outcome \in Outcomes, Post(outcome) PROVE TypeOK'
  <2>1. PICK p \in Payload : current = <<p>>
    BY <1>9 DEF Post, TypeOK
  <2>2. p.id \in Ids /\ Tells(p) \in Severities \cup {None}
    BY DEF Payload, Tells
  <2>3. /\ view' \in [Ids -> Severities \cup {None}]
        /\ attempt' \in 1 .. DeliveryAttempts
    BY <1>9, <2>1, <2>2, SenderAssumption DEF Post, ReceiverAccepts, DeliverReturns, TypeOK
  <2>4. counters' \in [Counters -> 0 .. CounterModulus - 1]
    BY <1>9, BumpType DEF Post, TypeOK, Counters
  <2>5. \/ wpc' \in {"select", "drain"} /\ current' = <<>>
        \/ wpc' = "backoff" /\ current' = <<p>>
    BY <1>9, <2>1 DEF Post, DeliverReturns
  <2>6. lost' \in SUBSET Ids
    BY <1>9, <2>1, <2>2 DEF Post, TypeOK
  <2> QED
    BY <1>9, <2>3, <2>4, <2>5, <2>6 DEF Post, TypeOK, notifyVars
<1>10. CASE BackoffEnds
  BY <1>10 DEF BackoffEnds, TypeOK, senderVars, notifyVars, receiverVars
<1>11. CASE CollectorReturns
  BY <1>11 DEF CollectorReturns, TypeOK, senderVars, notifyVars, workerVars, receiverVars
<1>12. CASE CloseBegin
  BY <1>12 DEF CloseBegin, TypeOK, senderVars, notifyVars, workerVars, receiverVars
<1>13. CASE CloseReturns
  BY <1>13 DEF CloseReturns, TypeOK, senderVars, notifyVars, workerVars, receiverVars
<1>14. CASE UNCHANGED vars
  BY <1>14 DEF TypeOK, vars
<1> QED
  BY <1>1, <1>2, <1>3, <1>4, <1>5, <1>6, <1>7, <1>8, <1>9, <1>10, <1>11, <1>12,
     <1>13, <1>14 DEF Next, Notify, Worker, Client, Terminated

\* The sender keeps to its types, its queue to its capacity and deliver to its
\* attempts, in every run.
THEOREM TypeCorrect == Spec => []TypeOK
<1>1. Init => TypeOK
  <2> SUFFICES ASSUME Init PROVE TypeOK
    OBVIOUS
  <2>1. queue \in Seq(Payload) /\ Len(queue) <= QueueSize
    BY SenderAssumption DEF Init
  <2>2. /\ counters \in [Counters -> 0 .. CounterModulus - 1]
        /\ enqueued \in 0 .. CounterModulus - 1
        /\ attempt \in 1 .. DeliveryAttempts
    BY SenderAssumption DEF Init
  <2> QED
    BY <2>1, <2>2 DEF Init, TypeOK
<1> QED
  BY <1>1, TypeStep, PTL DEF Spec

-----------------------------------------------------------------------------
(* Shutdown *)

\* The order of shutdown is inductive: collector, then Close, then the drain.
LEMMA ShutdownStep == TypeOK /\ ShutdownInv /\ [Next]_vars => ShutdownInv'
<1> SUFFICES ASSUME TypeOK, ShutdownInv, [Next]_vars PROVE ShutdownInv'
  OBVIOUS
<1> USE DEF ShutdownInv
<1>1. CASE NotifyBegin
  BY <1>1 DEF NotifyBegin, workerVars
<1>2. ASSUME NEW id \in Ids, NotifyFinding(id) PROVE ShutdownInv'
  BY <1>2 DEF NotifyFinding, workerVars
<1>3. CASE NotifyResolutions
  BY <1>3 DEF NotifyResolutions, senderVars, workerVars
<1>4. ASSUME NEW id \in Ids, NotifyResolve(id) PROVE ShutdownInv'
  BY <1>4 DEF NotifyResolve, workerVars
<1>5. CASE NotifyReturn
  BY <1>5 DEF NotifyReturn, senderVars, workerVars
<1>6. CASE WorkerTake
  BY <1>6 DEF WorkerTake, notifyVars
<1>7. CASE WorkerStop
  BY <1>7 DEF WorkerStop, senderVars, notifyVars
<1>8. CASE WorkerReturn
  BY <1>8 DEF WorkerReturn, senderVars, notifyVars
<1>9. ASSUME NEW outcome \in Outcomes, Post(outcome) PROVE ShutdownInv'
  BY <1>9 DEF Post, DeliverReturns, notifyVars
<1>10. CASE BackoffEnds
  BY <1>10 DEF BackoffEnds, senderVars, notifyVars
<1>11. CASE CollectorReturns
  BY <1>11 DEF CollectorReturns, senderVars, notifyVars, workerVars
<1>12. CASE CloseBegin
  BY <1>12 DEF CloseBegin, senderVars, notifyVars, workerVars
<1>13. CASE CloseReturns
  BY <1>13 DEF CloseReturns, senderVars, notifyVars, workerVars
<1>14. CASE UNCHANGED vars
  BY <1>14 DEF vars
<1> QED
  BY <1>1, <1>2, <1>3, <1>4, <1>5, <1>6, <1>7, <1>8, <1>9, <1>10, <1>11, <1>12,
     <1>13, <1>14 DEF Next, Notify, Worker, Client, Terminated

\* ShutdownInv holds throughout.
LEMMA ShutdownCorrect == Spec => []ShutdownInv
<1>1. Init => ShutdownInv
  BY DEF Init, ShutdownInv
<1> QED
  BY <1>1, ShutdownStep, TypeCorrect, PTL DEF Spec

\* When Close returns, every payload that was ever queued has been attempted: the
\* drain on SIGTERM loses nothing, for any queue size.
THEOREM Drained == Spec => []ClosedMeansDrained
<1>1. TypeOK /\ ShutdownInv => ClosedMeansDrained
  BY DEF TypeOK, ShutdownInv, ClosedMeansDrained, Pending
<1> QED
  BY <1>1, TypeCorrect, ShutdownCorrect, PTL

-----------------------------------------------------------------------------
(* Notify *)

\* What enqueue does to `open' and `full', whatever it does to the queue.
LEMMA EnqueueEffect ==
    ASSUME NEW p, NEW opened, enqueue(p, opened)
    PROVE  \/ Len(queue) < QueueSize /\ open' = opened /\ full' = full
              /\ queue' = Append(queue, p)
           \/ full' = TRUE /\ open' = open /\ queue' = queue
BY DEF enqueue

\* NotifyInv is inductive: each loop iteration makes the finding it visits
\* tracked, unless the queue is full, and disturbs no other.
LEMMA NotifyStep == TypeOK /\ NotifyInv /\ [Next]_vars => NotifyInv'
<1> SUFFICES ASSUME TypeOK, NotifyInv, [Next]_vars PROVE NotifyInv'
  OBVIOUS
<1> DEFINE Same == UNCHANGED <<npc, recs, todo, open, full>>
<1>0. ASSUME Same PROVE NotifyInv'
  BY <1>0 DEF NotifyInv, OpenTracksFindings, Tracked, Notifiable
<1>1. CASE NotifyBegin
  BY <1>1 DEF NotifyBegin, NotifyInv, OpenTracksFindings, Notifiable, TypeOK
<1>2. ASSUME NEW id \in Ids, NotifyFinding(id) PROVE NotifyInv'
  <2>0. npc = "findings" /\ npc' = "findings" /\ recs' = recs /\ todo' = todo \ {id}
    BY <1>2 DEF NotifyFinding
  <2>1. CASE UNCHANGED <<open, full>> /\ (~Notifiable(id) \/ Tracked(id))
    BY <2>0, <2>1 DEF NotifyInv, OpenTracksFindings, Tracked, Notifiable
  <2>2. CASE Notifiable(id) /\ open' = [open EXCEPT ![id] = recs[id]] /\ full' = full
    <3>1. Tracked(id)'
      BY <2>0, <2>2 DEF Tracked, Notifiable, TypeOK, Rank
    <3>2. \A x \in Ids \ {id} : open'[x] = open[x]
      BY <2>2 DEF TypeOK
    <3> QED
      BY <2>0, <2>2, <3>1, <3>2 DEF NotifyInv, OpenTracksFindings, Tracked, Notifiable
  <2>3. CASE full' = TRUE
    BY <2>0, <2>3 DEF NotifyInv, OpenTracksFindings
  <2>4. Notifiable(id) /\ open[id] # None /\ ~(Rank(recs[id]) < Rank(open[id])) => Tracked(id)
    BY DEF Tracked, Rank
  <2> QED
    BY <1>2, <2>1, <2>2, <2>3, <2>4, EnqueueEffect DEF NotifyFinding, senderVars
<1>3. CASE NotifyResolutions
  BY <1>3 DEF NotifyResolutions, NotifyInv, OpenTracksFindings, Tracked, Notifiable, senderVars
<1>4. ASSUME NEW id \in Ids, NotifyResolve(id) PROVE NotifyInv'
  <2>0. /\ npc = "resolutions" /\ npc' = "resolutions" /\ recs' = recs
        /\ id \in todo /\ todo' = todo \ {id}
    BY <1>4 DEF NotifyResolve
  <2>1. \A x \in Ids \ {id} : open'[x] = open[x]
    BY <1>4, EnqueueEffect DEF NotifyResolve, TypeOK
  <2>2. CASE open' = [open EXCEPT ![id] = None] /\ full' = full
    <3>1. Tracked(id)'
      BY <2>0, <2>2 DEF NotifyInv, Tracked, Notifiable, TypeOK
    <3> QED
      BY <2>0, <2>1, <2>2, <3>1 DEF NotifyInv, OpenTracksFindings, Tracked, Notifiable, TypeOK
  <2>3. CASE full' = TRUE
    BY <2>0, <2>1, <2>3 DEF NotifyInv, OpenTracksFindings, Notifiable, TypeOK
  <2> QED
    BY <1>4, <2>2, <2>3, EnqueueEffect DEF NotifyResolve
<1>5. CASE NotifyReturn
  BY <1>5 DEF NotifyReturn, NotifyInv, OpenTracksFindings, Tracked, Notifiable, senderVars
<1>6. CASE Worker
  <2>1. Same
    BY <1>6 DEF Worker, WorkerTake, WorkerStop, WorkerReturn, Post, BackoffEnds,
                senderVars, notifyVars
  <2> QED
    BY <1>0, <2>1
<1>7. CASE Client
  <2>1. Same
    BY <1>7 DEF Client, CollectorReturns, CloseBegin, CloseReturns, senderVars, notifyVars
  <2> QED
    BY <1>0, <2>1
<1>8. CASE UNCHANGED vars
  BY <1>0, <1>8 DEF vars
<1> QED
  BY <1>1, <1>2, <1>3, <1>4, <1>5, <1>6, <1>7, <1>8 DEF Next, Notify, Terminated

\* NotifyInv holds throughout.
LEMMA NotifyCorrect == Spec => []NotifyInv
<1>1. Init => NotifyInv
  BY DEF Init, NotifyInv, OpenTracksFindings, Tracked, Notifiable
<1> QED
  BY <1>1, NotifyStep, TypeCorrect, PTL DEF Spec

\* An evaluation that meets no full queue leaves exactly the notifiable findings
\* open, whatever the order of the findings and of the map iteration.
THEOREM OpenTracks == Spec => []OpenTracksFindings
<1>1. NotifyInv => OpenTracksFindings
  BY DEF NotifyInv
<1> QED
  BY <1>1, NotifyCorrect, PTL

-----------------------------------------------------------------------------
(* Counters *)

\* What the counters have yet to account for, but for their width.
Unaccounted == counters["sent"] + counters["failed"] + Len(current) + Len(queue) - enqueued

\* Multiples of the width stay multiples when the width is added or taken away.
LEMMA MultiplesStep ==
    ASSUME NEW M \in Nat \ {0}, NEW a \in Int, a % M = 0
    PROVE  (a + M) % M = 0 /\ (a - M) % M = 0
<1> DEFINE k == a \div M
<1>1. k \in Int /\ a = M * k
  OBVIOUS
<1> HIDE DEF k
<1>2. a + M = (k + 1) * M /\ a - M = (k - 1) * M
  BY <1>1
<1>3. k + 1 \in Int /\ k - 1 \in Int
  BY <1>1
<1>4. \A n \in Int : (n * M) % M = 0
  OBVIOUS
<1> QED
  BY <1>2, <1>3, <1>4

\* A counter goes up by one, or from the end of its width to zero.
LEMMA WrapAddsOne ==
    ASSUME NEW n \in 0 .. CounterModulus - 1
    PROVE  /\ n \in Int /\ Wrap(n) \in Int
           /\ Wrap(n) = n + 1 \/ Wrap(n) = n + 1 - CounterModulus
BY SenderAssumption DEF Wrap

LEMMA EnqueueCounts ==
    ASSUME TypeOK, NEW p \in Payload, NEW opened, enqueue(p, opened)
    PROVE  /\ counters'["sent"] = counters["sent"] /\ counters'["failed"] = counters["failed"]
           /\ \/ Len(queue') = Len(queue) + 1 /\ enqueued' = Wrap(enqueued)
              \/ Len(queue') = Len(queue) /\ enqueued' = enqueued
<1>1. CASE Len(queue) < QueueSize
  <2>1. queue' = Append(queue, p) /\ queue \in Seq(Payload)
    BY <1>1 DEF enqueue, TypeOK
  <2>2. Len(queue') = Len(queue) + 1
    <3> HIDE DEF Payload
    <3> QED
      BY <2>1
  <2> QED
    BY <1>1, <2>2 DEF enqueue
<1>2. CASE ~(Len(queue) < QueueSize)
  BY <1>2 DEF enqueue, Bump, TypeOK, Counters
<1> QED
  BY <1>1, <1>2

\* Each step leaves what is unaccounted for as it is, up to one wrap of a counter.
LEMMA CountStep ==
    ASSUME TypeOK, TypeOK', [Next]_vars
    PROVE  /\ Unaccounted \in Int
           /\ \/ Unaccounted' = Unaccounted
              \/ Unaccounted' = Unaccounted + CounterModulus
              \/ Unaccounted' = Unaccounted - CounterModulus
<1> DEFINE Good == \/ Unaccounted' = Unaccounted
                   \/ Unaccounted' = Unaccounted + CounterModulus
                   \/ Unaccounted' = Unaccounted - CounterModulus
<1>1. /\ counters["sent"] \in 0 .. CounterModulus - 1
      /\ counters["failed"] \in 0 .. CounterModulus - 1
      /\ enqueued \in 0 .. CounterModulus - 1
      /\ Len(queue) \in Nat /\ Len(current) \in Nat /\ CounterModulus \in Nat
  BY SenderAssumption DEF TypeOK, Counters
<1>2. Unaccounted \in Int
  BY <1>1 DEF Unaccounted
<1>0. Unaccounted = counters["sent"] + counters["failed"] + Len(current) + Len(queue) - enqueued
  BY DEF Unaccounted
<1> SUFFICES Good
  BY <1>2
<1>3. CASE UNCHANGED <<counters, queue, current, enqueued>>
  BY <1>3 DEF Unaccounted
<1>4. ASSUME NEW p \in Payload, NEW opened, enqueue(p, opened), current' = current PROVE Good
  <2>1. counters'["sent"] = counters["sent"] /\ counters'["failed"] = counters["failed"]
    BY <1>4, EnqueueCounts
  <2>2. CASE Len(queue') = Len(queue) /\ enqueued' = enqueued
    BY <1>4, <2>1, <2>2 DEF Unaccounted
  <2>3. CASE Len(queue') = Len(queue) + 1 /\ enqueued' = Wrap(enqueued)
    <3>1. enqueued' = enqueued + 1 \/ enqueued' = enqueued + 1 - CounterModulus
      BY <1>1, <2>3, WrapAddsOne
    <3>2. Unaccounted' = counters["sent"] + counters["failed"] + Len(current) + (Len(queue) + 1)
                         - enqueued'
      BY <1>4, <2>1, <2>3 DEF Unaccounted
    <3>3. enqueued' = enqueued + 1 => Unaccounted' = Unaccounted
      BY <1>0, <1>1, <3>2
    <3>4. enqueued' = enqueued + 1 - CounterModulus => Unaccounted' = Unaccounted + CounterModulus
      BY <1>0, <1>1, <3>2
    <3> QED
      BY <3>1, <3>3, <3>4
  <2> QED
    BY <1>4, <2>2, <2>3, EnqueueCounts
<1>5. ASSUME NEW id \in Ids, NotifyFinding(id) PROVE Good
  <2>1. current' = current /\ (Notifiable(id) => recs[id] \in Severities)
    BY <1>5, SenderAssumption DEF NotifyFinding, workerVars, Notifiable, TypeOK
  <2>2. CASE UNCHANGED senderVars
    BY <1>3, <2>1, <2>2 DEF senderVars
  <2>3. CASE /\ Notifiable(id)
             /\ enqueue(firingPayload(id, "firing", recs[id], None), [open EXCEPT ![id] = recs[id]])
    BY <1>4, <2>1, <2>3, PayloadType
  <2>4. CASE /\ Notifiable(id)
             /\ enqueue(firingPayload(id, "escalated", recs[id], open[id]),
                        [open EXCEPT ![id] = recs[id]])
    BY <1>4, <2>1, <2>4, PayloadType DEF TypeOK
  <2>5. CASE Bump("suppressed") /\ UNCHANGED <<open, queue, enqueued, full>>
    BY <1>1, <2>1, <2>5 DEF Bump, Unaccounted, TypeOK, Counters
  <2> QED
    BY <1>5, <2>2, <2>3, <2>4, <2>5 DEF NotifyFinding
<1>6. ASSUME NEW id \in Ids, NotifyResolve(id) PROVE Good
  <2>1. resolvedPayload(id, open[id]) \in Payload
    BY DEF TypeOK, resolvedPayload, Payload, Severities
  <2> QED
    BY <1>4, <1>6, <2>1 DEF NotifyResolve, workerVars
<1>7. CASE WorkerTake
  <2>1. current = <<>> /\ queue # <<>> /\ current' = <<Head(queue)>> /\ queue' = Tail(queue)
        /\ counters' = counters /\ enqueued' = enqueued
    BY <1>7 DEF WorkerTake, TypeOK
  <2>2. Len(queue') = Len(queue) - 1 /\ Len(current) = 0 /\ Len(current') = 1
    BY <2>1 DEF TypeOK
  <2> QED
    BY <1>1, <2>1, <2>2 DEF Unaccounted
<1>8. ASSUME NEW outcome \in Outcomes, Post(outcome) PROVE Good
  <2>1. queue' = queue /\ enqueued' = enqueued
    BY <1>8 DEF Post
  <2>2. Len(current) = 1
    BY <1>8 DEF Post, TypeOK
  <2>3. CASE UNCHANGED <<counters, current>>
    BY <2>1, <2>3 DEF Unaccounted
  <2>4. CASE Bump("sent") /\ current' = <<>>
    <3>1. counters'["sent"] = Wrap(counters["sent"]) /\ counters'["failed"] = counters["failed"]
          /\ Len(current') = 0
      BY <2>4 DEF Bump, TypeOK, Counters
    <3>2. \/ counters'["sent"] = counters["sent"] + 1
          \/ counters'["sent"] = counters["sent"] + 1 - CounterModulus
      BY <1>1, <3>1, WrapAddsOne
    <3>3. Unaccounted' = counters'["sent"] + counters'["failed"] + 0 + Len(queue) - enqueued
      BY <2>1, <3>1 DEF Unaccounted
    <3>4. counters'["sent"] = counters["sent"] + 1 => Unaccounted' = Unaccounted
      BY <1>0, <1>1, <2>2, <3>1, <3>3
    <3>5. counters'["sent"] = counters["sent"] + 1 - CounterModulus
             => Unaccounted' = Unaccounted - CounterModulus
      BY <1>0, <1>1, <2>2, <3>1, <3>3
    <3> QED
      BY <3>2, <3>4, <3>5
  <2>5. CASE Bump("failed") /\ current' = <<>>
    <3>1. counters'["failed"] = Wrap(counters["failed"]) /\ counters'["sent"] = counters["sent"]
          /\ Len(current') = 0
      BY <2>5 DEF Bump, TypeOK, Counters
    <3>2. \/ counters'["failed"] = counters["failed"] + 1
          \/ counters'["failed"] = counters["failed"] + 1 - CounterModulus
      BY <1>1, <3>1, WrapAddsOne
    <3>3. Unaccounted' = counters'["sent"] + counters'["failed"] + 0 + Len(queue) - enqueued
      BY <2>1, <3>1 DEF Unaccounted
    <3>4. counters'["failed"] = counters["failed"] + 1 => Unaccounted' = Unaccounted
      BY <1>0, <1>1, <2>2, <3>1, <3>3
    <3>5. counters'["failed"] = counters["failed"] + 1 - CounterModulus
             => Unaccounted' = Unaccounted - CounterModulus
      BY <1>0, <1>1, <2>2, <3>1, <3>3
    <3> QED
      BY <3>2, <3>4, <3>5
  <2> QED
    BY <1>8, <2>3, <2>4, <2>5 DEF Post, DeliverReturns
<1>9. CASE NotifyBegin \/ NotifyResolutions \/ NotifyReturn
  BY <1>3, <1>9 DEF NotifyBegin, NotifyResolutions, NotifyReturn, senderVars, workerVars
<1>10. CASE WorkerStop \/ WorkerReturn \/ BackoffEnds
  BY <1>3, <1>10 DEF WorkerStop, WorkerReturn, BackoffEnds, senderVars
<1>11. CASE Client
  BY <1>3, <1>11 DEF Client, CollectorReturns, CloseBegin, CloseReturns, senderVars, workerVars
<1>12. CASE UNCHANGED vars
  BY <1>3, <1>12 DEF vars
<1>13. Good
  BY <1>5, <1>6, <1>7, <1>8, <1>9, <1>10, <1>11, <1>12 DEF Next, Notify, Worker, Terminated
<1> QED
  BY <1>2, <1>13

\* Every payload that entered the queue is sent, failed, in delivery or still queued,
\* however often the counters have wrapped around.
THEOREM Accounted == Spec => []CountersAddUp
<1> DEFINE AllAccounted == Unaccounted % CounterModulus = 0
<1>1. Init => AllAccounted
  <2> SUFFICES ASSUME Init PROVE AllAccounted
    OBVIOUS
  <2>1. Unaccounted = 0 * CounterModulus
    BY SenderAssumption DEF Init, Unaccounted, Counters
  <2>2. (0 * CounterModulus) % CounterModulus = 0
    BY SenderAssumption
  <2> QED
    BY <2>1, <2>2
<1>2. TypeOK /\ TypeOK' /\ AllAccounted /\ [Next]_vars => AllAccounted'
  <2> SUFFICES ASSUME TypeOK, TypeOK', AllAccounted, [Next]_vars PROVE AllAccounted'
    OBVIOUS
  <2>1. CounterModulus \in Nat \ {0}
    BY SenderAssumption
  <2> QED
    BY <2>1, CountStep, MultiplesStep
<1>3. TypeOK /\ AllAccounted => CountersAddUp
  <2> SUFFICES ASSUME TypeOK, AllAccounted PROVE CountersAddUp
    OBVIOUS
  <2>1. current \in Seq(Payload) /\ queue \in Seq(Payload)
    <3>1. current = <<>> \/ \E p \in Payload : current = <<p>>
      BY DEF TypeOK
    <3>2. queue \in Seq(Payload)
      BY DEF TypeOK
    <3>3. <<>> \in Seq(Payload) /\ \A p \in Payload : <<p>> \in Seq(Payload)
      <4> HIDE DEF Payload
      <4> QED
        OBVIOUS
    <3> QED
      BY <3>1, <3>2, <3>3
  <2>2. Len(Pending) = Len(current) + Len(queue)
    <3> HIDE DEF Payload
    <3> QED
      BY <2>1 DEF Pending
  <2>3. counters["sent"] + counters["failed"] + Len(Pending) - enqueued = Unaccounted
    BY <2>1, <2>2 DEF Unaccounted, TypeOK, Counters
  <2> QED
    BY <2>3 DEF CountersAddUp
<1> QED
  BY <1>1, <1>2, <1>3, TypeCorrect, PTL DEF Spec

-----------------------------------------------------------------------------
(* The pending payloads, and the receiver *)

\* The payload in delivery, if any, is a sequence like the queue.
LEMMA CurrentType == TypeOK => queue \in Seq(Payload) /\ current \in Seq(Payload)
<1> SUFFICES ASSUME TypeOK PROVE current \in Seq(Payload)
  BY DEF TypeOK
<1> HIDE DEF Payload
<1>1. CASE current = <<>>
  BY <1>1
<1>2. CASE \E p \in Payload : current = <<p>>
  BY <1>2
<1> QED
  BY <1>1, <1>2 DEF TypeOK

\* Enqueuing appends to the pending payloads.
LEMMA PendingAppend ==
    ASSUME TypeOK, NEW p \in Payload, queue' = Append(queue, p), UNCHANGED current
    PROVE  Pending' = Append(Pending, p)
<1> HIDE DEF Payload
<1>1. queue \in Seq(Payload) /\ current \in Seq(Payload)
  BY CurrentType
<1>2. current \o Append(queue, p) = Append(current \o queue, p)
  BY <1>1
<1> QED
  BY <1>2 DEF Pending

\* Taking a payload from the channel only moves it into delivery.
LEMMA PendingTake ==
    ASSUME TypeOK, WorkerTake
    PROVE  Pending' = Pending
<1> HIDE DEF Payload
<1>1. queue \in Seq(Payload) /\ queue # <<>> /\ current = <<>>
  BY DEF TypeOK, WorkerTake
<1>2. <<Head(queue)>> \o Tail(queue) = <<>> \o queue
  BY <1>1
<1> QED
  BY <1>1, <1>2 DEF Pending, WorkerTake

\* A settled payload is the oldest pending one.
LEMMA PendingSettle ==
    ASSUME TypeOK, wpc = "post", current' = <<>>, queue' = queue
    PROVE  /\ Pending # <<>>
           /\ current[1] = Head(Pending)
           /\ Pending' = Tail(Pending)
<1> HIDE DEF Payload
<1>1. PICK p \in Payload : current = <<p>>
  BY DEF TypeOK
<1>2. queue \in Seq(Payload)
  BY DEF TypeOK
<1>3. /\ <<p>> \o queue # <<>>
      /\ Head(<<p>> \o queue) = p
      /\ Tail(<<p>> \o queue) = queue
  BY <1>2
<1>4. <<>> \o queue = queue
  BY <1>2
<1> QED
  BY <1>1, <1>3, <1>4 DEF Pending

\* The pending payloads are payloads.
LEMMA PendingType == TypeOK => Pending \in Seq(Payload)
<1> HIDE DEF Payload
<1> QED
  BY CurrentType DEF Pending

\* A payload appended to a sequence becomes the last one about its finding and
\* leaves the last one about any other as it was.
LEMMA LastAppend ==
    ASSUME NEW s \in Seq(Payload), NEW p \in Payload, NEW id, NEW told
    PROVE  /\ id = p.id => LastTells(Append(s, p), id, Tells(p))
           /\ id # p.id /\ LastTells(s, id, told) => LastTells(Append(s, p), id, told)
           /\ id # p.id /\ Absent(s, id) => Absent(Append(s, p), id)
<1> DEFINE t == Append(s, p)
<1> HIDE DEF Payload
<1>1. /\ Len(s) \in Nat /\ DOMAIN s = 1 .. Len(s)
      /\ DOMAIN t = 1 .. Len(s) + 1
      /\ t[Len(s) + 1] = p
      /\ \A i \in 1 .. Len(s) : t[i] = s[i]
  OBVIOUS
<1> HIDE DEF t
<1>2. id = p.id => LastTells(t, id, Tells(p))
  BY <1>1 DEF LastTells
<1>3. ASSUME id # p.id, LastTells(s, id, told) PROVE LastTells(t, id, told)
  <2>1. PICK i \in DOMAIN s : /\ s[i].id = id /\ Tells(s[i]) = told
                              /\ \A j \in DOMAIN s : j > i => s[j].id # id
    BY <1>3 DEF LastTells
  <2>2. t[i].id = id /\ Tells(t[i]) = told /\ i \in DOMAIN t
    BY <1>1, <2>1
  <2>3. \A j \in DOMAIN t : j > i => t[j].id # id
    BY <1>1, <1>3, <2>1
  <2> QED
    BY <2>2, <2>3 DEF LastTells
<1>4. id # p.id /\ Absent(s, id) => Absent(t, id)
  BY <1>1 DEF Absent
<1> QED
  BY <1>2, <1>3, <1>4 DEF t

\* Removing the oldest payload either leaves the last one about a finding in
\* place, or removed it, and then none about the finding is left.
LEMMA LastTail ==
    ASSUME NEW s \in Seq(Payload), s # <<>>, NEW id, NEW told
    PROVE  /\ LastTells(s, id, told) =>
                 \/ LastTells(Tail(s), id, told)
                 \/ Absent(Tail(s), id) /\ Head(s).id = id /\ Tells(Head(s)) = told
           /\ Absent(s, id) => Absent(Tail(s), id) /\ Head(s).id # id
<1> DEFINE t == Tail(s)
<1> HIDE DEF Payload
<1>1. /\ Len(s) \in Nat \ {0} /\ DOMAIN s = 1 .. Len(s)
      /\ DOMAIN t = 1 .. Len(s) - 1
      /\ Head(s) = s[1]
      /\ \A i \in 1 .. Len(s) - 1 : t[i] = s[i + 1]
  OBVIOUS
<1> HIDE DEF t
<1>2. ASSUME LastTells(s, id, told)
      PROVE  \/ LastTells(t, id, told)
             \/ Absent(t, id) /\ Head(s).id = id /\ Tells(Head(s)) = told
  <2>1. PICK i \in DOMAIN s : /\ s[i].id = id /\ Tells(s[i]) = told
                              /\ \A j \in DOMAIN s : j > i => s[j].id # id
    BY <1>2 DEF LastTells
  <2>2. CASE i = 1
    <3>1. Absent(t, id)
      BY <1>1, <2>1, <2>2 DEF Absent
    <3> QED
      BY <1>1, <2>1, <2>2, <3>1
  <2>3. CASE i # 1
    <3>1. i - 1 \in DOMAIN t /\ t[i - 1] = s[i]
      BY <1>1, <2>1, <2>3
    <3>2. ASSUME NEW j \in DOMAIN t, j > i - 1 PROVE t[j].id # id
      <4>1. j + 1 \in DOMAIN s /\ j + 1 > i /\ t[j] = s[j + 1]
        BY <1>1, <2>1, <3>2
      <4> QED
        BY <2>1, <4>1
    <3> QED
      BY <2>1, <3>1, <3>2 DEF LastTells
  <2> QED
    BY <2>2, <2>3
<1>3. Absent(s, id) => Absent(t, id) /\ Head(s).id # id
  BY <1>1 DEF Absent
<1> QED
  BY <1>2, <1>3 DEF t

\* Enqueuing a payload that tells what it records keeps ReceiverInv.
LEMMA ReceiverEnqueue ==
    ASSUME TypeOK, ReceiverInv, NEW id \in Ids, NEW p \in Payload, p.id = id,
           NEW told \in Severities \cup {None}, Tells(p) = told,
           enqueue(p, [open EXCEPT ![id] = told]),
           UNCHANGED workerVars, UNCHANGED receiverVars
    PROVE  ReceiverInv'
<1>0. UNCHANGED <<current, view, lost>>
  BY DEF workerVars, receiverVars
<1>1. CASE open' = [open EXCEPT ![id] = told] /\ queue' = Append(queue, p)
  <2>1. Pending' = Append(Pending, p)
    BY <1>0, <1>1, PendingAppend
  <2>2. open'[id] = told /\ \A x \in Ids : x # id => open'[x] = open[x]
    BY <1>1 DEF TypeOK
  <2>3. LastTells(Pending', id, open'[id])
    BY <2>1, <2>2, PendingType, LastAppend
  <2>4. ASSUME NEW x \in Ids, x # id
        PROVE  \/ LastTells(Pending', x, open'[x])
               \/ Absent(Pending', x) /\ (x \in lost' \/ view'[x] = open'[x])
    <3>1. \/ LastTells(Pending, x, open[x])
          \/ Absent(Pending, x) /\ (x \in lost \/ view[x] = open[x])
      BY DEF ReceiverInv
    <3>2. /\ LastTells(Pending, x, open[x]) => LastTells(Pending', x, open[x])
          /\ Absent(Pending, x) => Absent(Pending', x)
      BY <2>1, <2>4, PendingType, LastAppend
    <3> QED
      BY <1>0, <2>2, <2>4, <3>1, <3>2
  <2> QED
    BY <2>3, <2>4 DEF ReceiverInv
<1>2. CASE open' = open /\ queue' = queue
  BY <1>0, <1>2 DEF ReceiverInv, Pending
<1> QED
  BY <1>1, <1>2, EnqueueEffect

\* ReceiverInv is inductive: enqueuing tells what is recorded, and settling the
\* oldest payload either updates the receiver's picture or marks it as lost.
LEMMA ReceiverStep == TypeOK /\ ReceiverInv /\ [Next]_vars => ReceiverInv'
<1> SUFFICES ASSUME TypeOK, ReceiverInv, [Next]_vars PROVE ReceiverInv'
  OBVIOUS
<1>0. ASSUME Pending' = Pending, UNCHANGED <<open, view, lost>> PROVE ReceiverInv'
  BY <1>0 DEF ReceiverInv
<1>1. ASSUME NEW id \in Ids, NotifyFinding(id) PROVE ReceiverInv'
  <2>1. UNCHANGED workerVars /\ UNCHANGED receiverVars
    BY <1>1 DEF NotifyFinding
  <2>2. CASE UNCHANGED <<open, queue>>
    BY <1>0, <2>1, <2>2 DEF Pending, workerVars, receiverVars
  <2>3. ASSUME Notifiable(id),
               NEW event \in {"firing", "escalated"}, NEW previous \in Severities \cup {None},
               enqueue(firingPayload(id, event, recs[id], previous),
                       [open EXCEPT ![id] = recs[id]])
        PROVE  ReceiverInv'
    <3> DEFINE p == firingPayload(id, event, recs[id], previous)
    <3>1. recs[id] \in Severities
      BY <2>3, SenderAssumption DEF Notifiable, TypeOK
    <3>2. p \in Payload
      BY <2>3, <3>1, PayloadType
    <3>3. p.id = id /\ Tells(p) = recs[id]
      BY <2>3 DEF firingPayload, Tells
    <3> QED
      BY <2>1, <2>3, <3>1, <3>2, <3>3, ReceiverEnqueue
  <2>4. open[id] \in Severities \cup {None} /\ None \in Severities \cup {None}
    BY DEF TypeOK
  <2> QED
    BY <1>1, <2>2, <2>3, <2>4 DEF NotifyFinding, senderVars
<1>2. ASSUME NEW id \in Ids, NotifyResolve(id) PROVE ReceiverInv'
  <2> DEFINE p == resolvedPayload(id, open[id])
  <2>1. p \in Payload /\ p.id = id /\ Tells(p) = None
    BY DEF TypeOK, resolvedPayload, Payload, Severities, Tells
  <2> QED
    BY <1>2, <2>1, ReceiverEnqueue DEF NotifyResolve
<1>3. CASE WorkerTake
  BY <1>0, <1>3, PendingTake DEF WorkerTake
<1>4. ASSUME NEW outcome \in Outcomes, Post(outcome) PROVE ReceiverInv'
  <2> DEFINE p == current[1]
  <2>0. wpc = "post" /\ queue' = queue /\ open' = open
    BY <1>4 DEF Post
  <2>1. \A x \in Ids : x # p.id => view'[x] = view[x] /\ (x \in lost => x \in lost')
    BY <1>4 DEF Post, ReceiverAccepts, TypeOK
  <2>2. CASE current' = current
    <3>1. Pending' = Pending /\ p = Pending[1] /\ 1 \in DOMAIN Pending
      <4>1. PICK q \in Payload : current = <<q>>
        BY <2>0 DEF TypeOK
      <4>2. queue \in Seq(Payload)
        BY DEF TypeOK
      <4> HIDE DEF Payload
      <4>3. 1 \in DOMAIN (<<q>> \o queue) /\ (<<q>> \o queue)[1] = q
        BY <4>2
      <4> QED
        BY <2>0, <2>2, <4>1, <4>3 DEF Pending
    <3> QED
      BY <2>0, <2>1, <3>1 DEF ReceiverInv, Absent
  <2>3. CASE current' = <<>>
    <3>1. Pending # <<>> /\ p = Head(Pending) /\ Pending' = Tail(Pending)
      BY <2>0, <2>3, PendingSettle
    <3>2. p \in Payload
      BY <3>1, PendingType
    <3>3. p.id \in lost' \/ view'[p.id] = Tells(p)
      <4>1. p.id \in Ids
        BY <3>2 DEF Payload
      <4>2. CASE outcome = "ok"
        BY <1>4, <4>1, <4>2 DEF Post, ReceiverAccepts, TypeOK
      <4>3. CASE outcome # "ok"
        <5>1. PICK q \in Payload : current = <<q>>
          BY <2>0 DEF TypeOK
        <5>2. current # <<>>
          BY <5>1
        <5>3. lost' = lost \cup {p.id}
          BY <1>4, <2>3, <4>3, <5>2 DEF Post
        <5> QED
          BY <5>3
      <4> QED
        BY <4>2, <4>3
    <3>4. ASSUME NEW x \in Ids
          PROVE  \/ LastTells(Pending', x, open'[x])
                 \/ Absent(Pending', x) /\ (x \in lost' \/ view'[x] = open'[x])
      <4>1. \/ LastTells(Pending, x, open[x])
            \/ Absent(Pending, x) /\ (x \in lost \/ view[x] = open[x])
        BY DEF ReceiverInv
      <4>2. /\ LastTells(Pending, x, open[x]) =>
                 \/ LastTells(Pending', x, open[x])
                 \/ Absent(Pending', x) /\ p.id = x /\ Tells(p) = open[x]
            /\ Absent(Pending, x) => Absent(Pending', x) /\ p.id # x
        BY <3>1, PendingType, LastTail
      <4> QED
        BY <2>0, <2>1, <3>3, <4>1, <4>2
    <3> QED
      BY <3>4 DEF ReceiverInv
  <2> QED
    BY <1>4, <2>2, <2>3 DEF Post, DeliverReturns
<1>5. CASE \/ NotifyBegin \/ NotifyResolutions \/ NotifyReturn
           \/ WorkerStop \/ WorkerReturn \/ BackoffEnds \/ Client
  BY <1>0, <1>5 DEF NotifyBegin, NotifyResolutions, NotifyReturn, WorkerStop, WorkerReturn,
       BackoffEnds, Client, CollectorReturns, CloseBegin, CloseReturns, Pending,
       senderVars, workerVars, receiverVars
<1>6. CASE UNCHANGED vars
  BY <1>0, <1>6 DEF vars, Pending
<1> QED
  BY <1>1, <1>2, <1>3, <1>4, <1>5, <1>6 DEF Next, Notify, Worker, Terminated

\* Whatever the receiver answers, what it has been told about a finding is what
\* the sender tracks, unless a payload about it is pending or was counted failed.
THEOREM ReceiverNotLeftBehind == Spec => []ReceiverAgrees
<1>1. Init => ReceiverInv
  <2>1. Init => Pending = <<>>
    BY DEF Init, Pending
  <2> QED
    <3> SUFFICES ASSUME Init, NEW id \in Ids
                 PROVE  Absent(Pending, id) /\ view[id] = open[id]
      BY DEF ReceiverInv
    <3>1. DOMAIN Pending = {}
      BY <2>1
    <3> QED
      BY <3>1 DEF Init, Absent
<1>2. ReceiverInv => ReceiverAgrees
  BY DEF ReceiverInv, ReceiverAgrees, LastTells
<1> QED
  BY <1>1, <1>2, ReceiverStep, TypeCorrect, PTL DEF Spec

-----------------------------------------------------------------------------
(* Refinement of AlertLifecycle *)

\* Every step of the sender is a step of the lifecycle, or changes neither the
\* tracked alerts, nor the pending payloads, nor the end of the sender.
LEMMA LifecycleStep ==
    TypeOK /\ ShutdownInv /\ NotifyInv /\ [Next]_vars
        => [Lifecycle!Next]_(Lifecycle!abstractVars)
<1> SUFFICES ASSUME TypeOK, ShutdownInv, NotifyInv, [Next]_vars
             PROVE  [Lifecycle!Next]_(Lifecycle!abstractVars)
  OBVIOUS
<1> DEFINE Stutter == UNCHANGED <<open, Pending, wpc>>
<1>0. ASSUME Stutter PROVE [Lifecycle!Next]_(Lifecycle!abstractVars)
  BY <1>0 DEF Lifecycle!abstractVars
<1>1. npc # "idle" => wpc # "done"
  BY DEF ShutdownInv
<1>2. ASSUME NEW id \in Ids, NotifyFinding(id)
      PROVE  [Lifecycle!Next]_(Lifecycle!abstractVars)
  <2>1. wpc # "done" /\ UNCHANGED <<wpc, current>>
    BY <1>1, <1>2 DEF NotifyFinding, workerVars
  <2>2. CASE UNCHANGED <<open, queue>>
    BY <1>0, <2>1, <2>2 DEF Pending
  <2>3. Notifiable(id) => recs[id] \in Severities
    BY SenderAssumption DEF Notifiable, TypeOK
  <2>4. CASE /\ Notifiable(id) /\ open[id] = None
             /\ open' = [open EXCEPT ![id] = recs[id]]
             /\ queue' = Append(queue, firingPayload(id, "firing", recs[id], None))
    <3>1. firingPayload(id, "firing", recs[id], None) \in Payload
      BY <2>3, <2>4, PayloadType
    <3>2. Pending' = Append(Pending, firingPayload(id, "firing", recs[id], None))
      BY <2>1, <2>4, <3>1, PendingAppend
    <3>3. Lifecycle!Start(id, recs[id])
      BY <2>4, <3>2 DEF Lifecycle!Start, Lifecycle!Announcement, firingPayload
    <3> QED
      BY <2>1, <2>3, <2>4, <3>3 DEF Lifecycle!Next, Lifecycle!Announce
  <2>5. CASE /\ Notifiable(id) /\ open[id] # None
             /\ Rank(recs[id]) < Rank(open[id])
             /\ open' = [open EXCEPT ![id] = recs[id]]
             /\ queue' = Append(queue, firingPayload(id, "escalated", recs[id], open[id]))
    <3>1. firingPayload(id, "escalated", recs[id], open[id]) \in Payload
      BY <2>3, <2>5, PayloadType DEF TypeOK
    <3>2. Pending' = Append(Pending, firingPayload(id, "escalated", recs[id], open[id]))
      BY <2>1, <2>5, <3>1, PendingAppend
    <3>3. Lifecycle!Worsen(id, recs[id])
      BY <2>5, <3>2 DEF Lifecycle!Worsen, Lifecycle!Announcement, firingPayload
    <3> QED
      BY <2>1, <2>3, <2>5, <3>3 DEF Lifecycle!Next, Lifecycle!Announce
  <2> QED
    BY <1>2, <2>2, <2>4, <2>5, EnqueueEffect DEF NotifyFinding, senderVars
<1>3. ASSUME NEW id \in Ids, NotifyResolve(id)
      PROVE  [Lifecycle!Next]_(Lifecycle!abstractVars)
  <2> DEFINE p == resolvedPayload(id, open[id])
  <2>1. wpc # "done" /\ UNCHANGED <<wpc, current>> /\ open[id] # None
    BY <1>1, <1>3 DEF NotifyResolve, NotifyInv, workerVars
  <2>2. CASE UNCHANGED <<open, queue>>
    BY <1>0, <2>1, <2>2 DEF Pending
  <2>3. CASE open' = [open EXCEPT ![id] = None] /\ queue' = Append(queue, p)
    <3>1. p \in Payload
      BY DEF TypeOK, resolvedPayload, Payload, Severities
    <3>2. Pending' = Append(Pending, p)
      BY <2>1, <2>3, <3>1, PendingAppend
    <3>3. Lifecycle!Clear(id)
      BY <2>1, <2>3, <3>2 DEF Lifecycle!Clear, Lifecycle!Announcement, resolvedPayload
    <3> QED
      BY <2>1, <3>3 DEF Lifecycle!Next, Lifecycle!Announce
  <2> QED
    BY <1>3, <2>2, <2>3, EnqueueEffect DEF NotifyResolve
<1>4. CASE WorkerTake
  <2>1. wpc # "done" /\ wpc' # "done" /\ UNCHANGED open
    BY <1>4 DEF WorkerTake
  <2> QED
    BY <1>4, <2>1, PendingTake DEF Lifecycle!abstractVars
<1>5. ASSUME NEW outcome \in Outcomes, Post(outcome)
      PROVE  [Lifecycle!Next]_(Lifecycle!abstractVars)
  <2>0. wpc = "post" /\ UNCHANGED <<open, queue>>
    BY <1>5 DEF Post
  <2>1. CASE current' = current /\ wpc' = "backoff"
    BY <2>0, <2>1 DEF Lifecycle!abstractVars, Pending
  <2>2. CASE current' = <<>> /\ wpc' # "done"
    <3>1. Lifecycle!Settle
      BY <2>0, <2>2, PendingSettle DEF Lifecycle!Settle
    <3> QED
      BY <2>0, <2>2, <3>1 DEF Lifecycle!Next
  <2> QED
    BY <1>5, <2>1, <2>2 DEF Post, DeliverReturns
<1>6. CASE WorkerReturn
  <2>1. Pending = <<>> /\ UNCHANGED <<open, Pending>>
    BY <1>6 DEF WorkerReturn, Pending, TypeOK, senderVars
  <2>2. Lifecycle!End
    BY <1>6, <2>1 DEF WorkerReturn, Lifecycle!End
  <2> QED
    BY <1>6, <2>2 DEF Lifecycle!Next, WorkerReturn
<1>7. CASE WorkerStop \/ BackoffEnds
  BY <1>7 DEF WorkerStop, BackoffEnds, Pending, senderVars, Lifecycle!abstractVars
<1>8. CASE NotifyBegin \/ NotifyResolutions \/ NotifyReturn \/ Client
  BY <1>0, <1>8 DEF NotifyBegin, NotifyResolutions, NotifyReturn, Client, CollectorReturns,
       CloseBegin, CloseReturns, Pending, senderVars, workerVars
<1>9. CASE UNCHANGED vars
  BY <1>0, <1>9 DEF vars, Pending
<1> QED
  BY <1>2, <1>3, <1>4, <1>5, <1>6, <1>7, <1>8, <1>9 DEF Next, Notify, Worker, Terminated

\* The sender implements the lifecycle it promises its receiver.
THEOREM Refinement == Spec => ImplementsLifecycle
<1>1. Init => Lifecycle!Init
  BY DEF Init, Lifecycle!Init, Pending
<1> QED
  BY <1>1, LifecycleStep, TypeCorrect, ShutdownCorrect, NotifyCorrect, PTL
     DEF Spec, ImplementsLifecycle, Lifecycle!Spec
=============================================================================
