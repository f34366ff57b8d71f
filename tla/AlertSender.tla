---------------------------- MODULE AlertSender ----------------------------
(***************************************************************************)
(* The webhook alert sender of internal/alerting (sender.go, payload.go):  *)
(* Notify turns each complete set of findings into transitions, a bounded  *)
(* queue carries them to one delivery goroutine, and Close drains it.      *)
(*                                                                         *)
(* Three threads interleave: the collector goroutine calling Notify, the   *)
(* delivery goroutine `run', and the main goroutine calling Close.  Notify *)
(* holds the mutex that guards `open', but the queue is a channel, so the  *)
(* delivery goroutine takes from it between any two enqueues of one call:  *)
(* each loop iteration of Notify is therefore a step of its own.           *)
(*                                                                         *)
(* The receiver is outside the repository.  It is modelled by what one     *)
(* POST can come to, and by the picture of each finding it has been given. *)
(***************************************************************************)
EXTENDS Integers, Sequences

CONSTANTS
    Ids,               \* finding IDs (recommendationID: rule code + workload)
    RecSeverities,     \* the severities the findings handed to Notify may have
    MinSeverity,       \* alerting.min_severity
    QueueSize,         \* alerting.queue_size, the channel's capacity
    DeliveryAttempts,  \* deliveryAttempts: POSTs tried per payload
    CounterModulus     \* the atomic counters are int64 and wrap around

Severities == {"critical", "warning", "info"}

ASSUME SenderAssumption ==
    /\ RecSeverities \subseteq Severities
    /\ MinSeverity \in Severities
    /\ QueueSize \in Nat \ {0}
    /\ DeliveryAttempts \in Nat \ {0}
    /\ CounterModulus \in Nat \ {0}

VARIABLES
    \* Sender
    open,       \* open[id]: severity an open alert was recorded at, or None
    queue,      \* the buffered channel of payloads
    stop,       \* the stop channel has been closed
    counters,   \* sent, failed, dropped, suppressed
    \* Notify, on the collector goroutine
    npc,        \* "idle", or the loop Notify is in: "findings", "resolutions"
    recs,       \* recs[id]: severity of the finding in this evaluation, or None
    todo,       \* IDs the current loop has still to visit
    \* run and deliver, on the sender's goroutine
    wpc,        \* "select", "drain", "post", "backoff" or "done"
    draining,   \* run is in the inner loop entered after stop was closed
    current,    \* the payload being delivered, as a sequence of at most one
    attempt,    \* deliver's loop counter
    \* the client: cmd/control-plane
    mpc,        \* "serving", "collectorDone", "closing", "stopped"
    \* the receiver, and history for the properties
    view,       \* view[id]: what the accepted payloads have told the receiver
    lost,       \* IDs whose latest attempted payload was counted as failed
    enqueued,   \* number of payloads ever enqueued, modulo CounterModulus
    full        \* the queue was full at some enqueue of the latest Notify

senderVars == <<open, queue, counters, enqueued, full>>
notifyVars == <<npc, recs, todo>>
workerVars == <<wpc, draining, current, attempt>>
receiverVars == <<view, lost>>
vars == <<open, queue, stop, counters, npc, recs, todo, wpc, draining, current,
          attempt, mpc, view, lost, enqueued, full>>

None == "none"

\* Severity.Rank: most severe first.
Rank(s) == CASE s = "critical" -> 0
             [] s = "warning"  -> 1
             [] s = "info"     -> 2
             [] OTHER          -> 3

Counters == {"sent", "failed", "dropped", "suppressed"}
Wrap(n) == IF n + 1 = CounterModulus THEN 0 ELSE n + 1
\* Slip: the failure counter is forgotten.
BumpForgetsFailed(c) ==
    counters' = IF c = "failed" THEN counters ELSE [counters EXCEPT ![c] = Wrap(@)]
Bump(c) == counters' = [counters EXCEPT ![c] = Wrap(@)]

-----------------------------------------------------------------------------
(* Payloads.  What the properties tell apart is the finding, the event and *)
(* the two severities; title, evidence and times are left out.             *)

Payload == [id : Ids, event : {"firing", "escalated", "resolved"},
            severity : Severities, previous : Severities \cup {None}]

\* Slip: an escalation does not say what it escalates from.
firingPayloadBlank(id, event, severity, previous) ==
    [id |-> id, event |-> event, severity |-> severity, previous |-> None]

firingPayload(id, event, severity, previous) ==
    [id |-> id, event |-> event, severity |-> severity,
     previous |-> IF event = "escalated" THEN previous ELSE None]

resolvedPayload(id, severity) ==
    [id |-> id, event |-> "resolved", severity |-> "info", previous |-> severity]

\* What a payload tells its receiver about the finding.
Tells(p) == IF p.event = "resolved" THEN None ELSE p.severity

-----------------------------------------------------------------------------
(* Notify *)

\* A finding Notify considers at all.
Notifiable(id) == recs[id] # None /\ Rank(recs[id]) <= Rank(MinSeverity)

\* Slip: the capacity is off by one.
enqueueOneTooMany(p, opened) ==
    IF Len(queue) <= QueueSize
    THEN /\ queue' = Append(queue, p)
         /\ open' = opened
         /\ enqueued' = Wrap(enqueued)
         /\ UNCHANGED <<counters, full>>
    ELSE /\ Bump("dropped")
         /\ full' = TRUE
         /\ UNCHANGED <<queue, open, enqueued>>

\* Slip: a queued alert is not recorded as open.
enqueueUnrecorded(p, opened) ==
    IF Len(queue) < QueueSize
    THEN /\ queue' = Append(queue, p)
         /\ enqueued' = Wrap(enqueued)
         /\ UNCHANGED <<open, counters, full>>
    ELSE /\ Bump("dropped")
         /\ full' = TRUE
         /\ UNCHANGED <<queue, open, enqueued>>

\* Slip: an alert is recorded as open even when it was dropped.
enqueueRecordsDropped(p, opened) ==
    /\ open' = opened
    /\ IF Len(queue) < QueueSize
       THEN /\ queue' = Append(queue, p)
            /\ enqueued' = Wrap(enqueued)
            /\ UNCHANGED <<counters, full>>
       ELSE /\ Bump("dropped")
            /\ full' = TRUE
            /\ UNCHANGED <<queue, enqueued>>

\* enqueue: a non-blocking channel send.  On success the caller's change to
\* `open' is made, on failure the drop is counted and `open' keeps its value.
enqueue(p, opened) ==
    IF Len(queue) < QueueSize
    THEN /\ queue' = Append(queue, p)
         /\ open' = opened
         /\ enqueued' = Wrap(enqueued)
         /\ UNCHANGED <<counters, full>>
    ELSE /\ Bump("dropped")
         /\ full' = TRUE
         /\ UNCHANGED <<queue, open, enqueued>>

\* Notify is called with the complete result of one evaluation.
NotifyBegin ==
    /\ npc = "idle"
    /\ mpc = "serving"
    /\ recs' \in [Ids -> RecSeverities \cup {None}]
    /\ npc' = "findings"
    /\ todo' = {id \in Ids : recs'[id] # None}
    /\ full' = FALSE
    /\ UNCHANGED <<open, queue, stop, counters, enqueued, mpc>>
    /\ UNCHANGED workerVars /\ UNCHANGED receiverVars

\* One iteration of the first loop: the switch over the finding.
NotifyFinding(id) ==
    /\ npc = "findings"
    /\ id \in todo
    /\ todo' = todo \ {id}
    /\ \/ /\ ~Notifiable(id)
          /\ UNCHANGED senderVars
       \/ /\ Notifiable(id) /\ open[id] = None
          /\ enqueue(firingPayload(id, "firing", recs[id], None),
                     [open EXCEPT ![id] = recs[id]])
       \/ /\ Notifiable(id) /\ open[id] # None
          /\ Rank(recs[id]) < Rank(open[id])
          /\ enqueue(firingPayload(id, "escalated", recs[id], open[id]),
                     [open EXCEPT ![id] = recs[id]])
       \/ /\ Notifiable(id) /\ open[id] # None
          /\ ~(Rank(recs[id]) < Rank(open[id]))
          /\ Bump("suppressed")
          /\ UNCHANGED <<open, queue, enqueued, full>>
    /\ UNCHANGED <<npc, recs, stop, mpc>>
    /\ UNCHANGED workerVars /\ UNCHANGED receiverVars

\* The second loop ranges over the map of open alerts, in any order, and skips
\* the ones the first loop found present.
NotifyResolutions ==
    /\ npc = "findings"
    /\ todo = {}
    /\ npc' = "resolutions"
    /\ todo' = {id \in Ids : open[id] # None /\ ~Notifiable(id)}
    /\ UNCHANGED <<recs, stop, mpc>>
    /\ UNCHANGED senderVars /\ UNCHANGED workerVars /\ UNCHANGED receiverVars

NotifyResolve(id) ==
    /\ npc = "resolutions"
    /\ id \in todo
    /\ todo' = todo \ {id}
    /\ enqueue(resolvedPayload(id, open[id]), [open EXCEPT ![id] = None])
    /\ UNCHANGED <<npc, recs, stop, mpc>>
    /\ UNCHANGED workerVars /\ UNCHANGED receiverVars

NotifyReturn ==
    /\ npc = "resolutions"
    /\ todo = {}
    /\ npc' = "idle"
    /\ UNCHANGED <<recs, todo, stop, mpc>>
    /\ UNCHANGED senderVars /\ UNCHANGED workerVars /\ UNCHANGED receiverVars

-----------------------------------------------------------------------------
(* run and deliver *)

\* `case p := <-s.queue', in the outer select or in the draining one.  Go picks
\* at random when stop is closed too, so this needs no guard on `stop'.
WorkerTake ==
    /\ wpc \in {"select", "drain"}
    /\ queue # <<>>
    /\ current' = <<Head(queue)>>
    /\ queue' = Tail(queue)
    /\ attempt' = 1
    /\ draining' = (wpc = "drain")
    /\ wpc' = "post"
    /\ UNCHANGED <<open, stop, counters, enqueued, full, mpc, view, lost>>
    /\ UNCHANGED notifyVars

\* Slip: stop is looked at only when a payload is waiting.
WorkerStopsWithWork ==
    /\ wpc = "select"
    /\ stop /\ queue # <<>>
    /\ wpc' = "drain"
    /\ UNCHANGED <<draining, current, attempt, stop, mpc>>
    /\ UNCHANGED senderVars /\ UNCHANGED notifyVars /\ UNCHANGED receiverVars

\* `case <-s.stop'
WorkerStop ==
    /\ wpc = "select"
    /\ stop
    /\ wpc' = "drain"
    /\ UNCHANGED <<draining, current, attempt, stop, mpc>>
    /\ UNCHANGED senderVars /\ UNCHANGED notifyVars /\ UNCHANGED receiverVars

\* Slip: run returns on stop without draining.
WorkerReturnsUndrained ==
    /\ wpc = "drain"
    /\ wpc' = "done"
    /\ UNCHANGED <<draining, current, attempt, stop, mpc>>
    /\ UNCHANGED senderVars /\ UNCHANGED notifyVars /\ UNCHANGED receiverVars

\* `default: return'
WorkerReturn ==
    /\ wpc = "drain"
    /\ queue = <<>>
    /\ wpc' = "done"
    /\ UNCHANGED <<draining, current, attempt, stop, mpc>>
    /\ UNCHANGED senderVars /\ UNCHANGED notifyVars /\ UNCHANGED receiverVars

\* deliver returns to whichever loop called it.
DeliverReturns ==
    /\ wpc' = IF draining THEN "drain" ELSE "select"
    /\ current' = <<>>
    /\ UNCHANGED attempt

\* The receiver takes the payload in: from here on it believes what p tells.
ReceiverAccepts ==
    view' = [view EXCEPT ![current[1].id] = Tells(current[1])]

\* Outcomes of one post: a 2xx; an answer worth another attempt (5xx, 429); a
\* final one (another status, a redirect, an encoding failure); and a transport
\* error, which the client also reports when its timeout or a broken connection
\* hides the answer of a receiver that took the payload in.
Outcomes == {"ok", "retryStatus", "rejected", "transport", "answerLost"}
retryable(outcome) == outcome \in {"retryStatus", "transport", "answerLost"}

Post(outcome) ==
    /\ wpc = "post"
    /\ IF outcome \in {"ok", "answerLost"}
       THEN ReceiverAccepts
       ELSE UNCHANGED view
    /\ \/ /\ outcome = "ok"
          /\ Bump("sent")
          /\ lost' = lost \ {current[1].id}
          /\ DeliverReturns
       \/ /\ outcome # "ok"
          /\ retryable(outcome) /\ attempt < DeliveryAttempts
          /\ wpc' = "backoff"
          /\ attempt' = attempt + 1
          /\ UNCHANGED <<counters, lost, current>>
       \/ /\ outcome # "ok"
          /\ ~(retryable(outcome) /\ attempt < DeliveryAttempts)
          /\ Bump("failed")
          /\ lost' = lost \cup {current[1].id}
          /\ DeliverReturns
    /\ UNCHANGED <<open, queue, stop, enqueued, full, draining, mpc>>
    /\ UNCHANGED notifyVars

\* Slip: the backoff has no timer.
BackoffEndsByStop ==
    /\ wpc = "backoff" /\ stop
    /\ wpc' = "post"
    /\ UNCHANGED <<draining, current, attempt, stop, mpc>>
    /\ UNCHANGED senderVars /\ UNCHANGED notifyVars /\ UNCHANGED receiverVars

\* The backoff ends by its timer or by stop; either way the loop goes on.
BackoffEnds ==
    /\ wpc = "backoff"
    /\ wpc' = "post"
    /\ UNCHANGED <<draining, current, attempt, stop, mpc>>
    /\ UNCHANGED senderVars /\ UNCHANGED notifyVars /\ UNCHANGED receiverVars

-----------------------------------------------------------------------------
(* The client.  Notify runs in the collector's OnCycle callback; the main   *)
(* goroutine waits for the collector to return and only then calls Close.  *)

CollectorReturns ==
    /\ mpc = "serving"
    /\ npc = "idle"
    /\ mpc' = "collectorDone"
    /\ UNCHANGED stop
    /\ UNCHANGED senderVars /\ UNCHANGED notifyVars
    /\ UNCHANGED workerVars /\ UNCHANGED receiverVars

\* Close, up to wg.Wait; stopOnce makes a further call a no-op.
CloseBegin ==
    /\ mpc = "collectorDone"
    /\ stop' = TRUE
    /\ mpc' = "closing"
    /\ UNCHANGED senderVars /\ UNCHANGED notifyVars
    /\ UNCHANGED workerVars /\ UNCHANGED receiverVars

\* wg.Wait returns once run has.
CloseReturns ==
    /\ mpc = "closing"
    /\ wpc = "done"
    /\ mpc' = "stopped"
    /\ UNCHANGED stop
    /\ UNCHANGED senderVars /\ UNCHANGED notifyVars
    /\ UNCHANGED workerVars /\ UNCHANGED receiverVars

-----------------------------------------------------------------------------
Init ==
    /\ open = [id \in Ids |-> None]
    /\ queue = <<>>
    /\ stop = FALSE
    /\ counters = [c \in Counters |-> 0]
    /\ npc = "idle"
    /\ recs = [id \in Ids |-> None]
    /\ todo = {}
    /\ wpc = "select"
    /\ draining = FALSE
    /\ current = <<>>
    /\ attempt = 1
    /\ mpc = "serving"
    /\ view = [id \in Ids |-> None]
    /\ lost = {}
    /\ enqueued = 0
    /\ full = FALSE

Notify ==
    \/ NotifyBegin
    \/ \E id \in Ids : NotifyFinding(id)
    \/ NotifyResolutions
    \/ \E id \in Ids : NotifyResolve(id)
    \/ NotifyReturn

Worker ==
    \/ WorkerTake
    \/ WorkerStop
    \/ WorkerReturn
    \/ \E outcome \in Outcomes : Post(outcome)
    \/ BackoffEnds

Client == CollectorReturns \/ CloseBegin \/ CloseReturns

Terminated == mpc = "stopped" /\ UNCHANGED vars

Next == Notify \/ Worker \/ Client \/ Terminated

Spec == Init /\ [][Next]_vars

(***************************************************************************)
(* Fairness.  Every loop of Notify is bounded and every POST has a         *)
(* deadline (alerting.timeout), so a started Notify and the delivery       *)
(* goroutine keep going, and evaluations follow one another while the      *)
(* collector runs.  Nothing obliges the process to be told to stop; once   *)
(* the collector has returned, main goes on to Close.                      *)
(***************************************************************************)
FairSpec == /\ Spec
            /\ WF_vars(Notify)
            /\ WF_vars(Worker)
            /\ WF_vars(CloseBegin \/ CloseReturns)

-----------------------------------------------------------------------------
(* Properties *)

\* Payloads committed to the receiver and not yet settled, oldest first.
Pending == current \o queue

\* Type invariant; the queue never exceeds the channel's capacity.
TypeOK ==
    /\ open \in [Ids -> Severities \cup {None}]
    /\ queue \in Seq(Payload) /\ Len(queue) <= QueueSize
    /\ stop \in BOOLEAN
    /\ counters \in [Counters -> 0 .. CounterModulus - 1]
    /\ npc \in {"idle", "findings", "resolutions"}
    /\ recs \in [Ids -> RecSeverities \cup {None}]
    /\ todo \in SUBSET Ids
    /\ wpc \in {"select", "drain", "post", "backoff", "done"}
    /\ draining \in BOOLEAN
    /\ \/ wpc \in {"select", "drain", "done"} /\ current = <<>>
       \/ wpc \in {"post", "backoff"} /\ \E p \in Payload : current = <<p>>
    /\ attempt \in 1 .. DeliveryAttempts
    /\ mpc \in {"serving", "collectorDone", "closing", "stopped"}
    /\ view \in [Ids -> Severities \cup {None}]
    /\ lost \in SUBSET Ids
    /\ enqueued \in 0 .. CounterModulus - 1
    /\ full \in BOOLEAN

\* After an evaluation that met no full queue, the alerts tracked as open are
\* exactly the notifiable findings of that evaluation, each recorded at least as
\* severe as it is now (Notify, sender.go: dropped payloads are deliberately not
\* recorded, recorded ones are).
Tracked(id) == IF Notifiable(id)
               THEN open[id] # None /\ Rank(open[id]) <= Rank(recs[id])
               ELSE open[id] = None
OpenTracksFindings == npc = "idle" /\ ~full => \A id \in Ids : Tracked(id)

\* The receiver is never left behind silently: when no payload about a finding is
\* on its way and the last one was not counted as failed, what the receiver has
\* been told of the finding is what the sender tracks (enqueue before recording,
\* one delivery goroutine, FIFO).
ReceiverAgrees ==
    \A id \in Ids :
        \/ \E i \in DOMAIN Pending : Pending[i].id = id
        \/ id \in lost
        \/ view[id] = open[id]

\* The self-metrics add up: every payload that entered the queue is sent, failed,
\* in delivery or still queued (int64 counters, so modulo their width).
CountersAddUp ==
    (counters["sent"] + counters["failed"] + Len(Pending) - enqueued) % CounterModulus = 0

\* Close drains: when it returns, no committed payload is left unattempted, even
\* those queued just before the signal (Close and run, sender.go).
ClosedMeansDrained == mpc = "stopped" => Pending = <<>>

\* What the sender commits to is an orderly story of each finding.
Lifecycle == INSTANCE AlertLifecycle
                 WITH status <- open, outbox <- Pending, ended <- wpc = "done"
ImplementsLifecycle == Lifecycle!Spec

\* ... and no committed payload waits for ever (deliver is bounded).
ImplementsFairLifecycle == Lifecycle!FairSpec

\* Shutdown finishes: once main calls Close it returns, whatever the receiver
\* answers and however full the queue is.
CloseTerminates == (mpc = "collectorDone") ~> (mpc = "stopped")

\* Once the findings stop changing, the receiver's picture of every finding
\* becomes the sender's, and stays so, unless delivery itself failed: a payload
\* dropped on a full queue is tried again by later evaluations.
Converges ==
    \A findings \in [Ids -> RecSeverities \cup {None}] :
        <>[](mpc = "serving" /\ recs = findings)
            => <>[](\A id \in Ids : Tracked(id) /\ (id \in lost \/ view[id] = open[id]))

-----------------------------------------------------------------------------
(* Strengthenings that make the invariants above inductive. *)

\* Close is called after the collector has returned, run drains only once stop
\* is closed, and it returns only when nothing can be enqueued any more.
ShutdownInv ==
    /\ mpc # "serving" => npc = "idle"
    /\ stop => mpc \in {"closing", "stopped"}
    /\ wpc \in {"drain", "done"} \/ draining => stop
    /\ wpc = "done" => queue = <<>>
    /\ mpc = "stopped" => wpc = "done"

\* How far Notify has come: the findings visited are tracked, and the alerts the
\* second loop has still to visit are open and without a notifiable finding.
NotifyInv ==
    /\ npc = "findings" /\ ~full =>
           \A id \in Ids \ todo : Notifiable(id) => Tracked(id)
    /\ npc = "resolutions" => \A id \in todo : open[id] # None /\ ~Notifiable(id)
    /\ npc = "resolutions" /\ ~full => \A id \in Ids \ todo : Tracked(id)
    /\ OpenTracksFindings

\* The last pending payload about a finding, if there is one, tells what the
\* sender tracks.
LastTells(s, id, told) ==
    \E i \in DOMAIN s : /\ s[i].id = id
                        /\ Tells(s[i]) = told
                        /\ \A j \in DOMAIN s : j > i => s[j].id # id
Absent(s, id) == \A i \in DOMAIN s : s[i].id # id
ReceiverInv ==
    \A id \in Ids : \/ LastTells(Pending, id, open[id])
                    \/ Absent(Pending, id) /\ (id \in lost \/ view[id] = open[id])

=============================================================================
