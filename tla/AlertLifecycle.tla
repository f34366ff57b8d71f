--------------------------- MODULE AlertLifecycle ---------------------------
(***************************************************************************)
(* What internal/alerting promises a webhook receiver, whatever its queue, *)
(* its retries and its threads do: the payloads it commits to sending form *)
(* an orderly story of each finding.  A finding is announced once when it  *)
(* starts, again only when it becomes more severe than it was last said to *)
(* be, and closed once; every payload that refers to an earlier one quotes *)
(* the severity that one gave; and committed payloads leave in order, each *)
(* one settled (accepted or given up) before the next.                     *)
(***************************************************************************)
EXTENDS Integers, Sequences

CONSTANTS Ids, Severities, None, Rank(_)

VARIABLES
    status,   \* status[id]: severity the finding was last announced at, or None
    outbox,   \* payloads committed to and not yet settled, oldest first
    ended     \* the sender has shut down

abstractVars == <<status, outbox, ended>>

Announcement(id, event, severity, previous) ==
    [id |-> id, event |-> event, severity |-> severity, previous |-> previous]

Start(id, severity) ==
    /\ status[id] = None
    /\ status' = [status EXCEPT ![id] = severity]
    /\ outbox' = Append(outbox, Announcement(id, "firing", severity, None))

Worsen(id, severity) ==
    /\ status[id] # None
    /\ Rank(severity) < Rank(status[id])
    /\ status' = [status EXCEPT ![id] = severity]
    /\ outbox' = Append(outbox, Announcement(id, "escalated", severity, status[id]))

Clear(id) ==
    /\ status[id] # None
    /\ status' = [status EXCEPT ![id] = None]
    /\ outbox' = Append(outbox, Announcement(id, "resolved", "info", status[id]))

Settle ==
    /\ outbox # <<>>
    /\ outbox' = Tail(outbox)
    /\ UNCHANGED status

\* Shutting down leaves nothing behind.
End ==
    /\ outbox = <<>>
    /\ ended' = TRUE
    /\ UNCHANGED <<status, outbox>>

Init ==
    /\ status = [id \in Ids |-> None]
    /\ outbox = <<>>
    /\ ended = FALSE

Announce ==
    \E id \in Ids :
        \/ \E severity \in Severities : Start(id, severity) \/ Worsen(id, severity)
        \/ Clear(id)

Next == \/ ~ended /\ UNCHANGED ended /\ (Announce \/ Settle)
        \/ ~ended /\ End

Spec == Init /\ [][Next]_abstractVars

\* Committed payloads do not wait for ever.
FairSpec == Spec /\ WF_abstractVars(~ended /\ UNCHANGED ended /\ Settle)
=============================================================================
