------------------------- MODULE OutboundDeliveries -------------------------
(***************************************************************************)
(* The outbound_deliveries table of sessions/repository.py: the durable    *)
(* queue of replies.  Each operation is one SQL transaction, so one step.  *)
(*                                                                         *)
(* Rows are numbered in the order of their insertion, the order            *)
(* (created_at, rowid) in which they are claimed.  A second request with   *)
(* the idempotency key of a row changes nothing, so it is no step.  The    *)
(* two deadlines of a row are booleans: old means expires_at has passed,   *)
(* deferred that next_attempt_at has not.                                  *)
(*                                                                         *)
(* A definition whose name ends in Bug is a mutant of the one after it, a  *)
(* mistake that some property must notice; no specification uses it.       *)
(***************************************************************************)
EXTENDS Integers, FiniteSets

CONSTANTS MaxDeliveries,  \* bound on the rows
          MaxAttempts,    \* settings.max_attempts
          Messages,       \* payloads: equal texts are the same message
          NoMessage       \* of a row that does not exist yet

ASSUME DeliveriesAssumption ==
    /\ MaxDeliveries \in Nat
    /\ MaxAttempts \in Nat \ {0}
    /\ NoMessage \notin Messages

VARIABLE row              \* the table

Deliveries == 1..MaxDeliveries

PendingStatuses == {"queued", "waiting_for_idle", "retry_wait"}
FinalStatuses == {"sent", "failed", "expired", "cancelled"}
Statuses == {"none", "sending"} \cup PendingStatuses \cup FinalStatuses

\* The error codes some code path reads; the others are "other".
Recovered == {"recovered_sending", "recovered_foreground_inflight"}
Codes == {"none", "foreground_inflight", "delivery_unknown", "other"}
         \cup Recovered

Row == [status : Statuses, msg : Messages \cup {NoMessage},
        attempts : 0..MaxAttempts, code : Codes,
        old : BOOLEAN, deferred : BOOLEAN]

NoRow == [status |-> "none", msg |-> NoMessage, attempts |-> 0,
          code |-> "none", old |-> FALSE, deferred |-> FALSE]

TableInit == row = [d \in Deliveries |-> NoRow]

-----------------------------------------------------------------------------

Pending(d) == row[d].status \in PendingStatuses
Exists(d) == row[d].status # "none"

\* update_outbound_delivery: unconditional, whatever the status is now; a
\* code that is not passed becomes NULL.
Update(d, status, code) ==
    row' = [row EXCEPT ![d].status = status, ![d].code = code]

UpdateAttempt(d, status, code, attempts, deferred) ==
    row' = [row EXCEPT ![d].status = status, ![d].code = code,
                       ![d].attempts = attempts, ![d].deferred = deferred]

\* enqueue_outbound_delivery with a key no row has: the next row.
Insert(d, m) ==
    /\ row[d].status = "none"
    /\ \A e \in 1..(d - 1) : Exists(e)
    /\ row' = [row EXCEPT ![d] = [NoRow EXCEPT !.status = "queued",
                                               !.msg = m]]

\* retry_outbound_delivery and resend_outbound_delivery: a new row with the
\* payload of a row that failed or expired, or that was sent.
InsertCopy(d, original, statuses) ==
    /\ row[original].status \in statuses
    /\ Insert(d, row[original].msg)

\* cancel_outbound_delivery.
CancelRow(d) ==
    /\ Pending(d)
    /\ Update(d, "cancelled", "none")

\* A status is missing in the list.
StaleBug == {d \in Deliveries : row[d].status = "queued" /\ row[d].old}

\* The pending rows claim_next_outbound_delivery expires, the rows it
\* chooses from and the one it returns, if that one is due.
Stale == {d \in Deliveries : Pending(d) /\ row[d].old}
Candidates == {d \in Deliveries : Pending(d) /\ ~row[d].old}

WithoutStale == [d \in Deliveries |->
                   IF d \in Stale THEN [row[d] EXCEPT !.status = "expired"]
                   ELSE row[d]]

Oldest(d) == d \in Candidates /\ \A e \in Candidates : d <= e

Claim(d) == /\ Oldest(d)
            /\ ~row[d].deferred
            /\ row' = [WithoutStale EXCEPT ![d].status = "waiting_for_idle"]

\* The claim returns None: nothing is left, or the oldest row is not due.
ClaimNone == /\ \A d \in Deliveries : Oldest(d) => row[d].deferred
             /\ row' = WithoutStale

\* recover_outbound_deliveries.
Recover ==
    row' = [d \in Deliveries |->
              IF row[d].status # "sending" THEN row[d]
              ELSE [row[d] EXCEPT
                      !.status = "queued",
                      !.code = IF @ = "foreground_inflight"
                               THEN "recovered_foreground_inflight"
                               ELSE "recovered_sending"]]

Discarded(statuses) ==
    row' = [d \in Deliveries |->
              IF row[d].status \in statuses
              THEN [row[d] EXCEPT !.status = "expired", !.code = "other"]
              ELSE row[d]]

\* A status is missing, or one is too many.
DiscardPendingBug == Discarded({"queued", "waiting_for_idle", "sending"})
\* discard_pending_outbound_deliveries.
DiscardPending == Discarded(PendingStatuses \cup {"sending"})

\* Time passes.
Ages(d) == /\ Exists(d) /\ ~row[d].old
           /\ row' = [row EXCEPT ![d].old = TRUE]

BecomesDue(d) == /\ Pending(d) /\ row[d].deferred
                 /\ row' = [row EXCEPT ![d].deferred = FALSE]
=============================================================================
