-------------------------- MODULE NotificationLog --------------------------
(***************************************************************************)
(* The statements EmailNotificationStore runs against notification_log, as *)
(* functions from the old table to the new one.  A table is a function     *)
(* from the idempotency key (event, recipient) to a row; an absent row has *)
(* status "NONE".  total_attempts, last_error and the timestamps carry no  *)
(* control and are left out; that a row is old enough for the reaper is a  *)
(* choice of the module that calls ReapStalePending.                       *)
(***************************************************************************)
EXTENDS Naturals

Status == {"PENDING", "SENT", "FAILED", "BLOCKED", "SKIPPED"}

Row == [status: Status \cup {"NONE"}, retry: Nat]

NoRow == [status |-> "NONE", retry |-> 0]

Exists(log, k) == log[k].status # "NONE"

\* The statuses for which a Duplicate insert makes the consumer skip.
Terminal(status) == status \in {"SENT", "BLOCKED"}

\* INSERT ... ON CONFLICT DO UPDATE (a no-op): an existing row is kept.
InsertPending(log, k) ==
    IF Exists(log, k) THEN log
    ELSE [log EXCEPT ![k] = [status |-> "PENDING", retry |-> 0]]

\* The same for every key of a group, in one transaction.
InsertPendingBatch(log, K) ==
    [k \in DOMAIN log |->
        IF k \in K /\ ~Exists(log, k)
        THEN [status |-> "PENDING", retry |-> 0] ELSE log[k]]

\* The three UPDATEs have no guard on the current status; they miss a row
\* that does not exist (the caller gets NotFound).
MarkSent(log, k) ==
    IF Exists(log, k) THEN [log EXCEPT ![k].status = "SENT"] ELSE log

MarkBlocked(log, k) ==
    IF Exists(log, k) THEN [log EXCEPT ![k].status = "BLOCKED"] ELSE log

MarkFailed(log, k, exhausted) ==
    IF Exists(log, k)
    THEN [log EXCEPT ![k] = [status |-> IF exhausted THEN "FAILED" ELSE "PENDING",
                             retry  |-> log[k].retry + 1]]
    ELSE log

\* INSERT ... ON CONFLICT DO NOTHING of a SKIPPED row.
MarkSkipped(log, k) ==
    IF Exists(log, k) THEN log
    ELSE [log EXCEPT ![k] = [status |-> "SKIPPED", retry |-> 0]]

\* The rows reset_for_retry may flip: one recipient, FAILED or BLOCKED.
Retryable(log, k) == log[k].status \in {"FAILED", "BLOCKED"}

\* reset_for_retry and reset_all_failed_for_event: the keys in K go back to
\* PENDING with a fresh retry budget.
ResetToPending(log, K) ==
    [k \in DOMAIN log |->
        IF k \in K THEN [status |-> "PENDING", retry |-> 0] ELSE log[k]]

\* revert_to_failed: only rows that are PENDING when the statement runs.
RevertToFailed(log, K) ==
    [k \in DOMAIN log |->
        IF k \in K /\ log[k].status = "PENDING"
        THEN [log[k] EXCEPT !.status = "FAILED"] ELSE log[k]]

\* reap_stale_pending on the rows K whose updated_at is past the timeout.
ReapStalePending(log, K) == RevertToFailed(log, K)
=============================================================================
