------------------------------- MODULE Outbox -------------------------------
(***************************************************************************)
(* The transactional outbox: the outbox table of the business database,    *)
(* any number of outbox workers that claim its rows in batches and publish *)
(* them with publisher confirms, the stale-row reaper, and the broker's    *)
(* exchange as the workers see it.                                         *)
(*                                                                         *)
(* A row is named by its place in created_at order.  One step of a worker  *)
(* is one await of poll_once: the fetch transaction, the publish with its  *)
(* confirm, the PUBLISHED update, the failure update.                      *)
(***************************************************************************)
EXTENDS Integers, FiniteSets

CONSTANTS
    Rows,        \* outbox rows, ordered by created_at
    Priority,    \* the priority field of each row's payload
    Malformed,   \* the rows whose recipients field does not deserialize
    Workers,     \* outbox worker processes
    BatchSize,   \* cfg.batch_size
    MaxFailures, \* cfg.max_publish_failures
    Budget       \* how often each kind of fault may happen

BudgetKinds == {"crash", "netloss", "dberr", "slow"}

ASSUME OutboxAssumption ==
    /\ Rows \subseteq Nat
    /\ IsFiniteSet(Rows)
    /\ Priority \in [Rows -> Nat]
    /\ Malformed \subseteq Rows
    /\ BatchSize \in Nat
    /\ MaxFailures \in Nat \ {0}
    /\ Budget \in [BudgetKinds -> Nat]

VARIABLES
    outbox,  \* the table: status and fail_count of each row
    worker,  \* each worker's place, batch, current row and channel state
    bound,   \* the consumer has bound the main queue to the exchange
    copies,  \* messages in the main queue per row (history)
    acked,   \* rows some worker saw a broker Ack for (history)
    reaps,   \* how often the reaper reset each row (history)
    budget   \* what is left of Budget

vars == <<outbox, worker, bound, copies, acked, reaps, budget>>

Status == {"PENDING", "IN_PROGRESS", "PUBLISHED", "FAILED"}

\* A worker that has lost its process or its connection.
Offline == [pc |-> "offline", batch |-> {}, row |-> 0, connected |-> FALSE]

Worker == [pc: {"offline", "polling", "mark", "record"}, batch: SUBSET Rows,
           row: Nat, connected: BOOLEAN]

\* Worker w works on worker[w].row.
InHand(w) == worker[w].pc \in {"mark", "record"}

\* Rows worker w has claimed and not finished.
Holds(w) ==
    worker[w].batch \cup
        (IF InHand(w) THEN {worker[w].row} ELSE {})

Pending == {r \in Rows : outbox[r].status = "PENDING"}

Init ==
    /\ outbox = [r \in Rows |-> [status |-> "NONE", fails |-> 0]]
    /\ worker = [w \in Workers |-> Offline]
    /\ bound = FALSE
    /\ copies = [r \in Rows |-> 0]
    /\ acked = {}
    /\ reaps = [r \in Rows |-> 0]
    /\ budget = Budget

Spend(kind) ==
    /\ budget[kind] > 0
    /\ budget' = [budget EXCEPT ![kind] = @ - 1]

-----------------------------------------------------------------------------
(***************************************************************************)
(* The statements.                                                         *)
(***************************************************************************)

\* Mutant of Claimed: the UPDATE in the fetch transaction is missing.
SelectedOnly(batch) == outbox

\* UPDATE ... SET status = 'IN_PROGRESS' in the fetch transaction.
Claimed(batch) ==
    [r \in Rows |-> IF r \in batch THEN [outbox[r] EXCEPT !.status = "IN_PROGRESS"]
                    ELSE outbox[r]]

\* The PUBLISHED update, guarded by IN_PROGRESS.
MarkedPublished(r) ==
    IF outbox[r].status = "IN_PROGRESS"
    THEN [outbox EXCEPT ![r].status = "PUBLISHED"] ELSE outbox

\* Mutant of FailureRecorded: > for >=.
FailureRecordedLate(r) ==
    [outbox EXCEPT ![r] =
        [status |-> IF outbox[r].fails + 1 > MaxFailures THEN "FAILED" ELSE "PENDING",
         fails  |-> outbox[r].fails + 1]]

\* record_publish_failure: WHERE id only, whatever the status is by now.
FailureRecorded(r) ==
    [outbox EXCEPT ![r] =
        [status |-> IF outbox[r].fails + 1 >= MaxFailures THEN "FAILED" ELSE "PENDING",
         fails  |-> outbox[r].fails + 1]]

\* Mutant of Oldest: no LIMIT.
AllOf(S) == S

\* ORDER BY created_at LIMIT batch_size.
Oldest(S) == {r \in S : Cardinality({s \in S : s < r}) < BatchSize}

-----------------------------------------------------------------------------
(***************************************************************************)
(* The business service, the consumer's topology and the broker.           *)
(***************************************************************************)

\* A business transaction commits with its outbox row.
Insert(r) ==
    /\ outbox[r].status = "NONE"
    /\ outbox' = [outbox EXCEPT ![r].status = "PENDING"]
    /\ UNCHANGED <<worker, bound, copies, acked, reaps, budget>>

\* The consumer starts for the first time and declares the durable topology.
Bind ==
    /\ ~bound
    /\ bound' = TRUE
    /\ UNCHANGED <<outbox, worker, copies, acked, reaps, budget>>

\* What the broker does with a message for row r that reaches the exchange:
\* basic_publish is not mandatory, so it is dropped while nothing is bound.
Enqueued(r) == IF bound THEN [copies EXCEPT ![r] = @ + 1] ELSE copies

-----------------------------------------------------------------------------
(***************************************************************************)
(* The worker.                                                             *)
(***************************************************************************)
Connect(w) ==
    /\ worker[w].pc = "offline"
    /\ worker' = [worker EXCEPT ![w].pc = "polling", ![w].connected = TRUE]
    /\ UNCHANGED <<outbox, bound, copies, acked, reaps, budget>>

\* fetch_pending_batch.  SKIP LOCKED leaves out rows another worker's open
\* transaction has locked.  An error of the commit may hide that it took
\* effect.
Fetch(w) ==
    /\ worker[w].pc = "polling"
    /\ worker[w].batch = {}
    /\ \E locked \in SUBSET Pending :
         LET batch == Oldest(Pending \ locked) IN
         /\ locked # {} => Workers # {w}
         /\ batch # {}
         /\ outbox' = Claimed(batch)
         /\ \/ worker' = [worker EXCEPT ![w].batch = batch] /\ UNCHANGED budget
            \/ Spend("dberr") /\ UNCHANGED worker
    /\ UNCHANGED <<bound, copies, acked, reaps>>

\* The batch is worked off by priority, then by created_at.
Before(r, s) ==
    Priority[r] < Priority[s] \/ (Priority[r] = Priority[s] /\ r <= s)

TakeRow(w, r, pc) ==
    worker' = [worker EXCEPT ![w].pc = pc, ![w].row = r, ![w].batch = @ \ {r}]

\* Mutant of Publish: any confirm counts as an Ack.
PublishUnconfirmed(w) ==
    /\ worker[w].pc = "polling"
    /\ \E r \in worker[w].batch :
         /\ \A s \in worker[w].batch : Before(r, s)
         /\ TakeRow(w, r, "mark")
    /\ UNCHANGED <<outbox, bound, copies, acked, reaps, budget>>

\* publish_and_mark up to the confirm: Ack; or a malformed row, a dead
\* channel, a Nack, a confirm that is late or lost with the connection (the
\* message may be in the queue all the same).
Publish(w) ==
    /\ worker[w].pc = "polling"
    /\ \E r \in worker[w].batch :
         /\ \A s \in worker[w].batch : Before(r, s)
         /\ \/ /\ r \notin Malformed
               /\ worker[w].connected
               /\ copies' = Enqueued(r)
               /\ acked' = acked \cup {r}
               /\ TakeRow(w, r, "mark")
            \/ /\ copies' \in {copies} \cup
                    (IF r \notin Malformed /\ worker[w].connected
                     THEN {Enqueued(r)} ELSE {})
               /\ TakeRow(w, r, "record")
               /\ UNCHANGED acked
    /\ UNCHANGED <<outbox, bound, reaps, budget>>

\* The PUBLISHED update; its error may hide that it took effect.
Mark(w) ==
    /\ worker[w].pc = "mark"
    /\ \/ /\ outbox' = MarkedPublished(worker[w].row)
          /\ worker' = [worker EXCEPT ![w].pc = "polling"]
          /\ UNCHANGED budget
       \/ /\ Spend("dberr")
          /\ outbox' \in {outbox, MarkedPublished(worker[w].row)}
          /\ worker' = [worker EXCEPT ![w].pc = "record"]
    /\ UNCHANGED <<bound, copies, acked, reaps>>

\* record_publish_failure, whose own error is only logged; a dead channel
\* then ends the poll and drops the rest of the batch.
Record(w) ==
    /\ worker[w].pc = "record"
    /\ \/ outbox' = FailureRecorded(worker[w].row) /\ UNCHANGED budget
       \/ Spend("dberr") /\ UNCHANGED outbox
    /\ worker' = [worker EXCEPT ![w] =
                    IF worker[w].connected THEN [worker[w] EXCEPT !.pc = "polling"]
                    ELSE Offline]
    /\ UNCHANGED <<bound, copies, acked, reaps>>

\* The channel or its connection dies; the worker finds out when it publishes.
ConnectionLost(w) ==
    /\ worker[w].connected
    /\ Spend("netloss")
    /\ worker' = [worker EXCEPT ![w].connected = FALSE]
    /\ UNCHANGED <<outbox, bound, copies, acked, reaps>>

\* A crash, or a shutdown: select! drops poll_once at whichever await it is.
Stop(w) ==
    /\ worker[w].pc # "offline"
    /\ Spend("crash")
    /\ worker' = [worker EXCEPT ![w] = Offline]
    /\ UNCHANGED <<outbox, bound, copies, acked, reaps>>

\* Mutant of Reap: the statement matches no row.
ReapNothing(K) == FALSE /\ K = {} /\ UNCHANGED vars

\* reap_stale_in_progress resets the rows K.  Rows no worker holds are past
\* the timeout sooner or later; a row of a slow worker may be as well (a
\* batch of 50 rows and 10 s per confirm outlasts the 300 s).
Reap(K) ==
    /\ K # {}
    /\ \A r \in K : outbox[r].status = "IN_PROGRESS"
    /\ outbox' = [r \in Rows |-> IF r \in K THEN [outbox[r] EXCEPT !.status = "PENDING"]
                                 ELSE outbox[r]]
    /\ reaps' = [r \in Rows |-> IF r \in K THEN reaps[r] + 1 ELSE reaps[r]]
    /\ IF \A w \in Workers : K \cap Holds(w) = {} THEN UNCHANGED budget ELSE Spend("slow")
    /\ UNCHANGED <<worker, bound, copies, acked>>

-----------------------------------------------------------------------------
WorkerStep(w) == Connect(w) \/ Fetch(w) \/ Publish(w) \/ Mark(w) \/ Record(w)

Next ==
    \/ \E r \in Rows : Insert(r)
    \/ Bind
    \/ \E w \in Workers : WorkerStep(w) \/ ConnectionLost(w) \/ Stop(w)
    \/ \E K \in SUBSET Rows : Reap(K)

Spec == Init /\ [][Next]_vars

\* The poll loops run and the reaper ticks until the process ends.
Fairness ==
    /\ \A w \in Workers : WF_vars(WorkerStep(w))
    /\ \A r \in Rows : WF_vars(/\ \A w \in Workers : r \notin Holds(w)
                               /\ Reap({r}))

FairSpec == Spec /\ Fairness

-----------------------------------------------------------------------------
(***************************************************************************)
(* Properties.                                                             *)
(***************************************************************************)

Types ==
    /\ outbox \in [Rows -> [status: Status \cup {"NONE"}, fails: Nat]]
    /\ worker \in [Workers -> Worker]
    /\ bound \in BOOLEAN
    /\ copies \in [Rows -> Nat]
    /\ acked \subseteq Rows
    /\ reaps \in [Rows -> Nat]
    /\ budget \in [BudgetKinds -> Nat]

\* The types of the variables; a batch respects batch_size.
TypeOK ==
    /\ Types
    /\ \A w \in Workers : Cardinality(worker[w].batch) <= BatchSize

\* A row is marked PUBLISHED only after a broker Ack for it, whoever holds
\* it by then.
PublishedWasAcked ==
    \A r \in Rows : outbox[r].status = "PUBLISHED" => r \in acked

\* A row leaves the retry pool exactly when its failures are used up: no
\* late writer brings a FAILED row back, none is retried beyond the limit.
FailedIffExhausted ==
    \A r \in Rows : outbox[r].status = "FAILED" <=> outbox[r].fails >= MaxFailures

\* Two workers have the same row in their hands only after the reaper took
\* it from one of them.
OneOwner ==
    \A v, w \in Workers : \A r \in Holds(v) \cap Holds(w) : v = w \/ reaps[r] > 0

\* What the proofs of the three need: the row in a worker's hands is no
\* longer in its batch, it was acked when it is to be marked, and nobody but
\* the reaper puts back a row that is held.
HandInv ==
    \A w \in Workers :
        /\ InHand(w) => worker[w].row \in Rows \ worker[w].batch
        /\ worker[w].pc = "mark" => worker[w].row \in acked

HeldIsClaimed ==
    \A w \in Workers : \A r \in Holds(w) :
        outbox[r].status \in {"IN_PROGRESS", "PUBLISHED"} \/ reaps[r] > 0

OutboxInv ==
    /\ Types
    /\ PublishedWasAcked
    /\ FailedIffExhausted
    /\ OneOwner
    /\ HandInv
    /\ HeldIsClaimed

\* At-least-once is not unbounded: every extra copy of a message in the
\* queue is paid for by a recorded failure or by a run of the reaper.
CopiesAccounted ==
    \A r \in Rows : copies[r] <= 1 + outbox[r].fails + reaps[r]

\* No crash, lost connection, failed statement or reaper race strands a row:
\* it ends PUBLISHED or FAILED.
RowSettles ==
    \A r \in Rows :
        outbox[r].status # "NONE" ~> outbox[r].status \in {"PUBLISHED", "FAILED"}

\* README: "Guaranteed delivery": a PUBLISHED row has its message in the queue.
PublishedIsQueued ==
    \A r \in Rows : outbox[r].status = "PUBLISHED" => copies[r] > 0
=============================================================================
