# A TLA+ model of anvil-notify

anvil-notify sends e-mail on behalf of business services. A service writes an
outbox row in its own transaction, the outbox worker publishes it to RabbitMQ,
the consumer renders a template, records every (event, recipient) in
`notification_log` and hands the mail to an SMTP relay or a webhook. Operators
watch and repair deliveries through an HTTP API, a command line and an MCP
server. This directory holds TLA+ modules of the parts that keep state and run
concurrently, TLC configurations that check them on small instances, and TLAPS
proofs of the central guarantees. `PROJECT.json` maps every definition to the
lines it models.

## 1. The system

| Component (source) | State | Operations | What makes it correct |
|---|---|---|---|
| Outbox worker (`crates/outbox`) | table `outbox`, the worker's batch and channel | fetch and claim, publish with confirm, mark PUBLISHED, record a failure, reap stale rows | claims are exclusive, PUBLISHED means acked, every row settles |
| Producers (`api/handlers.rs`: `send_email`, `anctl send`, the MCP tool `send_email`) | none | check an event, publish it | what is accepted is not refused later |
| Consumer, intake (`consumer/delivery.rs`: `handle_delivery`) | main, delayed and dead-letter queue | dead-letter, skip, refuse, defer, fetch attachments, dispatch, ack | no message vanishes, none circulates for ever |
| Consumer, individual sends (`process_one_recipient`, `processor.rs`: `process_recipient`) | `notification_log`, a task per recipient | check, insert, filter, rate-limit, send, mark, back off | one mail per (event, recipient), a true log |
| Consumer, group sends (`process_one_group`, `process_group`, `fallback_to_individual_sends`) | rows of the group, a loop per delivery, fallback tasks | the same for one mail to all TO addresses | one mail per address, blocked addresses left out |
| Runner and process life (`runner.rs`, `main.rs`) | permits, the delivery in hand, the cancellation token | receive, spawn, drain, forced exit, reconnect, stale-PENDING reaper | permits come back, no late ack settles another delivery |
| Notification log (`store/notification_log.rs`) | `notification_log` | one SQL statement each | see the callers |
| Retry endpoints (`api/handlers.rs`, `publisher.rs`) | one request | reset, republish, revert | a retry never mails twice |
| Block list (`store/block_list_store.rs`) | table `block_list`, a snapshot cache with TTL | check, add, remove, evict, reload | a change answered with success is in force, and nothing stale lasts |
| Template store (`store/template_store.rs`) | table `notification_template`, a cache with TTL | resolve, upsert, patch, invalidate | the same, and a version names one content |
| Attachment fetcher (`mailer/fetcher.rs`) | none | validate, fetch with retries, choose the error to report | requeue exactly when a fetch may still succeed |
| Mail senders (`crates/mailer`) | none | send | which errors are retried |
| Status API, the rest of anctl, MCP queries, configuration, logging | none of their own | reads | not modelled |

The parts interact through three shared things: the queue (outbox worker and
API publish, consumer receives, acks, defers and dead-letters), the database
rows (consumer tasks of several deliveries, retry endpoints and reapers all
update the same rows, each by single statements without locks across awaits),
and the caches (consumer reads, endpoints write and evict, other processes write
without evicting).

What is hard here: RabbitMQ delivers again whatever was not acknowledged when a
connection drops, while the handlers of the old connection go on; a crash can
fall between any two awaits; the database and the broker can report an error for
something that took effect; reapers cannot tell a dead owner from a slow one;
most status updates name the row by key and do not look at its status; a cache
fill is a read and an insert with an await in between; and an eviction follows
its statement only if the answer arrives and the handler is still there. The list
"hazards" in `PROJECT.json` gives each at its line.

## 2. Modules

| Module | Models |
|---|---|
| `NotificationLog` | the statements on `notification_log`, as functions from table to table |
| `Mailer` | how an SMTP or webhook conversation ends, which error class that is, and whether the mail may have been taken |
| `AtMostOnce` | abstract: a key is claimed once and handed to the sender once |
| `Delivery` | queue, runner, permits, recipient tasks, retry endpoints, reaper, crash, shutdown; extends `NotificationLog` and `Mailer`, instantiates `AtMostOnce` |
| `NotificationLogProofs` | what the statements do to any table: facts the proofs about `Delivery`, `GroupSend` and `Intake` share |
| `DeliveryProofs`, `DeliveryTraceProofs` | theorems about `Delivery`: who may send, and what is left behind |
| `GroupSend`, `GroupSendProofs` | group mode in both retry modes, its fallback and its replays by the retry endpoints; extends `NotificationLog` and `Mailer` |
| `Fetcher` | the attachment fetcher as operators, and a reference definition of its verdict |
| `Intake`, `IntakeProofs` | the producers, every early return of `handle_delivery`, the three queues; extends `NotificationLog` and `Fetcher`; the proofs are about both |
| `Outbox`, `OutboxProofs` | the transactional outbox and its theorems |
| `BlockList`, `BlockListProofs`, `Templates`, `TemplatesProofs` | the two cached stores and their theorems |
| `MC*` | the instances TLC runs |

**Steps.** One step is one await: a database statement or transaction, a call of
the sender, a publish with its confirm, a wait that ends. Local code between two
awaits belongs to the step before it. What a task knows across an await is in
its own record (`task`, `handler`, `worker`, `client`), so it may be stale.

**Delivery.** `ready` counts the copies of a message in the queue and
`handler[h]` is the delivery permit `h` is used for; `live` says whether its
channel still exists, because an ack on a dead channel reaches nobody.
`task[h, r]` is the loop of `process_one_recipient`: *check* (address, template,
rendering), *insert*, *filter*, *block*, *token*, *send*, *marksent*, *fail*
(the `match` on the outcome), *backoff*. A status write whose `Result` the code
drops goes on in either case (`DroppedResultWrite`). `ConnectionLost` requeues
and leaves the old handlers running; `Crash`, `DrainedExit` and `ForcedExit` end
the process, lose its memory and start it again. The retry endpoints reset,
publish and revert in three steps (`RetryRecipient`/`RetryEvent`, `Republish`,
`Revert`). `Reap` takes any set of PENDING rows: a row in a backoff, a
rate-limit wait or a send can be older than the timeout. `Panic` ends a task in
the middle: the join only logs it. History variables:
`sends`, `accepted`, `settled`, `unrecorded`, `ledger`.

**GroupSend.** One event; when its deliveries start is a free choice. In mode
*individual* all rows are inserted in one transaction, in mode *whole* only the
primary's. A loop over addresses keeps the positions it has still to visit
(`left`) and takes the least (`IsNext`, `Advance`). `Envelope` is the address list `process_group` really builds. A
handler carries the TO list and the retry policy of its own message, because the
retry endpoints queue other ones: `Orderings` gives the TO lists `republish_event`
can build from the rows it reset (ordered by `created_at`, which all rows of one
batch share, and cut off at `LIMIT 500`).

**Fetcher.** No state: `FetchOne` classifies an HTTP answer, `FetchOneWithRetry`
is the loop around it with the cancellation token, `Validate` the checks before
any request, `Collect` and `Representative` the choice of the error the caller
sees. `Outcome` is the whole call for given answers, with the verdict those
answers themselves call for (`Fate`, `Deserved`); `FetchAttachments` is the set
of outcomes a list of references can get.

**Intake.** `body` is what the code can tell from a message (no event at all,
how many recipients, which checks its addresses, its From, its type and its
attachment references pass, a `send_at`) and is chosen in `Init`. `SendEmail`,
`AnctlSend` and `McpSendEmail` publish what their own checks let through,
`Produce` publishes anything. The delayed queue is a FIFO whose head expires. A
deferral always requeues the original; its publish may fail, and then there is no
copy (`MaxDelayed` bounds the copies, and a full queue is modelled as that
failure). The recipient tasks are one step, `Dispatch`, which need not come:
`Delivery` shows that a task can go round for ever. `Fetch` acts on a verdict of
`Fetcher`. `copied` and `misjudged` are history: a second delivery of the
message may exist, and a verdict was not the deserved one.

**Outbox.** A row is its place in `created_at` order. `Fetch` takes the oldest
PENDING rows that no open transaction has locked; the batch is worked off by
priority. `Publish` ends with an ack or with any of the errors the code counts
as a failure, some of them with the message in the queue. `bound` says whether
the consumer has ever declared its queue.

**BlockList, Templates.** `client[c]` is a call of the store inside the service:
a check or resolve (*hit* or *load*, *store*) or a write (statement, *evict*).
A statement may take effect with its answer lost, and then the call returns
without an eviction (`Answered`); `Abort` drops the future of a call at any of
its awaits, as hyper does when the client has gone. History: `recent` is what the
table has held since the last call that was answered with success, and `raced`
marks a load that had read before an eviction what the table no longer held
then.
`RemoteEdit` and `RemoteUpsert` are the writes of the MCP server, another
replica or SQL by hand, which evict only their own cache.

### Left out on purpose

- Text: rendering, MIME, JSON, log lines, metrics, the columns `last_error`,
  `total_attempts` and the timestamps. A template that does not render is an
  outcome of *check*.
- CC and BCC addresses and the choice of a sender account: they change who is on
  a mail, not which steps are taken.
- Time: a timer may fire at any moment after it is set; TTLs are counted in
  ticks; "past the timeout" is a choice.
- A message that names one address twice.
- A block-list TTL of 0, which disables the cache.

## 3. Runs

Budgets bound how often each fault or outside call happens; every other loop is
bounded by the code (`MaxRetries`, `MaxRlWaits`) or returns to an earlier state.

| Run | Instance | Checks | Distinct states |
|---|---|---|---|
| `delivery_faults` | one event, two recipients (one invalid), two permits; one publish, crash, lost connection, database error, broken template and retry request, the reaper at will | `TypeOK`, `HandoffInv`, `AtMostOneHandoff`, `SentMeansAccepted`, `BlockedMeansNotMailed`, `NoMessageLost`, `AckLeavesTrace`, refinement `ImplementsAtMostOnce` | 1 317 178 |
| `delivery_shutdown` | one recipient, two permits; SIGTERM, a retry request with its replay, a panic, a database error, the reaper; fairness | `PermitReturnsOrSpins`, `PendingEnds` | 101 229 |
| `group_faults` | two recipients, any of them blocked, both modes, both retry policies, two deliveries (the message twice, or the message and a replay to one or both addresses) on two permits, one retry request, every fault once | `TypeOK`, `GroupAtMostOnce`, `SentMeansAccepted`, `FallbackFindsRow` | 3 693 630 |
| `intake_faults` | two scheduled messages, one of them with two attachments; or a message with two attachments and one that is garbled, empty, too large, with a bad reference, or checked by the MCP server only; two permits, one outage (a crash or a lost connection), one database error, one transient fetch error; fairness | `TypeOK`, `LeavesTrace`, `AcceptedIsNotRefused`, `SentIsDeadOnlyIfCopied`, `RequeueIfAnyRetryable`, `NothingCirculates` | 491 049 |
| `outbox_safety` | two workers, two rows, the urgent one malformed, batches of one, two failures allowed, every fault once | `TypeOK`, `PublishedWasAcked`, `FailedIffExhausted`, `OneOwner`, `CopiesAccounted` | 754 368 |
| `outbox_settles` | one worker, two rows in one batch, every fault once; fairness | `RowSettles` | 803 193 |
| `blocklist_cache` | two calls, two addresses in one domain, three writes, one row also edited from outside, lost answers and dropped calls, TTL 2; fairness | `TypeOK`, `SuccessIsVisible`, `Converges` | 176 163 |
| `templates_cache` | two calls, two types, two contents, three writes, lost answers and dropped calls, TTL 2 | `TypeOK`, `SuccessIsVisible`, `VersionNamesContent` | 93 127 |
| `delivery_retry`, `group_blocked`, `intake_defer`, `outbox_queued` | the smallest instance that shows it | one statement of the documentation each, violated (section 6) | |

Beside the types, `TypeOK` says in `Delivery` that no task runs without the
delivery it works for, in `GroupSend` that no fallback task outlives its join, in
`Intake` that nothing without recipients or above the ceiling gets past the
checks, in `Outbox` that no batch exceeds its limit, and in the caches that no
entry outlives its TTL.

Why these bounds are enough for what they ask. Two handlers of one message
already give the race of a redelivery with its predecessor; the retry request
adds a third message for the same key, and the crash and the lost connection
together produce up to three deliveries one after the other. Two recipients show
whether tasks of one delivery disturb each other; two in group mode are the
primary and a secondary, either of which a replay may name first. Two scheduled
messages show the one behind the head of the delayed queue; two attachments with
one retry each show every order of a permanent and a transient error. Two
outbox workers with one slow reap give the row-stealing race. For the caches two
calls are the loader and the writer; the third write allows a change and its
undoing. Each passing property has a mutant in `PROJECT.json`, a plausible
slip in the code that makes TLC report it. For every invariant of the runs, and
for the refinement, the proofs of section 5 remove the bounds altogether.

Deadlock is not an error in any run: with the budgets spent and all messages
settled the system waits for the next one.

## 4. Fairness

- `Delivery`: weak fairness of the runner's receive, spawn and drain, of each
  task's next step, of each ack, of the end of a retry request and of the forced
  exit. tokio polls every task that is ready, `select!` polls all its branches,
  sleeps and sends end (the mail client has a timeout), and
  `shutdown_timeout_secs` bounds the drain. The reaper's interval ticks until
  the token is cancelled, and since the insert that answers `Duplicate` writes
  `updated_at` back as it was, a row that stays PENDING becomes stale: weak
  fairness of its reaping while the token is not cancelled (with the default
  `stale_pending_timeout_secs`; `main.rs` warns about 0). Nothing is assumed of
  operators, faults or a successful send.
- `Intake`: a handler's own steps go on, and the broker delivers what is ready
  and expires what is due. Nothing is assumed of the recipient tasks, which need
  not end (section 6): `NothingCirculates` says that every message is in the end
  acknowledged, dead-lettered or with its recipient tasks, and lets a message
  wait only when tasks that do not end hold every permit. `max_concurrency`
  such messages do stop the consumer. Transient fetch errors are bounded by
  their budget: the code requeues without a count, so an attachment server that
  never recovers keeps a message circulating until its links expire, and the
  property says only that nothing else does.
- `Outbox`: each worker's loop goes on, and the reaper ticks: a row no worker
  holds is reset some day. Nothing is assumed of successful publishes; a row may
  end FAILED.
- `BlockList`: a call that has begun goes on, and time passes.

## 5. Proofs

Every invariant that a passing run checks is also proved, for every value of the
constants the named assumption of its module admits: any sets of events,
recipients, rows, messages and contents, any finite number of permits or
workers, every limit, TTL and budget. TLC checked each inductive invariant on
the run's instance before it was proved.

**Delivery, who may send** (`DeliveryProofs`): `TypeCorrect` (which
needs of `Ack` that it waits for every task); `HandoffSafe`
(`HandoffInv`) and from it `NoDoubleSend` (`AtMostOneHandoff`), `SentIsTrue`
(`SentMeansAccepted`), `BlockedIsTrue` (`BlockedMeansNotMailed`); `Refinement`
(`ImplementsAtMostOnce`). `sends[k] <= 1` alone is not inductive: it says nothing
about a task that is about to send. `HandoffInv` adds who may send. A task
between its successful insert and its call of the sender *holds* its key. A held
key has a row that is not BLOCKED and has not been mailed (`HolderOwnsRow`), two
tasks never hold the same key (`OneHolder`), a mailed key has a row and the row
is not BLOCKED (`MailedHasRow`), and a task that is about to write SENT has seen
the provider accept (`RecordingWasAccepted`). The insert is the only step that
begins a hold, and it succeeds only where there is no row; no statement of the
retry API, the reaper or a status update ever removes a row
(`NotificationLogProofs`). A crash ends every hold but leaves the row, so nobody
can begin another. That is also why a failed attempt is never repeated
(section 6). A step that creates no hold and changes neither `sends` nor the set
of existing rows preserves the invariant by one lemma (`SoftStep`); the insert,
the block, the send and the SENT write have one lemma each. For the refinement,
a key is claimed when it has a row and `mails` is `sends`: a row that were
removed, a send without a row and a second send would each be a step
`AtMostOnce` does not have.

**Delivery, what is left behind** (`DeliveryTraceProofs`): `LedgerBalances`
(`NoMessageLost`) is inductive beside the types; the work is in counting. Every
step moves one copy between the queue, the runner and a permit or adds or
removes one on both sides (`Balanced`), and the cardinality of the permits that
hold a live delivery changes by one with one permit. `AckIsTraced`
(`AckLeavesTrace`) needs that every task that has returned has a row or lost its
status write (`DoneLeavesTrace`), and that no step removes such a trace.

**Group sends** (`GroupSendProofs`): `GroupTypeCorrect` (a task stays while its
handler waits in the join, `TasksStay`), `GroupSafe`
(`GroupInv`), and from it `GroupMailsOnce` (`GroupAtMostOnce`), `GroupSentIsTrue`
(`SentMeansAccepted`) and `FallbackIsCovered` (`FallbackFindsRow`). The primary's
row is the right to send. A replay's TO list is made of rows that exist, so its
insert never succeeds (`ReplayHasRows`); hence a handler between its insert and
its send works on the producer's message, is the only one, and nothing has been
mailed (`HolderIsAlone`). In individual mode the batch leaves a row for every
address (`BatchHasRows`), so a fallback task meets a row and cannot insert, and
the addresses whose rows are still to be marked were on the accepted mail
(`MarkingWasAccepted`).

**Intake and fetcher** (`IntakeProofs`): `IntakeTypeCorrect`,
`NothingDisappears` (`LeavesTrace`), `ApiPromiseKept` (`AcceptedIsNotRefused`),
`SentOrDead` (`SentIsDeadOnlyIfCopied`) from `IntakeInv`: the place of a handler
tells what its body is like (`StageKnown`), rows and dead letters have a cause
(`RefusedForCause`), an ack comes after the work or a row (`AckIsHandled`), and a
message that was never copied has one delivery, in one place (`OneDelivery`).
`VerdictsAreDeserved` (`RequeueIfAnyRetryable`) is about the algorithm: for any
number of attachments and retries, what `FetchOneWithRetry` and `Collect` compute
is what `Fate` and `Deserved` say. Both are recursive functions. For each there is
a closed form (`Settled`, `Reduced`) that solves the recursion; the function and
its closed form then agree at every index by `IntervalInduction`, which is
induction stated as a fact about a set of indices.

**Outbox** (`OutboxProofs`): `PublishedSafe` (`PublishedWasAcked`),
`FailureLimitSafe` (`FailedIffExhausted`) and `ClaimsExclusive` (`OneOwner`) from
`OutboxInv`. It adds to the three that the row in a worker's hands has left its
batch and was acked when it is to be marked (`HandInv`), and that a row some
worker holds is IN_PROGRESS or PUBLISHED unless the reaper touched it
(`HeldIsClaimed`): otherwise a second worker could claim it. `OutboxTypeCorrect`
(`TypeOK`) includes that no batch exceeds `batch_size`: the oldest rows that have
fewer than `batch_size` older ones are at most that many, by the greatest of them
(`OldestIsLimited`). `DuplicatesBounded` (`CopiesAccounted`) needs to count the
copies that are still to come: copies, plus workers that have claimed the row
and not published it, plus one when the row can be claimed, never exceed one
plus recorded failures plus reaps (`ClaimsPaid`).

**Caches** (`BlockListProofs`, `TemplatesProofs`): `BlockListTypeCorrect`,
`SnapshotShowsSuccess`, `TemplatesTypeCorrect`, `TemplateShowsSuccess`
(`SuccessIsVisible` of each). What makes it inductive is `LoadIsRecent`: a load
that has not raced is about to store what the table has held since the last
success. Lost answers, dropped calls and writes from outside only add to that
set; an eviction is the one step that reduces it, to the table as it is, and it
empties the cache and marks every load that holds anything else.
`VersionsAreHonest` (`VersionNamesContent`) needs that the row holds the newest
version with that version's content (`RowIsNewest`).

**Induction.** The prover cannot instantiate the library's induction theorems,
which take an operator as a parameter. `HasGreatest` and `IntervalInduction` get
the same from well-foundedness: strict inclusion of finite sets is well-founded,
so some set of a non-empty family is minimal.

**Only model-checked:** liveness (`PermitReturnsOrSpins`, `PendingEnds`,
`NothingCirculates`, `RowSettles`, `Converges`), which is out of this prover's reach.

## 6. Where the code and its documentation disagree

Each of the first four is a run whose property TLC finds violated.

1. **A retry never sends** (`delivery_retry`). The first attempt's insert leaves
   a PENDING row; the next attempt's insert answers `Duplicate`, and
   `delivery.rs:657` starts the loop again, without a delay, until somebody else
   makes the row terminal. The task keeps its permit meanwhile, which is why
   `PermitReturnsOrSpins` has its second half. Rows the retry endpoints reset to
   PENDING meet the same loop. `README.md:16`: "transient failures retry
   automatically". Group mode has the same loops, and its comments promise the
   same: a retry in mode *whole* is said to re-send (`processor.rs:302`: "On
   retry the whole group email is re-sent as a unit"; `delivery.rs:1040`: "those
   addresses will receive the email a second time on retry"), and so is the
   fallback of mode *individual* (`delivery.rs:998-1001` and `1092-1094`: "only
   genuinely unsent addresses receive a new (individual) email"). In the code
   neither sends: the retry finds the primary's row, and a fallback task the row
   the group's batch inserted for its address. `GroupAtMostOnce` and
   `FallbackFindsRow` hold for that reason, and were the retries repaired as the
   comments describe, mode *whole* would no longer satisfy `GroupAtMostOnce`.
2. **A group mail to a blocked primary** (`group_blocked`). `processor.rs:666`
   builds the mail from the original primary and the allowed addresses after the
   first.
3. **A deferred message is deferred again** (`intake_defer`). The consumer's
   channel is not in confirm mode, so the confirmation `delivery.rs:391` waits
   for is never an ack: the copy is in the delayed queue and the original is
   requeued.
4. **PUBLISHED but not queued** (`outbox_queued`). The worker publishes without
   the mandatory flag to an exchange that may have no queue yet.

Smaller ones the models also contain, without a run of their own:

- `mark_failed` does not look at the status: a redelivery of a sent message that
  fails before its insert (a template that no longer renders) turns SENT into
  FAILED. `SentMeansAccepted` is therefore an implication and not an equivalence.
- `record_publish_failure` updates by id: the late failure of a slow worker
  takes back a row another worker has published. The message is published once
  more, which `CopiesAccounted` accounts for.
- A check that read `block_list` before an endpoint's write can store its
  snapshot after the endpoint's eviction; the row is then ignored until the TTL.
  A resolve does the same with a template row.
- A write of either store evicts nothing when its statement took effect and the
  answer was lost (`block_list_store.rs:178` and `201`, `template_store.rs:287`
  and `357` return before `invalidate()`), or when the client disconnects and its
  handler is dropped before the eviction; a template's scan and eviction are two
  awaits. Writes of other processes never evict. `README.md:407`: "After
  uploading via the API or `anctl`, the cache is invalidated automatically".
  `SuccessIsVisible` says what is left of that: once a write or a flush has been
  answered with success, nothing from before it is served again, except by the
  one load that spans the eviction; what may still be missing is a write that
  was not answered, or that was made elsewhere. `Converges` says that for the
  block list no such difference lasts.
- `Publisher::publish` answers Ok for a nack, so a retry may be reported as
  accepted with nothing queued; a replay is cut off at 500 rows; a panic leaves
  its row as it was. `PendingEnds` says that such rows do not stay PENDING: the
  reaper makes them FAILED.
- In mode *whole* only the primary has a row, so a replay is addressed to the
  primary alone; the column `to_recipients`, which holds the others, is not read.
- A second delivery of a message that was sent is dead-lettered when its links
  have expired, because attachments are fetched before the idempotency check.
  `SentIsDeadOnlyIfCopied` says that nothing else brings a sent message there.

## 7. Not modelled

- Template rendering (`mailer/template.rs`) is a wrapper around minijinja: text
  in, text or an error out. The models keep that it can fail permanently.
- The status API, the read-only tools of the MCP server and the commands of anctl
  other than `send` read the database or call a modelled endpoint; none has a
  state of its own.
- Configuration and logging: settings are the constants of the models, and the
  checks at start-up only refuse to start.
- The token bucket of the rate limiter is the governor crate; the models keep its
  two outcomes, a token or the shutdown.
- The matching rule of the config-file filter is a constant set; the same rule
  on database rows is in `BlockList`. Group mode asks the config-file filter only
  (`processor.rs:591`); no text says what should apply, so no property does.

## 8. Plan

Done: the modules above, in the order `NotificationLog`, `Mailer`, `Delivery`
with its proofs, `Outbox` with its proofs, `GroupSend`, `Intake`, `BlockList`,
`Templates`, then `Fetcher`, the producers, the replays of group events, panics
and the reaper's fairness. A composition of `Outbox` with `Delivery` would say
nothing new: `Delivery` lets every message be published again, and the proof of
`NoDoubleSend` covers any number of copies.

The proofs followed in the order of section 5. What could still be added:
abstract specifications for the other components, as `AtMostOnce` is for
`Delivery` (a queue that never forgets for `Intake`, an at-least-once publisher
for `Outbox`), with the refinements proved from the inductive invariants that
exist, and action properties stated on their own (a terminal row changes only by
a retry or a late status write; a PUBLISHED row only by a late failure).
