------------------------------ MODULE Delivery ------------------------------
(***************************************************************************)
(* The consumer in individual send mode, with everything that shares its   *)
(* state: the RabbitMQ queue (ready messages and unacknowledged            *)
(* deliveries), the runner with its permits, one task per recipient of a   *)
(* delivery, the notification_log table, the retry endpoints of the HTTP   *)
(* API and the stale-PENDING reaper.                                       *)
(*                                                                         *)
(* One step of a task is one await of process_recipient or of the retry    *)
(* loop around it: what is read before an await may be stale after it.     *)
(* The decisions handle_delivery takes before it spawns the tasks are in   *)
(* module Intake.                                                          *)
(***************************************************************************)
EXTENDS NotificationLog, Mailer, Integers, FiniteSets

CONSTANTS
    Events,        \* event_ids
    Recipients,    \* TO addresses
    Invalid,       \* the addresses is_valid_email rejects
    ConfigBlocked, \* the addresses the config-file filter blocks
    Handlers,      \* permits of the semaphore: max_concurrency of them
    Published,     \* the messages the producers publish
    NoMsg,         \* "no delivery"
    MaxRetries,    \* cfg.max_retries
    MaxRlWaits,    \* cfg.max_rl_waits
    ReplayLimit,   \* LIMIT 500 of get_recipients_for_event
    Budget         \* how often each kind of fault or outside call may happen

\* noRetry is retry_policy = NoRetry.
Msgs == [event: Events, to: SUBSET Recipients, noRetry: BOOLEAN]

Keys == Events \X Recipients

Tasks == Handlers \X Recipients

BudgetKinds == {"publish", "crash", "netloss", "shutdown", "dberr",
                "template", "retry", "panic"}

ASSUME DeliveryAssumption ==
    /\ IsFiniteSet(Handlers)
    /\ Invalid \subseteq Recipients
    /\ ConfigBlocked \subseteq Recipients
    /\ Published \subseteq Msgs
    /\ NoMsg \notin Msgs
    /\ MaxRetries \in Nat
    /\ MaxRlWaits \in Nat
    /\ ReplayLimit \in Nat \ {0}
    /\ Budget \in [BudgetKinds -> Nat]

VARIABLES
    log,        \* notification_log
    ready,      \* copies of each message waiting in the main queue
    ledger,     \* copies published and not yet acknowledged (history)
    held,       \* the delivery the runner took and has no permit for yet
    runner,     \* where the runner's loop is
    handler,    \* the delivery each permit is used for
    task,       \* the per-recipient retry loops
    shutdown,   \* the cancellation token
    api,        \* the retry request in progress
    sends,      \* calls of sender.send per key (history)
    accepted,   \* keys the mail provider accepted (history)
    settled,    \* keys of acknowledged deliveries (history)
    unrecorded, \* keys that lost a status write (history)
    budget      \* what is left of Budget

vars == <<log, ready, ledger, held, runner, handler, task, shutdown, api,
          sends, accepted, settled, unrecorded, budget>>

\* A delivery is live while the channel it came from is: only then do ack
\* and nack reach the broker.
NoDelivery == [msg |-> NoMsg, live |-> FALSE]
NoTask == [pc |-> "none", attempt |-> 0, rl |-> 0, err |-> "none"]
NoRequest == [pc |-> "idle", keys |-> {}]

Deliveries == [msg: Msgs, live: BOOLEAN] \cup {NoDelivery}
PCs == {"none", "check", "insert", "filter", "block", "token", "send",
        "marksent", "fail", "backoff", "done"}
Task == [pc: PCs, attempt: Nat, rl: Nat, err: Errors \cup {"none"}]

VarTypes ==
    /\ log \in [Keys -> Row]
    /\ ready \in [Msgs -> Nat]
    /\ ledger \in [Msgs -> Int]
    /\ held \in Deliveries
    /\ runner \in {"consuming", "draining"}
    /\ handler \in [Handlers -> Deliveries]
    /\ task \in [Tasks -> Task]
    /\ shutdown \in BOOLEAN
    /\ api \in [pc: {"idle", "publish", "revert"}, keys: SUBSET Keys]
    /\ sends \in [Keys -> Nat]
    /\ accepted \subseteq Keys
    /\ settled \subseteq Keys
    /\ unrecorded \subseteq Keys
    /\ budget \in [BudgetKinds -> Nat]

SpawnedHasMessage ==
    \A t \in Tasks : task[t].pc # "none" => handler[t[1]].msg \in Msgs

\* The types of the variables; a recipient task runs only while its handler
\* has the delivery and, with it, one of the permits that bound the work in
\* flight: the handler joins every task before it returns.
TypeOK == VarTypes /\ SpawnedHasMessage

Init ==
    /\ log = [k \in Keys |-> NoRow]
    /\ ready = [m \in Msgs |-> 0]
    /\ ledger = [m \in Msgs |-> 0]
    /\ held = NoDelivery
    /\ runner = "consuming"
    /\ handler = [h \in Handlers |-> NoDelivery]
    /\ task = [t \in Tasks |-> NoTask]
    /\ shutdown = FALSE
    /\ api = NoRequest
    /\ sends = [k \in Keys |-> 0]
    /\ accepted = {}
    /\ settled = {}
    /\ unrecorded = {}
    /\ budget = Budget

-----------------------------------------------------------------------------
\* Helpers.

\* The idempotency key task t works on.
Key(t) == <<handler[t[1]].msg.event, t[2]>>

\* One use of a bounded fault or outside call.
Spend(kind) ==
    /\ budget[kind] > 0
    /\ budget' = [budget EXCEPT ![kind] = @ - 1]

\* A status write of task t whose Result the code drops: it is applied, or
\* the database refuses it.  Either way t goes on.  A write that finds no
\* row (NotFound) is lost as well.
DroppedResultWrite(t, new) ==
    \/ /\ log' = new
       /\ unrecorded' = IF Exists(log, Key(t)) THEN unrecorded
                        ELSE unrecorded \cup {Key(t)}
       /\ UNCHANGED budget
    \/ /\ Spend("dberr")
       /\ unrecorded' = unrecorded \cup {Key(t)}
       /\ UNCHANGED log

Goto(t, pc) == task' = [task EXCEPT ![t].pc = pc]

FailWith(t, err) == task' = [task EXCEPT ![t].pc = "fail", ![t].err = err]

-----------------------------------------------------------------------------
(***************************************************************************)
(* The broker and the runner.                                              *)
(***************************************************************************)

\* What no step of a recipient task changes.
aroundTask == <<ready, ledger, held, runner, handler, shutdown, api, settled>>

\* What no step of the broker, the runner or the process's life changes.
deliveryHistory == <<log, sends, accepted, unrecorded>>

\* A copy of m reaches the main queue.
Enqueue(m) ==
    /\ ready' = [ready EXCEPT ![m] = @ + 1]
    /\ ledger' = [ledger EXCEPT ![m] = @ + 1]

\* The outbox worker or POST /emails publishes m; a repeated publish of the
\* same event is what an unconfirmed outbox publish leads to.
Publish(m) ==
    /\ Spend("publish")
    /\ Enqueue(m)
    /\ UNCHANGED <<held, runner, handler, task, shutdown, api, settled>>
    /\ UNCHANGED deliveryHistory

\* consumer.next() yields a delivery.  select! may take this branch even
\* when the shutdown token is cancelled.
Receive(m) ==
    /\ runner = "consuming"
    /\ held = NoDelivery
    /\ ready[m] > 0
    /\ ready' = [ready EXCEPT ![m] = @ - 1]
    /\ held' = [msg |-> m, live |-> TRUE]
    /\ UNCHANGED <<ledger, runner, handler, task, shutdown, api, settled, budget>>
    /\ UNCHANGED deliveryHistory

\* acquire_owned() returns permit h and the handler is spawned, which spawns
\* one task per recipient.
Spawn(h) ==
    /\ held # NoDelivery
    /\ handler[h] = NoDelivery
    /\ handler' = [handler EXCEPT ![h] = held]
    /\ task' = [t \in Tasks |->
                  IF t[1] = h /\ t[2] \in held.msg.to
                  THEN [NoTask EXCEPT !.pc = "check"] ELSE task[t]]
    /\ held' = NoDelivery
    /\ UNCHANGED <<ready, ledger, runner, shutdown, api, settled, budget>>
    /\ UNCHANGED deliveryHistory

\* Release permit h; the broker takes the ack when acked is TRUE.
Finish(h, acked) ==
    /\ IF acked
       THEN /\ ledger' = [ledger EXCEPT ![handler[h].msg] = @ - 1]
            /\ settled' = settled \cup
                 ({handler[h].msg.event} \X handler[h].msg.to)
       ELSE UNCHANGED <<ledger, settled>>
    /\ handler' = [handler EXCEPT ![h] = NoDelivery]
    /\ task' = [t \in Tasks |-> IF t[1] = h THEN NoTask ELSE task[t]]
    /\ UNCHANGED <<ready, held, runner, shutdown, api, budget>>
    /\ UNCHANGED deliveryHistory

\* Mutant of Ack: the ack is sent as soon as the tasks are spawned.
AckOnSpawn(h) == handler[h] # NoDelivery /\ Finish(h, handler[h].live)

\* Mutant of Ack: the first task that returns ends the handler, the others
\* are left running.
AckFirst(h) ==
    /\ handler[h] # NoDelivery
    /\ \E r \in handler[h].msg.to : task[<<h, r>>].pc = "done"
    /\ handler' = [handler EXCEPT ![h] = NoDelivery]
    /\ task' = [t \in Tasks |->
                  IF t[1] = h /\ task[t].pc = "done" THEN NoTask ELSE task[t]]
    /\ UNCHANGED <<ready, ledger, settled, held, runner, shutdown, api, budget>>
    /\ UNCHANGED deliveryHistory

\* Mutant of Ack: an ack for a delivery of an old channel is honoured.
AckAnyChannel(h) ==
    /\ handler[h] # NoDelivery
    /\ \A r \in handler[h].msg.to : task[<<h, r>>].pc = "done"
    /\ Finish(h, TRUE)

\* Every task of the delivery has returned: ack, and release the permit.
Ack(h) ==
    /\ handler[h] # NoDelivery
    /\ \A r \in handler[h].msg.to : task[<<h, r>>].pc = "done"
    /\ Finish(h, handler[h].live)

\* The unacknowledged live deliveries, back in the queue.
Requeued ==
    [m \in Msgs |->
        ready[m] + Cardinality({h \in Handlers : handler[h] = [msg |-> m, live |-> TRUE]})
                 + (IF held = [msg |-> m, live |-> TRUE] THEN 1 ELSE 0)]

Dead(d) == [msg |-> d.msg, live |-> FALSE]

\* The connection drops (network, broker restart, consumer_timeout) and the
\* runner connects again.  Handlers of the old connection keep running; the
\* broker delivers their messages again.
ConnectionLost ==
    /\ Spend("netloss")
    /\ ready' = Requeued
    /\ held' = Dead(held)
    /\ handler' = [h \in Handlers |-> Dead(handler[h])]
    /\ UNCHANGED <<ledger, runner, task, shutdown, api, settled>>
    /\ UNCHANGED deliveryHistory

\* The process is gone and a new one starts: memory is lost, the database
\* and the broker stay.
ProcessRestarts ==
    /\ ready' = Requeued
    /\ held' = NoDelivery
    /\ runner' = "consuming"
    /\ handler' = [h \in Handlers |-> NoDelivery]
    /\ task' = [t \in Tasks |-> NoTask]
    /\ shutdown' = FALSE
    /\ api' = NoRequest
    /\ UNCHANGED <<ledger, settled>>
    /\ UNCHANGED deliveryHistory

Crash == Spend("crash") /\ ProcessRestarts

\* SIGTERM cancels the token.
Shutdown ==
    /\ ~shutdown
    /\ Spend("shutdown")
    /\ shutdown' = TRUE
    /\ UNCHANGED <<ready, ledger, held, runner, handler, task, api, settled>>
    /\ UNCHANGED deliveryHistory

\* The runner sees the token and waits for every permit.
Drain ==
    /\ shutdown
    /\ runner = "consuming"
    /\ held = NoDelivery
    /\ runner' = "draining"
    /\ UNCHANGED <<ready, ledger, held, handler, task, shutdown, api, settled, budget>>
    /\ UNCHANGED deliveryHistory

\* All permits are back and the API's request has finished: main returns.
DrainedExit ==
    /\ runner = "draining"
    /\ api = NoRequest
    /\ \A h \in Handlers : handler[h] = NoDelivery
    /\ ProcessRestarts
    /\ UNCHANGED budget

\* shutdown_timeout_secs passes first.
ForcedExit ==
    /\ shutdown
    /\ ProcessRestarts
    /\ UNCHANGED budget

-----------------------------------------------------------------------------
(***************************************************************************)
(* process_recipient and the retry loop of process_one_recipient.          *)
(***************************************************************************)

\* Steps 0 to 2c, before any write: address, template, from_override,
\* rendering.  A broken template is permanent, a failed lookup transient.
Check(t) ==
    /\ task[t].pc = "check"
    /\ \/ t[2] \in Invalid /\ FailWith(t, "permanent") /\ UNCHANGED budget
       \/ t[2] \notin Invalid /\ Goto(t, "insert") /\ UNCHANGED budget
       \/ t[2] \notin Invalid /\ Spend("template") /\ FailWith(t, "permanent")
       \/ t[2] \notin Invalid /\ Spend("dberr") /\ FailWith(t, "transient")
    /\ UNCHANGED aroundTask
    /\ UNCHANGED deliveryHistory

\* Mutant of Insert: a non-terminal duplicate goes on to the send.
ResumeOnDuplicate(t) ==
    /\ task[t].pc = "insert"
    /\ ~Terminal(log[Key(t)].status)
    /\ log' = InsertPending(log, Key(t))
    /\ Goto(t, "filter")
    /\ UNCHANGED aroundTask
    /\ UNCHANGED <<sends, accepted, unrecorded, budget>>

\* Step 3, the idempotency insert.  Inserted goes on; a terminal duplicate
\* is skipped; any other duplicate seeds attempt and starts over; a database
\* error may be reported after the commit took effect.
Insert(t) ==
    LET row == log[Key(t)] IN
    /\ task[t].pc = "insert"
    /\ \/ /\ ~Exists(log, Key(t))
          /\ log' = InsertPending(log, Key(t))
          /\ Goto(t, "filter")
          /\ UNCHANGED budget
       \/ /\ Terminal(row.status)
          /\ Goto(t, "done")
          /\ UNCHANGED <<log, budget>>
       \/ /\ Exists(log, Key(t))
          /\ ~Terminal(row.status)
          /\ task' = [task EXCEPT ![t].pc = "check", ![t].attempt = row.retry]
          /\ UNCHANGED <<log, budget>>
       \/ /\ Spend("dberr")
          /\ log' \in {log, InsertPending(log, Key(t))}
          /\ FailWith(t, "transient")
    /\ UNCHANGED aroundTask
    /\ UNCHANGED <<sends, accepted, unrecorded>>

\* Steps 4 and 4b.  The DB block list changes at run time and fails open.
Filter(t) ==
    /\ task[t].pc = "filter"
    /\ \/ Goto(t, "block")
       \/ t[2] \notin ConfigBlocked /\ Goto(t, "token")
    /\ UNCHANGED aroundTask
    /\ UNCHANGED deliveryHistory
    /\ UNCHANGED budget

\* Mutant of Block: no return after mark_blocked.
BlockAndSend(t) ==
    /\ task[t].pc = "block"
    /\ DroppedResultWrite(t, MarkBlocked(log, Key(t)))
    /\ Goto(t, "token")
    /\ UNCHANGED aroundTask
    /\ UNCHANGED <<sends, accepted>>

Block(t) ==
    /\ task[t].pc = "block"
    /\ DroppedResultWrite(t, MarkBlocked(log, Key(t)))
    /\ Goto(t, "done")
    /\ UNCHANGED aroundTask
    /\ UNCHANGED <<sends, accepted>>

\* Step 6: a rate-limit token, or Shutdown reported as a queue error.
Token(t) ==
    /\ task[t].pc = "token"
    /\ \/ Goto(t, "send")
       \/ shutdown /\ FailWith(t, "transient")
    /\ UNCHANGED aroundTask
    /\ UNCHANGED deliveryHistory
    /\ UNCHANGED budget

\* Mutant of Send: an error is taken for a success.
SendUnchecked(t) ==
    /\ task[t].pc = "send"
    /\ sends' = [sends EXCEPT ![Key(t)] = @ + 1]
    /\ Goto(t, "marksent")
    /\ accepted' \in {accepted, accepted \cup {Key(t)}}
    /\ UNCHANGED aroundTask
    /\ UNCHANGED <<log, unrecorded, budget>>

\* Step 7: the provider's answer, and whether it took the mail.
Send(t) ==
    /\ task[t].pc = "send"
    /\ sends' = [sends EXCEPT ![Key(t)] = @ + 1]
    /\ \E o \in SendOutcomes :
         /\ IF o.err = "none" THEN Goto(t, "marksent") ELSE FailWith(t, o.err)
         /\ accepted' = IF o.took THEN accepted \cup {Key(t)} ELSE accepted
    /\ UNCHANGED aroundTask
    /\ UNCHANGED <<log, unrecorded, budget>>

RecordSent(t) ==
    /\ task[t].pc = "marksent"
    /\ DroppedResultWrite(t, MarkSent(log, Key(t)))
    /\ Goto(t, "done")
    /\ UNCHANGED aroundTask
    /\ UNCHANGED <<sends, accepted>>

\* The retry loop's match on Failed(e), in its order: not retryable,
\* max_retries reached, NoRetry, too many rate-limit waits.
GivesUp(t) ==
    \/ task[t].err = "permanent"
    \/ task[t].attempt >= MaxRetries
    \/ handler[t[1]].msg.noRetry
    \/ task[t].err = "ratelimited" /\ task[t].rl + 1 > MaxRlWaits

\* A rate limit does not consume an attempt.
AfterFailure(t) ==
    LET now == task[t] IN
    IF GivesUp(t) THEN [now EXCEPT !.pc = "done"]
    ELSE IF now.err = "ratelimited"
    THEN [now EXCEPT !.pc = "backoff", !.rl = now.rl + 1]
    ELSE [now EXCEPT !.pc = "backoff", !.attempt = now.attempt + 1, !.rl = 0]

Fail(t) ==
    /\ task[t].pc = "fail"
    /\ DroppedResultWrite(t, MarkFailed(log, Key(t), GivesUp(t)))
    /\ task' = [task EXCEPT ![t] = AfterFailure(t)]
    /\ UNCHANGED aroundTask
    /\ UNCHANGED <<sends, accepted>>

\* Mutant of Wake: the backoff waits for the cancellation only.
WakeOnCancel(t) ==
    /\ task[t].pc = "backoff"
    /\ shutdown
    /\ Goto(t, "check")
    /\ UNCHANGED aroundTask
    /\ UNCHANGED deliveryHistory
    /\ UNCHANGED budget

\* The delay has passed.
Wake(t) ==
    /\ task[t].pc = "backoff"
    /\ Goto(t, "check")
    /\ UNCHANGED aroundTask
    /\ UNCHANGED deliveryHistory
    /\ UNCHANGED budget

\* The token is cancelled during the delay: FAILED, so an operator sees it.
StopBackoff(t) ==
    /\ task[t].pc = "backoff"
    /\ shutdown
    /\ DroppedResultWrite(t, MarkFailed(log, Key(t), TRUE))
    /\ Goto(t, "done")
    /\ UNCHANGED aroundTask
    /\ UNCHANGED <<sends, accepted>>

\* The task panics: the join only logs it, so the delivery is acknowledged
\* like any other and the row, if there is one, stays as it is.
Panic(t) ==
    /\ task[t].pc \notin {"none", "done"}
    /\ Spend("panic")
    /\ unrecorded' = IF Exists(log, Key(t)) THEN unrecorded
                     ELSE unrecorded \cup {Key(t)}
    /\ Goto(t, "done")
    /\ UNCHANGED aroundTask
    /\ UNCHANGED <<log, sends, accepted>>

TaskStep(t) ==
    \/ Check(t) \/ Insert(t) \/ Filter(t) \/ Block(t) \/ Token(t) \/ Send(t)
    \/ RecordSent(t) \/ Fail(t) \/ Wake(t) \/ StopBackoff(t)
    \/ Panic(t)

-----------------------------------------------------------------------------
(***************************************************************************)
(* The retry endpoints and the reaper, in the consumer's process.          *)
(***************************************************************************)
aroundApi == <<held, runner, handler, task, shutdown, settled, sends, accepted,
               unrecorded>>

\* An endpoint resets the rows K of one event, before it publishes.  A
\* request in progress is served during a graceful shutdown too.
ResetRows(K) ==
    /\ api = NoRequest
    /\ Spend("retry")
    /\ log' = ResetToPending(log, K)
    /\ api' = [pc |-> "publish", keys |-> K]
    /\ UNCHANGED <<ready, ledger>>
    /\ UNCHANGED aroundApi

\* POST /emails/:event_id/recipients/:email/retry
RetryRecipient(k) ==
    /\ k[2] \notin Invalid
    /\ Retryable(log, k)
    /\ ResetRows({k})

\* POST /emails/:event_id/retry
RetryEvent(e) ==
    LET failed == {k \in {e} \X Recipients : log[k].status = "FAILED"} IN
    /\ failed # {}
    /\ ResetRows(failed)

\* What get_recipients_for_event can return of the rows K.
Found(K) ==
    {F \in SUBSET K : \/ Cardinality(F) = ReplayLimit
                      \/ F = K /\ Cardinality(K) < ReplayLimit}

\* The message republish_event builds from the rows F it found: the reset
\* recipients only, with the default retry policy.
Replay(F) ==
    [event   |-> CHOOSE e \in Events : \E r \in Recipients : <<e, r>> \in F,
     to      |-> {r \in Recipients : \E e \in Events : <<e, r>> \in F},
     noRetry |-> FALSE]

\* What Publisher::publish does and answers: it returns Ok for any confirm,
\* so a nacked or returned message counts as published, and an error also
\* for a confirm that comes too late for a message that was persisted.
PublishResults == [queued: BOOLEAN, ok: BOOLEAN]

\* republish_event.  A check of the stored row that fails is an error like
\* one of the publisher: nothing is queued.
Republish ==
    /\ api.pc = "publish"
    /\ \E result \in PublishResults, found \in Found(api.keys) :
         /\ IF result.queued THEN Enqueue(Replay(found)) ELSE UNCHANGED <<ready, ledger>>
         /\ api' = IF result.ok THEN NoRequest ELSE [api EXCEPT !.pc = "revert"]
    /\ UNCHANGED <<log, budget>>
    /\ UNCHANGED aroundApi

\* republish_or_revert puts the rows that are still PENDING back to FAILED.
Revert ==
    /\ api.pc = "revert"
    /\ \/ log' = RevertToFailed(log, api.keys) /\ UNCHANGED budget
       \/ Spend("dberr") /\ UNCHANGED log
    /\ api' = NoRequest
    /\ UNCHANGED <<ready, ledger>>
    /\ UNCHANGED aroundApi

\* Mutant of Reap: the statement matches no row.
ReapNothing(K) ==
    /\ K # {}
    /\ \A k \in K : log[k].status = "PENDING"
    /\ UNCHANGED vars

\* One run of the stale-PENDING reaper finds the rows K past the timeout.
\* Backoffs, rate-limit waits and sends can all outlast it, so any PENDING
\* row may be among them.  select! may take the tick even when the shutdown
\* token is cancelled.
Reap(K) ==
    /\ K # {}
    /\ \A k \in K : log[k].status = "PENDING"
    /\ log' = ReapStalePending(log, K)
    /\ UNCHANGED <<ready, ledger, api, budget>>
    /\ UNCHANGED aroundApi

-----------------------------------------------------------------------------
RunnerStep ==
    \/ \E m \in Msgs : Receive(m)
    \/ \E h \in Handlers : Spawn(h) \/ Ack(h)
    \/ Drain
    \/ DrainedExit

Environment ==
    \/ \E m \in Published : Publish(m)
    \/ ConnectionLost
    \/ Crash
    \/ Shutdown
    \/ ForcedExit
    \/ \E k \in Keys : RetryRecipient(k)
    \/ \E e \in Events : RetryEvent(e)
    \/ \E K \in SUBSET Keys : Reap(K)

Next ==
    \/ RunnerStep
    \/ \E t \in Tasks : TaskStep(t)
    \/ Republish
    \/ Revert
    \/ Environment

Spec == Init /\ [][Next]_vars

\* tokio runs every task that is ready, timers fire, and select! polls all
\* its branches.  The reaper's interval ticks until the token is cancelled,
\* and a round on a duplicate does not touch updated_at, so a row that stays
\* PENDING becomes stale.  Operators and faults are not counted on.
Fairness ==
    /\ \A m \in Msgs : WF_vars(Receive(m))
    /\ \A h \in Handlers : WF_vars(Ack(h))
    /\ WF_vars(\E h \in Handlers : Spawn(h))
    /\ \A t \in Tasks : WF_vars(TaskStep(t))
    /\ WF_vars(Drain)
    /\ WF_vars(ForcedExit)
    /\ \A k \in Keys : WF_vars(~shutdown /\ Reap({k}))
    /\ WF_vars(Republish)
    /\ WF_vars(Revert)

FairSpec == Spec /\ Fairness

-----------------------------------------------------------------------------
(***************************************************************************)
(* Properties.                                                             *)
(***************************************************************************)

\* README: "AMQP redeliveries never cause duplicate emails".  Whatever is
\* published twice, redelivered, crashed, reaped or retried by an operator,
\* sender.send is called at most once for an (event, recipient).
AtMostOneHandoff == \A k \in Keys : sends[k] <= 1

\* A SENT row is never a claim without a mail behind it, through every
\* overwrite of the row by another handler, the reaper and the retry API.
SentMeansAccepted == \A k \in Keys : log[k].status = "SENT" => k \in accepted

\* A row that says BLOCKED belongs to a recipient no mail was handed to the
\* sender for, whichever redelivery or retry wrote or reset the row.
BlockedMeansNotMailed ==
    \A k \in Keys : log[k].status = "BLOCKED" => sends[k] = 0

\* A task between its successful insert and its call of the sender.
Holding(t) == task[t].pc \in {"filter", "block", "token", "send"}

\* The inductive invariant behind AtMostOneHandoff, SentMeansAccepted and
\* BlockedMeansNotMailed: an insert that succeeded is held by one task only,
\* whose key has a row and has not been mailed; a row is never removed.
HolderOwnsRow ==
    \A t \in Tasks : Holding(t) => /\ Exists(log, Key(t))
                                   /\ log[Key(t)].status # "BLOCKED"
                                   /\ sends[Key(t)] = 0

OneHolder ==
    \A t, u \in Tasks : Holding(t) /\ Holding(u) /\ Key(t) = Key(u) => t = u

MailedHasRow ==
    \A k \in Keys : sends[k] = 1 => Exists(log, k) /\ log[k].status # "BLOCKED"

RecordingWasAccepted ==
    \A t \in Tasks : task[t].pc = "marksent" => Key(t) \in accepted

HandoffInv ==
    /\ SpawnedHasMessage
    /\ HolderOwnsRow
    /\ OneHolder
    /\ AtMostOneHandoff
    /\ MailedHasRow
    /\ RecordingWasAccepted
    /\ SentMeansAccepted

\* A row in the log is the right to mail its key.
Claimed == {k \in Keys : Exists(log, k)}

AMO == INSTANCE AtMostOnce WITH claimed <- Claimed, mails <- sends

\* The consumer, with all that happens around it, implements AtMostOnce: a
\* claim is never given back by a retry, the reaper or a restart.
ImplementsAtMostOnce == AMO!Spec

\* Publishes, redeliveries after a lost connection or a crash, and acks that
\* come too late balance: every copy not acknowledged on a live channel is
\* in the queue or in exactly one live delivery.
NoMessageLost ==
    \A m \in Msgs : ledger[m] = Requeued[m]

\* An acknowledged recipient left a row, unless its status write failed or
\* hit no row.
AckLeavesTrace ==
    \A k \in settled : Exists(log, k) \/ k \in unrecorded

\* main.rs: "Recovers rows that are stuck in PENDING with no AMQP message to
\* drive them forward".  However often tasks, a retry that was answered as
\* accepted but queued nothing, a panic, a restart and the reaper overwrite
\* each other's status, a row does not stay PENDING nor return to it for ever.
PendingEnds == \A k \in Keys : <>[](log[k].status # "PENDING")

\* A task that finds a non-terminal row goes round without sending.
Spinning(t) ==
    /\ task[t].pc \in {"check", "insert"}
    /\ Exists(log, Key(t))
    /\ ~Terminal(log[Key(t)].status)

\* A permit is given back, or a task of its delivery goes round on a
\* non-terminal row: no other wait of the retry loop is endless.
PermitReturnsOrSpins ==
    \A h \in Handlers :
        handler[h] # NoDelivery ~>
            \/ handler[h] = NoDelivery
            \/ \E r \in Recipients : handler[h] # NoDelivery /\ Spinning(<<h, r>>)

\* README: "transient failures retry automatically".  A backoff ends in
\* another attempt to send or in the end of the task.
BackoffLeadsToSend ==
    \A t \in Tasks :
        task[t].pc = "backoff" ~> task[t].pc \in {"send", "done", "none"}
=============================================================================
