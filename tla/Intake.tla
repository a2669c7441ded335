------------------------------- MODULE Intake -------------------------------
(***************************************************************************)
(* The producers that publish events, what handle_delivery decides before  *)
(* it hands a message to the recipient tasks, and the queues around it:    *)
(* the main queue, the delayed queue of scheduled events and the           *)
(* dead-letter queue.  The recipient tasks are in module Delivery; here    *)
(* they are one step.                                                      *)
(***************************************************************************)
EXTENDS NotificationLog, Fetcher, Integers, Sequences, FiniteSets

CONSTANTS
    Msgs,          \* messages
    BodyChoices,   \* what the bodies of the messages may be
    Handlers,      \* permits
    NoMsg,         \* "no delivery"
    MaxRecipients, \* cfg.max_recipients_per_event
    MaxDelayed,    \* bound on the delayed queue
    Budget         \* how often each kind of fault may happen

\* garbled: the body is no event; recipients: how many TO addresses it has;
\* addresses: TO, CC and BCC are valid; from: so is from_override; typed: the
\* event_type is not empty; refs: for each attachment, whether its fields
\* pass their checks; sendAt: it has a send_at.
Body == [garbled: BOOLEAN, recipients: Nat, addresses: BOOLEAN, from: BOOLEAN,
         typed: BOOLEAN, refs: Seq(BOOLEAN), sendAt: BOOLEAN]

\* outage: a crash or a lost connection.
BudgetKinds == {"outage", "dberr", "fetch"}

ASSUME IntakeAssumption ==
    /\ BodyChoices \subseteq [Msgs -> Body]
    /\ IsFiniteSet(Handlers)
    /\ NoMsg \notin Msgs
    /\ MaxRecipients \in Nat \ {0}
    /\ MaxDelayed \in Nat
    /\ Budget \in [BudgetKinds -> Nat]

VARIABLES
    body,       \* what the code can tell from the body of each message
    published,  \* messages that were published
    ready,      \* copies in the main queue
    delayed,    \* the delayed queue, a FIFO
    dlq,        \* copies in the dead-letter queue
    handler,    \* the delivery of each permit and where its handler is
    due,        \* messages whose send_at has passed
    log,        \* the sentinel row of each message
    dispatched, \* messages the recipient tasks were run for
    unrecorded, \* messages whose sentinel row was not written (history)
    copied,     \* messages a second delivery of which may exist (history)
    misjudged,  \* messages that got another verdict than deserved (history)
    budget      \* what is left of Budget

vars == <<body, published, ready, delayed, dlq, handler, due, log, dispatched,
          unrecorded, copied, misjudged, budget>>

\* The history variables.
history == <<unrecorded, copied, misjudged>>

Free == [msg |-> NoMsg, pc |-> "free", live |-> FALSE]

PCs == {"start", "skip", "sentinel", "exhaust", "defer", "fetch", "dispatch", "ack"}

Init ==
    /\ body \in BodyChoices
    /\ published = {}
    /\ ready = [m \in Msgs |-> 0]
    /\ delayed = <<>>
    /\ dlq = [m \in Msgs |-> 0]
    /\ handler = [h \in Handlers |-> Free]
    /\ due = {}
    /\ log = [m \in Msgs |-> NoRow]
    /\ dispatched = {}
    /\ unrecorded = {}
    /\ copied = {}
    /\ misjudged = {}
    /\ budget = Budget

Spend(kind) ==
    /\ budget[kind] > 0
    /\ budget' = [budget EXCEPT ![kind] = @ - 1]

Goto(h, pc) == handler' = [handler EXCEPT ![h].pc = pc]

\* The handler returns and its permit is free.
Release(h) == handler' = [handler EXCEPT ![h] = Free]

\* A settlement reaches the broker on the delivery's own channel only.
AddIfLive(h, queue) ==
    IF handler[h].live THEN [queue EXCEPT ![handler[h].msg] = @ + 1] ELSE queue

-----------------------------------------------------------------------------
\* What the direct producers check before they publish.  All three build the
\* event themselves, so it parses.  POST /emails/send:
ApiAccepts(m) ==
    /\ ~body[m].garbled
    /\ body[m].typed
    /\ body[m].recipients \in 1 .. MaxRecipients
    /\ body[m].addresses /\ body[m].from
    /\ \A i \in DOMAIN body[m].refs : body[m].refs[i]

\* anctl send: no check of event_type, no ceiling on the recipients, no send_at.
AnctlAccepts(m) ==
    /\ ~body[m].garbled
    /\ body[m].recipients > 0
    /\ body[m].addresses /\ body[m].from
    /\ \A i \in DOMAIN body[m].refs : body[m].refs[i]
    /\ ~body[m].sendAt

\* The MCP tool send_email checks its one recipient; it has no attachments and
\* no send_at.
McpAccepts(m) ==
    /\ ~body[m].garbled
    /\ body[m].recipients = 1
    /\ body[m].addresses
    /\ body[m].refs = <<>>
    /\ ~body[m].sendAt

\* m reaches the main queue, once.
Publish(m) ==
    /\ m \notin published
    /\ published' = published \cup {m}
    /\ ready' = [ready EXCEPT ![m] = @ + 1]
    /\ UNCHANGED <<body, delayed, dlq, handler, due, log, dispatched, history, budget>>

\* The runner takes a delivery and spawns its handler on permit h.
Receive(h, m) ==
    /\ handler[h] = Free
    /\ ready[m] > 0
    /\ ready' = [ready EXCEPT ![m] = @ - 1]
    /\ handler' = [handler EXCEPT ![h] = [msg |-> m, pc |-> "start", live |-> TRUE]]
    /\ UNCHANGED <<body, published, delayed, dlq, due, log, dispatched, history, budget>>

SendEmail(m) == ApiAccepts(m) /\ Publish(m)
AnctlSend(m) == AnctlAccepts(m) /\ Publish(m)
McpSendEmail(m) == McpAccepts(m) /\ Publish(m)

\* The outbox worker or any other publisher: the body may be anything.
Produce(m) == Publish(m)

\* A body that is neither a NotificationEvent nor a legacy EmailEvent:
\* nack without requeue, which the queue's DLX routes to the DLQ.
DeadLetter(h) ==
    /\ handler[h].pc = "start"
    /\ body[handler[h].msg].garbled
    /\ dlq' = AddIfLive(h, dlq)
    /\ Release(h)
    /\ UNCHANGED <<body, published, ready, delayed, due, log, dispatched, history, budget>>

\* Mutant of Stage: a message without recipients is acked as it is.
StageNoSkipRow(m) ==
    IF body[m].recipients = 0 THEN "ack"
    ELSE IF body[m].recipients > MaxRecipients THEN "sentinel" ELSE "dispatch"

\* Mutant of Stage: the number of recipients is not checked.
StageNoCeiling(m) ==
    IF body[m].recipients = 0 THEN "skip"
    ELSE IF body[m].sendAt /\ m \notin due THEN "defer"
    ELSE IF body[m].refs # <<>> THEN "fetch" ELSE "dispatch"

\* Mutant of Stage: >= for >.
StageCeilingIncluded(m) ==
    IF body[m].recipients = 0 THEN "skip"
    ELSE IF body[m].recipients >= MaxRecipients THEN "sentinel"
    ELSE IF body[m].sendAt /\ m \notin due THEN "defer"
    ELSE IF body[m].refs # <<>> THEN "fetch" ELSE "dispatch"

\* The early returns of handle_delivery, in their order.
Stage(m) ==
    IF body[m].recipients = 0 THEN "skip"
    ELSE IF body[m].recipients > MaxRecipients THEN "sentinel"
    ELSE IF body[m].sendAt /\ m \notin due THEN "defer"
    ELSE IF body[m].refs # <<>> THEN "fetch"
    ELSE "dispatch"

Triage(h) ==
    /\ handler[h].pc = "start"
    /\ ~body[handler[h].msg].garbled
    /\ Goto(h, Stage(handler[h].msg))
    /\ UNCHANGED <<body, published, ready, delayed, dlq, due, log, dispatched, history, budget>>

\* mark_skipped; its Result is dropped.
Skip(h) ==
    /\ handler[h].pc = "skip"
    /\ \/ log' = MarkSkipped(log, handler[h].msg) /\ UNCHANGED <<unrecorded, budget>>
       \/ /\ Spend("dberr")
          /\ unrecorded' = unrecorded \cup {handler[h].msg}
          /\ UNCHANGED log
    /\ Goto(h, "ack")
    /\ UNCHANGED <<body, published, ready, delayed, dlq, due, dispatched, copied, misjudged>>

\* insert_sentinel_failed_row, up to its match on the insert's result.
Sentinel(h) ==
    LET m == handler[h].msg IN
    /\ handler[h].pc = "sentinel"
    /\ \/ /\ log' = InsertPending(log, m)
          /\ Goto(h, IF Terminal(log[m].status) THEN "ack" ELSE "exhaust")
          /\ UNCHANGED <<unrecorded, budget>>
       \/ /\ Spend("dberr")
          /\ unrecorded' = unrecorded \cup {m}
          /\ Goto(h, "ack")
          /\ UNCHANGED log
    /\ UNCHANGED <<body, published, ready, delayed, dlq, due, dispatched, copied, misjudged>>

\* Its mark_failed(.., exhausted = true); an error is only logged.
Exhaust(h) ==
    /\ handler[h].pc = "exhaust"
    /\ \/ log' = MarkFailed(log, handler[h].msg, TRUE) /\ UNCHANGED budget
       \/ Spend("dberr") /\ UNCHANGED log
    /\ Goto(h, "ack")
    /\ UNCHANGED <<body, published, ready, delayed, dlq, due, dispatched, history>>

\* The publish to the delayed exchange.  The consumer's channel is not in
\* confirm mode, so the confirmation is NotRequested, is_ack() is false and
\* the original is requeued although the copy was accepted.  When the publish
\* fails, as it always does on a dead channel, there is no copy; the original
\* is requeued all the same.
Defer(h) ==
    /\ handler[h].pc = "defer"
    /\ \/ /\ handler[h].live
          /\ Len(delayed) < MaxDelayed
          /\ delayed' = Append(delayed, handler[h].msg)
          /\ copied' = copied \cup {handler[h].msg}
       \/ UNCHANGED <<delayed, copied>>
    /\ ready' = AddIfLive(h, ready)
    /\ Release(h)
    /\ UNCHANGED <<body, published, dlq, due, log, dispatched, unrecorded, misjudged, budget>>

\* Mutant of Fetch: permanent errors are requeued as well.
FetchRequeuesAll(h) ==
    /\ handler[h].pc = "fetch"
    /\ \/ Goto(h, "dispatch") /\ UNCHANGED ready
       \/ ready' = AddIfLive(h, ready) /\ Release(h)
    /\ UNCHANGED <<body, published, delayed, dlq, due, log, dispatched, history, budget>>

\* Mutant of Fetch: no return after the nack.
FetchFallsThrough(h) ==
    /\ handler[h].pc = "fetch"
    /\ \/ UNCHANGED dlq
       \/ dlq' = AddIfLive(h, dlq)
    /\ Goto(h, "dispatch")
    /\ UNCHANGED <<body, published, ready, delayed, due, log, dispatched, history, budget>>

\* The verdicts of the fetcher for the attachments of the possible bodies.
Verdicts ==
    [refs \in {b[m].refs : b \in BodyChoices, m \in Msgs} |-> FetchAttachments(refs)]

\* A permanent error dead-letters the message, any other requeues it.
Fetch(h) ==
    LET m == handler[h].msg IN
    /\ handler[h].pc = "fetch"
    /\ \E v \in Verdicts[body[m].refs] :
         /\ \/ /\ v.verdict = "ok"
               /\ Goto(h, "dispatch")
               /\ UNCHANGED <<ready, dlq, budget>>
            \/ /\ v.verdict = "permanent"
               /\ dlq' = AddIfLive(h, dlq)
               /\ Release(h)
               /\ UNCHANGED <<ready, budget>>
            \/ /\ v.verdict = "transient"
               /\ Spend("fetch")
               /\ ready' = AddIfLive(h, ready)
               /\ Release(h)
               /\ UNCHANGED dlq
         /\ misjudged' = IF v.verdict = v.deserved THEN misjudged ELSE misjudged \cup {m}
    /\ UNCHANGED <<body, published, delayed, due, log, dispatched, unrecorded, copied>>

\* The recipient tasks, or the group send, have run.  They need not end: a task
\* whose insert keeps answering Duplicate for a row that is not terminal goes
\* round for ever, and the permit with it.
Dispatch(h) ==
    /\ handler[h].pc = "dispatch"
    /\ dispatched' = dispatched \cup {handler[h].msg}
    /\ Goto(h, "ack")
    /\ UNCHANGED <<body, published, ready, delayed, dlq, due, log, history, budget>>

Ack(h) ==
    /\ handler[h].pc = "ack"
    /\ Release(h)
    /\ UNCHANGED <<body, published, ready, delayed, dlq, due, log, dispatched, history, budget>>

\* send_at passes.
BecomesDue(m) ==
    /\ body[m].sendAt
    /\ m \notin due
    /\ due' = due \cup {m}
    /\ UNCHANGED <<body, published, ready, delayed, dlq, handler, log, dispatched, history, budget>>

\* RabbitMQ expires messages at the head of the delayed queue and
\* dead-letters them to the main exchange.
Expire ==
    /\ delayed # <<>>
    /\ Head(delayed) \in due
    /\ delayed' = Tail(delayed)
    /\ ready' = [ready EXCEPT ![Head(delayed)] = @ + 1]
    /\ UNCHANGED <<body, published, dlq, handler, due, log, dispatched, history, budget>>

\* The unacknowledged live deliveries, back in the queue.
Requeued ==
    [m \in Msgs |-> ready[m] +
        Cardinality({h \in Handlers : handler[h].msg = m /\ handler[h].live})]

\* Messages that are delivered again although a handler had them.
Redelivered == {handler[h].msg : h \in {g \in Handlers : handler[g].live}}

\* As in Delivery: what is not acknowledged is delivered again, handlers of
\* the old connection go on.
ConnectionLost ==
    /\ Spend("outage")
    /\ ready' = Requeued
    /\ handler' = [h \in Handlers |-> [handler[h] EXCEPT !.live = FALSE]]
    /\ copied' = copied \cup Redelivered
    /\ UNCHANGED <<body, published, delayed, dlq, due, log, dispatched, unrecorded,
                   misjudged>>

Crash ==
    /\ Spend("outage")
    /\ ready' = Requeued
    /\ handler' = [h \in Handlers |-> Free]
    /\ copied' = copied \cup Redelivered
    /\ UNCHANGED <<body, published, delayed, dlq, due, log, dispatched, unrecorded,
                   misjudged>>

-----------------------------------------------------------------------------
\* The steps before and after the recipient tasks, which end by themselves.
OwnStep(h) ==
    \/ DeadLetter(h) \/ Triage(h) \/ Skip(h) \/ Sentinel(h) \/ Exhaust(h)
    \/ Defer(h) \/ Fetch(h) \/ Ack(h)

HandlerStep(h) == OwnStep(h) \/ Dispatch(h)

Next ==
    \/ \E m \in Msgs : McpSendEmail(m) \/ SendEmail(m) \/ AnctlSend(m) \/ Produce(m)
    \/ \E h \in Handlers, m \in Msgs : Receive(h, m)
    \/ \E h \in Handlers : HandlerStep(h)
    \/ \E m \in Msgs : BecomesDue(m)
    \/ Expire
    \/ ConnectionLost
    \/ Crash

Spec == Init /\ [][Next]_vars

\* Handlers run, time passes, and the broker delivers and expires; nothing is
\* said of the recipient tasks.
Fairness ==
    /\ \A m \in Msgs : WF_vars(\E h \in Handlers : Receive(h, m))
    /\ \A h \in Handlers : WF_vars(OwnStep(h))
    /\ \A m \in Msgs : WF_vars(BecomesDue(m))
    /\ WF_vars(Expire)

FairSpec == Spec /\ Fairness

-----------------------------------------------------------------------------
(***************************************************************************)
(* Properties.                                                             *)
(***************************************************************************)

VarTypes ==
    /\ body \in BodyChoices
    /\ published \subseteq Msgs
    /\ ready \in [Msgs -> Nat]
    /\ delayed \in Seq(Msgs)
    /\ dlq \in [Msgs -> Nat]
    /\ handler \in [Handlers -> [msg: Msgs, pc: PCs, live: BOOLEAN] \cup {Free}]
    /\ due \subseteq Msgs
    /\ log \in [Msgs -> Row]
    /\ dispatched \subseteq Msgs
    /\ unrecorded \subseteq Msgs
    /\ copied \subseteq Msgs
    /\ misjudged \subseteq Msgs
    /\ budget \in [BudgetKinds -> Nat]

\* The types of the variables; what is deferred, fetched for or handed to the
\* recipient tasks has recipients, and no more than the ceiling, however often
\* it was redelivered.
TypeOK ==
    /\ VarTypes
    /\ \A h \in Handlers :
         handler[h].pc \in {"defer", "fetch", "dispatch"} =>
            body[handler[h].msg].recipients \in 1 .. MaxRecipients

\* Copies of m the broker still holds, unacknowledged ones included.
InBroker(m) ==
    Requeued[m] + Cardinality({i \in DOMAIN delayed : delayed[i] = m})

\* README: "dead-lettered to the DLQ rather than silently disappearing".
\* Through crashes, lost connections and failed writes, a published message
\* is in the broker, or in the DLQ, or was dispatched, or left a row.
LeavesTrace ==
    \A m \in published :
        \/ InBroker(m) > 0
        \/ dlq[m] > 0
        \/ m \in dispatched
        \/ Exists(log, m)
        \/ m \in unrecorded

\* POST /emails/send: "so callers get a 422 here rather than a 202 followed by
\* a silent FAILED row written by the consumer".  An event the API accepts is
\* never skipped, never refused for its size, and never dead-lettered unless
\* its attachments could not be had.  The same goes for the MCP server's
\* events, and for anctl's but for their size, which anctl does not check.
AcceptedIsNotRefused ==
    \A m \in published :
        /\ ApiAccepts(m) \/ McpAccepts(m) => ~Exists(log, m)
        /\ AnctlAccepts(m) /\ Exists(log, m) => body[m].recipients > MaxRecipients
        /\ ApiAccepts(m) \/ McpAccepts(m) \/ AnctlAccepts(m) =>
             (dlq[m] > 0 => body[m].refs # <<>>)

\* The attachments are fetched before the idempotency check, so a second
\* delivery of a message that was sent can end in the DLQ, from where an
\* operator would send it again.  Only redelivery and the deferral's second
\* copy lead there: one delivery is dispatched or dead-lettered, never both.
SentIsDeadOnlyIfCopied ==
    \A m \in dispatched : dlq[m] > 0 => m \in copied

\* fetcher.rs: "If ANY error is transient -> requeue", "Only if ALL errors are
\* permanent -> no requeue".  However the retries of two attachments and a
\* shutdown fall, one that could still be had does not cost the message its
\* place in the queue, and one that is lost for good does not keep it there.
RequeueIfAnyRetryable == misjudged = {}

\* A copy of m is in a queue, or with a handler that has still to decide.
Circulates(m) ==
    \/ ready[m] > 0
    \/ \E i \in DOMAIN delayed : delayed[i] = m
    \/ \E h \in Handlers :
         handler[h].msg = m /\ handler[h].live /\ handler[h].pc # "dispatch"

\* No message circulates for ever.  With finitely many outages, database and
\* fetch errors every one is in the end acknowledged, dead-lettered or with
\* recipient tasks that do not end, a scheduled one once it is due; only when
\* such tasks hold every permit is the rest of the queue left waiting.
NothingCirculates ==
    \A m \in Msgs :
        <>[](Circulates(m) => \A h \in Handlers : handler[h].pc = "dispatch")

\* "Wait for broker confirmation before ACKing the original": a message that
\* is published once is deferred as one copy, when nothing fails.
OneCopy == \A m \in Msgs : InBroker(m) <= 1
=============================================================================
