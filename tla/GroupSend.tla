----------------------------- MODULE GroupSend -----------------------------
(***************************************************************************)
(* The consumer in group send mode: process_group inside the retry loop of *)
(* process_one_group, the fallback to individual sends, and the retry      *)
(* endpoints, for the deliveries of one event and its replays.  One step   *)
(* is one await.  The queue is reduced to the choice of when a delivery    *)
(* starts (module Delivery has it in full).                                *)
(***************************************************************************)
EXTENDS NotificationLog, Mailer, Integers, Sequences, FiniteSets

CONSTANTS
    To,          \* the TO addresses of the event, the primary first
    Handlers,    \* permits of the semaphore
    MaxRetries,  \* cfg.max_retries
    MaxRlWaits,  \* cfg.max_rl_waits
    ReplayLimit, \* LIMIT 500 of get_recipients_for_event
    Budget       \* how often each kind of fault or outside call may happen

Recipients == {To[i] : i \in DOMAIN To}

BudgetKinds == {"deliver", "crash", "shutdown", "dberr", "template", "retry"}

ASSUME GroupAssumption ==
    /\ To \in Seq(Recipients) \ {<<>>}
    /\ \A i, j \in DOMAIN To : To[i] = To[j] => i = j
    /\ IsFiniteSet(Handlers)
    /\ MaxRetries \in Nat
    /\ MaxRlWaits \in Nat
    /\ ReplayLimit \in Nat \ {0}
    /\ Budget \in [BudgetKinds -> Nat]

VARIABLES
    opts,     \* what the message and the configuration fix for all deliveries
    log,      \* notification_log, the rows of the event
    handler,  \* the group's retry loops
    task,     \* the tasks of fallback_to_individual_sends
    shutdown, \* the cancellation token
    api,      \* the retry request in progress
    replays,  \* the TO lists of the replays that were queued
    sends,    \* mails handed to the sender per TO address (history)
    accepted, \* addresses of mails the provider accepted (history)
    budget    \* what is left of Budget

vars == <<opts, log, handler, task, shutdown, api, replays, sends, accepted,
          budget>>

\* individual: group_retry_mode; noRetry: retry_policy; blocked: the
\* addresses the config-file filter rejects.
Options == [individual: BOOLEAN, noRetry: BOOLEAN, blocked: SUBSET Recipients]

\* to, noRetry: of the message delivered; left: the positions in to a loop has
\* still to visit; skip: already_sent_emails.
Idle == [pc |-> "idle", to |-> <<>>, noRetry |-> FALSE, attempt |-> 0, rl |-> 0,
         err |-> "none", left |-> {}, skip |-> {}]

NoRequest == [pc |-> "idle", rows |-> {}]

NoTask == [pc |-> "none", attempt |-> 0, err |-> "none"]

Handler == [pc: {"idle", "check", "insert", "filter", "token", "send", "mark",
                 "fail", "backoff", "fallback", "join"},
            to: Seq(Recipients), noRetry: BOOLEAN,
            attempt: Nat, rl: Nat, err: Errors \cup {"none"},
            left: SUBSET Nat, skip: SUBSET Recipients]

Task == [pc: {"none", "check", "insert", "fail", "backoff", "done"},
         attempt: Nat, err: Errors \cup {"none"}]

Tasks == Handlers \X Recipients

Init ==
    /\ opts \in Options
    /\ log = [r \in Recipients |-> NoRow]
    /\ handler = [h \in Handlers |-> Idle]
    /\ task = [t \in Tasks |-> NoTask]
    /\ shutdown = FALSE
    /\ api = NoRequest
    /\ replays = {}
    /\ sends = [r \in Recipients |-> 0]
    /\ accepted = {}
    /\ budget = Budget

-----------------------------------------------------------------------------
\* Helpers.

Spend(kind) ==
    /\ budget[kind] > 0
    /\ budget' = [budget EXCEPT ![kind] = @ - 1]

\* A write whose error is dropped or only logged.
DroppedResultWrite(new) ==
    \/ log' = new /\ UNCHANGED budget
    \/ Spend("dberr") /\ UNCHANGED log

Goto(h, pc) == handler' = [handler EXCEPT ![h].pc = pc]

FailWith(h, err) == handler' = [handler EXCEPT ![h].pc = "fail", ![h].err = err]

Return(h) == handler' = [handler EXCEPT ![h] = Idle]

\* Position i is the next one for the loop of h, which goes in order.
IsNext(h, i) == \A j \in handler[h].left : i <= j

\* The loop of h goes on after i, or with pc when that was the last one.
Advance(h, i, pc) ==
    handler' = [handler EXCEPT ![h].left = @ \ {i},
                               ![h].pc = IF handler[h].left = {i} THEN pc ELSE @]

Members(s) == {s[i] : i \in DOMAIN s}

\* The first recipient of the message h works on.
Primary(h) == handler[h].to[1]

\* The rows of the idempotency insert.
Tracked(h) == IF opts.individual THEN Members(handler[h].to) ELSE {Primary(h)}

\* The positions of the TO addresses neither blocked nor delivered to before.
Allowed(h) ==
    {i \in DOMAIN handler[h].to : /\ handler[h].to[i] \notin opts.blocked
                                  /\ handler[h].to[i] \notin handler[h].skip}

\* to_extra: the allowed addresses after the first.
Extra(h) == {i \in Allowed(h) : \E j \in Allowed(h) : j < i}

\* The addresses at the positions I of the message h works on.
At(h, I) == {handler[h].to[i] : i \in I}

\* The message: build_email_message(primary, to_extra).
Envelope(h) == At(h, {1} \cup Extra(h))

\* The rows mark_sent_for_targets visits.
SendTargets(h) == IF opts.individual THEN {1} \cup Extra(h) ELSE {1}

-----------------------------------------------------------------------------
(***************************************************************************)
(* process_group and its retry loop.                                       *)
(***************************************************************************)
aroundGroup == <<opts, task, shutdown, api, replays>>

\* What the queue may hold: the message of the producer, and replays, which
\* have the default retry policy.
Messages ==
    {[to |-> To, noRetry |-> opts.noRetry]} \cup [to: replays, noRetry: {FALSE}]

\* A delivery of a message starts: the first one, or a redelivery while an
\* older handler still runs.
Deliver(h) ==
    /\ handler[h] = Idle
    /\ Spend("deliver")
    /\ \E m \in Messages :
         handler' = [handler EXCEPT ![h].pc = "check", ![h].to = m.to,
                                    ![h].noRetry = m.noRetry]
    /\ UNCHANGED <<log, sends, accepted>>
    /\ UNCHANGED aroundGroup

\* Steps 0 to 2c: addresses, template, rendering.
Check(h) ==
    /\ handler[h].pc = "check"
    /\ \/ Goto(h, "insert") /\ UNCHANGED budget
       \/ Spend("template") /\ FailWith(h, "permanent")
       \/ Spend("dberr") /\ FailWith(h, "transient")
    /\ UNCHANGED <<log, sends, accepted>>
    /\ UNCHANGED aroundGroup

\* The secondaries whose rows were terminal at the insert.
TerminalSecondaries(h) ==
    {r \in Tracked(h) \ {Primary(h)} : Terminal(log[r].status)}

\* Mutant of Insert: any non-terminal primary row lets the group go on.
InsertResumes(h) ==
    /\ handler[h].pc = "insert"
    /\ ~Terminal(log[Primary(h)].status)
    /\ log' = InsertPendingBatch(log, Tracked(h))
    /\ handler' = [handler EXCEPT ![h].pc = "filter", ![h].left = DOMAIN handler[h].to,
                                  ![h].skip = TerminalSecondaries(h)]
    /\ UNCHANGED <<sends, accepted, budget>>
    /\ UNCHANGED aroundGroup

\* Mutant of Insert: only the primary row is written.
InsertPrimaryOnly(h) ==
    /\ handler[h].pc = "insert"
    /\ ~Exists(log, Primary(h))
    /\ log' = InsertPending(log, Primary(h))
    /\ handler' = [handler EXCEPT ![h].pc = "filter", ![h].left = DOMAIN handler[h].to]
    /\ UNCHANGED <<sends, accepted, budget>>
    /\ UNCHANGED aroundGroup

\* Step 3: one transaction for all rows; the primary's result decides.
Insert(h) ==
    LET row == log[Primary(h)] IN
    /\ handler[h].pc = "insert"
    /\ \/ /\ ~Exists(log, Primary(h))
          /\ log' = InsertPendingBatch(log, Tracked(h))
          /\ handler' = [handler EXCEPT ![h].pc = "filter", ![h].left = DOMAIN handler[h].to,
                                        ![h].skip = TerminalSecondaries(h)]
          /\ UNCHANGED budget
       \/ /\ Terminal(row.status)
          /\ log' = InsertPendingBatch(log, Tracked(h))
          /\ Return(h)
          /\ UNCHANGED budget
       \/ /\ Exists(log, Primary(h))
          /\ ~Terminal(row.status)
          /\ log' = InsertPendingBatch(log, Tracked(h))
          /\ handler' = [handler EXCEPT ![h].pc = "check", ![h].attempt = row.retry]
          /\ UNCHANGED budget
       \/ /\ Spend("dberr")
          /\ log' \in {log, InsertPendingBatch(log, Tracked(h))}
          /\ FailWith(h, "transient")
    /\ UNCHANGED <<sends, accepted>>
    /\ UNCHANGED aroundGroup

\* Step 4, one TO address: a blocked one is marked.  When all are blocked
\* the delivery is dropped.
Filter(h) ==
    /\ handler[h].pc = "filter"
    /\ \E i \in handler[h].left :
         LET r == handler[h].to[i] IN
         /\ IsNext(h, i)
         /\ IF r \in opts.blocked THEN DroppedResultWrite(MarkBlocked(log, r))
            ELSE UNCHANGED <<log, budget>>
         /\ IF handler[h].left = {i} /\ Members(handler[h].to) \subseteq opts.blocked
            THEN Return(h) ELSE Advance(h, i, "token")
    /\ UNCHANGED <<sends, accepted>>
    /\ UNCHANGED aroundGroup

\* Step 6: a rate-limit token, or Shutdown reported as a queue error.
Token(h) ==
    /\ handler[h].pc = "token"
    /\ \/ Goto(h, "send")
       \/ shutdown /\ FailWith(h, "transient")
    /\ UNCHANGED <<log, sends, accepted, budget>>
    /\ UNCHANGED aroundGroup

\* Mutant of Send: the send fails and the rows are marked all the same.
SendUnchecked(h) ==
    /\ handler[h].pc = "send"
    /\ handler' = [handler EXCEPT ![h].pc = "mark", ![h].left = SendTargets(h)]
    /\ UNCHANGED <<log, sends, accepted, budget>>
    /\ UNCHANGED aroundGroup

\* Step 7.  An error in individual mode leads to the fallback, in whole mode
\* to the retry loop.
Send(h) ==
    LET addressees == Envelope(h) IN
    /\ handler[h].pc = "send"
    /\ sends' = [r \in Recipients |->
                    IF r \in addressees THEN sends[r] + 1 ELSE sends[r]]
    /\ \E o \in SendOutcomes :
         /\ accepted' = IF o.took THEN accepted \cup addressees ELSE accepted
         /\ \/ /\ o.err = "none"
               /\ handler' = [handler EXCEPT ![h].pc = "mark",
                                             ![h].left = SendTargets(h)]
            \/ o.err # "none" /\ opts.individual /\ Goto(h, "fallback")
            \/ o.err # "none" /\ ~opts.individual /\ FailWith(h, o.err)
    /\ UNCHANGED <<log, budget>>
    /\ UNCHANGED aroundGroup

\* mark_sent_for_targets, one row.
RecordSent(h) ==
    /\ handler[h].pc = "mark"
    /\ \E i \in handler[h].left :
         /\ IsNext(h, i)
         /\ DroppedResultWrite(MarkSent(log, handler[h].to[i]))
         /\ IF handler[h].left = {i} THEN Return(h) ELSE Advance(h, i, "mark")
    /\ UNCHANGED <<sends, accepted>>
    /\ UNCHANGED aroundGroup

GivesUp(h) ==
    \/ handler[h].err = "permanent"
    \/ handler[h].attempt >= MaxRetries
    \/ handler[h].noRetry
    \/ handler[h].err = "ratelimited" /\ handler[h].rl + 1 > MaxRlWaits

AfterFailure(h) ==
    LET now == handler[h] IN
    IF GivesUp(h) THEN Idle
    ELSE IF now.err = "ratelimited"
    THEN [now EXCEPT !.pc = "backoff", !.rl = now.rl + 1]
    ELSE [now EXCEPT !.pc = "backoff", !.attempt = now.attempt + 1, !.rl = 0]

\* The retry loop's match on Failed(e): only the primary's row is written.
Fail(h) ==
    /\ handler[h].pc = "fail"
    /\ DroppedResultWrite(MarkFailed(log, Primary(h), GivesUp(h)))
    /\ handler' = [handler EXCEPT ![h] = AfterFailure(h)]
    /\ UNCHANGED <<sends, accepted>>
    /\ UNCHANGED aroundGroup

\* The delay passes, or the token is cancelled first.
Backoff(h) ==
    /\ handler[h].pc = "backoff"
    /\ \/ Goto(h, "check") /\ UNCHANGED <<log, budget>>
       \/ /\ shutdown
          /\ DroppedResultWrite(MarkFailed(log, Primary(h), TRUE))
          /\ Return(h)
    /\ UNCHANGED <<sends, accepted>>
    /\ UNCHANGED aroundGroup

-----------------------------------------------------------------------------
(***************************************************************************)
(* fallback_to_individual_sends and process_one_recipient in it.           *)
(***************************************************************************)

\* A task per recipient that is not known to be terminal: an address whose
\* row cannot be read gets one as well.
Fallback(h) ==
    /\ handler[h].pc = "fallback"
    /\ \E unread \in SUBSET Members(handler[h].to) :
         /\ IF unread = {} THEN UNCHANGED budget ELSE Spend("dberr")
         /\ task' = [t \in Tasks |->
                       IF /\ t[1] = h
                          /\ t[2] \in Members(handler[h].to)
                          /\ t[2] \in unread \/ ~Terminal(log[t[2]].status)
                       THEN [NoTask EXCEPT !.pc = "check"] ELSE task[t]]
    /\ Goto(h, "join")
    /\ UNCHANGED <<opts, log, shutdown, api, replays, sends, accepted>>

TaskFailsWith(t, err) == task' = [task EXCEPT ![t].pc = "fail", ![t].err = err]

aroundTask == <<opts, handler, shutdown, api, replays, sends, accepted>>

TaskCheck(t) ==
    /\ task[t].pc = "check"
    /\ \/ task' = [task EXCEPT ![t].pc = "insert"] /\ UNCHANGED budget
       \/ Spend("template") /\ TaskFailsWith(t, "permanent")
       \/ Spend("dberr") /\ TaskFailsWith(t, "transient")
    /\ UNCHANGED log
    /\ UNCHANGED aroundTask

\* The insert finds the row of the group's batch (FallbackFindsRow), so it
\* never answers Inserted and the steps behind that are not reached.
TaskInsert(t) ==
    /\ task[t].pc = "insert"
    /\ Exists(log, t[2])
    /\ \/ /\ Terminal(log[t[2]].status)
          /\ task' = [task EXCEPT ![t].pc = "done"]
          /\ UNCHANGED budget
       \/ /\ ~Terminal(log[t[2]].status)
          /\ task' = [task EXCEPT ![t].pc = "check", ![t].attempt = log[t[2]].retry]
          /\ UNCHANGED budget
       \/ Spend("dberr") /\ TaskFailsWith(t, "transient")
    /\ UNCHANGED log
    /\ UNCHANGED aroundTask

TaskGivesUp(t) ==
    \/ task[t].err = "permanent"
    \/ task[t].attempt >= MaxRetries
    \/ handler[t[1]].noRetry

TaskFail(t) ==
    /\ task[t].pc = "fail"
    /\ DroppedResultWrite(MarkFailed(log, t[2], TaskGivesUp(t)))
    /\ task' = [task EXCEPT ![t] =
                  IF TaskGivesUp(t) THEN [task[t] EXCEPT !.pc = "done"]
                  ELSE [task[t] EXCEPT !.pc = "backoff", !.attempt = task[t].attempt + 1]]
    /\ UNCHANGED aroundTask

TaskBackoff(t) ==
    /\ task[t].pc = "backoff"
    /\ \/ task' = [task EXCEPT ![t].pc = "check"] /\ UNCHANGED <<log, budget>>
       \/ /\ shutdown
          /\ DroppedResultWrite(MarkFailed(log, t[2], TRUE))
          /\ task' = [task EXCEPT ![t].pc = "done"]
    /\ UNCHANGED aroundTask

\* Mutant of Join: the first task that returns ends the fallback, the others
\* are left running.
JoinFirst(h) ==
    /\ handler[h].pc = "join"
    /\ \E r \in Recipients : task[<<h, r>>].pc = "done"
    /\ Return(h)
    /\ task' = [t \in Tasks |->
                  IF t[1] = h /\ task[t].pc = "done" THEN NoTask ELSE task[t]]
    /\ UNCHANGED <<opts, log, shutdown, api, replays, sends, accepted, budget>>

\* Every task has returned.
Join(h) ==
    /\ handler[h].pc = "join"
    /\ \A r \in Recipients : task[<<h, r>>].pc \in {"none", "done"}
    /\ Return(h)
    /\ task' = [t \in Tasks |-> IF t[1] = h THEN NoTask ELSE task[t]]
    /\ UNCHANGED <<opts, log, shutdown, api, replays, sends, accepted, budget>>

-----------------------------------------------------------------------------
\* SIGTERM cancels the token.
Shutdown ==
    /\ ~shutdown
    /\ Spend("shutdown")
    /\ shutdown' = TRUE
    /\ UNCHANGED <<opts, log, handler, task, api, replays, sends, accepted>>

\* A crash, or the exit at the end of a shutdown, and the next start.
Restart ==
    /\ Spend("crash")
    /\ handler' = [h \in Handlers |-> Idle]
    /\ task' = [t \in Tasks |-> NoTask]
    /\ shutdown' = FALSE
    /\ api' = NoRequest
    /\ UNCHANGED <<opts, log, replays, sends, accepted>>

-----------------------------------------------------------------------------
(***************************************************************************)
(* The retry endpoints and the reaper.                                     *)
(***************************************************************************)
aroundApi == <<opts, handler, task, shutdown, sends, accepted>>

ResetRows(K) ==
    /\ api = NoRequest
    /\ Spend("retry")
    /\ log' = ResetToPending(log, K)
    /\ api' = [pc |-> "publish", rows |-> K]
    /\ UNCHANGED replays
    /\ UNCHANGED aroundApi

\* POST /emails/:event_id/recipients/:email/retry
RetryRecipient(r) == Retryable(log, r) /\ ResetRows({r})

\* POST /emails/:event_id/retry
RetryEvent ==
    LET failed == {r \in Recipients : log[r].status = "FAILED"} IN
    failed # {} /\ ResetRows(failed)

\* The TO lists republish_event may build from the rows K: ORDER BY
\* created_at, which is the same for all rows of one batch insert, LIMIT 500.
Orderings(K) ==
    LET found == 1 .. (IF Cardinality(K) < ReplayLimit THEN Cardinality(K) ELSE ReplayLimit)
    IN {s \in [found -> K] : \A i, j \in found : s[i] = s[j] => i = j}

\* republish_event, send_mode and group_retry_mode kept.  As in Delivery, the
\* publisher's answer and what it queued are two things.
Republish ==
    /\ api.pc = "publish"
    /\ \/ \E s \in Orderings(api.rows) : replays' = replays \cup {s}
       \/ UNCHANGED replays
    /\ api' \in {NoRequest, [api EXCEPT !.pc = "revert"]}
    /\ UNCHANGED <<log, budget>>
    /\ UNCHANGED aroundApi

\* republish_or_revert
Revert ==
    /\ api.pc = "revert"
    /\ DroppedResultWrite(RevertToFailed(log, api.rows))
    /\ api' = NoRequest
    /\ UNCHANGED replays
    /\ UNCHANGED aroundApi

\* The stale-PENDING reaper finds the rows K past the timeout.
Reap(K) ==
    /\ K # {}
    /\ \A r \in K : log[r].status = "PENDING"
    /\ log' = ReapStalePending(log, K)
    /\ UNCHANGED <<api, replays, budget>>
    /\ UNCHANGED aroundApi

GroupStep(h) ==
    \/ Check(h) \/ Insert(h) \/ Filter(h) \/ Token(h) \/ Send(h) \/ RecordSent(h)
    \/ Fail(h) \/ Backoff(h) \/ Fallback(h) \/ Join(h)

TaskStep(t) == TaskCheck(t) \/ TaskInsert(t) \/ TaskFail(t) \/ TaskBackoff(t)

Next ==
    \/ \E h \in Handlers : Deliver(h) \/ GroupStep(h)
    \/ \E t \in Tasks : TaskStep(t)
    \/ Shutdown
    \/ Restart
    \/ \E r \in Recipients : RetryRecipient(r)
    \/ RetryEvent
    \/ Republish
    \/ Revert
    \/ \E K \in SUBSET Recipients : Reap(K)

Spec == Init /\ [][Next]_vars

-----------------------------------------------------------------------------
(***************************************************************************)
(* Properties.                                                             *)
(***************************************************************************)

\* A loop has a row left to visit.
VarTypes ==
    /\ opts \in Options
    /\ log \in [Recipients -> Row]
    /\ handler \in [Handlers -> Handler]
    /\ task \in [Tasks -> Task]
    /\ shutdown \in BOOLEAN
    /\ api \in [pc: {"idle", "publish", "revert"}, rows: SUBSET Recipients]
    /\ replays \subseteq Seq(Recipients)
    /\ sends \in [Recipients -> Nat]
    /\ accepted \subseteq Recipients
    /\ budget \in [BudgetKinds -> Nat]
    /\ \A h \in Handlers : handler[h].pc \in {"filter", "mark"} => handler[h].left # {}

TasksAreJoined == \A t \in Tasks : task[t].pc # "none" => handler[t[1]].pc = "join"

\* The types of the variables; a task of the fallback runs only while its
\* group waits for it, and so within the group's permit.
TypeOK == VarTypes /\ TasksAreJoined

\* In either retry mode no TO address is on two mails, whatever is
\* redelivered, restarted, sent to the fallback or replayed by an operator
\* (republish_event warns of duplicates for the whole mode): the primary's
\* row is the right to send the group mail, a replay's primary has one
\* already, and it is taken once.
GroupAtMostOnce == \A r \in Recipients : sends[r] <= 1

\* A SENT row belongs to an address a mail was accepted for, also for the
\* secondaries, whose rows are marked one by one after the send.
SentMeansAccepted ==
    \A r \in Recipients : log[r].status = "SENT" => r \in accepted

\* The fallback works on the rows of the batch insert: every task finds the
\* row of its recipient, so none is free to send a second mail.
FallbackFindsRow ==
    \A t \in Tasks : task[t].pc # "none" => Exists(log, t[2])

\* process_group, step 4: "Blocked TO recipients are excluded from the
\* delivery ... the mail is delivered to the remaining (allowed) addresses".
MailIsToAllowed ==
    \A h \in Handlers :
        handler[h].pc = "send" => Envelope(h) = At(h, Allowed(h))
=============================================================================
