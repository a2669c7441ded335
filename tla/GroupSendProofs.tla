--------------------------- MODULE GroupSendProofs --------------------------
(***************************************************************************)
(* Proofs about GroupSend, for every list of TO addresses, every number of *)
(* permits, both retry modes, and every budget of faults and retries.      *)
(***************************************************************************)
EXTENDS GroupSend, NotificationLogProofs, FiniteSetTheorems, SequenceTheorems, TLAPS

-----------------------------------------------------------------------------
(***************************************************************************)
(* The inductive invariants.                                               *)
(***************************************************************************)

\* A handler works on the message of the producer or on a replay, its loops
\* visit that message's addresses, and a replay has at least one recipient.
Shape ==
    /\ \A h \in Handlers : handler[h].pc # "idle" => handler[h].to \in {To} \cup replays
    /\ \A h \in Handlers : handler[h].left \subseteq DOMAIN handler[h].to
    /\ \A s \in replays : s # <<>>
    /\ api.pc # "idle" => api.rows # {}

TypeInv == VarTypes /\ Shape

\* The handlers between a successful insert and the call of the sender.
Holding(h) == handler[h].pc \in {"filter", "token", "send"}

\* Rows are reset only when they exist, so a replay's rows exist: its insert
\* never succeeds.
ReplayHasRows ==
    /\ \A s \in replays : Exists(log, s[1])
    /\ api.pc # "idle" => \A r \in api.rows : Exists(log, r)

\* So a holder works on the producer's message; its insert found no row for
\* the primary, which makes it the only one, and nothing is mailed yet.
HolderIsAlone ==
    \A h \in Handlers : Holding(h) =>
        /\ handler[h].to = To
        /\ Exists(log, To[1])
        /\ \A r \in Recipients : sends[r] = 0
        /\ \A g \in Handlers : Holding(g) => g = h

MailedHasRow == (\E r \in Recipients : sends[r] # 0) => Exists(log, To[1])

\* The batch insert of individual mode wrote a row for every recipient, and
\* only that mode falls back.
BatchHasRows ==
    \A h \in Handlers :
        /\ opts.individual /\ handler[h].pc \in {"filter", "token", "send", "fallback", "join"}
             => \A r \in Members(handler[h].to) : Exists(log, r)
        /\ handler[h].pc \in {"fallback", "join"} => opts.individual

\* The rows that are still to be marked are of addresses the mail was for.
MarkingWasAccepted ==
    \A h \in Handlers : handler[h].pc = "mark" =>
        At(h, handler[h].left) \subseteq accepted

GroupInv ==
    /\ ReplayHasRows
    /\ HolderIsAlone
    /\ MailedHasRow
    /\ BatchHasRows
    /\ FallbackFindsRow
    /\ GroupAtMostOnce
    /\ MarkingWasAccepted
    /\ SentMeansAccepted

-----------------------------------------------------------------------------
(***************************************************************************)
(* Facts about the constants and the helpers.                              *)
(***************************************************************************)

LEMMA ToFact ==
    /\ To \in Seq(Recipients) /\ To # <<>>
    /\ To[1] \in Recipients
    /\ IsFiniteSet(Recipients)
<1>1. To \in Seq(Recipients) /\ To # <<>>
  BY GroupAssumption DEF GroupAssumption
<1>2. To[1] \in Recipients
  BY <1>1
<1>3. IsFiniteSet(Recipients)
  <2>1. To \in [1 .. Len(To) -> Recipients] /\ Len(To) \in Nat /\ DOMAIN To = 1 .. Len(To)
    BY <1>1
  <2>2. To \in Surjection(1 .. Len(To), Recipients)
    BY <2>1 DEF Surjection, Recipients
  <2>3. IsFiniteSet(1 .. Len(To))
    BY <2>1, FS_Interval
  <2> QED BY <2>2, <2>3, FS_Surjection
<1> QED BY <1>1, <1>2, <1>3

\* The TO list of a handler at work.
LEMMA WorkFact ==
    ASSUME TypeInv, NEW h \in Handlers, handler[h].pc # "idle"
    PROVE  /\ handler[h] \in Handler
           /\ handler[h].to \in Seq(Recipients) /\ handler[h].to # <<>>
           /\ 1 \in DOMAIN handler[h].to
           /\ DOMAIN handler[h].to \subseteq Nat
           /\ \A i \in DOMAIN handler[h].to : handler[h].to[i] \in Recipients
           /\ Primary(h) \in Recipients /\ Primary(h) \in Members(handler[h].to)
           /\ Members(handler[h].to) \subseteq Recipients
           /\ Tracked(h) \subseteq Recipients
<1>1. handler[h] \in Handler /\ handler[h].to \in Seq(Recipients) /\ handler[h].to # <<>>
  BY ToFact DEF TypeInv, VarTypes, Shape, Handler
<1>2. /\ 1 \in DOMAIN handler[h].to
      /\ DOMAIN handler[h].to \subseteq Nat
      /\ \A i \in DOMAIN handler[h].to : handler[h].to[i] \in Recipients
  BY <1>1
<1>3. /\ Primary(h) \in Recipients /\ Primary(h) \in Members(handler[h].to)
      /\ Members(handler[h].to) \subseteq Recipients
  BY <1>2 DEF Primary, Members
<1> QED BY <1>1, <1>2, <1>3 DEF Tracked

LEMMA SpendType ==
    ASSUME VarTypes, NEW kind \in BudgetKinds, Spend(kind)
    PROVE  budget' \in [BudgetKinds -> Nat]
BY DEF VarTypes, Spend

LEMMA Kinds ==
    {"deliver", "crash", "shutdown", "dberr", "template", "retry"} \subseteq BudgetKinds
BY DEF BudgetKinds

LEMMA WriteType ==
    ASSUME VarTypes, NEW new, new \in [Recipients -> Row], DroppedResultWrite(new)
    PROVE  /\ log' \in [Recipients -> Row] /\ log' \in {log, new}
           /\ budget' \in [BudgetKinds -> Nat]
BY Kinds, SpendType DEF DroppedResultWrite, VarTypes

\* The addresses on the mail and the rows marked after it.
LEMMA EnvelopeFact ==
    ASSUME TypeInv, NEW h \in Handlers, handler[h].pc # "idle"
    PROVE  /\ Envelope(h) \subseteq Recipients
           /\ SendTargets(h) \subseteq DOMAIN handler[h].to
           /\ SendTargets(h) # {}
           /\ At(h, SendTargets(h)) \subseteq Envelope(h)
<1>1. Extra(h) \subseteq DOMAIN handler[h].to
  BY DEF Extra, Allowed
<1> QED BY <1>1, WorkFact DEF Envelope, At, SendTargets

-----------------------------------------------------------------------------
(***************************************************************************)
(* Type correctness.                                                       *)
(***************************************************************************)

\* A step of handler h that keeps its message or gives the permit back.
Moves(h) ==
    /\ handler' \in [Handlers -> Handler]
    /\ \A g \in Handlers : g # h => handler'[g] = handler[g]
    /\ handler'[h] = Idle \/ handler'[h].to = handler[h].to
    /\ handler'[h].left \subseteq DOMAIN handler'[h].to
    /\ handler'[h].pc \in {"filter", "mark"} => handler'[h].left # {}

LEMMA IdleTypes ==
    /\ NoRow \in Row
    /\ Idle \in Handler /\ Idle.pc = "idle" /\ Idle.left = {}
    /\ NoTask \in Task /\ NoTask.pc = "none" /\ [NoTask EXCEPT !.pc = "check"] \in Task
    /\ NoRequest \in [pc: {"idle", "publish", "revert"}, rows: SUBSET Recipients]
    /\ NoRequest.pc = "idle"
<1>1. NoRow \in Row
  BY DEF NoRow, Row
<1>2. Idle \in Handler /\ Idle.pc = "idle" /\ Idle.left = {}
  BY DEF Idle, Handler
<1>3. NoTask \in Task /\ NoTask.pc = "none" /\ [NoTask EXCEPT !.pc = "check"] \in Task
  BY DEF NoTask, Task
<1>4. /\ NoRequest \in [pc: {"idle", "publish", "revert"}, rows: SUBSET Recipients]
      /\ NoRequest.pc = "idle"
  BY DEF NoRequest
<1> QED BY <1>1, <1>2, <1>3, <1>4

LEMMA GotoMoves ==
    ASSUME TypeInv, NEW h \in Handlers,
           NEW pc \in {"check", "insert", "token", "send", "fail", "backoff", "fallback", "join"},
           Goto(h, pc)
    PROVE  /\ Moves(h) /\ handler'[h].pc = pc /\ handler'[h].to = handler[h].to
<1>1. handler[h] \in Handler /\ handler \in [Handlers -> Handler]
  BY DEF TypeInv, VarTypes
<1>2. /\ handler'[h].left = handler[h].left /\ handler'[h].pc = pc
      /\ handler'[h].to = handler[h].to
      /\ \A g \in Handlers : g # h => handler'[g] = handler[g]
  BY <1>1 DEF Goto, Handler
<1>3. handler' \in [Handlers -> Handler]
  BY <1>1 DEF Goto, Handler
<1>4. handler[h].left \subseteq DOMAIN handler[h].to
  BY DEF TypeInv, Shape
<1> QED BY <1>2, <1>3, <1>4 DEF Moves

LEMMA FailWithMoves ==
    ASSUME TypeInv, NEW h \in Handlers, NEW err \in Errors, FailWith(h, err)
    PROVE  Moves(h) /\ handler'[h].pc = "fail"
<1>1. handler[h] \in Handler /\ handler \in [Handlers -> Handler]
  BY DEF TypeInv, VarTypes
<1>2. /\ handler'[h].left = handler[h].left /\ handler'[h].pc = "fail"
      /\ handler'[h].to = handler[h].to
      /\ \A g \in Handlers : g # h => handler'[g] = handler[g]
  BY <1>1 DEF FailWith, Handler
<1>3. handler' \in [Handlers -> Handler]
  BY <1>1 DEF FailWith, Handler
<1>4. handler[h].left \subseteq DOMAIN handler[h].to
  BY DEF TypeInv, Shape
<1> QED BY <1>2, <1>3, <1>4 DEF Moves

LEMMA ReturnMoves ==
    ASSUME TypeInv, NEW h \in Handlers, Return(h)
    PROVE  Moves(h) /\ handler'[h].pc = "idle"
<1>1. handler'[h] = Idle
  BY DEF TypeInv, VarTypes, Return
<1>2. handler' \in [Handlers -> Handler] /\ \A g \in Handlers : g # h => handler'[g] = handler[g]
  BY IdleTypes DEF TypeInv, VarTypes, Return
<1> QED BY <1>1, <1>2, IdleTypes DEF Moves

\* A loop takes a position off its list, and goes on to pc behind the last.
LEMMA AdvanceMoves ==
    ASSUME TypeInv, NEW h \in Handlers, NEW pc \in {"token", "mark"}, NEW i \in handler[h].left,
           handler[h].pc \in {"filter", "mark"}, pc = "mark" => handler[h].left # {i},
           Advance(h, i, pc)
    PROVE  /\ Moves(h)
           /\ handler'[h].pc \in {pc, handler[h].pc}
           /\ handler'[h].to = handler[h].to
           /\ handler'[h].left \subseteq handler[h].left
<1>1. handler[h] \in Handler /\ handler \in [Handlers -> Handler]
  BY DEF TypeInv, VarTypes
<1>2. /\ handler'[h].left = handler[h].left \ {i}
      /\ handler'[h].pc = IF handler[h].left = {i} THEN pc ELSE handler[h].pc
      /\ handler'[h].to = handler[h].to
      /\ \A g \in Handlers : g # h => handler'[g] = handler[g]
  BY <1>1 DEF Advance, Handler
<1>3. handler' \in [Handlers -> Handler]
  BY <1>1 DEF Advance, Handler
<1>4. handler[h].left \subseteq DOMAIN handler[h].to
  BY DEF TypeInv, Shape
<1>5. handler'[h].pc \in {"filter", "mark"} => handler'[h].left # {}
  BY <1>2
<1> QED BY <1>2, <1>3, <1>4, <1>5 DEF Moves

\* What is left to show of a handler's step once its move is known.
LEMMA GroupFrame ==
    ASSUME TypeInv, NEW h \in Handlers, handler[h].pc # "idle", Moves(h),
           UNCHANGED <<opts, shutdown, api, replays>>,
           log' \in [Recipients -> Row], task' \in [Tasks -> Task],
           sends' \in [Recipients -> Nat], accepted' \subseteq Recipients,
           budget' \in [BudgetKinds -> Nat]
    PROVE  TypeInv'
<1>1. Shape'
  <2>1. \A g \in Handlers : handler'[g].pc # "idle" => handler'[g].to \in {To} \cup replays
    BY IdleTypes DEF TypeInv, Shape, Moves
  <2>2. \A g \in Handlers : handler'[g].left \subseteq DOMAIN handler'[g].to
    BY DEF TypeInv, Shape, Moves
  <2> QED BY <2>1, <2>2 DEF TypeInv, Shape
<1>2. \A g \in Handlers : handler'[g].pc \in {"filter", "mark"} => handler'[g].left # {}
  BY DEF TypeInv, VarTypes, Moves
<1>3. VarTypes'
  BY <1>2 DEF TypeInv, VarTypes, Moves
<1> QED BY <1>1, <1>3 DEF TypeInv

\* A success means that the provider took the mail.
LEMMA OutcomeFact ==
    ASSUME NEW o \in SendOutcomes
    PROVE  o.err \in Errors \cup {"none"} /\ (o.err = "none" => o.took)
<1>1. ASSUME NEW end \in SmtpEnds, SmtpError(end) = "none"
      PROVE  SmtpTook(end) = {TRUE}
  BY <1>1 DEF SmtpEnds, SmtpError, SmtpTook
<1>2. ASSUME NEW end \in WebhookEnds, WebhookError(end) = "none"
      PROVE  WebhookTook(end) = {TRUE}
  BY <1>2 DEF WebhookEnds, WebhookError, WebhookTook
<1> QED BY <1>1, <1>2 DEF SendOutcomes

\* The rows an insert adds, in each of its outcomes, and where it leads.
LEMMA InsertMoves ==
    ASSUME TypeInv, NEW h \in Handlers, Insert(h)
    PROVE  /\ Moves(h)
           /\ log' \in {log, InsertPendingBatch(log, Tracked(h))}
           /\ Keeps(Recipients, log, log')
           /\ \/ /\ ~Exists(log, Primary(h))
                 /\ log' = InsertPendingBatch(log, Tracked(h))
                 /\ handler'[h].pc = "filter" /\ handler'[h].to = handler[h].to
              \/ handler'[h].pc \in {"idle", "check", "fail"}
<1>1. handler[h].pc # "idle" /\ handler[h] \in Handler /\ handler \in [Handlers -> Handler]
  BY DEF Insert, TypeInv, VarTypes
<1>2. /\ handler[h].to \in Seq(Recipients) /\ 1 \in DOMAIN handler[h].to
      /\ DOMAIN handler[h].to \subseteq Nat
      /\ Tracked(h) \subseteq Recipients /\ Primary(h) \in Recipients
      /\ handler[h].left \subseteq DOMAIN handler[h].to
  BY <1>1, WorkFact DEF TypeInv, Shape
<1>3. log \in [Recipients -> Row]
  BY DEF TypeInv, VarTypes
<1>4. log' \in {log, InsertPendingBatch(log, Tracked(h))}
  BY DEF Insert
<1>5. Keeps(Recipients, log, log')
  BY <1>2, <1>3, <1>4, InsertPendingBatchFact DEF Keeps
<1>6. ASSUME handler' = [handler EXCEPT ![h].pc = "filter",
                                        ![h].left = DOMAIN handler[h].to,
                                        ![h].skip = TerminalSecondaries(h)]
      PROVE  Moves(h) /\ handler'[h].pc = "filter" /\ handler'[h].to = handler[h].to
  <2>1. TerminalSecondaries(h) \subseteq Recipients
    BY <1>2 DEF TerminalSecondaries
  <2>2. /\ handler'[h].pc = "filter" /\ handler'[h].to = handler[h].to
        /\ handler'[h].left = DOMAIN handler[h].to
        /\ \A g \in Handlers : g # h => handler'[g] = handler[g]
    BY <1>1, <1>6 DEF Handler
  <2>3. handler' \in [Handlers -> Handler]
    BY <1>1, <1>2, <1>6, <2>1 DEF Handler
  <2> QED BY <1>2, <2>2, <2>3 DEF Moves
<1>7. ASSUME handler' = [handler EXCEPT ![h].pc = "check",
                                        ![h].attempt = log[Primary(h)].retry]
      PROVE  Moves(h) /\ handler'[h].pc = "check"
  <2>1. log[Primary(h)].retry \in Nat
    BY <1>2, <1>3 DEF Row
  <2>2. /\ handler'[h].pc = "check" /\ handler'[h].to = handler[h].to
        /\ handler'[h].left = handler[h].left
        /\ \A g \in Handlers : g # h => handler'[g] = handler[g]
    BY <1>1, <1>7 DEF Handler
  <2>3. handler' \in [Handlers -> Handler]
    BY <1>1, <1>7, <2>1 DEF Handler
  <2> QED BY <1>2, <2>2, <2>3 DEF Moves
<1>8. "transient" \in Errors
  BY DEF Errors
<1>9. CASE Return(h)
  BY <1>4, <1>5, <1>9, ReturnMoves
<1>10. CASE FailWith(h, "transient")
  BY <1>4, <1>5, <1>8, <1>10, FailWithMoves
<1>11. CASE handler' = [handler EXCEPT ![h].pc = "check",
                                       ![h].attempt = log[Primary(h)].retry]
  BY <1>4, <1>5, <1>7, <1>11
<1>12. CASE /\ ~Exists(log, Primary(h))
            /\ log' = InsertPendingBatch(log, Tracked(h))
            /\ handler' = [handler EXCEPT ![h].pc = "filter",
                                          ![h].left = DOMAIN handler[h].to,
                                          ![h].skip = TerminalSecondaries(h)]
  BY <1>4, <1>5, <1>6, <1>12
<1> QED BY <1>9, <1>10, <1>11, <1>12 DEF Insert

\* One address of the filter's loop: its row may become BLOCKED.
LEMMA FilterMoves ==
    ASSUME TypeInv, NEW h \in Handlers, Filter(h)
    PROVE  /\ Moves(h)
           /\ \E r \in Recipients : log' \in {log, MarkBlocked(log, r)}
           /\ budget' \in [BudgetKinds -> Nat]
           /\ \/ handler'[h].pc = "idle"
              \/ handler'[h].pc \in {"filter", "token"} /\ handler'[h].to = handler[h].to
<1>1. handler[h].pc = "filter" /\ VarTypes
  BY DEF Filter, TypeInv
<1>2. PICK i \in handler[h].left :
        /\ IF handler[h].to[i] \in opts.blocked
           THEN DroppedResultWrite(MarkBlocked(log, handler[h].to[i]))
           ELSE UNCHANGED <<log, budget>>
        /\ IF handler[h].left = {i} /\ Members(handler[h].to) \subseteq opts.blocked
           THEN Return(h) ELSE Advance(h, i, "token")
  BY DEF Filter
<1>3. handler[h].to[i] \in Recipients
  BY <1>1, WorkFact DEF TypeInv, Shape
<1>4. MarkBlocked(log, handler[h].to[i]) \in [Recipients -> Row]
  BY <1>1, <1>3, MarkFact DEF VarTypes, Keeps
<1>5. /\ log' \in {log, MarkBlocked(log, handler[h].to[i])}
      /\ budget' \in [BudgetKinds -> Nat]
  BY <1>1, <1>2, <1>4, WriteType DEF VarTypes
<1>6. CASE Return(h)
  BY <1>3, <1>5, <1>6, ReturnMoves
<1>7. CASE Advance(h, i, "token")
  BY <1>1, <1>3, <1>5, <1>7, AdvanceMoves
<1> QED BY <1>2, <1>6, <1>7

\* One row of mark_sent_for_targets.
LEMMA RecordMoves ==
    ASSUME TypeInv, NEW h \in Handlers, RecordSent(h)
    PROVE  /\ Moves(h)
           /\ \E i \in handler[h].left :
                  /\ handler[h].to[i] \in Recipients
                  /\ log' \in {log, MarkSent(log, handler[h].to[i])}
           /\ budget' \in [BudgetKinds -> Nat]
           /\ \/ handler'[h].pc = "idle"
              \/ /\ handler'[h].pc = "mark" /\ handler'[h].to = handler[h].to
                 /\ handler'[h].left \subseteq handler[h].left
<1>1. handler[h].pc = "mark" /\ VarTypes
  BY DEF RecordSent, TypeInv
<1>2. PICK i \in handler[h].left :
        /\ DroppedResultWrite(MarkSent(log, handler[h].to[i]))
        /\ IF handler[h].left = {i} THEN Return(h) ELSE Advance(h, i, "mark")
  BY DEF RecordSent
<1>3. handler[h].to[i] \in Recipients
  BY <1>1, WorkFact DEF TypeInv, Shape
<1>4. MarkSent(log, handler[h].to[i]) \in [Recipients -> Row]
  BY <1>1, <1>3, MarkFact DEF VarTypes, Keeps
<1>5. /\ log' \in {log, MarkSent(log, handler[h].to[i])}
      /\ budget' \in [BudgetKinds -> Nat]
  BY <1>1, <1>2, <1>4, WriteType
<1>6. CASE Return(h)
  BY <1>3, <1>5, <1>6, ReturnMoves
<1>7. CASE handler[h].left # {i} /\ Advance(h, i, "mark")
  BY <1>1, <1>3, <1>5, <1>7, AdvanceMoves
<1> QED BY <1>2, <1>6, <1>7

\* A failed attempt ends the delivery or goes to its backoff.
LEMMA FailMoves ==
    ASSUME TypeInv, NEW h \in Handlers, Fail(h)
    PROVE  Moves(h) /\ handler'[h].pc \in {"idle", "backoff"}
<1>1. handler[h] \in Handler /\ handler \in [Handlers -> Handler]
      /\ handler[h].left \subseteq DOMAIN handler[h].to
  BY DEF TypeInv, VarTypes, Shape
<1>2. handler[h].rl + 1 \in Nat /\ handler[h].attempt + 1 \in Nat
  BY <1>1 DEF Handler
<1>3. handler'[h] = AfterFailure(h) /\ \A g \in Handlers : g # h => handler'[g] = handler[g]
  BY <1>1 DEF Fail
<1>4. CASE GivesUp(h)
  <2>1. AfterFailure(h) = Idle
    BY <1>4 DEF AfterFailure
  <2> QED BY <1>1, <1>3, <2>1, IdleTypes DEF Fail, Moves
<1>5. CASE ~GivesUp(h)
  <2>1. /\ AfterFailure(h) \in Handler /\ AfterFailure(h).pc = "backoff"
        /\ AfterFailure(h).to = handler[h].to /\ AfterFailure(h).left = handler[h].left
    BY <1>1, <1>2, <1>5 DEF AfterFailure, Handler
  <2> QED BY <1>1, <1>3, <2>1 DEF Fail, Moves
<1> QED BY <1>4, <1>5

\* The call of the sender.
LEMMA SendMoves ==
    ASSUME TypeInv, NEW h \in Handlers, Send(h)
    PROVE  /\ Moves(h)
           /\ accepted' \in {accepted, accepted \cup Envelope(h)}
           /\ \/ /\ handler'[h].pc = "mark" /\ handler'[h].to = handler[h].to
                 /\ handler'[h].left = SendTargets(h)
                 /\ accepted' = accepted \cup Envelope(h)
              \/ /\ handler'[h].pc = "fallback" /\ handler'[h].to = handler[h].to
                 /\ opts.individual
              \/ handler'[h].pc = "fail"
<1>1. handler[h].pc = "send" /\ handler[h] \in Handler /\ handler \in [Handlers -> Handler]
  BY DEF Send, TypeInv, VarTypes
<1>2. PICK o \in SendOutcomes :
        /\ accepted' = IF o.took THEN accepted \cup Envelope(h) ELSE accepted
        /\ \/ /\ o.err = "none"
              /\ handler' = [handler EXCEPT ![h].pc = "mark", ![h].left = SendTargets(h)]
           \/ o.err # "none" /\ opts.individual /\ Goto(h, "fallback")
           \/ o.err # "none" /\ ~opts.individual /\ FailWith(h, o.err)
  BY DEF Send
<1>3. CASE o.err = "none"
  <2>1. handler' = [handler EXCEPT ![h].pc = "mark", ![h].left = SendTargets(h)]
        /\ accepted' = accepted \cup Envelope(h)
    BY <1>2, <1>3, OutcomeFact
  <2>2. /\ SendTargets(h) \subseteq DOMAIN handler[h].to /\ SendTargets(h) # {}
        /\ DOMAIN handler[h].to \subseteq Nat
    BY <1>1, EnvelopeFact, WorkFact
  <2>3. /\ handler'[h].pc = "mark" /\ handler'[h].to = handler[h].to
        /\ handler'[h].left = SendTargets(h)
        /\ \A g \in Handlers : g # h => handler'[g] = handler[g]
    BY <1>1, <2>1 DEF Handler
  <2>4. handler' \in [Handlers -> Handler]
    BY <1>1, <2>1, <2>2 DEF Handler
  <2> QED BY <2>1, <2>2, <2>3, <2>4 DEF Moves
<1>4. CASE o.err # "none" /\ opts.individual /\ Goto(h, "fallback")
  BY <1>2, <1>4, GotoMoves
<1>5. CASE o.err # "none" /\ FailWith(h, o.err)
  BY <1>2, <1>5, FailWithMoves, OutcomeFact
<1> QED BY <1>2, <1>3, <1>4, <1>5

\* A delivery starts on a permit that is free.
LEMMA TypeDeliver ==
    ASSUME TypeInv, NEW h \in Handlers, Deliver(h)
    PROVE  /\ TypeInv'
           /\ handler'[h].pc = "check"
           /\ \A g \in Handlers : g # h => handler'[g] = handler[g]
<1>1. PICK m \in Messages :
        handler' = [handler EXCEPT ![h].pc = "check", ![h].to = m.to,
                                   ![h].noRetry = m.noRetry]
  BY DEF Deliver
<1>2. m.to \in {To} \cup replays /\ m.noRetry \in BOOLEAN /\ m.to \in Seq(Recipients)
  <2>1. opts.noRetry \in BOOLEAN /\ replays \subseteq Seq(Recipients)
    BY DEF TypeInv, VarTypes, Options
  <2>2. CASE m = [to |-> To, noRetry |-> opts.noRetry]
    BY <2>1, <2>2, ToFact
  <2>3. CASE m \in [to: replays, noRetry: {FALSE}]
    BY <2>1, <2>3
  <2> QED BY <2>2, <2>3 DEF Messages
<1>3. handler \in [Handlers -> Handler] /\ handler[h] \in Handler /\ handler[h].left = {}
  BY IdleTypes DEF TypeInv, VarTypes, Deliver
<1>4. /\ handler'[h].pc = "check" /\ handler'[h].to = m.to /\ handler'[h].left = {}
      /\ \A g \in Handlers : g # h => handler'[g] = handler[g]
  BY <1>1, <1>3 DEF Handler
<1>5. handler' \in [Handlers -> Handler]
  BY <1>1, <1>2, <1>3 DEF Handler
<1>6. UNCHANGED <<opts, log, task, shutdown, api, replays, sends, accepted>>
  BY DEF Deliver, aroundGroup
<1>7. budget' \in [BudgetKinds -> Nat]
  BY Kinds, SpendType DEF Deliver, TypeInv
<1>8. Shape'
  BY <1>2, <1>4, <1>6 DEF TypeInv, Shape
<1>9. \A g \in Handlers : handler'[g].pc \in {"filter", "mark"} => handler'[g].left # {}
  BY <1>4 DEF TypeInv, VarTypes
<1>10. VarTypes'
  BY <1>5, <1>6, <1>7, <1>9 DEF TypeInv, VarTypes
<1> QED BY <1>4, <1>8, <1>10 DEF TypeInv

\* What a fallback starts, and what its end clears.
LEMMA FallbackMoves ==
    ASSUME TypeInv, NEW h \in Handlers, Fallback(h)
    PROVE  /\ Moves(h) /\ handler'[h].pc = "join" /\ handler'[h].to = handler[h].to
           /\ task' \in [Tasks -> Task]
           /\ \A t \in Tasks : \/ task'[t] = task[t]
                               \/ t[1] = h /\ t[2] \in Members(handler[h].to)
           /\ budget' \in [BudgetKinds -> Nat]
<1>1. Moves(h) /\ handler'[h].pc = "join" /\ handler'[h].to = handler[h].to
  BY GotoMoves DEF Fallback
<1>2. budget' \in [BudgetKinds -> Nat]
  BY Kinds, SpendType DEF Fallback, TypeInv, VarTypes
<1>3. /\ task' \in [Tasks -> Task]
      /\ \A t \in Tasks : \/ task'[t] = task[t]
                          \/ t[1] = h /\ t[2] \in Members(handler[h].to)
  BY IdleTypes DEF Fallback, TypeInv, VarTypes
<1> QED BY <1>1, <1>2, <1>3

\* The steps of process_group, its retry loop and the fallback around its tasks.
LEMMA TypeGroup ==
    ASSUME TypeInv, NEW h \in Handlers, GroupStep(h)
    PROVE  TypeInv' /\ Moves(h) /\ handler[h].pc # "idle"
           /\ UNCHANGED <<opts, shutdown, api, replays>>
<1>1. handler[h].pc # "idle"
  BY DEF GroupStep, Check, Insert, Filter, Token, Send, RecordSent, Fail, Backoff,
         Fallback, Join
<1>2. UNCHANGED <<opts, shutdown, api, replays>>
  BY DEF GroupStep, Check, Insert, Filter, Token, Send, RecordSent, Fail, Backoff,
         Fallback, Join, aroundGroup
<1>3. /\ VarTypes
      /\ log \in [Recipients -> Row] /\ task \in [Tasks -> Task]
      /\ sends \in [Recipients -> Nat] /\ accepted \subseteq Recipients
      /\ budget \in [BudgetKinds -> Nat]
  BY DEF TypeInv, VarTypes
<1>4. Primary(h) \in Recipients
  BY <1>1, WorkFact
<1>5. "permanent" \in Errors /\ "transient" \in Errors
  BY DEF Errors
<1>6. ASSUME NEW x \in BOOLEAN, DroppedResultWrite(MarkFailed(log, Primary(h), x))
      PROVE  log' \in [Recipients -> Row] /\ budget' \in [BudgetKinds -> Nat]
  <2>1. MarkFailed(log, Primary(h), x) \in [Recipients -> Row]
    BY <1>3, <1>4, MarkFact DEF Keeps
  <2> QED BY <1>3, <1>6, <2>1, WriteType
<1>7. CASE Check(h)
  <2>1. Moves(h)
    BY <1>5, <1>7, GotoMoves, FailWithMoves DEF Check
  <2>2. budget' \in [BudgetKinds -> Nat]
    BY <1>3, <1>7, Kinds, SpendType DEF Check
  <2> QED BY <1>1, <1>2, <1>3, <1>7, <2>1, <2>2, GroupFrame DEF Check, aroundGroup
<1>8. CASE Insert(h)
  <2>1. Moves(h) /\ log' \in [Recipients -> Row]
    BY <1>8, InsertMoves DEF Keeps
  <2>2. budget' \in [BudgetKinds -> Nat]
    BY <1>3, <1>8, Kinds, SpendType DEF Insert
  <2>3. UNCHANGED <<task, sends, accepted>>
    BY <1>8 DEF Insert, aroundGroup
  <2> QED BY <1>1, <1>2, <1>3, <2>1, <2>2, <2>3, GroupFrame
<1>9. CASE Filter(h)
  <2>1. PICK r \in Recipients : log' \in {log, MarkBlocked(log, r)}
    BY <1>9, FilterMoves
  <2>2. log' \in [Recipients -> Row]
    <3>1. MarkBlocked(log, r) \in [Recipients -> Row]
      BY <1>3, MarkFact DEF Keeps
    <3> QED BY <1>3, <2>1, <3>1
  <2>3. UNCHANGED <<task, sends, accepted>>
    BY <1>9 DEF Filter, aroundGroup
  <2> QED BY <1>1, <1>2, <1>3, <1>9, <2>2, <2>3, FilterMoves, GroupFrame
<1>10. CASE Token(h)
  <2>1. Moves(h)
    BY <1>5, <1>10, GotoMoves, FailWithMoves DEF Token
  <2> QED BY <1>1, <1>2, <1>3, <1>10, <2>1, GroupFrame DEF Token, aroundGroup
<1>11. CASE Send(h)
  <2>1. Moves(h) /\ accepted' \subseteq Recipients
    BY <1>1, <1>3, <1>11, SendMoves, EnvelopeFact
  <2>2. sends' \in [Recipients -> Nat]
    BY <1>3, <1>11 DEF Send
  <2>3. UNCHANGED <<log, task, budget>>
    BY <1>11 DEF Send, aroundGroup
  <2> QED BY <1>1, <1>2, <1>3, <2>1, <2>2, <2>3, GroupFrame
<1>12. CASE RecordSent(h)
  <2>1. PICK i \in handler[h].left :
          /\ handler[h].to[i] \in Recipients
          /\ log' \in {log, MarkSent(log, handler[h].to[i])}
    BY <1>12, RecordMoves
  <2>2. log' \in [Recipients -> Row]
    <3>1. MarkSent(log, handler[h].to[i]) \in [Recipients -> Row]
      BY <1>3, <2>1, MarkFact DEF Keeps
    <3> QED BY <1>3, <2>1, <3>1
  <2>3. UNCHANGED <<task, sends, accepted>>
    BY <1>12 DEF RecordSent, aroundGroup
  <2> QED BY <1>1, <1>2, <1>3, <1>12, <2>2, <2>3, RecordMoves, GroupFrame
<1>13. CASE Fail(h)
  <2>1. GivesUp(h) \in BOOLEAN
    BY DEF GivesUp
  <2>2. log' \in [Recipients -> Row] /\ budget' \in [BudgetKinds -> Nat]
    BY <1>6, <1>13, <2>1 DEF Fail
  <2> QED BY <1>1, <1>2, <1>3, <1>13, <2>2, FailMoves, GroupFrame DEF Fail, aroundGroup
<1>14. CASE Backoff(h)
  <2>1. Moves(h)
    BY <1>14, GotoMoves, ReturnMoves DEF Backoff
  <2>2. log' \in [Recipients -> Row] /\ budget' \in [BudgetKinds -> Nat]
    BY <1>3, <1>6, <1>14 DEF Backoff
  <2> QED BY <1>1, <1>2, <1>3, <1>14, <2>1, <2>2, GroupFrame DEF Backoff, aroundGroup
<1>15. CASE Fallback(h)
  <2>1. UNCHANGED <<log, sends, accepted>>
    BY <1>15 DEF Fallback
  <2> QED BY <1>1, <1>2, <1>3, <1>15, <2>1, FallbackMoves, GroupFrame
<1>16. CASE Join(h)
  <2>1. Moves(h)
    BY <1>16, ReturnMoves DEF Join
  <2>2. task' \in [Tasks -> Task]
    BY <1>3, <1>16, IdleTypes DEF Join
  <2>3. UNCHANGED <<log, sends, accepted, budget>>
    BY <1>16 DEF Join
  <2> QED BY <1>1, <1>2, <1>3, <2>1, <2>2, <2>3, GroupFrame
<1> QED BY <1>1, <1>2, <1>7, <1>8, <1>9, <1>10, <1>11, <1>12, <1>13, <1>14, <1>15, <1>16
        DEF GroupStep

\* The tasks of the fallback: a running task stays one, no handler moves.
LEMMA TypeTaskStep ==
    ASSUME TypeInv, NEW t \in Tasks, TaskStep(t)
    PROVE  /\ TypeInv' /\ UNCHANGED aroundTask
           /\ task[t].pc # "none"
           /\ \A u \in Tasks : u # t => task'[u] = task[u]
           /\ log' = log \/ \E x \in BOOLEAN : log' = MarkFailed(log, t[2], x)
<1>1. task[t].pc # "none" /\ UNCHANGED aroundTask
  BY DEF TaskStep, TaskCheck, TaskInsert, TaskFail, TaskBackoff
<1>2. /\ VarTypes /\ t[2] \in Recipients /\ task[t] \in Task
      /\ log \in [Recipients -> Row] /\ budget \in [BudgetKinds -> Nat]
      /\ task \in [Tasks -> Task]
  BY DEF TypeInv, VarTypes, Tasks
<1>3. ASSUME task' \in [Tasks -> Task], log' \in [Recipients -> Row],
             budget' \in [BudgetKinds -> Nat]
      PROVE  TypeInv'
  <2>1. Shape'
    BY <1>1 DEF TypeInv, Shape, aroundTask
  <2> QED BY <1>1, <1>3, <2>1 DEF TypeInv, VarTypes, aroundTask
<1>4. "permanent" \in Errors /\ "transient" \in Errors
  BY DEF Errors
<1>5. ASSUME NEW new \in Task, task' = [task EXCEPT ![t] = new]
      PROVE  task' \in [Tasks -> Task] /\ \A u \in Tasks : u # t => task'[u] = task[u]
  BY <1>2, <1>5
<1>6. ASSUME NEW pc \in {"check", "insert", "done"}, task' = [task EXCEPT ![t].pc = pc]
      PROVE  task' \in [Tasks -> Task] /\ \A u \in Tasks : u # t => task'[u] = task[u]
  BY <1>2, <1>6 DEF Task
<1>7. ASSUME NEW err \in Errors, TaskFailsWith(t, err)
      PROVE  task' \in [Tasks -> Task] /\ \A u \in Tasks : u # t => task'[u] = task[u]
  BY <1>2, <1>7 DEF Task, TaskFailsWith
<1>8. ASSUME NEW x \in BOOLEAN, DroppedResultWrite(MarkFailed(log, t[2], x))
      PROVE  /\ log' \in [Recipients -> Row] /\ budget' \in [BudgetKinds -> Nat]
             /\ log' = log \/ \E y \in BOOLEAN : log' = MarkFailed(log, t[2], y)
  <2>1. MarkFailed(log, t[2], x) \in [Recipients -> Row]
    BY <1>2, MarkFact DEF Keeps
  <2> QED BY <1>2, <1>8, <2>1, WriteType
<1>9. CASE TaskCheck(t)
  <2>1. task' \in [Tasks -> Task] /\ \A u \in Tasks : u # t => task'[u] = task[u]
    BY <1>4, <1>6, <1>7, <1>9 DEF TaskCheck
  <2>2. budget' \in [BudgetKinds -> Nat] /\ UNCHANGED log
    BY <1>2, <1>9, Kinds, SpendType DEF TaskCheck
  <2> QED BY <1>1, <1>2, <1>3, <2>1, <2>2
<1>10. CASE TaskInsert(t)
  <2>1. ASSUME task' = [task EXCEPT ![t].pc = "check", ![t].attempt = log[t[2]].retry]
        PROVE  task' \in [Tasks -> Task] /\ \A u \in Tasks : u # t => task'[u] = task[u]
    <3>1. log[t[2]].retry \in Nat
      BY <1>2 DEF Row
    <3> QED BY <1>2, <2>1, <3>1 DEF Task
  <2>2. task' \in [Tasks -> Task] /\ \A u \in Tasks : u # t => task'[u] = task[u]
    BY <1>4, <1>6, <1>7, <1>10, <2>1 DEF TaskInsert
  <2>3. budget' \in [BudgetKinds -> Nat] /\ UNCHANGED log
    BY <1>2, <1>10, Kinds, SpendType DEF TaskInsert
  <2> QED BY <1>1, <1>2, <1>3, <2>2, <2>3
<1>11. CASE TaskFail(t)
  <2>1. TaskGivesUp(t) \in BOOLEAN
    BY DEF TaskGivesUp
  <2>2. [task[t] EXCEPT !.pc = "done"] \in Task
    BY <1>2 DEF Task
  <2>3. [task[t] EXCEPT !.pc = "backoff", !.attempt = task[t].attempt + 1] \in Task
    <3>1. task[t].attempt + 1 \in Nat
      BY <1>2 DEF Task
    <3> QED BY <1>2, <3>1 DEF Task
  <2>4. task' \in [Tasks -> Task] /\ \A u \in Tasks : u # t => task'[u] = task[u]
    BY <1>5, <1>11, <2>2, <2>3 DEF TaskFail
  <2> QED BY <1>1, <1>3, <1>8, <1>11, <2>1, <2>4 DEF TaskFail
<1>12. CASE TaskBackoff(t)
  <2>1. task' \in [Tasks -> Task] /\ \A u \in Tasks : u # t => task'[u] = task[u]
    BY <1>6, <1>12 DEF TaskBackoff
  <2> QED BY <1>1, <1>2, <1>3, <1>8, <1>12, <2>1 DEF TaskBackoff
<1> QED BY <1>9, <1>10, <1>11, <1>12 DEF TaskStep

\* The lists republish_event builds name rows it was asked for, at least one.
LEMMA OrderingFact ==
    ASSUME NEW K \in SUBSET Recipients, K # {}, NEW s \in Orderings(K)
    PROVE  s \in Seq(Recipients) /\ s # <<>> /\ s[1] \in K
<1>1. IsFiniteSet(K)
  BY ToFact, FS_Subset
<1>2. Cardinality(K) \in Nat \ {0}
  BY <1>1, FS_CardinalityType, FS_EmptySet
<1> DEFINE n == IF Cardinality(K) < ReplayLimit THEN Cardinality(K) ELSE ReplayLimit
<1>3. n \in Nat \ {0}
  BY <1>2, GroupAssumption DEF GroupAssumption
<1>4. s \in [1 .. n -> K]
  BY DEF Orderings
<1> HIDE DEF n
<1>5. s \in [1 .. n -> Recipients] /\ 1 \in 1 .. n
  BY <1>3, <1>4
<1>6. s \in Seq(Recipients)
  BY <1>3, <1>5, SeqDef
<1>7. DOMAIN s = 1 .. n
  BY <1>4
<1>8. s # <<>>
  <2>1. Len(s) >= 1
    <3>1. DOMAIN s = 1 .. Len(s) /\ Len(s) \in Nat
      BY <1>6, LenProperties
    <3>2. 1 \in 1 .. Len(s)
      BY <1>5, <1>7, <3>1
    <3> QED BY <3>1, <3>2
  <2> QED BY <2>1, EmptySeq
<1> QED BY <1>4, <1>5, <1>6, <1>8

\* The retry endpoints and the reaper.
ApiStep ==
    \/ \E r \in Recipients : RetryRecipient(r)
    \/ RetryEvent
    \/ Republish
    \/ Revert
    \/ \E K \in SUBSET Recipients : Reap(K)

\* The rows an endpoint resets exist, and there is one.
LEMMA ApiResets ==
    ASSUME VarTypes, (\E r \in Recipients : RetryRecipient(r)) \/ RetryEvent
    PROVE  \E K \in SUBSET Recipients :
               K # {} /\ ResetRows(K) /\ \A r \in K : Retryable(log, r)
<1>1. ASSUME NEW r \in Recipients, RetryRecipient(r)
      PROVE  /\ ResetRows({r}) /\ {r} \in SUBSET Recipients /\ {r} # {}
             /\ \A j \in {r} : Retryable(log, j)
  BY <1>1 DEF RetryRecipient
<1>2. ASSUME RetryEvent
      PROVE  LET F == {r \in Recipients : log[r].status = "FAILED"}
             IN  /\ ResetRows(F) /\ F \in SUBSET Recipients /\ F # {}
                 /\ \A j \in F : Retryable(log, j)
  BY <1>2 DEF RetryEvent, Retryable
<1> QED BY <1>1, <1>2

LEMMA TypeApi ==
    ASSUME TypeInv, ApiStep
    PROVE  TypeInv' /\ UNCHANGED aroundApi
<1>1. UNCHANGED aroundApi
  BY DEF ApiStep, RetryRecipient, RetryEvent, ResetRows, Republish, Revert, Reap
<1>2. /\ VarTypes /\ log \in [Recipients -> Row] /\ budget \in [BudgetKinds -> Nat]
      /\ api \in [pc: {"idle", "publish", "revert"}, rows: SUBSET Recipients]
  BY DEF TypeInv, VarTypes
<1>3. ASSUME log' \in [Recipients -> Row], budget' \in [BudgetKinds -> Nat],
             api' \in [pc: {"idle", "publish", "revert"}, rows: SUBSET Recipients],
             replays' \subseteq Seq(Recipients), \A s \in replays' : s # <<>>,
             api'.pc # "idle" => api'.rows # {}, replays \subseteq replays'
      PROVE  TypeInv'
  <2>1. Shape'
    BY <1>1, <1>3 DEF TypeInv, Shape, aroundApi
  <2> QED BY <1>1, <1>3, <2>1 DEF TypeInv, VarTypes, aroundApi
<1>4. replays \subseteq Seq(Recipients) /\ \A s \in replays : s # <<>>
  BY DEF TypeInv, VarTypes, Shape
<1>5. CASE Republish
  <2>1. api.pc = "publish" /\ api.rows # {} /\ api.rows \in SUBSET Recipients
    BY <1>2, <1>5 DEF Republish, TypeInv, Shape
  <2>2. replays \subseteq replays' /\ replays' \subseteq Seq(Recipients)
        /\ \A s \in replays' : s # <<>>
    BY <1>4, <1>5, <2>1, OrderingFact DEF Republish
  <2>3. [api EXCEPT !.pc = "revert"]
          \in [pc: {"idle", "publish", "revert"}, rows: SUBSET Recipients]
        /\ [api EXCEPT !.pc = "revert"].rows = api.rows
    BY <1>2
  <2> QED BY <1>1, <1>2, <1>3, <1>5, <2>1, <2>2, <2>3, IdleTypes DEF Republish
<1>6. CASE Revert
  <2>1. RevertToFailed(log, api.rows) \in [Recipients -> Row]
    BY <1>2, ResetFact DEF Keeps
  <2>2. log' \in [Recipients -> Row] /\ budget' \in [BudgetKinds -> Nat]
    BY <1>2, <1>6, <2>1, WriteType DEF Revert
  <2> QED BY <1>1, <1>2, <1>3, <1>4, <1>6, <2>2, IdleTypes DEF Revert
<1>7. ASSUME NEW K \in SUBSET Recipients, Reap(K) PROVE TypeInv'
  <2>1. log' \in [Recipients -> Row]
    BY <1>2, <1>7, ResetFact DEF Reap, ReapStalePending, Keeps
  <2> QED BY <1>1, <1>2, <1>3, <1>4, <1>7, <2>1 DEF Reap, TypeInv, Shape
<1>8. CASE (\E r \in Recipients : RetryRecipient(r)) \/ RetryEvent
  <2>1. PICK K \in SUBSET Recipients : K # {} /\ ResetRows(K)
    BY <1>2, <1>8, ApiResets
  <2>2. log' \in [Recipients -> Row] /\ budget' \in [BudgetKinds -> Nat]
    BY <1>2, <2>1, ResetFact, Kinds, SpendType DEF ResetRows, Keeps
  <2> QED BY <1>1, <1>2, <1>3, <1>4, <2>1, <2>2 DEF ResetRows
<1> QED BY <1>1, <1>5, <1>6, <1>7, <1>8 DEF ApiStep

LEMMA TypeInit == Init => TypeInv
<1> SUFFICES ASSUME Init PROVE TypeInv
  OBVIOUS
<1>1. budget \in [BudgetKinds -> Nat]
  BY GroupAssumption DEF Init, GroupAssumption
<1>2. /\ log \in [Recipients -> Row] /\ handler \in [Handlers -> Handler]
      /\ task \in [Tasks -> Task]
  BY IdleTypes DEF Init
<1>3. \A h \in Handlers : handler[h].pc = "idle" /\ handler[h].left = {}
  BY IdleTypes DEF Init
<1>4. /\ api \in [pc: {"idle", "publish", "revert"}, rows: SUBSET Recipients]
      /\ api.pc = "idle"
  BY IdleTypes DEF Init
<1>5. Shape
  BY <1>3, <1>4 DEF Init, Shape
<1>6. sends \in [Recipients -> Nat] /\ accepted \subseteq Recipients
      /\ replays \subseteq Seq(Recipients) /\ opts \in Options /\ shutdown \in BOOLEAN
  BY DEF Init
<1>7. VarTypes
  BY <1>1, <1>2, <1>3, <1>4, <1>6 DEF VarTypes
<1> QED BY <1>5, <1>7 DEF TypeInv

LEMMA TypeStep == TypeInv /\ [Next]_vars => TypeInv'
<1> SUFFICES ASSUME TypeInv, [Next]_vars PROVE TypeInv'
  OBVIOUS
<1>1. CASE UNCHANGED vars
  BY <1>1 DEF vars, TypeInv, VarTypes, Shape
<1>2. CASE Shutdown
  <2>1. budget' \in [BudgetKinds -> Nat]
    BY <1>2, Kinds, SpendType DEF Shutdown, TypeInv
  <2> QED BY <1>2, <2>1 DEF Shutdown, TypeInv, VarTypes, Shape
<1>3. CASE Restart
  <2>1. budget' \in [BudgetKinds -> Nat]
    BY <1>3, Kinds, SpendType DEF Restart, TypeInv
  <2>2. /\ handler' \in [Handlers -> Handler] /\ task' \in [Tasks -> Task]
        /\ \A h \in Handlers : handler'[h].pc = "idle" /\ handler'[h].left = {}
    BY <1>3, IdleTypes DEF Restart
  <2>3. /\ api' \in [pc: {"idle", "publish", "revert"}, rows: SUBSET Recipients]
        /\ api'.pc = "idle"
    BY <1>3, IdleTypes DEF Restart
  <2>4. Shape'
    BY <1>3, <2>2, <2>3 DEF Restart, TypeInv, Shape
  <2>5. VarTypes'
    BY <1>3, <2>1, <2>2, <2>3 DEF Restart, TypeInv, VarTypes
  <2> QED BY <2>4, <2>5 DEF TypeInv
<1>4. CASE Next /\ ~Shutdown /\ ~Restart
  BY <1>4, TypeDeliver, TypeGroup, TypeTaskStep, TypeApi DEF Next, ApiStep
<1> QED BY <1>1, <1>2, <1>3, <1>4

\* A group leaves its join only when its tasks have returned, and they are
\* spawned on the way there.
LEMMA TasksStay == TypeInv /\ TasksAreJoined /\ [Next]_vars => TasksAreJoined'
<1> SUFFICES ASSUME TypeInv, TasksAreJoined, [Next]_vars PROVE TasksAreJoined'
  OBVIOUS
<1>1. handler \in [Handlers -> Handler] /\ task \in [Tasks -> Task]
  BY DEF TypeInv, VarTypes
<1>2. \A t \in Tasks : t[1] \in Handlers
  BY DEF Tasks
\* One group moves, from anywhere but its join.
<1>3. ASSUME NEW h \in Handlers, handler[h].pc # "join", UNCHANGED task,
             \A g \in Handlers : g # h => handler'[g] = handler[g]
      PROVE  TasksAreJoined'
  BY <1>2, <1>3 DEF TasksAreJoined
<1>4. ASSUME NEW h \in Handlers, Deliver(h) \/ GroupStep(h) PROVE TasksAreJoined'
  <2>1. CASE Fallback(h)
    <3>1. handler'[h].pc = "join" /\ \A g \in Handlers : g # h => handler'[g] = handler[g]
      BY <1>1, <2>1 DEF Fallback, Goto, Handler
    <3>2. \A t \in Tasks : t[1] # h => task'[t] = task[t]
      BY <2>1 DEF Fallback
    <3> QED BY <1>2, <3>1, <3>2 DEF TasksAreJoined
  <2>2. CASE Join(h)
    <3>1. \A g \in Handlers : g # h => handler'[g] = handler[g]
      BY <1>1, <2>2 DEF Join, Return
    <3>2. \A t \in Tasks : IF t[1] = h THEN task'[t].pc = "none" ELSE task'[t] = task[t]
      BY <2>2 DEF Join, NoTask
    <3> QED BY <1>2, <3>1, <3>2 DEF TasksAreJoined
  <2>3. CASE Deliver(h)
    <3>1. handler[h].pc # "join"
      BY <2>3 DEF Deliver, Idle
    <3>2. UNCHANGED task /\ \A g \in Handlers : g # h => handler'[g] = handler[g]
      BY <1>1, <2>3 DEF Deliver, aroundGroup
    <3> QED BY <1>3, <3>1, <3>2
  <2>4. CASE Check(h) \/ Insert(h) \/ Filter(h) \/ Token(h)
    <3>1. handler[h].pc # "join" /\ UNCHANGED task
      BY <2>4 DEF Check, Insert, Filter, Token, aroundGroup
    <3>2. \A g \in Handlers : g # h => handler'[g] = handler[g]
      BY <1>1, <2>4 DEF Check, Insert, Filter, Token, Goto, FailWith, Return, Advance
    <3> QED BY <1>3, <3>1, <3>2
  <2>5. CASE Send(h) \/ RecordSent(h) \/ Fail(h) \/ Backoff(h)
    <3>1. handler[h].pc # "join" /\ UNCHANGED task
      BY <2>5 DEF Send, RecordSent, Fail, Backoff, aroundGroup
    <3>2. \A g \in Handlers : g # h => handler'[g] = handler[g]
      BY <1>1, <2>5 DEF Send, RecordSent, Fail, Backoff, Goto, FailWith, Return, Advance
    <3> QED BY <1>3, <3>1, <3>2
  <2> QED BY <1>4, <2>1, <2>2, <2>3, <2>4, <2>5 DEF GroupStep
<1>5. ASSUME NEW u \in Tasks, TaskStep(u) PROVE TasksAreJoined'
  <2>1. task[u].pc # "none" /\ UNCHANGED handler
    BY <1>5 DEF TaskStep, TaskCheck, TaskInsert, TaskFail, TaskBackoff, aroundTask
  <2>2. \A t \in Tasks : t # u => task'[t] = task[t]
    BY <1>1, <1>5 DEF TaskStep, TaskCheck, TaskInsert, TaskFail, TaskBackoff, TaskFailsWith
  <2> QED BY <2>1, <2>2 DEF TasksAreJoined
<1>6. CASE Restart
  BY <1>6 DEF Restart, TasksAreJoined, NoTask
<1>7. CASE UNCHANGED <<handler, task>>
  BY <1>7 DEF TasksAreJoined
<1> QED
  BY <1>4, <1>5, <1>6, <1>7
  DEF Next, vars, Shutdown, RetryRecipient, RetryEvent, ResetRows, Republish, Revert, Reap,
      aroundApi

\* TypeOK holds in every behaviour of group mode: no loop over rows runs past
\* its list and no fallback task outside its group's permit, whatever the
\* addresses, faults and replays.
THEOREM GroupTypeCorrect == Spec => []TypeOK
<1>1. Init => TasksAreJoined
  BY DEF Init, TasksAreJoined, NoTask
<1>2. TypeInv /\ TasksAreJoined => TypeOK
  BY DEF TypeInv, TypeOK
<1> QED BY <1>1, <1>2, TasksStay, TypeInit, TypeStep, PTL DEF Spec

-----------------------------------------------------------------------------
(***************************************************************************)
(* The group mail goes out once.  The argument: the primary's row is the   *)
(* right to send.  A replay's primary has a row already, so only the       *)
(* producer's message can take it; no statement removes a row, so it is    *)
(* taken once, and whoever holds it is alone.                              *)
(***************************************************************************)

\* No row is removed.
RowsStay == \A r \in Recipients : Exists(log, r) => Exists(log', r)

\* A row becomes SENT only where a mail was accepted.
SentIsBacked ==
    \A r \in Recipients : log'[r].status = "SENT" => log[r].status = "SENT" \/ r \in accepted

\* g enters no place the invariant speaks of, or was there with its message.
StaysOut(g) ==
    /\ Holding(g)' => Holding(g) /\ handler'[g].to = handler[g].to
    /\ handler'[g].pc \in {"fallback", "join"} =>
           handler[g].pc \in {"fallback", "join"} /\ handler'[g].to = handler[g].to
    /\ handler'[g].pc = "mark" =>
           /\ handler[g].pc = "mark" /\ handler'[g].to = handler[g].to
           /\ handler'[g].left \subseteq handler[g].left

\* What is replayed, now or later, has rows.
RequestsHaveRows ==
    /\ \A s \in replays' : s \in replays \/ Exists(log', s[1])
    /\ api'.pc # "idle" => \A r \in api'.rows : Exists(log', r)

\* The steps that take no row and send nothing.
LEMMA QuietStep ==
    ASSUME TypeInv, GroupInv, UNCHANGED <<opts, sends, accepted>>,
           RowsStay, SentIsBacked, RequestsHaveRows,
           \A g \in Handlers : StaysOut(g),
           \A t \in Tasks : task'[t].pc # "none" => Exists(log', t[2])
    PROVE  GroupInv'
<1>1. To[1] \in Recipients /\ \A s \in replays : s[1] \in Recipients
  BY ToFact DEF TypeInv, VarTypes, Shape
<1>2. ReplayHasRows'
  BY <1>1 DEF GroupInv, ReplayHasRows, RequestsHaveRows, RowsStay
<1>3. HolderIsAlone'
  BY <1>1 DEF GroupInv, HolderIsAlone, StaysOut, RowsStay
<1>4. MailedHasRow'
  BY <1>1 DEF GroupInv, MailedHasRow, RowsStay
<1>5. BatchHasRows'
  <2> SUFFICES ASSUME NEW h \in Handlers
               PROVE  /\ /\ opts'.individual
                         /\ handler'[h].pc \in {"filter", "token", "send", "fallback", "join"}
                         => \A r \in Members(handler'[h].to) : Exists(log', r)
                      /\ handler'[h].pc \in {"fallback", "join"} => opts'.individual
    BY DEF BatchHasRows
  <2>1. handler'[h].pc \in {"filter", "token", "send", "fallback", "join"} =>
          /\ handler[h].pc \in {"filter", "token", "send", "fallback", "join"}
          /\ handler'[h].to = handler[h].to
    BY DEF StaysOut, Holding
  <2>2. handler[h].pc \in {"filter", "token", "send", "fallback", "join"} =>
          Members(handler[h].to) \subseteq Recipients
    BY WorkFact
  <2>3. handler'[h].pc \in {"fallback", "join"} => handler[h].pc \in {"fallback", "join"}
    BY DEF StaysOut
  <2> QED BY <2>1, <2>2, <2>3 DEF GroupInv, BatchHasRows, RowsStay
<1>6. FallbackFindsRow'
  BY DEF FallbackFindsRow
<1>7. GroupAtMostOnce'
  BY DEF GroupInv, GroupAtMostOnce
<1>8. MarkingWasAccepted'
  <2> SUFFICES ASSUME NEW h \in Handlers, handler'[h].pc = "mark",
                      NEW i \in handler'[h].left
               PROVE  handler'[h].to[i] \in accepted
    BY DEF MarkingWasAccepted, At
  <2>1. handler[h].pc = "mark" /\ handler'[h].to = handler[h].to /\ i \in handler[h].left
    BY DEF StaysOut
  <2> QED BY <2>1 DEF GroupInv, MarkingWasAccepted, At
<1>9. SentMeansAccepted'
  BY DEF GroupInv, SentMeansAccepted, SentIsBacked
<1> QED BY <1>2, <1>3, <1>4, <1>5, <1>6, <1>7, <1>8, <1>9 DEF GroupInv

\* The same for a step of handler h, of which only h itself is to be shown.
LEMMA QuietGroupStep ==
    ASSUME TypeInv, GroupInv, NEW h \in Handlers, GroupStep(h),
           UNCHANGED <<sends, accepted>>, RowsStay, SentIsBacked, StaysOut(h),
           \A t \in Tasks : task'[t].pc # "none" => task[t].pc # "none" \/ Exists(log', t[2])
    PROVE  GroupInv'
<1>1. Moves(h) /\ UNCHANGED <<opts, api, replays>>
  BY TypeGroup
<1>2. \A g \in Handlers : StaysOut(g)
  BY <1>1 DEF Moves, StaysOut, Holding
<1>3. RequestsHaveRows
  <2>1. api.pc # "idle" => api.rows \subseteq Recipients
    BY DEF TypeInv, VarTypes
  <2> QED BY <1>1, <2>1 DEF GroupInv, ReplayHasRows, RequestsHaveRows, RowsStay
<1>4. \A t \in Tasks : task'[t].pc # "none" => Exists(log', t[2])
  <2>1. \A t \in Tasks : t[2] \in Recipients
    BY DEF Tasks
  <2> QED BY <2>1 DEF GroupInv, FallbackFindsRow, RowsStay
<1> QED BY <1>1, <1>2, <1>3, <1>4, QuietStep

\* The insert that succeeds takes the primary's row.
LEMMA ClaimStep ==
    ASSUME TypeInv, GroupInv, NEW h \in Handlers, Insert(h),
           ~Exists(log, Primary(h)), log' = InsertPendingBatch(log, Tracked(h)),
           handler'[h].pc = "filter", handler'[h].to = handler[h].to
    PROVE  GroupInv'
<1>1. GroupStep(h) /\ handler[h].pc = "insert" /\ UNCHANGED <<task, sends, accepted>>
  BY DEF GroupStep, Insert, aroundGroup
<1>2. Moves(h) /\ UNCHANGED <<opts, api, replays>>
  BY <1>1, TypeGroup
<1>3. /\ Primary(h) \in Recipients /\ Members(handler[h].to) \subseteq Recipients
      /\ Tracked(h) \subseteq Recipients /\ Primary(h) \in Tracked(h)
  BY <1>1, WorkFact DEF Tracked
<1>4. handler[h].to = To /\ Primary(h) = To[1]
  <2>1. handler[h].to \in {To} \cup replays
    BY <1>1 DEF TypeInv, Shape
  <2> QED BY <2>1 DEF GroupInv, ReplayHasRows, Primary
<1>5. log \in [Recipients -> Row]
  BY DEF TypeInv, VarTypes
<1>6. RowsStay /\ \A r \in Tracked(h) : Exists(log', r)
  BY <1>3, <1>5, InsertPendingBatchFact DEF RowsStay, Keeps
<1>7. SentIsBacked
  BY <1>3, <1>5, InsertPendingBatchFact DEF SentIsBacked
<1>8. \A g \in Handlers : ~Holding(g)
  BY <1>4 DEF GroupInv, HolderIsAlone
<1>9. \A r \in Recipients : sends[r] = 0
  BY <1>4 DEF GroupInv, MailedHasRow
<1>10. \A g \in Handlers : g # h => handler'[g] = handler[g]
  BY <1>2 DEF Moves
<1>11. ReplayHasRows'
  <2>1. \A s \in replays : s[1] \in Recipients
    BY DEF TypeInv, VarTypes, Shape
  <2>2. api.pc # "idle" => api.rows \subseteq Recipients
    BY DEF TypeInv, VarTypes
  <2> QED BY <1>2, <1>6, <2>1, <2>2 DEF GroupInv, ReplayHasRows, RowsStay
<1>12. HolderIsAlone'
  <2> SUFFICES ASSUME NEW g \in Handlers, Holding(g)'
               PROVE  /\ handler'[g].to = To /\ Exists(log', To[1])
                      /\ \A r \in Recipients : sends'[r] = 0
                      /\ \A f \in Handlers : Holding(f)' => f = g
    BY DEF HolderIsAlone
  <2>1. \A f \in Handlers : Holding(f)' => f = h
    BY <1>8, <1>10 DEF Holding
  <2>2. g = h
    BY <2>1
  <2> QED BY <1>1, <1>3, <1>4, <1>6, <1>9, <2>1, <2>2
<1>13. MailedHasRow'
  BY <1>1, <1>9 DEF MailedHasRow
<1>14. BatchHasRows'
  <2> SUFFICES ASSUME NEW g \in Handlers
               PROVE  /\ /\ opts.individual
                         /\ handler'[g].pc \in {"filter", "token", "send", "fallback", "join"}
                         => \A r \in Members(handler'[g].to) : Exists(log', r)
                      /\ handler'[g].pc \in {"fallback", "join"} => opts.individual
    BY <1>2 DEF BatchHasRows
  <2>1. CASE g = h
    BY <1>6, <2>1 DEF Tracked
  <2>2. CASE g # h
    <3>1. handler'[g] = handler[g]
      BY <1>10, <2>2
    <3>2. handler[g].pc # "idle" => Members(handler[g].to) \subseteq Recipients
      BY WorkFact
    <3> QED BY <1>6, <3>1, <3>2 DEF GroupInv, BatchHasRows, RowsStay
  <2> QED BY <2>1, <2>2
<1>15. FallbackFindsRow'
  <2>1. \A t \in Tasks : t[2] \in Recipients
    BY DEF Tasks
  <2> QED BY <1>1, <1>6, <2>1 DEF GroupInv, FallbackFindsRow, RowsStay
<1>16. GroupAtMostOnce'
  BY <1>1 DEF GroupInv, GroupAtMostOnce
<1>17. MarkingWasAccepted'
  <2> SUFFICES ASSUME NEW g \in Handlers, handler'[g].pc = "mark",
                      NEW i \in handler'[g].left
               PROVE  handler'[g].to[i] \in accepted
    BY <1>1 DEF MarkingWasAccepted, At
  <2>1. handler'[g] = handler[g]
    BY <1>10
  <2> QED BY <2>1 DEF GroupInv, MarkingWasAccepted, At
<1>18. SentMeansAccepted'
  BY <1>1, <1>7 DEF GroupInv, SentMeansAccepted, SentIsBacked
<1> QED BY <1>11, <1>12, <1>13, <1>14, <1>15, <1>16, <1>17, <1>18 DEF GroupInv

\* The call of the sender, by the only holder: nothing was mailed before.
LEMMA SendStep ==
    ASSUME TypeInv, GroupInv, NEW h \in Handlers, Send(h)
    PROVE  GroupInv'
<1>1. /\ GroupStep(h) /\ handler[h].pc = "send" /\ Holding(h)
      /\ UNCHANGED <<log, task>>
  BY DEF GroupStep, Send, aroundGroup, Holding
<1>2. Moves(h) /\ UNCHANGED <<opts, api, replays>>
  BY <1>1, TypeGroup
<1>3. /\ Exists(log, To[1]) /\ \A r \in Recipients : sends[r] = 0
      /\ \A g \in Handlers : Holding(g) => g = h
  BY <1>1 DEF GroupInv, HolderIsAlone
<1>4. /\ accepted' \in {accepted, accepted \cup Envelope(h)}
      /\ \/ /\ handler'[h].pc = "mark" /\ handler'[h].to = handler[h].to
            /\ handler'[h].left = SendTargets(h)
            /\ accepted' = accepted \cup Envelope(h)
         \/ /\ handler'[h].pc = "fallback" /\ handler'[h].to = handler[h].to
            /\ opts.individual
         \/ handler'[h].pc = "fail"
  BY SendMoves
<1>5. \A g \in Handlers : g # h => handler'[g] = handler[g]
  BY <1>2 DEF Moves
<1>6. \A g \in Handlers : ~Holding(g)'
  BY <1>3, <1>4, <1>5 DEF Holding
<1>7. \A r \in Recipients : sends'[r] <= 1
  BY <1>3 DEF Send
<1>8. ReplayHasRows'
  BY <1>1, <1>2 DEF GroupInv, ReplayHasRows
<1>9. HolderIsAlone'
  BY <1>6 DEF HolderIsAlone
<1>10. MailedHasRow'
  BY <1>1, <1>3 DEF MailedHasRow
<1>11. BatchHasRows'
  <2> SUFFICES ASSUME NEW g \in Handlers
               PROVE  /\ /\ opts.individual
                         /\ handler'[g].pc \in {"filter", "token", "send", "fallback", "join"}
                         => \A r \in Members(handler'[g].to) : Exists(log, r)
                      /\ handler'[g].pc \in {"fallback", "join"} => opts.individual
    BY <1>1, <1>2 DEF BatchHasRows
  <2>1. CASE g = h
    BY <1>1, <1>4, <2>1 DEF GroupInv, BatchHasRows
  <2>2. CASE g # h
    BY <1>5, <2>2 DEF GroupInv, BatchHasRows
  <2> QED BY <2>1, <2>2
<1>12. FallbackFindsRow'
  BY <1>1 DEF GroupInv, FallbackFindsRow
<1>13. GroupAtMostOnce'
  BY <1>7 DEF GroupAtMostOnce
<1>14. MarkingWasAccepted'
  <2> SUFFICES ASSUME NEW g \in Handlers, handler'[g].pc = "mark",
                      NEW i \in handler'[g].left
               PROVE  handler'[g].to[i] \in accepted'
    BY DEF MarkingWasAccepted, At
  <2>1. CASE g = h
    <3>1. /\ handler'[g].to = handler[h].to /\ i \in SendTargets(h)
          /\ accepted' = accepted \cup Envelope(h)
      BY <1>4, <2>1
    <3>2. handler[h].to[i] \in Envelope(h)
      BY <1>1, <3>1, EnvelopeFact DEF At
    <3> QED BY <3>1, <3>2
  <2>2. CASE g # h
    <3>1. handler'[g] = handler[g]
      BY <1>5, <2>2
    <3> QED BY <1>4, <3>1 DEF GroupInv, MarkingWasAccepted, At
  <2> QED BY <2>1, <2>2
<1>15. SentMeansAccepted'
  BY <1>1, <1>4 DEF GroupInv, SentMeansAccepted
<1> QED BY <1>8, <1>9, <1>10, <1>11, <1>12, <1>13, <1>14, <1>15 DEF GroupInv

\* A status write of a handler or a task keeps the rows and writes no SENT.
LEMMA FailedWrite ==
    ASSUME TypeInv, NEW r \in Recipients, NEW x \in BOOLEAN,
           log' \in {log, MarkFailed(log, r, x), MarkBlocked(log, r)}
    PROVE  RowsStay /\ SentIsBacked
<1>1. log \in [Recipients -> Row]
  BY DEF TypeInv, VarTypes
<1>2. CASE log' = log
  BY <1>2 DEF RowsStay, SentIsBacked
<1>3. CASE log' = MarkFailed(log, r, x)
  <2>1. Keeps(Recipients, log, MarkFailed(log, r, x))
    BY <1>1, MarkFact
  <2>2. SentIsBacked
    BY <1>1, <1>3, MarkSentFact DEF SentIsBacked
  <2> QED BY <1>3, <2>1, <2>2 DEF Keeps, RowsStay
<1>4. CASE log' = MarkBlocked(log, r)
  <2>1. Keeps(Recipients, log, MarkBlocked(log, r))
    BY <1>1, MarkFact
  <2>2. SentIsBacked
    BY <1>1, <1>4, MarkSentFact DEF SentIsBacked
  <2> QED BY <1>4, <2>1, <2>2 DEF Keeps, RowsStay
<1> QED BY <1>2, <1>3, <1>4

LEMMA GroupStepSafe ==
    ASSUME TypeInv, GroupInv, NEW h \in Handlers, GroupStep(h)
    PROVE  GroupInv'
<1>1. handler[h].pc # "idle" /\ Moves(h)
  BY TypeGroup
<1>2. Primary(h) \in Recipients /\ log \in [Recipients -> Row]
  BY <1>1, WorkFact DEF TypeInv, VarTypes
<1>3. "permanent" \in Errors /\ "transient" \in Errors
  BY DEF Errors
<1>4. ASSUME UNCHANGED log PROVE RowsStay /\ SentIsBacked
  BY <1>4 DEF RowsStay, SentIsBacked
<1>5. CASE Check(h)
  <2>1. StaysOut(h)
    BY <1>3, <1>5, GotoMoves, FailWithMoves DEF Check, StaysOut, Holding
  <2> QED BY <1>4, <1>5, <2>1, QuietGroupStep DEF Check, aroundGroup
<1>6. CASE Insert(h)
  <2>1. CASE /\ ~Exists(log, Primary(h))
             /\ log' = InsertPendingBatch(log, Tracked(h))
             /\ handler'[h].pc = "filter" /\ handler'[h].to = handler[h].to
    BY <1>6, <2>1, ClaimStep
  <2>2. CASE handler'[h].pc \in {"idle", "check", "fail"}
    <3>1. StaysOut(h)
      BY <2>2 DEF StaysOut, Holding
    <3>2. Tracked(h) \subseteq Recipients /\ Keeps(Recipients, log, log')
          /\ log' \in {log, InsertPendingBatch(log, Tracked(h))}
      BY <1>1, <1>6, WorkFact, InsertMoves
    <3>3. RowsStay
      BY <3>2 DEF Keeps, RowsStay
    <3>4. SentIsBacked
      BY <1>2, <1>4, <3>2, InsertPendingBatchFact DEF SentIsBacked
    <3> QED BY <1>6, <3>1, <3>3, <3>4, QuietGroupStep DEF Insert, aroundGroup
  <2> QED BY <1>6, <2>1, <2>2, InsertMoves
<1>7. CASE Filter(h)
  <2>1. PICK r \in Recipients : log' \in {log, MarkBlocked(log, r)}
    BY <1>7, FilterMoves
  <2>2. RowsStay /\ SentIsBacked
    BY <2>1, FailedWrite
  <2>3. StaysOut(h)
    BY <1>7, FilterMoves DEF Filter, StaysOut, Holding
  <2> QED BY <1>7, <2>2, <2>3, QuietGroupStep DEF Filter, aroundGroup
<1>8. CASE Token(h)
  <2>1. StaysOut(h)
    BY <1>3, <1>8, GotoMoves, FailWithMoves DEF Token, StaysOut, Holding
  <2> QED BY <1>4, <1>8, <2>1, QuietGroupStep DEF Token, aroundGroup
<1>9. CASE Send(h)
  BY <1>9, SendStep
<1>10. CASE RecordSent(h)
  <2>1. PICK i \in handler[h].left :
          /\ handler[h].to[i] \in Recipients
          /\ log' \in {log, MarkSent(log, handler[h].to[i])}
    BY <1>10, RecordMoves
  <2>2. handler[h].to[i] \in accepted
    BY <1>10 DEF RecordSent, GroupInv, MarkingWasAccepted, At
  <2>3. RowsStay
    <3>1. Keeps(Recipients, log, MarkSent(log, handler[h].to[i]))
      BY <1>2, <2>1, MarkFact
    <3> QED BY <2>1, <3>1 DEF Keeps, RowsStay
  <2>4. SentIsBacked
    <3>1. TRUE \in BOOLEAN
      OBVIOUS
    <3>2. \A j \in Recipients : MarkSent(log, handler[h].to[i])[j].status = "SENT" =>
            log[j].status = "SENT" \/ j = handler[h].to[i]
      BY <1>2, <2>1, <3>1, MarkSentFact
    <3>3. CASE log' = log
      BY <1>4, <3>3
    <3>4. CASE log' = MarkSent(log, handler[h].to[i])
      BY <2>2, <3>2, <3>4 DEF SentIsBacked
    <3> QED BY <2>1, <3>3, <3>4
  <2>5. StaysOut(h)
    BY <1>10, RecordMoves DEF RecordSent, StaysOut, Holding
  <2> QED BY <1>10, <2>3, <2>4, <2>5, QuietGroupStep DEF RecordSent, aroundGroup
<1>11. CASE Fail(h)
  <2>1. GivesUp(h) \in BOOLEAN /\ log' \in {log, MarkFailed(log, Primary(h), GivesUp(h))}
    BY <1>11 DEF GivesUp, Fail, DroppedResultWrite
  <2>2. RowsStay /\ SentIsBacked
    BY <1>2, <2>1, FailedWrite
  <2>3. StaysOut(h)
    BY <1>11, FailMoves DEF StaysOut, Holding
  <2> QED BY <1>11, <2>2, <2>3, QuietGroupStep DEF Fail, aroundGroup
<1>12. CASE Backoff(h)
  <2>1. log' \in {log, MarkFailed(log, Primary(h), TRUE)}
    BY <1>12 DEF Backoff, DroppedResultWrite
  <2>2. RowsStay /\ SentIsBacked
    BY <1>2, <2>1, FailedWrite
  <2>3. StaysOut(h)
    BY <1>12, GotoMoves, ReturnMoves DEF Backoff, StaysOut, Holding
  <2> QED BY <1>12, <2>2, <2>3, QuietGroupStep DEF Backoff, aroundGroup
<1>13. CASE Fallback(h)
  <2>1. handler[h].pc = "fallback" /\ UNCHANGED <<log, sends, accepted>>
    BY <1>13 DEF Fallback
  <2>2. \A r \in Members(handler[h].to) : Exists(log', r)
    BY <2>1 DEF GroupInv, BatchHasRows
  <2>3. StaysOut(h)
    BY <1>13, <2>1, FallbackMoves DEF StaysOut, Holding
  <2>4. \A t \in Tasks : task'[t].pc # "none" => task[t].pc # "none" \/ Exists(log', t[2])
    BY <1>13, <2>2, FallbackMoves
  <2> QED BY <1>4, <2>1, <2>3, <2>4, QuietGroupStep
<1>14. CASE Join(h)
  <2>1. UNCHANGED <<log, sends, accepted>>
    BY <1>14 DEF Join
  <2>2. StaysOut(h)
    BY <1>14, ReturnMoves DEF Join, StaysOut, Holding
  <2>3. \A t \in Tasks : task'[t].pc # "none" => task[t].pc # "none"
    BY <1>14, IdleTypes DEF Join
  <2> QED BY <1>4, <2>1, <2>2, <2>3, QuietGroupStep
<1> QED BY <1>5, <1>6, <1>7, <1>8, <1>9, <1>10, <1>11, <1>12, <1>13, <1>14
        DEF GroupStep

\* The same for a step no handler takes.
LEMMA OutsideStep ==
    ASSUME TypeInv, GroupInv, UNCHANGED <<opts, handler, sends, accepted>>,
           RowsStay, SentIsBacked, RequestsHaveRows,
           \A t \in Tasks : task'[t].pc # "none" => task[t].pc # "none"
    PROVE  GroupInv'
<1>1. \A g \in Handlers : StaysOut(g)
  BY DEF StaysOut, Holding
<1>2. \A t \in Tasks : t[2] \in Recipients
  BY DEF Tasks
<1>3. \A t \in Tasks : task'[t].pc # "none" => Exists(log', t[2])
  BY <1>2 DEF GroupInv, FallbackFindsRow, RowsStay
<1> QED BY <1>1, <1>3, QuietStep

LEMMA SameRequests ==
    ASSUME TypeInv, GroupInv, UNCHANGED replays, RowsStay, api' = api \/ api'.pc = "idle"
    PROVE  RequestsHaveRows
<1>1. api.pc # "idle" => api.rows \subseteq Recipients
  BY DEF TypeInv, VarTypes
<1> QED BY <1>1 DEF GroupInv, ReplayHasRows, RequestsHaveRows, RowsStay

LEMMA TaskStepSafe ==
    ASSUME TypeInv, GroupInv, NEW t \in Tasks, TaskStep(t)
    PROVE  GroupInv'
<1>1. /\ UNCHANGED aroundTask /\ task[t].pc # "none"
      /\ \A u \in Tasks : u # t => task'[u] = task[u]
  BY TypeTaskStep
<1>2. t[2] \in Recipients
  BY DEF Tasks
<1>3. RowsStay /\ SentIsBacked
  <2>1. CASE log' = log
    BY <2>1 DEF RowsStay, SentIsBacked
  <2>2. CASE \E x \in BOOLEAN : log' = MarkFailed(log, t[2], x)
    BY <1>2, <2>2, FailedWrite
  <2> QED BY <2>1, <2>2, TypeTaskStep
<1>4. RequestsHaveRows
  BY <1>1, <1>3, SameRequests DEF aroundTask
<1>5. UNCHANGED <<opts, handler, sends, accepted>>
  BY <1>1 DEF aroundTask
<1> QED BY <1>1, <1>3, <1>4, <1>5, OutsideStep

LEMMA ApiStepSafe ==
    ASSUME TypeInv, GroupInv, ApiStep
    PROVE  GroupInv'
<1>1. UNCHANGED aroundApi
  BY TypeApi
<1>2. /\ VarTypes /\ log \in [Recipients -> Row]
      /\ api \in [pc: {"idle", "publish", "revert"}, rows: SUBSET Recipients]
  BY DEF TypeInv, VarTypes
<1>3. ASSUME RowsStay, SentIsBacked, RequestsHaveRows PROVE GroupInv'
  BY <1>1, <1>3, OutsideStep DEF aroundApi
<1>4. CASE Republish
  <2>1. UNCHANGED log /\ api.pc = "publish" /\ api.rows # {} /\ api.rows \in SUBSET Recipients
    BY <1>2, <1>4 DEF Republish, TypeInv, Shape
  <2>2. RowsStay /\ SentIsBacked
    BY <2>1 DEF RowsStay, SentIsBacked
  <2>3. \A r \in api.rows : Exists(log', r)
    BY <2>1 DEF GroupInv, ReplayHasRows
  <2>4. \A s \in replays' : s \in replays \/ Exists(log', s[1])
    BY <1>4, <2>1, <2>3, OrderingFact DEF Republish
  <2>5. api'.pc = "idle" \/ api'.rows = api.rows
    BY <1>2, <1>4, IdleTypes DEF Republish
  <2> QED BY <1>3, <2>2, <2>3, <2>4, <2>5 DEF RequestsHaveRows
<1>5. CASE Revert
  <2>1. log' \in {log, RevertToFailed(log, api.rows)} /\ api'.pc = "idle" /\ UNCHANGED replays
    BY <1>5, IdleTypes DEF Revert, DroppedResultWrite
  <2>2. RowsStay
    BY <1>2, <2>1, ResetFact DEF Keeps, RowsStay
  <2>3. SentIsBacked
    BY <1>2, <2>1, ResetFact DEF SentIsBacked
  <2> QED BY <1>3, <2>1, <2>2, <2>3, SameRequests
<1>6. ASSUME NEW K \in SUBSET Recipients, Reap(K) PROVE GroupInv'
  <2>1. log' = RevertToFailed(log, K) /\ UNCHANGED <<api, replays>>
    BY <1>6 DEF Reap, ReapStalePending
  <2>2. RowsStay
    BY <1>2, <2>1, ResetFact DEF Keeps, RowsStay
  <2>3. SentIsBacked
    BY <1>2, <2>1, ResetFact DEF SentIsBacked
  <2> QED BY <1>3, <2>1, <2>2, <2>3, SameRequests
<1>7. CASE (\E r \in Recipients : RetryRecipient(r)) \/ RetryEvent
  <2>1. PICK K \in SUBSET Recipients :
          K # {} /\ ResetRows(K) /\ \A r \in K : Retryable(log, r)
    BY <1>2, <1>7, ApiResets
  <2>2. /\ log' = ResetToPending(log, K) /\ UNCHANGED replays
        /\ api' = [pc |-> "publish", rows |-> K]
    BY <2>1 DEF ResetRows
  <2>3. RowsStay
    BY <1>2, <2>2, ResetFact DEF Keeps, RowsStay
  <2>4. SentIsBacked
    BY <1>2, <2>2, ResetFact DEF SentIsBacked
  <2>5. \A r \in K : Exists(log', r)
    BY <2>1, <2>3 DEF Retryable, Exists, RowsStay
  <2>6. RequestsHaveRows
    BY <2>2, <2>5 DEF RequestsHaveRows
  <2> QED BY <1>3, <2>3, <2>4, <2>6
<1> QED BY <1>4, <1>5, <1>6, <1>7 DEF ApiStep

LEMMA GroupInvStep == TypeInv /\ GroupInv /\ [Next]_vars => GroupInv'
<1> SUFFICES ASSUME TypeInv, GroupInv, [Next]_vars PROVE GroupInv'
  OBVIOUS
<1>1. ASSUME UNCHANGED log PROVE RowsStay /\ SentIsBacked
  BY <1>1 DEF RowsStay, SentIsBacked
<1>2. CASE UNCHANGED vars
  BY <1>1, <1>2, OutsideStep, SameRequests DEF vars
<1>3. CASE Shutdown
  BY <1>1, <1>3, OutsideStep, SameRequests DEF Shutdown
<1>4. CASE Restart
  <2>1. UNCHANGED <<opts, log, replays, sends, accepted>> /\ api'.pc = "idle"
    BY <1>4, IdleTypes DEF Restart
  <2>2. RequestsHaveRows
    BY <1>1, <2>1, SameRequests
  <2>3. \A g \in Handlers : StaysOut(g)
    BY <1>4, IdleTypes DEF Restart, StaysOut, Holding
  <2>4. \A t \in Tasks : task'[t].pc = "none"
    BY <1>4, IdleTypes DEF Restart
  <2> QED BY <1>1, <2>1, <2>2, <2>3, <2>4, QuietStep
<1>5. ASSUME NEW h \in Handlers, Deliver(h) PROVE GroupInv'
  <2>1. UNCHANGED <<opts, log, task, api, replays, sends, accepted>>
    BY <1>5 DEF Deliver, aroundGroup
  <2>2. \A g \in Handlers : StaysOut(g)
    BY <1>5, TypeDeliver DEF StaysOut, Holding
  <2>3. RequestsHaveRows
    BY <1>1, <2>1, SameRequests
  <2>4. \A t \in Tasks : task'[t].pc # "none" => Exists(log', t[2])
    BY <2>1 DEF GroupInv, FallbackFindsRow
  <2> QED BY <1>1, <2>1, <2>2, <2>3, <2>4, QuietStep
<1>6. CASE Next /\ ~Shutdown /\ ~Restart
  BY <1>5, <1>6, GroupStepSafe, TaskStepSafe, ApiStepSafe DEF Next, ApiStep
<1> QED BY <1>2, <1>3, <1>4, <1>6

LEMMA GroupInvInit == Init => GroupInv
<1> SUFFICES ASSUME Init PROVE GroupInv
  OBVIOUS
<1>1. \A h \in Handlers : handler[h].pc = "idle"
  BY IdleTypes DEF Init
<1>2. \A t \in Tasks : task[t].pc = "none"
  BY IdleTypes DEF Init
<1>3. \A r \in Recipients : log[r].status = "NONE" /\ sends[r] = 0
  BY DEF Init, NoRow
<1>4. api.pc = "idle" /\ replays = {}
  BY IdleTypes DEF Init
<1> QED BY <1>1, <1>2, <1>3, <1>4 DEF GroupInv, ReplayHasRows, HolderIsAlone, Holding,
           MailedHasRow, BatchHasRows, FallbackFindsRow, GroupAtMostOnce,
           MarkingWasAccepted, SentMeansAccepted

\* The inductive invariant holds in every behaviour of group mode.
THEOREM GroupSafe == Spec => []GroupInv
BY TypeInit, TypeStep, GroupInvInit, GroupInvStep, PTL DEF Spec

\* No TO address is on two mails, in either retry mode, for any TO list,
\* any number of redeliveries, restarts, fallbacks and operator replays.
THEOREM GroupMailsOnce == Spec => []GroupAtMostOnce
<1>1. GroupInv => GroupAtMostOnce
  BY DEF GroupInv
<1> QED BY <1>1, GroupSafe, PTL

\* SENT in the log of a group always has an accepted mail behind it.
THEOREM GroupSentIsTrue == Spec => []SentMeansAccepted
<1>1. GroupInv => SentMeansAccepted
  BY DEF GroupInv
<1> QED BY <1>1, GroupSafe, PTL

\* Every task of a fallback finds the row of its recipient, so the code that
\* sends after a successful insert is not reached from a fallback.
THEOREM FallbackIsCovered == Spec => []FallbackFindsRow
<1>1. GroupInv => FallbackFindsRow
  BY DEF GroupInv
<1> QED BY <1>1, GroupSafe, PTL
=============================================================================
