--------------------------- MODULE DeliveryProofs ---------------------------
(***************************************************************************)
(* Proofs about Delivery, for every set of events, recipients and permits, *)
(* every retry limit and every budget of faults.                           *)
(***************************************************************************)
EXTENDS Delivery, NotificationLogProofs, FiniteSetTheorems, TLAPS

-----------------------------------------------------------------------------
(***************************************************************************)
(* Type correctness.                                                       *)
(***************************************************************************)

\* A task that is not idle belongs to a delivery, so its key is a key.
LEMMA KeyType ==
    ASSUME VarTypes, SpawnedHasMessage, NEW t \in Tasks, task[t].pc # "none"
    PROVE  Key(t) \in Keys
BY DEF VarTypes, SpawnedHasMessage, Tasks, Keys, Key, Msgs, Deliveries

\* Requeueing counts finitely many deliveries.
LEMMA RequeuedType == VarTypes => Requeued \in [Msgs -> Nat]
<1> SUFFICES ASSUME VarTypes, NEW m \in Msgs PROVE Requeued[m] \in Nat
  BY DEF Requeued
<1> DEFINE H == {h \in Handlers : handler[h] = [msg |-> m, live |-> TRUE]}
<1>1. Cardinality(H) \in Nat
  <2>1. IsFiniteSet(H)
    BY DeliveryAssumption, FS_Subset DEF DeliveryAssumption
  <2> QED BY <2>1, FS_CardinalityType
<1> QED BY <1>1 DEF Requeued, VarTypes

\* Faults and outside calls only use the budget up.
LEMMA SpendType ==
    ASSUME VarTypes, NEW kind \in BudgetKinds, Spend(kind)
    PROVE  budget' \in [BudgetKinds -> Nat]
BY DEF VarTypes, Spend

\* A status write whose result is dropped keeps the table a table.
LEMMA WriteFact ==
    ASSUME VarTypes, SpawnedHasMessage, NEW t \in Tasks, task[t].pc # "none",
           NEW x \in BOOLEAN,
           NEW new \in {MarkSent(log, Key(t)), MarkBlocked(log, Key(t)),
                        MarkFailed(log, Key(t), x)},
           DroppedResultWrite(t, new)
    PROVE  /\ log' \in {log, new}
           /\ Keeps(Keys, log, log')
           /\ \A j \in Keys : Exists(log', j) => Exists(log, j)
           /\ \A j \in Keys : j # Key(t) => log'[j] = log[j]
           /\ unrecorded' \in SUBSET Keys
           /\ budget' \in [BudgetKinds -> Nat]
<1>1. Key(t) \in Keys
  BY KeyType
<1>2. "dberr" \in BudgetKinds
  BY DEF BudgetKinds
<1>3. log' \in {log, new} /\ unrecorded' \in SUBSET Keys
  BY <1>1 DEF DroppedResultWrite, VarTypes
<1>4. budget' \in [BudgetKinds -> Nat]
  BY <1>2, SpendType DEF DroppedResultWrite, VarTypes
<1>5. log \in [Keys -> Row]
  BY DEF VarTypes
<1>6. CASE log' = new
  BY <1>1, <1>3, <1>4, <1>5, <1>6, MarkFact
<1>7. CASE log' = log
  BY <1>3, <1>4, <1>5, <1>7 DEF Keeps
<1> QED BY <1>3, <1>6, <1>7

\* TypeOK: the types of the variables, and what they need of the running tasks.
TypeInv == VarTypes /\ SpawnedHasMessage

\* The idle values have the types of the variables that hold them.
LEMMA IdleTypes ==
    /\ NoRow \in Row
    /\ NoDelivery \in Deliveries
    /\ NoTask \in Task
    /\ NoTask.pc = "none"
    /\ [NoTask EXCEPT !.pc = "check"] \in Task
    /\ NoRequest \in [pc: {"idle", "publish", "revert"}, keys: SUBSET Keys]
<1>1. NoRow \in Row
  BY DEF NoRow, Row
<1>2. NoDelivery \in Deliveries
  BY DEF Deliveries
<1>3. NoTask \in Task /\ NoTask.pc = "none" /\ [NoTask EXCEPT !.pc = "check"] \in Task
  BY DEF NoTask, Task, PCs
<1>4. NoRequest \in [pc: {"idle", "publish", "revert"}, keys: SUBSET Keys]
  BY DEF NoRequest
<1> QED BY <1>1, <1>2, <1>3, <1>4

LEMMA TypeInit == Init => TypeInv
<1> SUFFICES ASSUME Init PROVE TypeInv
  OBVIOUS
<1>1. SpawnedHasMessage
  BY IdleTypes DEF Init, SpawnedHasMessage
<1>2. budget \in [BudgetKinds -> Nat]
  BY DeliveryAssumption DEF Init, DeliveryAssumption
<1>3. log \in [Keys -> Row] /\ held \in Deliveries
      /\ handler \in [Handlers -> Deliveries] /\ task \in [Tasks -> Task]
  BY IdleTypes DEF Init
<1>4. api \in [pc: {"idle", "publish", "revert"}, keys: SUBSET Keys]
  BY IdleTypes DEF Init
<1>5. /\ ready \in [Msgs -> Nat] /\ ledger \in [Msgs -> Int]
      /\ sends \in [Keys -> Nat]
  BY DEF Init
<1>6. /\ accepted \subseteq Keys /\ settled \subseteq Keys
      /\ unrecorded \subseteq Keys
  BY DEF Init
<1>7. runner \in {"consuming", "draining"} /\ shutdown \in BOOLEAN
  BY DEF Init
<1> QED BY <1>1, <1>2, <1>3, <1>4, <1>5, <1>6, <1>7 DEF TypeInv, VarTypes

\* The steps of the broker, the runner and the process's life.
LEMMA TypeRunner ==
    ASSUME TypeInv, RunnerStep \/ ConnectionLost \/ Crash \/ Shutdown \/ ForcedExit
                    \/ \E m \in Published : Publish(m)
    PROVE  TypeInv'
<1> USE DEF TypeInv, VarTypes, SpawnedHasMessage
<1>1. ASSUME NEW m \in Published, Publish(m) PROVE TypeInv'
  <2>1. "publish" \in BudgetKinds
    BY DEF BudgetKinds
  <2>2. budget' \in [BudgetKinds -> Nat]
    BY <1>1, <2>1, SpendType DEF Publish
  <2>3. m \in Msgs
    BY DeliveryAssumption DEF DeliveryAssumption
  <2> QED BY <1>1, <2>2, <2>3 DEF Publish, Enqueue, deliveryHistory
<1>2. ASSUME NEW m \in Msgs, Receive(m) PROVE TypeInv'
  BY <1>2 DEF Receive, deliveryHistory, Deliveries
<1>3. ASSUME NEW h \in Handlers, Spawn(h) PROVE TypeInv'
  <2>1. held.msg \in Msgs
    BY <1>3 DEF Spawn, Deliveries
  <2>2. NoDelivery \in Deliveries
    BY DEF Deliveries
  <2>3. handler' \in [Handlers -> Deliveries] /\ held' \in Deliveries
    BY <1>3, <2>2 DEF Spawn
  <2>4. task' \in [Tasks -> Task]
    BY <1>3 DEF Spawn, NoTask, Task, PCs
  <2>5. SpawnedHasMessage'
    <3> SUFFICES ASSUME NEW t \in Tasks, task'[t].pc # "none"
                 PROVE  handler'[t[1]].msg \in Msgs
      BY DEF SpawnedHasMessage
    <3>1. t[1] \in Handlers
      BY DEF Tasks
    <3>2. CASE t[1] = h
      BY <1>3, <2>1, <3>2 DEF Spawn
    <3>3. CASE t[1] # h
      BY <1>3, <3>1, <3>3 DEF Spawn
    <3> QED BY <3>2, <3>3
  <2> QED BY <1>3, <2>3, <2>4, <2>5 DEF Spawn, deliveryHistory
<1>4. ASSUME NEW h \in Handlers, Ack(h) PROVE TypeInv'
  <2>1. handler[h].msg \in Msgs
    BY <1>4 DEF Ack, Deliveries
  <2>2. NoDelivery \in Deliveries /\ NoTask \in Task
    BY DEF Deliveries, NoTask, Task, PCs
  <2>3. handler' \in [Handlers -> Deliveries] /\ task' \in [Tasks -> Task]
    BY <1>4, <2>2 DEF Ack, Finish
  <2>4. ledger' \in [Msgs -> Int]
    BY <1>4, <2>1 DEF Ack, Finish
  <2>5. settled' \in SUBSET Keys
    BY <1>4, <2>1 DEF Ack, Finish, Keys, Msgs
  <2>6. SpawnedHasMessage'
    BY <1>4 DEF Ack, Finish, NoTask, Tasks
  <2> QED BY <1>4, <2>3, <2>4, <2>5, <2>6 DEF Ack, Finish, deliveryHistory
<1>5. CASE Drain
  BY <1>5 DEF Drain, deliveryHistory
<1>6. CASE ConnectionLost
  <2>1. "netloss" \in BudgetKinds
    BY DEF BudgetKinds
  <2>2. budget' \in [BudgetKinds -> Nat] /\ ready' \in [Msgs -> Nat]
    BY <1>6, <2>1, SpendType, RequeuedType DEF ConnectionLost
  <2>3. \A d \in Deliveries : Dead(d) \in Deliveries /\ Dead(d).msg = d.msg
    <3> SUFFICES ASSUME NEW d \in Deliveries
                 PROVE  Dead(d) \in Deliveries /\ Dead(d).msg = d.msg
      OBVIOUS
    <3>1. CASE d \in [msg: Msgs, live: BOOLEAN]
      BY <3>1 DEF Deliveries, Dead
    <3>2. CASE d = NoDelivery
      <4>1. Dead(NoDelivery) = NoDelivery
        BY DEF Dead, NoDelivery
      <4> QED BY <3>2, <4>1
    <3> QED BY <3>1, <3>2 DEF Deliveries
  <2>4. handler' \in [Handlers -> Deliveries] /\ held' \in Deliveries
    BY <1>6, <2>3 DEF ConnectionLost
  <2>5. \A h \in Handlers : handler'[h].msg = handler[h].msg
    BY <1>6, <2>3 DEF ConnectionLost
  <2>6. SpawnedHasMessage'
    BY <1>6, <2>5 DEF ConnectionLost, Tasks
  <2> QED BY <1>6, <2>2, <2>4, <2>6 DEF ConnectionLost, deliveryHistory
<1>7. ASSUME ProcessRestarts, budget' \in [BudgetKinds -> Nat] PROVE TypeInv'
  <2>1. ready' \in [Msgs -> Nat]
    BY <1>7, RequeuedType DEF ProcessRestarts
  <2>2. SpawnedHasMessage'
    BY <1>7, IdleTypes DEF ProcessRestarts
  <2>3. /\ handler' \in [Handlers -> Deliveries] /\ task' \in [Tasks -> Task]
        /\ held' \in Deliveries
        /\ api' \in [pc: {"idle", "publish", "revert"}, keys: SUBSET Keys]
    BY <1>7, IdleTypes DEF ProcessRestarts
  <2> QED BY <1>7, <2>1, <2>2, <2>3 DEF ProcessRestarts, deliveryHistory
<1>8. CASE Crash
  <2>1. "crash" \in BudgetKinds
    BY DEF BudgetKinds
  <2> QED BY <1>7, <1>8, <2>1, SpendType DEF Crash
<1>9. CASE DrainedExit \/ ForcedExit
  BY <1>7, <1>9 DEF DrainedExit, ForcedExit
<1>10. CASE Shutdown
  <2>1. "shutdown" \in BudgetKinds
    BY DEF BudgetKinds
  <2>2. budget' \in [BudgetKinds -> Nat]
    BY <1>10, <2>1, SpendType DEF Shutdown
  <2> QED BY <1>10, <2>2 DEF Shutdown, deliveryHistory
<1> QED BY <1>1, <1>2, <1>3, <1>4, <1>5, <1>6, <1>8, <1>9, <1>10 DEF RunnerStep

\* A step of task t moves no other task.
Moves(t) ==
    /\ task' \in [Tasks -> Task]
    /\ \A u \in Tasks : u # t => task'[u] = task[u]

LEMMA GotoMoves ==
    ASSUME VarTypes, NEW t \in Tasks, NEW pc \in PCs, Goto(t, pc)
    PROVE  Moves(t) /\ task'[t].pc = pc
BY DEF VarTypes, Goto, Task, Moves

LEMMA FailWithMoves ==
    ASSUME VarTypes, NEW t \in Tasks, NEW err \in Errors, FailWith(t, err)
    PROVE  Moves(t) /\ task'[t].pc = "fail"
BY DEF VarTypes, FailWith, Task, Moves, PCs

\* A failed attempt ends the task or goes to its backoff.
LEMMA FailMoves ==
    ASSUME VarTypes, NEW t \in Tasks, Fail(t)
    PROVE  Moves(t) /\ task'[t].pc \in {"done", "backoff"}
<1>1. task[t] \in Task
  BY DEF VarTypes
<1>2. AfterFailure(t) \in Task /\ AfterFailure(t).pc \in {"done", "backoff"}
  <2>1. task[t].rl + 1 \in Nat /\ task[t].attempt + 1 \in Nat
    BY <1>1 DEF Task
  <2>2. CASE GivesUp(t)
    BY <1>1, <2>2 DEF AfterFailure, Task, PCs
  <2>3. CASE ~GivesUp(t) /\ task[t].err = "ratelimited"
    BY <1>1, <2>1, <2>3 DEF AfterFailure, Task, PCs
  <2>4. CASE ~GivesUp(t) /\ task[t].err # "ratelimited"
    BY <1>1, <2>1, <2>4 DEF AfterFailure, Task, PCs
  <2> QED BY <2>2, <2>3, <2>4
<1> QED BY <1>2 DEF VarTypes, Fail, Moves

\* A success means that the provider took the mail.
LEMMA OutcomeFact ==
    ASSUME NEW o \in SendOutcomes
    PROVE  o.err \in Errors \cup {"none"} /\ (o.err = "none" => o.took)
<1>1. ASSUME NEW end \in SmtpEnds, SmtpError(end) = "none"
      PROVE  SmtpTook(end) = {TRUE}
  BY <1>1 DEF SmtpEnds, SmtpError, SmtpTook
<1>2. ASSUME NEW end \in WebhookEnds, WebhookError(end) = "none"
      PROVE  WebhookTook(end) = {TRUE}
  BY <1>2 DEF WebhookEnds, WebhookError, WebhookTook
<1> QED BY <1>1, <1>2 DEF SendOutcomes

\* What is left to show of a task's step once its move is known.
LEMMA TaskFrame ==
    ASSUME TypeInv, NEW t \in Tasks, task[t].pc # "none", Moves(t),
           UNCHANGED aroundTask, log' \in [Keys -> Row], sends' \in [Keys -> Nat],
           accepted' \subseteq Keys, unrecorded' \subseteq Keys,
           budget' \in [BudgetKinds -> Nat]
    PROVE  TypeInv'
<1>1. SpawnedHasMessage'
  BY DEF TypeInv, SpawnedHasMessage, Moves, aroundTask
<1> QED BY <1>1 DEF TypeInv, VarTypes, Moves, aroundTask

\* The steps of a recipient task.
LEMMA TypeTask ==
    ASSUME TypeInv, NEW t \in Tasks, TaskStep(t)
    PROVE  TypeInv' /\ Moves(t) /\ task[t].pc # "none" /\ UNCHANGED aroundTask
<1>1. task[t].pc # "none"
  BY DEF TaskStep, Check, Insert, Filter, Block, Token, Send, RecordSent, Fail,
         Wake, StopBackoff, Panic
<1>2. UNCHANGED aroundTask
  BY DEF TaskStep, Check, Insert, Filter, Block, Token, Send, RecordSent, Fail,
         Wake, StopBackoff, Panic
<1>3. VarTypes /\ SpawnedHasMessage /\ Key(t) \in Keys
  BY <1>1, KeyType DEF TypeInv
<1>4. {"dberr", "template", "panic"} \subseteq BudgetKinds
  BY DEF BudgetKinds
<1>5. /\ log \in [Keys -> Row] /\ sends \in [Keys -> Nat]
      /\ accepted \subseteq Keys /\ unrecorded \subseteq Keys
      /\ budget \in [BudgetKinds -> Nat]
  BY <1>3 DEF VarTypes
<1>6. {"permanent", "transient", "ratelimited"} = Errors
      /\ {"insert", "filter", "block", "token", "send", "marksent", "check", "done"}
           \subseteq PCs
  BY DEF Errors, PCs
<1>7. CASE Check(t)
  <2>1. Moves(t)
    BY <1>3, <1>6, <1>7, GotoMoves, FailWithMoves DEF Check
  <2>2. budget' \in [BudgetKinds -> Nat]
    BY <1>3, <1>4, <1>5, <1>7, SpendType DEF Check
  <2> QED BY <1>1, <1>2, <1>5, <1>7, <2>1, <2>2, TaskFrame DEF Check, deliveryHistory
<1>8. CASE Insert(t)
  <2>1. task[t] \in Task /\ log[Key(t)].retry \in Nat
    BY <1>3, <1>5 DEF VarTypes, Row
  <2>2. ASSUME task' = [task EXCEPT ![t].pc = "check", ![t].attempt = log[Key(t)].retry]
        PROVE  Moves(t)
    BY <1>3, <2>1, <2>2 DEF VarTypes, Task, PCs, Moves
  <2>3. Moves(t)
    BY <1>3, <1>6, <1>8, <2>2, GotoMoves, FailWithMoves DEF Insert
  <2>4. log' \in [Keys -> Row]
    BY <1>3, <1>5, <1>8, InsertPendingFact DEF Insert, Keeps
  <2>5. budget' \in [BudgetKinds -> Nat]
    BY <1>3, <1>4, <1>5, <1>8, SpendType DEF Insert
  <2> QED BY <1>1, <1>2, <1>5, <1>8, <2>3, <2>4, <2>5, TaskFrame DEF Insert
<1>9. CASE Filter(t)
  <2>1. Moves(t)
    BY <1>3, <1>6, <1>9, GotoMoves DEF Filter
  <2> QED BY <1>1, <1>2, <1>5, <1>9, <2>1, TaskFrame DEF Filter, deliveryHistory
<1>10. CASE Block(t)
  <2>1. Moves(t)
    BY <1>3, <1>6, <1>10, GotoMoves DEF Block
  <2>2. Keeps(Keys, log, log') /\ unrecorded' \in SUBSET Keys /\ budget' \in [BudgetKinds -> Nat]
    BY <1>1, <1>3, <1>10, WriteFact DEF Block
  <2> QED BY <1>1, <1>2, <1>5, <1>10, <2>1, <2>2, TaskFrame DEF Block, Keeps
<1>11. CASE Token(t)
  <2>1. Moves(t)
    BY <1>3, <1>6, <1>11, GotoMoves, FailWithMoves DEF Token
  <2> QED BY <1>1, <1>2, <1>5, <1>11, <2>1, TaskFrame DEF Token, deliveryHistory
<1>12. CASE Send(t)
  <2>1. Moves(t)
    BY <1>3, <1>6, <1>12, GotoMoves, FailWithMoves, OutcomeFact DEF Send
  <2>2. sends' \in [Keys -> Nat] /\ accepted' \subseteq Keys
    BY <1>3, <1>5, <1>12 DEF Send
  <2> QED BY <1>1, <1>2, <1>5, <1>12, <2>1, <2>2, TaskFrame DEF Send
<1>13. CASE RecordSent(t)
  <2>1. Moves(t)
    BY <1>3, <1>6, <1>13, GotoMoves DEF RecordSent
  <2>2. Keeps(Keys, log, log') /\ unrecorded' \in SUBSET Keys /\ budget' \in [BudgetKinds -> Nat]
    BY <1>1, <1>3, <1>13, WriteFact DEF RecordSent
  <2> QED BY <1>1, <1>2, <1>5, <1>13, <2>1, <2>2, TaskFrame DEF RecordSent, Keeps
<1>14. CASE Fail(t)
  <2>1. Moves(t)
    BY <1>3, <1>14, FailMoves
  <2>2. Keeps(Keys, log, log') /\ unrecorded' \in SUBSET Keys /\ budget' \in [BudgetKinds -> Nat]
    BY <1>1, <1>3, <1>14, WriteFact DEF Fail, GivesUp
  <2> QED BY <1>1, <1>2, <1>5, <1>14, <2>1, <2>2, TaskFrame DEF Fail, Keeps
<1>15. CASE Wake(t)
  <2>1. Moves(t)
    BY <1>3, <1>6, <1>15, GotoMoves DEF Wake
  <2> QED BY <1>1, <1>2, <1>5, <1>15, <2>1, TaskFrame DEF Wake, deliveryHistory
<1>16. CASE StopBackoff(t)
  <2>1. Moves(t)
    BY <1>3, <1>6, <1>16, GotoMoves DEF StopBackoff
  <2>2. Keeps(Keys, log, log') /\ unrecorded' \in SUBSET Keys /\ budget' \in [BudgetKinds -> Nat]
    BY <1>1, <1>3, <1>16, WriteFact DEF StopBackoff
  <2> QED BY <1>1, <1>2, <1>5, <1>16, <2>1, <2>2, TaskFrame DEF StopBackoff, Keeps
<1>17. CASE Panic(t)
  <2>1. Moves(t)
    BY <1>3, <1>6, <1>17, GotoMoves DEF Panic
  <2>2. budget' \in [BudgetKinds -> Nat]
    BY <1>3, <1>4, <1>17, SpendType DEF Panic
  <2>3. unrecorded' \in SUBSET Keys
    BY <1>3, <1>5, <1>17 DEF Panic
  <2> QED BY <1>1, <1>2, <1>5, <1>17, <2>1, <2>2, <2>3, TaskFrame DEF Panic
<1> QED BY <1>7, <1>8, <1>9, <1>10, <1>11, <1>12, <1>13, <1>14, <1>15, <1>16, <1>17
        DEF TaskStep

\* The retry endpoints and the reaper.
ApiStep ==
    \/ Republish
    \/ Revert
    \/ \E k \in Keys : RetryRecipient(k)
    \/ \E e \in Events : RetryEvent(e)
    \/ \E K \in SUBSET Keys : Reap(K)

\* The rows an endpoint resets are rows, and exist.
LEMMA ApiResets ==
    ASSUME VarTypes, (\E k \in Keys : RetryRecipient(k)) \/ (\E e \in Events : RetryEvent(e))
    PROVE  \E K \in SUBSET Keys : ResetRows(K) /\ \A k \in K : Retryable(log, k)
<1>1. ASSUME NEW k \in Keys, RetryRecipient(k)
      PROVE  ResetRows({k}) /\ {k} \in SUBSET Keys /\ \A j \in {k} : Retryable(log, j)
  BY <1>1 DEF RetryRecipient
<1>2. ASSUME NEW e \in Events, RetryEvent(e)
      PROVE  LET F == {k \in {e} \X Recipients : log[k].status = "FAILED"}
             IN  ResetRows(F) /\ F \in SUBSET Keys /\ \A j \in F : Retryable(log, j)
  BY <1>2 DEF RetryEvent, Retryable, Keys
<1> QED BY <1>1, <1>2

LEMMA TypeApi ==
    ASSUME TypeInv, ApiStep
    PROVE  TypeInv' /\ UNCHANGED aroundApi
<1>1. ASSUME UNCHANGED aroundApi, log' \in [Keys -> Row], ready' \in [Msgs -> Nat],
             ledger' \in [Msgs -> Int], budget' \in [BudgetKinds -> Nat],
             api' \in [pc: {"idle", "publish", "revert"}, keys: SUBSET Keys]
      PROVE  TypeInv'
  <2>1. SpawnedHasMessage'
    BY <1>1 DEF TypeInv, SpawnedHasMessage, aroundApi
  <2> QED BY <1>1, <2>1 DEF TypeInv, VarTypes, aroundApi
<1>2. VarTypes /\ log \in [Keys -> Row]
  BY DEF TypeInv, VarTypes
<1>3. "dberr" \in BudgetKinds /\ "retry" \in BudgetKinds
  BY DEF BudgetKinds
<1>4. CASE Republish
  <2>1. ready' \in [Msgs -> Nat] /\ ledger' \in [Msgs -> Int]
    <3>1. ASSUME NEW m, Enqueue(m)
          PROVE  ready' \in [Msgs -> Nat] /\ ledger' \in [Msgs -> Int]
      <4>1. CASE m \in Msgs
        BY <1>2, <3>1, <4>1 DEF Enqueue, VarTypes
      <4>2. CASE m \notin Msgs
        BY <1>2, <3>1, <4>2 DEF Enqueue, VarTypes
      <4> QED BY <4>1, <4>2
    <3>2. CASE UNCHANGED <<ready, ledger>>
      BY <1>2, <3>2 DEF VarTypes
    <3> QED BY <1>4, <3>1, <3>2 DEF Republish
  <2>2. api' \in [pc: {"idle", "publish", "revert"}, keys: SUBSET Keys]
    <3>1. api' = NoRequest \/ api' = [api EXCEPT !.pc = "revert"]
      BY <1>4 DEF Republish
    <3>2. [api EXCEPT !.pc = "revert"]
            \in [pc: {"idle", "publish", "revert"}, keys: SUBSET Keys]
      BY <1>2 DEF VarTypes
    <3> QED BY <3>1, <3>2, IdleTypes
  <2> QED BY <1>1, <1>2, <1>4, <2>1, <2>2 DEF Republish, VarTypes
<1>5. CASE Revert
  <2>1. api.keys \in SUBSET Keys
    BY <1>2 DEF VarTypes
  <2>2. log' \in [Keys -> Row] /\ budget' \in [BudgetKinds -> Nat]
    BY <1>2, <1>3, <1>5, <2>1, ResetFact, SpendType DEF Revert, Keeps, VarTypes
  <2> QED BY <1>1, <1>2, <1>5, <2>2, IdleTypes DEF Revert, VarTypes
<1>6. ASSUME NEW K \in SUBSET Keys, ResetRows(K) PROVE TypeInv' /\ UNCHANGED aroundApi
  <2>1. log' \in [Keys -> Row] /\ budget' \in [BudgetKinds -> Nat]
    BY <1>2, <1>3, <1>6, ResetFact, SpendType DEF ResetRows, Keeps
  <2> QED BY <1>1, <1>2, <1>6, <2>1 DEF ResetRows, VarTypes
<1>7. ASSUME NEW K \in SUBSET Keys, Reap(K) PROVE TypeInv' /\ UNCHANGED aroundApi
  <2>1. log' \in [Keys -> Row]
    BY <1>2, <1>7, ResetFact DEF Reap, ReapStalePending, Keeps
  <2> QED BY <1>1, <1>2, <1>7, <2>1 DEF Reap, VarTypes
<1>8. CASE (\E k \in Keys : RetryRecipient(k)) \/ (\E e \in Events : RetryEvent(e))
  BY <1>2, <1>6, <1>8, ApiResets
<1> QED BY <1>4, <1>5, <1>7, <1>8 DEF ApiStep

LEMMA TypeStep == TypeInv /\ [Next]_vars => TypeInv'
<1> SUFFICES ASSUME TypeInv, [Next]_vars PROVE TypeInv'
  OBVIOUS
<1>1. CASE UNCHANGED vars
  BY <1>1 DEF vars, TypeInv, VarTypes, SpawnedHasMessage
<1>2. CASE Next
  BY <1>2, TypeRunner, TypeTask, TypeApi DEF Next, Environment, ApiStep
<1> QED BY <1>1, <1>2

\* TypeOK holds in every behaviour of the consumer, whatever the constants: no
\* recipient task runs outside the permit of its delivery.
THEOREM TypeCorrect == Spec => []TypeOK
<1>1. TypeInv => TypeOK
  BY DEF TypeInv, TypeOK
<1> QED BY <1>1, TypeInit, TypeStep, PTL DEF Spec

-----------------------------------------------------------------------------
(***************************************************************************)
(* At most one hand-off.  The argument: an insert succeeds only for a key  *)
(* without a row, no statement removes a row, and a key that is mailed or  *)
(* held has one; so the holder of a key is unique and holds it unmailed.   *)
(***************************************************************************)

\* All that most steps do to the table: some rows become PENDING or FAILED.
SoftWrite ==
    \A j \in Keys : log'[j] = log[j] \/ log'[j].status \in {"PENDING", "FAILED"}

\* No task starts to hold a key or to record a send, and one that does so
\* before and after keeps its key.
NoNewHolder ==
    \A u \in Tasks :
        \/ ~Holding(u)' /\ task'[u].pc # "marksent"
        \/ Holding(u) /\ Holding(u)' /\ Key(u)' = Key(u)
        \/ task[u].pc = "marksent" /\ task'[u].pc = "marksent" /\ Key(u)' = Key(u)

\* The holders' keys are keys.
LEMMA HolderKey ==
    ASSUME TypeInv, NEW t \in Tasks, Holding(t) \/ task[t].pc = "marksent"
    PROVE  Key(t) \in Keys
BY KeyType DEF TypeInv, Holding

\* Steps that write softly and create no holder preserve the invariant.
LEMMA SoftStep ==
    ASSUME TypeInv, HandoffInv, TypeInv', SoftWrite, NoNewHolder,
           UNCHANGED <<sends, accepted>>
    PROVE  HandoffInv'
<1>1. SpawnedHasMessage'
  BY DEF TypeInv
<1>2. \A u \in Tasks : Holding(u)' => Holding(u) /\ Key(u)' = Key(u) /\ Key(u) \in Keys
  BY HolderKey DEF NoNewHolder, Holding
<1>3. HolderOwnsRow'
  <2> SUFFICES ASSUME NEW t \in Tasks, Holding(t)'
               PROVE  /\ log'[Key(t)'].status # "NONE"
                      /\ log'[Key(t)'].status # "BLOCKED"
                      /\ sends'[Key(t)'] = 0
    BY DEF HolderOwnsRow, Exists
  <2>1. Key(t)' = Key(t) /\ Key(t) \in Keys /\ Holding(t)
    BY <1>2
  <2>2. log[Key(t)].status \notin {"NONE", "BLOCKED"} /\ sends[Key(t)] = 0
    BY <2>1 DEF HandoffInv, HolderOwnsRow, Exists
  <2> QED BY <2>1, <2>2 DEF SoftWrite
<1>4. OneHolder'
  BY <1>2 DEF HandoffInv, OneHolder
<1>5. AtMostOneHandoff'
  BY DEF HandoffInv, AtMostOneHandoff
<1>6. MailedHasRow'
  BY DEF HandoffInv, MailedHasRow, SoftWrite, Exists
<1>7. RecordingWasAccepted'
  BY DEF HandoffInv, RecordingWasAccepted, NoNewHolder, Holding
<1>8. SentMeansAccepted'
  BY DEF HandoffInv, SentMeansAccepted, SoftWrite
<1> QED BY <1>1, <1>3, <1>4, <1>5, <1>6, <1>7, <1>8 DEF HandoffInv

\* The steps of the broker, the runner and the process's life.
LEMMA HandoffRunner ==
    ASSUME TypeInv, HandoffInv,
           RunnerStep \/ ConnectionLost \/ Crash \/ Shutdown \/ ForcedExit
           \/ \E m \in Published : Publish(m)
    PROVE  HandoffInv' /\ UNCHANGED deliveryHistory
<1>1. TypeInv'
  BY TypeRunner
<1>2. UNCHANGED deliveryHistory
  BY DEF RunnerStep, ConnectionLost, Crash, Shutdown, ForcedExit, Publish, Receive,
         Spawn, Ack, Finish, Drain, DrainedExit, ProcessRestarts
<1>3. SoftWrite /\ UNCHANGED <<sends, accepted>>
  BY <1>2 DEF deliveryHistory, SoftWrite
<1>4. \A u \in Tasks : u[1] \in Handlers
  BY DEF Tasks
<1>5. ASSUME UNCHANGED <<handler, task>> PROVE NoNewHolder
  BY <1>5 DEF NoNewHolder, Holding, Key
<1>6. ASSUME NEW h \in Handlers, Spawn(h) PROVE NoNewHolder
  <2> SUFFICES ASSUME NEW u \in Tasks, task'[u] = task[u]
               PROVE  task[u].pc # "none" => Key(u)' = Key(u)
    BY <1>6, IdleTypes DEF Spawn, NoNewHolder, Holding, NoTask
  <2>1. CASE u[1] # h
    BY <1>4, <1>6, <2>1 DEF Spawn, Key, TypeInv, VarTypes
  <2>2. CASE u[1] = h
    <3>1. handler[u[1]].msg \notin Msgs
      BY <1>6, <2>2, DeliveryAssumption DEF Spawn, NoDelivery, DeliveryAssumption
    <3> QED BY <3>1 DEF TypeInv, SpawnedHasMessage
  <2> QED BY <2>1, <2>2
<1>7. ASSUME NEW h \in Handlers, Ack(h) PROVE NoNewHolder
  <2> SUFFICES ASSUME NEW u \in Tasks
               PROVE  task'[u].pc = "none" \/ (task'[u] = task[u] /\ Key(u)' = Key(u))
    BY DEF NoNewHolder, Holding
  <2>1. CASE u[1] # h
    BY <1>4, <1>7, <2>1 DEF Ack, Finish, Key, TypeInv, VarTypes
  <2>2. CASE u[1] = h
    BY <1>7, <2>2, IdleTypes DEF Ack, Finish
  <2> QED BY <2>1, <2>2
<1>8. ASSUME ConnectionLost PROVE NoNewHolder
  <2> SUFFICES ASSUME NEW u \in Tasks PROVE task'[u] = task[u] /\ Key(u)' = Key(u)
    BY DEF NoNewHolder, Holding
  <2>1. handler'[u[1]].msg = handler[u[1]].msg
    BY <1>4, <1>8 DEF ConnectionLost, Dead
  <2> QED BY <1>8, <2>1 DEF ConnectionLost, Key
<1>9. ASSUME ProcessRestarts PROVE NoNewHolder
  <2>1. \A u \in Tasks : task'[u].pc = "none"
    BY <1>9, IdleTypes DEF ProcessRestarts
  <2> QED BY <2>1 DEF NoNewHolder, Holding
<1>10. NoNewHolder
  BY <1>5, <1>6, <1>7, <1>8, <1>9 DEF RunnerStep, Crash, Shutdown, ForcedExit,
     Publish, Receive, Drain, DrainedExit
<1> QED BY <1>1, <1>2, <1>3, <1>10, SoftStep

\* The retry endpoints and the reaper: rows become PENDING or FAILED.
LEMMA HandoffApi ==
    ASSUME TypeInv, HandoffInv, ApiStep
    PROVE  HandoffInv'
<1>1. TypeInv' /\ UNCHANGED aroundApi
  BY TypeApi
<1>2. NoNewHolder /\ UNCHANGED <<sends, accepted>>
  BY <1>1 DEF aroundApi, NoNewHolder, Holding, Key
<1>3. log \in [Keys -> Row] /\ api.keys \in SUBSET Keys /\ VarTypes
  BY DEF TypeInv, VarTypes
<1>4. SoftWrite
  <2>1. CASE Republish
    BY <2>1 DEF Republish, SoftWrite
  <2>2. CASE Revert
    BY <1>3, <2>2, ResetFact DEF Revert, SoftWrite
  <2>3. ASSUME NEW K \in SUBSET Keys, ResetRows(K) PROVE SoftWrite
    BY <1>3, <2>3, ResetFact DEF ResetRows, SoftWrite
  <2>4. ASSUME NEW K \in SUBSET Keys, Reap(K) PROVE SoftWrite
    BY <1>3, <2>4, ResetFact DEF Reap, ReapStalePending, SoftWrite
  <2> QED BY <1>3, <2>1, <2>2, <2>3, <2>4, ApiResets DEF ApiStep
<1> QED BY <1>1, <1>2, <1>4, SoftStep

\* The steps of a recipient task that take no key and hand nothing off.
LEMMA HandoffQuietTask ==
    ASSUME TypeInv, HandoffInv, NEW t \in Tasks, TaskStep(t), SoftWrite,
           UNCHANGED <<sends, accepted>>,
           Holding(t)' => Holding(t), task'[t].pc # "marksent"
    PROVE  HandoffInv'
<1>1. TypeInv' /\ Moves(t) /\ UNCHANGED aroundTask
  BY TypeTask
<1>2. NoNewHolder
  <2> SUFFICES ASSUME NEW u \in Tasks
               PROVE  \/ ~Holding(u)' /\ task'[u].pc # "marksent"
                      \/ Holding(u) /\ Holding(u)' /\ Key(u)' = Key(u)
                      \/ /\ task[u].pc = "marksent" /\ task'[u].pc = "marksent"
                         /\ Key(u)' = Key(u)
    BY DEF NoNewHolder
  <2>1. Key(u)' = Key(u)
    BY <1>1 DEF aroundTask, Key
  <2>2. CASE u = t
    BY <2>1, <2>2
  <2>3. CASE u # t
    BY <1>1, <2>1, <2>3 DEF Moves, Holding
  <2> QED BY <2>2, <2>3
<1> QED BY <1>1, <1>2, SoftStep

\* The insert that succeeds: no task holds the key and it is unmailed,
\* because it has no row.
LEMMA HandoffClaim ==
    ASSUME TypeInv, HandoffInv, NEW t \in Tasks, TaskStep(t), Key(t) \in Keys,
           ~Exists(log, Key(t)), log' = InsertPending(log, Key(t)),
           task'[t].pc = "filter", UNCHANGED <<sends, accepted>>
    PROVE  HandoffInv'
<1>1. TypeInv' /\ Moves(t) /\ UNCHANGED aroundTask
  BY TypeTask
<1>2. /\ \A j \in Keys : j # Key(t) => log'[j] = log[j]
      /\ log'[Key(t)].status = "PENDING"
  BY InsertPendingFact DEF TypeInv, VarTypes
<1>3. \A u \in Tasks : Key(u)' = Key(u)
  BY <1>1 DEF aroundTask, Key
<1>4. \A u \in Tasks : u # t /\ Holding(u)' =>
          Holding(u) /\ Key(u) \in Keys /\ Key(u) # Key(t)
  <2> SUFFICES ASSUME NEW u \in Tasks, u # t, Holding(u)'
               PROVE  Holding(u) /\ Key(u) \in Keys /\ Key(u) # Key(t)
    OBVIOUS
  <2>1. Holding(u)
    BY <1>1 DEF Moves, Holding
  <2> QED BY <2>1, HolderKey DEF HandoffInv, HolderOwnsRow
<1>5. sends[Key(t)] = 0
  BY DEF HandoffInv, MailedHasRow, AtMostOneHandoff, TypeInv, VarTypes
<1>6. SpawnedHasMessage'
  BY <1>1 DEF TypeInv
<1>7. HolderOwnsRow'
  <2> SUFFICES ASSUME NEW u \in Tasks, Holding(u)'
               PROVE  /\ log'[Key(u)].status \notin {"NONE", "BLOCKED"}
                      /\ sends[Key(u)] = 0
    BY <1>3 DEF HolderOwnsRow, Exists
  <2>1. CASE u = t
    BY <1>2, <1>5, <2>1
  <2>2. CASE u # t
    BY <1>2, <1>4, <2>2 DEF HandoffInv, HolderOwnsRow, Exists
  <2> QED BY <2>1, <2>2
<1>8. OneHolder'
  BY <1>3, <1>4 DEF HandoffInv, OneHolder
<1>9. AtMostOneHandoff'
  BY DEF HandoffInv, AtMostOneHandoff
<1>10. MailedHasRow'
  BY <1>2 DEF HandoffInv, MailedHasRow, Exists
<1>11. RecordingWasAccepted'
  BY <1>1, <1>3 DEF HandoffInv, RecordingWasAccepted, Moves
<1>12. SentMeansAccepted'
  BY <1>2 DEF HandoffInv, SentMeansAccepted
<1> QED BY <1>6, <1>7, <1>8, <1>9, <1>10, <1>11, <1>12 DEF HandoffInv

\* mark_blocked by the holder of the key: nobody else holds it, and it is
\* unmailed.
LEMMA HandoffBlock ==
    ASSUME TypeInv, HandoffInv, NEW t \in Tasks, Block(t)
    PROVE  HandoffInv'
<1>1. TaskStep(t) /\ Holding(t) /\ UNCHANGED <<sends, accepted>>
  BY DEF TaskStep, Block, Holding
<1>2. TypeInv' /\ Moves(t) /\ UNCHANGED aroundTask /\ task[t].pc # "none"
  BY <1>1, TypeTask
<1>3. Key(t) \in Keys /\ sends[Key(t)] = 0
  BY <1>1, HolderKey DEF HandoffInv, HolderOwnsRow
<1>4. /\ \A j \in Keys : Exists(log, j) => Exists(log', j)
      /\ \A j \in Keys : j # Key(t) => log'[j] = log[j]
      /\ log' \in {log, MarkBlocked(log, Key(t))}
  BY <1>2, WriteFact DEF Block, TypeInv, Keeps
<1>5. log'[Key(t)].status # "SENT" \/ log' = log
  BY <1>3, <1>4 DEF MarkBlocked, TypeInv, VarTypes, Row
<1>6. \A u \in Tasks : Key(u)' = Key(u)
  BY <1>2 DEF aroundTask, Key
<1>7. task'[t].pc = "done"
  BY DEF Block, Goto, TypeInv, VarTypes, Task
<1>8. \A u \in Tasks : Holding(u)' => Holding(u) /\ u # t /\ Key(u) # Key(t) /\ Key(u) \in Keys
  <2> SUFFICES ASSUME NEW u \in Tasks, Holding(u)'
               PROVE  Holding(u) /\ u # t /\ Key(u) # Key(t) /\ Key(u) \in Keys
    OBVIOUS
  <2>1. u # t
    BY <1>7 DEF Holding
  <2>2. Holding(u)
    BY <1>2, <2>1 DEF Moves, Holding
  <2> QED BY <1>1, <2>1, <2>2, HolderKey DEF HandoffInv, OneHolder
<1>9. SpawnedHasMessage'
  BY <1>2 DEF TypeInv
<1>10. HolderOwnsRow'
  BY <1>1, <1>4, <1>6, <1>8 DEF HandoffInv, HolderOwnsRow, Exists
<1>11. OneHolder'
  BY <1>6, <1>8 DEF HandoffInv, OneHolder
<1>12. AtMostOneHandoff'
  BY <1>1 DEF HandoffInv, AtMostOneHandoff
<1>13. MailedHasRow'
  <2> SUFFICES ASSUME NEW k \in Keys, sends[k] = 1
               PROVE  log'[k].status \notin {"NONE", "BLOCKED"}
    BY <1>1 DEF MailedHasRow, Exists
  <2>1. k # Key(t)
    BY <1>3
  <2> QED BY <1>4, <2>1 DEF HandoffInv, MailedHasRow, Exists
<1>14. RecordingWasAccepted'
  BY <1>1, <1>2, <1>6, <1>7 DEF HandoffInv, RecordingWasAccepted, Moves
<1>15. SentMeansAccepted'
  BY <1>1, <1>4, <1>5 DEF HandoffInv, SentMeansAccepted
<1> QED BY <1>9, <1>10, <1>11, <1>12, <1>13, <1>14, <1>15 DEF HandoffInv

\* The call of the sender: the first one for this key, by its only holder.
LEMMA HandoffSend ==
    ASSUME TypeInv, HandoffInv, NEW t \in Tasks, Send(t)
    PROVE  HandoffInv'
<1>1. TaskStep(t) /\ Holding(t) /\ UNCHANGED log
  BY DEF TaskStep, Send, Holding
<1>2. TypeInv' /\ Moves(t) /\ UNCHANGED aroundTask /\ VarTypes
  BY <1>1, TypeTask DEF TypeInv
<1>3. /\ Key(t) \in Keys /\ sends[Key(t)] = 0
      /\ log[Key(t)].status \notin {"NONE", "BLOCKED"}
  BY <1>1, HolderKey DEF HandoffInv, HolderOwnsRow, Exists
<1>4. /\ sends'[Key(t)] = 1
      /\ \A j \in Keys : j # Key(t) => sends'[j] = sends[j]
  BY <1>2, <1>3 DEF Send, VarTypes
<1>5. \A u \in Tasks : Key(u)' = Key(u)
  BY <1>2 DEF aroundTask, Key
<1>6. /\ accepted \subseteq accepted'
      /\ task'[t].pc \in {"marksent", "fail"}
      /\ task'[t].pc = "marksent" => Key(t) \in accepted'
  <2>1. PICK o \in SendOutcomes :
          /\ IF o.err = "none" THEN Goto(t, "marksent") ELSE FailWith(t, o.err)
          /\ accepted' = IF o.took THEN accepted \cup {Key(t)} ELSE accepted
    BY DEF Send
  <2>2. "marksent" \in PCs
    BY DEF PCs
  <2>3. CASE o.err = "none"
    BY <1>2, <2>1, <2>2, <2>3, GotoMoves, OutcomeFact
  <2>4. CASE o.err # "none"
    <3>1. o.err \in Errors /\ FailWith(t, o.err)
      BY <2>1, <2>4, OutcomeFact
    <3> QED BY <1>2, <2>1, <3>1, FailWithMoves
  <2> QED BY <2>3, <2>4
<1>7. \A u \in Tasks : Holding(u)' => Holding(u) /\ u # t /\ Key(u) # Key(t) /\ Key(u) \in Keys
  <2> SUFFICES ASSUME NEW u \in Tasks, Holding(u)'
               PROVE  Holding(u) /\ u # t /\ Key(u) # Key(t) /\ Key(u) \in Keys
    OBVIOUS
  <2>1. u # t
    BY <1>6 DEF Holding
  <2>2. Holding(u)
    BY <1>2, <2>1 DEF Moves, Holding
  <2> QED BY <1>1, <2>1, <2>2, HolderKey DEF HandoffInv, OneHolder
<1>8. SpawnedHasMessage'
  BY <1>2 DEF TypeInv
<1>9. HolderOwnsRow'
  BY <1>1, <1>4, <1>5, <1>7 DEF HandoffInv, HolderOwnsRow, Exists
<1>10. OneHolder'
  BY <1>5, <1>7 DEF HandoffInv, OneHolder
<1>11. AtMostOneHandoff'
  <2> SUFFICES ASSUME NEW k \in Keys PROVE sends'[k] <= 1
    BY DEF AtMostOneHandoff
  <2>1. CASE k = Key(t)
    BY <1>4, <2>1
  <2>2. CASE k # Key(t)
    BY <1>4, <2>2 DEF HandoffInv, AtMostOneHandoff
  <2> QED BY <2>1, <2>2
<1>12. MailedHasRow'
  BY <1>1, <1>3, <1>4 DEF HandoffInv, MailedHasRow, Exists
<1>13. RecordingWasAccepted'
  BY <1>2, <1>5, <1>6 DEF HandoffInv, RecordingWasAccepted, Moves
<1>14. SentMeansAccepted'
  BY <1>1, <1>6 DEF HandoffInv, SentMeansAccepted
<1> QED BY <1>8, <1>9, <1>10, <1>11, <1>12, <1>13, <1>14 DEF HandoffInv

\* mark_sent after the provider took the mail.
LEMMA HandoffRecordSent ==
    ASSUME TypeInv, HandoffInv, NEW t \in Tasks, RecordSent(t)
    PROVE  HandoffInv'
<1>1. TaskStep(t) /\ task[t].pc = "marksent" /\ UNCHANGED <<sends, accepted>>
  BY DEF TaskStep, RecordSent
<1>2. TypeInv' /\ Moves(t) /\ UNCHANGED aroundTask
  BY <1>1, TypeTask
<1>3. Key(t) \in Keys /\ Key(t) \in accepted
  BY <1>1, HolderKey DEF HandoffInv, RecordingWasAccepted
<1>4. \A j \in Keys : \/ log'[j] = log[j]
                      \/ j = Key(t) /\ log'[j].status = "SENT"
  <2>1. log' \in {log, MarkSent(log, Key(t))}
    BY <1>1, WriteFact DEF RecordSent, TypeInv
  <2>2. \A j \in Keys : j # Key(t) => log'[j] = log[j]
    BY <1>1, WriteFact DEF RecordSent, TypeInv
  <2>3. log'[Key(t)] = log[Key(t)] \/ log'[Key(t)].status = "SENT"
    <3>1. log[Key(t)] \in Row /\ log \in [Keys -> Row]
      BY <1>3 DEF TypeInv, VarTypes
    <3>2. MarkSent(log, Key(t)) = log \/ MarkSent(log, Key(t))[Key(t)].status = "SENT"
      BY <1>3, <3>1 DEF MarkSent, Row
    <3> QED BY <2>1, <3>2
  <2> QED BY <2>2, <2>3
<1>5. \A u \in Tasks : Key(u)' = Key(u)
  BY <1>2 DEF aroundTask, Key
<1>6. task'[t].pc = "done"
  BY DEF RecordSent, Goto, TypeInv, VarTypes, Task
<1>7. \A u \in Tasks : Holding(u)' => Holding(u) /\ Key(u) \in Keys
  BY <1>2, <1>6, HolderKey DEF Moves, Holding
<1>8. SpawnedHasMessage'
  BY <1>2 DEF TypeInv
<1>9. HolderOwnsRow'
  BY <1>1, <1>4, <1>5, <1>7 DEF HandoffInv, HolderOwnsRow, Exists
<1>10. OneHolder'
  BY <1>5, <1>7 DEF HandoffInv, OneHolder
<1>11. AtMostOneHandoff'
  BY <1>1 DEF HandoffInv, AtMostOneHandoff
<1>12. MailedHasRow'
  BY <1>1, <1>4 DEF HandoffInv, MailedHasRow, Exists
<1>13. RecordingWasAccepted'
  BY <1>1, <1>2, <1>5, <1>6 DEF HandoffInv, RecordingWasAccepted, Moves
<1>14. SentMeansAccepted'
  BY <1>1, <1>3, <1>4 DEF HandoffInv, SentMeansAccepted
<1> QED BY <1>8, <1>9, <1>10, <1>11, <1>12, <1>13, <1>14 DEF HandoffInv

\* The steps of a recipient task.
LEMMA HandoffTask ==
    ASSUME TypeInv, HandoffInv, NEW t \in Tasks, TaskStep(t)
    PROVE  HandoffInv'
<1>1. task[t].pc # "none" /\ VarTypes /\ SpawnedHasMessage /\ UNCHANGED aroundTask
  BY TypeTask DEF TypeInv
<1>2. Key(t) \in Keys /\ log \in [Keys -> Row] /\ task[t] \in Task
  BY <1>1, KeyType DEF VarTypes
<1>3. /\ {"permanent", "transient", "ratelimited"} = Errors
      /\ {"insert", "filter", "block", "token", "send", "marksent", "check", "done"}
           \subseteq PCs
  BY DEF Errors, PCs
<1>4. CASE Check(t)
  <2>1. task'[t].pc \in {"insert", "fail"}
    BY <1>1, <1>3, <1>4, GotoMoves, FailWithMoves DEF Check
  <2> QED BY <1>4, <2>1, HandoffQuietTask DEF Check, deliveryHistory, SoftWrite, Holding
<1>5. CASE Insert(t)
  <2>1. UNCHANGED <<sends, accepted>>
    BY <1>5 DEF Insert
  <2>2. CASE ~Exists(log, Key(t)) /\ log' = InsertPending(log, Key(t)) /\ Goto(t, "filter")
    <3>1. task'[t].pc = "filter"
      BY <1>1, <1>3, <2>2, GotoMoves
    <3> QED BY <1>2, <2>1, <2>2, <3>1, HandoffClaim
  <2>3. CASE Goto(t, "done") /\ UNCHANGED log
    <3>1. task'[t].pc = "done"
      BY <1>1, <1>3, <2>3, GotoMoves
    <3> QED BY <2>1, <2>3, <3>1, HandoffQuietTask DEF SoftWrite, Holding
  <2>4. CASE /\ task' = [task EXCEPT ![t].pc = "check", ![t].attempt = log[Key(t)].retry]
             /\ UNCHANGED log
    <3>1. task'[t].pc = "check"
      BY <1>1, <1>2, <2>4 DEF VarTypes, Task
    <3> QED BY <2>1, <2>4, <3>1, HandoffQuietTask DEF SoftWrite, Holding
  <2>5. CASE log' \in {log, InsertPending(log, Key(t))} /\ FailWith(t, "transient")
    <3>1. task'[t].pc = "fail"
      BY <1>1, <1>3, <2>5, FailWithMoves
    <3>2. SoftWrite
      BY <1>2, <2>5, InsertPendingFact DEF SoftWrite
    <3> QED BY <2>1, <3>1, <3>2, HandoffQuietTask DEF Holding
  <2> QED BY <1>5, <2>2, <2>3, <2>4, <2>5 DEF Insert
<1>6. CASE Filter(t)
  <2>1. task'[t].pc \in {"block", "token"}
    BY <1>1, <1>3, <1>6, GotoMoves DEF Filter
  <2> QED BY <1>6, <2>1, HandoffQuietTask DEF Filter, deliveryHistory, SoftWrite, Holding
<1>7. CASE Block(t)
  BY <1>7, HandoffBlock
<1>8. CASE Token(t)
  <2>1. task'[t].pc \in {"send", "fail"}
    BY <1>1, <1>3, <1>8, GotoMoves, FailWithMoves DEF Token
  <2> QED BY <1>8, <2>1, HandoffQuietTask DEF Token, deliveryHistory, SoftWrite, Holding
<1>9. CASE Send(t)
  BY <1>9, HandoffSend
<1>10. CASE RecordSent(t)
  BY <1>10, HandoffRecordSent
<1>11. ASSUME NEW x \in BOOLEAN, log' \in {log, MarkFailed(log, Key(t), x)}
       PROVE  SoftWrite
  BY <1>2, <1>11 DEF MarkFailed, SoftWrite, Row
<1>12. CASE Fail(t)
  <2>1. task'[t].pc \in {"done", "backoff"}
    BY <1>1, <1>12, FailMoves
  <2>2. log' \in {log, MarkFailed(log, Key(t), GivesUp(t))} /\ GivesUp(t) \in BOOLEAN
    BY <1>12 DEF Fail, DroppedResultWrite, GivesUp
  <2> QED BY <1>11, <1>12, <2>1, <2>2, HandoffQuietTask DEF Fail, Holding
<1>13. CASE Wake(t)
  <2>1. task'[t].pc = "check"
    BY <1>1, <1>3, <1>13, GotoMoves DEF Wake
  <2> QED BY <1>13, <2>1, HandoffQuietTask DEF Wake, deliveryHistory, SoftWrite, Holding
<1>14. CASE StopBackoff(t)
  <2>1. task'[t].pc = "done"
    BY <1>1, <1>3, <1>14, GotoMoves DEF StopBackoff
  <2>2. log' \in {log, MarkFailed(log, Key(t), TRUE)}
    BY <1>14 DEF StopBackoff, DroppedResultWrite
  <2> QED BY <1>11, <1>14, <2>1, <2>2, HandoffQuietTask DEF StopBackoff, Holding
<1>15. CASE Panic(t)
  <2>1. task'[t].pc = "done"
    BY <1>1, <1>3, <1>15, GotoMoves DEF Panic
  <2> QED BY <1>15, <2>1, HandoffQuietTask DEF Panic, SoftWrite, Holding
<1> QED BY <1>4, <1>5, <1>6, <1>7, <1>8, <1>9, <1>10, <1>12, <1>13, <1>14, <1>15
        DEF TaskStep

LEMMA HandoffInit == Init => HandoffInv
<1> SUFFICES ASSUME Init PROVE HandoffInv
  OBVIOUS
<1>1. \A t \in Tasks : task[t].pc = "none"
  BY IdleTypes DEF Init
<1>2. \A k \in Keys : log[k].status = "NONE" /\ sends[k] = 0
  BY DEF Init, NoRow
<1> QED BY <1>1, <1>2 DEF HandoffInv, SpawnedHasMessage, HolderOwnsRow, OneHolder,
           Holding, AtMostOneHandoff, MailedHasRow, RecordingWasAccepted,
           SentMeansAccepted

LEMMA HandoffStep == TypeInv /\ HandoffInv /\ [Next]_vars => HandoffInv'
<1> SUFFICES ASSUME TypeInv, HandoffInv, [Next]_vars PROVE HandoffInv'
  OBVIOUS
<1>1. CASE UNCHANGED vars
  <2>1. SoftWrite /\ NoNewHolder /\ UNCHANGED <<sends, accepted>>
    BY <1>1 DEF vars, SoftWrite, NoNewHolder, Holding, Key
  <2> QED BY <1>1, <2>1, TypeStep, SoftStep
<1>2. CASE Next
  BY <1>2, HandoffRunner, HandoffTask, HandoffApi DEF Next, Environment, ApiStep
<1> QED BY <1>1, <1>2

\* The inductive invariant holds in every behaviour of the consumer.
THEOREM HandoffSafe == Spec => []HandoffInv
BY TypeInit, TypeStep, HandoffInit, HandoffStep, PTL DEF Spec

\* No (event, recipient) is handed to the sender twice, for any number of
\* publishes, permits, crashes, lost connections, operator retries, reaper
\* runs and failed database writes.
THEOREM NoDoubleSend == Spec => []AtMostOneHandoff
<1>1. HandoffInv => AtMostOneHandoff
  BY DEF HandoffInv
<1> QED BY <1>1, HandoffSafe, PTL

\* SENT in notification_log always has an accepted mail behind it.
THEOREM SentIsTrue == Spec => []SentMeansAccepted
<1>1. HandoffInv => SentMeansAccepted
  BY DEF HandoffInv
<1> QED BY <1>1, HandoffSafe, PTL

\* BLOCKED in notification_log always means that no mail was handed off.
THEOREM BlockedIsTrue == Spec => []BlockedMeansNotMailed
<1>1. TypeOK /\ HandoffInv => BlockedMeansNotMailed
  BY DEF TypeOK, VarTypes, HandoffInv, AtMostOneHandoff, MailedHasRow, BlockedMeansNotMailed
<1> QED BY <1>1, TypeCorrect, HandoffSafe, PTL

-----------------------------------------------------------------------------
(***************************************************************************)
(* Delivery implements AtMostOnce.                                         *)
(***************************************************************************)

\* The step is none of AtMostOnce.
Stutters == Claimed' = Claimed /\ sends' = sends

\* A step that mails nothing and creates no row is a stuttering step.
LEMMA SameRows ==
    ASSUME UNCHANGED sends, \A j \in Keys : Exists(log', j) <=> Exists(log, j)
    PROVE  Stutters
BY DEF Stutters, Claimed

\* A new row claims its key.
LEMMA NewRowClaims ==
    ASSUME NEW k \in Keys, UNCHANGED sends,
           ~Exists(log, k), Exists(log', k),
           \A j \in Keys : j # k => log'[j] = log[j]
    PROVE  AMO!Next
<1>1. k \notin Claimed /\ Claimed' = Claimed \cup {k}
  BY DEF Claimed, Exists
<1> QED BY <1>1 DEF AMO!Next, AMO!Claim

\* The first call of the sender for a key with a row hands it off.
LEMMA FirstSendHandsOff ==
    ASSUME NEW k \in Keys, sends[k] = 0, sends' = [sends EXCEPT ![k] = 1],
           Exists(log, k), UNCHANGED log
    PROVE  AMO!Next
<1>1. k \in Claimed /\ Claimed' = Claimed
  BY DEF Claimed, Exists
<1> QED BY <1>1 DEF AMO!Next, AMO!HandOff

\* The retry endpoints and the reaper only rewrite rows that exist.
LEMMA ApiStutters ==
    ASSUME TypeInv, ApiStep
    PROVE  Stutters
<1>1. UNCHANGED sends
  BY TypeApi DEF aroundApi
<1>2. log \in [Keys -> Row] /\ api.keys \in SUBSET Keys /\ VarTypes
  BY DEF TypeInv, VarTypes
<1>3. CASE Republish
  BY <1>1, <1>3, SameRows DEF Republish
<1>4. CASE Revert
  <2>1. \A j \in Keys : Exists(log', j) <=> Exists(log, j)
    BY <1>2, <1>4, ResetFact DEF Revert, Keeps, Exists
  <2> QED BY <1>1, <2>1, SameRows
<1>5. ASSUME NEW K \in SUBSET Keys, Reap(K) PROVE Stutters
  <2>1. \A j \in Keys : Exists(log', j) <=> Exists(log, j)
    BY <1>2, <1>5, ResetFact DEF Reap, ReapStalePending, Keeps, Exists
  <2> QED BY <1>1, <2>1, SameRows
<1>6. CASE (\E k \in Keys : RetryRecipient(k)) \/ (\E e \in Events : RetryEvent(e))
  <2>1. PICK K \in SUBSET Keys : ResetRows(K) /\ \A k \in K : Retryable(log, k)
    BY <1>2, <1>6, ApiResets
  <2>2. \A j \in Keys : Exists(log', j) <=> Exists(log, j)
    BY <1>2, <2>1, ResetFact DEF ResetRows, Keeps, Exists, Retryable
  <2> QED BY <1>1, <2>2, SameRows
<1> QED BY <1>3, <1>4, <1>5, <1>6 DEF ApiStep

\* A recipient task claims a key, mails a claimed one, or does neither.
LEMMA TaskClaimsOrHandsOff ==
    ASSUME TypeInv, HandoffInv, NEW t \in Tasks, TaskStep(t)
    PROVE  AMO!Next \/ Stutters
<1>1. task[t].pc # "none" /\ VarTypes /\ SpawnedHasMessage
  BY TypeTask DEF TypeInv
<1>2. Key(t) \in Keys /\ log \in [Keys -> Row]
  BY <1>1, KeyType DEF VarTypes
<1>3. CASE Check(t) \/ Filter(t) \/ Token(t) \/ Wake(t) \/ Panic(t)
  BY <1>3, SameRows DEF Check, Filter, Token, Wake, Panic, deliveryHistory
<1>4. CASE Insert(t)
  <2>1. UNCHANGED sends /\ log' \in {log, InsertPending(log, Key(t))}
    BY <1>4 DEF Insert
  <2>2. CASE ~Exists(log, Key(t)) /\ log' = InsertPending(log, Key(t))
    <3>1. Exists(log', Key(t)) /\ \A j \in Keys : j # Key(t) => log'[j] = log[j]
      BY <1>2, <2>2, InsertPendingFact
    <3> QED BY <1>2, <2>1, <2>2, <3>1, NewRowClaims
  <2>3. CASE log' = log
    BY <2>1, <2>3, SameRows
  <2>4. CASE Exists(log, Key(t)) /\ log' = InsertPending(log, Key(t))
    BY <2>1, <2>3, <2>4 DEF InsertPending
  <2> QED BY <2>1, <2>2, <2>3, <2>4
<1>5. ASSUME NEW x \in BOOLEAN,
             NEW new \in {MarkSent(log, Key(t)), MarkBlocked(log, Key(t)),
                          MarkFailed(log, Key(t), x)},
             DroppedResultWrite(t, new), UNCHANGED sends
      PROVE  Stutters
  <2>1. \A j \in Keys : Exists(log', j) <=> Exists(log, j)
    BY <1>1, <1>5, WriteFact DEF Keeps
  <2> QED BY <1>5, <2>1, SameRows
<1>6. CASE Block(t)
  BY <1>5, <1>6 DEF Block
<1>7. CASE RecordSent(t)
  BY <1>5, <1>7 DEF RecordSent
<1>8. CASE Fail(t)
  <2>1. GivesUp(t) \in BOOLEAN
    BY DEF GivesUp
  <2> QED BY <1>5, <1>8, <2>1 DEF Fail
<1>9. CASE StopBackoff(t)
  BY <1>5, <1>9 DEF StopBackoff
<1>10. CASE Send(t)
  <2>1. Exists(log, Key(t)) /\ sends[Key(t)] = 0
    BY <1>10 DEF Send, HandoffInv, HolderOwnsRow, Holding
  <2>2. sends' = [sends EXCEPT ![Key(t)] = 1]
    BY <1>1, <1>2, <1>10, <2>1 DEF Send, VarTypes
  <2>3. UNCHANGED log
    BY <1>10 DEF Send
  <2> QED BY <1>2, <2>1, <2>2, <2>3, FirstSendHandsOff
<1> QED BY <1>3, <1>4, <1>6, <1>7, <1>8, <1>9, <1>10 DEF TaskStep

\* The consumer implements the abstract promise of the idempotency key.
THEOREM Refinement == Spec => ImplementsAtMostOnce
<1>1. Init => AMO!Init
  <2> SUFFICES ASSUME Init PROVE AMO!Init
    OBVIOUS
  <2>1. \A k \in Keys : log[k].status = "NONE" /\ sends[k] = 0
    BY DEF Init, NoRow
  <2>2. sends = [k \in Keys |-> 0]
    BY DEF Init
  <2> QED BY <2>1, <2>2 DEF AMO!Init, Claimed, Exists
<1>2. TypeInv /\ HandoffInv /\ [Next]_vars => [AMO!Next]_<<Claimed, sends>>
  <2> SUFFICES ASSUME TypeInv, HandoffInv, [Next]_vars PROVE AMO!Next \/ Stutters
    BY DEF Stutters
  <2>1. CASE UNCHANGED vars
    BY <2>1, SameRows DEF vars
  <2>2. CASE RunnerStep \/ ConnectionLost \/ Crash \/ Shutdown \/ ForcedExit
             \/ \E m \in Published : Publish(m)
    BY <2>2, HandoffRunner, SameRows DEF deliveryHistory
  <2>3. CASE \E t \in Tasks : TaskStep(t)
    BY <2>3, TaskClaimsOrHandsOff
  <2>4. CASE ApiStep
    BY <2>4, ApiStutters
  <2> QED BY <2>1, <2>2, <2>3, <2>4 DEF Next, Environment, ApiStep
<1> QED BY <1>1, <1>2, TypeInit, TypeStep, HandoffInit, HandoffStep, PTL
        DEF Spec, ImplementsAtMostOnce, AMO!Spec
=============================================================================
