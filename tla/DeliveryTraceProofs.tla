------------------------- MODULE DeliveryTraceProofs ------------------------
(***************************************************************************)
(* Proofs about Delivery: the broker's accounts balance, and an            *)
(* acknowledged recipient has left a trace.  Both for every set of events, *)
(* recipients and permits and every budget of faults.                      *)
(***************************************************************************)
EXTENDS DeliveryProofs

-----------------------------------------------------------------------------
(***************************************************************************)
(* No message is lost.  NoMessageLost is inductive beside the types: each  *)
(* step moves one copy between the queue, the runner and a permit, or adds *)
(* or removes one on both sides.                                           *)
(***************************************************************************)

\* The delivery of m on the channel in use.
Live(m) == [msg |-> m, live |-> TRUE]

\* The permits that hold a live delivery of m.
Carriers(m) == {h \in Handlers : handler[h] = Live(m)}

\* 1 when the runner holds a live delivery of m without a permit.
InHand(m) == IF held = Live(m) THEN 1 ELSE 0

LEMMA LiveFact ==
    ASSUME NEW m \in Msgs
    PROVE  /\ NoDelivery # Live(m)
           /\ \A d : Dead(d) # Live(m)
           /\ \A n \in Msgs : Live(n) = Live(m) <=> n = m
<1>1. NoDelivery # Live(m)
  BY DEF NoDelivery, Live
<1>2. \A d : Dead(d) # Live(m)
  BY DEF Dead, Live
<1>3. \A n \in Msgs : Live(n) = Live(m) <=> n = m
  BY DEF Live
<1> QED BY <1>1, <1>2, <1>3

\* The count of the permits is a number, and the sum is Requeued.
LEMMA CountFact ==
    ASSUME VarTypes, NEW m \in Msgs
    PROVE  /\ IsFiniteSet(Carriers(m))
           /\ Cardinality(Carriers(m)) \in Nat
           /\ Requeued[m] = ready[m] + Cardinality(Carriers(m)) + InHand(m)
<1>1. IsFiniteSet(Carriers(m))
  BY DeliveryAssumption, FS_Subset DEF DeliveryAssumption, Carriers
<1>2. Cardinality(Carriers(m)) \in Nat
  BY <1>1, FS_CardinalityType
<1>3. Requeued[m] = ready[m] + Cardinality(Carriers(m)) + InHand(m)
  BY DEF Requeued, Carriers, InHand, Live
<1> QED BY <1>1, <1>2, <1>3

\* The same after a step, with the sets of the new state spelled out.
LEMMA CountFactPrime ==
    ASSUME VarTypes', NEW m \in Msgs
    PROVE  Requeued'[m] = ready'[m] + Cardinality(Carriers(m)') + InHand(m)'
BY DEF Requeued, Carriers, InHand, Live

\* What a step does to one message's account, when it does nothing to the
\* permits or only to permit h.
LEMMA Balanced ==
    ASSUME TypeInv, TypeInv', NoMessageLost,
           \A m \in Msgs :
               ledger'[m] - ledger[m] =
                   ready'[m] + Cardinality(Carriers(m)') + InHand(m)'
                   - (ready[m] + Cardinality(Carriers(m)) + InHand(m))
    PROVE  NoMessageLost'
<1> SUFFICES ASSUME NEW m \in Msgs
             PROVE  ledger'[m] = Requeued'[m]
  BY DEF NoMessageLost
<1>1. VarTypes /\ VarTypes'
  BY DEF TypeInv
<1>2. /\ Requeued[m] = ready[m] + Cardinality(Carriers(m)) + InHand(m)
      /\ Cardinality(Carriers(m)) \in Nat
  BY <1>1, CountFact
<1>3. Requeued'[m] = ready'[m] + Cardinality(Carriers(m)') + InHand(m)'
  BY <1>1, CountFactPrime
<1>4. Cardinality(Carriers(m)') \in Nat
  <2>1. IsFiniteSet(Carriers(m)')
    BY DeliveryAssumption, FS_Subset DEF DeliveryAssumption, Carriers
  <2> QED BY <2>1, FS_CardinalityType
<1>5. ledger[m] = Requeued[m]
  BY DEF NoMessageLost
<1>6. /\ ledger[m] \in Int /\ ledger'[m] \in Int
      /\ ready[m] \in Int /\ ready'[m] \in Int
      /\ InHand(m) \in Int /\ InHand(m)' \in Int
  BY <1>1 DEF VarTypes, InHand
<1> QED BY <1>2, <1>3, <1>4, <1>5, <1>6

\* A permit that holds nothing live takes d: one carrier more of the message
\* of d when d is live.
LEMMA PermitTakes ==
    ASSUME VarTypes, NEW h \in Handlers, NEW d \in Deliveries, NEW m \in Msgs,
           handler[h] # Live(m), handler' = [handler EXCEPT ![h] = d]
    PROVE  Cardinality(Carriers(m)') =
               Cardinality(Carriers(m)) + (IF d = Live(m) THEN 1 ELSE 0)
<1>1. CASE d = Live(m)
  <2>1. Carriers(m)' = Carriers(m) \cup {h} /\ h \notin Carriers(m)
    BY <1>1 DEF Carriers, VarTypes, Live
  <2>2. Cardinality(Carriers(m) \cup {h}) = Cardinality(Carriers(m)) + 1
    BY <2>1, CountFact, FS_AddElement
  <2> QED BY <1>1, <2>1, <2>2
<1>2. CASE d # Live(m)
  <2>1. Carriers(m)' = Carriers(m)
    BY <1>2 DEF Carriers, VarTypes, Live
  <2> QED BY <1>2, <2>1, CountFact
<1> QED BY <1>1, <1>2

\* A permit that carries m is given back: one carrier less.
LEMMA PermitReturns ==
    ASSUME VarTypes, NEW h \in Handlers, NEW m \in Msgs, handler[h] = Live(m),
           handler' = [handler EXCEPT ![h] = NoDelivery]
    PROVE  Cardinality(Carriers(m)') = Cardinality(Carriers(m)) - 1
<1>1. Carriers(m)' = Carriers(m) \ {h} /\ h \in Carriers(m)
  BY LiveFact DEF Carriers, VarTypes, Live
<1> QED BY <1>1, CountFact, FS_RemoveElement

\* A copy that reaches the queue is in the ledger as well.
LEMMA EnqueueBalances ==
    ASSUME TypeInv, TypeInv', NoMessageLost, NEW n, Enqueue(n),
           UNCHANGED <<handler, held>>
    PROVE  NoMessageLost'
<1>1. \A m \in Msgs : ledger'[m] - ledger[m] = ready'[m] - ready[m]
  BY DEF Enqueue, TypeInv, VarTypes
<1>2. \A m \in Msgs : Cardinality(Carriers(m)) \in Nat
  BY CountFact DEF TypeInv
<1>3. \A m \in Msgs : Carriers(m)' = Carriers(m) /\ InHand(m)' = InHand(m)
                      /\ InHand(m) \in Int /\ ready[m] \in Int /\ ready'[m] \in Int
  BY DEF Carriers, InHand, TypeInv, VarTypes
<1> QED BY <1>1, <1>2, <1>3, Balanced

\* A step that touches no account.
LEMMA QuietBalances ==
    ASSUME TypeInv, TypeInv', NoMessageLost, UNCHANGED <<ready, ledger, handler, held>>
    PROVE  NoMessageLost'
BY DEF NoMessageLost, Requeued

\* The deliveries of a connection or a process that is gone go back to the
\* queue, and none stays live.
LEMMA RequeueBalances ==
    ASSUME TypeInv, TypeInv', NoMessageLost, ready' = Requeued, UNCHANGED ledger,
           \A m \in Msgs : held' # Live(m) /\ \A h \in Handlers : handler'[h] # Live(m)
    PROVE  NoMessageLost'
<1> SUFFICES ASSUME NEW m \in Msgs PROVE ledger'[m] = Requeued'[m]
  BY DEF NoMessageLost
<1>1. Carriers(m)' = {} /\ InHand(m)' = 0
  BY DEF Carriers, InHand, Live
<1>2. Requeued'[m] = ready'[m] + Cardinality(Carriers(m)') + InHand(m)'
  BY CountFactPrime DEF TypeInv
<1>3. Cardinality({}) = 0
  BY FS_EmptySet
<1>4. ready'[m] = Requeued[m] /\ ready'[m] \in Nat
  BY DEF TypeInv, VarTypes
<1> QED BY <1>1, <1>2, <1>3, <1>4 DEF NoMessageLost

\* The delivery leaves the queue for the runner's hand.
LEMMA ReceiveBalances ==
    ASSUME TypeInv, TypeInv', NoMessageLost, NEW n \in Msgs, Receive(n)
    PROVE  NoMessageLost'
<1>1. VarTypes /\ UNCHANGED <<ledger, handler>>
  BY DEF TypeInv, Receive
<1>2. ASSUME NEW m \in Msgs
      PROVE  /\ ready'[m] = ready[m] - (IF m = n THEN 1 ELSE 0)
             /\ InHand(m) = 0 /\ InHand(m)' = IF m = n THEN 1 ELSE 0
             /\ Carriers(m)' = Carriers(m)
  <2>1. ready'[m] = ready[m] - (IF m = n THEN 1 ELSE 0)
    BY <1>1 DEF Receive, VarTypes
  <2>2. InHand(m) = 0
    BY LiveFact DEF Receive, InHand
  <2>3. InHand(m)' = IF m = n THEN 1 ELSE 0
    BY LiveFact DEF Receive, InHand, Live
  <2> QED BY <1>1, <2>1, <2>2, <2>3 DEF Carriers
<1>3. \A m \in Msgs : Cardinality(Carriers(m)) \in Nat /\ ready[m] \in Nat /\ ledger[m] \in Int
  BY <1>1, CountFact DEF VarTypes
<1> QED BY <1>1, <1>2, <1>3, Balanced

\* It leaves the runner's hand for a permit.
LEMMA SpawnBalances ==
    ASSUME TypeInv, TypeInv', NoMessageLost, NEW h \in Handlers, Spawn(h)
    PROVE  NoMessageLost'
<1>1. VarTypes /\ UNCHANGED <<ledger, ready>> /\ held \in Deliveries
  BY DEF TypeInv, VarTypes, Spawn
<1>2. ASSUME NEW m \in Msgs
      PROVE  /\ Cardinality(Carriers(m)') = Cardinality(Carriers(m)) + InHand(m)
             /\ InHand(m)' = 0 /\ InHand(m) \in Int
  <2>1. handler[h] # Live(m) /\ held' # Live(m)
    BY LiveFact DEF Spawn
  <2>2. handler' = [handler EXCEPT ![h] = held]
    BY DEF Spawn
  <2>3. InHand(m)' = 0
    BY <2>1 DEF InHand, Live
  <2>4. Cardinality(Carriers(m)') =
            Cardinality(Carriers(m)) + (IF held = Live(m) THEN 1 ELSE 0)
    BY <1>1, <2>1, <2>2, PermitTakes
  <2> QED BY <2>3, <2>4 DEF InHand
<1>3. \A m \in Msgs : Cardinality(Carriers(m)) \in Nat /\ ready[m] \in Nat /\ ledger[m] \in Int
  BY <1>1, CountFact DEF VarTypes
<1> QED BY <1>1, <1>2, <1>3, Balanced

\* The ack takes a live copy out of both; one of an old channel takes none.
LEMMA AckBalances ==
    ASSUME TypeInv, TypeInv', NoMessageLost, NEW h \in Handlers, Ack(h)
    PROVE  NoMessageLost'
<1>1. /\ VarTypes /\ UNCHANGED <<ready, held>>
      /\ handler' = [handler EXCEPT ![h] = NoDelivery]
      /\ NoDelivery \in Deliveries
  BY IdleTypes DEF TypeInv, Ack, Finish
<1>2. handler[h] \in [msg: Msgs, live: BOOLEAN]
  BY <1>1 DEF Ack, VarTypes, Deliveries
<1>3. ASSUME NEW m \in Msgs
      PROVE  ledger'[m] - ledger[m] = Cardinality(Carriers(m)') - Cardinality(Carriers(m))
  <2>1. ledger[m] \in Int /\ Cardinality(Carriers(m)) \in Nat
    BY <1>1, CountFact DEF VarTypes
  <2>2. CASE handler[h] = Live(m)
    <3>1. ledger'[m] = ledger[m] - 1
      BY <1>1, <2>2 DEF Ack, Finish, Live, VarTypes
    <3>2. Cardinality(Carriers(m)') = Cardinality(Carriers(m)) - 1
      BY <1>1, <2>2, PermitReturns
    <3> QED BY <2>1, <3>1, <3>2
  <2>3. CASE handler[h] # Live(m)
    <3>1. ~handler[h].live \/ handler[h].msg # m
      BY <1>2, <2>3 DEF Live
    <3>2. ledger'[m] = ledger[m]
      BY <1>1, <1>2, <3>1 DEF Ack, Finish, VarTypes
    <3>3. NoDelivery # Live(m)
      BY LiveFact
    <3>4. Cardinality(Carriers(m)') =
              Cardinality(Carriers(m)) + (IF NoDelivery = Live(m) THEN 1 ELSE 0)
      BY <1>1, <2>3, PermitTakes
    <3> QED BY <2>1, <3>2, <3>3, <3>4
  <2> QED BY <2>2, <2>3
<1>4. \A m \in Msgs : /\ InHand(m)' = InHand(m) /\ InHand(m) \in Int
                      /\ ready[m] \in Nat /\ ready'[m] = ready[m]
                      /\ ledger[m] \in Int /\ ledger'[m] \in Int
  BY <1>1 DEF InHand, Live, TypeInv, VarTypes
<1>5. \A m \in Msgs : Cardinality(Carriers(m)) \in Nat /\ Cardinality(Carriers(m)') \in Int
  <2> SUFFICES ASSUME NEW m \in Msgs
               PROVE  Cardinality(Carriers(m)) \in Nat /\ Cardinality(Carriers(m)') \in Int
    OBVIOUS
  <2>1. IsFiniteSet(Carriers(m)')
    BY DeliveryAssumption, FS_Subset DEF DeliveryAssumption, Carriers
  <2> QED BY <1>1, <2>1, CountFact, FS_CardinalityType
<1> QED BY <1>3, <1>4, <1>5, Balanced

LEMMA LedgerStep == TypeInv /\ NoMessageLost /\ [Next]_vars => NoMessageLost'
<1> SUFFICES ASSUME TypeInv, NoMessageLost, [Next]_vars PROVE NoMessageLost'
  OBVIOUS
<1>1. TypeInv'
  BY TypeStep
<1>2. CASE UNCHANGED vars
  BY <1>1, <1>2, QuietBalances DEF vars
<1>3. ASSUME NEW t \in Tasks, TaskStep(t) PROVE NoMessageLost'
  BY <1>1, <1>3, TypeTask, QuietBalances DEF aroundTask
<1>4. CASE ApiStep
  <2>1. UNCHANGED <<handler, held>>
    BY <1>4, TypeApi DEF aroundApi
  <2>2. CASE UNCHANGED <<ready, ledger>>
    BY <1>1, <2>1, <2>2, QuietBalances
  <2>3. ASSUME NEW n, Enqueue(n) PROVE NoMessageLost'
    BY <1>1, <2>1, <2>3, EnqueueBalances
  <2>4. UNCHANGED <<ready, ledger>> \/ \E n : Enqueue(n)
    BY <1>4 DEF ApiStep, Republish, Revert, RetryRecipient, RetryEvent, ResetRows, Reap
  <2> QED BY <2>2, <2>3, <2>4
<1>5. ASSUME NEW n \in Published, Publish(n) PROVE NoMessageLost'
  BY <1>1, <1>5, EnqueueBalances DEF Publish
<1>6. ASSUME NEW n \in Msgs, Receive(n) PROVE NoMessageLost'
  BY <1>1, <1>6, ReceiveBalances
<1>7. ASSUME NEW h \in Handlers, Spawn(h) PROVE NoMessageLost'
  BY <1>1, <1>7, SpawnBalances
<1>8. ASSUME NEW h \in Handlers, Ack(h) PROVE NoMessageLost'
  BY <1>1, <1>8, AckBalances
<1>9. CASE Drain \/ Shutdown
  BY <1>1, <1>9, QuietBalances DEF Drain, Shutdown
<1>10. CASE ConnectionLost
  <2>1. \A m \in Msgs : held' # Live(m) /\ \A h \in Handlers : handler'[h] # Live(m)
    BY <1>10, LiveFact DEF ConnectionLost
  <2> QED BY <1>1, <1>10, <2>1, RequeueBalances DEF ConnectionLost
<1>11. ASSUME ProcessRestarts PROVE NoMessageLost'
  <2>1. \A m \in Msgs : held' # Live(m) /\ \A h \in Handlers : handler'[h] # Live(m)
    BY <1>11, LiveFact DEF ProcessRestarts
  <2> QED BY <1>1, <1>11, <2>1, RequeueBalances DEF ProcessRestarts
<1>12. CASE Crash \/ DrainedExit \/ ForcedExit
  BY <1>11, <1>12 DEF Crash, DrainedExit, ForcedExit
<1> QED BY <1>2, <1>3, <1>4, <1>5, <1>6, <1>7, <1>8, <1>9, <1>10, <1>12
        DEF Next, RunnerStep, Environment, ApiStep

\* Every copy of a message that was not acknowledged on a live channel waits
\* in the queue or is in exactly one live delivery, through lost connections,
\* crashes, late acks and any number of permits.
THEOREM LedgerBalances == Spec => []NoMessageLost
<1>1. Init => NoMessageLost
  <2> SUFFICES ASSUME Init, NEW m \in Msgs PROVE ledger[m] = Requeued[m]
    BY DEF NoMessageLost
  <2>1. VarTypes
    BY TypeInit DEF TypeInv
  <2>2. Carriers(m) = {} /\ InHand(m) = 0
    BY LiveFact DEF Init, Carriers, InHand
  <2>3. Cardinality({}) = 0
    BY FS_EmptySet
  <2>4. ready[m] = 0 /\ ledger[m] = 0
    BY DEF Init
  <2> QED BY <2>1, <2>2, <2>3, <2>4, CountFact
<1> QED BY <1>1, TypeInit, TypeStep, LedgerStep, PTL DEF Spec

-----------------------------------------------------------------------------
(***************************************************************************)
(* An acknowledged recipient has left a trace.  The strengthening: every   *)
(* task that has returned has a row, or lost its status write.             *)
(***************************************************************************)
Traced(k) == Exists(log, k) \/ k \in unrecorded

DoneLeavesTrace == \A t \in Tasks : task[t].pc = "done" => Traced(Key(t))

TraceInv == AckLeavesTrace /\ DoneLeavesTrace

\* A trace is never removed.
TracesStay == \A k \in Keys : Traced(k) => Traced(k)'

\* A step that settles nothing and ends no task.
LEMMA QuietTrace ==
    ASSUME TypeInv, TraceInv, TracesStay, UNCHANGED settled,
           \A t \in Tasks : task'[t].pc = "done" =>
               task[t].pc = "done" /\ Key(t)' = Key(t)
    PROVE  TraceInv'
<1>1. \A t \in Tasks : task[t].pc = "done" => Key(t) \in Keys
  BY KeyType DEF TypeInv
<1>2. AckLeavesTrace'
  BY DEF TraceInv, AckLeavesTrace, TracesStay, Traced, TypeInv, VarTypes
<1>3. DoneLeavesTrace'
  <2> SUFFICES ASSUME NEW t \in Tasks, task'[t].pc = "done"
               PROVE  Exists(log', Key(t)') \/ Key(t)' \in unrecorded'
    BY DEF DoneLeavesTrace, Traced
  <2>1. Traced(Key(t)) /\ Key(t) \in Keys /\ Key(t)' = Key(t)
    BY <1>1 DEF TraceInv, DoneLeavesTrace
  <2> QED BY <2>1 DEF TracesStay, Traced
<1> QED BY <1>2, <1>3 DEF TraceInv

\* A step of task t that ends, if at all, with a trace of its key.
LEMMA EndingTrace ==
    ASSUME TypeInv, TraceInv, TracesStay, NEW t \in Tasks, TaskStep(t),
           task'[t].pc = "done" => Exists(log', Key(t)) \/ Key(t) \in unrecorded'
    PROVE  TraceInv'
<1>1. Moves(t) /\ UNCHANGED aroundTask
  BY TypeTask
<1>2. \A u \in Tasks : Key(u)' = Key(u)
  BY <1>1 DEF aroundTask, Key
<1>3. \A u \in Tasks : task[u].pc = "done" => Key(u) \in Keys
  BY KeyType DEF TypeInv
<1>4. AckLeavesTrace'
  BY <1>1 DEF TraceInv, AckLeavesTrace, TracesStay, Traced, TypeInv, VarTypes, aroundTask
<1>5. DoneLeavesTrace'
  <2> SUFFICES ASSUME NEW u \in Tasks, task'[u].pc = "done"
               PROVE  Exists(log', Key(u)) \/ Key(u) \in unrecorded'
    BY <1>2 DEF DoneLeavesTrace, Traced
  <2>1. CASE u = t
    BY <2>1
  <2>2. CASE u # t
    <3>1. task[u].pc = "done" /\ Key(u) \in Keys
      BY <1>1, <1>3, <2>2 DEF Moves
    <3>2. Traced(Key(u))
      BY <3>1 DEF TraceInv, DoneLeavesTrace
    <3> QED BY <3>1, <3>2 DEF TracesStay, Traced
  <2> QED BY <2>1, <2>2
<1> QED BY <1>4, <1>5 DEF TraceInv

\* A status write whose result is dropped leaves a trace of its key.
LEMMA WriteLeavesTrace ==
    ASSUME TypeInv, NEW t \in Tasks, task[t].pc # "none", NEW x \in BOOLEAN,
           NEW new \in {MarkSent(log, Key(t)), MarkBlocked(log, Key(t)),
                        MarkFailed(log, Key(t), x)},
           DroppedResultWrite(t, new)
    PROVE  TracesStay /\ (Exists(log', Key(t)) \/ Key(t) \in unrecorded')
<1>1. Keeps(Keys, log, log') /\ Key(t) \in Keys
  BY WriteFact, KeyType DEF TypeInv
<1>2. unrecorded \subseteq unrecorded'
      /\ (Exists(log, Key(t)) \/ Key(t) \in unrecorded')
  BY DEF DroppedResultWrite
<1> QED BY <1>1, <1>2 DEF Keeps, TracesStay, Traced

LEMMA TraceTask ==
    ASSUME TypeInv, TraceInv, NEW t \in Tasks, TaskStep(t)
    PROVE  TraceInv'
<1>1. task[t].pc # "none" /\ VarTypes /\ SpawnedHasMessage
  BY TypeTask DEF TypeInv
<1>2. Key(t) \in Keys /\ log \in [Keys -> Row]
  BY <1>1, KeyType DEF VarTypes
<1>3. /\ {"permanent", "transient", "ratelimited"} = Errors
      /\ {"insert", "filter", "block", "token", "send", "marksent", "check", "done"}
           \subseteq PCs
  BY DEF Errors, PCs
<1>4. ASSUME UNCHANGED <<log, unrecorded>> PROVE TracesStay
  BY <1>4 DEF TracesStay, Traced
<1>5. CASE Check(t)
  <2>1. task'[t].pc \in {"insert", "fail"}
    BY <1>1, <1>3, <1>5, GotoMoves, FailWithMoves DEF Check
  <2> QED BY <1>4, <1>5, <2>1, EndingTrace DEF Check, deliveryHistory
<1>6. CASE Insert(t)
  <2>1. log' \in {log, InsertPending(log, Key(t))} /\ UNCHANGED unrecorded
    BY <1>6 DEF Insert
  <2>2. Keeps(Keys, log, log')
    BY <1>2, <2>1, InsertPendingFact DEF Keeps
  <2>3. TracesStay
    BY <2>1, <2>2 DEF Keeps, TracesStay, Traced
  <2>4. task'[t].pc = "done" => Terminal(log[Key(t)].status)
    <3>1. CASE Goto(t, "filter") \/ FailWith(t, "transient")
      <4>1. task'[t].pc # "done"
        BY <1>1, <1>3, <3>1, GotoMoves, FailWithMoves
      <4> QED BY <4>1
    <3>2. CASE task' = [task EXCEPT ![t].pc = "check", ![t].attempt = log[Key(t)].retry]
      BY <1>1, <3>2 DEF VarTypes, Task
    <3> QED BY <1>6, <3>1, <3>2 DEF Insert
  <2>5. Terminal(log[Key(t)].status) => Exists(log, Key(t))
    BY DEF Terminal, Exists
  <2> QED BY <1>2, <2>2, <2>3, <2>4, <2>5, EndingTrace DEF Keeps
<1>7. CASE Filter(t)
  <2>1. task'[t].pc \in {"block", "token"}
    BY <1>1, <1>3, <1>7, GotoMoves DEF Filter
  <2> QED BY <1>4, <1>7, <2>1, EndingTrace DEF Filter, deliveryHistory
<1>8. CASE Token(t)
  <2>1. task'[t].pc \in {"send", "fail"}
    BY <1>1, <1>3, <1>8, GotoMoves, FailWithMoves DEF Token
  <2> QED BY <1>4, <1>8, <2>1, EndingTrace DEF Token, deliveryHistory
<1>9. CASE Send(t)
  <2>1. task'[t].pc # "done"
    <3>1. PICK o \in SendOutcomes :
            IF o.err = "none" THEN Goto(t, "marksent") ELSE FailWith(t, o.err)
      BY <1>9 DEF Send
    <3>2. CASE o.err = "none"
      BY <1>1, <1>3, <3>1, <3>2, GotoMoves
    <3>3. CASE o.err # "none"
      BY <1>1, <3>1, <3>3, OutcomeFact, FailWithMoves
    <3> QED BY <3>2, <3>3
  <2> QED BY <1>4, <1>9, <2>1, EndingTrace DEF Send
<1>10. CASE Wake(t)
  <2>1. task'[t].pc = "check"
    BY <1>1, <1>3, <1>10, GotoMoves DEF Wake
  <2> QED BY <1>4, <1>10, <2>1, EndingTrace DEF Wake, deliveryHistory
<1>11. CASE Block(t)
  BY <1>1, <1>11, WriteLeavesTrace, EndingTrace DEF Block
<1>12. CASE RecordSent(t)
  BY <1>1, <1>12, WriteLeavesTrace, EndingTrace DEF RecordSent
<1>13. CASE Fail(t)
  <2>1. GivesUp(t) \in BOOLEAN
    BY DEF GivesUp
  <2> QED BY <1>1, <1>13, <2>1, WriteLeavesTrace, EndingTrace DEF Fail
<1>14. CASE StopBackoff(t)
  BY <1>1, <1>14, WriteLeavesTrace, EndingTrace DEF StopBackoff
<1>15. CASE Panic(t)
  <2>1. UNCHANGED log /\ unrecorded \subseteq unrecorded'
        /\ (Exists(log, Key(t)) \/ Key(t) \in unrecorded')
    BY <1>15 DEF Panic
  <2> QED BY <2>1, EndingTrace DEF TracesStay, Traced
<1> QED BY <1>5, <1>6, <1>7, <1>8, <1>9, <1>10, <1>11, <1>12, <1>13, <1>14, <1>15
        DEF TaskStep

\* The ack settles the recipients of a delivery all of whose tasks returned.
LEMMA TraceAck ==
    ASSUME TypeInv, TraceInv, NEW h \in Handlers, Ack(h)
    PROVE  TraceInv'
<1>1. UNCHANGED <<log, unrecorded>> /\ handler[h].msg \in Msgs
  BY DEF Ack, Finish, deliveryHistory, TypeInv, VarTypes, Deliveries
<1>2. ASSUME NEW k \in settled' PROVE Exists(log, k) \/ k \in unrecorded
  <2>1. CASE k \in settled
    BY <2>1 DEF TraceInv, AckLeavesTrace
  <2>2. CASE k \in {handler[h].msg.event} \X handler[h].msg.to
    <3>1. /\ k[2] \in handler[h].msg.to /\ <<h, k[2]>> \in Tasks
          /\ Key(<<h, k[2]>>) = k
      BY <1>1, <2>2 DEF Msgs, Tasks, Key
    <3>2. task[<<h, k[2]>>].pc = "done"
      BY <3>1 DEF Ack
    <3> QED BY <3>1, <3>2 DEF TraceInv, DoneLeavesTrace, Traced
  <2> QED BY <1>2, <2>1, <2>2 DEF Ack, Finish
<1>3. AckLeavesTrace'
  BY <1>1, <1>2 DEF AckLeavesTrace
<1>4. DoneLeavesTrace'
  <2> SUFFICES ASSUME NEW t \in Tasks, task'[t].pc = "done"
               PROVE  Exists(log, Key(t)') \/ Key(t)' \in unrecorded
    BY <1>1 DEF DoneLeavesTrace, Traced
  <2>1. t[1] \in Handlers
    BY DEF Tasks
  <2>2. t[1] # h /\ task[t].pc = "done"
    BY IdleTypes DEF Ack, Finish
  <2>3. Key(t)' = Key(t)
    BY <2>1, <2>2 DEF Ack, Finish, Key, TypeInv, VarTypes
  <2> QED BY <2>2, <2>3 DEF TraceInv, DoneLeavesTrace, Traced
<1> QED BY <1>3, <1>4 DEF TraceInv

LEMMA TraceApi ==
    ASSUME TypeInv, TraceInv, ApiStep
    PROVE  TraceInv'
<1>1. UNCHANGED aroundApi
  BY TypeApi
<1>2. log \in [Keys -> Row] /\ api.keys \in SUBSET Keys /\ VarTypes
  BY DEF TypeInv, VarTypes
<1>3. \A j \in Keys : Exists(log, j) => Exists(log', j)
  <2>1. CASE Republish
    BY <2>1 DEF Republish
  <2>2. CASE Revert
    BY <1>2, <2>2, ResetFact DEF Revert, Keeps
  <2>3. ASSUME NEW K \in SUBSET Keys, ResetRows(K)
        PROVE  \A j \in Keys : Exists(log, j) => Exists(log', j)
    BY <1>2, <2>3, ResetFact DEF ResetRows, Keeps
  <2>4. ASSUME NEW K \in SUBSET Keys, Reap(K)
        PROVE  \A j \in Keys : Exists(log, j) => Exists(log', j)
    BY <1>2, <2>4, ResetFact DEF Reap, ReapStalePending, Keeps
  <2> QED BY <1>2, <2>1, <2>2, <2>3, <2>4, ApiResets DEF ApiStep
<1>4. TracesStay
  BY <1>1, <1>3 DEF aroundApi, TracesStay, Traced
<1>5. \A t \in Tasks : Key(t)' = Key(t)
  BY <1>1 DEF aroundApi, Key
<1> QED BY <1>1, <1>4, <1>5, QuietTrace DEF aroundApi

LEMMA TraceStep == TypeInv /\ TraceInv /\ [Next]_vars => TraceInv'
<1> SUFFICES ASSUME TypeInv, TraceInv, [Next]_vars PROVE TraceInv'
  OBVIOUS
<1>1. ASSUME UNCHANGED <<log, unrecorded>> PROVE TracesStay
  BY <1>1 DEF TracesStay, Traced
<1>2. \A t \in Tasks : t[1] \in Handlers
  BY DEF Tasks
<1>3. ASSUME UNCHANGED <<log, unrecorded, settled, handler, task>> PROVE TraceInv'
  <2>1. \A t \in Tasks : Key(t)' = Key(t)
    BY <1>3 DEF Key
  <2> QED BY <1>1, <1>3, <2>1, QuietTrace
<1>4. CASE UNCHANGED vars
  BY <1>3, <1>4 DEF vars
<1>5. ASSUME NEW h \in Handlers, Spawn(h) PROVE TraceInv'
  <2>1. ASSUME NEW t \in Tasks, task'[t].pc = "done"
        PROVE  task[t].pc = "done" /\ Key(t)' = Key(t)
    <3>1. task'[t] = task[t]
      BY <1>5, <2>1 DEF Spawn, NoTask
    <3>2. t[1] # h
      <4>1. NoDelivery.msg \notin Msgs
        BY DeliveryAssumption DEF NoDelivery, DeliveryAssumption
      <4> QED BY <1>5, <2>1, <3>1, <4>1 DEF Spawn, TypeInv, SpawnedHasMessage
    <3> QED BY <1>2, <1>5, <2>1, <3>1, <3>2 DEF Spawn, Key, TypeInv, VarTypes
  <2> QED BY <1>1, <1>5, <2>1, QuietTrace DEF Spawn, deliveryHistory
<1>6. CASE ConnectionLost
  <2>1. \A t \in Tasks : task'[t] = task[t] /\ Key(t)' = Key(t)
    BY <1>2, <1>6 DEF ConnectionLost, Dead, Key
  <2> QED BY <1>1, <1>6, <2>1, QuietTrace DEF ConnectionLost, deliveryHistory
<1>7. ASSUME ProcessRestarts PROVE TraceInv'
  <2>1. \A t \in Tasks : task'[t].pc = "none"
    BY <1>7, IdleTypes DEF ProcessRestarts
  <2> QED BY <1>1, <1>7, <2>1, QuietTrace DEF ProcessRestarts, deliveryHistory
<1>8. CASE Crash \/ DrainedExit \/ ForcedExit
  BY <1>7, <1>8 DEF Crash, DrainedExit, ForcedExit
<1>9. CASE Drain \/ Shutdown \/ (\E m \in Msgs : Receive(m)) \/ \E m \in Published : Publish(m)
  BY <1>3, <1>9 DEF Drain, Shutdown, Receive, Publish, deliveryHistory
<1>10. CASE \E h \in Handlers : Ack(h)
  BY <1>10, TraceAck
<1>11. CASE \E t \in Tasks : TaskStep(t)
  BY <1>11, TraceTask
<1>12. CASE ApiStep
  BY <1>12, TraceApi
<1> QED BY <1>4, <1>5, <1>6, <1>8, <1>9, <1>10, <1>11, <1>12
        DEF Next, RunnerStep, Environment, ApiStep

\* Every recipient of an acknowledged delivery has a row in the log, unless a
\* status write for it failed or hit no row; no retry, reaper run, restart or
\* redelivery takes the row away.
THEOREM AckIsTraced == Spec => []AckLeavesTrace
<1>1. Init => TraceInv
  BY IdleTypes DEF Init, TraceInv, AckLeavesTrace, DoneLeavesTrace
<1>2. TraceInv => AckLeavesTrace
  BY DEF TraceInv
<1> QED BY <1>1, <1>2, TypeInit, TypeStep, TraceStep, PTL DEF Spec
=============================================================================
