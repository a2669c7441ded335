---------------------------- MODULE IntakeProofs ----------------------------
(***************************************************************************)
(* Proofs about Intake, for every set of messages and bodies, any number   *)
(* of permits, every limit and every budget of faults.                     *)
(***************************************************************************)
EXTENDS Intake, NotificationLogProofs, FiniteSetTheorems, SequenceTheorems,
        WellFoundedInduction, TLAPS

\* The delivery a permit is busy with.
Job == [msg: Msgs, pc: PCs, live: BOOLEAN]

\* What the place of a handler tells of its message.
StageKnown ==
    \A h \in Handlers :
        LET b == body[handler[h].msg] IN
        /\ handler[h].pc = "skip" => b.recipients = 0
        /\ handler[h].pc = "sentinel" => b.recipients > MaxRecipients
        /\ handler[h].pc = "fetch" => b.refs # <<>>
        /\ handler[h].pc \in {"defer", "fetch", "dispatch"} => b.recipients \in 1 .. MaxRecipients

\* Only a message without recipients or with too many gets a sentinel row,
\* and only a body that does not parse or attachments lead to the DLQ.
RefusedForCause ==
    \A m \in Msgs :
        /\ Exists(log, m) => body[m].recipients = 0 \/ body[m].recipients > MaxRecipients
        /\ dlq[m] > 0 => body[m].garbled \/ body[m].refs # <<>>

\* The message was worked off, or its row was written or given up.
Handled(m) == m \in dispatched \/ Exists(log, m) \/ m \in unrecorded

\* A delivery is acknowledged only after that.
AckIsHandled ==
    \A h \in Handlers :
        /\ handler[h].pc = "ack" => Handled(handler[h].msg)
        /\ handler[h].pc = "exhaust" => Exists(log, handler[h].msg)

InSeq(s, m) == \E i \in DOMAIN s : s[i] = m

\* The broker has a copy of m.
Present(m) ==
    \/ ready[m] > 0
    \/ InSeq(delayed, m)
    \/ \E h \in Handlers : handler[h].msg = m /\ handler[h].live

NoneLost == \A m \in published : Present(m) \/ dlq[m] > 0 \/ Handled(m)

\* There is one delivery of m: in the queue, with one handler, or dead.
OneDelivery(m) ==
    /\ ready[m] + dlq[m] <= 1
    /\ ~InSeq(delayed, m)
    /\ \A h \in Handlers : handler[h].msg = m =>
         /\ ready[m] = 0 /\ dlq[m] = 0
         /\ handler[h].live
         /\ m \in dispatched => handler[h].pc = "ack"
         /\ \A g \in Handlers : handler[g].msg = m => g = h
    /\ m \in dispatched => ready[m] = 0 /\ dlq[m] = 0
    /\ m \notin published =>
         /\ ready[m] = 0 /\ dlq[m] = 0 /\ m \notin dispatched
         /\ \A h \in Handlers : handler[h].msg # m

OneDeliveryUnlessCopied == \A m \in Msgs \ copied : OneDelivery(m)

IntakeInv ==
    /\ VarTypes
    /\ StageKnown
    /\ RefusedForCause
    /\ AckIsHandled
    /\ NoneLost
    /\ OneDeliveryUnlessCopied

-----------------------------------------------------------------------------
(***************************************************************************)
(* What the steps do to the permits and the queues.                        *)
(***************************************************************************)

\* Permit h goes on with its delivery at pc, or gives it up.
GoesOn(h, pc) ==
    /\ handler[h] \in Job /\ handler'[h] \in Job
    /\ handler'[h].msg = handler[h].msg /\ handler'[h].live = handler[h].live
    /\ handler'[h].pc = pc
    /\ \A g \in Handlers : g # h => handler'[g] = handler[g]

Ends(h) ==
    /\ handler[h] \in Job
    /\ handler'[h] = Free
    /\ \A g \in Handlers : g # h => handler'[g] = handler[g]

\* The broker takes the delivery of h into a queue, if it is live.
Takes(h, queue, new) ==
    /\ new \in [Msgs -> Nat]
    /\ handler[h].live => new[handler[h].msg] = queue[handler[h].msg] + 1
    /\ ~handler[h].live => new[handler[h].msg] = queue[handler[h].msg]
    /\ \A m \in Msgs : m # handler[h].msg => new[m] = queue[m]

LEMMA FreeFact ==
    Free.msg \notin Msgs /\ Free.pc = "free" /\ Free.live = FALSE
    /\ [Free EXCEPT !.live = FALSE] = Free
<1>1. NoMsg \notin Msgs
  BY IntakeAssumption DEF IntakeAssumption
<1>2. Free.msg \notin Msgs /\ Free.pc = "free" /\ Free.live = FALSE
  BY <1>1 DEF Free
<1>3. [Free EXCEPT !.live = FALSE] = Free
  <2> DEFINE R == [msg: {NoMsg}, pc: {"free"}, live: {FALSE}]
  <2>1. Free \in R
    BY DEF Free
  <2>2. [Free EXCEPT !.live = FALSE] \in R
    BY <2>1
  <2>3. \A x, y \in R : x.msg = y.msg /\ x.pc = y.pc /\ x.live = y.live => x = y
    OBVIOUS
  <2>4. \A x \in R : x.msg = NoMsg /\ x.pc = "free" /\ x.live = FALSE
    OBVIOUS
  <2> HIDE DEF R
  <2> QED BY <2>1, <2>2, <2>3, <2>4
<1> QED BY <1>2, <1>3

\* A permit whose handler is somewhere has a delivery.
LEMMA BusyFact ==
    ASSUME VarTypes, NEW h \in Handlers
    PROVE  /\ handler \in [Handlers -> Job \cup {Free}]
           /\ handler[h].pc \in PCs <=> handler[h] \in Job
           /\ handler[h] \in Job \/ handler[h] = Free
           /\ handler[h].msg \in Msgs <=> handler[h] \in Job
           /\ handler[h].live \in BOOLEAN
<1>1. handler \in [Handlers -> Job \cup {Free}]
  BY DEF VarTypes, Job
<1>2. handler[h] \in Job \/ handler[h] = Free
  BY <1>1
<1>3. CASE handler[h] \in Job
  BY <1>1, <1>3 DEF Job
<1>4. CASE handler[h] = Free
  BY <1>1, <1>4, FreeFact DEF PCs, Job
<1> QED BY <1>2, <1>3, <1>4

LEMMA GotoFact ==
    ASSUME VarTypes, NEW h \in Handlers, NEW pc \in PCs, handler[h].pc \in PCs, Goto(h, pc)
    PROVE  handler' \in [Handlers -> Job \cup {Free}] /\ GoesOn(h, pc)
<1>1. handler \in [Handlers -> Job \cup {Free}] /\ handler[h] \in Job
  BY BusyFact
<1>2. [handler[h] EXCEPT !.pc = pc] \in Job
  BY <1>1 DEF Job
<1>3. handler' = [handler EXCEPT ![h] = [handler[h] EXCEPT !.pc = pc]]
  BY DEF Goto
<1>4. /\ handler' \in [Handlers -> Job \cup {Free}]
      /\ handler'[h] = [handler[h] EXCEPT !.pc = pc]
      /\ \A g \in Handlers : g # h => handler'[g] = handler[g]
  BY <1>1, <1>2, <1>3
<1> QED BY <1>1, <1>2, <1>4 DEF GoesOn, Job

LEMMA ReleaseFact ==
    ASSUME VarTypes, NEW h \in Handlers, handler[h].pc \in PCs, Release(h)
    PROVE  handler' \in [Handlers -> Job \cup {Free}] /\ Ends(h)
<1>1. handler \in [Handlers -> Job \cup {Free}] /\ handler[h] \in Job
  BY BusyFact
<1> QED BY <1>1 DEF Release, Ends

LEMMA AddIfLiveFact ==
    ASSUME NEW h \in Handlers, handler[h] \in Job, NEW queue \in [Msgs -> Nat]
    PROVE  Takes(h, queue, AddIfLive(h, queue))
<1>1. handler[h].msg \in Msgs /\ handler[h].live \in BOOLEAN
  BY DEF Job
<1>2. queue[handler[h].msg] \in Nat /\ queue[handler[h].msg] + 1 \in Nat
  BY <1>1
<1> QED BY <1>1, <1>2 DEF Takes, AddIfLive

LEMMA SpendFact ==
    ASSUME VarTypes, NEW kind \in BudgetKinds, Spend(kind)
    PROVE  budget' \in [BudgetKinds -> Nat]
BY DEF VarTypes, Spend

LEMMA SpendKinds == "outage" \in BudgetKinds /\ "dberr" \in BudgetKinds /\ "fetch" \in BudgetKinds
BY DEF BudgetKinds

\* Where triage sends a message, and what is known there.
LEMMA StageFact ==
    ASSUME NEW m \in Msgs, VarTypes
    PROVE  /\ Stage(m) \in {"skip", "sentinel", "defer", "fetch", "dispatch"}
           /\ Stage(m) \in PCs
           /\ Stage(m) = "skip" => body[m].recipients = 0
           /\ Stage(m) = "sentinel" => body[m].recipients > MaxRecipients
           /\ Stage(m) = "fetch" => body[m].refs # <<>>
           /\ Stage(m) \in {"defer", "fetch", "dispatch"} =>
                body[m].recipients \in 1 .. MaxRecipients
<1>1. body[m].recipients \in Nat /\ MaxRecipients \in Nat
  BY IntakeAssumption DEF IntakeAssumption, VarTypes, Body
<1> QED BY <1>1 DEF Stage, PCs

\* The live deliveries of m, as a set.
Live(m) == {h \in Handlers : handler[h].msg = m /\ handler[h].live}

LEMMA RequeuedFact ==
    ASSUME VarTypes
    PROVE  /\ Requeued \in [Msgs -> Nat]
           /\ \A m \in Msgs :
                /\ Requeued[m] > 0 <=> ready[m] > 0 \/ Live(m) # {}
                /\ Live(m) = {} => Requeued[m] = ready[m]
<1>1. ASSUME NEW m \in Msgs
      PROVE  /\ Cardinality(Live(m)) \in Nat
             /\ Cardinality(Live(m)) = 0 <=> Live(m) = {}
  <2>1. IsFiniteSet(Handlers) /\ Live(m) \in SUBSET Handlers
    BY IntakeAssumption DEF IntakeAssumption, Live
  <2>2. IsFiniteSet(Live(m))
    BY <2>1, FS_Subset
  <2> QED BY <2>2, FS_EmptySet, FS_CardinalityType
<1>2. Requeued = [m \in Msgs |-> ready[m] + Cardinality(Live(m))]
  BY DEF Requeued, Live
<1>3. ready \in [Msgs -> Nat]
  BY DEF VarTypes
<1>4. ASSUME NEW m \in Msgs
      PROVE  /\ Requeued[m] \in Nat
             /\ Requeued[m] > 0 <=> ready[m] > 0 \/ Live(m) # {}
             /\ Live(m) = {} => Requeued[m] = ready[m]
  <2>1. Requeued[m] = ready[m] + Cardinality(Live(m))
    BY <1>2
  <2>2. ready[m] \in Nat
    BY <1>3
  <2>3. Cardinality(Live(m)) \in Nat /\ (Cardinality(Live(m)) = 0 <=> Live(m) = {})
    BY <1>1
  <2> QED BY <2>1, <2>2, <2>3
<1>5. Requeued \in [Msgs -> Nat]
  BY <1>2, <1>4
<1> QED BY <1>4, <1>5

\* The delayed queue: what a copy at its tail and an expiry at its head
\* change in what it holds.
LEMMA AppendFact ==
    ASSUME NEW s \in Seq(Msgs), NEW x \in Msgs
    PROVE  /\ Append(s, x) \in Seq(Msgs)
           /\ \A m \in Msgs : InSeq(Append(s, x), m) <=> InSeq(s, m) \/ m = x
<1>1. /\ Append(s, x) \in Seq(Msgs) /\ Len(Append(s, x)) = Len(s) + 1
      /\ \A i \in 1 .. Len(s) : Append(s, x)[i] = s[i]
      /\ Append(s, x)[Len(s) + 1] = x
      /\ Len(s) \in Nat
  BY AppendProperties, LenProperties
<1>2. DOMAIN s = 1 .. Len(s) /\ DOMAIN Append(s, x) = 1 .. Len(s) + 1
  BY <1>1, LenProperties
<1> QED BY <1>1, <1>2 DEF InSeq

LEMMA TailFact ==
    ASSUME NEW s \in Seq(Msgs), s # <<>>
    PROVE  /\ Tail(s) \in Seq(Msgs) /\ Head(s) \in Msgs
           /\ \A m \in Msgs : InSeq(s, m) <=> InSeq(Tail(s), m) \/ m = Head(s)
<1>1. /\ Tail(s) \in Seq(Msgs) /\ Len(Tail(s)) = Len(s) - 1
      /\ \A i \in 1 .. Len(Tail(s)) : Tail(s)[i] = s[i + 1]
      /\ Head(s) \in Msgs /\ Head(s) = s[1] /\ Len(s) \in Nat /\ Len(s) > 0
  BY HeadTailProperties, LenProperties, EmptySeq
<1>2. DOMAIN s = 1 .. Len(s) /\ DOMAIN Tail(s) = 1 .. Len(s) - 1
  BY <1>1, LenProperties
<1>3. \A i \in 2 .. Len(s) : i - 1 \in DOMAIN Tail(s) /\ Tail(s)[i - 1] = s[i]
  BY <1>1, <1>2
<1>4. ASSUME NEW m \in Msgs PROVE InSeq(s, m) <=> InSeq(Tail(s), m) \/ m = Head(s)
  <2>1. ASSUME InSeq(s, m) PROVE InSeq(Tail(s), m) \/ m = Head(s)
    <3>1. PICK i \in 1 .. Len(s) : s[i] = m
      BY <1>2, <2>1 DEF InSeq
    <3>2. CASE i = 1
      BY <1>1, <3>1, <3>2
    <3>3. CASE i # 1
      <4>1. i \in 2 .. Len(s)
        BY <1>1, <3>3
      <4> QED BY <1>3, <3>1, <4>1 DEF InSeq
    <3> QED BY <3>2, <3>3
  <2>2. ASSUME InSeq(Tail(s), m) PROVE InSeq(s, m)
    BY <1>1, <1>2, <2>2 DEF InSeq
  <2>3. ASSUME m = Head(s) PROVE InSeq(s, m)
    BY <1>1, <1>2, <2>3 DEF InSeq
  <2> QED BY <2>1, <2>2, <2>3
<1> QED BY <1>1, <1>4

\* Present is what InBroker counts.
LEMMA PresentFact ==
    ASSUME VarTypes, NEW m \in Msgs
    PROVE  InBroker(m) > 0 <=> Present(m)
<1> DEFINE Waiting == {i \in DOMAIN delayed : delayed[i] = m}
<1>1. Requeued[m] \in Nat /\ (Requeued[m] > 0 <=> ready[m] > 0 \/ Live(m) # {})
  BY RequeuedFact
<1>2. IsFiniteSet(Waiting)
  <2>1. DOMAIN delayed = 1 .. Len(delayed) /\ Len(delayed) \in Nat
    BY LenProperties DEF VarTypes
  <2>2. IsFiniteSet(1 .. Len(delayed))
    BY <2>1, FS_Interval
  <2> QED BY <2>1, <2>2, FS_Subset
<1>3. Cardinality(Waiting) \in Nat /\ (Cardinality(Waiting) = 0 <=> Waiting = {})
  BY <1>2, FS_EmptySet, FS_CardinalityType
<1>4. InBroker(m) = Requeued[m] + Cardinality(Waiting)
  BY DEF InBroker
<1>5. InSeq(delayed, m) <=> Waiting # {}
  BY DEF InSeq
<1>6. (\E h \in Handlers : handler[h].msg = m /\ handler[h].live) <=> Live(m) # {}
  BY DEF Live
<1> HIDE DEF Waiting
<1> QED BY <1>1, <1>3, <1>4, <1>5, <1>6 DEF Present

-----------------------------------------------------------------------------
(***************************************************************************)
(* The invariant, by kinds of steps.                                       *)
(***************************************************************************)

\* What a step of permit h knows of the others.
LEMMA OthersStay ==
    ASSUME VarTypes, NEW h \in Handlers, handler[h] \in Job,
           \A g \in Handlers : g # h => handler'[g] = handler[g],
           handler'[h].msg = handler[h].msg /\ handler'[h].live = handler[h].live
    PROVE  \A g \in Handlers : handler'[g].msg = handler[g].msg
                               /\ handler'[g].live = handler[g].live
OBVIOUS

\* The handler goes on: it may write the row of its message, for a cause,
\* and may only be at the ack with its message handled.
LEMMA GoOnKeeps ==
    ASSUME IntakeInv, VarTypes', NEW h \in Handlers, NEW pc, GoesOn(h, pc),
           handler[h].pc # "ack",
           UNCHANGED <<body, published, ready, delayed, dlq, copied>>,
           dispatched \subseteq dispatched', unrecorded \subseteq unrecorded',
           dispatched' \subseteq dispatched \cup {handler[h].msg},
           handler[h].msg \in dispatched' => handler[h].msg \in dispatched \/ pc = "ack",
           \A m \in Msgs : Exists(log, m) => Exists(log', m),
           \A m \in Msgs : Exists(log', m) =>
              \/ Exists(log, m)
              \/ body[m].recipients = 0 \/ body[m].recipients > MaxRecipients,
           pc = "skip" => body[handler[h].msg].recipients = 0,
           pc = "sentinel" => body[handler[h].msg].recipients > MaxRecipients,
           pc = "fetch" => body[handler[h].msg].refs # <<>>,
           pc \in {"defer", "fetch", "dispatch"} =>
              body[handler[h].msg].recipients \in 1 .. MaxRecipients,
           pc = "ack" => Handled(handler[h].msg)',
           pc = "exhaust" => Exists(log', handler[h].msg)
    PROVE  IntakeInv'
<1>1. /\ VarTypes /\ handler[h] \in Job /\ handler[h].msg \in Msgs
      /\ handler'[h].msg = handler[h].msg /\ handler'[h].live = handler[h].live
      /\ handler'[h].pc = pc
      /\ \A g \in Handlers : g # h => handler'[g] = handler[g]
  BY DEF IntakeInv, GoesOn, Job
<1>2. \A g \in Handlers : handler'[g].msg = handler[g].msg /\ handler'[g].live = handler[g].live
  BY <1>1, OthersStay
<1>3. \A m \in Msgs : Handled(m) => Handled(m)'
  BY DEF Handled
<1>4. StageKnown'
  BY <1>1 DEF IntakeInv, StageKnown
<1>5. RefusedForCause'
  BY DEF IntakeInv, RefusedForCause
<1>6. AckIsHandled'
  <2> SUFFICES ASSUME NEW g \in Handlers
               PROVE  /\ handler'[g].pc = "ack" => Handled(handler[g].msg)'
                      /\ handler'[g].pc = "exhaust" => Exists(log', handler'[g].msg)
    BY DEF AckIsHandled
  <2>1. CASE g = h
    BY <1>1, <2>1 DEF Handled
  <2>2. CASE g # h
    <3>1. handler'[g] = handler[g]
      BY <1>1, <2>2
    <3>2. handler[g].pc \in {"ack", "exhaust"} => handler[g].msg \in Msgs
      BY <1>1, BusyFact DEF PCs
    <3>3. /\ handler[g].pc = "ack" => Handled(handler[g].msg)
          /\ handler[g].pc = "exhaust" => Exists(log, handler[g].msg)
      BY DEF IntakeInv, AckIsHandled
    <3> QED BY <3>1, <3>2, <3>3 DEF Handled
  <2> QED BY <2>1, <2>2
<1>7. NoneLost'
  <2>1. \A m \in Msgs : Present(m)' <=> Present(m)
    BY <1>2 DEF Present
  <2>2. published \subseteq Msgs
    BY <1>1 DEF VarTypes
  <2> QED BY <1>3, <2>1, <2>2 DEF IntakeInv, NoneLost
<1>8. OneDeliveryUnlessCopied'
  <2> SUFFICES ASSUME NEW m \in Msgs \ copied PROVE OneDelivery(m)'
    BY DEF OneDeliveryUnlessCopied
  <2>1. OneDelivery(m)
    BY DEF IntakeInv, OneDeliveryUnlessCopied
  <2>2. CASE m = handler[h].msg
    <3>1. m \notin dispatched /\ m \in published
      BY <1>1, <2>1, <2>2 DEF OneDelivery
    <3>2. m \in dispatched' => pc = "ack"
      BY <2>2, <3>1
    <3>3. /\ ready[m] = 0 /\ dlq[m] = 0 /\ \A g \in Handlers : handler[g].msg = m => g = h
      BY <1>1, <2>1, <2>2 DEF OneDelivery
    <3> QED BY <1>1, <1>2, <2>1, <3>1, <3>2, <3>3 DEF OneDelivery
  <2>3. CASE m # handler[h].msg
    <3>1. m \in dispatched' <=> m \in dispatched
      BY <2>3
    <3>2. \A g \in Handlers : handler'[g].msg = m => handler'[g] = handler[g]
      BY <1>1, <2>3
    <3> QED BY <1>2, <2>1, <3>1, <3>2 DEF OneDelivery
  <2> QED BY <2>2, <2>3
<1> QED BY <1>4, <1>5, <1>6, <1>7, <1>8 DEF IntakeInv

\* The handler gives its permit back: what of its message is left in the
\* queues or the log accounts for it.
LEMMA EndKeeps ==
    ASSUME IntakeInv, VarTypes', NEW h \in Handlers, Ends(h),
           UNCHANGED <<body, published, log, dispatched, unrecorded>>,
           copied \subseteq copied',
           \A m \in Msgs : m # handler[h].msg => ready'[m] = ready[m] /\ dlq'[m] = dlq[m],
           \A m \in Msgs : m # handler[h].msg => (InSeq(delayed', m) <=> InSeq(delayed, m)),
           \A m \in Msgs : ready[m] <= ready'[m] /\ dlq[m] <= dlq'[m],
           \A m \in Msgs : InSeq(delayed, m) => InSeq(delayed', m),
           handler[h].live => \/ ready'[handler[h].msg] > 0
                              \/ dlq'[handler[h].msg] > 0
                              \/ Handled(handler[h].msg),
           dlq'[handler[h].msg] > dlq[handler[h].msg] =>
              body[handler[h].msg].garbled \/ body[handler[h].msg].refs # <<>>,
           \/ handler[h].msg \in copied'
           \/ UNCHANGED <<ready, dlq, delayed>>
           \/ /\ handler[h].pc # "ack" /\ UNCHANGED delayed
              /\ ready'[handler[h].msg] + dlq'[handler[h].msg] <=
                   ready[handler[h].msg] + dlq[handler[h].msg] + 1
    PROVE  IntakeInv'
<1>1. /\ VarTypes /\ handler[h] \in Job /\ handler[h].msg \in Msgs /\ handler'[h] = Free
      /\ \A g \in Handlers : g # h => handler'[g] = handler[g]
  BY DEF IntakeInv, Ends, Job
<1>2. /\ handler'[h].msg \notin Msgs /\ handler'[h].pc = "free"
  BY <1>1, FreeFact
<1>3. /\ ready \in [Msgs -> Nat] /\ dlq \in [Msgs -> Nat]
      /\ ready' \in [Msgs -> Nat] /\ dlq' \in [Msgs -> Nat]
  BY <1>1 DEF VarTypes
<1>4. \A m \in Msgs : /\ ready[m] \in Nat /\ ready'[m] \in Nat /\ ready[m] <= ready'[m]
                      /\ dlq[m] \in Nat /\ dlq'[m] \in Nat /\ dlq[m] <= dlq'[m]
  BY <1>3
<1>5. StageKnown'
  BY <1>1, <1>2 DEF IntakeInv, StageKnown
<1>6. RefusedForCause'
  <2> SUFFICES ASSUME NEW m \in Msgs
               PROVE  dlq'[m] > 0 => body[m].garbled \/ body[m].refs # <<>>
    BY DEF IntakeInv, RefusedForCause
  <2>1. dlq[m] > 0 => body[m].garbled \/ body[m].refs # <<>>
    BY DEF IntakeInv, RefusedForCause
  <2>2. CASE m = handler[h].msg
    BY <1>4, <2>1, <2>2
  <2>3. CASE m # handler[h].msg
    BY <2>1, <2>3
  <2> QED BY <2>2, <2>3
<1>7. AckIsHandled'
  BY <1>1, <1>2 DEF IntakeInv, AckIsHandled, Handled
<1>8. NoneLost'
  <2> SUFFICES ASSUME NEW m \in published
               PROVE  Present(m)' \/ dlq'[m] > 0 \/ Handled(m)
    BY DEF NoneLost, Handled
  <2>1. m \in Msgs /\ (Present(m) \/ dlq[m] > 0 \/ Handled(m))
    BY <1>1 DEF IntakeInv, NoneLost, VarTypes
  <2>2. /\ ready[m] > 0 => ready'[m] > 0
        /\ dlq[m] > 0 => dlq'[m] > 0
    BY <1>4, <2>1
  <2>3. CASE \E g \in Handlers : handler[g].msg = m /\ handler[g].live
    <3>1. PICK g \in Handlers : handler[g].msg = m /\ handler[g].live
      BY <2>3
    <3>2. CASE g = h
      BY <3>1, <3>2 DEF Present
    <3>3. CASE g # h
      BY <1>1, <3>1, <3>3 DEF Present
    <3> QED BY <3>2, <3>3
  <2> QED BY <2>1, <2>2, <2>3 DEF Present
<1>9. OneDeliveryUnlessCopied'
  <2> SUFFICES ASSUME NEW m \in Msgs \ copied' PROVE OneDelivery(m)'
    BY DEF OneDeliveryUnlessCopied
  <2>1. OneDelivery(m)
    BY DEF IntakeInv, OneDeliveryUnlessCopied
  <2>2. \A g \in Handlers : handler'[g].msg = m => g # h /\ handler'[g] = handler[g]
    BY <1>1, <1>2
  <2>3. CASE m # handler[h].msg
    BY <2>1, <2>2, <2>3 DEF OneDelivery
  <2>4. CASE m = handler[h].msg
    <3>1. /\ ready[m] = 0 /\ dlq[m] = 0 /\ m \in published
          /\ m \in dispatched => handler[h].pc = "ack"
          /\ \A g \in Handlers : handler[g].msg = m => g = h
      BY <2>1, <2>4 DEF OneDelivery
    <3>2. \A g \in Handlers : handler'[g].msg # m
      BY <2>2, <3>1
    <3>3. CASE UNCHANGED <<ready, dlq, delayed>>
      BY <2>1, <3>1, <3>2, <3>3 DEF OneDelivery
    <3>4. CASE /\ handler[h].pc # "ack" /\ UNCHANGED delayed
               /\ ready'[m] + dlq'[m] <= ready[m] + dlq[m] + 1
      <4>1. ready'[m] + dlq'[m] <= 1
        BY <3>1, <3>4
      <4> QED BY <2>1, <3>1, <3>2, <3>4, <4>1 DEF OneDelivery
    <3> QED BY <2>4, <3>3, <3>4
  <2> QED BY <2>3, <2>4
<1> QED BY <1>5, <1>6, <1>7, <1>8, <1>9 DEF IntakeInv

-----------------------------------------------------------------------------
(***************************************************************************)
(* The handler's steps.                                                    *)
(***************************************************************************)
LEMMA TriageStep ==
    ASSUME IntakeInv, NEW h \in Handlers, Triage(h)
    PROVE  IntakeInv'
<1> DEFINE pc == Stage(handler[h].msg)
<1>1. VarTypes /\ handler[h].pc = "start" /\ handler[h].pc \in PCs /\ Goto(h, pc)
  BY DEF IntakeInv, Triage, PCs
<1>2. handler[h].msg \in Msgs
  BY <1>1, BusyFact
<1>3. /\ pc \in {"skip", "sentinel", "defer", "fetch", "dispatch"} /\ pc \in PCs
      /\ pc = "skip" => body[handler[h].msg].recipients = 0
      /\ pc = "sentinel" => body[handler[h].msg].recipients > MaxRecipients
      /\ pc = "fetch" => body[handler[h].msg].refs # <<>>
      /\ pc \in {"defer", "fetch", "dispatch"} =>
           body[handler[h].msg].recipients \in 1 .. MaxRecipients
  BY <1>1, <1>2, StageFact
<1> HIDE DEF pc
<1>4. handler' \in [Handlers -> Job \cup {Free}] /\ GoesOn(h, pc)
  BY <1>1, <1>3, GotoFact
<1>5. UNCHANGED <<body, published, ready, delayed, dlq, due, log, dispatched, history, budget>>
  BY DEF Triage
<1>6. VarTypes'
  BY <1>1, <1>4, <1>5 DEF VarTypes, Job, history
<1>7. pc # "ack" /\ pc # "exhaust"
  BY <1>3
<1> QED BY <1>1, <1>3, <1>4, <1>5, <1>6, <1>7, GoOnKeeps DEF history

\* A row that is written, or given up, lets the handler go to its ack.
LEMMA SkipStep ==
    ASSUME IntakeInv, NEW h \in Handlers, Skip(h)
    PROVE  IntakeInv'
<1> DEFINE m == handler[h].msg
<1>1. /\ VarTypes /\ handler[h].pc = "skip" /\ handler[h].pc \in PCs /\ Goto(h, "ack")
      /\ "ack" \in PCs /\ log \in [Msgs -> Row]
  BY DEF IntakeInv, Skip, PCs, VarTypes
<1>2. m \in Msgs /\ body[m].recipients = 0
  BY <1>1, BusyFact DEF IntakeInv, StageKnown
<1>3. handler' \in [Handlers -> Job \cup {Free}] /\ GoesOn(h, "ack")
  BY <1>1, GotoFact
<1>4. UNCHANGED <<body, published, ready, delayed, dlq, due, dispatched, copied, misjudged>>
  BY DEF Skip
<1>5. /\ Keeps(Msgs, log, MarkSkipped(log, m))
      /\ Exists(MarkSkipped(log, m), m)
      /\ \A j \in Msgs : j # m => MarkSkipped(log, m)[j] = log[j]
  BY <1>1, <1>2, MarkSkippedFact
<1>6. /\ log' \in [Msgs -> Row] /\ unrecorded' \in SUBSET Msgs /\ unrecorded \subseteq unrecorded'
      /\ \A j \in Msgs : Exists(log, j) => Exists(log', j)
      /\ \A j \in Msgs : Exists(log', j) => Exists(log, j) \/ j = m
      /\ Exists(log', m) \/ m \in unrecorded'
      /\ budget' \in [BudgetKinds -> Nat]
  <2>1. CASE log' = MarkSkipped(log, m) /\ UNCHANGED <<unrecorded, budget>>
    BY <1>1, <1>5, <2>1 DEF Keeps, Exists, VarTypes
  <2>2. CASE Spend("dberr") /\ unrecorded' = unrecorded \cup {m} /\ UNCHANGED log
    <3>1. budget' \in [BudgetKinds -> Nat]
      BY <1>1, <2>2, SpendFact, SpendKinds
    <3> QED BY <1>1, <1>2, <2>2, <3>1 DEF VarTypes, Exists
  <2> QED BY <2>1, <2>2 DEF Skip
<1>7. VarTypes'
  BY <1>1, <1>3, <1>4, <1>6 DEF VarTypes, Job
<1>8. Handled(handler[h].msg)'
  <2>1. handler'[h].msg = m
    BY <1>3 DEF GoesOn
  <2> QED BY <1>6, <2>1 DEF Handled
<1> QED BY <1>1, <1>2, <1>3, <1>4, <1>6, <1>7, <1>8, GoOnKeeps

LEMMA SentinelStep ==
    ASSUME IntakeInv, NEW h \in Handlers, Sentinel(h)
    PROVE  IntakeInv'
<1> DEFINE m == handler[h].msg
<1>1. /\ VarTypes /\ handler[h].pc = "sentinel" /\ handler[h].pc \in PCs
      /\ "ack" \in PCs /\ "exhaust" \in PCs /\ log \in [Msgs -> Row]
  BY DEF IntakeInv, Sentinel, PCs, VarTypes
<1>2. m \in Msgs /\ body[m].recipients > MaxRecipients
  BY <1>1, BusyFact DEF IntakeInv, StageKnown
<1>3. UNCHANGED <<body, published, ready, delayed, dlq, due, dispatched, copied, misjudged>>
  BY DEF Sentinel
<1>4. /\ Keeps(Msgs, log, InsertPending(log, m))
      /\ Exists(InsertPending(log, m), m)
      /\ \A j \in Msgs : j # m => InsertPending(log, m)[j] = log[j]
  BY <1>1, <1>2, InsertPendingFact
<1>5. PICK pc \in {"ack", "exhaust"} :
        /\ Goto(h, pc)
        /\ \/ log' = InsertPending(log, m) /\ UNCHANGED <<unrecorded, budget>>
           \/ /\ Spend("dberr") /\ unrecorded' = unrecorded \cup {m} /\ UNCHANGED log
              /\ pc = "ack"
  BY DEF Sentinel
<1>6. handler' \in [Handlers -> Job \cup {Free}] /\ GoesOn(h, pc)
  BY <1>1, <1>5, GotoFact
<1>7. /\ log' \in [Msgs -> Row] /\ unrecorded' \in SUBSET Msgs /\ unrecorded \subseteq unrecorded'
      /\ \A j \in Msgs : Exists(log, j) => Exists(log', j)
      /\ \A j \in Msgs : Exists(log', j) => Exists(log, j) \/ j = m
      /\ Exists(log', m) \/ (m \in unrecorded' /\ pc = "ack")
      /\ budget' \in [BudgetKinds -> Nat]
  <2>1. CASE log' = InsertPending(log, m) /\ UNCHANGED <<unrecorded, budget>>
    BY <1>1, <1>4, <2>1 DEF Keeps, Exists, VarTypes
  <2>2. CASE Spend("dberr") /\ unrecorded' = unrecorded \cup {m} /\ UNCHANGED log /\ pc = "ack"
    <3>1. budget' \in [BudgetKinds -> Nat]
      BY <1>1, <2>2, SpendFact, SpendKinds
    <3> QED BY <1>1, <1>2, <2>2, <3>1 DEF VarTypes, Exists
  <2> QED BY <1>5, <2>1, <2>2
<1>8. VarTypes'
  BY <1>1, <1>3, <1>6, <1>7 DEF VarTypes, Job
<1>9. Handled(handler[h].msg)'
  <2>1. handler'[h].msg = m
    BY <1>6 DEF GoesOn
  <2> QED BY <1>7, <2>1 DEF Handled
<1>10. pc = "exhaust" => Exists(log', m)
  BY <1>7
<1> QED BY <1>1, <1>2, <1>3, <1>5, <1>6, <1>7, <1>8, <1>9, <1>10, GoOnKeeps

LEMMA ExhaustStep ==
    ASSUME IntakeInv, NEW h \in Handlers, Exhaust(h)
    PROVE  IntakeInv'
<1> DEFINE m == handler[h].msg
<1>1. /\ VarTypes /\ handler[h].pc = "exhaust" /\ handler[h].pc \in PCs /\ Goto(h, "ack")
      /\ "ack" \in PCs /\ log \in [Msgs -> Row] /\ TRUE \in BOOLEAN
  BY DEF IntakeInv, Exhaust, PCs, VarTypes
<1>2. m \in Msgs /\ Exists(log, m)
  BY <1>1, BusyFact DEF IntakeInv, AckIsHandled
<1>3. handler' \in [Handlers -> Job \cup {Free}] /\ GoesOn(h, "ack")
  BY <1>1, GotoFact
<1>4. UNCHANGED <<body, published, ready, delayed, dlq, due, dispatched, history>>
  BY DEF Exhaust
<1>5. Keeps(Msgs, log, MarkFailed(log, m, TRUE))
  BY <1>1, <1>2, MarkFact
<1>6. /\ log' \in [Msgs -> Row]
      /\ \A j \in Msgs : Exists(log', j) <=> Exists(log, j)
      /\ budget' \in [BudgetKinds -> Nat]
  <2>1. CASE log' = MarkFailed(log, m, TRUE) /\ UNCHANGED budget
    <3>1. \A j \in Msgs : Exists(log', j) => Exists(log, j)
      BY <1>1, <1>2, <2>1 DEF MarkFailed, Exists
    <3> QED BY <1>1, <1>5, <2>1, <3>1 DEF Keeps, VarTypes
  <2>2. CASE Spend("dberr") /\ UNCHANGED log
    <3>1. budget' \in [BudgetKinds -> Nat]
      BY <1>1, <2>2, SpendFact, SpendKinds
    <3> QED BY <1>1, <2>2, <3>1 DEF Exists
  <2> QED BY <2>1, <2>2 DEF Exhaust
<1>7. VarTypes'
  BY <1>1, <1>3, <1>4, <1>6 DEF VarTypes, Job, history
<1>8. Handled(handler[h].msg)'
  <2>1. handler'[h].msg = m
    BY <1>3 DEF GoesOn
  <2> QED BY <1>2, <1>6, <2>1 DEF Handled
<1> QED BY <1>1, <1>3, <1>4, <1>6, <1>7, <1>8, GoOnKeeps DEF history

LEMMA DispatchStep ==
    ASSUME IntakeInv, NEW h \in Handlers, Dispatch(h)
    PROVE  IntakeInv'
<1> DEFINE m == handler[h].msg
<1>1. /\ VarTypes /\ handler[h].pc = "dispatch" /\ handler[h].pc \in PCs /\ Goto(h, "ack")
      /\ "ack" \in PCs
  BY DEF IntakeInv, Dispatch, PCs
<1>2. m \in Msgs
  BY <1>1, BusyFact
<1>3. handler' \in [Handlers -> Job \cup {Free}] /\ GoesOn(h, "ack")
  BY <1>1, GotoFact
<1>4. /\ UNCHANGED <<body, published, ready, delayed, dlq, due, log, history, budget>>
      /\ dispatched' = dispatched \cup {m}
  BY DEF Dispatch
<1>5. VarTypes'
  BY <1>1, <1>2, <1>3, <1>4 DEF VarTypes, Job, history
<1>6. Handled(handler[h].msg)'
  <2>1. handler'[h].msg = m
    BY <1>3 DEF GoesOn
  <2> QED BY <1>4, <2>1 DEF Handled
<1> QED BY <1>1, <1>3, <1>4, <1>5, <1>6, GoOnKeeps DEF history

\* A queue that takes the delivery, in the terms of EndKeeps.
LEMMA TakesFact ==
    ASSUME NEW h \in Handlers, handler[h] \in Job, NEW queue \in [Msgs -> Nat], NEW new,
           Takes(h, queue, new)
    PROVE  /\ new \in [Msgs -> Nat]
           /\ \A m \in Msgs : m # handler[h].msg => new[m] = queue[m]
           /\ \A m \in Msgs : queue[m] <= new[m]
           /\ handler[h].live => new[handler[h].msg] > 0
           /\ ~handler[h].live => new = queue
           /\ new[handler[h].msg] <= queue[handler[h].msg] + 1
<1>1. handler[h].msg \in Msgs /\ handler[h].live \in BOOLEAN
  BY DEF Job
<1>2. /\ new \in [Msgs -> Nat]
      /\ \A m \in Msgs : queue[m] \in Nat /\ new[m] \in Nat
      /\ handler[h].live => new[handler[h].msg] = queue[handler[h].msg] + 1
      /\ ~handler[h].live => new[handler[h].msg] = queue[handler[h].msg]
      /\ \A m \in Msgs : m # handler[h].msg => new[m] = queue[m]
  BY DEF Takes
<1>3. \A m \in Msgs : queue[m] <= new[m]
  BY <1>1, <1>2
<1>4. /\ handler[h].live => new[handler[h].msg] > 0
      /\ new[handler[h].msg] <= queue[handler[h].msg] + 1
  BY <1>1, <1>2
<1>5. ~handler[h].live => new = queue
  BY <1>1, <1>2
<1> QED BY <1>2, <1>3, <1>4, <1>5

\* The delivery goes to the DLQ, for a cause.
LEMMA DeadLettered ==
    ASSUME IntakeInv, VarTypes', NEW h \in Handlers, Ends(h), handler[h].pc # "ack",
           Takes(h, dlq, dlq'),
           body[handler[h].msg].garbled \/ body[handler[h].msg].refs # <<>>,
           UNCHANGED <<body, published, ready, delayed, log, dispatched, unrecorded, copied>>
    PROVE  IntakeInv'
<1>1. /\ handler[h] \in Job /\ handler[h].msg \in Msgs
      /\ dlq \in [Msgs -> Nat] /\ ready \in [Msgs -> Nat]
  BY DEF IntakeInv, VarTypes, Ends, Job
<1>2. /\ dlq' \in [Msgs -> Nat]
      /\ \A m \in Msgs : m # handler[h].msg => dlq'[m] = dlq[m]
      /\ \A m \in Msgs : dlq[m] <= dlq'[m]
      /\ handler[h].live => dlq'[handler[h].msg] > 0
      /\ dlq'[handler[h].msg] <= dlq[handler[h].msg] + 1
  BY <1>1, TakesFact
<1>3. \A m \in Msgs : ready[m] <= ready'[m]
  BY <1>1
<1>4. ready'[handler[h].msg] + dlq'[handler[h].msg]
        <= ready[handler[h].msg] + dlq[handler[h].msg] + 1
  <2>1. /\ ready[handler[h].msg] \in Nat /\ dlq[handler[h].msg] \in Nat
        /\ dlq'[handler[h].msg] \in Nat /\ ready'[handler[h].msg] = ready[handler[h].msg]
    BY <1>1, <1>2
  <2> QED BY <1>2, <2>1
<1> QED BY <1>2, <1>3, <1>4, EndKeeps

\* The delivery goes back to the main queue.
LEMMA Requeues ==
    ASSUME IntakeInv, VarTypes', NEW h \in Handlers, Ends(h), handler[h].pc # "ack",
           Takes(h, ready, ready'),
           UNCHANGED <<body, published, delayed, dlq, log, dispatched, unrecorded, copied>>
    PROVE  IntakeInv'
<1>1. /\ handler[h] \in Job /\ handler[h].msg \in Msgs
      /\ dlq \in [Msgs -> Nat] /\ ready \in [Msgs -> Nat]
  BY DEF IntakeInv, VarTypes, Ends, Job
<1>2. /\ ready' \in [Msgs -> Nat]
      /\ \A m \in Msgs : m # handler[h].msg => ready'[m] = ready[m]
      /\ \A m \in Msgs : ready[m] <= ready'[m]
      /\ handler[h].live => ready'[handler[h].msg] > 0
      /\ ready'[handler[h].msg] <= ready[handler[h].msg] + 1
  BY <1>1, TakesFact
<1>3. (\A m \in Msgs : dlq[m] <= dlq'[m]) /\ ~(dlq'[handler[h].msg] > dlq[handler[h].msg])
  BY <1>1
<1>4. ready'[handler[h].msg] + dlq'[handler[h].msg]
        <= ready[handler[h].msg] + dlq[handler[h].msg] + 1
  <2>1. /\ ready[handler[h].msg] \in Nat /\ dlq[handler[h].msg] \in Nat
        /\ ready'[handler[h].msg] \in Nat /\ dlq'[handler[h].msg] = dlq[handler[h].msg]
    BY <1>1, <1>2
  <2> QED BY <1>2, <2>1
<1> QED BY <1>2, <1>3, <1>4, EndKeeps

LEMMA DeadLetterStep ==
    ASSUME IntakeInv, NEW h \in Handlers, DeadLetter(h)
    PROVE  IntakeInv'
<1>1. VarTypes /\ handler[h].pc = "start" /\ handler[h].pc \in PCs /\ Release(h)
  BY DEF IntakeInv, DeadLetter, PCs
<1>2. handler' \in [Handlers -> Job \cup {Free}] /\ Ends(h) /\ handler[h] \in Job
  BY <1>1, ReleaseFact DEF Ends
<1>3. Takes(h, dlq, dlq')
  BY <1>1, <1>2, AddIfLiveFact DEF DeadLetter, VarTypes
<1>4. UNCHANGED <<body, published, ready, delayed, due, log, dispatched, history, budget>>
  BY DEF DeadLetter
<1>5. VarTypes'
  BY <1>1, <1>2, <1>3, <1>4 DEF VarTypes, Job, Takes, history
<1>6. body[handler[h].msg].garbled
  BY DEF DeadLetter
<1> QED BY <1>1, <1>2, <1>3, <1>4, <1>5, <1>6, DeadLettered DEF history

\* Whatever the fetcher answers.
LEMMA FetchStep ==
    ASSUME IntakeInv, NEW h \in Handlers, Fetch(h)
    PROVE  IntakeInv'
<1> DEFINE m == handler[h].msg
<1>1. /\ VarTypes /\ handler[h].pc = "fetch" /\ handler[h].pc \in PCs /\ "dispatch" \in PCs
      /\ UNCHANGED <<body, published, delayed, due, log, dispatched, unrecorded, copied>>
  BY DEF IntakeInv, Fetch, PCs
<1>2. handler[h] \in Job /\ m \in Msgs /\ body[m].refs # <<>>
  BY <1>1, BusyFact DEF IntakeInv, StageKnown
<1>3. misjudged' \in SUBSET Msgs
  BY <1>1, <1>2 DEF Fetch, VarTypes
<1>4. CASE Goto(h, "dispatch") /\ UNCHANGED <<ready, dlq, budget>>
  <2>1. handler' \in [Handlers -> Job \cup {Free}] /\ GoesOn(h, "dispatch")
    BY <1>1, <1>4, GotoFact
  <2>2. VarTypes'
    BY <1>1, <1>3, <1>4, <2>1 DEF VarTypes, Job
  <2>3. body[m].recipients \in 1 .. MaxRecipients
    BY <1>1 DEF IntakeInv, StageKnown
  <2> QED BY <1>1, <1>4, <2>1, <2>2, <2>3, GoOnKeeps
<1>5. CASE dlq' = AddIfLive(h, dlq) /\ Release(h) /\ UNCHANGED <<ready, budget>>
  <2>1. handler' \in [Handlers -> Job \cup {Free}] /\ Ends(h)
    BY <1>1, <1>5, ReleaseFact
  <2>2. Takes(h, dlq, dlq')
    BY <1>1, <1>2, <1>5, AddIfLiveFact DEF VarTypes
  <2>3. VarTypes'
    BY <1>1, <1>3, <1>5, <2>1, <2>2 DEF VarTypes, Job, Takes
  <2> QED BY <1>1, <1>2, <1>5, <2>1, <2>2, <2>3, DeadLettered
<1>6. CASE Spend("fetch") /\ ready' = AddIfLive(h, ready) /\ Release(h) /\ UNCHANGED dlq
  <2>1. handler' \in [Handlers -> Job \cup {Free}] /\ Ends(h)
    BY <1>1, <1>6, ReleaseFact
  <2>2. Takes(h, ready, ready')
    BY <1>1, <1>2, <1>6, AddIfLiveFact DEF VarTypes
  <2>3. budget' \in [BudgetKinds -> Nat]
    BY <1>1, <1>6, SpendFact, SpendKinds
  <2>4. VarTypes'
    BY <1>1, <1>3, <1>6, <2>1, <2>2, <2>3 DEF VarTypes, Job, Takes
  <2> QED BY <1>1, <1>6, <2>1, <2>2, <2>4, Requeues
<1> QED BY <1>4, <1>5, <1>6 DEF Fetch

\* The deferral leaves two copies behind, and says so.
LEMMA DeferStep ==
    ASSUME IntakeInv, NEW h \in Handlers, Defer(h)
    PROVE  IntakeInv'
<1> DEFINE m == handler[h].msg
<1>1. /\ VarTypes /\ handler[h].pc = "defer" /\ handler[h].pc \in PCs /\ Release(h)
      /\ UNCHANGED <<body, published, dlq, due, log, dispatched, unrecorded, misjudged, budget>>
  BY DEF IntakeInv, Defer, PCs
<1>2. handler' \in [Handlers -> Job \cup {Free}] /\ Ends(h) /\ handler[h] \in Job /\ m \in Msgs
  BY <1>1, ReleaseFact, BusyFact
<1>3. Takes(h, ready, ready') /\ ready \in [Msgs -> Nat] /\ dlq \in [Msgs -> Nat]
  BY <1>1, <1>2, AddIfLiveFact DEF Defer, VarTypes
<1>4. CASE UNCHANGED <<delayed, copied>>
  <2>1. UNCHANGED <<delayed, copied>>
    BY <1>4
  <2>2. VarTypes'
    BY <1>1, <1>2, <1>3, <2>1 DEF VarTypes, Job, Takes
  <2> QED BY <1>1, <1>2, <1>3, <2>1, <2>2, Requeues
<1>5. CASE handler[h].live /\ delayed' = Append(delayed, m) /\ copied' = copied \cup {m}
  <2>1. delayed' = Append(delayed, m) /\ copied' = copied \cup {m} /\ delayed \in Seq(Msgs)
    BY <1>1, <1>5 DEF VarTypes
  <2>2. /\ delayed' \in Seq(Msgs)
        /\ \A j \in Msgs : InSeq(delayed', j) <=> InSeq(delayed, j) \/ j = m
    BY <1>2, <2>1, AppendFact
  <2>3. VarTypes'
    BY <1>1, <1>2, <1>3, <2>1, <2>2 DEF VarTypes, Job, Takes
  <2>4. /\ \A j \in Msgs : j # m => ready'[j] = ready[j]
        /\ \A j \in Msgs : ready[j] <= ready'[j]
        /\ ready'[m] > 0
    BY <1>2, <1>3, <1>5, TakesFact
  <2>5. (\A j \in Msgs : dlq[j] <= dlq'[j]) /\ ~(dlq'[m] > dlq[m])
    BY <1>1, <1>2, <1>3
  <2> QED BY <1>1, <1>2, <2>1, <2>2, <2>3, <2>4, <2>5, EndKeeps
<1> QED BY <1>4, <1>5 DEF Defer

LEMMA AckStep ==
    ASSUME IntakeInv, NEW h \in Handlers, Ack(h)
    PROVE  IntakeInv'
<1>1. VarTypes /\ handler[h].pc = "ack" /\ handler[h].pc \in PCs /\ Release(h)
  BY DEF IntakeInv, Ack, PCs
<1>2. handler' \in [Handlers -> Job \cup {Free}] /\ Ends(h)
  BY <1>1, ReleaseFact
<1>3. UNCHANGED <<body, published, ready, delayed, dlq, due, log, dispatched, history, budget>>
  BY DEF Ack
<1>4. VarTypes'
  BY <1>1, <1>2, <1>3 DEF VarTypes, Job, history
<1>5. Handled(handler[h].msg)
  BY <1>1 DEF IntakeInv, AckIsHandled
<1>6. /\ \A m \in Msgs : ready[m] <= ready'[m] /\ dlq[m] <= dlq'[m]
      /\ ~(dlq'[handler[h].msg] > dlq[handler[h].msg])
  <2>1. ready \in [Msgs -> Nat] /\ dlq \in [Msgs -> Nat] /\ handler[h].msg \in Msgs
    BY <1>1, BusyFact DEF VarTypes
  <2> QED BY <1>3, <2>1
<1> QED BY <1>2, <1>3, <1>4, <1>5, <1>6, EndKeeps DEF history

-----------------------------------------------------------------------------
(***************************************************************************)
(* The producers, the broker and the faults.                               *)
(***************************************************************************)
LEMMA PublishStep ==
    ASSUME IntakeInv, NEW m \in Msgs, Publish(m)
    PROVE  IntakeInv'
<1>1. /\ VarTypes /\ m \notin published /\ published' = published \cup {m}
      /\ UNCHANGED <<body, delayed, dlq, handler, due, log, dispatched, history, budget>>
      /\ ready \in [Msgs -> Nat]
  BY DEF IntakeInv, Publish, VarTypes
<1>2. /\ ready' \in [Msgs -> Nat] /\ ready'[m] = ready[m] + 1 /\ ready'[m] > 0
      /\ \A j \in Msgs : j # m => ready'[j] = ready[j]
  BY <1>1 DEF Publish
<1>3. VarTypes'
  BY <1>1, <1>2 DEF VarTypes, history
<1>4. StageKnown' /\ RefusedForCause' /\ AckIsHandled'
  BY <1>1 DEF IntakeInv, StageKnown, RefusedForCause, AckIsHandled, Handled, history
<1>5. NoneLost'
  <2> SUFFICES ASSUME NEW j \in published' PROVE Present(j)' \/ dlq'[j] > 0 \/ Handled(j)'
    BY DEF NoneLost
  <2>1. CASE j = m
    BY <1>2, <2>1 DEF Present
  <2>2. CASE j # m
    <3>1. j \in published /\ j \in Msgs
      BY <1>1, <2>2 DEF VarTypes
    <3>2. ready'[j] = ready[j]
      BY <1>2, <2>2, <3>1
    <3> QED BY <1>1, <3>1, <3>2 DEF IntakeInv, NoneLost, Present, Handled, history
  <2> QED BY <2>1, <2>2
<1>6. OneDeliveryUnlessCopied'
  <2> SUFFICES ASSUME NEW j \in Msgs \ copied PROVE OneDelivery(j)'
    BY <1>1 DEF OneDeliveryUnlessCopied, history
  <2>1. OneDelivery(j)
    BY DEF IntakeInv, OneDeliveryUnlessCopied
  <2>2. CASE j # m
    BY <1>1, <1>2, <2>1, <2>2 DEF OneDelivery
  <2>3. CASE j = m
    <3>1. ready[m] = 0 /\ dlq[m] = 0 /\ m \notin dispatched
          /\ \A h \in Handlers : handler[h].msg # m
      BY <1>1, <2>1, <2>3 DEF OneDelivery
    <3>2. ready'[m] + dlq'[m] <= 1
      BY <1>1, <1>2, <3>1
    <3> QED BY <1>1, <2>1, <2>3, <3>1, <3>2 DEF OneDelivery
  <2> QED BY <2>2, <2>3
<1> QED BY <1>3, <1>4, <1>5, <1>6 DEF IntakeInv

LEMMA ReceiveStep ==
    ASSUME IntakeInv, NEW h \in Handlers, NEW m \in Msgs, Receive(h, m)
    PROVE  IntakeInv'
<1> DEFINE job == [msg |-> m, pc |-> "start", live |-> TRUE]
<1>1. /\ VarTypes /\ handler[h] = Free /\ ready[m] > 0
      /\ UNCHANGED <<body, published, delayed, dlq, due, log, dispatched, history, budget>>
      /\ ready \in [Msgs -> Nat] /\ handler \in [Handlers -> Job \cup {Free}]
  BY BusyFact DEF IntakeInv, Receive, VarTypes
<1>2. job \in Job /\ job.msg = m /\ job.pc = "start" /\ job.live
  BY DEF Job, PCs
<1>3. handler' = [handler EXCEPT ![h] = job]
  BY DEF Receive
<1> HIDE DEF job
<1>4. /\ handler' \in [Handlers -> Job \cup {Free}] /\ handler'[h] = job
      /\ \A g \in Handlers : g # h => handler'[g] = handler[g]
  BY <1>1, <1>2, <1>3
<1>5. /\ ready[m] \in Nat /\ ready[m] - 1 \in Nat
      /\ ready' \in [Msgs -> Nat] /\ ready'[m] = ready[m] - 1
      /\ \A j \in Msgs : j # m => ready'[j] = ready[j]
  BY <1>1 DEF Receive
<1>6. VarTypes'
  BY <1>1, <1>4, <1>5 DEF VarTypes, Job, history
<1>7. StageKnown' /\ RefusedForCause' /\ AckIsHandled'
  BY <1>1, <1>2, <1>4
     DEF IntakeInv, StageKnown, RefusedForCause, AckIsHandled, Handled, history
<1>8. handler[h].msg \notin Msgs
  BY <1>1, FreeFact
<1>9. NoneLost'
  <2> SUFFICES ASSUME NEW j \in published PROVE Present(j)' \/ dlq'[j] > 0 \/ Handled(j)'
    BY <1>1 DEF NoneLost
  <2>1. j \in Msgs /\ (Present(j) \/ dlq[j] > 0 \/ Handled(j))
    BY <1>1 DEF IntakeInv, NoneLost, VarTypes
  <2>2. CASE j = m
    BY <1>2, <1>4, <2>2 DEF Present
  <2>3. CASE j # m
    <3>1. Present(j) => Present(j)'
      BY <1>1, <1>4, <1>5, <1>8, <2>1, <2>3 DEF Present
    <3> QED BY <1>1, <2>1, <3>1 DEF Handled, history
  <2> QED BY <2>2, <2>3
<1>10. OneDeliveryUnlessCopied'
  <2> SUFFICES ASSUME NEW j \in Msgs \ copied PROVE OneDelivery(j)'
    BY <1>1 DEF OneDeliveryUnlessCopied, history
  <2>1. OneDelivery(j)
    BY DEF IntakeInv, OneDeliveryUnlessCopied
  <2>2. CASE j # m
    <3>1. \A g \in Handlers : handler'[g].msg = j => g # h /\ handler'[g] = handler[g]
      BY <1>2, <1>4, <2>2
    <3> QED BY <1>1, <1>5, <2>1, <2>2, <3>1 DEF OneDelivery
  <2>3. CASE j = m
    <3>1. dlq[m] \in Nat
      BY <1>1 DEF VarTypes
    <3>2. ready[m] + dlq[m] <= 1
      BY <2>1, <2>3 DEF OneDelivery
    <3>3. ready'[m] = 0 /\ dlq[m] = 0
      BY <1>1, <1>5, <3>1, <3>2
    <3>4. m \notin dispatched /\ m \in published /\ \A g \in Handlers : handler[g].msg # m
      BY <1>1, <1>5, <2>1, <2>3 DEF OneDelivery
    <3>5. \A g \in Handlers : handler'[g].msg = m => g = h
      BY <1>4, <3>4
    <3> QED BY <1>1, <1>2, <1>4, <2>1, <2>3, <3>3, <3>4, <3>5 DEF OneDelivery
  <2> QED BY <2>2, <2>3
<1> QED BY <1>6, <1>7, <1>9, <1>10 DEF IntakeInv

LEMMA DueStep ==
    ASSUME IntakeInv, NEW m \in Msgs, BecomesDue(m)
    PROVE  IntakeInv'
<1>1. /\ UNCHANGED <<body, published, ready, delayed, dlq, handler, log, dispatched, history, budget>>
      /\ due' = due \cup {m}
  BY DEF BecomesDue
<1>2. VarTypes'
  BY <1>1 DEF IntakeInv, VarTypes, history
<1>3. StageKnown' /\ RefusedForCause' /\ AckIsHandled'
  BY <1>1 DEF IntakeInv, StageKnown, RefusedForCause, AckIsHandled, Handled, history
<1>4. NoneLost'
  BY <1>1 DEF IntakeInv, NoneLost, Present, Handled, history
<1>5. OneDeliveryUnlessCopied'
  BY <1>1 DEF IntakeInv, OneDeliveryUnlessCopied, OneDelivery, history
<1> QED BY <1>2, <1>3, <1>4, <1>5 DEF IntakeInv

\* An expiry moves a copy from the delayed queue to the main queue.
LEMMA ExpireStep ==
    ASSUME IntakeInv, Expire
    PROVE  IntakeInv'
<1> DEFINE m == Head(delayed)
<1>1. /\ VarTypes /\ delayed \in Seq(Msgs) /\ delayed # <<>> /\ delayed' = Tail(delayed)
      /\ UNCHANGED <<body, published, dlq, handler, due, log, dispatched, history, budget>>
      /\ ready \in [Msgs -> Nat] /\ ready' = [ready EXCEPT ![m] = @ + 1]
  BY DEF IntakeInv, Expire, VarTypes
<1>2. /\ delayed' \in Seq(Msgs) /\ m \in Msgs
      /\ \A j \in Msgs : InSeq(delayed, j) <=> InSeq(delayed', j) \/ j = m
  BY <1>1, TailFact
<1> HIDE DEF m
<1>3. /\ ready' \in [Msgs -> Nat] /\ ready'[m] > 0
      /\ \A j \in Msgs : j # m => ready'[j] = ready[j]
  BY <1>1, <1>2
<1>4. VarTypes'
  BY <1>1, <1>2, <1>3 DEF VarTypes, history
<1>5. StageKnown' /\ RefusedForCause' /\ AckIsHandled'
  BY <1>1 DEF IntakeInv, StageKnown, RefusedForCause, AckIsHandled, Handled, history
<1>6. \A j \in Msgs : Present(j) => Present(j)'
  BY <1>1, <1>2, <1>3 DEF Present
<1>7. NoneLost'
  BY <1>1, <1>6 DEF IntakeInv, NoneLost, Handled, history, VarTypes
<1>8. OneDeliveryUnlessCopied'
  <2> SUFFICES ASSUME NEW j \in Msgs \ copied PROVE OneDelivery(j)'
    BY <1>1 DEF OneDeliveryUnlessCopied, history
  <2>1. OneDelivery(j)
    BY DEF IntakeInv, OneDeliveryUnlessCopied
  <2>2. j # m /\ ready'[j] = ready[j]
    BY <1>2, <1>3, <2>1 DEF OneDelivery
  <2> QED BY <1>1, <1>2, <2>1, <2>2 DEF OneDelivery
<1> QED BY <1>4, <1>5, <1>7, <1>8 DEF IntakeInv

\* A lost connection or a crash: every live delivery is in the queue again,
\* and its message is one that may have been copied.
LEMMA OutageStep ==
    ASSUME IntakeInv, ConnectionLost \/ Crash
    PROVE  IntakeInv'
<1>1. /\ VarTypes /\ Spend("outage") /\ ready' = Requeued /\ copied' = copied \cup Redelivered
      /\ UNCHANGED <<body, published, delayed, dlq, due, log, dispatched, unrecorded, misjudged>>
      /\ handler \in [Handlers -> Job \cup {Free}]
  BY DEF IntakeInv, ConnectionLost, Crash, VarTypes, Job
<1>2. ASSUME NEW h \in Handlers
      PROVE  /\ handler'[h] \in Job \cup {Free}
             /\ handler'[h] = Free \/ (/\ handler'[h].msg = handler[h].msg
                                       /\ handler'[h].pc = handler[h].pc)
             /\ handler'[h].msg \in Msgs => handler'[h].msg = handler[h].msg
  <2>1. CASE handler'[h] = Free
    BY <2>1, FreeFact
  <2>2. CASE handler'[h] = [handler[h] EXCEPT !.live = FALSE]
    <3>1. CASE handler[h] = Free
      BY <2>1, <2>2, <3>1, FreeFact
    <3>2. CASE handler[h] \in Job
      BY <2>2, <3>2 DEF Job
    <3> QED BY <1>1, <3>1, <3>2
  <2> QED BY <2>1, <2>2 DEF ConnectionLost, Crash
<1>3. handler' \in [Handlers -> Job \cup {Free}]
  <2>1. \/ handler' = [h \in Handlers |-> Free]
        \/ handler' = [h \in Handlers |-> [handler[h] EXCEPT !.live = FALSE]]
    BY DEF ConnectionLost, Crash
  <2> QED BY <1>2, <2>1
<1>4. budget' \in [BudgetKinds -> Nat]
  BY <1>1, SpendFact, SpendKinds
<1>5. /\ ready' \in [Msgs -> Nat]
      /\ \A m \in Msgs : /\ ready'[m] > 0 <=> ready[m] > 0 \/ Live(m) # {}
                         /\ Live(m) = {} => ready'[m] = ready[m]
  BY <1>1, RequeuedFact
<1>6. copied' \in SUBSET Msgs
  <2>1. \A h \in Handlers : handler[h].live => handler[h].msg \in Msgs
    <3> SUFFICES ASSUME NEW h \in Handlers, handler[h].live PROVE handler[h].msg \in Msgs
      OBVIOUS
    <3>1. handler[h] # Free
      BY FreeFact
    <3> QED BY <1>1, <3>1 DEF Job
  <2> QED BY <1>1, <2>1 DEF Redelivered, VarTypes
<1>7. VarTypes'
  BY <1>1, <1>3, <1>4, <1>5, <1>6 DEF VarTypes, Job
<1>8. StageKnown'
  BY <1>1, <1>2, FreeFact DEF IntakeInv, StageKnown
<1>9. RefusedForCause' /\ AckIsHandled'
  BY <1>1, <1>2, FreeFact DEF IntakeInv, RefusedForCause, AckIsHandled, Handled
<1>10. \A m \in Msgs : Present(m) => Present(m)'
  BY <1>1, <1>5 DEF Present, Live
<1>11. NoneLost'
  BY <1>1, <1>10 DEF IntakeInv, NoneLost, Handled, VarTypes
<1>12. OneDeliveryUnlessCopied'
  <2> SUFFICES ASSUME NEW m \in Msgs \ copied' PROVE OneDelivery(m)'
    BY DEF OneDeliveryUnlessCopied
  <2>1. OneDelivery(m)
    BY <1>1 DEF IntakeInv, OneDeliveryUnlessCopied
  <2>2. \A h \in Handlers : handler[h].msg # m
    BY <1>1, <2>1 DEF OneDelivery, Redelivered
  <2>3. ready'[m] = ready[m]
    BY <1>5, <2>2 DEF Live
  <2>4. \A h \in Handlers : handler'[h].msg # m
    BY <1>2, <2>2
  <2> QED BY <1>1, <2>1, <2>3, <2>4 DEF OneDelivery
<1> QED BY <1>7, <1>8, <1>9, <1>11, <1>12 DEF IntakeInv

LEMMA IntakeInit == Init => IntakeInv
<1> SUFFICES ASSUME Init PROVE IntakeInv
  OBVIOUS
<1>1. /\ body \in BodyChoices /\ published = {} /\ delayed = <<>> /\ due = {} /\ dispatched = {}
      /\ unrecorded = {} /\ copied = {} /\ misjudged = {}
      /\ \A m \in Msgs : ready[m] = 0 /\ dlq[m] = 0 /\ log[m] = NoRow
      /\ \A h \in Handlers : handler[h] = Free
  BY DEF Init
<1>2. /\ ready \in [Msgs -> Nat] /\ dlq \in [Msgs -> Nat] /\ delayed \in Seq(Msgs)
      /\ budget \in [BudgetKinds -> Nat]
  BY IntakeAssumption DEF Init, IntakeAssumption
<1>3. log \in [Msgs -> Row]
  BY DEF Init, NoRow, Row, Status
<1>4. handler \in [Handlers -> Job \cup {Free}]
  BY DEF Init
<1>5. VarTypes
  BY <1>1, <1>2, <1>3, <1>4 DEF VarTypes, Job
<1>6. /\ \A h \in Handlers : handler[h].pc = "free" /\ handler[h].msg \notin Msgs
      /\ \A m \in Msgs : ~Exists(log, m)
      /\ \A m \in Msgs : ~InSeq(delayed, m)
  BY <1>1, FreeFact DEF Exists, NoRow, InSeq
<1>7. StageKnown /\ RefusedForCause /\ AckIsHandled /\ NoneLost
  BY <1>1, <1>6 DEF StageKnown, RefusedForCause, AckIsHandled, NoneLost
<1>8. OneDeliveryUnlessCopied
  BY <1>1, <1>6 DEF OneDeliveryUnlessCopied, OneDelivery
<1> QED BY <1>5, <1>7, <1>8 DEF IntakeInv

LEMMA IntakeStep == IntakeInv /\ [Next]_vars => IntakeInv'
<1> SUFFICES ASSUME IntakeInv, [Next]_vars PROVE IntakeInv'
  OBVIOUS
<1>1. CASE UNCHANGED vars
  <2>1. VarTypes' /\ StageKnown' /\ RefusedForCause' /\ AckIsHandled'
    BY <1>1 DEF vars, IntakeInv, VarTypes, StageKnown, RefusedForCause, AckIsHandled, Handled
  <2>2. NoneLost'
    BY <1>1 DEF vars, IntakeInv, NoneLost, Present, Handled
  <2>3. OneDeliveryUnlessCopied'
    BY <1>1 DEF vars, IntakeInv, OneDeliveryUnlessCopied, OneDelivery
  <2> QED BY <2>1, <2>2, <2>3 DEF IntakeInv
<1>2. ASSUME NEW h \in Handlers, HandlerStep(h) PROVE IntakeInv'
  BY <1>2, TriageStep, SkipStep, SentinelStep, ExhaustStep, DispatchStep, DeadLetterStep,
     FetchStep, DeferStep, AckStep DEF HandlerStep, OwnStep
<1>3. CASE \E m \in Msgs : McpSendEmail(m) \/ SendEmail(m) \/ AnctlSend(m) \/ Produce(m)
  BY <1>3, PublishStep DEF McpSendEmail, SendEmail, AnctlSend, Produce
<1> QED BY <1>1, <1>2, <1>3, ReceiveStep, DueStep, ExpireStep, OutageStep DEF Next

-----------------------------------------------------------------------------
(***************************************************************************)
(* The attachment fetcher, for any number of attachments and of retries.   *)
(* A recursive function is what its closed form says: the closed form      *)
(* solves the recursion, and two solutions agree at every index.           *)
(***************************************************************************)

\* Induction over an interval, as a fact about sets: of the intervals that
\* end outside B one would be minimal.
LEMMA IntervalInduction ==
    ASSUME NEW n \in Nat, NEW B \in SUBSET (0 .. n), 0 \in B,
           \A i \in 1 .. n : i - 1 \in B => i \in B
    PROVE  B = 0 .. n
<1> SUFFICES ASSUME NEW c \in (0 .. n) \ B PROVE FALSE
  OBVIOUS
<1> DEFINE Outside == (0 .. n) \ B
           Upto(i) == 0 .. i
           Segments == {Upto(i) : i \in Outside}
<1>1. Segments \subseteq FiniteSubsetsOf(0 .. n)
  <2>1. IsFiniteSet(0 .. n)
    BY FS_Interval
  <2>2. \A i \in Outside : Upto(i) \subseteq 0 .. n
    OBVIOUS
  <2> QED BY <2>1, <2>2, FS_Subset DEF FiniteSubsetsOf
<1>2. Segments # {}
  OBVIOUS
<1>3. IsFiniteSet(0 .. n)
  BY FS_Interval
<1>4. \E A \in Segments : \A C \in Segments : ~(<<C, A>> \in StrictSubsetOrdering(0 .. n))
  <2> HIDE DEF Segments
  <2> QED BY <1>1, <1>2, WFMin, FS_StrictSubsetOrderingWellFounded
<1>5. PICK i \in Outside :
        \A j \in Outside : ~(<<Upto(j), Upto(i)>> \in StrictSubsetOrdering(0 .. n))
  BY <1>4
<1>6. i \in 1 .. n /\ i - 1 \in Outside
  OBVIOUS
<1>7. Upto(i - 1) \subseteq Upto(i) /\ i \in Upto(i) /\ i \notin Upto(i - 1)
  BY <1>6
<1>8. Upto(i) \in SUBSET (0 .. n) /\ Upto(i - 1) \in SUBSET (0 .. n)
  BY <1>6
<1>9. <<Upto(i - 1), Upto(i)>> \in StrictSubsetOrdering(0 .. n)
  <2> HIDE DEF Upto
  <2> QED BY <1>7, <1>8 DEF StrictSubsetOrdering
<1> QED BY <1>5, <1>6, <1>9

\* What a fetch can end with.
Verdict == {"ok", "permanent", "transient"}

\* What the first i results reduce to.
Reduced(results, i) ==
    IF \A j \in 1 .. i : results[j] = "ok" THEN "ok"
    ELSE IF \E j \in 1 .. i : results[j] = "transient" THEN "transient"
    ELSE "permanent"

\* The reduce over the errors surfaces a transient one if there is one.
LEMMA CollectFact ==
    ASSUME NEW results \in Seq(Verdict)
    PROVE  Collect(results) = Reduced(results, Len(results))
<1> DEFINE n == Len(results)
           Step(e, i) == IF i = 0 THEN "ok"
                         ELSE IF results[i] = "ok" THEN e[i - 1]
                         ELSE IF e[i - 1] = "ok" THEN results[i]
                         ELSE Representative(e[i - 1], results[i])
           error[i \in 0 .. n] ==
             IF i = 0 THEN "ok"
             ELSE IF results[i] = "ok" THEN error[i - 1]
             ELSE IF error[i - 1] = "ok" THEN results[i]
             ELSE Representative(error[i - 1], results[i])
           closed == [i \in 0 .. n |-> Reduced(results, i)]
<1>1. n \in Nat /\ \A i \in 1 .. n : results[i] \in Verdict
  OBVIOUS
<1>2. Collect(results) = error[n]
  BY DEF Collect
<1>3. closed[0] = "ok"
  BY <1>1 DEF Reduced
<1>4. ASSUME NEW i \in 1 .. n PROVE closed[i] = Step(closed, i)
  <2> DEFINE r == results[i]
  <2>1. i - 1 \in 0 .. n /\ r \in Verdict
    BY <1>1
  <2>2. 1 .. i = (1 .. i - 1) \cup {i}
    BY <1>1
  <2>3. closed[i] = Reduced(results, i) /\ closed[i - 1] = Reduced(results, i - 1)
    BY <2>1
  <2> QED BY <2>1, <2>2, <2>3 DEF Reduced, Representative, Verdict
<1>5. closed = [i \in 0 .. n |-> Step(closed, i)]
  <2>1. \A i \in 0 .. n : i = 0 \/ i \in 1 .. n
    BY <1>1
  <2>2. \A i \in 0 .. n : Reduced(results, i) = Step(closed, i)
    <3>1. ASSUME NEW i \in 0 .. n, i = 0 PROVE Reduced(results, i) = Step(closed, i)
      BY <1>1, <3>1 DEF Reduced
    <3>2. ASSUME NEW i \in 1 .. n PROVE Reduced(results, i) = Step(closed, i)
      <4>1. closed[i] = Step(closed, i) /\ i \in 0 .. n
        BY <1>1, <1>4
      <4>2. closed[i] = Reduced(results, i)
        BY <4>1
      <4> HIDE DEF closed, Step
      <4> QED BY <4>1, <4>2
    <3> QED BY <2>1, <3>1, <3>2
  <2> HIDE DEF Step
  <2>3. [i \in 0 .. n |-> Reduced(results, i)] = [i \in 0 .. n |-> Step(closed, i)]
    BY <2>2
  <2> QED BY <2>3
<1>6. error = [i \in 0 .. n |-> Step(error, i)]
  <2> HIDE DEF closed, n
  <2> QED BY <1>5
<1>7. {i \in 0 .. n : error[i] = closed[i]} = 0 .. n
  <2> DEFINE Same == {i \in 0 .. n : error[i] = closed[i]}
  <2> HIDE DEF error, closed
  <2>1. 0 \in Same
    BY <1>1, <1>3, <1>6
  <2>2. ASSUME NEW i \in 1 .. n, i - 1 \in Same PROVE i \in Same
    <3>1. error[i] = Step(error, i)
      <4>1. i \in 0 .. n
        BY <1>1
      <4> HIDE DEF Step
      <4> QED BY <1>6, <4>1
    <3> QED BY <1>1, <1>4, <2>2, <3>1
  <2> HIDE DEF Same
  <2>3. Same \in SUBSET (0 .. n)
    BY DEF Same
  <2>4. Same = 0 .. n
    BY <1>1, <2>1, <2>2, <2>3, IntervalInduction
  <2> QED BY <2>4 DEF Same
<1>8. error[n] = closed[n]
  <2> HIDE DEF error, closed
  <2> QED BY <1>1, <1>7
<1> QED BY <1>1, <1>2, <1>8

\* Attempt j is the first one from i on that settles the attachment with r.
Settles(answers, cancelled, i, j, r) ==
    /\ j \in i .. FetchMaxRetries
    /\ j < cancelled
    /\ FetchOne(answers[j]) = r
    /\ \A k \in i .. j - 1 : FetchOne(answers[k]) = "transient"

\* What the attempts from i on end with.
Settled(answers, cancelled, i) ==
    IF \E j \in Attempts : Settles(answers, cancelled, i, j, "ok") THEN "ok"
    ELSE IF \E j \in Attempts : Settles(answers, cancelled, i, j, "permanent") THEN "permanent"
    ELSE "transient"

\* What one HTTP answer means.
LEMMA FetchOneFact ==
    ASSUME NEW a \in Answers
    PROVE  /\ FetchOne(a) \in Verdict
           /\ FetchOne(a) = "ok" <=> a = "body"
           /\ FetchOne(a) = "permanent" <=> a \in {"code4xx", "tooLarge"}
           /\ FetchOne(a) = "transient" <=> a \notin {"body", "code4xx", "tooLarge"}
BY DEF FetchOne, Answers, Verdict

\* Settled obeys the recursion of the retry loop.
LEMMA SettledStep ==
    ASSUME NEW answers \in [Attempts -> Answers],
           NEW cancelled \in 0 .. FetchMaxRetries + 1,
           NEW i \in 0 .. FetchMaxRetries + 1
    PROVE  Settled(answers, cancelled, i) =
             IF i > FetchMaxRetries \/ i >= cancelled THEN "transient"
             ELSE IF FetchOne(answers[i]) = "transient" THEN Settled(answers, cancelled, i + 1)
             ELSE FetchOne(answers[i])
<1> DEFINE S(k, j, r) == Settles(answers, cancelled, k, j, r)
           O(k) == FetchOne(answers[k])
<1>1. FetchMaxRetries \in Nat /\ cancelled \in Nat /\ i \in Nat
  BY FetcherAssumption
<1>2. \A k \in Attempts : O(k) \in Verdict
  BY FetchOneFact
<1>3. CASE i > FetchMaxRetries \/ i >= cancelled
  <2>1. \A j \in Attempts, r \in Verdict : ~S(i, j, r)
    BY <1>1, <1>3 DEF Settles, Attempts
  <2> QED BY <1>3, <2>1 DEF Settled, Verdict
<1>4. CASE i <= FetchMaxRetries /\ i < cancelled /\ O(i) = "transient"
  <2>1. ASSUME NEW j \in Attempts, NEW r \in {"ok", "permanent"} PROVE S(i, j, r) <=> S(i + 1, j, r)
    <3>1. S(i, j, r) => j # i
      BY <1>4 DEF Settles
    <3>2. \A k \in i .. j - 1 : k = i \/ k \in i + 1 .. j - 1
      BY <1>1 DEF Attempts
    <3>3. \A k \in i + 1 .. j - 1 : k \in i .. j - 1
      BY <1>1 DEF Attempts
    <3>4. j \in i .. FetchMaxRetries /\ j # i <=> j \in i + 1 .. FetchMaxRetries
      BY <1>1 DEF Attempts
    <3> QED BY <1>4, <3>1, <3>2, <3>3, <3>4 DEF Settles
  <2>2. ~(i > FetchMaxRetries \/ i >= cancelled)
    BY <1>1, <1>4
  <2> QED BY <1>4, <2>1, <2>2 DEF Settled
<1>5. CASE i <= FetchMaxRetries /\ i < cancelled /\ O(i) # "transient"
  <2>1. i \in Attempts /\ ~(i > FetchMaxRetries \/ i >= cancelled) /\ O(i) \in {"ok", "permanent"}
    BY <1>1, <1>2, <1>5 DEF Attempts, Verdict
  <2>2. S(i, i, O(i))
    BY <1>1, <1>5 DEF Settles
  <2>3. ASSUME NEW j \in Attempts, NEW r, S(i, j, r) PROVE r = O(i)
    <3>1. j = i \/ i \in i .. j - 1
      BY <1>1, <2>3 DEF Settles, Attempts
    <3> QED BY <1>5, <2>3, <3>1 DEF Settles
  <2> QED BY <1>5, <2>1, <2>2, <2>3 DEF Settled
<1> QED BY <1>1, <1>3, <1>4, <1>5

\* So it is what the retry loop computes, from the last attempt backwards.
LEMMA FetchOneWithRetryFact ==
    ASSUME NEW answers \in [Attempts -> Answers],
           NEW cancelled \in 0 .. FetchMaxRetries + 1
    PROVE  FetchOneWithRetry(answers, cancelled) = Settled(answers, cancelled, 0)
<1> DEFINE n == FetchMaxRetries + 1
           Step(f, i) == IF i > FetchMaxRetries \/ i >= cancelled THEN "transient"
                         ELSE IF FetchOne(answers[i]) = "transient" THEN f[i + 1]
                         ELSE FetchOne(answers[i])
           from[i \in 0 .. FetchMaxRetries + 1] ==
             IF i > FetchMaxRetries \/ i >= cancelled THEN "transient"
             ELSE IF FetchOne(answers[i]) = "transient" THEN from[i + 1]
             ELSE FetchOne(answers[i])
           closed == [i \in 0 .. FetchMaxRetries + 1 |-> Settled(answers, cancelled, i)]
<1>1. FetchMaxRetries \in Nat /\ n \in Nat
  BY FetcherAssumption
<1>2. FetchOneWithRetry(answers, cancelled) = from[0]
  BY DEF FetchOneWithRetry
<1>3. ASSUME NEW i \in 0 .. n PROVE Settled(answers, cancelled, i) = Step(closed, i)
  <2>1. i <= FetchMaxRetries => i + 1 \in 0 .. n
    BY <1>1
  <2>2. i > FetchMaxRetries \/ i <= FetchMaxRetries
    BY <1>1
  <2> QED BY <2>1, <2>2, SettledStep
<1>4. closed = [i \in 0 .. FetchMaxRetries + 1 |-> Step(closed, i)]
  <2> HIDE DEF Step
  <2>1. [i \in 0 .. FetchMaxRetries + 1 |-> Settled(answers, cancelled, i)]
          = [i \in 0 .. FetchMaxRetries + 1 |-> Step(closed, i)]
    BY <1>3
  <2> QED BY <2>1
<1>5. from = [i \in 0 .. FetchMaxRetries + 1 |-> Step(from, i)]
  <2> HIDE DEF closed
  <2> QED BY <1>4
<1>6. ASSUME NEW i \in 0 .. n
      PROVE  from[i] = Step(from, i) /\ closed[i] = Step(closed, i)
  <2> HIDE DEF Step, from, closed
  <2> QED BY <1>4, <1>5, <1>6
<1>7. from[0] = closed[0]
  <2> HIDE DEF from, closed
  <2> DEFINE Same == {i \in 0 .. n : from[n - i] = closed[n - i]}
  <2>1. 0 \in Same
    <3>1. n \in 0 .. n /\ n > FetchMaxRetries /\ n - 0 = n /\ 0 \in 0 .. n
      BY <1>1
    <3>2. from[n] = closed[n]
      BY <1>6, <3>1
    <3> QED BY <3>1, <3>2
  <2>2. ASSUME NEW i \in 1 .. n, i - 1 \in Same PROVE i \in Same
    <3>1. /\ n - i \in 0 .. n /\ n - (i - 1) = (n - i) + 1
          /\ i \in 0 .. n
      BY <1>1
    <3>2. from[(n - i) + 1] = closed[(n - i) + 1]
      BY <2>2, <3>1
    <3>3. from[n - i] = closed[n - i]
      <4> DEFINE k == n - i
      <4> HIDE DEF k
      <4>1. k \in 0 .. n /\ from[k + 1] = closed[k + 1]
        BY <3>1, <3>2 DEF k
      <4>2. from[k] = closed[k]
        BY <1>6, <4>1
      <4> QED BY <4>2 DEF k
    <3> QED BY <3>1, <3>3
  <2> HIDE DEF Same
  <2>3. Same \in SUBSET (0 .. n)
    BY DEF Same
  <2>4. Same = 0 .. n
    BY <1>1, <2>1, <2>2, <2>3, IntervalInduction
  <2>5. n \in Same /\ n - n = 0
    BY <1>1, <2>4
  <2> QED BY <2>5 DEF Same
<1> QED BY <1>1, <1>2, <1>7

\* The result of a fetch and the fate of the attachment.
Agree(link) ==
    /\ link.result \in Verdict
    /\ link.fate \in {"had", "lost", "open"}
    /\ link.result = "ok" <=> link.fate = "had"
    /\ link.result = "transient" <=> link.fate = "open"

\* The retry loop tells the fate of an attachment.
LEMMA LinksAgree ==
    ASSUME NEW link \in LinkResults
    PROVE  Agree(link)
<1>1. PICK answers \in [Attempts -> Answers], cancelled \in 0 .. FetchMaxRetries + 1 :
        link = [result |-> FetchOneWithRetry(answers, cancelled),
                fate   |-> Fate(answers, cancelled)]
  BY DEF LinkResults
<1> DEFINE final == {"body", "code4xx", "tooLarge"}
           First(i) == /\ i < cancelled
                       /\ answers[i] \in final
                       /\ \A j \in 0 .. i - 1 : answers[j] \notin final
           settling == {i \in Attempts : First(i)}
           S(j, r) == Settles(answers, cancelled, 0, j, r)
<1>2. \A j \in Attempts : answers[j] \in Answers
  OBVIOUS
<1>3. ASSUME NEW j \in Attempts
      PROVE  /\ S(j, "ok") <=> First(j) /\ answers[j] = "body"
             /\ S(j, "permanent") <=> First(j) /\ answers[j] # "body"
  <2>1. j \in 0 .. FetchMaxRetries /\ \A k \in 0 .. j - 1 : k \in Attempts
    BY FetcherAssumption DEF Attempts
  <2>2. (\A k \in 0 .. j - 1 : FetchOne(answers[k]) = "transient")
           <=> (\A k \in 0 .. j - 1 : answers[k] \notin final)
    BY <1>2, <2>1, FetchOneFact
  <2> QED BY <1>2, <2>1, <2>2, FetchOneFact DEF Settles
<1>4. Fate(answers, cancelled) =
        IF settling = {} THEN "open"
        ELSE IF \E i \in settling : answers[i] = "body" THEN "had" ELSE "lost"
  BY DEF Fate
<1>5. FetchOneWithRetry(answers, cancelled) =
        IF \E j \in Attempts : S(j, "ok") THEN "ok"
        ELSE IF \E j \in Attempts : S(j, "permanent") THEN "permanent" ELSE "transient"
  BY FetchOneWithRetryFact DEF Settled
<1>6. /\ (\E j \in Attempts : S(j, "ok")) <=> \E i \in settling : answers[i] = "body"
      /\ (\E j \in Attempts : S(j, "permanent")) <=> \E i \in settling : answers[i] # "body"
  <2> HIDE DEF S, First
  <2> QED BY <1>3
<1> HIDE DEF S, settling
<1> QED BY <1>1, <1>4, <1>5, <1>6 DEF Agree, Verdict

\* Whatever the storage servers answer and whenever the token is cancelled, the
\* fetcher's verdict is the one the fates of the attachments call for.
LEMMA VerdictIsDeserved ==
    ASSUME NEW wellFormed \in Seq(BOOLEAN), NEW v \in FetchAttachments(wellFormed)
    PROVE  v.verdict = v.deserved
<1>1. PICK expired \in SUBSET DOMAIN wellFormed,
           cancelled \in 1 .. Len(wellFormed) + 1,
           links \in [DOMAIN wellFormed -> LinkResults] :
        v = Outcome(wellFormed, expired, cancelled, links)
  BY DEF FetchAttachments
<1> DEFINE n == Len(wellFormed)
           results == [i \in DOMAIN links |-> links[i].result]
<1>2. n \in Nat /\ DOMAIN wellFormed = 1 .. n /\ DOMAIN links = 1 .. n
  OBVIOUS
<1>3. \A i \in 1 .. n : Agree(links[i])
  BY <1>2, LinksAgree
<1>4. results \in Seq(Verdict) /\ Len(results) = n /\ \A i \in 1 .. n : results[i] = links[i].result
  <2>1. results = [i \in 1 .. n |-> links[i].result]
    BY <1>2
  <2>2. results \in [1 .. n -> Verdict]
    BY <1>3, <2>1 DEF Agree
  <2>3. \A i \in 1 .. n : results[i] = links[i].result
    BY <2>1
  <2> HIDE DEF results, n
  <2> QED BY <1>2, <2>2, <2>3, LenProperties, SeqDef
<1>5. Collect(results) = Deserved(links)
  <2>1. Collect(results) = Reduced(results, n)
    BY <1>4, CollectFact
  <2> HIDE DEF results, n
  <2>2. \A i \in 1 .. n : /\ results[i] = "ok" <=> links[i].fate = "had"
                          /\ results[i] = "transient" <=> links[i].fate = "open"
    BY <1>3, <1>4 DEF Agree
  <2>3. (\A i \in 1 .. n : results[i] = "ok") <=> \A i \in 1 .. n : links[i].fate = "had"
    BY <2>2, Zenon
  <2>4. (\E i \in 1 .. n : results[i] = "transient") <=> \E i \in 1 .. n : links[i].fate = "open"
    BY <2>2, Zenon
  <2>5. (\A i \in 1 .. n : results[i] = "ok") => ~\E i \in 1 .. n : results[i] = "transient"
    <3>1. "ok" # "transient"
      OBVIOUS
    <3> QED BY <3>1, Zenon
  <2>6. Deserved(links) =
          IF \E i \in 1 .. n : links[i].fate = "open" THEN "transient"
          ELSE IF \A i \in 1 .. n : links[i].fate = "had" THEN "ok" ELSE "permanent"
    BY <1>2, Zenon DEF Deserved
  <2>7. Reduced(results, n) =
          IF \A i \in 1 .. n : results[i] = "ok" THEN "ok"
          ELSE IF \E i \in 1 .. n : results[i] = "transient" THEN "transient"
          ELSE "permanent"
    BY Zenon DEF Reduced
  <2> QED BY <2>1, <2>3, <2>4, <2>5, <2>6, <2>7
<1> QED BY <1>1, <1>5 DEF Outcome

\* The verdict of a fetch is the deserved one.
LEMMA JudgedStep ==
    ASSUME IntakeInv, NEW h \in Handlers, Fetch(h)
    PROVE  misjudged' = misjudged
<1> DEFINE m == handler[h].msg
<1>1. VarTypes /\ handler[h].pc = "fetch" /\ handler[h].pc \in PCs
  BY DEF IntakeInv, Fetch, PCs
<1>2. m \in Msgs /\ body \in BodyChoices
  BY <1>1, BusyFact DEF VarTypes, Job
<1>3. body[m].refs \in Seq(BOOLEAN)
  BY <1>2, IntakeAssumption DEF Body
<1>4. Verdicts[body[m].refs] = FetchAttachments(body[m].refs)
  BY <1>2 DEF Verdicts
<1>5. PICK v \in FetchAttachments(body[m].refs) :
        misjudged' = IF v.verdict = v.deserved THEN misjudged ELSE misjudged \cup {m}
  BY <1>4 DEF Fetch
<1> QED BY <1>3, <1>5, VerdictIsDeserved

-----------------------------------------------------------------------------
\* The types of the variables, and the ceiling on the recipients of what is
\* processed, for any number of messages and permits.
THEOREM IntakeTypeCorrect == Spec => []TypeOK
<1>1. IntakeInv => TypeOK
  BY DEF IntakeInv, StageKnown, TypeOK
<1> QED BY <1>1, IntakeInit, IntakeStep, PTL DEF Spec

\* Through crashes, lost connections and failed writes no published message
\* disappears without a trace.
THEOREM NothingDisappears == Spec => []LeavesTrace
<1>1. IntakeInv => LeavesTrace
  <2> SUFFICES ASSUME IntakeInv, NEW m \in published
               PROVE  \/ InBroker(m) > 0 \/ dlq[m] > 0 \/ m \in dispatched
                      \/ Exists(log, m) \/ m \in unrecorded
    BY DEF LeavesTrace
  <2>1. VarTypes /\ m \in Msgs /\ (Present(m) \/ dlq[m] > 0 \/ Handled(m))
    BY DEF IntakeInv, NoneLost, VarTypes
  <2>2. Present(m) => InBroker(m) > 0
    BY <2>1, PresentFact
  <2> QED BY <2>1, <2>2 DEF Handled
<1> QED BY <1>1, IntakeInit, IntakeStep, PTL DEF Spec

\* What POST /emails/send or the MCP server accepts, the consumer never
\* refuses, and what anctl accepts only for its size, whatever the queues and
\* the other producers do.
THEOREM ApiPromiseKept == Spec => []AcceptedIsNotRefused
<1>1. IntakeInv => AcceptedIsNotRefused
  <2> SUFFICES ASSUME IntakeInv, NEW m \in published
               PROVE  /\ ApiAccepts(m) \/ McpAccepts(m) => ~Exists(log, m)
                      /\ AnctlAccepts(m) /\ Exists(log, m) =>
                           body[m].recipients > MaxRecipients
                      /\ ApiAccepts(m) \/ McpAccepts(m) \/ AnctlAccepts(m) =>
                           (dlq[m] > 0 => body[m].refs # <<>>)
    BY DEF AcceptedIsNotRefused
  <2>1. m \in Msgs /\ MaxRecipients \in Nat \ {0} /\ body[m].recipients \in Nat
    BY IntakeAssumption DEF IntakeAssumption, IntakeInv, VarTypes, Body
  <2>2. /\ Exists(log, m) => body[m].recipients = 0 \/ body[m].recipients > MaxRecipients
        /\ dlq[m] > 0 => body[m].garbled \/ body[m].refs # <<>>
    BY <2>1 DEF IntakeInv, RefusedForCause
  <2>3. ApiAccepts(m) \/ McpAccepts(m) =>
          ~body[m].garbled /\ body[m].recipients \in 1 .. MaxRecipients
    BY <2>1 DEF ApiAccepts, McpAccepts
  <2>4. AnctlAccepts(m) => ~body[m].garbled /\ body[m].recipients > 0
    BY DEF AnctlAccepts
  <2> QED BY <2>1, <2>2, <2>3, <2>4
<1> QED BY <1>1, IntakeInit, IntakeStep, PTL DEF Spec

\* One delivery of a message is dispatched or dead-lettered, never both:
\* only a redelivery or the deferral's second copy can do the other.
THEOREM SentOrDead == Spec => []SentIsDeadOnlyIfCopied
<1>1. IntakeInv => SentIsDeadOnlyIfCopied
  <2> SUFFICES ASSUME IntakeInv, NEW m \in dispatched, dlq[m] > 0 PROVE m \in copied
    BY DEF SentIsDeadOnlyIfCopied
  <2>1. m \in Msgs /\ dlq[m] # 0
    BY DEF IntakeInv, VarTypes
  <2> QED BY <2>1 DEF IntakeInv, OneDeliveryUnlessCopied, OneDelivery
<1> QED BY <1>1, IntakeInit, IntakeStep, PTL DEF Spec

\* "If ANY error is transient -> requeue", "Only if ALL errors are permanent ->
\* no requeue": for any number of attachments, any number of retries and a
\* shutdown at any moment.
THEOREM VerdictsAreDeserved == Spec => []RequeueIfAnyRetryable
<1>1. Init => RequeueIfAnyRetryable
  BY DEF Init, RequeueIfAnyRetryable
<1>2. IntakeInv /\ RequeueIfAnyRetryable /\ [Next]_vars => RequeueIfAnyRetryable'
  <2> SUFFICES ASSUME IntakeInv, [Next]_vars PROVE misjudged' = misjudged
    BY DEF RequeueIfAnyRetryable
  <2>1. ASSUME NEW h \in Handlers, HandlerStep(h) PROVE misjudged' = misjudged
    BY <2>1, JudgedStep
    DEF HandlerStep, OwnStep, DeadLetter, Triage, Skip, Sentinel, Exhaust, Defer, Dispatch, Ack, history
  <2> QED
    BY <2>1
    DEF vars, Next, McpSendEmail, SendEmail, AnctlSend, Produce, Publish, Receive,
        BecomesDue, Expire, ConnectionLost, Crash, history
<1> QED BY <1>1, <1>2, IntakeInit, IntakeStep, PTL DEF Spec
=============================================================================
