---------------------------- MODULE OutboxProofs ----------------------------
(***************************************************************************)
(* Proofs about Outbox, for every number of rows and workers, every batch  *)
(* size, failure limit and budget of faults.                               *)
(***************************************************************************)
EXTENDS Outbox, FiniteSetTheorems, WellFoundedInduction, TLAPS

OutboxRow == [status: Status \cup {"NONE"}, fails: Nat]

\* Faults only use the budget up.
LEMMA SpendType ==
    ASSUME Types, NEW kind \in BudgetKinds, Spend(kind)
    PROVE  budget' \in [BudgetKinds -> Nat]
BY DEF Types, Spend

LEMMA InvInit == Init => OutboxInv
<1> SUFFICES ASSUME Init PROVE OutboxInv
  OBVIOUS
<1>1. Offline \in Worker
  BY DEF Offline, Worker
<1>2. \A w \in Workers : ~InHand(w) /\ Holds(w) = {}
  BY DEF Init, Offline, InHand, Holds
<1>3. outbox \in [Rows -> OutboxRow] /\ worker \in [Workers -> Worker]
  BY <1>1 DEF Init, OutboxRow
<1>4. copies \in [Rows -> Nat] /\ reaps \in [Rows -> Nat] /\ acked \subseteq Rows
      /\ bound \in BOOLEAN
  BY DEF Init
<1>5. budget \in [BudgetKinds -> Nat]
  BY OutboxAssumption DEF Init, OutboxAssumption
<1>6. Types
  BY <1>3, <1>4, <1>5 DEF Types, OutboxRow
<1>7. \A r \in Rows : outbox[r].status = "NONE" /\ outbox[r].fails = 0
  BY DEF Init
<1>8. PublishedWasAcked /\ FailedIffExhausted
  BY <1>7, OutboxAssumption DEF PublishedWasAcked, FailedIffExhausted, OutboxAssumption
<1>9. OneOwner /\ HeldIsClaimed
  BY <1>2 DEF OneOwner, HeldIsClaimed
<1>10. HandInv
  BY <1>2 DEF HandInv, InHand
<1> QED BY <1>6, <1>8, <1>9, <1>10 DEF OutboxInv

\* Steps that leave the table and the reaper's count alone, and let no
\* worker hold more than before.
LEMMA QuietStep ==
    ASSUME OutboxInv, Types', HandInv', UNCHANGED <<outbox, reaps>>,
           acked \subseteq acked', \A w \in Workers : Holds(w)' \subseteq Holds(w)
    PROVE  OutboxInv'
<1>1. PublishedWasAcked' /\ FailedIffExhausted'
  BY DEF OutboxInv, PublishedWasAcked, FailedIffExhausted
<1>2. OneOwner'
  BY DEF OutboxInv, OneOwner
<1>3. HeldIsClaimed'
  BY DEF OutboxInv, HeldIsClaimed
<1> QED BY <1>1, <1>2, <1>3 DEF OutboxInv

\* The business service's insert: a row that is held has a status already.
LEMMA InvInsert ==
    ASSUME OutboxInv, NEW r \in Rows, Insert(r)
    PROVE  OutboxInv'
<1>1. Types /\ outbox[r].status = "NONE" /\ outbox[r] \in OutboxRow
  BY DEF Insert, OutboxInv, Types, OutboxRow
<1>2. /\ outbox' \in [Rows -> OutboxRow]
      /\ outbox'[r].status = "PENDING" /\ outbox'[r].fails = outbox[r].fails
      /\ \A s \in Rows : s # r => outbox'[s] = outbox[s]
  BY <1>1 DEF Insert, Types, OutboxRow, Status
<1>3. Types'
  BY <1>1, <1>2 DEF Insert, Types, OutboxRow
<1>4. \A w \in Workers : Holds(w)' = Holds(w)
  BY DEF Insert, Holds, InHand
<1>5. HandInv'
  BY DEF Insert, OutboxInv, HandInv, InHand
<1>6. PublishedWasAcked' /\ FailedIffExhausted'
  BY <1>1, <1>2 DEF Insert, OutboxInv, PublishedWasAcked, FailedIffExhausted
<1>7. OneOwner'
  BY <1>4 DEF Insert, OutboxInv, OneOwner
<1>8. \A w \in Workers : Holds(w) \subseteq Rows
  BY <1>1 DEF OutboxInv, HandInv, Holds, Types, Worker
<1>9. HeldIsClaimed'
  BY <1>1, <1>2, <1>4, <1>8 DEF Insert, OutboxInv, HeldIsClaimed
<1> QED BY <1>3, <1>5, <1>6, <1>7, <1>9 DEF OutboxInv

\* The fetch: a PENDING row is in nobody's hands unless it was reaped.
LEMMA InvFetch ==
    ASSUME OutboxInv, NEW w \in Workers, Fetch(w)
    PROVE  OutboxInv'
<1>1. PICK batch \in SUBSET Pending :
         /\ outbox' = Claimed(batch)
         /\ \/ worker' = [worker EXCEPT ![w].batch = batch] /\ UNCHANGED budget
            \/ Spend("dberr") /\ UNCHANGED worker
  BY DEF Fetch, Oldest
<1>2. Types /\ worker[w] \in Worker /\ batch \subseteq Rows
      /\ worker[w].pc = "polling" /\ worker[w].batch = {}
  BY DEF Fetch, OutboxInv, Types, Pending
<1>3. /\ outbox' \in [Rows -> OutboxRow]
      /\ \A r \in Rows : outbox'[r].fails = outbox[r].fails
      /\ \A r \in batch : outbox[r].status = "PENDING" /\ outbox'[r].status = "IN_PROGRESS"
      /\ \A r \in Rows \ batch : outbox'[r] = outbox[r]
  BY <1>1, <1>2 DEF Claimed, Types, OutboxRow, Status, Pending
<1>4. /\ worker' \in [Workers -> Worker]
      /\ worker'[w].pc = "polling" /\ worker'[w].batch \subseteq batch
      /\ \A v \in Workers : v # w => worker'[v] = worker[v]
  <2>1. CASE worker' = [worker EXCEPT ![w].batch = batch]
    BY <1>2, <2>1 DEF Types, Worker
  <2>2. CASE UNCHANGED worker
    BY <1>2, <2>2 DEF Types
  <2> QED BY <1>1, <2>1, <2>2
<1>5. Types'
  <2>1. "dberr" \in BudgetKinds
    BY DEF BudgetKinds
  <2>2. budget' \in [BudgetKinds -> Nat]
    BY <1>1, <1>2, <2>1, SpendType DEF Types
  <2> QED BY <1>2, <1>3, <1>4, <2>2 DEF Fetch, Types, OutboxRow
<1>6. UNCHANGED <<acked, reaps>>
  BY DEF Fetch
<1>7. Holds(w)' \subseteq batch /\ \A v \in Workers : v # w => Holds(v)' = Holds(v)
  BY <1>4 DEF Holds, InHand
<1>8. \A v \in Workers : \A r \in Holds(v) : r \in batch => reaps[r] > 0
  BY <1>3 DEF OutboxInv, HeldIsClaimed
<1>9. HandInv'
  BY <1>4, <1>6 DEF OutboxInv, HandInv, InHand
<1>10. PublishedWasAcked' /\ FailedIffExhausted'
  BY <1>3, <1>6 DEF OutboxInv, PublishedWasAcked, FailedIffExhausted
<1>11. OneOwner'
  BY <1>6, <1>7, <1>8 DEF OutboxInv, OneOwner
<1>12. \A v \in Workers : Holds(v) \subseteq Rows
  BY <1>2 DEF OutboxInv, HandInv, Holds, Types, Worker
<1>13. HeldIsClaimed'
  <2> SUFFICES ASSUME NEW v \in Workers, NEW r \in Holds(v)'
               PROVE  outbox'[r].status \in {"IN_PROGRESS", "PUBLISHED"} \/ reaps[r] > 0
    BY <1>6 DEF HeldIsClaimed
  <2>1. CASE r \in batch
    BY <1>3, <2>1
  <2>2. CASE r \notin batch
    <3>1. r \in Holds(v) /\ r \in Rows
      BY <1>7, <1>12, <2>2
    <3> QED BY <1>3, <2>2, <3>1 DEF OutboxInv, HeldIsClaimed
  <2> QED BY <2>1, <2>2
<1> QED BY <1>5, <1>9, <1>10, <1>11, <1>13 DEF OutboxInv

\* The publish: the row goes from the batch to the worker's hand.
LEMMA InvPublish ==
    ASSUME OutboxInv, NEW w \in Workers, Publish(w)
    PROVE  OutboxInv'
<1>1. PICK r \in worker[w].batch : \E pc \in {"mark", "record"} :
         /\ TakeRow(w, r, pc)
         /\ copies' \in {copies, Enqueued(r)}
         /\ acked' \in {acked, acked \cup {r}}
         /\ pc = "mark" => r \in acked'
  BY DEF Publish
<1>2. Types /\ worker[w] \in Worker /\ r \in Rows /\ r \in Nat /\ worker[w].pc = "polling"
  BY OutboxAssumption DEF Publish, OutboxInv, Types, Worker, OutboxAssumption
<1>3. /\ worker' \in [Workers -> Worker]
      /\ worker'[w].row = r /\ worker'[w].batch = worker[w].batch \ {r}
      /\ worker'[w].pc \in {"mark", "record"}
      /\ worker'[w].pc = "mark" => r \in acked'
      /\ \A v \in Workers : v # w => worker'[v] = worker[v]
  BY <1>1, <1>2 DEF TakeRow, Types, Worker
<1>4. UNCHANGED <<outbox, bound, reaps, budget>>
  BY DEF Publish
<1>5. copies' \in [Rows -> Nat] /\ acked' \subseteq Rows /\ acked \subseteq acked'
  BY <1>1, <1>2 DEF Types, Enqueued
<1>6. Types'
  BY <1>2, <1>3, <1>4, <1>5 DEF Types
<1>7. HandInv'
  BY <1>2, <1>3, <1>5 DEF OutboxInv, HandInv, InHand
<1>8. \A v \in Workers : Holds(v)' \subseteq Holds(v)
  BY <1>2, <1>3 DEF Holds, InHand
<1> QED BY <1>4, <1>5, <1>6, <1>7, <1>8, QuietStep

\* The PUBLISHED update.
LEMMA InvMark ==
    ASSUME OutboxInv, NEW w \in Workers, Mark(w)
    PROVE  OutboxInv'
<1> DEFINE r == worker[w].row
<1>1. /\ Types /\ worker[w] \in Worker /\ worker[w].pc = "mark"
      /\ r \in Rows /\ r \in acked /\ r \notin worker[w].batch
  BY DEF Mark, OutboxInv, Types, HandInv, InHand
<1>2. outbox' \in {outbox, MarkedPublished(r)}
  BY DEF Mark
<1>3. /\ outbox' \in [Rows -> OutboxRow]
      /\ \A s \in Rows : outbox'[s].fails = outbox[s].fails
      /\ \A s \in Rows : \/ outbox'[s].status = outbox[s].status
                         \/ /\ s = r /\ outbox[s].status = "IN_PROGRESS"
                            /\ outbox'[s].status = "PUBLISHED"
  <2>1. outbox \in [Rows -> OutboxRow] /\ outbox[r] \in OutboxRow
    BY <1>1 DEF Types, OutboxRow
  <2>2. CASE outbox' = outbox
    BY <2>1, <2>2
  <2>3. CASE outbox' = MarkedPublished(r)
    BY <1>1, <2>1, <2>3 DEF MarkedPublished, OutboxRow, Status
  <2> QED BY <1>2, <2>2, <2>3
<1>4. /\ worker' \in [Workers -> Worker]
      /\ worker'[w].pc \in {"polling", "record"}
      /\ worker'[w].row = r /\ worker'[w].batch = worker[w].batch
      /\ \A v \in Workers : v # w => worker'[v] = worker[v]
  <2>1. PICK pc \in {"polling", "record"} : worker' = [worker EXCEPT ![w].pc = pc]
    BY DEF Mark
  <2> QED BY <1>1, <2>1 DEF Types, Worker
<1>5. UNCHANGED <<acked, reaps>>
  BY DEF Mark
<1>6. Types'
  <2>1. "dberr" \in BudgetKinds
    BY DEF BudgetKinds
  <2>2. budget' \in [BudgetKinds -> Nat]
    BY <1>1, <2>1, SpendType DEF Mark, Types
  <2> QED BY <1>1, <1>3, <1>4, <2>2 DEF Mark, Types, OutboxRow
<1>7. \A v \in Workers : Holds(v)' \subseteq Holds(v) /\ Holds(v) \subseteq Rows
  BY <1>1, <1>4 DEF Holds, InHand, OutboxInv, HandInv, Types, Worker
<1>8. HandInv'
  BY <1>1, <1>4, <1>5 DEF OutboxInv, HandInv, InHand
<1>9. PublishedWasAcked' /\ FailedIffExhausted'
  BY <1>1, <1>3, <1>5 DEF OutboxInv, PublishedWasAcked, FailedIffExhausted
<1>10. OneOwner'
  BY <1>5, <1>7 DEF OutboxInv, OneOwner
<1>11. HeldIsClaimed'
  BY <1>3, <1>5, <1>7 DEF OutboxInv, HeldIsClaimed
<1> QED BY <1>6, <1>8, <1>9, <1>10, <1>11 DEF OutboxInv

\* The failure update: it may release the row, which the worker drops.
LEMMA InvRecord ==
    ASSUME OutboxInv, NEW w \in Workers, Record(w)
    PROVE  OutboxInv'
<1> DEFINE r == worker[w].row
<1>1. /\ Types /\ worker[w] \in Worker /\ worker[w].pc = "record"
      /\ r \in Rows /\ r \notin worker[w].batch
  BY DEF Record, OutboxInv, Types, HandInv, InHand
<1>2. outbox' \in {outbox, FailureRecorded(r)} /\ UNCHANGED <<acked, reaps>>
  BY DEF Record
<1>3. /\ outbox' \in [Rows -> OutboxRow]
      /\ \A s \in Rows : s # r => outbox'[s] = outbox[s]
      /\ \/ outbox'[r] = outbox[r]
         \/ /\ outbox'[r].status \in {"PENDING", "FAILED"}
            /\ outbox'[r].status = "FAILED" <=> outbox'[r].fails >= MaxFailures
  <2>1. outbox \in [Rows -> OutboxRow] /\ outbox[r].fails \in Nat
    BY <1>1 DEF Types, OutboxRow
  <2>2. CASE outbox' = outbox
    BY <2>1, <2>2
  <2>3. CASE outbox' = FailureRecorded(r)
    BY <1>1, <2>1, <2>3 DEF FailureRecorded, OutboxRow, Status
  <2> QED BY <1>2, <2>2, <2>3
<1>4. /\ worker' \in [Workers -> Worker]
      /\ worker'[w].pc \in {"polling", "offline"}
      /\ worker'[w].batch \subseteq worker[w].batch
      /\ \A v \in Workers : v # w => worker'[v] = worker[v]
  <2>1. Offline \in Worker /\ Offline.pc = "offline" /\ Offline.batch = {}
    BY DEF Offline, Worker
  <2>2. [worker[w] EXCEPT !.pc = "polling"] \in Worker
    BY <1>1 DEF Worker
  <2>3. CASE worker' = [worker EXCEPT ![w] = [worker[w] EXCEPT !.pc = "polling"]]
    BY <1>1, <2>2, <2>3 DEF Types, Worker
  <2>4. CASE worker' = [worker EXCEPT ![w] = Offline]
    BY <1>1, <2>1, <2>4 DEF Types
  <2> QED BY <2>3, <2>4 DEF Record
<1>5. Types'
  <2>1. "dberr" \in BudgetKinds
    BY DEF BudgetKinds
  <2>2. budget' \in [BudgetKinds -> Nat]
    BY <1>1, <2>1, SpendType DEF Record, Types
  <2> QED BY <1>1, <1>3, <1>4, <2>2 DEF Record, Types, OutboxRow
<1>6. /\ Holds(w)' \subseteq Holds(w) \ {r}
      /\ \A v \in Workers : Holds(v)' \subseteq Holds(v) /\ Holds(v) \subseteq Rows
  BY <1>1, <1>4 DEF Holds, InHand, OutboxInv, HandInv, Types, Worker
<1>7. HandInv'
  BY <1>2, <1>4 DEF OutboxInv, HandInv, InHand
<1>8. PublishedWasAcked' /\ FailedIffExhausted'
  BY <1>1, <1>2, <1>3 DEF OutboxInv, PublishedWasAcked, FailedIffExhausted
<1>9. OneOwner'
  BY <1>2, <1>6 DEF OutboxInv, OneOwner
<1>10. HeldIsClaimed'
  <2> SUFFICES ASSUME NEW v \in Workers, NEW s \in Holds(v)'
               PROVE  outbox'[s].status \in {"IN_PROGRESS", "PUBLISHED"} \/ reaps[s] > 0
    BY <1>2 DEF HeldIsClaimed
  <2>1. s \in Holds(v) /\ s \in Rows
    BY <1>6
  <2>2. CASE s # r
    BY <1>3, <2>1, <2>2 DEF OutboxInv, HeldIsClaimed
  <2>3. CASE s = r
    <3>1. v # w /\ r \in Holds(w)
      BY <1>1, <1>6, <2>3 DEF Holds, InHand
    <3> QED BY <2>1, <2>3, <3>1 DEF OutboxInv, OneOwner
  <2> QED BY <2>2, <2>3
<1> QED BY <1>5, <1>7, <1>8, <1>9, <1>10 DEF OutboxInv

\* The reaper counts every row it puts back.
LEMMA InvReap ==
    ASSUME OutboxInv, NEW K \in SUBSET Rows, Reap(K)
    PROVE  OutboxInv'
<1>1. Types /\ UNCHANGED <<worker, acked>>
  BY DEF Reap, OutboxInv
<1>2. /\ outbox' \in [Rows -> OutboxRow] /\ reaps' \in [Rows -> Nat]
      /\ \A r \in Rows : outbox'[r].fails = outbox[r].fails
      /\ \A r \in Rows : \/ r \notin K /\ outbox'[r] = outbox[r] /\ reaps'[r] = reaps[r]
                         \/ /\ outbox[r].status = "IN_PROGRESS"
                            /\ outbox'[r].status = "PENDING"
                            /\ reaps'[r] > 0
  BY <1>1 DEF Reap, Types, OutboxRow, Status
<1>3. Types'
  <2>1. "slow" \in BudgetKinds
    BY DEF BudgetKinds
  <2>2. budget' \in [BudgetKinds -> Nat]
    BY <1>1, <2>1, SpendType DEF Reap, Types
  <2> QED BY <1>1, <1>2, <2>2 DEF Reap, Types, OutboxRow
<1>4. \A v \in Workers : Holds(v)' = Holds(v) /\ Holds(v) \subseteq Rows
  BY <1>1 DEF Holds, InHand, OutboxInv, HandInv, Types, Worker
<1>5. HandInv'
  BY <1>1 DEF OutboxInv, HandInv, InHand
<1>6. PublishedWasAcked' /\ FailedIffExhausted'
  BY <1>1, <1>2 DEF OutboxInv, PublishedWasAcked, FailedIffExhausted
<1>7. OneOwner'
  BY <1>2, <1>4 DEF OutboxInv, OneOwner
<1>8. HeldIsClaimed'
  BY <1>2, <1>4 DEF OutboxInv, HeldIsClaimed
<1> QED BY <1>3, <1>5, <1>6, <1>7, <1>8 DEF OutboxInv

\* Connecting, losing the connection and stopping: nothing is taken.
LEMMA InvLife ==
    ASSUME OutboxInv, NEW w \in Workers, Connect(w) \/ ConnectionLost(w) \/ Stop(w)
    PROVE  OutboxInv'
<1>1. Types /\ worker[w] \in Worker /\ UNCHANGED <<outbox, bound, copies, acked, reaps>>
  BY DEF Connect, ConnectionLost, Stop, OutboxInv, Types
<1>2. /\ worker' \in [Workers -> Worker]
      /\ \/ /\ worker'[w].pc \in {"polling", "offline"}
            /\ worker'[w].batch \subseteq worker[w].batch
         \/ /\ worker'[w].pc = worker[w].pc /\ worker'[w].row = worker[w].row
            /\ worker'[w].batch = worker[w].batch
      /\ \A v \in Workers : v # w => worker'[v] = worker[v]
  <2>1. CASE Connect(w)
    BY <1>1, <2>1 DEF Connect, Types, Worker
  <2>2. CASE ConnectionLost(w)
    BY <1>1, <2>2 DEF ConnectionLost, Types, Worker
  <2>3. CASE Stop(w)
    <3>1. Offline \in Worker /\ Offline.pc = "offline" /\ Offline.batch = {}
      BY DEF Offline, Worker
    <3> QED BY <1>1, <2>3, <3>1 DEF Stop, Types
  <2> QED BY <2>1, <2>2, <2>3
<1>3. Types'
  <2>1. "crash" \in BudgetKinds /\ "netloss" \in BudgetKinds
    BY DEF BudgetKinds
  <2>2. budget' \in [BudgetKinds -> Nat]
    BY <1>1, <2>1, SpendType DEF Connect, ConnectionLost, Stop, Types
  <2> QED BY <1>1, <1>2, <2>2 DEF Types
<1>4. HandInv'
  BY <1>1, <1>2 DEF OutboxInv, HandInv, InHand
<1>5. \A v \in Workers : Holds(v)' \subseteq Holds(v)
  BY <1>2 DEF Holds, InHand
<1> QED BY <1>1, <1>3, <1>4, <1>5, QuietStep

LEMMA InvStep == OutboxInv /\ [Next]_vars => OutboxInv'
<1> SUFFICES ASSUME OutboxInv, [Next]_vars PROVE OutboxInv'
  OBVIOUS
<1>1. CASE UNCHANGED vars
  BY <1>1 DEF vars, OutboxInv, Types, PublishedWasAcked, FailedIffExhausted, OneOwner,
     HandInv, HeldIsClaimed, Holds, InHand
<1>2. CASE Bind
  <2>1. Types' /\ HandInv' /\ UNCHANGED <<outbox, reaps, acked>>
    BY <1>2 DEF Bind, OutboxInv, Types, HandInv, InHand
  <2>2. \A w \in Workers : Holds(w)' \subseteq Holds(w)
    BY <1>2 DEF Bind, Holds, InHand
  <2> QED BY <2>1, <2>2, QuietStep
<1>3. CASE Next
  BY <1>2, <1>3, InvInsert, InvFetch, InvPublish, InvMark, InvRecord, InvReap, InvLife
     DEF Next, WorkerStep
<1> QED BY <1>1, <1>3

\* A PUBLISHED row was acknowledged by the broker, in every behaviour of any
\* number of workers and reapers.
THEOREM PublishedSafe == Spec => []PublishedWasAcked
<1>1. OutboxInv => PublishedWasAcked
  BY DEF OutboxInv
<1> QED BY <1>1, InvInit, InvStep, PTL DEF Spec

\* FAILED is exactly "failures used up", so it is never undone.
THEOREM FailureLimitSafe == Spec => []FailedIffExhausted
<1>1. OutboxInv => FailedIffExhausted
  BY DEF OutboxInv
<1> QED BY <1>1, InvInit, InvStep, PTL DEF Spec

\* The claim in the fetch transaction is exclusive until the reaper breaks it.
THEOREM ClaimsExclusive == Spec => []OneOwner
<1>1. OutboxInv => OneOwner
  BY DEF OutboxInv
<1> QED BY <1>1, InvInit, InvStep, PTL DEF Spec

-----------------------------------------------------------------------------
(***************************************************************************)
(* The LIMIT of the fetch, and the types.                                  *)
(***************************************************************************)

\* A non-empty finite set of numbers has a greatest element: one for which
\* the set of elements above it is minimal.
LEMMA HasGreatest ==
    ASSUME NEW B \in SUBSET Nat, IsFiniteSet(B), B # {}
    PROVE  \E m \in B : \A b \in B : b <= m
<1> DEFINE Above(b) == {s \in B : s > b}
           Aboves == {Above(b) : b \in B}
<1>1. \A b \in B : Above(b) \in FiniteSubsetsOf(B)
  BY FS_Subset DEF FiniteSubsetsOf
<1>2. Aboves \subseteq FiniteSubsetsOf(B) /\ Aboves # {}
  BY <1>1
<1>3. \E A \in Aboves : \A C \in Aboves : ~(<<C, A>> \in StrictSubsetOrdering(B))
  <2> HIDE DEF Aboves
  <2> QED BY <1>2, WFMin, FS_StrictSubsetOrderingWellFounded
<1>4. PICK m \in B : \A b \in B : ~(<<Above(b), Above(m)>> \in StrictSubsetOrdering(B))
  BY <1>3
<1>5. ASSUME NEW b \in B, b > m PROVE FALSE
  <2>1. Above(b) \subseteq Above(m) /\ b \in Above(m) /\ b \notin Above(b)
    <3>1. b \in Nat /\ m \in Nat /\ b > m /\ \A s \in B : s \in Nat
      BY <1>5
    <3>2. \A s \in B : s > b => s > m
      BY <3>1
    <3>3. b \in Above(m) /\ b \notin Above(b)
      BY <3>1
    <3>4. Above(b) \subseteq Above(m)
      BY <3>2
    <3> QED BY <3>3, <3>4
  <2>2. Above(b) \in SUBSET B /\ Above(m) \in SUBSET B /\ Above(b) # Above(m)
    BY <2>1
  <2> HIDE DEF Above
  <2>3. <<Above(b), Above(m)>> \in StrictSubsetOrdering(B)
    BY <2>1, <2>2 DEF StrictSubsetOrdering
  <2> QED BY <1>4, <2>3
<1> QED BY <1>5

\* ORDER BY created_at LIMIT batch_size returns at most batch_size rows.
LEMMA OldestIsLimited ==
    ASSUME NEW S \in SUBSET Rows
    PROVE  Oldest(S) \subseteq S /\ Cardinality(Oldest(S)) <= BatchSize
<1> DEFINE B == Oldest(S)
           Below(m) == {s \in S : s < m}
<1>1. IsFiniteSet(S) /\ S \subseteq Nat /\ BatchSize \in Nat
  BY OutboxAssumption, FS_Subset DEF OutboxAssumption
<1>2. B \in SUBSET S /\ IsFiniteSet(B) /\ B \in SUBSET Nat
  BY <1>1, FS_Subset DEF Oldest
<1>3. CASE B = {}
  BY <1>1, <1>3, FS_EmptySet
<1>4. CASE B # {}
  <2>1. PICK m \in B : \A b \in B : b <= m
    BY <1>2, <1>4, HasGreatest
  <2>2. IsFiniteSet(Below(m)) /\ Cardinality(Below(m)) \in Nat
    BY <1>1, FS_Subset, FS_CardinalityType
  <2>3. Cardinality(Below(m)) < BatchSize
    BY DEF Oldest
  <2>4. B \in SUBSET (Below(m) \cup {m})
    BY <1>1, <1>2, <2>1
  <2>5. /\ IsFiniteSet(Below(m) \cup {m})
        /\ Cardinality(Below(m) \cup {m}) = Cardinality(Below(m)) + 1
    <3>1. m \notin Below(m)
      BY <1>1, <1>2
    <3> QED BY <2>2, <3>1, FS_AddElement
  <2>6. Cardinality(B) <= Cardinality(Below(m) \cup {m})
    BY <2>4, <2>5, FS_Subset
  <2>7. Cardinality(B) \in Nat
    BY <1>2, FS_CardinalityType
  <2> QED BY <1>1, <1>2, <2>2, <2>3, <2>5, <2>6, <2>7
<1> QED BY <1>2, <1>3, <1>4

\* A batch is at most batch_size rows, from the fetch on.
BatchesLimited ==
    \A w \in Workers : worker[w].batch \subseteq Rows
                       /\ Cardinality(worker[w].batch) <= BatchSize

\* No worker's batch grows but by a fetch.
LEMMA BatchesOnlyShrink ==
    ASSUME Types, Next, NEW w \in Workers, ~Fetch(w)
    PROVE  worker'[w].batch \subseteq worker[w].batch
<1>1. worker \in [Workers -> Worker] /\ worker[w] \in Worker
  BY DEF Types
<1>2. CASE UNCHANGED worker
  BY <1>2
<1>3. ASSUME NEW v \in Workers, WorkerStep(v) \/ ConnectionLost(v) \/ Stop(v)
      PROVE  worker'[w].batch \subseteq worker[w].batch
  <2>1. CASE v # w
    BY <1>1, <1>3, <2>1
       DEF WorkerStep, Connect, Fetch, Publish, TakeRow, Mark, Record, ConnectionLost, Stop
  <2>2. CASE v = w
    <3>1. CASE Connect(w)
      BY <1>1, <3>1 DEF Connect, Worker
    <3>2. CASE Publish(w)
      <4>1. PICK r, pc : TakeRow(w, r, pc)
        BY <3>2 DEF Publish
      <4> QED BY <1>1, <4>1 DEF TakeRow, Worker
    <3>3. CASE Mark(w)
      <4>1. PICK pc : worker' = [worker EXCEPT ![w].pc = pc]
        BY <3>3 DEF Mark
      <4> QED BY <1>1, <4>1 DEF Worker
    <3>4. CASE ConnectionLost(w)
      BY <1>1, <3>4 DEF ConnectionLost, Worker
    <3>5. CASE Record(w) \/ Stop(w)
      BY <1>1, <3>5 DEF Record, Stop, Offline, Worker
    <3> QED BY <1>3, <2>2, <3>1, <3>2, <3>3, <3>4, <3>5 DEF WorkerStep
  <2> QED BY <2>1, <2>2
<1> QED BY <1>2, <1>3 DEF Next, Insert, Bind, Reap

\* The types of every variable, in every behaviour; no batch a worker holds
\* is larger than cfg.batch_size.
THEOREM OutboxTypeCorrect == Spec => []TypeOK
<1>1. OutboxInv /\ BatchesLimited => TypeOK
  BY DEF OutboxInv, BatchesLimited, TypeOK
<1>2. Init => BatchesLimited
  BY FS_EmptySet, OutboxAssumption DEF Init, Offline, BatchesLimited, OutboxAssumption
<1>3. ASSUME OutboxInv, BatchesLimited, [Next]_vars PROVE BatchesLimited'
  <2> SUFFICES ASSUME NEW w \in Workers
               PROVE  worker'[w].batch \subseteq Rows
                      /\ Cardinality(worker'[w].batch) <= BatchSize
    BY DEF BatchesLimited
  <2>1. BatchSize \in Nat /\ IsFiniteSet(Rows) /\ Types
    BY <1>3, OutboxAssumption DEF OutboxAssumption, OutboxInv
  <2>2. CASE worker'[w].batch \subseteq worker[w].batch
    <3>1. /\ worker[w].batch \in SUBSET Rows
          /\ Cardinality(worker[w].batch) <= BatchSize
      BY <1>3 DEF BatchesLimited
    <3>2. IsFiniteSet(worker[w].batch)
      BY <2>1, <3>1, FS_Subset
    <3>3. /\ IsFiniteSet(worker'[w].batch)
          /\ Cardinality(worker'[w].batch) <= Cardinality(worker[w].batch)
      BY <2>2, <3>2, FS_Subset
    <3>4. Cardinality(worker[w].batch) \in Nat /\ Cardinality(worker'[w].batch) \in Nat
      BY <3>2, <3>3, FS_CardinalityType
    <3> QED BY <2>1, <2>2, <3>1, <3>3, <3>4
  <2>3. CASE Fetch(w)
    <3>1. PICK S \in SUBSET Rows :
             \/ worker' = [worker EXCEPT ![w].batch = Oldest(S)]
             \/ UNCHANGED worker
      BY <2>3 DEF Fetch, Pending
    <3>2. CASE UNCHANGED worker
      BY <2>2, <3>2
    <3>3. CASE worker' = [worker EXCEPT ![w].batch = Oldest(S)]
      <4>1. worker'[w].batch = Oldest(S)
        BY <2>1, <3>3 DEF Types, Worker
      <4>2. Oldest(S) \subseteq S /\ Cardinality(Oldest(S)) <= BatchSize
        BY OldestIsLimited
      <4> QED BY <4>1, <4>2
    <3> QED BY <3>1, <3>2, <3>3
  <2>4. CASE UNCHANGED vars
    BY <2>2, <2>4 DEF vars
  <2> QED BY <1>3, <2>1, <2>2, <2>3, <2>4, BatchesOnlyShrink
<1> QED BY <1>1, <1>2, <1>3, InvInit, InvStep, PTL DEF Spec

-----------------------------------------------------------------------------
(***************************************************************************)
(* Duplicates.  A copy costs a claim, and every claim but the first was    *)
(* paid for: what is in the queue, plus the claims that may still publish, *)
(* plus the claim an unclaimed row will get, never exceeds the account.    *)
(***************************************************************************)

\* The workers that have claimed r and not yet published it.
Takers(r) == {w \in Workers : r \in worker[w].batch}

Unclaimed(r) == IF outbox[r].status \in {"NONE", "PENDING"} THEN 1 ELSE 0

PaidFor(r) ==
    /\ IsFiniteSet(Takers(r))
    /\ copies[r] + Cardinality(Takers(r)) + Unclaimed(r) <= 1 + outbox[r].fails + reaps[r]

ClaimsPaid == \A r \in Rows : PaidFor(r)

\* What the arithmetic is about.
LEMMA AccountTypes ==
    ASSUME Types, NEW r \in Rows
    PROVE  /\ copies[r] \in Nat /\ outbox[r].fails \in Nat /\ reaps[r] \in Nat
           /\ Unclaimed(r) \in 0 .. 1
           /\ IsFiniteSet(Takers(r)) => Cardinality(Takers(r)) \in Nat
<1>1. copies[r] \in Nat /\ outbox[r].fails \in Nat /\ reaps[r] \in Nat
  BY DEF Types
<1>2. Unclaimed(r) \in 0 .. 1
  BY DEF Unclaimed
<1>3. IsFiniteSet(Takers(r)) => Cardinality(Takers(r)) \in Nat
  BY FS_CardinalityType
<1> QED BY <1>1, <1>2, <1>3

\* A step that publishes nothing and claims nothing, and pays for what it
\* puts back.
LEMMA NothingBought ==
    ASSUME Types, Types', NEW r \in Rows, PaidFor(r),
           Takers(r)' \subseteq Takers(r), copies'[r] = copies[r],
           Unclaimed(r)' + outbox[r].fails + reaps[r]
             <= Unclaimed(r) + outbox'[r].fails + reaps'[r]
    PROVE  PaidFor(r)'
<1>1. IsFiniteSet(Takers(r))
  BY DEF PaidFor
<1>2. IsFiniteSet(Takers(r)') /\ Cardinality(Takers(r)') <= Cardinality(Takers(r))
  BY <1>1, FS_Subset
<1>3. /\ copies[r] \in Nat /\ outbox[r].fails \in Nat /\ reaps[r] \in Nat
      /\ Unclaimed(r) \in Int /\ Cardinality(Takers(r)) \in Nat
  BY <1>1, AccountTypes
<1>4. /\ outbox'[r].fails \in Nat /\ reaps'[r] \in Nat /\ copies'[r] \in Nat
      /\ Cardinality(Takers(r)') \in Nat
  BY <1>2, FS_CardinalityType DEF Types
<1>5. Unclaimed(r)' \in Int
  BY DEF Unclaimed
<1>6. copies'[r] + Cardinality(Takers(r)') + Unclaimed(r)' <= 1 + outbox'[r].fails + reaps'[r]
  BY <1>2, <1>3, <1>4, <1>5 DEF PaidFor
<1> QED BY <1>2, <1>6 DEF PaidFor

\* The batches shrink, so the rows have no more takers.
LEMMA FewerTakers ==
    ASSUME Types, Next, \A w \in Workers : ~Fetch(w), NEW r \in Rows
    PROVE  Takers(r)' \subseteq Takers(r)
<1>1. \A w \in Workers : worker'[w].batch \subseteq worker[w].batch
  BY BatchesOnlyShrink
<1> QED BY <1>1 DEF Takers

\* The fetch spends the claim that was open for a PENDING row.
LEMMA FetchPaid ==
    ASSUME OutboxInv, Types', NEW w \in Workers, Fetch(w), NEW r \in Rows, PaidFor(r)
    PROVE  PaidFor(r)'
<1>1. PICK batch \in SUBSET Pending :
         /\ outbox' = Claimed(batch)
         /\ worker' = [worker EXCEPT ![w].batch = batch] \/ UNCHANGED worker
  BY DEF Fetch, Oldest
<1>2. Types /\ UNCHANGED <<copies, reaps>> /\ worker \in [Workers -> Worker]
  BY DEF Fetch, OutboxInv, Types
<1>3. /\ worker'[w].batch \in {batch, worker[w].batch}
      /\ \A v \in Workers : v # w => worker'[v] = worker[v]
  BY <1>1, <1>2 DEF Worker
<1>4. outbox'[r].fails = outbox[r].fails
  BY <1>1, <1>2 DEF Claimed, Types
<1>5. CASE r \notin batch
  <2>1. Takers(r)' \subseteq Takers(r)
    BY <1>3, <1>5 DEF Takers
  <2>2. outbox'[r] = outbox[r]
    BY <1>1, <1>5 DEF Claimed
  <2>3. Unclaimed(r)' = Unclaimed(r)
    BY <2>2 DEF Unclaimed
  <2>4. /\ outbox[r].fails \in Nat /\ reaps[r] \in Nat /\ Unclaimed(r) \in Int
    BY <1>2, AccountTypes
  <2>5. Unclaimed(r)' + outbox[r].fails + reaps[r]
          <= Unclaimed(r) + outbox'[r].fails + reaps'[r]
    BY <1>2, <1>4, <2>3, <2>4
  <2> QED BY <1>2, <2>1, <2>5, NothingBought
<1>6. CASE r \in batch
  <2>1. Unclaimed(r) = 1 /\ Unclaimed(r)' = 0
    <3>1. outbox[r].status = "PENDING" /\ outbox[r] \in OutboxRow
      BY <1>2, <1>6 DEF Pending, Types, OutboxRow
    <3>2. outbox'[r].status = "IN_PROGRESS"
      BY <1>1, <1>6, <3>1 DEF Claimed, OutboxRow
    <3> QED BY <3>1, <3>2 DEF Unclaimed
  <2>2. Takers(r)' \in SUBSET (Takers(r) \cup {w}) /\ IsFiniteSet(Takers(r))
    BY <1>3 DEF Takers, PaidFor
  <2>3. /\ copies[r] \in Nat /\ outbox[r].fails \in Nat /\ reaps[r] \in Nat
        /\ Cardinality(Takers(r)) \in Nat
    BY <1>2, <2>2, AccountTypes
  <2>4. /\ IsFiniteSet(Takers(r) \cup {w})
        /\ Cardinality(Takers(r) \cup {w}) \in {Cardinality(Takers(r)), Cardinality(Takers(r)) + 1}
    BY <2>2, FS_AddElement
  <2>5. IsFiniteSet(Takers(r)') /\ Cardinality(Takers(r)') <= Cardinality(Takers(r) \cup {w})
    BY <2>2, <2>4, FS_Subset
  <2>6. Cardinality(Takers(r)') \in Nat
    BY <2>5, FS_CardinalityType
  <2>7. copies'[r] + Cardinality(Takers(r)') + Unclaimed(r)' <= 1 + outbox'[r].fails + reaps'[r]
    BY <1>2, <1>4, <2>1, <2>3, <2>4, <2>5, <2>6 DEF PaidFor
  <2> QED BY <2>5, <2>7 DEF PaidFor
<1> QED BY <1>5, <1>6

\* The publish turns a claim into at most one copy.
LEMMA PublishPaid ==
    ASSUME OutboxInv, Types', NEW w \in Workers, Publish(w), NEW r \in Rows, PaidFor(r)
    PROVE  PaidFor(r)'
<1>1. PICK q \in worker[w].batch :
         /\ \E pc : TakeRow(w, q, pc)
         /\ copies' \in {copies, Enqueued(q)}
  BY DEF Publish
<1>2. /\ Types /\ UNCHANGED <<outbox, reaps>> /\ worker \in [Workers -> Worker]
      /\ copies \in [Rows -> Nat]
  BY DEF Publish, OutboxInv, Types
<1>3. /\ worker'[w].batch = worker[w].batch \ {q}
      /\ \A v \in Workers : v # w => worker'[v] = worker[v]
  BY <1>1, <1>2 DEF TakeRow, Worker
<1>4. Unclaimed(r)' = Unclaimed(r)
  BY <1>2 DEF Unclaimed
<1>5. IsFiniteSet(Takers(r))
  BY DEF PaidFor
<1>6. /\ copies[r] \in Nat /\ outbox[r].fails \in Nat /\ reaps[r] \in Nat
      /\ Cardinality(Takers(r)) \in Nat /\ Unclaimed(r) \in Int
  BY <1>2, <1>5, AccountTypes
<1>7. CASE r # q
  <2>1. Takers(r)' \subseteq Takers(r)
    BY <1>3 DEF Takers
  <2>2. copies'[r] = copies[r]
    BY <1>1, <1>2, <1>7 DEF Enqueued
  <2>3. Unclaimed(r)' + outbox[r].fails + reaps[r]
          <= Unclaimed(r) + outbox'[r].fails + reaps'[r]
    BY <1>2, <1>4, <1>6
  <2> QED BY <1>2, <2>1, <2>2, <2>3, NothingBought
<1>8. CASE r = q
  <2>1. Takers(r)' = Takers(r) \ {w} /\ w \in Takers(r)
    BY <1>3, <1>8 DEF Takers
  <2>2. IsFiniteSet(Takers(r)') /\ Cardinality(Takers(r)') = Cardinality(Takers(r)) - 1
    BY <1>5, <2>1, FS_RemoveElement
  <2>3. copies'[r] \in {copies[r], copies[r] + 1}
    BY <1>1, <1>2, <1>8 DEF Enqueued
  <2>4. copies'[r] + Cardinality(Takers(r)') + Unclaimed(r)' <= 1 + outbox'[r].fails + reaps'[r]
    BY <1>2, <1>4, <1>6, <2>2, <2>3 DEF PaidFor
  <2> QED BY <2>2, <2>4 DEF PaidFor
<1> QED BY <1>7, <1>8

\* The statements that change a row pay for the claim they open.
LEMMA RowWritesPaid ==
    ASSUME OutboxInv, Types', NEW r \in Rows,
           \/ \E s \in Rows : Insert(s)
           \/ \E w \in Workers : Mark(w) \/ Record(w)
           \/ \E K \in SUBSET Rows : Reap(K)
    PROVE  /\ copies'[r] = copies[r]
           /\ Unclaimed(r)' + outbox[r].fails + reaps[r]
                <= Unclaimed(r) + outbox'[r].fails + reaps'[r]
<1>1. Types /\ outbox \in [Rows -> OutboxRow] /\ reaps \in [Rows -> Nat]
  BY DEF OutboxInv, Types, OutboxRow
<1>2. /\ outbox[r] \in OutboxRow /\ outbox[r].fails \in Nat /\ reaps[r] \in Nat
      /\ Unclaimed(r) \in 0 .. 1
  BY <1>1, AccountTypes DEF OutboxRow
<1>3. Unclaimed(r)' \in 0 .. 1
  BY DEF Unclaimed
<1>4. copies'[r] = copies[r]
  BY DEF Insert, Mark, Record, Reap
<1>5. ASSUME NEW s \in Rows, Insert(s)
      PROVE  Unclaimed(r)' = Unclaimed(r) /\ outbox'[r].fails = outbox[r].fails
             /\ reaps'[r] = reaps[r]
  BY <1>1, <1>2, <1>5 DEF Insert, Unclaimed, OutboxRow
<1>6. ASSUME NEW w \in Workers, Mark(w)
      PROVE  Unclaimed(r)' = Unclaimed(r) /\ outbox'[r].fails = outbox[r].fails
             /\ reaps'[r] = reaps[r]
  <2>1. outbox' \in {outbox, MarkedPublished(worker[w].row)} /\ UNCHANGED reaps
    BY <1>6 DEF Mark
  <2>2. worker[w].row \in Rows
    BY <1>6 DEF Mark, OutboxInv, HandInv, InHand
  <2>3. CASE outbox' = outbox
    BY <2>1, <2>3 DEF Unclaimed
  <2>4. CASE outbox' = MarkedPublished(worker[w].row)
    BY <1>1, <1>2, <2>1, <2>2, <2>4 DEF MarkedPublished, Unclaimed, OutboxRow
  <2> QED BY <2>1, <2>3, <2>4
<1>7. ASSUME NEW w \in Workers, Record(w)
      PROVE  reaps'[r] = reaps[r] /\ (outbox'[r] = outbox[r] \/ outbox'[r].fails = outbox[r].fails + 1)
  BY <1>1, <1>2, <1>7 DEF Record, FailureRecorded, OutboxRow
<1>8. ASSUME NEW K \in SUBSET Rows, Reap(K)
      PROVE  /\ outbox'[r].fails = outbox[r].fails
             /\ \/ outbox'[r] = outbox[r] /\ reaps'[r] = reaps[r]
                \/ reaps'[r] = reaps[r] + 1
  BY <1>1, <1>2, <1>8 DEF Reap, OutboxRow
<1>9. outbox'[r] = outbox[r] => Unclaimed(r)' = Unclaimed(r)
  BY DEF Unclaimed
<1>10. Unclaimed(r)' + outbox[r].fails + reaps[r] <= Unclaimed(r) + outbox'[r].fails + reaps'[r]
  <2>1. CASE \E s \in Rows : Insert(s)
    BY <1>2, <1>5, <2>1
  <2>2. CASE \E w \in Workers : Mark(w)
    BY <1>2, <1>6, <2>2
  <2>3. CASE \E w \in Workers : Record(w)
    BY <1>2, <1>3, <1>7, <1>9, <2>3
  <2>4. CASE \E K \in SUBSET Rows : Reap(K)
    BY <1>2, <1>3, <1>8, <1>9, <2>4
  <2> QED BY <2>1, <2>2, <2>3, <2>4
<1> QED BY <1>4, <1>10

\* Every extra copy of a message in the queue is paid for by a recorded
\* failure or a run of the reaper, for any number of workers and faults.
THEOREM DuplicatesBounded == Spec => []CopiesAccounted
<1>1. OutboxInv /\ ClaimsPaid => CopiesAccounted
  <2> SUFFICES ASSUME OutboxInv, ClaimsPaid, NEW r \in Rows
               PROVE  copies[r] <= 1 + outbox[r].fails + reaps[r]
    BY DEF CopiesAccounted
  <2>1. PaidFor(r) /\ Types
    BY DEF ClaimsPaid, OutboxInv
  <2>2. /\ copies[r] \in Nat /\ outbox[r].fails \in Nat /\ reaps[r] \in Nat
        /\ Unclaimed(r) \in 0 .. 1 /\ Cardinality(Takers(r)) \in Nat
    BY <2>1, AccountTypes DEF PaidFor
  <2> QED BY <2>1, <2>2 DEF PaidFor
<1>2. Init => ClaimsPaid
  <2> SUFFICES ASSUME Init, NEW r \in Rows PROVE PaidFor(r)
    BY DEF ClaimsPaid
  <2>1. Takers(r) = {}
    BY DEF Init, Offline, Takers
  <2>2. IsFiniteSet(Takers(r)) /\ Cardinality(Takers(r)) = 0
    BY <2>1, FS_EmptySet
  <2>3. copies[r] = 0 /\ outbox[r].fails = 0 /\ reaps[r] = 0 /\ Unclaimed(r) = 1
    BY DEF Init, Unclaimed
  <2> QED BY <2>2, <2>3 DEF PaidFor
<1>3. ASSUME OutboxInv, OutboxInv', ClaimsPaid, [Next]_vars PROVE ClaimsPaid'
  <2> SUFFICES ASSUME NEW r \in Rows PROVE PaidFor(r)'
    BY DEF ClaimsPaid
  <2>1. Types /\ Types' /\ PaidFor(r)
    BY <1>3 DEF OutboxInv, ClaimsPaid
  <2>2. CASE UNCHANGED vars
    BY <2>1, <2>2 DEF vars, PaidFor, Takers, Unclaimed
  <2>3. CASE \E w \in Workers : Fetch(w)
    BY <1>3, <2>1, <2>3, FetchPaid
  <2>4. CASE \E w \in Workers : Publish(w)
    BY <1>3, <2>1, <2>4, PublishPaid
  <2>5. CASE Next /\ (\A w \in Workers : ~Fetch(w)) /\ (\A w \in Workers : ~Publish(w))
    <3>1. Takers(r)' \subseteq Takers(r)
      BY <2>1, <2>5, FewerTakers
    <3>2. CASE UNCHANGED <<outbox, copies, reaps>>
      <4>1. /\ outbox[r].fails \in Nat /\ reaps[r] \in Nat /\ Unclaimed(r) \in Int
            /\ Unclaimed(r)' = Unclaimed(r)
        BY <2>1, <3>2, AccountTypes DEF Unclaimed
      <4>2. Unclaimed(r)' + outbox[r].fails + reaps[r]
              <= Unclaimed(r) + outbox'[r].fails + reaps'[r]
        BY <3>2, <4>1
      <4> QED BY <2>1, <3>1, <3>2, <4>2, NothingBought
    <3>3. CASE \/ \E s \in Rows : Insert(s)
               \/ \E w \in Workers : Mark(w) \/ Record(w)
               \/ \E K \in SUBSET Rows : Reap(K)
      <4>1. /\ copies'[r] = copies[r]
            /\ Unclaimed(r)' + outbox[r].fails + reaps[r]
                 <= Unclaimed(r) + outbox'[r].fails + reaps'[r]
        BY <1>3, <2>1, <3>3, RowWritesPaid
      <4> QED BY <2>1, <3>1, <4>1, NothingBought
    <3> QED BY <2>5, <3>2, <3>3
            DEF Next, WorkerStep, Bind, Connect, ConnectionLost, Stop
  <2> QED BY <1>3, <2>2, <2>3, <2>4, <2>5
<1> QED BY <1>1, <1>2, <1>3, InvInit, InvStep, PTL DEF Spec
=============================================================================
