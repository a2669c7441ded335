----------------------- MODULE NotificationLogProofs -----------------------
(***************************************************************************)
(* What the statements of the store do to a table, whatever its keys are.  *)
(* The proofs about the modules that share the table rest on these facts.  *)
(***************************************************************************)
EXTENDS NotificationLog, TLAPS

\* Every statement maps a table to a table, and leaves no row out: a key
\* that has a row keeps one.
Keeps(K, lg, new) ==
    /\ new \in [K -> Row]
    /\ \A j \in K : Exists(lg, j) => Exists(new, j)

\* insert_pending writes its own key only, and only when it has no row.
LEMMA InsertPendingFact ==
    ASSUME NEW K, NEW lg \in [K -> Row], NEW k \in K
    PROVE  /\ Keeps(K, lg, InsertPending(lg, k))
           /\ Exists(InsertPending(lg, k), k)
           /\ \A j \in K : j # k \/ Exists(lg, k) => InsertPending(lg, k)[j] = lg[j]
           /\ ~Exists(lg, k) => InsertPending(lg, k)[k].status = "PENDING"
BY DEF Keeps, InsertPending, Exists, Row, Status

\* The batch gives every key of B a row, and changes no row there is.
LEMMA InsertPendingBatchFact ==
    ASSUME NEW K, NEW lg \in [K -> Row], NEW B \in SUBSET K
    PROVE  /\ Keeps(K, lg, InsertPendingBatch(lg, B))
           /\ \A j \in B : Exists(InsertPendingBatch(lg, B), j)
           /\ \A j \in K : \/ InsertPendingBatch(lg, B)[j] = lg[j]
                           \/ /\ ~Exists(lg, j)
                              /\ InsertPendingBatch(lg, B)[j].status = "PENDING"
BY DEF Keeps, InsertPendingBatch, Exists, Row, Status

\* The status updates write their own key only, and create no row.
LEMMA MarkFact ==
    ASSUME NEW K, NEW lg \in [K -> Row], NEW k \in K, NEW x \in BOOLEAN,
           NEW new \in {MarkSent(lg, k), MarkBlocked(lg, k), MarkFailed(lg, k, x)}
    PROVE  /\ Keeps(K, lg, new)
           /\ \A j \in K : Exists(new, j) => Exists(lg, j)
           /\ \A j \in K : j # k => new[j] = lg[j]
<1>1. CASE new = MarkSent(lg, k)
  BY <1>1 DEF Keeps, MarkSent, Exists, Row, Status
<1>2. CASE new = MarkBlocked(lg, k)
  BY <1>2 DEF Keeps, MarkBlocked, Exists, Row, Status
<1>3. CASE new = MarkFailed(lg, k, x)
  BY <1>3 DEF Keeps, MarkFailed, Exists, Row, Status
<1> QED BY <1>1, <1>2, <1>3

\* Only mark_sent writes SENT.
LEMMA MarkSentFact ==
    ASSUME NEW K, NEW lg \in [K -> Row], NEW k \in K, NEW x \in BOOLEAN
    PROVE  /\ \A j \in K : MarkSent(lg, k)[j].status = "SENT" =>
                               lg[j].status = "SENT" \/ j = k
           /\ \A j \in K : MarkBlocked(lg, k)[j].status = "SENT" => lg[j].status = "SENT"
           /\ \A j \in K : MarkFailed(lg, k, x)[j].status = "SENT" => lg[j].status = "SENT"
<1>1. \A j \in K : MarkSent(lg, k)[j].status = "SENT" => lg[j].status = "SENT" \/ j = k
  BY DEF MarkSent, Exists, Row, Status
<1>2. \A j \in K : MarkBlocked(lg, k)[j].status = "SENT" => lg[j].status = "SENT"
  BY DEF MarkBlocked, Exists, Row, Status
<1>3. \A j \in K : MarkFailed(lg, k, x)[j].status = "SENT" => lg[j].status = "SENT"
  BY DEF MarkFailed, Exists, Row, Status
<1> QED BY <1>1, <1>2, <1>3

\* mark_skipped writes its own key only, and only when it has no row.
LEMMA MarkSkippedFact ==
    ASSUME NEW K, NEW lg \in [K -> Row], NEW k \in K
    PROVE  /\ Keeps(K, lg, MarkSkipped(lg, k))
           /\ Exists(MarkSkipped(lg, k), k)
           /\ \A j \in K : j # k \/ Exists(lg, k) => MarkSkipped(lg, k)[j] = lg[j]
           /\ ~Exists(lg, k) => MarkSkipped(lg, k)[k].status = "SKIPPED"
BY DEF Keeps, MarkSkipped, Exists, Row, Status

\* What the operator and the reaper do: rows of B that exist become PENDING
\* or FAILED, no other row changes.
LEMMA ResetFact ==
    ASSUME NEW K, NEW lg \in [K -> Row], NEW B \in SUBSET K
    PROVE  /\ Keeps(K, lg, ResetToPending(lg, B))
           /\ \A j \in K : \/ ResetToPending(lg, B)[j] = lg[j]
                           \/ j \in B /\ ResetToPending(lg, B)[j].status = "PENDING"
           /\ Keeps(K, lg, RevertToFailed(lg, B))
           /\ \A j \in K : \/ RevertToFailed(lg, B)[j] = lg[j]
                           \/ /\ Exists(lg, j)
                              /\ RevertToFailed(lg, B)[j].status = "FAILED"
BY DEF Keeps, ResetToPending, RevertToFailed, Exists, Row, Status
=============================================================================
