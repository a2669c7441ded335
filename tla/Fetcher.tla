------------------------------- MODULE Fetcher -------------------------------
(***************************************************************************)
(* The attachment fetcher as operators: what one HTTP answer means, what   *)
(* the retries of one attachment end with, and which of several errors the *)
(* caller gets to see.  The caller asks one thing of an error: whether it  *)
(* is permanent.  Bytes, names and delays are left out.                    *)
(***************************************************************************)
EXTENDS Naturals, Sequences

CONSTANT FetchMaxRetries \* FETCH_MAX_RETRIES

ASSUME FetcherAssumption == FetchMaxRetries \in Nat

Attempts == 0 .. FetchMaxRetries

\* How one GET can end.
Answers == {"unreachable", "code429", "code4xx", "code5xx", "readError",
            "tooLarge", "body"}

\* fetch_one: AppError::RateLimited is not permanent either.
FetchOne(answer) ==
    CASE answer = "body" -> "ok"
      [] answer \in {"code4xx", "tooLarge"} -> "permanent"
      [] answer \in {"unreachable", "code429", "code5xx", "readError"} -> "transient"

\* fetch_one_with_retry: answers[i] is what attempt i would get, and the
\* attempts from cancelled on find the shutdown token cancelled, before they
\* start or in their delay.
FetchOneWithRetry(answers, cancelled) ==
    LET from[i \in 0 .. FetchMaxRetries + 1] ==
          IF i > FetchMaxRetries \/ i >= cancelled THEN "transient"
          ELSE IF FetchOne(answers[i]) = "transient" THEN from[i + 1]
          ELSE FetchOne(answers[i])
    IN from[0]

\* What became of an attachment, told from the answers alone: the first one
\* that is neither an outage nor a refusal for now settles it; it is open
\* when none came before the limit and the cancellation.
Fate(answers, cancelled) ==
    LET final == {"body", "code4xx", "tooLarge"}
        settling == {i \in Attempts : /\ i < cancelled
                                      /\ answers[i] \in final
                                      /\ \A j \in 0 .. i - 1 : answers[j] \notin final}
    IN IF settling = {} THEN "open"
       ELSE IF \E i \in settling : answers[i] = "body" THEN "had" ELSE "lost"

\* What the fetch of one attachment can end with, and its fate.
LinkResults ==
    {[result |-> FetchOneWithRetry(answers, cancelled),
      fate   |-> Fate(answers, cancelled)] :
        answers \in [Attempts -> Answers], cancelled \in 0 .. FetchMaxRetries + 1}

\* Mutant of Representative: the first error is the one reported.
FirstError(acc, e) == acc

\* The closure of the reduce over the errors.
Representative(acc, e) == IF acc = "permanent" /\ e # "permanent" THEN e ELSE acc

\* fetch_attachments_with_limit after the validation: results has one entry
\* per attachment, and error[i] is what the first i of them reduce to.
Collect(results) ==
    LET error[i \in 0 .. Len(results)] ==
          IF i = 0 THEN "ok"
          ELSE IF results[i] = "ok" THEN error[i - 1]
          ELSE IF error[i - 1] = "ok" THEN results[i]
          ELSE Representative(error[i - 1], results[i])
    IN error[Len(results)]

\* The validation before any request, one reference after the other: an
\* invalid or expired one is permanent, a cancelled token transient.  valid
\* has one entry per reference; the checks from cancelled on see the token.
Validate(valid, cancelled) ==
    LET from[i \in 1 .. Len(valid) + 1] ==
          IF i > Len(valid) THEN "ok"
          ELSE IF ~valid[i] THEN "permanent"
          ELSE IF i >= cancelled THEN "transient"
          ELSE from[i + 1]
    IN from[1]

\* fetcher.rs: "If ANY error is transient -> requeue", "Only if ALL errors
\* are permanent -> no requeue".
Deserved(links) ==
    IF \E i \in DOMAIN links : links[i].fate = "open" THEN "transient"
    ELSE IF \A i \in DOMAIN links : links[i].fate = "had" THEN "ok" ELSE "permanent"

\* fetch_attachments_with_limit for attachments of which wellFormed[i] tells
\* whether the i-th passes the checks that do not depend on the time, while
\* those in expired are older than their max_age_secs by now.  With the
\* verdict, the one the fates of the attachments call for.
Outcome(wellFormed, expired, cancelled, links) ==
    LET valid == [i \in DOMAIN wellFormed |-> wellFormed[i] /\ i \notin expired]
        checked == Validate(valid, cancelled)
    IN IF checked = "ok"
       THEN [verdict  |-> Collect([i \in DOMAIN links |-> links[i].result]),
             deserved |-> Deserved(links)]
       ELSE [verdict |-> checked, deserved |-> checked]

\* All it can answer.
FetchAttachments(wellFormed) ==
    {Outcome(wellFormed, expired, cancelled, links) :
        expired \in SUBSET DOMAIN wellFormed,
        cancelled \in 1 .. Len(wellFormed) + 1,
        links \in [DOMAIN wellFormed -> LinkResults]}
=============================================================================
