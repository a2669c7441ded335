------------------------------- MODULE Mailer -------------------------------
(***************************************************************************)
(* What sender.send answers: how SmtpSender and WebhookSender turn the end *)
(* of a conversation with the mail provider into an AppError, reduced to   *)
(* how the retry loops treat it.                                           *)
(***************************************************************************)

Errors == {"permanent", "transient", "ratelimited"}

\* How SmtpSender::send can end: the sender's or the first TO address does not
\* parse; another address, or the type of an attachment, does not; the message
\* does not build; or the transport's result.
SmtpEnds == {"badMailbox", "badExtra", "badBuild", "ok", "code5xx", "code4xx",
             "timeout", "tls", "client", "dropped"}

\* classify_smtp_error, and the mapping of the errors before the transport.
SmtpError(end) ==
    CASE end = "ok" -> "none"
      [] end \in {"badExtra", "code5xx", "client"} -> "permanent"
      [] end \in {"badMailbox", "badBuild", "code4xx", "timeout", "tls", "dropped"} -> "transient"

\* How WebhookSender::send can end.
WebhookEnds == {"noAnswer", "code2xx", "code429", "code4xx", "code5xx"}

WebhookError(end) ==
    CASE end = "code2xx" -> "none"
      [] end = "code429" -> "ratelimited"
      [] end = "code4xx" -> "permanent"
      [] end \in {"noAnswer", "code5xx"} -> "transient"

\* The provider took the mail, did not, or may have: the answer was lost, or
\* the webhook failed on the way.
SmtpTook(end) ==
    IF end = "ok" THEN {TRUE}
    ELSE IF end \in {"timeout", "dropped"} THEN BOOLEAN ELSE {FALSE}

WebhookTook(end) ==
    IF end = "code2xx" THEN {TRUE}
    ELSE IF end \in {"noAnswer", "code5xx"} THEN BOOLEAN ELSE {FALSE}

\* The outcomes of a call of sender.send, whichever sender is configured.
SendOutcomes ==
    {o \in [err: Errors \cup {"none"}, took: BOOLEAN] :
        \/ \E end \in SmtpEnds : o.err = SmtpError(end) /\ o.took \in SmtpTook(end)
        \/ \E end \in WebhookEnds :
             o.err = WebhookError(end) /\ o.took \in WebhookTook(end)}
=============================================================================
