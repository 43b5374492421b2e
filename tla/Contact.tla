-------------------------------- MODULE Contact --------------------------------
(***************************************************************************)
(* The contact form of the public website and the handler that mails what  *)
(* a visitor submits. The browser gives up a submission after 65 seconds,  *)
(* but the handler goes on: it may mail what the visitor was told had      *)
(* failed, beside the next submission. The mail server may accept a mail   *)
(* and its reply be lost.                                                  *)
(*                                                                         *)
(* A text is a number; whether a draft is complete, lacks something, or    *)
(* fills the hidden trap field is all validation tells apart. Posted by    *)
(* the form's script a body is JSON and never above the size limit, so     *)
(* the handler's answers to other bodies are left out.                     *)
(***************************************************************************)
EXTENDS Naturals

CONSTANT MaxSubmissions  \* how often the visitor submits

ASSUME SubmissionsAssumption == MaxSubmissions \in Nat \ {0}

VARIABLES site,        \* how the website is configured: fixed while it runs
          form,        \* the form in the visitor's browser; about is the submission
                       \* whose outcome it shows, 0 when the form itself refused
          submissions, \* what is at the server, or on its way there or back
          mailbox      \* what the mail server has accepted

contactVars == <<site, form, submissions, mailbox>>

Texts == 1 .. MaxSubmissions
Fits == {"complete", "incomplete", "trapped"}

\* Answers that say nothing was mailed, and the one that does not say.
Refusals == {"INVALID", "REJECTED", "UNAVAILABLE"}
Failures == Refusals \cup {"DELIVERY_FAILED"}

ContactInit ==
    /\ site \in [origin : {"own", "another", "missing"}, smtp : BOOLEAN]
    /\ form = [text |-> 1, fit |-> "incomplete", pending |-> FALSE,
               sent |-> FALSE, failure |-> "none", about |-> 0, count |-> 0]
    /\ submissions = {}
    /\ mailbox = {}

\* While a submission is under way the fieldset is disabled; what failed stays
\* written beside an edited draft.
WriteDraft(text, fit) ==
    /\ ~form.pending /\ ~form.sent
    /\ <<text, fit>> # <<form.text, form.fit>>
    /\ form' = [form EXCEPT !.text = text, !.fit = fit]
    /\ UNCHANGED <<site, submissions, mailbox>>

validateContact(fit) ==
    CASE fit = "trapped" -> "REJECTED"
      [] fit = "incomplete" -> "INVALID"
      [] fit = "complete" -> "none"

MayPress == ~form.pending /\ ~form.sent

RefuseDraft ==
    /\ MayPress /\ form.fit # "complete"
    /\ form' = [form EXCEPT !.failure = validateContact(form.fit), !.about = 0]
    /\ UNCHANGED <<site, submissions, mailbox>>

SubmitDraft ==
    /\ MayPress /\ form.fit = "complete" /\ form.count < MaxSubmissions
    /\ form' = [form EXCEPT !.pending = TRUE, !.failure = "none",
                            !.about = form.count + 1, !.count = @ + 1]
    /\ submissions' = submissions \cup
           {[number |-> form.count + 1, text |-> form.text,
             at |-> "posted", answer |-> "none"]}
    /\ UNCHANGED <<site, mailbox>>

-----------------------------------------------------------------------------
(* The handler: a submission is posted, in delivery, then answered. *)

Moved(s, at, answer) ==
    submissions' = (submissions \ {s}) \cup {[s EXCEPT !.at = at, !.answer = answer]}

Answered(s, answer) == Moved(s, "answered", answer)

\* What the handler refuses before it delivers anything.
readContactOrigin ==
    CASE site.origin = "missing" -> "UNAVAILABLE"
      [] site.origin = "another" -> "REJECTED"
      [] site.origin = "own" -> "none"

HandleContact(s) ==
    /\ s.at = "posted"
    /\ IF readContactOrigin = "none" THEN Moved(s, "delivery", "none")
                                     ELSE Answered(s, readContactOrigin)
    /\ UNCHANGED <<site, form, mailbox>>

readSmtpConfig == site.smtp

\* Every failure becomes one of two answers; only the missing configuration says
\* that nothing was mailed.
deliveryFailure(s) ==
    Answered(s, IF readSmtpConfig THEN "DELIVERY_FAILED" ELSE "UNAVAILABLE")

Mailed(s) == mailbox' = mailbox \cup {[number |-> s.number, text |-> s.text]}

AnswersWithoutAwaiting(s) ==    \* mutant
    /\ s.at = "delivery"
    /\ Answered(s, "SENT") /\ (UNCHANGED mailbox \/ Mailed(s))
    /\ UNCHANGED <<site, form>>

\* Without an SMTP configuration nothing is tried. The mail server refuses the
\* mail, accepts it, or accepts it and its reply is lost.
DeliverContact(s) ==
    /\ s.at = "delivery"
    /\ \/ deliveryFailure(s) /\ UNCHANGED mailbox
       \/ readSmtpConfig /\ deliveryFailure(s) /\ Mailed(s)
       \/ readSmtpConfig /\ Answered(s, "SENT") /\ Mailed(s)
    /\ UNCHANGED <<site, form>>

\* The request is lost, or the platform ends the handler after its 60 seconds.
LoseSubmission(s) ==
    /\ submissions' = submissions \ {s}
    /\ UNCHANGED <<site, form, mailbox>>

-----------------------------------------------------------------------------
(* The answer in the browser *)

Awaited(s) == form.pending /\ s.number = form.count

parseContactResponse(answer) ==
    IF answer = "SENT" THEN [form EXCEPT !.pending = FALSE, !.sent = TRUE]
    ELSE [form EXCEPT !.pending = FALSE, !.failure = answer]

ReceiveContactAnswer(s) ==
    /\ s.at = "answered"
    /\ form' = IF Awaited(s) THEN parseContactResponse(s.answer) ELSE form
    /\ submissions' = submissions \ {s}
    /\ UNCHANGED <<site, mailbox>>

\* The fetch fails, its answer cannot be read, or the 65 seconds are over: the
\* submission may still be at the server.
GiveUpSubmission ==
    /\ form.pending
    /\ form' = [form EXCEPT !.pending = FALSE, !.failure = "DELIVERY_FAILED"]
    /\ UNCHANGED <<site, submissions, mailbox>>

ContactProgress ==
    \/ \E s \in submissions :
          HandleContact(s) \/ DeliverContact(s) \/ ReceiveContactAnswer(s)
    \/ GiveUpSubmission

ContactNext ==
    \/ \E text \in Texts, fit \in Fits : WriteDraft(text, fit)
    \/ RefuseDraft
    \/ SubmitDraft
    \/ \E s \in submissions : LoseSubmission(s)
    \/ ContactProgress

-----------------------------------------------------------------------------
ContactTypeOK ==
    /\ site \in [origin : {"own", "another", "missing"}, smtp : BOOLEAN]
    /\ form \in [text : Texts, fit : Fits, pending : BOOLEAN, sent : BOOLEAN,
                 failure : Failures \cup {"none"}, about : 0 .. MaxSubmissions,
                 count : 0 .. MaxSubmissions]
    /\ submissions \subseteq
           [number : 1 .. MaxSubmissions, text : Texts,
            at : {"posted", "delivery", "answered"}, answer : Failures \cup {"none", "SENT"}]
    /\ mailbox \subseteq [number : 1 .. MaxSubmissions, text : Texts]

\* The visitor who reads that the message was sent has sent exactly the draft of
\* the last submission, and one who reads that this submission was refused, or that
\* mail is not configured, has mailed nothing with it: what an earlier submission,
\* given up and still running, does later never shows as the outcome of this one.
ContactIsHonest ==
    LET mailed == {m \in mailbox : m.number = form.about}
    IN  /\ form.sent => mailed = {[number |-> form.about, text |-> form.text]}
        /\ form.failure \in Refusals => mailed = {}

ContactBusy == form.pending
===============================================================================
