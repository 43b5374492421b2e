--------------------------- MODULE Workspace_proofs ---------------------------
(***************************************************************************)
(* Theorems about the parts of the web application and the contact form,    *)
(* for any number of events, submissions, loads, writes and tokens. Each    *)
(* part has an inductive invariant of its own; as a behaviour of the        *)
(* workspace is one of every part, the theorems at the end are about the    *)
(* workspace.                                                               *)
(***************************************************************************)
EXTENDS Workspace, VoiceMode_proofs, DevicesPage_proofs, FiniteSetTheorems, TLAPS

-------------------------------------------------------------------------------
(* The contact form. *)

MailOf(n) == {m \in mailbox : m.number = n}

\* What a submission under way says of the mailbox.
SubmissionInv(s) ==
    /\ s.number <= form.count
    /\ s.at # "answered" => s.answer = "none"
    /\ s.at # "answered" \/ s.answer \in Refusals => MailOf(s.number) = {}
    /\ s.answer = "SENT" => MailOf(s.number) = {[number |-> s.number, text |-> s.text]}
    /\ form.pending /\ s.number = form.count => s.text = form.text

ContactInv ==
    /\ ContactTypeOK
    /\ \A s \in submissions : SubmissionInv(s)
    /\ \A s, t \in submissions : s.number = t.number => s = t
    /\ \A m \in mailbox : m.number <= form.count
    /\ form.about \in {0, form.count}
    /\ form.pending => ~form.sent /\ form.about = form.count /\ form.failure = "none"
    /\ form.sent \/ form.failure \in Refusals =>
          \A s \in submissions : s.number # form.about
    /\ ContactIsHonest

USE SubmissionsAssumption

\* The type of the form.
Forms == [text : Texts, fit : Fits, pending : BOOLEAN, sent : BOOLEAN,
          failure : Failures \cup {"none"}, about : 0 .. MaxSubmissions,
          count : 0 .. MaxSubmissions]

\* The honesty of the form, over the mail of the submission it shows.
LEMMA HonestMeans ==
  ContactIsHonest <=>
      /\ form.sent => MailOf(form.about) = {[number |-> form.about, text |-> form.text]}
      /\ form.failure \in Refusals => MailOf(form.about) = {}
  BY DEF ContactIsHonest, MailOf

LEMMA ContactInvInit == ContactInit => ContactInv
  <1> SUFFICES ASSUME ContactInit PROVE ContactInv
    OBVIOUS
  <1>1. ContactTypeOK
    BY DEF ContactInit, ContactTypeOK, Texts, Fits, Failures, Refusals
  <1>2. QED
    BY <1>1 DEF ContactInit, ContactInv, ContactIsHonest, Refusals

\* A submission goes to another stage with an answer.
LEMMA MovedEffect ==
  ASSUME ContactTypeOK, NEW s \in submissions,
         NEW to \in {"posted", "delivery", "answered"},
         NEW answer \in Failures \cup {"none", "SENT"}, Moved(s, to, answer)
  PROVE  \E t : /\ submissions' = (submissions \ {s}) \cup {t}
                /\ t.number = s.number /\ t.text = s.text /\ t.at = to /\ t.answer = answer
                /\ t \in [number : 1 .. MaxSubmissions, text : Texts,
                          at : {"posted", "delivery", "answered"},
                          answer : Failures \cup {"none", "SENT"}]
  <1> DEFINE t == [s EXCEPT !.at = to, !.answer = answer]
  <1>1. s \in [number : 1 .. MaxSubmissions, text : Texts,
               at : {"posted", "delivery", "answered"}, answer : Failures \cup {"none", "SENT"}]
    BY DEF ContactTypeOK
  <1>2. /\ t.number = s.number /\ t.text = s.text /\ t.at = to /\ t.answer = answer
        /\ t \in [number : 1 .. MaxSubmissions, text : Texts,
                  at : {"posted", "delivery", "answered"},
                  answer : Failures \cup {"none", "SENT"}]
    BY <1>1
  <1>3. submissions' = (submissions \ {s}) \cup {t}
    BY DEF Moved
  <1>4. QED
    BY <1>2, <1>3

\* The handler moves a submission on and leaves the mailbox alone.
LEMMA MovedKeeps ==
  ASSUME ContactInv, NEW s \in submissions, s.at # "answered",
         NEW to \in {"delivery", "answered"},
         NEW answer \in Failures \cup {"none"}, to = "delivery" <=> answer = "none",
         Moved(s, to, answer), site' = site, form' = form, mailbox' = mailbox
  PROVE  ContactInv'
  <1>1. PICK t :
            /\ submissions' = (submissions \ {s}) \cup {t}
            /\ t.number = s.number /\ t.text = s.text /\ t.at = to /\ t.answer = answer
            /\ t \in [number : 1 .. MaxSubmissions, text : Texts,
                      at : {"posted", "delivery", "answered"},
                      answer : Failures \cup {"none", "SENT"}]
    BY MovedEffect DEF ContactInv
  <1>2. ContactTypeOK'
    BY <1>1 DEF ContactInv, ContactTypeOK
  <1>3. \A u \in submissions' : SubmissionInv(u)'
    <2>1. \A n : MailOf(n)' = MailOf(n)
      BY DEF MailOf
    <2>2. SubmissionInv(t)'
      <3>1. SubmissionInv(s) /\ MailOf(s.number) = {}
        BY DEF ContactInv, SubmissionInv
      <3>2. t.answer # "SENT"
        BY <1>1 DEF Failures, Refusals
      <3>3. QED
        BY <1>1, <2>1, <3>1, <3>2 DEF SubmissionInv
    <2>3. ASSUME NEW u \in submissions PROVE SubmissionInv(u)'
      BY <2>1 DEF ContactInv, SubmissionInv
    <2>4. QED
      BY <1>1, <2>2, <2>3
  <1>4. QED
    BY <1>1, <1>2, <1>3 DEF ContactInv, ContactIsHonest

\* Delivery mails what was submitted, and the answer does not deny it.
LEMMA MailedKeeps ==
  ASSUME ContactInv, NEW s \in submissions, s.at = "delivery",
         NEW answer \in {"SENT", "DELIVERY_FAILED"}, Answered(s, answer), Mailed(s),
         site' = site, form' = form
  PROVE  ContactInv'
  <1> DEFINE m == [number |-> s.number, text |-> s.text]
  <1>1. PICK t :
            /\ submissions' = (submissions \ {s}) \cup {t}
            /\ t.number = s.number /\ t.text = s.text /\ t.at = "answered"
            /\ t.answer = answer
            /\ t \in [number : 1 .. MaxSubmissions, text : Texts,
                      at : {"posted", "delivery", "answered"},
                      answer : Failures \cup {"none", "SENT"}]
    BY MovedEffect DEF ContactInv, Answered, Failures
  <1>2. mailbox' = mailbox \cup {m} /\ m.number = s.number /\ m.text = s.text
    BY DEF Mailed
  <1>3. s.number \in 1 .. MaxSubmissions /\ s.text \in Texts
    BY DEF ContactInv, ContactTypeOK
  <1>4. ContactTypeOK'
    <2>1. m \in [number : 1 .. MaxSubmissions, text : Texts]
      BY <1>3
    <2>2. QED
      BY <1>1, <1>2, <2>1 DEF ContactInv, ContactTypeOK
  <1>5. SubmissionInv(s) /\ MailOf(s.number) = {}
    BY DEF ContactInv, SubmissionInv
  <1>6. MailOf(s.number)' = {m}
    BY <1>2, <1>5 DEF MailOf
  <1>7. \A n : n # s.number => MailOf(n)' = MailOf(n)
    BY <1>2 DEF MailOf
  <1>8. \A u \in submissions' : SubmissionInv(u)'
    <2>1. SubmissionInv(t)'
      BY <1>1, <1>5, <1>6 DEF SubmissionInv, Refusals
    <2>2. ASSUME NEW u \in submissions, u # s PROVE SubmissionInv(u)'
      <3>1. u.number # s.number /\ SubmissionInv(u)
        BY <2>2 DEF ContactInv
      <3>2. QED
        BY <1>7, <3>1 DEF SubmissionInv
    <2>3. QED
      BY <1>1, <2>1, <2>2
  <1>9. ContactIsHonest'
    <2>1. form.sent \/ form.failure \in Refusals => form.about # s.number
      BY DEF ContactInv
    <2>2. form.sent \/ form.failure \in Refusals =>
              MailOf(form.about)' = MailOf(form.about)
      BY <1>7, <2>1
    <2>3. QED
      BY <2>2 DEF ContactInv, ContactIsHonest, MailOf
  <1>10. QED
    BY <1>1, <1>2, <1>4, <1>5, <1>8, <1>9 DEF ContactInv, SubmissionInv

\* Submissions that are over, one way or another, and a form that changes its mind
\* without taking anything back.
LEMMA DroppedKeeps ==
  ASSUME ContactInv, NEW s \in submissions, submissions' = submissions \ {s},
         site' = site, form' = form, mailbox' = mailbox
  PROVE  ContactInv'
  <1>1. ContactTypeOK'
    BY DEF ContactInv, ContactTypeOK
  <1>2. \A u \in submissions' : SubmissionInv(u)'
    BY DEF ContactInv, SubmissionInv, MailOf
  <1>3. QED
    BY <1>1, <1>2 DEF ContactInv, ContactIsHonest

LEMMA WriteDraftKeeps ==
  ASSUME ContactInv, NEW text \in Texts, NEW fit \in Fits, WriteDraft(text, fit)
  PROVE  ContactInv'
  <1>1. /\ form'.text = text /\ form'.fit = fit /\ form'.pending = form.pending
        /\ form'.sent = form.sent /\ form'.failure = form.failure
        /\ form'.about = form.about /\ form'.count = form.count
        /\ ~form.pending /\ ~form.sent
    BY DEF WriteDraft, ContactInv, ContactTypeOK
  <1>2. ContactTypeOK'
    BY DEF WriteDraft, ContactInv, ContactTypeOK
  <1>3. \A u \in submissions' : SubmissionInv(u)'
    BY <1>1 DEF WriteDraft, ContactInv, SubmissionInv, MailOf
  <1>4. QED
    BY <1>1, <1>2, <1>3 DEF WriteDraft, ContactInv, ContactIsHonest

LEMMA RefuseDraftKeeps ==
  ASSUME ContactInv, RefuseDraft
  PROVE  ContactInv'
  <1> DEFINE failure == validateContact(form.fit)
  <1>1. failure \in Refusals
    BY DEF RefuseDraft, ContactInv, ContactTypeOK, Fits, validateContact, Refusals
  <1>2. /\ form' = [form EXCEPT !.failure = failure, !.about = 0]
        /\ ~form.pending /\ ~form.sent
        /\ submissions' = submissions /\ mailbox' = mailbox /\ site' = site
    BY DEF RefuseDraft, MayPress
  <1> HIDE DEF failure
  <1>3. ContactTypeOK'
    <2> DEFINE f == [form EXCEPT !.failure = failure]
    <2>1. f \in Forms
      BY <1>1 DEF ContactInv, ContactTypeOK, Forms, Failures
    <2>2. form' = [f EXCEPT !.about = 0]
      BY <1>2
    <2> HIDE DEF f
    <2>3. form' \in Forms
      BY <2>1, <2>2 DEF Forms
    <2>4. QED
      BY <1>2, <2>3 DEF ContactInv, ContactTypeOK, Forms
  <1>4. /\ form'.pending = form.pending /\ form'.sent = form.sent
        /\ form'.about = 0 /\ form'.count = form.count
    BY <1>2 DEF ContactInv, ContactTypeOK
  <1>5. \A u \in submissions' : SubmissionInv(u)'
    BY <1>2, <1>4 DEF ContactInv, SubmissionInv, MailOf
  <1>6. MailOf(0) = {} /\ \A u \in submissions : u.number # 0
    BY DEF ContactInv, ContactTypeOK, MailOf
  <1>7. ContactIsHonest'
    BY <1>2, <1>4, <1>6 DEF ContactIsHonest, MailOf
  <1>8. QED
    BY <1>2, <1>3, <1>4, <1>5, <1>6, <1>7 DEF ContactInv

LEMMA SubmitDraftKeeps ==
  ASSUME ContactInv, SubmitDraft
  PROVE  ContactInv'
  <1>0. PICK n, new :
            /\ n = form.count + 1
            /\ new = [number |-> n, text |-> form.text, at |-> "posted", answer |-> "none"]
    OBVIOUS
  <1>1. /\ form'.text = form.text /\ form'.fit = form.fit /\ form'.pending
        /\ form'.sent = form.sent /\ form'.failure = "none"
        /\ form'.about = n /\ form'.count = n /\ ~form.sent
    BY <1>0 DEF SubmitDraft, MayPress, ContactInv, ContactTypeOK
  <1>2. /\ submissions' = submissions \cup {new} /\ mailbox' = mailbox /\ site' = site
        /\ form.count \in 0 .. MaxSubmissions /\ n \in 1 .. MaxSubmissions
        /\ form.text \in Texts
    BY <1>0 DEF SubmitDraft, ContactInv, ContactTypeOK
  <1>3. new \in [number : 1 .. MaxSubmissions, text : Texts,
                 at : {"posted", "delivery", "answered"},
                 answer : Failures \cup {"none", "SENT"}]
    BY <1>0, <1>2
  <1>4. ContactTypeOK'
    <2> DEFINE f == [form EXCEPT !.pending = TRUE, !.failure = "none"]
    <2>1. f \in Forms
      BY DEF ContactInv, ContactTypeOK, Forms
    <2> DEFINE g == [f EXCEPT !.about = n]
    <2>2. form' = [g EXCEPT !.count = n]
      BY <1>0 DEF SubmitDraft, ContactInv, ContactTypeOK
    <2> HIDE DEF f
    <2>3. n \in 0 .. MaxSubmissions
      BY <1>2
    <2>4. g \in Forms
      BY <2>3, <2>1 DEF Forms
    <2> HIDE DEF g
    <2>5. form' \in Forms
      BY <2>3, <2>4, <2>2 DEF Forms
    <2>6. QED
      BY <1>2, <1>3, <2>5 DEF ContactInv, ContactTypeOK, Forms
  <1>5. \A u \in submissions : u.number < n /\ u.number # n
    BY <1>0, <1>2 DEF ContactInv, ContactTypeOK, SubmissionInv
  <1>6. MailOf(n) = {} /\ \A m \in mailbox : m.number <= n
    BY <1>0, <1>2 DEF ContactInv, ContactTypeOK, MailOf
  <1>7. \A u \in submissions' : SubmissionInv(u)'
    <2>1. /\ new.number = n /\ new.text = form.text /\ new.at = "posted"
          /\ new.answer = "none"
      BY <1>0
    <2>2. \A k : MailOf(k)' = MailOf(k)
      BY <1>2 DEF MailOf
    <2>3. SubmissionInv(new)'
      BY <1>1, <1>2, <1>6, <2>1, <2>2 DEF SubmissionInv
    <2>4. ASSUME NEW u \in submissions PROVE SubmissionInv(u)'
      <3>1. SubmissionInv(u) /\ u.number < n /\ u.number # n
        BY <1>5 DEF ContactInv
      <3>2. u.number \in Nat /\ n \in Nat
        BY <1>2 DEF ContactInv, ContactTypeOK
      <3>3. QED
        BY <1>1, <2>2, <3>1, <3>2 DEF SubmissionInv
    <2>5. QED
      BY <1>2, <2>3, <2>4
  <1>8. \A u, v \in submissions' : u.number = v.number => u = v
    <2>1. new.number = n
      BY <1>0
    <2>2. QED
      BY <1>2, <1>5, <2>1 DEF ContactInv
  <1>9. QED
    BY <1>1, <1>2, <1>4, <1>6, <1>7, <1>8
       DEF ContactInv, ContactIsHonest, Refusals

LEMMA ReceiveKeeps ==
  ASSUME ContactInv, NEW s \in submissions, ReceiveContactAnswer(s)
  PROVE  ContactInv'
  <1>1. /\ submissions' = submissions \ {s} /\ mailbox' = mailbox /\ site' = site
        /\ s.at = "answered" /\ SubmissionInv(s)
        /\ s.answer \in Failures \cup {"none", "SENT"}
    BY DEF ReceiveContactAnswer, ContactInv, ContactTypeOK
  <1>2. CASE ~Awaited(s)
    BY <1>1, <1>2, DroppedKeeps DEF ReceiveContactAnswer
  <1>3. ASSUME Awaited(s), s.answer = "SENT" PROVE ContactInv'
    <2>1. form' = [form EXCEPT !.pending = FALSE, !.sent = TRUE]
      BY <1>3 DEF ReceiveContactAnswer, parseContactResponse
    <2>2. form.pending /\ s.number = form.count /\ form.about = form.count
      BY <1>3 DEF Awaited, ContactInv
    <2>3. /\ form'.text = form.text /\ ~form'.pending /\ form'.sent
          /\ form'.failure = "none" /\ form'.about = form.about /\ form'.count = form.count
      BY <2>1, <2>2 DEF ContactInv, ContactTypeOK
    <2>4. ContactTypeOK'
      BY <1>1, <2>1 DEF ContactInv, ContactTypeOK
    <2>5. \A u \in submissions' : SubmissionInv(u)'
      BY <1>1, <2>3 DEF ContactInv, SubmissionInv, MailOf
    <2>6. \A u \in submissions' : u.number # form.about
      BY <1>1, <2>2 DEF ContactInv
    <2>7. ContactIsHonest'
      <3>1. MailOf(form.about) = {[number |-> form.about, text |-> form.text]}
        BY <1>1, <1>3, <2>2 DEF SubmissionInv
      <3>2. QED
        BY <1>1, <2>3, <3>1 DEF ContactIsHonest, MailOf, Refusals
    <2>8. QED
      BY <1>1, <2>3, <2>4, <2>5, <2>6, <2>7 DEF ContactInv
  <1>4. ASSUME Awaited(s), s.answer # "SENT" PROVE ContactInv'
    <2>1. form' = [form EXCEPT !.pending = FALSE, !.failure = s.answer]
      BY <1>4 DEF ReceiveContactAnswer, parseContactResponse
    <2>2. /\ form.pending /\ s.number = form.count /\ form.about = form.count
          /\ ~form.sent
      BY <1>4 DEF Awaited, ContactInv
    <2>3. /\ form'.text = form.text /\ ~form'.pending /\ ~form'.sent
          /\ form'.failure = s.answer
          /\ form'.about = form.about /\ form'.count = form.count
      BY <2>1, <2>2 DEF ContactInv, ContactTypeOK
    <2>4. ContactTypeOK'
      BY <1>1, <1>4, <2>1 DEF ContactInv, ContactTypeOK
    <2>5. \A u \in submissions' : SubmissionInv(u)'
      BY <1>1, <2>3 DEF ContactInv, SubmissionInv, MailOf
    <2>6. \A u \in submissions' : u.number # form.about
      BY <1>1, <2>2 DEF ContactInv
    <2>7. ContactIsHonest'
      BY <1>1, <2>2, <2>3 DEF ContactIsHonest, SubmissionInv, MailOf
    <2>8. QED
      BY <1>1, <2>3, <2>4, <2>5, <2>6, <2>7 DEF ContactInv
  <1>5. QED
    BY <1>2, <1>3, <1>4

LEMMA GiveUpKeeps ==
  ASSUME ContactInv, GiveUpSubmission
  PROVE  ContactInv'
  <1>1. /\ form' = [form EXCEPT !.pending = FALSE, !.failure = "DELIVERY_FAILED"]
        /\ submissions' = submissions /\ mailbox' = mailbox /\ site' = site /\ form.pending
    BY DEF GiveUpSubmission
  <1>2. /\ ~form'.pending /\ ~form'.sent /\ form'.failure = "DELIVERY_FAILED"
        /\ form'.about = form.about /\ form'.count = form.count
    BY <1>1 DEF ContactInv, ContactTypeOK
  <1>3. ContactTypeOK'
    BY <1>1 DEF ContactInv, ContactTypeOK, Failures
  <1>4. \A u \in submissions' : SubmissionInv(u)'
    BY <1>1, <1>2 DEF ContactInv, SubmissionInv, MailOf
  <1>5. QED
    BY <1>1, <1>2, <1>3, <1>4 DEF ContactInv, ContactIsHonest, Refusals

LEMMA HandlerKeeps ==
  ASSUME ContactInv, NEW s \in submissions, HandleContact(s) \/ DeliverContact(s)
  PROVE  ContactInv'
  <1>1. CASE HandleContact(s)
    <2>1. readContactOrigin \in {"UNAVAILABLE", "REJECTED", "none"}
      BY DEF ContactInv, ContactTypeOK, readContactOrigin
    <2>2. s.at = "posted" /\ site' = site /\ form' = form /\ mailbox' = mailbox
      BY <1>1 DEF HandleContact
    <2>3. CASE readContactOrigin = "none"
      BY <1>1, <2>2, <2>3, MovedKeeps DEF HandleContact
    <2>4. CASE readContactOrigin # "none"
      <3>1. Moved(s, "answered", readContactOrigin)
        BY <1>1, <2>4 DEF HandleContact, Answered
      <3>2. readContactOrigin \in Failures
        BY <2>1, <2>4 DEF Failures, Refusals
      <3>3. QED
        BY <2>2, <2>4, <3>1, <3>2, MovedKeeps
    <2>5. QED
      BY <2>3, <2>4
  <1>2. CASE DeliverContact(s)
    <2>1. s.at = "delivery" /\ site' = site /\ form' = form
      BY <1>2 DEF DeliverContact
    <2>2. CASE deliveryFailure(s) /\ UNCHANGED mailbox
      <3>1. PICK a \in {"DELIVERY_FAILED", "UNAVAILABLE"} : Moved(s, "answered", a)
        BY <2>2 DEF deliveryFailure, Answered
      <3>2. a \in Failures
        BY DEF Failures, Refusals
      <3>3. QED
        BY <2>1, <2>2, <3>1, <3>2, MovedKeeps
    <2>3. CASE readSmtpConfig /\ deliveryFailure(s) /\ Mailed(s)
      BY <2>1, <2>3, MailedKeeps DEF deliveryFailure
    <2>4. CASE readSmtpConfig /\ Answered(s, "SENT") /\ Mailed(s)
      BY <2>1, <2>4, MailedKeeps
    <2>5. QED
      BY <1>2, <2>2, <2>3, <2>4 DEF DeliverContact
  <1>3. QED
    BY <1>1, <1>2

LEMMA ContactInvNext == ContactInv /\ [ContactNext]_contactVars => ContactInv'
  <1> SUFFICES ASSUME ContactInv, [ContactNext]_contactVars PROVE ContactInv'
    OBVIOUS
  <1>1. ASSUME NEW text \in Texts, NEW fit \in Fits, WriteDraft(text, fit) PROVE ContactInv'
    BY <1>1, WriteDraftKeeps
  <1>2. CASE RefuseDraft
    BY <1>2, RefuseDraftKeeps
  <1>3. CASE SubmitDraft
    BY <1>3, SubmitDraftKeeps
  <1>4. ASSUME NEW s \in submissions, LoseSubmission(s) PROVE ContactInv'
    BY <1>4, DroppedKeeps DEF LoseSubmission
  <1>5. CASE ContactProgress
    BY <1>5, HandlerKeeps, ReceiveKeeps, GiveUpKeeps DEF ContactProgress
  <1>6. CASE UNCHANGED contactVars
    BY <1>6 DEF contactVars, ContactInv, ContactTypeOK, SubmissionInv, MailOf,
       ContactIsHonest
  <1>7. QED
    BY <1>1, <1>2, <1>3, <1>4, <1>5, <1>6 DEF ContactNext

-------------------------------------------------------------------------------
(* The frame of the pages: what was chosen and what is offered. *)

ShellTypes ==
    [page: Pages, status: {"loading", "ready", "error"}, items: SUBSET Chats,
     titles: [Chats -> 0 .. 1], editing: Chats \cup {"none"},
     confirming: Chats \cup {"none"}, catalog: {{}} \cup Catalogs, ready: SUBSET Models,
     model: Models \cup {"auto", "none"}, savedModel: Models \cup {"auto", "none"},
     locale: Locales, voices: 0 .. 2, voice: 0 .. 2, savedVoice: [Locales -> 0 .. 2],
     ai: {"checking", "ready", "unavailable"}, events: 0 .. MaxShellEvents]

RequestTypes ==
    [kind: {"list", "catalog", "ai", "rename", "delete"}, chat: Chats \cup {"none"},
     active: BOOLEAN, answer: {"none", "ok", "refused"}, items: SUBSET Chats,
     titles: [Chats -> 0 .. 1]]

SidebarTypes ==
    [stored: SUBSET Chats, titles: [Chats -> 0 .. 1], requests: SUBSET RequestTypes]

\* A request to change a conversation names it.
ShellInv ==
    /\ shell \in ShellTypes /\ sidebar \in SidebarTypes
    /\ shell.ready \subseteq shell.catalog
    /\ \A r \in sidebar.requests : r.kind \in {"rename", "delete"} => r.chat \in Chats
    /\ SelectionIsSaved

USE ShellEventsAssumption

LEMMA ShellInvInit == ShellInit => ShellInv
  BY DEF ShellInit, ShellInv, ShellTypes, SidebarTypes, Pages, Chats, Catalogs, Models,
         Locales, Untitled, SelectionIsSaved

\* Requests of their type, each change naming its conversation.
Proper(requests) ==
    /\ requests \in SUBSET RequestTypes
    /\ \A r \in requests : r.kind \in {"rename", "delete"} => r.chat \in Chats

LEMMA AskedType ==
  ASSUME NEW kind \in {"list", "catalog", "ai", "rename", "delete"}
  PROVE  Asked(kind) \in RequestTypes /\ Asked(kind).kind = kind
  BY DEF Asked, RequestTypes, Untitled

LEMMA ProperRequests == ShellInv => Proper(sidebar.requests)
  BY DEF ShellInv, SidebarTypes, Proper

LEMMA SidebarStep ==
  ASSUME ShellInv, NEW R, Proper(R), sidebar' = [sidebar EXCEPT !.requests = R]
  PROVE  sidebar' \in SidebarTypes /\ Proper(sidebar'.requests)
  BY DEF ShellInv, SidebarTypes, Proper

LEMMA EffectKinds == \A page : Effects(page) \subseteq {"list", "catalog", "ai"}
  BY DEF Effects

LEMMA ReroutedProper ==
  ASSUME NEW R, Proper(R), NEW from, NEW to
  PROVE  Proper(Rerouted(R, from, to))
  <1>1. \A kind \in Effects(to) :
            Asked(kind) \in RequestTypes /\ Asked(kind).kind \notin {"rename", "delete"}
    BY EffectKinds, AskedType
  <1>2. QED
    BY <1>1 DEF Proper, Rerouted

LEMMA DoneStep ==
  ASSUME ShellInv, NEW r, Done(r)
  PROVE  sidebar' \in SidebarTypes /\ Proper(sidebar'.requests)
  <1>1. Proper(sidebar.requests \ {r})
    BY ProperRequests DEF Proper
  <1>2. sidebar' = [sidebar EXCEPT !.requests = sidebar.requests \ {r}]
    BY DEF Done
  <1>3. QED
    BY <1>1, <1>2, SidebarStep

\* What selections are about stays as it is.
SameSelection(s) ==
    /\ s.catalog = shell.catalog /\ s.ready = shell.ready /\ s.model = shell.model
    /\ s.savedModel = shell.savedModel /\ s.locale = shell.locale
    /\ s.voices = shell.voices /\ s.voice = shell.voice
    /\ s.savedVoice = shell.savedVoice

LEMMA SelectionFrame ==
  ASSUME ShellInv, shell' \in ShellTypes, SameSelection(shell'),
         sidebar' \in SidebarTypes, Proper(sidebar'.requests)
  PROVE  ShellInv'
  BY DEF ShellInv, SameSelection, SelectionIsSaved, Proper

LEMMA ShellFrame ==
  ASSUME ShellInv, shell' = shell, sidebar' \in SidebarTypes, Proper(sidebar'.requests)
  PROVE  ShellInv'
  <1>1. shell' \in ShellTypes /\ SameSelection(shell')
    BY DEF ShellInv, SameSelection
  <1>2. QED
    BY <1>1, SelectionFrame

LEMMA PaidEffect ==
  ASSUME ShellInv, ShellRoom
  PROVE  /\ PaidShell \in ShellTypes /\ SameSelection(PaidShell)
         /\ PaidShell.page = shell.page
  BY DEF ShellInv, ShellTypes, ShellRoom, PaidShell, SameSelection

LEMMA NavigateKeeps ==
  ASSUME ShellInv, NEW page \in Pages, Navigate(page)
  PROVE  ShellInv'
  <1>1. Proper(Rerouted(sidebar.requests, shell.page, page))
    BY ProperRequests, ReroutedProper
  <1>2. sidebar' \in SidebarTypes /\ Proper(sidebar'.requests)
    BY <1>1, SidebarStep DEF Navigate
  <1>3. PaidShell \in ShellTypes /\ SameSelection(PaidShell)
    BY PaidEffect DEF Navigate
  <1>4. shell' \in ShellTypes /\ SameSelection(shell')
    <2> DEFINE p == PaidShell
    <2>1. shell' = [p EXCEPT !.page = page]
      BY DEF Navigate
    <2>2. p \in ShellTypes /\ SameSelection(p)
      BY <1>3
    <2> HIDE DEF p
    <2>3. QED
      BY <2>1, <2>2 DEF ShellTypes, SameSelection
  <1>5. QED
    BY <1>2, <1>4, SelectionFrame

\* A list is asked for, or the state of the AI service.
LEMMA AskKeeps ==
  ASSUME ShellInv, TurnIsStored \/ AskAgain
  PROVE  ShellInv'
  <1>1. PaidShell \in ShellTypes /\ SameSelection(PaidShell) /\ shell' = PaidShell
    BY PaidEffect DEF TurnIsStored, AskAgain
  <1>2. CASE TurnIsStored
    <2> DEFINE R == sidebar.requests \cup {Asked("list")}
               t == [sidebar EXCEPT !.stored = @ \cup {"b"}]
    <2>1. Proper(R)
      BY ProperRequests, AskedType DEF Proper
    <2>2. t \in SidebarTypes
      BY DEF ShellInv, SidebarTypes, Chats
    <2>3. sidebar' = [t EXCEPT !.requests = R]
      BY <1>2 DEF TurnIsStored, ShellInv, SidebarTypes
    <2> HIDE DEF R, t
    <2>4. sidebar' \in SidebarTypes /\ Proper(sidebar'.requests)
      BY <2>1, <2>2, <2>3 DEF SidebarTypes, Proper
    <2>5. QED
      BY <1>1, <2>4, SelectionFrame
  <1>3. CASE AskAgain
    <2> DEFINE R == sidebar.requests \cup {Asked("ai")}
    <2>1. Proper(R)
      BY ProperRequests, AskedType DEF Proper
    <2>2. sidebar' = [sidebar EXCEPT !.requests = R]
      BY <1>3 DEF AskAgain
    <2>3. QED
      BY <1>1, <2>1, <2>2, SidebarStep, SelectionFrame
  <1>4. QED
    BY <1>2, <1>3

LEMMA ListKeeps ==
  ASSUME ShellInv, NEW r \in sidebar.requests,
         CoreLists(r) \/ loadConversations(r) \/ ListFails(r)
  PROVE  ShellInv'
  <1>1. r \in RequestTypes
    BY DEF ShellInv, SidebarTypes
  <1>2. CASE CoreLists(r)
    <2> DEFINE a == [r EXCEPT !.answer = "ok", !.items = sidebar.stored,
                              !.titles = sidebar.titles]
               b == [r EXCEPT !.answer = "ok"]
               c == [b EXCEPT !.items = sidebar.stored]
               R == (sidebar.requests \ {r}) \cup {a}
    <2>1. sidebar.stored \in SUBSET Chats /\ sidebar.titles \in [Chats -> 0 .. 1]
      BY DEF ShellInv, SidebarTypes
    <2>2. b \in RequestTypes /\ b.kind = r.kind
      BY <1>1 DEF RequestTypes
    <2>3. c \in RequestTypes /\ c.kind = r.kind
      BY <2>1, <2>2 DEF RequestTypes
    <2>4. a \in RequestTypes /\ a.kind = r.kind
      <3>1. a = [c EXCEPT !.titles = sidebar.titles]
        OBVIOUS
      <3> HIDE DEF a, c
      <3>2. QED
        BY <2>1, <2>3, <3>1 DEF RequestTypes
    <2>5. sidebar' = [sidebar EXCEPT !.requests = R] /\ r.kind = "list" /\ shell' = shell
      BY <1>2 DEF CoreLists
    <2> HIDE DEF a
    <2>6. Proper(R)
      BY <2>4, <2>5, ProperRequests DEF Proper
    <2> HIDE DEF R
    <2>7. QED
      BY <2>5, <2>6, SidebarStep, ShellFrame
  <1>3. CASE loadConversations(r)
    <2> DEFINE s == [shell EXCEPT !.items = r.items]
               t == [s EXCEPT !.titles = r.titles]
    <2>1. shell' = [t EXCEPT !.status = "ready"]
      BY <1>3 DEF loadConversations
    <2>2. r.items \in SUBSET Chats /\ r.titles \in [Chats -> 0 .. 1]
      BY <1>1 DEF RequestTypes
    <2>3. s \in ShellTypes /\ SameSelection(s)
      BY <2>2 DEF ShellInv, ShellTypes, SameSelection
    <2> HIDE DEF s
    <2>4. t \in ShellTypes /\ SameSelection(t)
      BY <2>2, <2>3 DEF ShellTypes, SameSelection
    <2> HIDE DEF t
    <2>5. shell' \in ShellTypes /\ SameSelection(shell')
      BY <2>1, <2>4 DEF ShellTypes, SameSelection
    <2>6. QED
      BY <1>3, <2>5, DoneStep, SelectionFrame DEF loadConversations
  <1>4. CASE ListFails(r)
    <2>1. shell' \in ShellTypes /\ SameSelection(shell')
      BY <1>4 DEF ListFails, ShellInv, ShellTypes, SameSelection
    <2>2. QED
      BY <1>4, <2>1, DoneStep, SelectionFrame DEF ListFails
  <1>5. QED
    BY <1>2, <1>3, <1>4

LEMMA AskChangeKeeps ==
  ASSUME ShellInv, NEW c \in Chats, NEW kind \in {"rename", "delete"},
         beginRename(c) \/ AskToDelete(c) \/ Submit(kind, c)
  PROVE  ShellInv'
  <1> DEFINE p == PaidShell
  <1>1. p \in ShellTypes /\ SameSelection(p)
    BY PaidEffect DEF beginRename, AskToDelete, Submit
  <1>2. CASE beginRename(c) \/ AskToDelete(c)
    <2>1. PICK e, d \in Chats \cup {"none"} :
              shell' = [p EXCEPT !.editing = e, !.confirming = d] /\ sidebar' = sidebar
      BY <1>2 DEF beginRename, AskToDelete
    <2> HIDE DEF p
    <2>2. shell' \in ShellTypes /\ SameSelection(shell')
      BY <1>1, <2>1 DEF ShellTypes, SameSelection
    <2>3. QED
      BY <2>1, <2>2, SelectionFrame, ProperRequests DEF ShellInv
  <1>3. CASE Submit(kind, c)
    <2> DEFINE b == [Asked(kind) EXCEPT !.chat = c]
               a == [Asked(kind) EXCEPT !.chat = c, !.active = shell.page = c]
               R == sidebar.requests \cup {a}
    <2>1. b \in RequestTypes /\ b.chat = c /\ Asked(kind) \in RequestTypes
      BY AskedType DEF RequestTypes
    <2>2. a \in RequestTypes /\ a.chat \in Chats
      <3>1. a = [b EXCEPT !.active = shell.page = c]
        OBVIOUS
      <3> HIDE DEF a, b
      <3>2. QED
        BY <2>1, <3>1 DEF RequestTypes
    <2>3. sidebar' = [sidebar EXCEPT !.requests = R] /\ shell' = p
      BY <1>3 DEF Submit
    <2> HIDE DEF a
    <2>4. Proper(R)
      BY <2>2, ProperRequests DEF Proper
    <2> HIDE DEF R, p
    <2>5. QED
      BY <1>1, <2>3, <2>4, SidebarStep, SelectionFrame
  <1>4. QED
    BY <1>2, <1>3

LEMMA CoreChangesKeeps ==
  ASSUME ShellInv, NEW r \in sidebar.requests, CoreChanges(r)
  PROVE  ShellInv'
  <1> DEFINE has == r.chat \in sidebar.stored
             a == [r EXCEPT !.answer = IF has THEN "ok" ELSE "refused"]
             R == (sidebar.requests \ {r}) \cup {a}
             titles == IF has /\ r.kind = "rename"
                       THEN [sidebar.titles EXCEPT ![r.chat] = 1] ELSE sidebar.titles
             stored == IF r.kind = "delete" THEN sidebar.stored \ {r.chat}
                       ELSE sidebar.stored
             s == [sidebar EXCEPT !.requests = R]
             t == [s EXCEPT !.titles = titles]
  <1>1. sidebar \in SidebarTypes /\ r \in RequestTypes /\ r.chat \in Chats
    BY DEF ShellInv, SidebarTypes, CoreChanges
  <1>2. a \in RequestTypes /\ a.chat = r.chat
    BY <1>1 DEF RequestTypes
  <1>3. Proper(R)
    <2> HIDE DEF a
    <2>1. QED
      BY <1>1, <1>2, ProperRequests DEF Proper
  <1>4. titles \in [Chats -> 0 .. 1] /\ stored \in SUBSET Chats
    BY <1>1 DEF SidebarTypes
  <1>5. sidebar' = [t EXCEPT !.stored = stored] /\ shell' = shell
    BY <1>1 DEF CoreChanges, SidebarTypes
  <1> HIDE DEF titles, stored, R
  <1>6. s \in SidebarTypes /\ s.requests = R
    BY <1>1, <1>3 DEF SidebarTypes, Proper
  <1> HIDE DEF s
  <1>7. t \in SidebarTypes /\ t.requests = R
    BY <1>4, <1>6 DEF SidebarTypes
  <1> HIDE DEF t
  <1>8. sidebar' \in SidebarTypes /\ sidebar'.requests = R
    BY <1>4, <1>5, <1>7 DEF SidebarTypes
  <1>9. QED
    BY <1>3, <1>5, <1>8, ShellFrame

\* The answer to a change, or its loss.
LEMMA ChangeKeeps ==
  ASSUME ShellInv, NEW r \in sidebar.requests,
         ChangeRefused(r) \/ ChangeLost(r) \/ renameConversation(r) \/ deleteConversation(r)
  PROVE  ShellInv'
  <1>1. shell \in ShellTypes /\ r.chat \in Chats
    BY DEF ShellInv, ChangeRefused, ChangeLost, renameConversation, deleteConversation
  <1>2. CASE ChangeRefused(r)
    <2>1. shell' \in ShellTypes /\ SameSelection(shell')
      BY <1>1, <1>2 DEF ChangeRefused, ShellTypes, SameSelection
    <2>2. QED
      BY <1>2, <2>1, DoneStep, SelectionFrame DEF ChangeRefused
  <1>3. CASE ChangeLost(r)
    BY <1>3, DoneStep, ShellFrame DEF ChangeLost
  <1>4. CASE renameConversation(r)
    <2> DEFINE titles == IF r.chat \in shell.items
                         THEN [shell.titles EXCEPT ![r.chat] = 1] ELSE shell.titles
               s == [shell EXCEPT !.editing = "none"]
    <2>1. titles \in [Chats -> 0 .. 1]
      BY <1>1 DEF ShellTypes
    <2>2. shell' = [s EXCEPT !.titles = titles]
      BY <1>1, <1>4 DEF renameConversation, ShellTypes
    <2> HIDE DEF titles
    <2>3. s \in ShellTypes /\ SameSelection(s)
      BY <1>1 DEF ShellTypes, SameSelection
    <2> HIDE DEF s
    <2>4. shell' \in ShellTypes /\ SameSelection(shell')
      BY <2>1, <2>2, <2>3 DEF ShellTypes, SameSelection
    <2>5. QED
      BY <1>4, <2>4, DoneStep, SelectionFrame DEF renameConversation
  <1>5. CASE deleteConversation(r)
    <2> DEFINE page == IF r.active THEN "chat" ELSE shell.page
               R == sidebar.requests \ {r}
               titles == [shell.titles EXCEPT ![r.chat] = 0]
               s == [shell EXCEPT !.items = @ \ {r.chat}]
               t == [s EXCEPT !.titles = titles]
               u == [t EXCEPT !.confirming = "none"]
    <2>1. titles \in [Chats -> 0 .. 1] /\ page \in Pages
      BY <1>1 DEF ShellTypes, Pages
    <2>2. s \in ShellTypes /\ SameSelection(s) /\ s.titles = shell.titles
      BY <1>1 DEF ShellTypes, SameSelection
    <2>3. shell' = [u EXCEPT !.page = page]
      <3>1. t = [s EXCEPT !.titles[r.chat] = 0]
        BY <2>2
      <3>2. QED
        BY <1>5, <3>1 DEF deleteConversation
    <2>4. sidebar' = [sidebar EXCEPT !.requests = Rerouted(R, shell.page, page)]
      BY <1>5 DEF deleteConversation
    <2> HIDE DEF titles, page, s
    <2>5. t \in ShellTypes /\ SameSelection(t)
      BY <2>1, <2>2 DEF ShellTypes, SameSelection
    <2> HIDE DEF t
    <2>6. u \in ShellTypes /\ SameSelection(u)
      BY <2>5 DEF ShellTypes, SameSelection
    <2> HIDE DEF u
    <2>7. shell' \in ShellTypes /\ SameSelection(shell')
      BY <2>1, <2>3, <2>6 DEF ShellTypes, SameSelection
    <2>8. Proper(Rerouted(R, shell.page, page))
      BY ProperRequests, ReroutedProper DEF Proper
    <2>9. QED
      BY <2>4, <2>7, <2>8, SidebarStep, SelectionFrame
  <1>6. QED
    BY <1>2, <1>3, <1>4, <1>5

\* The catalogue arrives, fails, or a model of it is chosen.
LEMMA ModelsKeep ==
  ASSUME ShellInv, NEW r, NEW m \in Models \cup {"auto"},
         loadModels(r) \/ CatalogFails(r) \/ selectModel(m)
  PROVE  ShellInv'
  <1>1. shell \in ShellTypes /\ SelectionIsSaved
    BY DEF ShellInv
  <1>2. CASE loadModels(r)
    <2>1. PICK listed \in Catalogs, ready \in SUBSET Models :
              ready \subseteq listed /\ shell' = [shell EXCEPT !.catalog = listed, !.ready = ready,
                  !.model = IF shell.savedModel \in listed \cup {"auto"}
                            THEN shell.savedModel ELSE "small"]
      BY <1>2 DEF loadModels, Catalogs, Models
    <2> DEFINE model == IF shell.savedModel \in listed \cup {"auto"}
                        THEN shell.savedModel ELSE "small"
               s == [shell EXCEPT !.catalog = listed, !.ready = ready]
    <2>2. /\ model \in Models \cup {"auto"} /\ model \in listed \cup {"auto"}
          /\ model \in {"small", shell.savedModel}
      BY <1>1 DEF ShellTypes, Catalogs, Models
    <2>3. /\ s \in ShellTypes /\ s.catalog = listed /\ s.ready = ready
          /\ s.savedModel = shell.savedModel
          /\ s.locale = shell.locale /\ s.voices = shell.voices /\ s.voice = shell.voice
          /\ s.savedVoice = shell.savedVoice
      BY <1>1 DEF ShellTypes, Catalogs, Models
    <2>4. shell' = [s EXCEPT !.model = model]
      BY <2>1
    <2>5. model = shell.savedModel \/ shell.savedModel \notin listed \cup {"auto"}
      OBVIOUS
    <2> HIDE DEF s, model
    <2>6. /\ shell' \in ShellTypes /\ shell'.catalog = listed /\ shell'.ready = ready
          /\ shell'.savedModel = shell.savedModel /\ shell'.model = model
          /\ shell'.locale = shell.locale /\ shell'.voices = shell.voices
          /\ shell'.voice = shell.voice /\ shell'.savedVoice = shell.savedVoice
      BY <2>2, <2>3, <2>4 DEF ShellTypes
    <2>7. SelectionIsSaved'
      BY <1>1, <2>2, <2>5, <2>6 DEF SelectionIsSaved
    <2>8. QED
      BY <1>2, <2>1, <2>6, <2>7, DoneStep DEF loadModels, ShellInv, Proper
  <1>3. CASE CatalogFails(r)
    <2>1. /\ shell' \in ShellTypes /\ shell'.catalog = {} /\ shell'.ready = {}
          /\ shell'.locale = shell.locale /\ shell'.voices = shell.voices
          /\ shell'.voice = shell.voice /\ shell'.savedVoice = shell.savedVoice
      BY <1>1, <1>3 DEF CatalogFails, ShellTypes
    <2>2. SelectionIsSaved'
      BY <1>1, <2>1 DEF SelectionIsSaved
    <2>3. QED
      BY <1>3, <2>1, <2>2, DoneStep DEF CatalogFails, ShellInv, Proper
  <1>4. CASE selectModel(m)
    <2> DEFINE p == PaidShell
    <2>1. /\ p \in ShellTypes /\ SameSelection(p) /\ m \in shell.ready \cup {"auto"}
          /\ shell' = [p EXCEPT !.model = m, !.savedModel = m] /\ sidebar' = sidebar
      BY <1>4, PaidEffect DEF selectModel
    <2> HIDE DEF p
    <2>2. /\ shell' \in ShellTypes /\ shell'.catalog = shell.catalog
          /\ shell'.ready = shell.ready /\ shell'.model = m /\ shell'.savedModel = m
          /\ shell'.locale = shell.locale /\ shell'.voices = shell.voices
          /\ shell'.voice = shell.voice /\ shell'.savedVoice = shell.savedVoice
      BY <2>1 DEF ShellTypes, SameSelection
    <2>3. m \in shell.catalog \cup {"auto"}
      BY <2>1 DEF ShellInv
    <2>4. SelectionIsSaved'
      BY <1>1, <2>1, <2>2, <2>3 DEF SelectionIsSaved
    <2>5. QED
      BY <2>1, <2>2, <2>4 DEF ShellInv
  <1>5. QED
    BY <1>2, <1>3, <1>4

\* Choosing again takes the saved voice if it is there, and otherwise the last.
LEMMA ChosenSaved ==
  ASSUME NEW s \in ShellTypes
  PROVE  /\ Chosen(s) \in ShellTypes /\ Chosen(s).voices = s.voices
         /\ Chosen(s).catalog = s.catalog /\ Chosen(s).ready = s.ready
         /\ Chosen(s).model = s.model
         /\ Chosen(s).savedModel = s.savedModel /\ Chosen(s).locale = s.locale
         /\ Chosen(s).savedVoice = s.savedVoice
         /\ s.voices > 0 =>
               /\ Chosen(s).voice \in 1 .. s.voices
               /\ s.savedVoice[s.locale] \in 1 .. s.voices =>
                     Chosen(s).voice = s.savedVoice[s.locale]
  <1>1. s.savedVoice[s.locale] \in 0 .. 2 /\ s.voices \in 0 .. 2
    BY DEF ShellTypes
  <1>2. /\ ChosenVoice(s) \in 0 .. 2
        /\ s.voices > 0 =>
              /\ ChosenVoice(s) \in 1 .. s.voices
              /\ s.savedVoice[s.locale] \in 1 .. s.voices =>
                    ChosenVoice(s) = s.savedVoice[s.locale]
    BY <1>1 DEF ChosenVoice
  <1>3. QED
    BY <1>2 DEF Chosen, ShellTypes

LEMMA VoicesKeep ==
  ASSUME ShellInv, NEW v \in 1 .. 2, loadVoices \/ toggleLocale \/ selectVoice(v)
  PROVE  ShellInv'
  <1> DEFINE p == PaidShell
  <1>1. /\ SelectionIsSaved /\ p \in ShellTypes /\ SameSelection(p) /\ sidebar' = sidebar
    BY PaidEffect DEF loadVoices, toggleLocale, selectVoice, ShellInv
  <1>2. ASSUME NEW s \in ShellTypes, s.catalog = shell.catalog, s.ready = shell.ready,
               s.model = shell.model,
               s.savedModel = shell.savedModel, shell' = Chosen(s)
        PROVE  ShellInv'
    <2>1. SelectionIsSaved'
      BY <1>1, <1>2, ChosenSaved DEF SelectionIsSaved
    <2>2. QED
      BY <1>1, <1>2, <2>1, ChosenSaved DEF ShellInv
  <1>3. CASE loadVoices
    <2>1. PICK n \in {1, 2} : shell' = Chosen([p EXCEPT !.voices = n])
      BY <1>3 DEF loadVoices
    <2> DEFINE s == [p EXCEPT !.voices = n]
    <2>2. /\ s \in ShellTypes /\ s.catalog = shell.catalog /\ s.ready = shell.ready
          /\ s.model = shell.model /\ s.savedModel = shell.savedModel
      <3> HIDE DEF p
      <3>1. QED
        BY <1>1 DEF ShellTypes, SameSelection
    <2> HIDE DEF s
    <2>3. QED
      BY <1>2, <2>1, <2>2 DEF s
  <1>4. CASE toggleLocale
    <2>1. PICK l \in Locales : shell' = Chosen([p EXCEPT !.locale = l])
      BY <1>4 DEF toggleLocale, Locales
    <2> DEFINE s == [p EXCEPT !.locale = l]
    <2>2. /\ s \in ShellTypes /\ s.catalog = shell.catalog /\ s.ready = shell.ready
          /\ s.model = shell.model /\ s.savedModel = shell.savedModel
      <3> HIDE DEF p
      <3>1. QED
        BY <1>1 DEF ShellTypes, SameSelection
    <2> HIDE DEF s
    <2>3. QED
      BY <1>2, <2>1, <2>2 DEF s
  <1>5. CASE selectVoice(v)
    <2> DEFINE saved == [shell.savedVoice EXCEPT ![shell.locale] = v]
               s == [p EXCEPT !.voice = v]
    <2>1. shell \in ShellTypes /\ v \in 1 .. shell.voices
      BY <1>5 DEF selectVoice, ShellInv
    <2>2. saved \in [Locales -> 0 .. 2] /\ saved[shell.locale] = v
      BY <2>1 DEF ShellTypes
    <2>3. shell' = [s EXCEPT !.savedVoice = saved]
      <3>1. s.savedVoice = shell.savedVoice /\ s \in ShellTypes
        <4> HIDE DEF p
        <4>1. QED
          BY <1>1 DEF ShellTypes, SameSelection
      <3>2. [s EXCEPT !.savedVoice = saved] = [s EXCEPT !.savedVoice[shell.locale] = v]
        BY <3>1
      <3>3. QED
        BY <1>5, <3>2 DEF selectVoice
    <2> HIDE DEF p, saved
    <2>4. /\ s \in ShellTypes /\ s.catalog = shell.catalog /\ s.ready = shell.ready
          /\ s.model = shell.model /\ s.savedModel = shell.savedModel /\ s.locale = shell.locale
          /\ s.voices = shell.voices /\ s.voice = v
      BY <1>1 DEF ShellTypes, SameSelection
    <2> HIDE DEF s
    <2>5. /\ shell' \in ShellTypes /\ shell'.catalog = shell.catalog
          /\ shell'.ready = shell.ready
          /\ shell'.model = shell.model /\ shell'.savedModel = shell.savedModel
          /\ shell'.locale = shell.locale /\ shell'.voices = shell.voices
          /\ shell'.voice = v /\ shell'.savedVoice = saved
      BY <2>2, <2>3, <2>4 DEF ShellTypes
    <2>6. SelectionIsSaved'
      BY <1>1, <2>1, <2>2, <2>5 DEF SelectionIsSaved
    <2>7. QED
      BY <1>1, <2>5, <2>6 DEF ShellInv
  <1>6. QED
    BY <1>3, <1>4, <1>5

LEMMA StatusKeeps ==
  ASSUME ShellInv, NEW r, refreshAiStatus(r)
  PROVE  ShellInv'
  <1>1. PICK s \in {"ready", "unavailable"} : shell' = [shell EXCEPT !.ai = s]
    BY DEF refreshAiStatus
  <1>2. shell' \in ShellTypes /\ SameSelection(shell')
    BY <1>1 DEF ShellInv, ShellTypes, SameSelection
  <1>3. QED
    BY <1>2, DoneStep, SelectionFrame DEF refreshAiStatus

LEMMA ShellInvNext == ShellInv /\ [ShellNext]_shellVars => ShellInv'
  <1> SUFFICES ASSUME ShellInv, [ShellNext]_shellVars PROVE ShellInv'
    OBVIOUS
  <1> "auto" \in Models \cup {"auto"}
    OBVIOUS
  <1>1. ASSUME NEW r \in sidebar.requests,
               \/ CoreLists(r) \/ loadConversations(r) \/ ListFails(r)
               \/ CoreChanges(r) \/ ChangeRefused(r) \/ ChangeLost(r)
               \/ renameConversation(r) \/ deleteConversation(r)
               \/ loadModels(r) \/ CatalogFails(r) \/ refreshAiStatus(r)
        PROVE  ShellInv'
    BY <1>1, ListKeeps, CoreChangesKeeps, ChangeKeeps, ModelsKeep, StatusKeeps
  <1>2. ASSUME NEW page \in Pages, Navigate(page) PROVE ShellInv'
    BY <1>2, NavigateKeeps
  <1>3. ASSUME NEW c \in Chats,
               \/ beginRename(c) \/ AskToDelete(c)
               \/ Submit("rename", c) \/ Submit("delete", c)
        PROVE  ShellInv'
    BY <1>3, AskChangeKeeps
  <1>4. ASSUME NEW m \in Models \cup {"auto"}, selectModel(m) PROVE ShellInv'
    BY <1>4, ModelsKeep
  <1>5. ASSUME NEW v \in 1 .. 2, selectVoice(v) PROVE ShellInv'
    BY <1>5, VoicesKeep
  <1>6. CASE TurnIsStored \/ AskAgain
    BY <1>6, AskKeeps
  <1>7. CASE loadVoices \/ toggleLocale
    <2>1. 1 \in 1 .. 2
      OBVIOUS
    <2>2. QED
      BY <1>7, <2>1, VoicesKeep
  <1>8. CASE UNCHANGED shellVars
    BY <1>8, ShellFrame, ProperRequests DEF shellVars, ShellInv
  <1>9. QED
    BY <1>1, <1>2, <1>3, <1>4, <1>5, <1>6, <1>7, <1>8 DEF ShellNext, ShellProgress

-------------------------------------------------------------------------------
(* The panels. *)

\* The records of a panel, without the bounds of an instance.
Ops == {NoWrite.op} \cup UNION {kind.ops : kind \in AllPanels}
AllFlags == UNION {Flags(kind) : kind \in AllPanels}
InFlight == {"asked", "applied", "refused", "reloading", "following"}
WriteStates == InFlight \cup {"unsent", "ok", "failed"}
PanelLoadShape ==
    [n : Nat, state : {"asked", "answered"}, has : SUBSET Writes, for : 0 .. MaxWrites,
     reads : 1 .. MaxReads]
PanelWriteShape == [op : Ops, state : WriteStates, has : SUBSET Writes]
PanelShape ==
    [kind : AllPanels, store : SUBSET Writes, shown : SUBSET Writes, loaded : BOOLEAN,
     ended : BOOLEAN, broken : BOOLEAN, flags : SUBSET AllFlags,
     stuck : SUBSET AllFlags, asked : Nat, loads : SUBSET PanelLoadShape, polls : Nat,
     writes : [Writes -> PanelWriteShape]]

\* The writes of the panel p in one of these states; those it has loaded for, or will;
\* those that show their reply; those under way that change what is shown.
At(p, states) == {w \in Writes : p.writes[w].state \in states}
Reloaded(p) ==
    {w \in At(p, {"reloading", "ok"}) : p.writes[w].op.then \in {"reload", "rereads"}}
Replied(p, states) == {w \in At(p, states) : p.writes[w].op.then = "reply"}
Changing(p) == {w \in At(p, InFlight) : p.writes[w].op.then # "beside"}

\* How the panels of InOrder come by their order. All buttons that change what is shown
\* wait for one flag, so that one such write is under way at a time (Serial). Nothing but
\* a write loads the panel after its first load, which every write waits for (Once). Then
\* what is shown comes from loads of which the newest counts, or from replies.
Serial(kind) ==
    \E flag \in Flags(kind) :
        \A op \in kind.ops : IF op.then = "beside" THEN op.flag # flag
                             ELSE op.flag = flag /\ op.blocks
Once(kind) ==
    /\ kind.loads = "once" /\ kind.drops = "none"
    /\ \A op \in kind.ops : op.needs = "shown"
Reloading(kind) ==
    /\ Serial(kind) /\ kind.reads # "silent"
    /\ \A op \in kind.ops : op.then = "reload"
    /\ Once(kind) \/ kind.drops = "older"
Replying(kind) ==
    /\ Serial(kind) /\ Once(kind)
    /\ \A op \in kind.ops : op.then \in {"reply", "beside"}

\* A write under way has an operation of the panel, and goes its way.
PanelWritesInv(p) ==
    /\ \A w \in Writes : p.writes[w].state # "unsent" => p.writes[w].op \in p.kind.ops
    /\ \A w \in At(p, {"reloading"}) : p.writes[w].op.then \in {"reload", "rereads"}
    /\ \A w \in At(p, {"following"}) : p.writes[w].op.then = "follows"
    /\ At(p, {"applied"}) \cup Reloaded(p) \subseteq p.store

\* A load is one of those asked for; one for a write is the only one, and awaited.
PanelLoadsInv(p) ==
    /\ \A l \in p.loads : l.n <= p.asked
    /\ \A l \in p.loads : l.for # 0 => p.writes[l.for].state = "reloading"
    /\ \A k, l \in p.loads : k.for = l.for /\ l.for # 0 => k = l

\* One write that changes what is shown at a time, and its flag is set.
SerialInv(p) ==
    /\ \A w \in Changing(p) : p.writes[w].op.flag \in p.flags
    /\ \A v, w \in Changing(p) : v = w

\* The first load is over once something is shown, and before anything is written.
OnceInv(p) ==
    /\ At(p, {"unsent"}) # Writes => p.loaded
    /\ p.loaded => \A l \in p.loads : l.for # 0
    /\ \A k, l \in p.loads : k.for = 0 /\ l.for = 0 => k = l

\* The newest load has every write that was told to have succeeded; where answers are
\* not dropped there is no older one; and what is shown has them, unless something was
\* said to be wanting or the newest load is still to come.
ReloadInv(p) ==
    /\ \A l \in p.loads : l.n = p.asked /\ l.state = "answered" => Reloaded(p) \subseteq l.has
    /\ p.kind.drops = "none" => \A l \in p.loads : l.n = p.asked
    /\ p.broken \/ Reloaded(p) \subseteq p.shown \/ \E l \in p.loads : l.n = p.asked

\* A reply that is on its way has every write that was told to have succeeded.
ReplyInv(p) ==
    /\ Replied(p, {"ok"}) \subseteq p.shown \cap p.store
    /\ \A w \in Replied(p, {"applied"}) : Replied(p, {"ok"}) \cup {w} \subseteq p.writes[w].has

PanelInv(p) ==
    /\ PanelWritesInv(p) /\ PanelLoadsInv(p)
    /\ Serial(p.kind) => SerialInv(p)
    /\ Once(p.kind) => OnceInv(p)
    /\ Reloading(p.kind) => ReloadInv(p)
    /\ Replying(p.kind) => ReplyInv(p)

-------------------------------------------------------------------------------
(* What the steps of a panel do, from p to q: what the invariant says nothing of *)
(* is left out.                                                                  *)

SameView(p, q) == q.shown = p.shown /\ q.loaded = p.loaded /\ q.broken = p.broken
SameLoads(p, q) == q.asked = p.asked /\ q.loads = p.loads
SameData(p, q) == q.kind = p.kind /\ q.store = p.store
Asks(p, q, w) == q.asked = p.asked + 1 /\ q.loads = p.loads \cup {Asking(p.asked + 1, w)}

\* The write w goes to a state, the others stay where they are.
Moves(p, q, w, state) ==
    \A v \in Writes : /\ q.writes[v].op = p.writes[v].op
                      /\ q.writes[v].state = IF v = w THEN state ELSE p.writes[v].state
SameReplies(p, q) == \A v \in Writes : q.writes[v].has = p.writes[v].has

\* A load is asked for; Core answers it, or it is asked for again.
LoadsAgain(p, q) ==
    /\ \/ p.kind.loads \in {"any", "asked"}
       \/ p.kind.loads = "idle" /\ p.flags = {}
    /\ SameData(p, q) /\ SameView(p, q) /\ Asks(p, q, 0)
    /\ q.flags = p.flags /\ q.writes = p.writes
GetsAnswer(p, q, l) ==
    /\ l \in p.loads
    /\ SameData(p, q) /\ SameView(p, q) /\ q.asked = p.asked
    /\ \E a \in PanelLoadShape : /\ q.loads = (p.loads \ {l}) \cup {a}
                                 /\ a.n = l.n /\ a.for = l.for
                                 /\ a.state = "answered" => a.has = p.store
    /\ q.flags = p.flags /\ q.writes = p.writes

\* A load is over: it is shown (all of it, unless it says what is wanting or is of the
\* panels that do not), dropped, or has failed.
TakesLoad(p, q, l) ==
    /\ l.state = "answered" /\ (p.kind.drops = "none" \/ l.n = p.asked)
    /\ q.shown = l.has \/ q.broken \/ p.kind.reads = "silent"
    /\ q.loaded
DropsLoad(p, q, l) ==
    l.state = "answered" /\ p.kind.drops # "none" /\ l.n # p.asked /\ SameView(p, q)
FailsLoad(p, q, l) == q.shown = p.shown /\ q.loaded = p.loaded /\ q.broken
FinishesLoad(p, q, l) ==
    /\ l \in p.loads /\ SameData(p, q)
    /\ q.asked = p.asked /\ q.loads = p.loads \ {l}
    /\ TakesLoad(p, q, l) \/ DropsLoad(p, q, l) \/ FailsLoad(p, q, l)
    /\ SameReplies(p, q)
    /\ l.for = 0 => q.writes = p.writes /\ q.flags = p.flags
    /\ l.for # 0 => Moves(p, q, l.for, "ok") \/ Moves(p, q, l.for, "failed")

\* A write is sent; Core carries it out; its reply is not the end of it; it is over.
SendsWrite(p, q, w, op) ==
    /\ p.writes[w].state = "unsent" /\ op \in p.kind.ops
    /\ op.needs = "shown" => p.loaded
    /\ op.blocks => op.flag \notin p.flags
    /\ SameData(p, q) /\ q.loaded = p.loaded /\ q.broken = p.broken
    /\ op.then # "optimistic" => q.shown = p.shown
    /\ q.asked = (IF p.kind.drops = "stale" THEN p.asked + 1 ELSE p.asked)
    /\ q.loads = p.loads
    /\ q.flags = p.flags \cup ({op.flag} \ {"none"})
    /\ \A v \in Writes : v # w => q.writes[v] = p.writes[v]
    /\ q.writes[w].op = op /\ q.writes[w].state = "asked"
IsApplied(p, q, w) ==
    /\ p.writes[w].state = "asked"
    /\ q.kind = p.kind /\ SameView(p, q) /\ SameLoads(p, q)
    /\ q.flags = p.flags
    /\ \/ q.store = p.store /\ Moves(p, q, w, "refused") /\ SameReplies(p, q)
       \/ /\ q.store = p.store \cup {w} /\ Moves(p, q, w, "applied")
          /\ \A v \in Writes : v # w => q.writes[v].has = p.writes[v].has
          /\ p.writes[w].op.then = "reply" => q.writes[w].has = q.store
IsReloaded(p, q, w) ==
    /\ p.writes[w].state = "applied" /\ p.writes[w].op.then \in {"reload", "rereads"}
    /\ SameData(p, q) /\ SameView(p, q) /\ Asks(p, q, w) /\ q.flags = p.flags
    /\ Moves(p, q, w, "reloading") /\ SameReplies(p, q)
IsFollowed(p, q, w) ==
    /\ p.writes[w].state = "applied" /\ p.writes[w].op.then = "follows"
    /\ SameData(p, q) /\ SameView(p, q) /\ SameLoads(p, q) /\ q.flags = p.flags
    /\ Moves(p, q, w, "following") /\ SameReplies(p, q)

\* Where only replies are shown, it ends well with its reply; no flag but its own changes.
IsOver(p, q, w, state) ==
    /\ state \in {"ok", "failed"}
    /\ p.writes[w].state \in InFlight \ {"reloading"}
    /\ q.kind = p.kind /\ q.store = p.store /\ q.loaded = p.loaded /\ q.broken = p.broken
    /\ SameLoads(p, q) /\ p.flags \ {p.writes[w].op.flag} \subseteq q.flags
    /\ p.writes[w].op.then \in {"reload", "rereads", "leaves", "beside"} => q.shown = p.shown
    /\ p.writes[w].op.then = "reply" =>
          IF state = "ok" THEN p.writes[w].state = "applied" /\ q.shown = p.writes[w].has
          ELSE q.shown = p.shown
    /\ state = "ok" => p.writes[w].op.then \notin {"reload", "rereads"}
    /\ Moves(p, q, w, state) /\ SameReplies(p, q)

USE PanelsAssumption

\* A move of a write that was sent.
LEMMA MovedWrites ==
  ASSUME NEW p \in PanelShape, NEW q \in PanelShape, NEW w \in Writes,
         NEW state \in WriteStates \ {"unsent"},
         Moves(p, q, w, state), p.writes[w].state # "unsent"
  PROVE  /\ At(q, {"unsent"}) = At(p, {"unsent"})
         /\ \A v \in Writes : q.writes[v].op = p.writes[v].op
         /\ \A v \in Writes : v # w => q.writes[v].state = p.writes[v].state
         /\ q.writes[w].state = state
  BY DEF Moves, At

\* While writes come one at a time, a sent write that moves on stays the only one, and one
\* that is over leaves none under way: it may clear its flag, which others do not need.
LEMMA SerialMoves ==
  ASSUME NEW p \in PanelShape, NEW q \in PanelShape, NEW w \in Writes,
         NEW state \in WriteStates \ {"unsent"}, PanelWritesInv(p), Serial(p.kind),
         SerialInv(p), Moves(p, q, w, state), p.writes[w].state \in InFlight,
         \/ q.flags = p.flags
         \/ state \notin InFlight /\ p.writes[w].op.then # "beside"
         \/ state \notin InFlight /\ p.flags \ {p.writes[w].op.flag} \subseteq q.flags
  PROVE  SerialInv(q)
  <1>1. Changing(q) \subseteq Changing(p) /\ (state \notin InFlight => w \notin Changing(q))
    BY DEF Changing, At, Moves
  <1>2. \A v \in Changing(q) : q.writes[v].op = p.writes[v].op
    BY DEF Changing, At, Moves
  <1>3. CASE q.flags = p.flags
    BY <1>1, <1>2, <1>3 DEF SerialInv
  <1>4. CASE state \notin InFlight /\ p.writes[w].op.then # "beside"
    <2>1. w \in Changing(p)
      BY <1>4 DEF Changing, At
    <2>2. Changing(q) = {}
      BY <1>1, <1>4, <2>1 DEF SerialInv
    <2>3. QED
      BY <2>2 DEF SerialInv
  <1>5. CASE /\ state \notin InFlight /\ p.flags \ {p.writes[w].op.flag} \subseteq q.flags
             /\ p.writes[w].op.then = "beside"
    <2>1. PICK flag \in Flags(p.kind) :
            \A o \in p.kind.ops : IF o.then = "beside" THEN o.flag # flag
                                  ELSE o.flag = flag /\ o.blocks
      BY DEF Serial
    <2>2. p.writes[w].op \in p.kind.ops
      BY DEF PanelWritesInv, InFlight
    <2>3. \A v \in Changing(p) : p.writes[v].op \in p.kind.ops
      BY DEF PanelWritesInv, Changing, At, InFlight
    <2>4. \A v \in Changing(p) : p.writes[v].op.flag = flag
      BY <2>1, <2>3 DEF Changing
    <2>5. p.writes[w].op.flag # flag
      BY <1>5, <2>1, <2>2
    <2>6. QED
      BY <1>1, <1>2, <1>5, <2>4, <2>5 DEF SerialInv
  <1>6. QED
    BY <1>3, <1>4, <1>5

LEMMA SentWrites ==
  ASSUME NEW p \in PanelShape, PanelInv(p), Serial(p.kind), NEW op \in p.kind.ops,
         op.then # "beside", op.blocks => op.flag \notin p.flags
  PROVE  Changing(p) = {}
  <1> SUFFICES ASSUME NEW w \in Changing(p) PROVE FALSE
    OBVIOUS
  <1>1. PICK flag \in Flags(p.kind) :
          \A o \in p.kind.ops : IF o.then = "beside" THEN o.flag # flag
                                ELSE o.flag = flag /\ o.blocks
    BY DEF Serial
  <1>2. w \in Writes /\ p.writes[w].op \in p.kind.ops /\ p.writes[w].op.then # "beside"
    BY DEF PanelInv, PanelWritesInv, Changing, At, InFlight
  <1>3. p.writes[w].op.flag \in p.flags
    BY DEF PanelInv, SerialInv
  <1>4. QED
    BY <1>1, <1>2, <1>3

LEMMA LoadsAgainKeeps ==
  ASSUME NEW p \in PanelShape, NEW q \in PanelShape, PanelInv(p), LoadsAgain(p, q)
  PROVE  PanelInv(q)
  <1> USE DEF LoadsAgain, SameData, SameView, Asks
  <1> DEFINE new == Asking(p.asked + 1, 0)
  <1>0. /\ new.n = p.asked + 1 /\ new.state = "asked" /\ new.for = 0
        /\ q.loads = p.loads \cup {new}
    BY DEF Asking
  <1>a. p.asked \in Nat /\ \A l \in p.loads : l.n \in Nat /\ l.n <= p.asked
    BY DEF PanelShape, PanelLoadShape, PanelInv, PanelLoadsInv
  <1>b. \A s : At(q, s) = At(p, s)
    BY DEF At
  <1>c. Reloaded(q) = Reloaded(p)
    BY <1>b DEF Reloaded
  <1> HIDE DEF new
  <1>1. PanelWritesInv(q)
    BY <1>b, <1>c DEF PanelInv, PanelWritesInv
  <1>2. PanelLoadsInv(q)
    BY <1>0, <1>a DEF PanelInv, PanelLoadsInv
  <1>3. Serial(q.kind) => SerialInv(q)
    BY <1>b DEF PanelInv, SerialInv, Changing
  <1>4. ~Once(q.kind)
    BY DEF Once
  <1>5. ASSUME Reloading(q.kind) PROVE ReloadInv(q)
    <2>1. ReloadInv(p) /\ q.kind.drops # "none"
      BY <1>5, <1>4 DEF PanelInv, Reloading
    <2>2. \A l \in q.loads : l.n = q.asked => l.state = "asked"
      BY <1>0, <1>a
    <2>3. QED
      BY <1>0, <2>1, <2>2, <1>c DEF ReloadInv
  <1>6. ~Replying(q.kind)
    BY <1>4 DEF Replying
  <1>7. QED
    BY <1>1, <1>2, <1>3, <1>4, <1>5, <1>6 DEF PanelInv

LEMMA GetsAnswerKeeps ==
  ASSUME NEW p \in PanelShape, NEW q \in PanelShape, NEW l \in p.loads,
         PanelInv(p), GetsAnswer(p, q, l)
  PROVE  PanelInv(q)
  <1>0. /\ q.kind = p.kind /\ q.store = p.store /\ q.shown = p.shown /\ q.loaded = p.loaded
        /\ q.broken = p.broken /\ q.asked = p.asked /\ q.flags = p.flags
        /\ q.writes = p.writes
    BY DEF GetsAnswer, SameData, SameView
  <1>1. PICK a \in PanelLoadShape :
                 /\ q.loads = (p.loads \ {l}) \cup {a}
                 /\ a.n = l.n /\ a.for = l.for
                 /\ a.state = "answered" => a.has = p.store
    BY DEF GetsAnswer
  <1>a. \A k \in q.loads : k = a \/ (k \in p.loads /\ k # l)
    BY <1>1
  <1>b. \A s : At(q, s) = At(p, s)
    BY <1>0 DEF At
  <1>c. Reloaded(q) = Reloaded(p)
    BY <1>0, <1>b DEF Reloaded
  <1>2. PanelWritesInv(q)
    BY <1>0, <1>b, <1>c DEF PanelInv, PanelWritesInv
  <1>3. PanelLoadsInv(q)
    BY <1>0, <1>1, <1>a DEF PanelInv, PanelLoadsInv
  <1>4. Serial(q.kind) => SerialInv(q)
    BY <1>0, <1>b DEF PanelInv, SerialInv, Changing
  <1>5. Once(q.kind) => OnceInv(q)
    BY <1>0, <1>1, <1>a, <1>b DEF PanelInv, OnceInv
  <1>6. ASSUME Reloading(q.kind) PROVE ReloadInv(q)
    <2>1. ReloadInv(p) /\ Reloaded(p) \subseteq p.store
      BY <1>0, <1>6 DEF PanelInv, PanelWritesInv
    <2>2. \A k \in q.loads : k.n = q.asked /\ k.state = "answered" => Reloaded(q) \subseteq k.has
      BY <1>0, <1>1, <1>a, <1>c, <2>1 DEF ReloadInv
    <2>3. q.kind.drops = "none" => \A k \in q.loads : k.n = q.asked
      BY <1>0, <1>1, <1>a, <2>1 DEF ReloadInv
    <2>4. q.broken \/ Reloaded(q) \subseteq q.shown \/ \E k \in q.loads : k.n = q.asked
      <3>1. (\E k \in p.loads : k.n = p.asked) => \E k \in q.loads : k.n = q.asked
        BY <1>0, <1>1
      <3>2. QED
        BY <1>0, <1>c, <2>1, <3>1 DEF ReloadInv
    <2>5. QED
      BY <2>2, <2>3, <2>4 DEF ReloadInv
  <1>7. Replying(q.kind) => ReplyInv(q)
    BY <1>0, <1>b DEF PanelInv, ReplyInv, Replied
  <1>8. QED
    BY <1>2, <1>3, <1>4, <1>5, <1>6, <1>7 DEF PanelInv

LEMMA SendsWriteKeeps ==
  ASSUME NEW p \in PanelShape, NEW q \in PanelShape, NEW w \in Writes, NEW op,
         PanelInv(p), SendsWrite(p, q, w, op)
  PROVE  PanelInv(q)
  <1> USE DEF SendsWrite, SameData
  <1>a. /\ \A s : w \notin At(p, s) \/ "unsent" \in s
        /\ \A s : "asked" \notin s => At(q, s) = At(p, s) \ {w}
        /\ \A s : "asked" \in s => At(q, s) = At(p, s) \cup {w}
    BY DEF At
  <1>b. Reloaded(q) = Reloaded(p)
    BY DEF Reloaded, At
  <1>1. PanelWritesInv(q)
    <2>1. \A v \in Writes : q.writes[v].state # "unsent" => q.writes[v].op \in q.kind.ops
      BY DEF PanelInv, PanelWritesInv
    <2>2. /\ \A v \in At(q, {"reloading"}) : q.writes[v].op.then \in {"reload", "rereads"}
          /\ \A v \in At(q, {"following"}) : q.writes[v].op.then = "follows"
      BY DEF PanelInv, PanelWritesInv, At
    <2>3. At(q, {"applied"}) \cup Reloaded(q) \subseteq q.store
      BY <1>a, <1>b DEF PanelInv, PanelWritesInv
    <2>4. QED
      BY <2>1, <2>2, <2>3 DEF PanelWritesInv
  <1>c. \A l \in p.loads : l.n \in Nat /\ l.n <= p.asked /\ p.asked \in Nat
    BY DEF PanelInv, PanelLoadsInv, PanelShape, PanelLoadShape
  <1>d. \A l \in p.loads : l.for # 0 => l.for \in Writes /\ p.writes[l.for].state = "reloading"
    BY DEF PanelInv, PanelLoadsInv, PanelShape, PanelLoadShape, Writes
  <1>2. PanelLoadsInv(q)
    <2>1. \A l \in q.loads : l.n <= q.asked
      BY <1>c
    <2>2. \A l \in q.loads : l.for # 0 => q.writes[l.for].state = "reloading"
      BY <1>d
    <2>3. QED
      BY <2>1, <2>2 DEF PanelInv, PanelLoadsInv
  <1>3. ASSUME Serial(q.kind)
        PROVE  SerialInv(q) /\ (op.then # "beside" => Changing(p) = {})
    <2>1. PICK flag \in Flags(p.kind) :
            \A o \in p.kind.ops : IF o.then = "beside" THEN o.flag # flag
                                  ELSE o.flag = flag /\ o.blocks
      BY <1>3 DEF Serial
    <2>2. \A v \in Writes : v # w => v \in Changing(q) <=> v \in Changing(p)
      BY DEF Changing, At
    <2>3. w \notin Changing(p) /\ (w \in Changing(q) <=> op.then # "beside")
      BY DEF Changing, At, InFlight
    <2>4. SerialInv(p) /\ p.flags \subseteq q.flags
      BY <1>3 DEF PanelInv
    <2>5. CASE op.then # "beside"
      <3>1. Changing(p) = {}
        BY <1>3, <2>5, SentWrites
      <3>2. Changing(q) = {w}
        BY <2>2, <2>3, <2>5, <3>1 DEF Changing, At
      <3>3. op.flag # "none"
        BY <2>1, <2>5 DEF Flags
      <3>4. QED
        BY <3>1, <3>2, <3>3 DEF SerialInv
    <2>6. CASE op.then = "beside"
      <3>1. Changing(q) = Changing(p)
        BY <2>2, <2>3, <2>6 DEF Changing, At
      <3>2. \A v \in Changing(p) : q.writes[v] = p.writes[v]
        BY <2>3 DEF Changing, At
      <3>3. QED
        BY <2>4, <2>6, <3>1, <3>2 DEF SerialInv
    <2>7. QED
      BY <2>5, <2>6
  <1>4. ASSUME Once(q.kind) PROVE OnceInv(q)
    BY <1>4 DEF PanelInv, OnceInv, Once
  <1>5. ASSUME Reloading(q.kind) PROVE ReloadInv(q)
    <2>1. ReloadInv(p) /\ SameView(p, q) /\ q.asked = p.asked
      BY <1>5 DEF PanelInv, Reloading, SameView, Once
    <2>2. QED
      BY <2>1, <1>b DEF ReloadInv, SameView
  <1>6. ASSUME Replying(q.kind) PROVE ReplyInv(q)
    <2>1. ReplyInv(p) /\ q.shown = p.shown
      BY <1>6 DEF PanelInv, Replying
    <2>2. /\ Replied(q, {"ok"}) = Replied(p, {"ok"})
          /\ Replied(q, {"applied"}) = Replied(p, {"applied"})
      BY DEF Replied, At
    <2>3. \A v \in Replied(q, {"applied"}) : q.writes[v] = p.writes[v]
      BY DEF Replied, At
    <2>4. QED
      BY <2>1, <2>2, <2>3 DEF ReplyInv
  <1>7. QED
    BY <1>1, <1>2, <1>3, <1>4, <1>5, <1>6 DEF PanelInv

LEMMA IsAppliedKeeps ==
  ASSUME NEW p \in PanelShape, NEW q \in PanelShape, NEW w \in Writes,
         PanelInv(p), IsApplied(p, q, w)
  PROVE  PanelInv(q)
  <1>1. PICK state \in {"refused", "applied"} : Moves(p, q, w, state)
    BY DEF IsApplied
  <1> USE DEF IsApplied, SameView, SameLoads
  <1>a. /\ \A s : s \cap {"refused", "applied", "asked"} = {} => At(q, s) = At(p, s)
        /\ At(q, {"applied"}) = IF state = "applied" THEN At(p, {"applied"}) \cup {w}
                                ELSE At(p, {"applied"})
    BY <1>1 DEF Moves, At
  <1>b. Reloaded(q) = Reloaded(p)
    BY <1>1, <1>a DEF Reloaded, Moves, At
  <1>c. q.store = (IF state = "applied" THEN p.store \cup {w} ELSE p.store)
    BY <1>1 DEF Moves
  <1>2. PanelWritesInv(q)
    <2>1. \A v \in Writes : q.writes[v].state # "unsent" => q.writes[v].op \in q.kind.ops
      BY <1>1 DEF PanelInv, PanelWritesInv, Moves
    <2>2. /\ \A v \in At(q, {"reloading"}) : q.writes[v].op.then \in {"reload", "rereads"}
          /\ \A v \in At(q, {"following"}) : q.writes[v].op.then = "follows"
      BY <1>1 DEF PanelInv, PanelWritesInv, At, Moves
    <2>3. At(q, {"applied"}) \cup Reloaded(q) \subseteq q.store
      BY <1>a, <1>b, <1>c DEF PanelInv, PanelWritesInv
    <2>4. QED
      BY <2>1, <2>2, <2>3 DEF PanelWritesInv
  <1>d. \A l \in p.loads : l.for # 0 => l.for \in Writes /\ p.writes[l.for].state = "reloading"
    BY DEF PanelInv, PanelLoadsInv, PanelShape, PanelLoadShape, Writes
  <1>3. PanelLoadsInv(q)
    <2>1. \A l \in q.loads : l.for # 0 => q.writes[l.for].state = "reloading"
      BY <1>1, <1>d DEF Moves
    <2>2. QED
      BY <2>1 DEF PanelInv, PanelLoadsInv
  <1>4. Serial(q.kind) => SerialInv(q)
    BY <1>1, SerialMoves DEF PanelInv, WriteStates, InFlight
  <1>5. Once(q.kind) => OnceInv(q)
    <2>1. At(q, {"unsent"}) = At(p, {"unsent"})
      BY <1>a
    <2>2. QED
      BY <2>1 DEF PanelInv, OnceInv
  <1>6. Reloading(q.kind) => ReloadInv(q)
    BY <1>b DEF PanelInv, ReloadInv
  <1>7. ASSUME Replying(q.kind) PROVE ReplyInv(q)
    <2>1. ReplyInv(p) /\ Replied(q, {"ok"}) = Replied(p, {"ok"})
      BY <1>7, <1>1 DEF PanelInv, Replied, At, Moves
    <2>2. Replied(q, {"ok"}) \subseteq q.shown \cap q.store
      BY <2>1, <1>c DEF ReplyInv
    <2>3. ASSUME NEW v \in Replied(q, {"applied"}), v # w
          PROVE  Replied(q, {"ok"}) \cup {v} \subseteq q.writes[v].has
      <3>1. v \in Replied(p, {"applied"}) /\ q.writes[v].has = p.writes[v].has
        BY <2>3, <1>1 DEF Replied, At, Moves, SameReplies
      <3>2. QED
        BY <2>1, <3>1 DEF ReplyInv
    <2>4. ASSUME w \in Replied(q, {"applied"})
          PROVE  Replied(q, {"ok"}) \cup {w} \subseteq q.writes[w].has
      <3>1. p.writes[w].op.then = "reply" /\ state = "applied"
        BY <1>1, <2>4 DEF Replied, At, Moves
      <3>2. q.writes[w].has = q.store
        BY <3>1, <1>1 DEF Moves
      <3>3. QED
        BY <3>1, <3>2, <2>2, <1>c
    <2>5. QED
      BY <2>2, <2>3, <2>4 DEF ReplyInv
  <1>8. QED
    BY <1>2, <1>3, <1>4, <1>5, <1>6, <1>7 DEF PanelInv

LEMMA IsReloadedKeeps ==
  ASSUME NEW p \in PanelShape, NEW q \in PanelShape, NEW w \in Writes,
         PanelInv(p), IsReloaded(p, q, w)
  PROVE  PanelInv(q)
  <1> USE DEF IsReloaded, SameData, SameView, Asks
  <1> DEFINE new == Asking(p.asked + 1, w)
  <1>0. /\ new.n = p.asked + 1 /\ new.state = "asked" /\ new.for = w
        /\ q.loads = p.loads \cup {new}
    BY DEF Asking
  <1>a. p.asked \in Nat /\ \A l \in p.loads : l.n \in Nat /\ l.n <= p.asked
    BY DEF PanelShape, PanelLoadShape, PanelInv, PanelLoadsInv
  <1>b. \A l \in p.loads : l.for # 0 => l.for \in Writes /\ p.writes[l.for].state = "reloading"
    BY DEF PanelInv, PanelLoadsInv, PanelShape, PanelLoadShape, Writes
  <1>c. w # 0
    BY DEF Writes
  <1>d. /\ \A s : s \cap {"reloading", "applied"} = {} => At(q, s) = At(p, s)
        /\ At(q, {"applied"}) = At(p, {"applied"}) \ {w}
        /\ At(q, {"reloading"}) = At(p, {"reloading"}) \cup {w}
    BY DEF Moves, At
  <1>e. Reloaded(q) = Reloaded(p) \cup {w}
    BY DEF Reloaded, Moves, At
  <1> HIDE DEF new
  <1>1. PanelWritesInv(q)
    <2>1. \A v \in Writes : q.writes[v].state # "unsent" => q.writes[v].op \in q.kind.ops
      BY DEF PanelInv, PanelWritesInv, Moves
    <2>2. /\ \A v \in At(q, {"reloading"}) : q.writes[v].op.then \in {"reload", "rereads"}
          /\ \A v \in At(q, {"following"}) : q.writes[v].op.then = "follows"
      BY DEF PanelInv, PanelWritesInv, At, Moves
    <2>3. w \in At(p, {"applied"})
      BY DEF At
    <2>4. At(q, {"applied"}) \cup Reloaded(q) \subseteq q.store
      BY <1>d, <1>e, <2>3 DEF PanelInv, PanelWritesInv
    <2>5. QED
      BY <2>1, <2>2, <2>4 DEF PanelWritesInv
  <1>f. \A l \in p.loads : l.for # w
    BY <1>b, <1>c
  <1>2. PanelLoadsInv(q)
    <2>1. \A l \in q.loads : l.n <= q.asked
      BY <1>0, <1>a
    <2>2. \A l \in q.loads : l.for # 0 => q.writes[l.for].state = "reloading"
      BY <1>0, <1>b, <1>f DEF Moves
    <2>3. \A k, l \in q.loads : k.for = l.for /\ l.for # 0 => k = l
      BY <1>0, <1>f DEF PanelInv, PanelLoadsInv
    <2>4. QED
      BY <2>1, <2>2, <2>3 DEF PanelLoadsInv
  <1>3. Serial(q.kind) => SerialInv(q)
    BY SerialMoves DEF PanelInv, WriteStates, InFlight
  <1>4. ASSUME Once(q.kind) PROVE OnceInv(q) /\ \A l \in p.loads : l.for # 0
    <2>1. At(q, {"unsent"}) = At(p, {"unsent"}) /\ w \notin At(p, {"unsent"})
      BY DEF At, Moves
    <2>2. p.loaded
      BY <1>4, <2>1 DEF PanelInv, OnceInv
    <2>3. QED
      BY <1>4, <2>1, <2>2, <1>0, <1>c DEF PanelInv, OnceInv
  <1>5. ASSUME Reloading(q.kind) PROVE ReloadInv(q)
    <2>1. \A l \in q.loads : l.n = q.asked => l = new
      BY <1>0, <1>a
    <2>2. \A l \in p.loads : l.for = 0
      <3>1. ASSUME NEW v \in At(p, InFlight) PROVE v \in Changing(p)
        BY <1>5 DEF PanelInv, PanelWritesInv, Reloading, Changing, At, InFlight
      <3>2. w \in Changing(p)
        BY <3>1 DEF At, InFlight
      <3>3. ASSUME NEW l \in p.loads, l.for # 0 PROVE FALSE
        <4>1. l.for \in At(p, InFlight) /\ l.for # w
          BY <1>b, <3>3 DEF At, InFlight
        <4>2. QED
          BY <3>1, <3>2, <4>1, <1>5 DEF PanelInv, Reloading, SerialInv
      <3>4. QED
        BY <3>3
    <2>3. q.kind.drops = "none" => \A l \in q.loads : l.n = q.asked
      <3>1. q.kind.drops = "none" => Once(q.kind)
        BY <1>5 DEF Reloading
      <3>2. QED
        BY <3>1, <1>4, <2>2, <1>0
    <2>4. QED
      BY <2>1, <2>3, <1>0, <1>c DEF ReloadInv
  <1>6. ASSUME Replying(q.kind) PROVE FALSE
    BY <1>6 DEF PanelInv, PanelWritesInv, Replying
  <1>7. QED
    BY <1>1, <1>2, <1>3, <1>4, <1>5, <1>6 DEF PanelInv

LEMMA IsFollowedKeeps ==
  ASSUME NEW p \in PanelShape, NEW q \in PanelShape, NEW w \in Writes,
         PanelInv(p), IsFollowed(p, q, w)
  PROVE  PanelInv(q)
  <1> USE DEF IsFollowed, SameData, SameView, SameLoads
  <1>b. \A l \in p.loads : l.for # 0 => l.for \in Writes /\ p.writes[l.for].state = "reloading"
    BY DEF PanelInv, PanelLoadsInv, PanelShape, PanelLoadShape, Writes
  <1>d. \A s : s \cap {"following", "applied"} = {} => At(q, s) = At(p, s)
    BY DEF Moves, At
  <1>e. Reloaded(q) = Reloaded(p) /\ At(q, {"applied"}) \subseteq At(p, {"applied"})
    BY DEF Reloaded, Moves, At
  <1>1. PanelWritesInv(q)
    <2>1. \A v \in Writes : q.writes[v].state # "unsent" => q.writes[v].op \in q.kind.ops
      BY DEF PanelInv, PanelWritesInv, Moves
    <2>2. /\ \A v \in At(q, {"reloading"}) : q.writes[v].op.then \in {"reload", "rereads"}
          /\ \A v \in At(q, {"following"}) : q.writes[v].op.then = "follows"
      BY DEF PanelInv, PanelWritesInv, At, Moves
    <2>3. QED
      BY <2>1, <2>2, <1>e DEF PanelInv, PanelWritesInv
  <1>2. PanelLoadsInv(q)
    <2>1. \A l \in q.loads : l.for # 0 => q.writes[l.for].state = "reloading"
      BY <1>b DEF Moves
    <2>2. QED
      BY <2>1 DEF PanelInv, PanelLoadsInv
  <1>3. Serial(q.kind) => SerialInv(q)
    BY SerialMoves DEF PanelInv, WriteStates, InFlight
  <1>4. Once(q.kind) => OnceInv(q)
    BY <1>d DEF PanelInv, OnceInv
  <1>5. p.writes[w].op \in p.kind.ops
    BY DEF PanelInv, PanelWritesInv
  <1>6. ~Reloading(q.kind) /\ ~Replying(q.kind)
    BY <1>5 DEF Reloading, Replying
  <1>7. QED
    BY <1>1, <1>2, <1>3, <1>4, <1>6 DEF PanelInv

LEMMA IsOverKeeps ==
  ASSUME NEW p \in PanelShape, NEW q \in PanelShape, NEW w \in Writes, NEW state,
         PanelInv(p), IsOver(p, q, w, state)
  PROVE  PanelInv(q)
  <1> USE DEF IsOver, SameLoads
  <1>a. p.writes[w].op \in p.kind.ops /\ p.writes[w].state # "unsent"
    BY DEF PanelInv, PanelWritesInv, InFlight
  <1>b. \A l \in p.loads : l.for # 0 => l.for \in Writes /\ p.writes[l.for].state = "reloading"
    BY DEF PanelInv, PanelLoadsInv, PanelShape, PanelLoadShape, Writes
  <1>d. /\ At(q, {"unsent"}) = At(p, {"unsent"}) /\ At(q, {"reloading"}) = At(p, {"reloading"})
        /\ At(q, {"applied"}) = At(p, {"applied"}) \ {w}
        /\ At(q, {"following"}) = At(p, {"following"}) \ {w}
        /\ At(q, {"ok"}) = IF state = "ok" THEN At(p, {"ok"}) \cup {w} ELSE At(p, {"ok"})
    BY DEF Moves, At, InFlight
  <1>e. Reloaded(q) = Reloaded(p)
    BY DEF Reloaded, Moves, At, InFlight
  <1>f. /\ \A v \in Writes : q.writes[v].op = p.writes[v].op
        /\ \A s : At(p, s) \subseteq Writes /\ At(q, s) \subseteq Writes
    BY DEF Moves, At
  <1>1. PanelWritesInv(q)
    <2>1. \A v \in Writes : q.writes[v].state # "unsent" => q.writes[v].op \in q.kind.ops
      BY <1>a DEF PanelInv, PanelWritesInv, Moves
    <2>2. /\ \A v \in At(q, {"reloading"}) : q.writes[v].op.then \in {"reload", "rereads"}
          /\ \A v \in At(q, {"following"}) : q.writes[v].op.then = "follows"
      BY <1>d DEF PanelInv, PanelWritesInv, Moves, At
    <2>3. QED
      BY <2>1, <2>2, <1>d, <1>e DEF PanelInv, PanelWritesInv
  <1>2. PanelLoadsInv(q)
    <2>1. \A l \in q.loads : l.for # 0 => q.writes[l.for].state = "reloading"
      BY <1>b DEF Moves
    <2>2. QED
      BY <2>1 DEF PanelInv, PanelLoadsInv
  <1>3. Serial(q.kind) => SerialInv(q)
    BY SerialMoves DEF PanelInv, WriteStates, InFlight
  <1>4. Once(q.kind) => OnceInv(q)
    BY <1>d DEF PanelInv, OnceInv
  <1>5. ASSUME Reloading(q.kind) PROVE ReloadInv(q)
    <2>1. ReloadInv(p) /\ q.shown = p.shown
      BY <1>5, <1>a DEF PanelInv, Reloading
    <2>2. QED
      BY <2>1, <1>e DEF ReloadInv
  <1>6. ASSUME Replying(q.kind) PROVE ReplyInv(q)
    <2>1. /\ ReplyInv(p) /\ SerialInv(p)
          /\ p.writes[w].op.then \in {"reply", "beside"}
      BY <1>6, <1>a DEF PanelInv, Replying
    <2>2. CASE state = "ok" /\ p.writes[w].op.then = "reply"
      <3>1. w \in Replied(p, {"applied"}) /\ w \in Changing(p)
        BY <2>2 DEF Replied, Changing, At, InFlight
      <3>2. Replied(p, {"ok"}) \cup {w} \subseteq q.shown
        BY <2>1, <2>2, <3>1 DEF ReplyInv
      <3>3. w \in p.store
        BY <3>1 DEF PanelInv, PanelWritesInv, Replied
      <3>4. Replied(p, {"applied"}) \subseteq Changing(p)
        BY DEF Replied, Changing, At, InFlight
      <3>5. Replied(q, {"applied"}) \subseteq Replied(p, {"applied"}) \ {w}
        BY <1>d, <1>f DEF Replied
      <3>6. Replied(q, {"applied"}) = {}
        BY <3>1, <3>4, <3>5, <2>1 DEF SerialInv
      <3>7. Replied(q, {"ok"}) \subseteq Replied(p, {"ok"}) \cup {w}
        BY <1>d, <1>f, <2>2 DEF Replied
      <3>8. QED
        BY <2>1, <3>2, <3>3, <3>6, <3>7 DEF ReplyInv
    <2>3. CASE state = "failed" \/ p.writes[w].op.then = "beside"
      <3>0. q.shown = p.shown
        BY <2>1, <2>3
      <3>1. Replied(q, {"ok"}) = Replied(p, {"ok"})
        <4>1. CASE state = "failed"
          BY <4>1, <1>d, <1>f DEF Replied
        <4>2. CASE p.writes[w].op.then = "beside"
          BY <4>2, <1>d, <1>f DEF Replied
        <4>3. QED
          BY <2>3, <4>1, <4>2
      <3>2. \A v \in Replied(q, {"applied"}) :
               v \in Replied(p, {"applied"}) /\ q.writes[v].has = p.writes[v].has
        BY <1>d DEF Replied, At, SameReplies, Moves
      <3>3. QED
        BY <2>1, <3>0, <3>1, <3>2 DEF ReplyInv
    <2>4. QED
      BY <2>1, <2>2, <2>3
  <1>7. QED
    BY <1>1, <1>2, <1>3, <1>4, <1>5, <1>6 DEF PanelInv

LEMMA FinishesLoadKeeps ==
  ASSUME NEW p \in PanelShape, NEW q \in PanelShape, NEW l,
         PanelInv(p), FinishesLoad(p, q, l)
  PROVE  PanelInv(q)
  <1> USE DEF FinishesLoad, SameData
  <1>a. PICK state \in {"ok", "failed"} : l.for # 0 => Moves(p, q, l.for, state)
    OBVIOUS
  <1>b. \A k \in p.loads : k.for # 0 => k.for \in Writes /\ p.writes[k.for].state = "reloading"
    BY DEF PanelInv, PanelLoadsInv, PanelShape, PanelLoadShape, Writes
  <1>c. l \in p.loads /\ l.n \in Nat /\ p.asked \in Nat
    BY DEF PanelShape, PanelLoadShape
  <1>d. /\ At(q, {"unsent"}) = At(p, {"unsent"}) /\ At(q, {"applied"}) = At(p, {"applied"})
        /\ At(q, {"following"}) = At(p, {"following"})
        /\ At(q, {"reloading"}) = At(p, {"reloading"}) \ {l.for}
        /\ At(q, {"ok"}) \subseteq At(p, {"ok", "reloading"})
        /\ \A v \in Writes : q.writes[v].op = p.writes[v].op
    <2>1. CASE l.for = 0
      BY <2>1 DEF At, Writes
    <2>2. CASE l.for # 0
      BY <2>2, <1>a, <1>b DEF At, Moves
    <2>3. QED
      BY <2>1, <2>2
  <1>e. Reloaded(q) \subseteq Reloaded(p)
    <2>1. At(q, {"reloading", "ok"}) \subseteq At(p, {"reloading", "ok"})
      BY <1>d DEF At
    <2>2. QED
      BY <2>1, <1>d DEF Reloaded, At
  <1>f. \A v \in At(p, {"reloading"}) : p.writes[v].op.then \in {"reload", "rereads"}
    BY DEF PanelInv, PanelWritesInv
  <1>1. PanelWritesInv(q)
    <2>1. \A v \in Writes : q.writes[v].state # "unsent" => p.writes[v].state # "unsent"
      BY <1>d DEF At
    <2>2. /\ \A v \in At(q, {"reloading"}) : q.writes[v].op.then \in {"reload", "rereads"}
          /\ \A v \in At(q, {"following"}) : q.writes[v].op.then = "follows"
      BY <1>d, <1>f DEF PanelInv, PanelWritesInv, At
    <2>3. QED
      BY <2>1, <2>2, <1>d, <1>e DEF PanelInv, PanelWritesInv
  <1>2. PanelLoadsInv(q)
    <2>1. ASSUME NEW k \in q.loads, k.for # 0 PROVE q.writes[k.for].state = "reloading"
      <3>1. k \in p.loads /\ k.for # l.for
        BY <2>1, <1>c DEF PanelInv, PanelLoadsInv
      <3>2. k.for \in Writes /\ p.writes[k.for].state = "reloading"
        BY <3>1, <2>1, <1>b
      <3>3. QED
        BY <3>1, <3>2, <1>d DEF At
    <2>2. QED
      BY <2>1 DEF PanelInv, PanelLoadsInv
  <1>3. ASSUME Serial(q.kind) PROVE SerialInv(q)
    <2>1. CASE l.for = 0
      BY <2>1, <1>3 DEF PanelInv, SerialInv, Changing, At
    <2>2. CASE l.for # 0
      <3>1. l.for \in Writes /\ p.writes[l.for].state = "reloading"
        BY <2>2, <1>b
      <3>2. QED
        <4>1. p.writes[l.for].op.then # "beside"
          BY <3>1, <1>f DEF At
        <4>2. QED
          BY <2>2, <3>1, <4>1, <1>a, <1>3, SerialMoves DEF PanelInv, WriteStates, InFlight
    <2>3. QED
      BY <2>1, <2>2
  <1>4. ASSUME Once(q.kind)
        PROVE  OnceInv(q) /\ (l.for = 0 => At(p, {"unsent"}) = Writes)
    <2>1. OnceInv(p)
      BY <1>4 DEF PanelInv
    <2>2. l.for # 0 => p.loaded
      <3>1. l.for # 0 => l.for \in Writes \ At(p, {"unsent"})
        BY <1>b, <1>c DEF At
      <3>2. QED
        BY <3>1, <2>1 DEF OnceInv
    <2>3. p.loaded => q.loaded
      BY DEF TakesLoad, DropsLoad, FailsLoad, SameView
    <2>4. l.for = 0 => \A k \in q.loads : k.for # 0
      BY <2>1, <1>c DEF OnceInv
    <2>5. q.loaded => p.loaded \/ l.for = 0
      BY <2>2
    <2>6. QED
      BY <2>1, <2>2, <2>3, <2>4, <2>5, <1>c, <1>d DEF OnceInv
  <1>5. ASSUME Reloading(q.kind) PROVE ReloadInv(q)
    <2>1. ReloadInv(p)
      BY <1>5 DEF PanelInv
    <2>2. /\ \A k \in q.loads : k.n = q.asked /\ k.state = "answered" => Reloaded(q) \subseteq k.has
          /\ q.kind.drops = "none" => \A k \in q.loads : k.n = q.asked
      BY <2>1, <1>e DEF ReloadInv
    <2>3. CASE TakesLoad(p, q, l)
      <3>1. q.broken \/ Reloaded(q) \subseteq q.shown
        BY <1>5, <2>1, <2>3, <1>c, <1>e DEF ReloadInv, TakesLoad, Reloading
      <3>2. QED
        BY <2>2, <3>1 DEF ReloadInv
    <2>4. CASE DropsLoad(p, q, l)
      <3>1. \A k \in p.loads : k.n = p.asked => k \in q.loads
        BY <2>4 DEF DropsLoad
      <3>2. QED
        BY <2>1, <2>2, <2>4, <3>1, <1>e DEF ReloadInv, DropsLoad, SameView
    <2>5. CASE FailsLoad(p, q, l)
      BY <2>2, <2>5 DEF ReloadInv, FailsLoad
    <2>6. QED
      BY <2>3, <2>4, <2>5
  <1>6. ASSUME Replying(q.kind) PROVE ReplyInv(q)
    <2>1. l.for = 0
      <3>1. ASSUME l.for # 0 PROVE FALSE
        <4>1. l.for \in At(p, {"reloading"})
          BY <3>1, <1>b, <1>c DEF At
        <4>2. p.writes[l.for].op \in p.kind.ops
          BY <4>1 DEF PanelInv, PanelWritesInv, At
        <4>3. QED
          BY <4>1, <4>2, <1>f, <1>6 DEF Replying
      <3>2. QED
        BY <3>1
    <2>2. At(p, {"unsent"}) = Writes
      BY <2>1, <1>4, <1>6 DEF Replying
    <2>3. Replied(q, {"ok"}) = {} /\ Replied(q, {"applied"}) = {}
      BY <2>2, <1>d DEF Replied, At
    <2>4. QED
      BY <2>3 DEF ReplyInv
  <1>7. QED
    BY <1>1, <1>2, <1>3, <1>4, <1>5, <1>6 DEF PanelInv

-------------------------------------------------------------------------------
(* The steps of a panel are those above. *)

SameFlags(p, q) == q.flags = p.flags /\ q.stuck = p.stuck

\* Only the write w, its flag and what is over may differ.
LEMMA StateMoves ==
  ASSUME NEW p \in PanelShape, NEW w \in Writes, NEW state \in WriteStates
  PROVE  LET q == [p EXCEPT !.writes[w].state = state]
         IN  /\ q \in PanelShape /\ SameData(p, q) /\ SameView(p, q) /\ SameLoads(p, q)
             /\ SameFlags(p, q) /\ q.polls = p.polls
             /\ Moves(p, q, w, state) /\ SameReplies(p, q)
  <1> DEFINE v == [p.writes[w] EXCEPT !.state = state]
             W == [p.writes EXCEPT ![w] = v]
             q == [p EXCEPT !.writes = W]
  <1>1. p.writes \in [Writes -> PanelWriteShape] /\ p.writes[w] \in PanelWriteShape
    BY DEF PanelShape
  <1>2. /\ v \in PanelWriteShape /\ v.state = state
        /\ v.op = p.writes[w].op /\ v.has = p.writes[w].has
    BY <1>1 DEF PanelWriteShape
  <1> HIDE DEF v
  <1>3. /\ W \in [Writes -> PanelWriteShape] /\ W[w] = v
        /\ \A u \in Writes : u # w => W[u] = p.writes[u]
    BY <1>1, <1>2
  <1> HIDE DEF W
  <1>4. /\ q \in PanelShape /\ SameData(p, q) /\ SameView(p, q) /\ SameLoads(p, q)
        /\ SameFlags(p, q) /\ q.polls = p.polls /\ q.writes = W
    BY <1>3 DEF PanelShape, SameData, SameView, SameLoads, SameFlags
  <1>5. q = [p EXCEPT !.writes[w].state = state]
    BY DEF q, W, v
  <1> HIDE DEF q
  <1>6. Moves(p, q, w, state) /\ SameReplies(p, q)
    BY <1>2, <1>3, <1>4 DEF Moves, SameReplies
  <1>7. QED
    BY <1>4, <1>5, <1>6

LEMMA LoadMoves ==
  ASSUME NEW p \in PanelShape, NEW w \in 0 .. MaxWrites
  PROVE  LET q == Load(p, w)
         IN  /\ q \in PanelShape /\ SameData(p, q) /\ SameView(p, q) /\ Asks(p, q, w)
             /\ SameFlags(p, q) /\ q.polls = p.polls /\ q.writes = p.writes
  <1> DEFINE a == p.asked + 1
             L == p.loads \cup {Asking(a, w)}
             q == [p EXCEPT !.asked = a, !.loads = L]
  <1>1. a \in Nat
    BY DEF PanelShape
  <1> HIDE DEF a
  <1>2. Asking(a, w) \in PanelLoadShape
    BY <1>1 DEF Asking, PanelLoadShape, MaxReads
  <1>3. L \in SUBSET PanelLoadShape
    BY <1>2 DEF PanelShape
  <1> HIDE DEF L
  <1>4. /\ q \in PanelShape /\ SameData(p, q) /\ SameView(p, q) /\ q.asked = a /\ q.loads = L
        /\ SameFlags(p, q) /\ q.polls = p.polls /\ q.writes = p.writes
    BY <1>1, <1>3 DEF PanelShape, SameData, SameView, SameFlags
  <1>5. q = Load(p, w)
    BY DEF q, L, a, Load
  <1> HIDE DEF q
  <1>6. Asks(p, q, w)
    BY <1>4 DEF Asks, a, L
  <1>7. QED
    BY <1>4, <1>5, <1>6

LEMMA ClearedMoves ==
  ASSUME NEW p \in PanelShape, NEW w \in Writes
  PROVE  LET q == Cleared(p, w)
         IN  /\ q \in PanelShape /\ SameData(p, q) /\ SameView(p, q) /\ SameLoads(p, q)
             /\ q.polls = p.polls /\ q.writes = p.writes
             /\ q.flags = p.flags \ {p.writes[w].op.flag}
             /\ q.stuck = p.stuck \ {p.writes[w].op.flag}
  <1> DEFINE F == p.flags \ {p.writes[w].op.flag}
             S == p.stuck \ {p.writes[w].op.flag}
             q == [p EXCEPT !.flags = F, !.stuck = S]
  <1>1. F \in SUBSET AllFlags /\ S \in SUBSET AllFlags
    BY DEF PanelShape
  <1>2. q = Cleared(p, w)
    BY DEF Cleared
  <1> HIDE DEF F, S
  <1>3. /\ q \in PanelShape /\ SameData(p, q) /\ SameView(p, q) /\ SameLoads(p, q)
        /\ q.polls = p.polls /\ q.writes = p.writes /\ q.flags = F /\ q.stuck = S
    BY <1>1 DEF PanelShape, SameData, SameView, SameLoads
  <1> HIDE DEF q
  <1>4. QED
    BY <1>2, <1>3 DEF F, S

LEMMA SticksMoves ==
  ASSUME NEW p \in PanelShape, NEW w \in Writes
  PROVE  LET q == Sticks(p, w)
         IN  /\ q \in PanelShape /\ SameData(p, q) /\ SameView(p, q) /\ SameLoads(p, q)
             /\ q.polls = p.polls /\ q.writes = p.writes
             /\ q.flags = p.flags
             /\ q.stuck = p.stuck \cup ({p.writes[w].op.flag} \cap p.flags)
  <1> DEFINE S == p.stuck \cup ({p.writes[w].op.flag} \cap p.flags)
             q == [p EXCEPT !.stuck = S]
  <1>1. S \in SUBSET AllFlags
    BY DEF PanelShape
  <1>2. q = Sticks(p, w)
    BY DEF Sticks
  <1> HIDE DEF S
  <1>3. /\ q \in PanelShape /\ SameData(p, q) /\ SameView(p, q) /\ SameLoads(p, q)
        /\ q.polls = p.polls /\ q.writes = p.writes /\ q.flags = p.flags /\ q.stuck = S
    BY <1>1 DEF PanelShape, SameData, SameView, SameLoads
  <1> HIDE DEF q
  <1>4. QED
    BY <1>2, <1>3 DEF S

\* A write ends where what is shown is already changed.
LEMMA SettledMoves ==
  ASSUME NEW p \in PanelShape, NEW w \in Writes, NEW state \in WriteStates
  PROVE  LET q == Settled(p, w, state)
         IN  /\ q \in PanelShape /\ SameData(p, q) /\ SameView(p, q) /\ SameLoads(p, q)
             /\ q.polls = p.polls
             /\ q.flags = p.flags \ {p.writes[w].op.flag}
             /\ q.stuck = p.stuck \ {p.writes[w].op.flag}
             /\ Moves(p, q, w, state) /\ SameReplies(p, q)
  <1> DEFINE c == Cleared(p, w)
             q == [c EXCEPT !.writes[w].state = state]
  <1>1. /\ c \in PanelShape /\ SameData(p, c) /\ SameView(p, c) /\ SameLoads(p, c)
        /\ c.polls = p.polls /\ c.writes = p.writes
        /\ c.flags = p.flags \ {p.writes[w].op.flag}
        /\ c.stuck = p.stuck \ {p.writes[w].op.flag}
    BY ClearedMoves
  <1> HIDE DEF c
  <1>2. /\ q \in PanelShape /\ SameData(c, q) /\ SameView(c, q) /\ SameLoads(c, q)
        /\ SameFlags(c, q) /\ q.polls = c.polls
        /\ Moves(c, q, w, state) /\ SameReplies(c, q)
    BY <1>1, StateMoves
  <1>3. q = Settled(p, w, state)
    BY DEF Settled, c
  <1> HIDE DEF q
  <1>4. SameData(p, q) /\ SameView(p, q) /\ SameLoads(p, q)
    BY <1>1, <1>2 DEF SameData, SameView, SameLoads
  <1>5. Moves(p, q, w, state) /\ SameReplies(p, q)
    BY <1>1, <1>2 DEF Moves, SameReplies
  <1>6. QED
    BY <1>1, <1>2, <1>3, <1>4, <1>5 DEF SameFlags

LEMMA ThrowsMoves ==
  ASSUME NEW p \in PanelShape, NEW w \in Writes
  PROVE  LET q == Throws(p, w)
         IN  /\ q \in PanelShape /\ SameData(p, q) /\ SameView(p, q) /\ SameLoads(p, q)
             /\ q.polls = p.polls
             /\ q.flags = p.flags
             /\ q.stuck = p.stuck \cup ({p.writes[w].op.flag} \cap p.flags)
             /\ Moves(p, q, w, "failed") /\ SameReplies(p, q)
  <1> DEFINE c == [p EXCEPT !.writes[w].state = "failed"]
             q == Sticks(c, w)
  <1>1. /\ c \in PanelShape /\ SameData(p, c) /\ SameView(p, c) /\ SameLoads(p, c)
        /\ SameFlags(p, c) /\ c.polls = p.polls
        /\ Moves(p, c, w, "failed") /\ SameReplies(p, c)
    BY StateMoves DEF WriteStates
  <1>2. q = Throws(p, w)
    BY DEF Throws
  <1> HIDE DEF c
  <1>3. /\ q \in PanelShape /\ SameData(c, q) /\ SameView(c, q) /\ SameLoads(c, q)
        /\ q.polls = c.polls /\ q.writes = c.writes
        /\ q.flags = c.flags
        /\ q.stuck = c.stuck \cup ({c.writes[w].op.flag} \cap c.flags)
    BY <1>1, SticksMoves
  <1> HIDE DEF q
  <1>4. SameData(p, q) /\ SameView(p, q) /\ SameLoads(p, q)
    BY <1>1, <1>3 DEF SameData, SameView, SameLoads
  <1>5. Moves(p, q, w, "failed") /\ SameReplies(p, q) /\ c.writes[w].op = p.writes[w].op
    BY <1>1, <1>3 DEF Moves, SameReplies
  <1>6. q.flags = p.flags /\ q.stuck = p.stuck \cup ({p.writes[w].op.flag} \cap p.flags)
    BY <1>1, <1>3, <1>5 DEF SameFlags
  <1>7. QED
    BY <1>1, <1>2, <1>3, <1>4, <1>5, <1>6

\* What a step may do to the flags and to the number of loads the user or a timer asked for.
Bookkeeps(p, q) ==
    /\ \/ SameFlags(p, q)
       \/ \E flag : q.flags = p.flags \ {flag} /\ q.stuck = p.stuck \ {flag}
       \/ \E flag : q.flags = p.flags /\ q.stuck = p.stuck \cup ({flag} \cap p.flags)
       \/ \E op \in p.kind.ops :
             q.flags = p.flags \cup ({op.flag} \ {"none"}) /\ q.stuck = p.stuck
    /\ q.polls = p.polls

LEMMA LoadPanelDoes ==
  ASSUME panel \in PanelShape, LoadPanel
  PROVE  /\ panel' \in PanelShape /\ LoadsAgain(panel, panel')
         /\ SameFlags(panel, panel')
         /\ panel.polls < MaxLoads /\ panel'.polls = panel.polls + 1
  <1> DEFINE n == panel.polls + 1
             c == [panel EXCEPT !.polls = n]
  <1>1. n \in Nat
    BY DEF PanelShape
  <1>2. panel' = Load(c, 0) /\ panel.polls < MaxLoads
    BY DEF LoadPanel
  <1>3. \/ panel.kind.loads \in {"any", "asked"}
        \/ panel.kind.loads = "idle" /\ panel.flags = {}
    BY DEF LoadPanel
  <1>4. n = panel.polls + 1
    OBVIOUS
  <1> HIDE DEF n
  <1>5. /\ c \in PanelShape /\ SameData(panel, c) /\ SameView(panel, c) /\ SameLoads(panel, c)
        /\ SameFlags(panel, c) /\ c.polls = n /\ c.writes = panel.writes
    BY <1>1 DEF PanelShape, SameData, SameView, SameLoads, SameFlags
  <1> HIDE DEF c
  <1>6. /\ panel' \in PanelShape /\ SameData(c, panel') /\ SameView(c, panel')
        /\ Asks(c, panel', 0) /\ SameFlags(c, panel') /\ panel'.polls = c.polls
        /\ panel'.writes = c.writes
    BY <1>2, <1>5, LoadMoves
  <1>7. QED
    BY <1>2, <1>3, <1>4, <1>5, <1>6
       DEF SameData, SameView, SameLoads, SameFlags, Asks, LoadsAgain

LEMMA AnswerPanelDoes ==
  ASSUME panel \in PanelShape, NEW l \in panel.loads, AnswerPanel(l) \/ ReadsAgain(l)
  PROVE  /\ panel' \in PanelShape /\ GetsAnswer(panel, panel', l)
         /\ Bookkeeps(panel, panel')
  <1>1. l \in PanelLoadShape /\ panel.store \in SUBSET Writes
    BY DEF PanelShape
  <1>2. ASSUME NEW a \in PanelLoadShape, a.n = l.n, a.for = l.for,
               a.state = "answered" => a.has = panel.store,
               panel' = [panel EXCEPT !.loads = (@ \ {l}) \cup {a}]
        PROVE  /\ panel' \in PanelShape /\ GetsAnswer(panel, panel', l)
               /\ Bookkeeps(panel, panel')
    <2> DEFINE L == (panel.loads \ {l}) \cup {a}
    <2>1. L \in SUBSET PanelLoadShape /\ L = (panel.loads \ {l}) \cup {a}
      BY DEF PanelShape
    <2>2. panel' = [panel EXCEPT !.loads = L]
      BY <1>2
    <2> HIDE DEF L
    <2>3. /\ panel' \in PanelShape /\ SameData(panel, panel') /\ SameView(panel, panel')
          /\ panel'.asked = panel.asked /\ panel'.loads = L /\ SameFlags(panel, panel')
          /\ panel'.polls = panel.polls /\ panel'.writes = panel.writes
      BY <2>1, <2>2 DEF PanelShape, SameData, SameView, SameFlags
    <2>4. QED
      BY <1>2, <2>1, <2>3 DEF GetsAnswer, Bookkeeps, SameFlags
  <1>3. CASE AnswerPanel(l)
    <2> DEFINE a == [l EXCEPT !.state = "answered", !.has = panel.store]
    <2>1. a \in PanelLoadShape /\ a.n = l.n /\ a.for = l.for /\ a.has = panel.store
      BY <1>1 DEF PanelLoadShape
    <2>2. panel' = [panel EXCEPT !.loads = (@ \ {l}) \cup {a}]
      BY <1>3 DEF AnswerPanel
    <2> HIDE DEF a
    <2>3. QED
      BY <2>1, <2>2, <1>2
  <1>4. CASE ReadsAgain(l)
    <2> DEFINE n == l.reads + 1
               a == [l EXCEPT !.state = "asked", !.reads = n]
    <2>1. n \in 1 .. MaxReads
      BY <1>1, <1>4 DEF PanelLoadShape, ReadsAgain, MaxReads
    <2>2. panel' = [panel EXCEPT !.loads = (@ \ {l}) \cup {a}]
      BY <1>4 DEF ReadsAgain
    <2> HIDE DEF n
    <2>3. a \in PanelLoadShape /\ a.n = l.n /\ a.for = l.for /\ a.state = "asked"
      BY <1>1, <2>1 DEF PanelLoadShape
    <2> HIDE DEF a
    <2>4. QED
      BY <2>2, <2>3, <1>2
  <1>5. QED
    BY <1>3, <1>4

LEMMA EndsMoves ==
  ASSUME NEW p \in PanelShape, NEW l \in p.loads, NEW outcome \in {"ok", "failed"}
  PROVE  LET q == Ends(p, l, outcome)
         IN  /\ q \in PanelShape /\ SameData(p, q) /\ SameView(p, q) /\ SameReplies(p, q)
             /\ q.asked = p.asked /\ q.loads = p.loads \ {l}
             /\ l.for = 0 => q.writes = p.writes /\ q.flags = p.flags
             /\ l.for # 0 => Moves(p, q, l.for, outcome)
             /\ Bookkeeps(p, q)
  <1> DEFINE L == p.loads \ {l}
             c == [p EXCEPT !.loads = L, !.ended = TRUE]
  <1>1. L \in SUBSET PanelLoadShape /\ l \in PanelLoadShape
    BY DEF PanelShape
  <1>2. Ends(p, l, outcome) = IF l.for = 0 THEN c ELSE Settled(c, l.for, outcome)
    BY DEF Ends, Settled
  <1>3. L = p.loads \ {l}
    OBVIOUS
  <1> HIDE DEF L
  <1>4. /\ c \in PanelShape /\ SameData(p, c) /\ SameView(p, c) /\ SameFlags(p, c)
        /\ c.asked = p.asked /\ c.loads = L /\ c.polls = p.polls /\ c.writes = p.writes
    BY <1>1 DEF PanelShape, SameData, SameView, SameFlags
  <1> HIDE DEF c
  <1>5. CASE l.for = 0
    BY <1>2, <1>3, <1>4, <1>5 DEF Bookkeeps, SameReplies, SameFlags
  <1>6. CASE l.for # 0
    <2> DEFINE q == Settled(c, l.for, outcome)
    <2>1. l.for \in Writes
      BY <1>1, <1>6 DEF PanelLoadShape, Writes
    <2>2. /\ q \in PanelShape /\ SameData(c, q) /\ SameView(c, q) /\ SameLoads(c, q)
          /\ q.polls = c.polls
          /\ q.flags = c.flags \ {c.writes[l.for].op.flag}
          /\ q.stuck = c.stuck \ {c.writes[l.for].op.flag}
          /\ Moves(c, q, l.for, outcome) /\ SameReplies(c, q)
      BY <1>4, <2>1, SettledMoves DEF WriteStates
    <2> HIDE DEF q
    <2>3. SameData(p, q) /\ SameView(p, q) /\ q.asked = p.asked /\ q.loads = p.loads \ {l}
      BY <1>3, <1>4, <2>2 DEF SameData, SameView, SameLoads
    <2>4. Moves(p, q, l.for, outcome) /\ SameReplies(p, q)
      BY <1>4, <2>2 DEF Moves, SameReplies
    <2>5. Bookkeeps(p, q)
      BY <1>4, <2>2 DEF Bookkeeps, SameFlags
    <2>6. Ends(p, l, outcome) = q
      BY <1>2, <1>6 DEF q
    <2>7. QED
      BY <1>6, <2>2, <2>3, <2>4, <2>5, <2>6
  <1>7. QED
    BY <1>5, <1>6

\* What the loads of a panel bring.
LEMMA PanelReads ==
  ASSUME NEW kind \in AllPanels
  PROVE  kind.reads \in {"whole", "told", "silent"}
  <1> DEFINE Known(k) == k.reads \in {"whole", "told", "silent"}
  <1>1. \A name, when, drops, reads, ops :
          PanelOfParts(name, when, drops, reads, ops).reads = reads
    BY DEF PanelOfParts
  <1>2. \A name, when, drops, ops : Panel(name, when, drops, ops).reads = "whole"
    BY <1>1 DEF Panel
  <1>3. \A k \in
          {calendarPage, CalendarSyncSettings, MemoryPanel, AiOrchestrationSettings,
           KnowledgeView, SpacePage, IdentityPage, SystemServicesPage, RetentionPolicyPanel,
           PersonalBackupPanel, ActiveSessionsPanel} : Known(k)
    BY <1>1, <1>2 DEF calendarPage, CalendarSyncSettings, MemoryPanel,
                      AiOrchestrationSettings, KnowledgeView, SpacePage, IdentityPage,
                      SystemServicesPage, RetentionPolicyPanel, PersonalBackupPanel,
                      ActiveSessionsPanel
  <1>4. \A k \in
          {HomePage, GatewaysPage, AddDevicePage, GatewayLightControlDialog,
           ZigbeeDeviceControlDialog, DeviceControlDialog, NanoleafPage, SpotifyPage,
           useSpotifyPlayer, SpotifyPlaylistShelf, PluginsPage} : Known(k)
    BY <1>1, <1>2 DEF HomePage, GatewaysPage, AddDevicePage, GatewayLightControlDialog,
                      ZigbeeDeviceControlDialog, DeviceControlDialog, NanoleafPage,
                      SpotifyPage, useSpotifyPlayer, SpotifyPlaylistShelf, PluginsPage
  <1>5. \A k \in
          {IntegrationProviderPage, HomeAssistantConnection, UsersPage, RolesPage,
           ActivityPage, ActionInspector, ContextSourceInspector, AuthForm,
           PasswordChangeForm, InvitationPanel, RecoveryPage} : Known(k)
    BY <1>1, <1>2 DEF IntegrationProviderPage, HomeAssistantConnection, UsersPage,
                      RolesPage, ActivityPage, ActionInspector, ContextSourceInspector,
                      AuthForm, PasswordChangeForm, InvitationPanel, RecoveryPage
  <1>6. QED
    BY <1>3, <1>4, <1>5 DEF AllPanels

LEMMA LoadEndsDoes ==
  ASSUME panel \in PanelShape, NEW l \in panel.loads, LoadEnds(l)
  PROVE  /\ panel' \in PanelShape /\ FinishesLoad(panel, panel', l)
         /\ Bookkeeps(panel, panel')
  <1> DEFINE drops == panel.kind.drops # "none" /\ l.n # panel.asked
  <1>1. /\ l.state = "answered"
        /\ IF drops THEN panel' = Ends(panel, l, "ok") ELSE ShowsLoad(l)
    BY DEF LoadEnds
  <1>2. CASE drops
    <2>1. panel' = Ends(panel, l, "ok")
      BY <1>1, <1>2
    <2>2. /\ panel' \in PanelShape /\ SameData(panel, panel') /\ SameView(panel, panel')
          /\ SameReplies(panel, panel')
          /\ panel'.asked = panel.asked /\ panel'.loads = panel.loads \ {l}
          /\ l.for = 0 => panel'.writes = panel.writes /\ panel'.flags = panel.flags
          /\ l.for # 0 => Moves(panel, panel', l.for, "ok")
          /\ Bookkeeps(panel, panel')
      BY <2>1, EndsMoves
    <2>3. QED
      BY <1>1, <1>2, <2>2 DEF FinishesLoad, DropsLoad
  <1>3. ASSUME NEW shown \in SUBSET Writes, NEW broken \in BOOLEAN, ~drops,
               shown = l.has \/ broken \/ panel.kind.reads = "silent",
               panel' = Ends([panel EXCEPT !.shown = shown, !.loaded = TRUE,
                                           !.broken = broken], l, "ok")
        PROVE  /\ panel' \in PanelShape /\ FinishesLoad(panel, panel', l)
               /\ Bookkeeps(panel, panel')
    <2> DEFINE c == [panel EXCEPT !.shown = shown, !.loaded = TRUE, !.broken = broken]
    <2>1. /\ c \in PanelShape /\ SameData(panel, c) /\ SameLoads(panel, c)
          /\ SameFlags(panel, c) /\ c.polls = panel.polls /\ c.writes = panel.writes
          /\ c.shown = shown /\ c.loaded /\ c.broken = broken
      BY DEF PanelShape, SameData, SameLoads, SameFlags
    <2>2. panel' = Ends(c, l, "ok") /\ l \in c.loads
      BY <1>3, <2>1 DEF SameLoads
    <2> HIDE DEF c
    <2>3. /\ panel' \in PanelShape /\ SameData(c, panel') /\ SameView(c, panel')
          /\ SameReplies(c, panel')
          /\ panel'.asked = c.asked /\ panel'.loads = c.loads \ {l}
          /\ l.for = 0 => panel'.writes = c.writes /\ panel'.flags = c.flags
          /\ l.for # 0 => Moves(c, panel', l.for, "ok")
          /\ Bookkeeps(c, panel')
      BY <2>1, <2>2, EndsMoves
    <2>4. SameData(panel, panel') /\ SameReplies(panel, panel')
      BY <2>1, <2>3 DEF SameData, SameReplies
    <2>5. Bookkeeps(panel, panel')
      BY <2>1, <2>3 DEF Bookkeeps, SameFlags, SameData
    <2>6. TakesLoad(panel, panel', l)
      BY <1>1, <1>3, <2>1, <2>3 DEF TakesLoad, SameView
    <2>7. l.for # 0 => Moves(panel, panel', l.for, "ok")
      BY <2>1, <2>3 DEF Moves
    <2>8. QED
      BY <2>1, <2>3, <2>4, <2>5, <2>6, <2>7 DEF FinishesLoad, SameLoads, SameFlags
  <1>4. CASE ~drops
    <2>1. l.has \in SUBSET Writes /\ panel.shown \in SUBSET Writes
      BY DEF PanelShape, PanelLoadShape
    <2>2. CASE panel' = Ends([panel EXCEPT !.shown = l.has, !.loaded = TRUE,
                                           !.broken = FALSE], l, "ok")
      BY <1>3, <1>4, <2>1, <2>2
    <2> DEFINE told == panel.kind.reads = "told"
    <2>3. ASSUME panel.kind.reads # "whole", NEW shown \in SUBSET (l.has \cup panel.shown),
                 panel' = Ends([panel EXCEPT !.shown = shown, !.loaded = TRUE,
                                             !.broken = told], l, "ok")
          PROVE  /\ panel' \in PanelShape /\ FinishesLoad(panel, panel', l)
                 /\ Bookkeeps(panel, panel')
      <3>1. told \in BOOLEAN /\ shown \in SUBSET Writes
        BY <2>1
      <3>2. panel.kind.reads \in {"whole", "told", "silent"}
        BY PanelReads DEF PanelShape
      <3>3. told \/ panel.kind.reads = "silent"
        BY <2>3, <3>2
      <3> HIDE DEF told
      <3>4. QED
        BY <1>3, <1>4, <2>3, <3>1, <3>3
    <2>4. QED
      BY <1>1, <1>4, <2>2, <2>3 DEF ShowsLoad
  <1>5. QED
    BY <1>2, <1>4

LEMMA PanelLoadFailsDoes ==
  ASSUME panel \in PanelShape, NEW l \in panel.loads, PanelLoadFails(l)
  PROVE  /\ panel' \in PanelShape /\ FinishesLoad(panel, panel', l)
         /\ Bookkeeps(panel, panel')
  <1> DEFINE b == [panel EXCEPT !.broken = TRUE]
             L == panel.loads \ {l}
             c == [panel EXCEPT !.broken = TRUE, !.loads = L, !.ended = TRUE]
             thrown == l.for # 0 /\ panel.writes[l.for].op.lost = "thrown"
  <1>1. panel' = IF thrown THEN Throws(c, l.for) ELSE Ends(b, l, "ok")
    BY DEF PanelLoadFails
  <1>2. L \in SUBSET PanelLoadShape /\ l \in PanelLoadShape /\ L = panel.loads \ {l}
    BY DEF PanelShape
  <1> HIDE DEF L
  <1>3. /\ c \in PanelShape /\ SameData(panel, c) /\ SameFlags(panel, c)
        /\ c.asked = panel.asked /\ c.loads = L /\ c.polls = panel.polls
        /\ c.writes = panel.writes
        /\ c.shown = panel.shown /\ c.loaded = panel.loaded /\ c.broken
    BY <1>2 DEF PanelShape, SameData, SameFlags
  <1>4. /\ b \in PanelShape /\ SameData(panel, b) /\ SameLoads(panel, b) /\ SameFlags(panel, b)
        /\ b.polls = panel.polls /\ b.writes = panel.writes
        /\ b.shown = panel.shown /\ b.loaded = panel.loaded /\ b.broken
    BY DEF PanelShape, SameData, SameLoads, SameFlags
  <1> HIDE DEF b, c
  <1>5. CASE thrown
    <2>1. l.for \in Writes /\ l.for # 0
      BY <1>2, <1>5 DEF PanelLoadShape, Writes
    <2>2. panel' = Throws(c, l.for)
      BY <1>1, <1>5
    <2>3. /\ panel' \in PanelShape /\ SameData(c, panel') /\ SameView(c, panel')
          /\ SameLoads(c, panel') /\ panel'.polls = c.polls
          /\ panel'.flags = c.flags
          /\ panel'.stuck = c.stuck \cup ({c.writes[l.for].op.flag} \cap c.flags)
          /\ Moves(c, panel', l.for, "failed") /\ SameReplies(c, panel')
      BY <1>3, <2>1, <2>2, ThrowsMoves
    <2>4. SameData(panel, panel') /\ SameReplies(panel, panel')
      BY <1>3, <2>3 DEF SameData, SameReplies
    <2>5. Bookkeeps(panel, panel')
      BY <1>3, <2>3 DEF Bookkeeps, SameFlags
    <2>6. FailsLoad(panel, panel', l)
      BY <1>3, <2>3 DEF FailsLoad, SameView
    <2>7. Moves(panel, panel', l.for, "failed")
      BY <1>3, <2>3 DEF Moves
    <2>8. QED
      BY <1>2, <1>3, <2>1, <2>3, <2>4, <2>5, <2>6, <2>7 DEF FinishesLoad, SameLoads
  <1>6. CASE ~thrown
    <2>1. panel' = Ends(b, l, "ok") /\ l \in b.loads
      BY <1>1, <1>4, <1>6 DEF SameLoads
    <2>2. /\ panel' \in PanelShape /\ SameData(b, panel') /\ SameView(b, panel')
          /\ SameReplies(b, panel')
          /\ panel'.asked = b.asked /\ panel'.loads = b.loads \ {l}
          /\ l.for = 0 => panel'.writes = b.writes /\ panel'.flags = b.flags
          /\ l.for # 0 => Moves(b, panel', l.for, "ok")
          /\ Bookkeeps(b, panel')
      BY <2>1, <1>4, EndsMoves
    <2>3. SameData(panel, panel') /\ SameReplies(panel, panel')
      BY <1>4, <2>2 DEF SameData, SameReplies
    <2>4. Bookkeeps(panel, panel')
      BY <1>4, <2>2 DEF Bookkeeps, SameFlags, SameData
    <2>5. FailsLoad(panel, panel', l)
      BY <1>4, <2>2 DEF FailsLoad, SameView
    <2>6. l.for # 0 => Moves(panel, panel', l.for, "ok")
      BY <1>4, <2>2 DEF Moves
    <2>7. QED
      BY <1>4, <2>2, <2>3, <2>4, <2>5, <2>6 DEF FinishesLoad, SameLoads, SameFlags
  <1>7. QED
    BY <1>5, <1>6

LEMMA StartPanelWriteDoes ==
  ASSUME panel \in PanelShape, NEW w \in Writes, StartPanelWrite(w)
  PROVE  /\ panel' \in PanelShape
         /\ \E op \in panel.kind.ops : SendsWrite(panel, panel', w, op)
         /\ Bookkeeps(panel, panel')
  <1> DEFINE v(op) == [op |-> op, state |-> "asked", has |-> panel.shown]
             W(op) == [panel.writes EXCEPT ![w] = v(op)]
             F(op) == panel.flags \cup ({op.flag} \ {"none"})
             n == IF panel.kind.drops = "stale" THEN panel.asked + 1 ELSE panel.asked
             S(op) == IF op.then = "optimistic" THEN panel.shown \cup {w} ELSE panel.shown
  <1>1. PICK op \in panel.kind.ops :
          /\ MayStart(op)
          /\ panel' = [panel EXCEPT !.writes = W(op), !.flags = F(op), !.asked = n,
                                    !.shown = S(op)]
    BY DEF StartPanelWrite
  <1>2. panel.kind \in AllPanels /\ op \in Ops /\ op.flag \in {"none"} \cup AllFlags
    BY DEF PanelShape, Ops, AllFlags, Flags
  <1>3. /\ W(op) \in [Writes -> PanelWriteShape] /\ W(op)[w] = v(op)
        /\ \A u \in Writes : u # w => W(op)[u] = panel.writes[u]
    <2>1. v(op) \in PanelWriteShape
      BY <1>2 DEF PanelWriteShape, WriteStates, InFlight, PanelShape
    <2> HIDE DEF v
    <2>2. QED
      BY <2>1 DEF PanelShape
  <1>4. F(op) \in SUBSET AllFlags /\ n \in Nat /\ S(op) \in SUBSET Writes
    BY <1>2 DEF PanelShape
  <1>5. v(op).op = op /\ v(op).state = "asked"
    OBVIOUS
  <1>6. /\ F(op) = panel.flags \cup ({op.flag} \ {"none"})
        /\ n = IF panel.kind.drops = "stale" THEN panel.asked + 1 ELSE panel.asked
        /\ op.then # "optimistic" => S(op) = panel.shown
    OBVIOUS
  <1>7. panel.writes[w].state = "unsent"
    BY DEF StartPanelWrite, NoWrite
  <1> HIDE DEF v, W, F, n, S
  <1>8. /\ panel' \in PanelShape /\ SameData(panel, panel') /\ panel'.loaded = panel.loaded
        /\ panel'.broken = panel.broken /\ panel'.shown = S(op) /\ panel'.asked = n
        /\ panel'.loads = panel.loads /\ panel'.flags = F(op) /\ panel'.stuck = panel.stuck
        /\ panel'.polls = panel.polls /\ panel'.writes = W(op)
    BY <1>1, <1>3, <1>4 DEF PanelShape, SameData
  <1>9. SendsWrite(panel, panel', w, op)
    BY <1>1, <1>3, <1>5, <1>6, <1>7, <1>8 DEF SendsWrite, MayStart
  <1>10. Bookkeeps(panel, panel')
    BY <1>6, <1>8 DEF Bookkeeps
  <1>11. QED
    BY <1>8, <1>9, <1>10

LEMMA ApplyWriteDoes ==
  ASSUME panel \in PanelShape, NEW w \in Writes, ApplyWrite(w)
  PROVE  /\ panel' \in PanelShape /\ IsApplied(panel, panel', w)
         /\ Bookkeeps(panel, panel')
  <1>0. panel.writes[w].state = "asked"
    BY DEF ApplyWrite
  <1>1. CASE panel' = [panel EXCEPT !.writes[w].state = "refused"]
    <2>1. /\ panel' \in PanelShape /\ SameData(panel, panel') /\ SameView(panel, panel')
          /\ SameLoads(panel, panel') /\ SameFlags(panel, panel') /\ panel'.polls = panel.polls
          /\ Moves(panel, panel', w, "refused") /\ SameReplies(panel, panel')
      BY <1>1, StateMoves DEF WriteStates, InFlight
    <2>2. QED
      BY <1>0, <2>1 DEF IsApplied, Bookkeeps, SameData, SameFlags
  <1> DEFINE store == panel.store \cup {w}
             has == IF panel.writes[w].op.then = "reply" THEN store ELSE panel.writes[w].has
             v == [panel.writes[w] EXCEPT !.state = "applied", !.has = has]
             W == [panel.writes EXCEPT ![w] = v]
  <1>2. ASSUME panel' = [panel EXCEPT !.store = store, !.writes[w].state = "applied",
                                      !.writes[w].has = has]
        PROVE  /\ panel' \in PanelShape /\ IsApplied(panel, panel', w)
               /\ Bookkeeps(panel, panel')
    <2>1. panel.writes \in [Writes -> PanelWriteShape] /\ panel.writes[w] \in PanelWriteShape
      BY DEF PanelShape
    <2>2. store \in SUBSET Writes /\ has \in SUBSET Writes
      BY <2>1 DEF PanelShape, PanelWriteShape
    <2>3. panel.writes[w].op.then = "reply" => has = store
      OBVIOUS
    <2>4. panel' = [panel EXCEPT !.store = store, !.writes = W]
      BY <1>2, <2>1 DEF PanelShape
    <2> HIDE DEF has
    <2>5. v \in PanelWriteShape /\ v.op = panel.writes[w].op /\ v.state = "applied" /\ v.has = has
      BY <2>1, <2>2 DEF PanelWriteShape, WriteStates, InFlight
    <2> HIDE DEF v
    <2>6. /\ W \in [Writes -> PanelWriteShape] /\ W[w] = v
          /\ \A u \in Writes : u # w => W[u] = panel.writes[u]
      BY <2>1, <2>5
    <2>7. store = panel.store \cup {w}
      OBVIOUS
    <2> HIDE DEF W, store
    <2>8. /\ panel' \in PanelShape /\ panel'.kind = panel.kind
          /\ SameView(panel, panel') /\ SameLoads(panel, panel') /\ SameFlags(panel, panel')
          /\ panel'.polls = panel.polls /\ panel'.writes = W /\ panel'.store = store
      BY <2>2, <2>4, <2>6 DEF PanelShape, SameView, SameLoads, SameFlags
    <2>9. Moves(panel, panel', w, "applied")
      BY <2>5, <2>6, <2>8 DEF Moves
    <2>10. \A u \in Writes : u # w => panel'.writes[u].has = panel.writes[u].has
      BY <2>6, <2>8
    <2>11. panel.writes[w].op.then = "reply" => panel'.writes[w].has = panel'.store
      BY <2>3, <2>5, <2>6, <2>8
    <2>12. QED
      BY <1>0, <2>7, <2>8, <2>9, <2>10, <2>11 DEF IsApplied, Bookkeeps, SameFlags
  <1>3. QED
    BY <1>1, <1>2 DEF ApplyWrite

\* A write is over where the shown writes change with it.
LEMMA SettlesWith ==
  ASSUME panel \in PanelShape, NEW w \in Writes, NEW state \in {"ok", "failed"},
         panel.writes[w].state \in InFlight \ {"reloading"},
         NEW c \in PanelShape, panel' = Settled(c, w, state),
         c.kind = panel.kind, c.store = panel.store, c.loaded = panel.loaded,
         c.broken = panel.broken, SameLoads(panel, c), SameFlags(panel, c),
         c.polls = panel.polls, c.writes = panel.writes,
         panel.writes[w].op.then \in {"reload", "rereads", "leaves", "beside"} =>
             c.shown = panel.shown,
         panel.writes[w].op.then = "reply" =>
             IF state = "ok"
             THEN panel.writes[w].state = "applied" /\ c.shown = panel.writes[w].has
             ELSE c.shown = panel.shown,
         state = "ok" => panel.writes[w].op.then \notin {"reload", "rereads"}
  PROVE  /\ panel' \in PanelShape /\ IsOver(panel, panel', w, state)
         /\ Bookkeeps(panel, panel')
  <1>1. /\ panel' \in PanelShape /\ SameData(c, panel') /\ SameView(c, panel')
        /\ SameLoads(c, panel')
        /\ panel'.polls = c.polls
        /\ panel'.flags = c.flags \ {c.writes[w].op.flag}
        /\ panel'.stuck = c.stuck \ {c.writes[w].op.flag}
        /\ Moves(c, panel', w, state) /\ SameReplies(c, panel')
    BY SettledMoves DEF WriteStates
  <1>2. Moves(panel, panel', w, state) /\ SameReplies(panel, panel')
    BY <1>1 DEF Moves, SameReplies
  <1>3. Bookkeeps(panel, panel')
    BY <1>1 DEF Bookkeeps, SameFlags
  <1>4. panel.flags \ {panel.writes[w].op.flag} \subseteq panel'.flags
    BY <1>1 DEF SameFlags
  <1>5. IsOver(panel, panel', w, state)
    BY <1>1, <1>2, <1>4 DEF IsOver, SameData, SameView, SameLoads
  <1>6. QED
    BY <1>1, <1>3, <1>5

LEMMA RefusedDoes ==
  ASSUME panel \in PanelShape, NEW w \in Writes, Refused(w),
         panel.writes[w].state \in InFlight \ {"reloading"}
  PROVE  /\ panel' \in PanelShape /\ IsOver(panel, panel', w, "failed")
         /\ Bookkeeps(panel, panel')
  <1> DEFINE h == panel.writes[w].has
             c == [panel EXCEPT !.shown = h]
  <1>1. CASE panel.writes[w].op.then # "optimistic"
    <2>1. panel' = Settled(panel, w, "failed")
      BY <1>1 DEF Refused
    <2>2. QED
      BY <2>1, <1>1, SettlesWith DEF SameLoads, SameFlags
  <1>2. CASE panel.writes[w].op.then = "optimistic"
    <2>1. panel' = Settled(c, w, "failed")
      BY <1>2 DEF Refused
    <2>2. h \in SUBSET Writes
      BY DEF PanelShape, PanelWriteShape
    <2> HIDE DEF h
    <2>3. /\ c \in PanelShape /\ SameData(panel, c) /\ c.loaded = panel.loaded
          /\ c.broken = panel.broken /\ SameLoads(panel, c) /\ SameFlags(panel, c)
          /\ c.polls = panel.polls /\ c.writes = panel.writes
      BY <2>2 DEF PanelShape, SameData, SameLoads, SameFlags
    <2> HIDE DEF c
    <2>4. QED
      BY <2>1, <2>3, <1>2, SettlesWith DEF SameData
  <1>3. QED
    BY <1>1, <1>2

LEMMA ThrowsDoes ==
  ASSUME panel \in PanelShape, NEW w \in Writes, panel' = Throws(panel, w),
         panel.writes[w].state \in InFlight \ {"reloading"}
  PROVE  /\ panel' \in PanelShape /\ IsOver(panel, panel', w, "failed")
         /\ Bookkeeps(panel, panel')
  <1>1. /\ panel' \in PanelShape /\ SameData(panel, panel') /\ SameView(panel, panel')
        /\ SameLoads(panel, panel')
        /\ panel'.polls = panel.polls
        /\ panel'.flags = panel.flags
        /\ panel'.stuck = panel.stuck \cup ({panel.writes[w].op.flag} \cap panel.flags)
        /\ Moves(panel, panel', w, "failed") /\ SameReplies(panel, panel')
    BY ThrowsMoves
  <1>2. IsOver(panel, panel', w, "failed")
    BY <1>1 DEF IsOver, SameData, SameView
  <1>3. Bookkeeps(panel, panel')
    BY <1>1 DEF Bookkeeps
  <1>4. QED
    BY <1>1, <1>2, <1>3

\* What is shown is changed before the write ends.
LEMMA ShownMoves ==
  ASSUME NEW p \in PanelShape, NEW shown \in SUBSET Writes
  PROVE  LET q == [p EXCEPT !.shown = shown]
         IN  /\ q \in PanelShape /\ SameData(p, q) /\ SameLoads(p, q) /\ SameFlags(p, q)
             /\ q.loaded = p.loaded /\ q.broken = p.broken
             /\ q.polls = p.polls /\ q.writes = p.writes /\ q.shown = shown
  BY DEF PanelShape, SameData, SameLoads, SameFlags

LEMMA WriteRepliesDoes ==
  ASSUME panel \in PanelShape, NEW w \in Writes, WriteReplies(w)
  PROVE  /\ panel' \in PanelShape
         /\ \/ IsReloaded(panel, panel', w)
            \/ IsFollowed(panel, panel', w)
            \/ IsOver(panel, panel', w, "ok")
         /\ Bookkeeps(panel, panel')
  <1> DEFINE op == panel.writes[w].op
             has == panel.writes[w].has
  <1>0. panel.writes[w].state = "applied"
    BY DEF WriteReplies
  <1>a. panel.writes[w].state \in InFlight \ {"reloading"}
    BY <1>0 DEF InFlight
  <1>b. has \in SUBSET Writes /\ panel.shown \in SUBSET Writes
    BY DEF PanelShape, PanelWriteShape
  <1>1. CASE op.then \in {"reload", "rereads"}
    <2> DEFINE c == [panel EXCEPT !.writes[w].state = "reloading"]
    <2>1. panel' = Load(c, w)
      BY <1>1 DEF WriteReplies
    <2>2. /\ c \in PanelShape /\ SameData(panel, c) /\ SameView(panel, c) /\ SameLoads(panel, c)
          /\ SameFlags(panel, c) /\ c.polls = panel.polls
          /\ Moves(panel, c, w, "reloading") /\ SameReplies(panel, c)
      BY StateMoves DEF WriteStates, InFlight
    <2> HIDE DEF c
    <2>3. w \in 0 .. MaxWrites
      BY DEF Writes
    <2>4. /\ panel' \in PanelShape /\ SameData(c, panel') /\ SameView(c, panel')
          /\ Asks(c, panel', w) /\ SameFlags(c, panel') /\ panel'.polls = c.polls
          /\ panel'.writes = c.writes
      BY <2>1, <2>2, <2>3, LoadMoves
    <2>5. /\ SameData(panel, panel') /\ SameView(panel, panel') /\ Asks(panel, panel', w)
          /\ panel'.flags = panel.flags
      BY <2>2, <2>4 DEF SameData, SameView, Asks, SameLoads, SameFlags
    <2>6. Moves(panel, panel', w, "reloading") /\ SameReplies(panel, panel')
      BY <2>2, <2>4 DEF Moves, SameReplies
    <2>7. Bookkeeps(panel, panel')
      BY <2>2, <2>4 DEF Bookkeeps, SameFlags
    <2>8. QED
      BY <1>0, <1>1, <2>4, <2>5, <2>6, <2>7 DEF IsReloaded
  <1>2. CASE op.then = "follows"
    <2>1. panel' = [panel EXCEPT !.writes[w].state = "following"]
      BY <1>2 DEF WriteReplies
    <2>2. /\ panel' \in PanelShape /\ SameData(panel, panel') /\ SameView(panel, panel')
          /\ SameLoads(panel, panel') /\ SameFlags(panel, panel')
          /\ panel'.polls = panel.polls
          /\ Moves(panel, panel', w, "following") /\ SameReplies(panel, panel')
      BY <2>1, StateMoves DEF WriteStates, InFlight
    <2>3. QED
      BY <1>0, <1>2, <2>2 DEF IsFollowed, Bookkeeps, SameFlags
  <1>3. ASSUME NEW shown \in SUBSET Writes,
               panel' = Settled([panel EXCEPT !.shown = shown], w, "ok"),
               op.then \in {"reply", "adds", "overlays"},
               op.then = "reply" => shown = has
        PROVE  /\ panel' \in PanelShape /\ IsOver(panel, panel', w, "ok")
               /\ Bookkeeps(panel, panel')
    <2> DEFINE c == [panel EXCEPT !.shown = shown]
    <2>1. /\ c \in PanelShape /\ SameData(panel, c) /\ SameLoads(panel, c)
          /\ SameFlags(panel, c) /\ c.loaded = panel.loaded /\ c.broken = panel.broken
          /\ c.polls = panel.polls /\ c.writes = panel.writes /\ c.shown = shown
      BY ShownMoves
    <2>2. panel' = Settled(c, w, "ok")
      BY <1>3
    <2> HIDE DEF c
    <2>3. QED
      BY <1>0, <1>a, <1>3, <2>1, <2>2, SettlesWith DEF SameData
  <1>4. CASE op.then = "reply"
    <2>1. panel' = Settled([panel EXCEPT !.shown = has], w, "ok")
      BY <1>4 DEF WriteReplies
    <2>2. QED
      BY <2>1, <1>3, <1>4, <1>b
  <1>5. CASE op.then = "adds"
    <2> DEFINE shown == panel.shown \cup {w}
    <2>1. panel' = Settled([panel EXCEPT !.shown = shown], w, "ok")
      BY <1>5 DEF WriteReplies
    <2>2. shown \in SUBSET Writes
      BY <1>b
    <2> HIDE DEF shown
    <2>3. QED
      BY <2>1, <2>2, <1>3, <1>5
  <1>6. CASE op.then = "overlays"
    <2> DEFINE shown == has \cup {w}
    <2>1. panel' = Settled([panel EXCEPT !.shown = shown], w, "ok")
      BY <1>6 DEF WriteReplies
    <2>2. shown \in SUBSET Writes
      BY <1>b
    <2> HIDE DEF shown
    <2>3. QED
      BY <2>1, <2>2, <1>3, <1>6
  <1>7. CASE op.then = "leaves"
    <2> DEFINE c == [panel EXCEPT !.writes[w].state = "ok"]
    <2>1. panel' = Sticks(c, w)
      BY <1>7 DEF WriteReplies
    <2>2. /\ c \in PanelShape /\ SameData(panel, c) /\ SameView(panel, c) /\ SameLoads(panel, c)
          /\ SameFlags(panel, c) /\ c.polls = panel.polls
          /\ Moves(panel, c, w, "ok") /\ SameReplies(panel, c)
      BY StateMoves DEF WriteStates
    <2> HIDE DEF c
    <2>3. /\ panel' \in PanelShape /\ SameData(c, panel') /\ SameView(c, panel')
          /\ SameLoads(c, panel') /\ panel'.polls = c.polls /\ panel'.writes = c.writes
          /\ panel'.flags = c.flags
          /\ panel'.stuck = c.stuck \cup ({c.writes[w].op.flag} \cap c.flags)
      BY <2>1, <2>2, SticksMoves
    <2>4. Moves(panel, panel', w, "ok") /\ SameReplies(panel, panel')
      BY <2>2, <2>3 DEF Moves, SameReplies
    <2>5. IsOver(panel, panel', w, "ok")
      BY <1>a, <1>7, <2>2, <2>3, <2>4 DEF IsOver, SameData, SameView, SameLoads, SameFlags
    <2>6. Bookkeeps(panel, panel')
      BY <2>2, <2>3 DEF Bookkeeps, SameFlags
    <2>7. QED
      BY <2>3, <2>5, <2>6
  <1>8. CASE op.then \notin {"reload", "rereads", "follows", "reply", "adds", "overlays",
                             "leaves"}
    <2>1. panel' = Settled(panel, w, "ok")
      BY <1>8 DEF WriteReplies
    <2>2. QED
      BY <1>a, <1>8, <2>1, SettlesWith DEF SameLoads, SameFlags
  <1>9. QED
    BY <1>1, <1>2, <1>4, <1>5, <1>6, <1>7, <1>8

LEMMA WorkHasEndedDoes ==
  ASSUME panel \in PanelShape, PanelInv(panel), NEW w \in Writes, WorkHasEnded(w)
  PROVE  /\ panel' \in PanelShape /\ Bookkeeps(panel, panel')
         /\ \E state \in {"ok", "failed"} : IsOver(panel, panel', w, state)
  <1>1. panel.writes[w].state = "following"
    BY DEF WorkHasEnded
  <1>2. panel.writes[w].op.then = "follows"
    BY <1>1 DEF PanelInv, PanelWritesInv, At
  <1>3. PICK state \in {"ok", "failed"} : panel' = Settled(panel, w, state)
    BY DEF WorkHasEnded
  <1>4. /\ panel' \in PanelShape /\ IsOver(panel, panel', w, state)
        /\ Bookkeeps(panel, panel')
    BY <1>1, <1>2, <1>3, SettlesWith DEF SameLoads, SameFlags, InFlight
  <1>5. QED
    BY <1>4

\* A step of a panel keeps its invariant.
LEMMA WritesProceed ==
  ASSUME panel \in PanelShape, PanelInv(panel), NEW w \in Writes,
         \/ ApplyWrite(w) \/ WriteReplies(w) \/ WriteIsRefused(w)
         \/ WriteIsLost(w) \/ WorkHasEnded(w)
  PROVE  /\ panel' \in PanelShape /\ PanelInv(panel') /\ Bookkeeps(panel, panel')
         /\ \/ IsApplied(panel, panel', w) \/ IsReloaded(panel, panel', w)
            \/ IsFollowed(panel, panel', w)
            \/ \E state \in {"ok", "failed"} : IsOver(panel, panel', w, state)
  <1>1. CASE ApplyWrite(w)
    BY <1>1, ApplyWriteDoes, IsAppliedKeeps
  <1>2. CASE WriteReplies(w)
    BY <1>2, WriteRepliesDoes, IsReloadedKeeps, IsFollowedKeeps, IsOverKeeps
  <1>3. CASE WriteIsRefused(w)
    BY <1>3, RefusedDoes, IsOverKeeps DEF WriteIsRefused, InFlight
  <1>4. CASE WriteIsLost(w)
    <2>1. panel.writes[w].state \in InFlight \ {"reloading"}
      BY <1>4 DEF WriteIsLost, InFlight
    <2>2. Refused(w) \/ panel' = Throws(panel, w)
      BY <1>4 DEF WriteIsLost
    <2>3. QED
      BY <2>1, <2>2, RefusedDoes, ThrowsDoes, IsOverKeeps
  <1>5. CASE WorkHasEnded(w)
    BY <1>5, WorkHasEndedDoes, IsOverKeeps
  <1>6. QED
    BY <1>1, <1>2, <1>3, <1>4, <1>5

LEMMA LoadsProceed ==
  ASSUME panel \in PanelShape, PanelInv(panel), NEW l \in panel.loads,
         AnswerPanel(l) \/ ReadsAgain(l) \/ LoadEnds(l) \/ PanelLoadFails(l)
  PROVE  /\ panel' \in PanelShape /\ PanelInv(panel') /\ Bookkeeps(panel, panel')
         /\ GetsAnswer(panel, panel', l) \/ FinishesLoad(panel, panel', l)
  BY AnswerPanelDoes, LoadEndsDoes, PanelLoadFailsDoes, GetsAnswerKeeps, FinishesLoadKeeps

\* Everything the instance bounds. A panel loads once by itself, as often as the user or a
\* timer asks for it, when a write is sent (or its loads are superseded then), and once for
\* a write that was told to have succeeded.
PanelBounds(p) ==
    /\ p.flags \subseteq Flags(p.kind) /\ p.stuck \subseteq p.flags
    /\ p.polls \in 0 .. MaxLoads
    /\ \A l \in p.loads : l.n \in 1 .. p.asked
    /\ p.asked <= 1 + p.polls + Cardinality(Writes \ At(p, {"unsent"}))
                      + Cardinality(At(p, {"reloading", "ok", "failed"}))

LEMMA FewWrites ==
  ASSUME NEW S \in SUBSET Writes
  PROVE  /\ IsFiniteSet(S) /\ Cardinality(S) \in 0 .. MaxWrites
         /\ \A T \in SUBSET S : Cardinality(T) \in Nat /\ Cardinality(T) <= Cardinality(S)
         /\ \A w \in Writes \ S : Cardinality(S \cup {w}) = Cardinality(S) + 1
  <1>1. IsFiniteSet(Writes) /\ Cardinality(Writes) = MaxWrites
    BY FS_Interval DEF Writes
  <1>2. IsFiniteSet(S) /\ Cardinality(S) <= MaxWrites
    BY <1>1, FS_Subset
  <1>3. Cardinality(S) \in Nat
    BY <1>2, FS_CardinalityType
  <1>4. ASSUME NEW T \in SUBSET S
        PROVE  Cardinality(T) \in Nat /\ Cardinality(T) <= Cardinality(S)
    BY <1>2, FS_Subset, FS_CardinalityType
  <1>5. ASSUME NEW w \in Writes \ S
        PROVE  Cardinality(S \cup {w}) = Cardinality(S) + 1
    BY <1>2, <1>5, FS_AddElement
  <1>6. QED
    BY <1>2, <1>3, <1>4, <1>5

LEMMA FlagsBounded ==
  ASSUME NEW p \in PanelShape, NEW q \in PanelShape, PanelBounds(p), Bookkeeps(p, q),
         q.kind = p.kind
  PROVE  /\ q.flags \subseteq Flags(q.kind) /\ q.stuck \subseteq q.flags
         /\ q.polls = p.polls /\ q.polls \in 0 .. MaxLoads
  BY DEF PanelBounds, Bookkeeps, SameFlags, Flags

\* The numbers of the writes that were sent, and of those that were heard of.
LEMMA AskedBounded ==
  ASSUME NEW p \in PanelShape, NEW q \in PanelShape, PanelBounds(p),
         NEW n \in Nat, q.polls = p.polls + n,
         NEW sent \in SUBSET Writes, sent = Writes \ At(p, {"unsent"}),
         NEW heard \in SUBSET Writes, heard = At(p, {"reloading", "ok", "failed"}),
         NEW sent2 \in SUBSET Writes, sent2 = Writes \ At(q, {"unsent"}),
         NEW heard2 \in SUBSET Writes, heard2 = At(q, {"reloading", "ok", "failed"}),
         sent \subseteq sent2, heard \subseteq heard2,
         \/ q.asked = p.asked
         \/ /\ q.asked = p.asked + 1
            /\ \/ n = 1
               \/ \E w \in Writes \ sent : sent2 = sent \cup {w}
               \/ \E w \in Writes \ heard : heard2 = heard \cup {w}
  PROVE  q.asked <= 1 + q.polls + Cardinality(sent2) + Cardinality(heard2)
  <1>1. p.asked \in Nat /\ q.asked \in Nat /\ p.polls \in Nat
    BY DEF PanelShape
  <1>2. p.asked <= 1 + p.polls + Cardinality(sent) + Cardinality(heard)
    BY DEF PanelBounds
  <1>3. /\ Cardinality(sent) \in Nat /\ Cardinality(sent2) \in Nat
        /\ Cardinality(heard) \in Nat /\ Cardinality(heard2) \in Nat
        /\ Cardinality(sent) <= Cardinality(sent2)
        /\ Cardinality(heard) <= Cardinality(heard2)
    BY FewWrites
  <1>4. CASE q.asked = p.asked
    BY <1>1, <1>2, <1>3, <1>4
  <1>5. CASE q.asked = p.asked + 1 /\ n = 1
    BY <1>1, <1>2, <1>3, <1>5
  <1>6. CASE q.asked = p.asked + 1 /\ \E w \in Writes \ sent : sent2 = sent \cup {w}
    <2>1. Cardinality(sent2) = Cardinality(sent) + 1
      BY <1>6, FewWrites
    <2>2. QED
      BY <1>1, <1>2, <1>3, <1>6, <2>1
  <1>7. CASE q.asked = p.asked + 1 /\ \E w \in Writes \ heard : heard2 = heard \cup {w}
    <2>1. Cardinality(heard2) = Cardinality(heard) + 1
      BY <1>7, FewWrites
    <2>2. QED
      BY <1>1, <1>2, <1>3, <1>7, <2>1
  <1>8. QED
    BY <1>4, <1>5, <1>6, <1>7

\* A write that moves on was sent, and is not forgotten.
LEMMA MovesOn ==
  ASSUME NEW p \in PanelShape, NEW q \in PanelShape, NEW w \in Writes,
         NEW state \in WriteStates \ {"unsent"}, Moves(p, q, w, state),
         p.writes[w].state # "unsent",
         p.writes[w].state \in {"reloading", "ok", "failed"} => state \in {"ok", "failed"}
  PROVE  /\ At(q, {"unsent"}) = At(p, {"unsent"})
         /\ At(p, {"reloading", "ok", "failed"}) \subseteq At(q, {"reloading", "ok", "failed"})
  BY DEF Moves, At

LEMMA BoundsKept ==
  ASSUME NEW p \in PanelShape, NEW q \in PanelShape, PanelInv(p), PanelBounds(p),
         Bookkeeps(p, q),
         \/ \E l \in p.loads : GetsAnswer(p, q, l) \/ FinishesLoad(p, q, l)
         \/ \E w \in Writes :
               \/ IsApplied(p, q, w) \/ IsReloaded(p, q, w) \/ IsFollowed(p, q, w)
               \/ \E state \in {"ok", "failed"} : IsOver(p, q, w, state)
               \/ \E op \in p.kind.ops : SendsWrite(p, q, w, op)
  PROVE  PanelBounds(q)
  <1> DEFINE sent == Writes \ At(p, {"unsent"})
             sent2 == Writes \ At(q, {"unsent"})
             heard == At(p, {"reloading", "ok", "failed"})
             heard2 == At(q, {"reloading", "ok", "failed"})
             More == \/ \E w \in Writes \ sent : sent2 = sent \cup {w}
                     \/ \E w \in Writes \ heard : heard2 = heard \cup {w}
             Goal == /\ q.kind = p.kind /\ \A l \in q.loads : l.n \in 1 .. q.asked
                     /\ sent \subseteq sent2 /\ heard \subseteq heard2
                     /\ q.asked = p.asked \/ (q.asked = p.asked + 1 /\ More)
  <1>1. /\ p.asked \in Nat /\ \A l \in p.loads : l.n \in 1 .. p.asked
        /\ \A l \in p.loads : l.for # 0 =>
              l.for \in Writes /\ p.writes[l.for].state = "reloading"
    BY DEF PanelShape, PanelLoadShape, PanelBounds, PanelInv, PanelLoadsInv, Writes
  <1>2. ASSUME NEW l \in p.loads, GetsAnswer(p, q, l) PROVE Goal
    BY <1>1, <1>2 DEF GetsAnswer, SameData, At
  <1>3. ASSUME NEW l \in p.loads, FinishesLoad(p, q, l) PROVE Goal
    <2>1. q.kind = p.kind /\ q.asked = p.asked /\ \A k \in q.loads : k.n \in 1 .. q.asked
      BY <1>1, <1>3 DEF FinishesLoad, SameData
    <2>2. CASE l.for = 0
      BY <1>3, <2>1, <2>2 DEF FinishesLoad, At
    <2>3. CASE l.for # 0
      <3>1. PICK state \in {"ok", "failed"} : Moves(p, q, l.for, state)
        BY <1>3, <2>3 DEF FinishesLoad
      <3>2. sent2 = sent /\ heard \subseteq heard2
        BY <1>1, <2>3, <3>1, MovesOn DEF WriteStates
      <3>3. QED
        BY <2>1, <3>2
    <2>4. QED
      BY <2>2, <2>3
  <1>4. ASSUME NEW w \in Writes, IsApplied(p, q, w) PROVE Goal
    <2>1. /\ q.kind = p.kind /\ q.asked = p.asked /\ q.loads = p.loads
          /\ p.writes[w].state = "asked"
      BY <1>4 DEF IsApplied, SameLoads
    <2>2. PICK state \in {"refused", "applied"} : Moves(p, q, w, state)
      BY <1>4 DEF IsApplied
    <2>3. sent2 = sent /\ heard \subseteq heard2
      BY <2>1, <2>2, MovesOn DEF WriteStates, InFlight
    <2>4. QED
      BY <1>1, <2>1, <2>3
  <1>5. ASSUME NEW w \in Writes, IsReloaded(p, q, w) PROVE Goal
    <2>1. /\ q.kind = p.kind /\ p.writes[w].state = "applied" /\ Moves(p, q, w, "reloading")
          /\ q.asked = p.asked + 1 /\ q.loads = p.loads \cup {Asking(p.asked + 1, w)}
      BY <1>5 DEF IsReloaded, SameData, Asks
    <2>2. sent2 = sent /\ heard \subseteq heard2
      BY <2>1, MovesOn DEF WriteStates, InFlight
    <2>3. w \in Writes \ heard /\ heard2 = heard \cup {w}
      BY <2>1 DEF At, Moves
    <2>4. \A l \in q.loads : l.n \in 1 .. q.asked
      BY <1>1, <2>1 DEF Asking
    <2>5. QED
      BY <2>1, <2>2, <2>3, <2>4
  <1>6. ASSUME NEW w \in Writes, IsFollowed(p, q, w) PROVE Goal
    <2>1. /\ q.kind = p.kind /\ q.asked = p.asked /\ q.loads = p.loads
          /\ p.writes[w].state = "applied" /\ Moves(p, q, w, "following")
      BY <1>6 DEF IsFollowed, SameData, SameLoads
    <2>2. sent2 = sent /\ heard \subseteq heard2
      BY <2>1, MovesOn DEF WriteStates, InFlight
    <2>3. QED
      BY <1>1, <2>1, <2>2
  <1>7. ASSUME NEW w \in Writes, NEW state \in {"ok", "failed"}, IsOver(p, q, w, state)
        PROVE  Goal
    <2>1. /\ q.kind = p.kind /\ q.asked = p.asked /\ q.loads = p.loads
          /\ p.writes[w].state \in InFlight /\ Moves(p, q, w, state)
      BY <1>7 DEF IsOver, SameLoads
    <2>2. sent2 = sent /\ heard \subseteq heard2
      BY <2>1, MovesOn DEF WriteStates, InFlight
    <2>3. QED
      BY <1>1, <2>1, <2>2
  <1>8. ASSUME NEW w \in Writes, NEW op \in p.kind.ops, SendsWrite(p, q, w, op)
        PROVE  Goal
    <2>1. /\ q.kind = p.kind /\ q.loads = p.loads
          /\ q.asked = p.asked \/ q.asked = p.asked + 1
          /\ p.writes[w].state = "unsent" /\ q.writes[w].state = "asked"
          /\ \A v \in Writes : v # w => q.writes[v] = p.writes[v]
      BY <1>8 DEF SendsWrite, SameData
    <2>2. w \in Writes \ sent /\ sent2 = sent \cup {w} /\ heard2 = heard
      BY <2>1 DEF At
    <2>3. \A l \in q.loads : l.n \in 1 .. q.asked
      BY <1>1, <2>1
    <2>4. QED
      BY <2>1, <2>2, <2>3
  <1>9. Goal
    BY <1>2, <1>3, <1>4, <1>5, <1>6, <1>7, <1>8
  <1>10. /\ q.flags \subseteq Flags(q.kind) /\ q.stuck \subseteq q.flags
         /\ q.polls = p.polls /\ q.polls \in 0 .. MaxLoads
    BY <1>9, FlagsBounded
  <1>11. sent \in SUBSET Writes /\ sent2 \in SUBSET Writes /\ heard \in SUBSET Writes
         /\ heard2 \in SUBSET Writes
    BY DEF At
  <1>12. q.polls = p.polls + 0
    BY <1>10
  <1>13. q.asked <= 1 + q.polls + Cardinality(sent2) + Cardinality(heard2)
    BY <1>9, <1>11, <1>12, AskedBounded
  <1>14. QED
    BY <1>9, <1>10, <1>13 DEF PanelBounds

LEMMA BoundsKeptByLoad ==
  ASSUME NEW p \in PanelShape, NEW q \in PanelShape, PanelBounds(p), LoadsAgain(p, q),
         SameFlags(p, q), p.polls < MaxLoads, q.polls = p.polls + 1
  PROVE  PanelBounds(q)
  <1> DEFINE sent(r) == Writes \ At(r, {"unsent"})
             heard(r) == At(r, {"reloading", "ok", "failed"})
  <1>1. /\ q.kind = p.kind /\ q.flags = p.flags /\ q.stuck = p.stuck /\ q.writes = p.writes
        /\ q.asked = p.asked + 1 /\ q.loads = p.loads \cup {Asking(p.asked + 1, 0)}
    BY DEF LoadsAgain, SameData, Asks, SameFlags
  <1>2. p.asked \in Nat /\ p.polls \in Nat
    BY DEF PanelShape
  <1>3. \A l \in q.loads : l.n \in 1 .. q.asked
    BY <1>1, <1>2 DEF PanelBounds, Asking
  <1>4. sent(q) = sent(p) /\ heard(q) = heard(p)
    BY <1>1 DEF At
  <1>5. sent(p) \in SUBSET Writes /\ heard(p) \in SUBSET Writes
    BY DEF At
  <1>6. q.asked <= 1 + q.polls + Cardinality(sent(q)) + Cardinality(heard(q))
    BY <1>1, <1>4, <1>5, AskedBounded
  <1>7. q.polls \in 0 .. MaxLoads
    BY <1>2
  <1>8. QED
    BY <1>1, <1>3, <1>6, <1>7 DEF PanelBounds

LEMMA PanelStepKeeps ==
  ASSUME panel \in PanelShape, PanelInv(panel), PanelBounds(panel), [PanelsNext]_panel
  PROVE  panel' \in PanelShape /\ PanelInv(panel') /\ PanelBounds(panel')
  <1>1. CASE PanelsProgress
    <2>1. CASE \E l \in panel.loads : \/ AnswerPanel(l) \/ ReadsAgain(l)
                                      \/ LoadEnds(l) \/ PanelLoadFails(l)
      BY <2>1, LoadsProceed, BoundsKept
    <2>2. CASE \E w \in Writes : \/ ApplyWrite(w) \/ WriteReplies(w) \/ WriteIsRefused(w)
                                 \/ WriteIsLost(w) \/ WorkHasEnded(w)
      BY <2>2, WritesProceed, BoundsKept
    <2>3. QED
      BY <1>1, <2>1, <2>2 DEF PanelsProgress
  <1>2. CASE LoadPanel
    BY <1>2, LoadPanelDoes, LoadsAgainKeeps, BoundsKeptByLoad
  <1>3. ASSUME NEW w \in Writes, StartPanelWrite(w)
        PROVE  panel' \in PanelShape /\ PanelInv(panel') /\ PanelBounds(panel')
    BY <1>3, StartPanelWriteDoes, SendsWriteKeeps, BoundsKept
  <1>4. CASE UNCHANGED panel
    BY <1>4
  <1>5. QED
    BY <1>1, <1>2, <1>3, <1>4 DEF PanelsNext

LEMMA PanelStarts ==
  ASSUME PanelsInit
  PROVE  panel \in PanelShape /\ PanelInv(panel) /\ PanelBounds(panel)
  <1> DEFINE W == [w \in Writes |-> NoWrite]
             n(kind) == IF kind.loads \in {"never", "asked"} THEN 0 ELSE 1
             L(kind) == IF kind.loads \in {"never", "asked"} THEN {} ELSE {Asking(1, 0)}
  <1>1. PICK kind \in AllPanels :
          panel = [kind |-> kind, store |-> {}, shown |-> {}, loaded |-> FALSE,
                   ended |-> FALSE, broken |-> FALSE, flags |-> {},
                   stuck |-> {}, asked |-> n(kind), loads |-> L(kind), polls |-> 0,
                   writes |-> W]
    BY DEF PanelsInit
  <1>2. NoWrite \in PanelWriteShape /\ NoWrite.state = "unsent"
    BY DEF NoWrite, PanelWriteShape, WriteStates, Ops
  <1>3. W \in [Writes -> PanelWriteShape] /\ \A w \in Writes : W[w].state = "unsent"
    BY <1>2
  <1>4. Asking(1, 0) \in PanelLoadShape /\ Asking(1, 0).n = 1 /\ Asking(1, 0).for = 0
        /\ Asking(1, 0).state = "asked"
    BY DEF Asking, PanelLoadShape, MaxReads
  <1>5. /\ n(kind) \in {0, 1} /\ L(kind) \in SUBSET PanelLoadShape
        /\ \A l \in L(kind) : l = Asking(1, 0) /\ n(kind) = 1
    BY <1>4
  <1> HIDE DEF W, n, L
  <1>6. /\ panel \in PanelShape /\ panel.kind = kind
        /\ panel.asked = n(kind) /\ panel.loads = L(kind) /\ panel.writes = W
        /\ panel.store = {} /\ panel.shown = {} /\ panel.flags = {}
        /\ panel.stuck = {} /\ panel.polls = 0 /\ panel.loaded = FALSE
    BY <1>1, <1>3, <1>5 DEF PanelShape
  <1>7. /\ \A l \in panel.loads : /\ l.n = 1 /\ l.n = panel.asked /\ l.for = 0
                                  /\ l.state = "asked" /\ l = Asking(1, 0)
        /\ \A w \in Writes : panel.writes[w].state = "unsent"
    BY <1>3, <1>4, <1>5, <1>6
  <1>8. \A states : "unsent" \notin states => At(panel, states) = {}
    BY <1>7 DEF At
  <1>9. Reloaded(panel) = {} /\ At(panel, {"unsent"}) = Writes
    BY <1>7, <1>8 DEF Reloaded, At
  <1>10. PanelWritesInv(panel) /\ PanelLoadsInv(panel)
    BY <1>5, <1>6, <1>7, <1>8, <1>9 DEF PanelWritesInv, PanelLoadsInv
  <1>11. SerialInv(panel)
    BY <1>7 DEF SerialInv, Changing, At, InFlight
  <1>12. OnceInv(panel)
    BY <1>6, <1>7, <1>9 DEF OnceInv
  <1>13. ReloadInv(panel)
    BY <1>6, <1>7, <1>9 DEF ReloadInv
  <1>14. ReplyInv(panel)
    BY <1>7 DEF ReplyInv, Replied, At
  <1>15. PanelBounds(panel)
    <2>1. Writes \ At(panel, {"unsent"}) = {} /\ At(panel, {"reloading", "ok", "failed"}) = {}
      BY <1>8, <1>9
    <2>2. Cardinality({}) = 0
      BY FS_EmptySet
    <2>3. \A l \in panel.loads : l.n \in 1 .. panel.asked
      BY <1>7
    <2>4. panel.asked <= 1 + panel.polls + Cardinality(Writes \ At(panel, {"unsent"}))
                           + Cardinality(At(panel, {"reloading", "ok", "failed"}))
      BY <1>5, <1>6, <2>1, <2>2
    <2>5. /\ panel.flags \subseteq Flags(panel.kind) /\ panel.stuck \subseteq panel.flags
          /\ panel.polls \in 0 .. MaxLoads
      BY <1>6
    <2>6. QED
      BY <2>3, <2>4, <2>5 DEF PanelBounds
  <1>16. QED
    BY <1>6, <1>10, <1>11, <1>12, <1>13, <1>14, <1>15 DEF PanelInv

\* How each of the panels in order comes by its order.
LEMMA OrderlyPanels ==
  ASSUME NEW kind \in InOrder
  PROVE  Reloading(kind) \/ Replying(kind)
  <1> USE DEF Panel, PanelOfParts, Edits, Starts, Op
  <1> USE DEF Reloading, Replying, Serial, Once, Flags
  <1>1. Reloading(calendarPage)
    BY DEF calendarPage
  <1>2. Reloading(MemoryPanel)
    BY DEF MemoryPanel
  <1>3. Replying(RetentionPolicyPanel)
    <2>1. \A op \in RetentionPolicyPanel.ops :
             \/ op = Edits("saving", "reply") \/ op = Edits("cleanupState", "beside")
      BY DEF RetentionPolicyPanel
    <2>2. "saving" \in Flags(RetentionPolicyPanel)
      BY DEF RetentionPolicyPanel
    <2>3. Serial(RetentionPolicyPanel)
      BY <2>1, <2>2
    <2>4. Once(RetentionPolicyPanel)
      BY <2>1 DEF RetentionPolicyPanel
    <2>5. \A op \in RetentionPolicyPanel.ops : op.then \in {"reply", "beside"}
      BY <2>1
    <2> HIDE DEF Serial, Once
    <2>6. QED
      BY <2>3, <2>4, <2>5
  <1>4. Reloading(ActiveSessionsPanel)
    BY DEF ActiveSessionsPanel
  <1> HIDE DEF Reloading, Replying
  <1>5. QED
    BY <1>1, <1>2, <1>3, <1>4 DEF InOrder

LEMMA PanelShows == PanelInv(panel) => SavedIsShown
  <1> SUFFICES ASSUME PanelInv(panel), panel.kind \in InOrder, ~panel.broken,
                      panel.loads = {}, NEW w \in Writes, panel.writes[w].state = "ok",
                      panel.writes[w].op.then \in {"reload", "reply"}
               PROVE  w \in panel.shown
    BY DEF SavedIsShown
  <1>1. w \in At(panel, {"ok"}) /\ panel.writes[w].op \in panel.kind.ops
    BY DEF At, PanelInv, PanelWritesInv
  <1>2. CASE Reloading(panel.kind)
    <2>1. w \in Reloaded(panel)
      BY <1>1, <1>2 DEF Reloading, Reloaded, At
    <2>2. QED
      BY <1>2, <2>1 DEF PanelInv, ReloadInv
  <1>3. CASE Replying(panel.kind)
    <2>1. w \in Replied(panel, {"ok"})
      BY <1>1, <1>3 DEF Replying, Replied
    <2>2. QED
      BY <1>3, <2>1 DEF PanelInv, ReplyInv
  <1>4. QED
    BY <1>2, <1>3, OrderlyPanels

LEMMA PanelTyped == panel \in PanelShape /\ PanelBounds(panel) => PanelsTypeOK
  <1> SUFFICES ASSUME panel \in PanelShape, PanelBounds(panel) PROVE PanelsTypeOK
    OBVIOUS
  <1>1. /\ Cardinality(Writes \ At(panel, {"unsent"})) \in 0 .. MaxWrites
        /\ Cardinality(At(panel, {"reloading", "ok", "failed"})) \in 0 .. MaxWrites
    BY FewWrites DEF At
  <1>2. panel.asked \in 0 .. 1 + MaxLoads + 2 * MaxWrites
    BY <1>1 DEF PanelBounds, PanelShape
  <1>3. /\ panel.kind \in AllPanels
        /\ panel.store \subseteq Writes /\ panel.shown \subseteq Writes
        /\ panel.loaded \in BOOLEAN /\ panel.ended \in BOOLEAN /\ panel.broken \in BOOLEAN
    BY DEF PanelShape
  <1>4. \A l \in panel.loads : /\ l.n \in 1 .. panel.asked
                               /\ l.state \in {"asked", "answered"} /\ l.for \in 0 .. MaxWrites
                               /\ l.reads \in 1 .. MaxReads
    BY DEF PanelShape, PanelLoadShape, PanelBounds
  <1>5. \A w \in Writes : panel.writes[w].state \in WriteStates
    BY DEF PanelShape, PanelWriteShape
  <1>6. QED
    BY <1>2, <1>3, <1>4, <1>5 DEF PanelsTypeOK, PanelBounds, WriteStates, InFlight

-------------------------------------------------------------------------------
-------------------------------------------------------------------------------
(* The route handlers. *)

GuardNames == {"session", "csrf", "input", "parse"}
HasGuard(guards, name) == \E i \in DOMAIN guards : guards[i] = name

\* How the reply of an empty acknowledgement may become an answer, and that of any other.
EmptyAnswers == {"accepts", "relays", "acknowledges", "streams", "acknowledgesOrParses"}
AnswerKinds ==
    EmptyAnswers \cup {"always", "parses", "copies", "strictOrRelays", "strict", "checks",
                       "lists", "redirects"}

RoleHandlers == {rbacUserRolesPut, rbacUserEnabledPut, rbacRoleDelete}

\* What the properties need of a handler: it changes something only behind the session
\* and the CSRF header (or, where the browser comes back from an authorisation, behind
\* the code and state of the flow); it calls a failure a success only where nothing is
\* changed; and it does not parse an empty acknowledgement.
SoundHandler(h) ==
    /\ h.guards \in Seq(GuardNames)
    /\ h.answers \in AnswerKinds
    /\ h.answers = "always" => h.effect \in {"none", "read"}
    /\ h.acknowledges = "empty" => h.answers \in EmptyAnswers \/ h \in RoleHandlers
    /\ h.effect \notin {"none", "read"} /\ h \notin PublicHandlers =>
          /\ HasGuard(h.guards, "session")
          /\ HasGuard(h.guards, IF h.answers = "redirects" THEN "input" ELSE "csrf")

\* The orders of guards, and those that check the session and the CSRF header.
ReadGuards ==
    {<< >>, <<"session">>, <<"session", "input">>, <<"input", "session">>}
WriteGuards ==
    {<<"session", "csrf">>, <<"session", "csrf", "input">>, <<"csrf", "session">>,
     <<"csrf", "session", "input">>, <<"input", "csrf", "session">>,
     <<"session", "input", "csrf", "input">>}

LEMMA GuardsAreNames ==
  /\ \A g \in ReadGuards : g \in Seq(GuardNames)
  /\ \A g \in WriteGuards :
        g \in Seq(GuardNames) /\ HasGuard(g, "session") /\ HasGuard(g, "csrf")
  <1>1. << >> \in Seq(GuardNames) /\ <<"session">> \in Seq(GuardNames)
    BY DEF GuardNames
  <1>2. <<"session", "input">> \in Seq(GuardNames) /\ <<"input", "session">> \in Seq(GuardNames)
    BY DEF GuardNames
  <1>3. <<"session", "csrf">> \in Seq(GuardNames) /\ <<"csrf", "session">> \in Seq(GuardNames)
    BY DEF GuardNames
  <1>4. /\ <<"session", "csrf", "input">> \in Seq(GuardNames)
        /\ <<"csrf", "session", "input">> \in Seq(GuardNames)
        /\ <<"input", "csrf", "session">> \in Seq(GuardNames)
    BY DEF GuardNames
  <1>5. <<"session", "input", "csrf", "input">> \in Seq(GuardNames)
    BY DEF GuardNames
  <1>6. \A g \in WriteGuards : HasGuard(g, "session") /\ HasGuard(g, "csrf")
    <2>1. \A g : /\ g = <<"session", "csrf">> =>
                        g[1] = "session" /\ g[2] = "csrf" /\ {1, 2} \subseteq DOMAIN g
                 /\ g = <<"csrf", "session">> =>
                        g[2] = "session" /\ g[1] = "csrf" /\ {1, 2} \subseteq DOMAIN g
      OBVIOUS
    <2>2. \A g : /\ g = <<"session", "csrf", "input">> =>
                        g[1] = "session" /\ g[2] = "csrf" /\ {1, 2} \subseteq DOMAIN g
                 /\ g = <<"csrf", "session", "input">> =>
                        g[2] = "session" /\ g[1] = "csrf" /\ {1, 2} \subseteq DOMAIN g
                 /\ g = <<"input", "csrf", "session">> =>
                        g[3] = "session" /\ g[2] = "csrf" /\ {2, 3} \subseteq DOMAIN g
                 /\ g = <<"session", "input", "csrf", "input">> =>
                        g[1] = "session" /\ g[3] = "csrf" /\ {1, 3} \subseteq DOMAIN g
      OBVIOUS
    <2>3. QED
      BY <2>1, <2>2 DEF WriteGuards, HasGuard
  <1>7. QED
    BY <1>1, <1>2, <1>3, <1>4, <1>5, <1>6 DEF ReadGuards, WriteGuards

LEMMA ReadsAreSound ==
  ASSUME NEW guards \in ReadGuards \cup WriteGuards, NEW effect \in {"none", "read"},
         NEW answers \in AnswerKinds
  PROVE  SoundHandler(Api(guards, effect, "value", answers))
  BY GuardsAreNames DEF SoundHandler, Api

LEMMA ChangesAreSound ==
  ASSUME NEW guards \in WriteGuards, NEW effect,
         NEW answers \in AnswerKinds \ {"always", "redirects"}
  PROVE  SoundHandler(Api(guards, effect, "value", answers))
  BY GuardsAreNames DEF SoundHandler, Api

LEMMA RemovalsAreSound ==
  ASSUME NEW guards \in WriteGuards, NEW effect, NEW answers \in EmptyAnswers
  PROVE  SoundHandler(Api(guards, effect, "empty", answers))
  BY GuardsAreNames DEF SoundHandler, Api, AnswerKinds, EmptyAnswers

\* Every handler is sound: most are reads, changes or removals behind one of the orders of
\* guards; the others are the account's, the callbacks and those that copy a 204.
LEMMA StepsAreApi ==
  \A guards, effect, acknowledges, answers :
      InSteps(Api(guards, effect, acknowledges, answers))
          = Api(guards, "steps", acknowledges, answers)
  BY DEF InSteps, Api

LEMMA HandlersAreSound == \A h \in ApiHandlers : SoundHandler(h)
  <1> USE ReadsAreSound, ChangesAreSound, RemovalsAreSound
      DEF ApiRead, ApiWrite, ApiRemoval, Session, SessionCsrf, SessionCsrfInput, CsrfSession,
          CsrfSessionInput
  <1> USE DEF ReadGuards, WriteGuards, AnswerKinds, EmptyAnswers
  <1>1. \A h \in {
                authInvitationsPost, authMeGet, authSessionsGet, authSessionDelete} :
            SoundHandler(h)
    BY DEF authInvitationsPost, authMeGet, authSessionsGet, authSessionDelete
  <1>2. \A h \in {
                activityGet, activityIntegrityGet, activityTimelineGet,
                aiForwardGet, aiForwardPut, backupsPersonalPost, backupsImportPost,
                backupsPreviewPost} :
            SoundHandler(h)
    BY DEF activityGet, activityIntegrityGet, activityTimelineGet, aiForwardGet,
           aiForwardPut, backupsPersonalPost, backupsImportPost, backupsPreviewPost
  <1>3. \A h \in {
                calendarEventsGet, calendarEventsPost, calendarEventPut, calendarEventDelete,
                calendarSettingsGet, calendarSettingsPut} :
            SoundHandler(h)
    BY DEF calendarEventsGet, calendarEventsPost, calendarEventPut, calendarEventDelete,
           calendarSettingsGet, calendarSettingsPut
  <1>4. \A h \in {
                conversationsGet, conversationGet, conversationPut, conversationPatch,
                conversationDelete, deviceCommandsPost, deviceCommandsAsyncPost,
                deviceCommandGet, devicesGet, buttonBindingsGet,
                buttonBindingsPut, motionEventsGet, gatewaysGet, gatewayEnrollmentsPost,
                gatewayBluetoothGet, gatewayBluetoothPost, gatewayZigbeeActionPost,
                gatewayZigbeeGet, homeRoomsGet, homeRoomsPost,
                homeRoomPatch, homeRoomDelete, homeConnectionPatch,
                homeConnectionRoomPut} :
            SoundHandler(h)
    BY DEF conversationsGet, conversationGet, conversationPut, conversationPatch,
           conversationDelete, deviceCommandsPost, deviceCommandsAsyncPost, deviceCommandGet,
           devicesGet, buttonBindingsGet, buttonBindingsPut,
           motionEventsGet, gatewaysGet, gatewayEnrollmentsPost, gatewayBluetoothGet,
           gatewayBluetoothPost, gatewayZigbeeActionPost, gatewayZigbeeGet,
           homeRoomsGet, homeRoomsPost, homeRoomPatch, homeRoomDelete, homeConnectionPatch,
           homeConnectionRoomPut
  <1>5. \A h \in {
                catalogProvidersGet, catalogConnectionsGet, googleGet, googleDelete,
                googleAuthorizationPost, googleCalendarsGet, googleEventsGet,
                googleEventsPost, googleEventPut, googleEventDelete, homeAssistantGet,
                homeAssistantDelete, homeAssistantProbePost,
                homeAssistantSyncPost, nanoleafDiscoverGet, nanoleafConnectionsGet,
                nanoleafConnectionsPost, nanoleafConnectionPatch, nanoleafConnectionDelete,
                nanoleafBrightnessPut, nanoleafColorPut, nanoleafTemperaturePut,
                nanoleafPowerPut, nanoleafSceneSelectPut, nanoleafScenesGet, nanoleafStateGet,
                networkDiscoverPost, shellyConnectionsPost, spotifyGet, spotifyDelete,
                spotifyDevicesGet, spotifyPlaybackGet, spotifyPlaybackPut, spotifyPlaylistPut,
                spotifyPlaybackDevicePut, spotifyPlaylistsGet, youtubeEmbedPost,
                youtubePlayPost} :
            SoundHandler(h)
    BY DEF catalogProvidersGet, catalogConnectionsGet, googleGet, googleDelete,
           googleAuthorizationPost, googleCalendarsGet, googleEventsGet, googleEventsPost,
           googleEventPut, googleEventDelete, homeAssistantGet, homeAssistantDelete,
           homeAssistantProbePost, homeAssistantSyncPost,
           nanoleafDiscoverGet, nanoleafConnectionsGet, nanoleafConnectionsPost,
           nanoleafConnectionPatch, nanoleafConnectionDelete, nanoleafBrightnessPut,
           nanoleafColorPut, nanoleafTemperaturePut, nanoleafPowerPut, nanoleafSceneSelectPut,
           nanoleafScenesGet, nanoleafStateGet, networkDiscoverPost, shellyConnectionsPost,
           spotifyGet, spotifyDelete, spotifyDevicesGet, spotifyPlaybackGet,
           spotifyPlaybackPut, spotifyPlaylistPut, spotifyPlaybackDevicePut,
           spotifyPlaylistsGet, youtubeEmbedPost, youtubePlayPost
  <1>6. \A h \in {
                knowledgeProxyRead, memoryGet, memoryPost,
                memoryMutatePatch, memoryMutateDelete, memoryConfirmPost, memoryRejectPost,
                memoryValidityPatch, memoryContextGet, memoryContextSettingsPut,
                memorySettingsPut, modelsGet, modelsBenchmarkPost} :
            SoundHandler(h)
    BY DEF knowledgeProxyRead, memoryGet, memoryPost, memoryMutatePatch,
           memoryMutateDelete, memoryConfirmPost, memoryRejectPost, memoryValidityPatch,
           memoryContextGet, memoryContextSettingsPut, memorySettingsPut, modelsGet,
           modelsBenchmarkPost
  <1>7. \A h \in {
                rbacGet, rbacUsersGet, rbacRolesPost, rbacRolePut, retentionGet, retentionPut,
                retentionCleanupPost, retentionPreviewGet, spaceProxyGet, spaceProxyPut,
                spaceInvitationDelete, speechSynthesizePost, speechVoicesGet, statusGet,
                systemServicesGet} :
            SoundHandler(h)
    BY DEF rbacGet, rbacUsersGet, rbacRolesPost, rbacRolePut, retentionGet, retentionPut,
           retentionCleanupPost, retentionPreviewGet, spaceProxyGet, spaceProxyPut,
           spaceInvitationDelete, speechSynthesizePost, speechVoicesGet, statusGet,
           systemServicesGet
  <1>8. \A h \in identityForward : SoundHandler(h)
    BY DEF identityForward
  <1>20. \A h \in {
                 actionsPost, calendarSyncPost, devicesRefreshPost, gatewayZigbeePost,
                 homeConnectionDelete, homeAssistantConnectPost, knowledgeProxyWrite} :
             SoundHandler(h)
    BY StepsAreApi
       DEF actionsPost, calendarSyncPost, devicesRefreshPost, gatewayZigbeePost,
           homeConnectionDelete, homeAssistantConnectPost, knowledgeProxyWrite
  <1> HIDE ReadsAreSound, ChangesAreSound, RemovalsAreSound DEF ReadGuards, WriteGuards
  <1> USE DEF SoundHandler, Api
  <1>a. /\ <<"session">> \in Seq(GuardNames) /\ <<"session", "input">> \in Seq(GuardNames)
        /\ << >> \in Seq(GuardNames) /\ <<"session", "csrf">> \in Seq(GuardNames)
    BY GuardsAreNames DEF ReadGuards, WriteGuards
  <1>9. \A h \in {authLogoutPost, authPasswordPost, spotifyAuthorizationPost} : SoundHandler(h)
    BY GuardsAreNames
       DEF WriteGuards, Account, authLogoutPost, authPasswordPost, spotifyAuthorizationPost
  <1>10. SoundHandler(authCsrfGet)
    BY <1>a DEF Account, authCsrfGet
  <1>11. <<"input">> \in Seq(GuardNames) /\ <<"parse", "input">> \in Seq(GuardNames)
    BY DEF GuardNames
  <1>12. \A h \in {authLoginPost, authRegisterPost, authSetupPost} : SoundHandler(h)
    BY <1>11 DEF Account, PublicHandlers, authLoginPost, authRegisterPost, authSetupPost
  <1>13. SoundHandler(authRegistrationEmailPost) /\ SoundHandler(devRecoveryPost)
    <2>1. authRegistrationEmailPost \in PublicHandlers /\ devRecoveryPost \in PublicHandlers
      BY DEF PublicHandlers
    <2>2. SoundHandler(authRegistrationEmailPost)
      BY <1>11, <2>1 DEF authRegistrationEmailPost
    <2>3. SoundHandler(devRecoveryPost)
      BY <1>11, <2>1 DEF devRecoveryPost
    <2>4. QED
      BY <2>2, <2>3
  <1>14. \A h \in RoleHandlers : SoundHandler(h)
    <2>1. HasGuard(<<"session", "csrf">>, "session") /\ HasGuard(<<"session", "csrf">>, "csrf")
      BY GuardsAreNames DEF WriteGuards
    <2>2. rbacUserRolesPut \in RoleHandlers /\ rbacUserEnabledPut \in RoleHandlers
          /\ rbacRoleDelete \in RoleHandlers
      BY DEF RoleHandlers
    <2>3. SoundHandler(rbacUserRolesPut) /\ SoundHandler(rbacUserEnabledPut)
      BY <1>a, <2>1, <2>2 DEF rbacUserRolesPut, rbacUserEnabledPut
    <2>4. SoundHandler(rbacRoleDelete)
      BY <1>a, <2>1, <2>2 DEF rbacRoleDelete
    <2>5. QED
      BY <2>3, <2>4 DEF RoleHandlers
  <1>15. HasGuard(<<"session", "input">>, "session") /\ HasGuard(<<"session", "input">>, "input")
    <2>1. \A g : g = <<"session", "input">> =>
                    g[1] = "session" /\ g[2] = "input" /\ {1, 2} \subseteq DOMAIN g
      OBVIOUS
    <2>2. QED
      BY <2>1 DEF HasGuard
  <1>16. \A h \in {googleCallbackGet, spotifyCallbackGet} : SoundHandler(h)
    <2> DEFINE g == <<"session", "input">>
               h == Api(g, "change", "value", "redirects")
    <2>1. googleCallbackGet = h /\ spotifyCallbackGet = h
      BY DEF googleCallbackGet, spotifyCallbackGet
    <2>2. g \in Seq(GuardNames) /\ HasGuard(g, "session") /\ HasGuard(g, "input")
      BY <1>15, <1>a
    <2> HIDE DEF g
    <2>3. /\ h.guards = g /\ h.answers = "redirects" /\ h.acknowledges = "value"
          /\ h.answers \in AnswerKinds
      OBVIOUS
    <2> HIDE DEF h
    <2>4. SoundHandler(h)
      BY <2>2, <2>3
    <2>5. QED
      BY <2>1, <2>4
  <1> HIDE DEF SoundHandler, Api, ApiRead, ApiWrite, ApiRemoval
  <1>17. \A h \in AccountHandlers : SoundHandler(h)
    BY <1>1, <1>9, <1>12 DEF AccountHandlers
  <1>18. \A h \in conversationForward \cup knowledgeProxy \cup memoryMutate \cup spaceProxy :
            SoundHandler(h)
    BY <1>4, <1>6, <1>7, <1>20 DEF conversationForward, knowledgeProxy, memoryMutate, spaceProxy
  <1>19. QED
    BY <1>1, <1>2, <1>3, <1>4, <1>5, <1>6, <1>7, <1>8, <1>10, <1>13, <1>14, <1>16, <1>17,
       <1>18, <1>20 DEF ApiHandlers, RoleHandlers

-------------------------------------------------------------------------------
(* The calls of the route handlers, for any tokens. *)

Works == Unfinished \cup {"done", "refused", "stopped", "failed"}
Answers == {"unsent", "none", "done", "refused", "unavailable"}
JarShape == [session : Nat, csrf : BOOLEAN]
CallShape ==
    [handler : ApiHandlers, token : Nat, stale : BOOLEAN, csrf : BOOLEAN,
     content : {"good", "invalid", "broken"}, guards : Seq(GuardNames), work : Works,
     heard : {"nothing", "value", "strange", "empty"}, issued : Nat, answer : Answers]

\* A guard of the handler is still to come, or the call has passed it.
Guarded(c) ==
    /\ HasGuard(c.handler.guards, "csrf") => HasGuard(c.guards, "csrf") \/ c.csrf
    /\ HasGuard(c.handler.guards, "input") => HasGuard(c.guards, "input") \/ c.content = "good"

\* Core works for a call that has passed all guards; it was heard of when it has worked;
\* an answer says what became of the work, or of the guard that refused; and a call that
\* Core may still work for has what its guards ask for.
CallInv(c) ==
    /\ c.work # "none" => c.guards = << >> /\ c.handler.effect # "none" /\ c.answer # "unsent"
    /\ c.work \in {"begun", "stopped"} => c.handler.effect = "steps"
    /\ c.answer \in {"unsent", "none"} => c.heard = "nothing"
    /\ c.heard # "nothing" => c.work \notin Unfinished
    /\ c.answer = "refused" =>
          IF c.work = "none" THEN c.guards # << >> ELSE c.work \in {"refused", "stopped"}
    /\ c.answer = "done" =>
          \/ c.handler.effect = "none" \/ c.handler.answers \in {"always", "accepts"}
          \/ c.work = "done"
    /\ c.heard \in {"value", "empty"} /\ c.work = "done" =>
          c.answer = "done" \/ c.handler \in RoleHandlers
    /\ \/ c.answer = "none"
       \/ /\ c.answer # "unsent" /\ c.guards = << >> /\ c.handler.effect # "none"
          /\ c.work \in Unfinished
       => Guarded(c)

WebApiInv ==
    /\ jar \in JarShape
    /\ apiCalls \in [ApiSlots -> CallShape]
    /\ \A slot \in ApiSlots : CallInv(apiCalls[slot])

\* What a step does to the call c of a slot, which becomes d.
IsSent(c, d) ==
    /\ c = NoCall /\ d.handler \in ApiHandlers /\ d.guards = d.handler.guards
    /\ d.work = "none" /\ d.heard = "nothing" /\ d.answer = "none"
PassesGuard(c, d) ==
    /\ c.answer = "none" /\ c.guards # << >>
    /\ Head(c.guards) = "csrf" => c.csrf
    /\ Head(c.guards) = "input" => c.content = "good"
    /\ d = [c EXCEPT !.guards = Tail(@)]
\* Answered by its guards, by itself, by the reply, or because there is none.
AnsweredRightly(c, answer, heard) ==
    \/ /\ c.guards # << >> /\ answer \in {"refused", "unavailable"} /\ heard = "nothing"
    \/ /\ c.handler.effect = "none" /\ answer = "done" /\ heard = "nothing"
    \/ /\ c.handler.effect # "none" /\ c.work \notin Unfinished /\ heard \in ReplyBodies(c)
       /\ answer = Answer(c.handler.answers, c.work, heard)
    \/ /\ answer = IF c.handler.answers = "always" THEN "done" ELSE "unavailable"
       /\ c.handler.effect # "none" /\ c.guards = << >> /\ heard = "nothing"
SameCall(c, d) ==
    d.handler = c.handler /\ d.guards = c.guards /\ d.work = c.work /\ d.issued = c.issued
IsAnswered(c, d) ==
    /\ c.answer = "none" /\ SameCall(c, d) /\ AnsweredRightly(c, d.answer, d.heard)
    /\ c.guards = << >> /\ c.handler.effect # "none" /\ c.work \in Unfinished =>
          d.csrf = c.csrf /\ d.content = c.content
\* Core lets the call in, which takes a live session; does a part of its work, or all of
\* it; or gives up.
IsWorkedFor(c, d) ==
    /\ c.answer # "unsent" /\ c.guards = << >> /\ c.handler.effect # "none"
    /\ c.work \in Unfinished /\ d.work # "none" /\ d.work # c.work
    /\ d.work \in {"begun", "done"} => c.work \in {"accepted", "begun"}
    /\ d.work \in {"begun", "stopped"} => c.handler.effect = "steps"
    /\ d.handler = c.handler /\ d.guards = c.guards /\ d.heard = c.heard /\ d.answer = c.answer
    /\ d.answer = "none" \/ d.work \in Unfinished => d.csrf = c.csrf /\ d.content = c.content

LEMMA SentKeeps ==
  ASSUME NEW c, NEW d \in CallShape, IsSent(c, d)
  PROVE  CallInv(d)
  BY DEF IsSent, CallInv, Guarded, Unfinished

LEMMA TailGuards ==
  ASSUME NEW guards \in Seq(GuardNames), guards # << >>, NEW name
  PROVE  /\ Tail(guards) \in Seq(GuardNames)
         /\ HasGuard(guards, name) => Head(guards) = name \/ HasGuard(Tail(guards), name)
  <1>1. Tail(guards) \in Seq(GuardNames) /\ Len(guards) \in Nat \ {0}
        /\ DOMAIN guards = 1 .. Len(guards)
    OBVIOUS
  <1>2. ASSUME NEW i \in DOMAIN guards, guards[i] = name, i # 1
        PROVE  HasGuard(Tail(guards), name)
    <2>1. i - 1 \in DOMAIN Tail(guards) /\ Tail(guards)[i - 1] = guards[i]
      BY <1>1, <1>2
    <2>2. QED
      BY <1>2, <2>1 DEF HasGuard
  <1>3. Head(guards) = guards[1]
    OBVIOUS
  <1>4. QED
    BY <1>1, <1>2, <1>3 DEF HasGuard

LEMMA PassesKeeps ==
  ASSUME NEW c \in CallShape, CallInv(c), NEW d, PassesGuard(c, d)
  PROVE  d \in CallShape /\ CallInv(d)
  <1>1. c.guards \in Seq(GuardNames) /\ c.guards # << >> /\ c.answer = "none"
    BY DEF CallShape, PassesGuard
  <1> DEFINE rest == Tail(c.guards)
  <1>2. /\ rest \in Seq(GuardNames)
        /\ \A name : HasGuard(c.guards, name) => Head(c.guards) = name \/ HasGuard(rest, name)
    BY <1>1, TailGuards
  <1>3. d = [c EXCEPT !.guards = rest]
    BY DEF PassesGuard
  <1>4. Guarded(c) /\ c.work = "none" /\ c.work \in Unfinished
    BY <1>1 DEF CallInv, Unfinished
  <1> HIDE DEF rest
  <1>5. /\ d \in CallShape /\ d.guards = rest /\ d.handler = c.handler /\ d.csrf = c.csrf
        /\ d.content = c.content /\ d.work = c.work /\ d.heard = c.heard /\ d.answer = c.answer
    BY <1>2, <1>3 DEF CallShape
  <1>6. Guarded(d)
    BY <1>2, <1>4, <1>5 DEF Guarded, PassesGuard
  <1>7. QED
    BY <1>1, <1>4, <1>5, <1>6 DEF CallInv

\* An answer made of a reply says "done" only of work that is done, or where it always
\* does, and refuses only what Core refused; and a recognised reply to work that is done is
\* answered with "done", unless an empty one is copied or parsed.
LEMMA RepliesAreHonest ==
  ASSUME NEW c \in CallShape, SoundHandler(c.handler), c.work \notin Unfinished,
         NEW heard \in ReplyBodies(c), NEW answer,
         answer = Answer(c.handler.answers, c.work, heard)
  PROVE  /\ heard \in {"value", "strange", "empty"}
         /\ answer \in {"done", "refused", "unavailable"}
         /\ answer = "refused" => c.work \in {"refused", "stopped"}
         /\ answer = "done" => c.work = "done" \/ c.handler.answers \in {"always", "accepts"}
         /\ heard \in {"value", "empty"} /\ c.work = "done" =>
               answer = "done" \/ c.handler \in RoleHandlers
  <1>1. heard \in {"value", "strange", "empty"} /\ c.work \in {"done", "refused", "stopped", "failed"}
    BY DEF ReplyBodies, CallShape, Works
  <1>2. c.work = "done" /\ heard = "empty" => c.handler.acknowledges = "empty"
    BY DEF ReplyBodies
  <1>3. c.handler.answers \in AnswerKinds
    BY DEF SoundHandler
  <1>4. c.handler.acknowledges = "empty" =>
            c.handler.answers \in EmptyAnswers \/ c.handler \in RoleHandlers
    BY DEF SoundHandler
  <1> DEFINE a == c.handler.answers
             w == c.work
  <1>5. /\ answer \in {"done", "refused", "unavailable"}
        /\ answer = "refused" => w \in {"refused", "stopped"}
        /\ answer = "done" => w = "done" \/ a \in {"always", "accepts"}
        /\ w = "done" /\ heard = "value" => answer = "done"
        /\ w = "done" /\ heard = "empty" /\ a \in EmptyAnswers => answer = "done"
    <2> HIDE DEF a, w
    <2>1. /\ answer = Answer(a, w, heard) /\ a \in AnswerKinds
          /\ w \in {"done", "refused", "stopped", "failed"}
      BY <1>1, <1>3 DEF a, w
    <2>2. QED
      BY <1>1, <2>1 DEF Answer, StatusOf, Parsed, Copied, Recognised, AnswerKinds, EmptyAnswers
  <1>6. QED
    BY <1>1, <1>2, <1>4, <1>5

LEMMA AnsweredKeeps ==
  ASSUME NEW c \in CallShape, CallInv(c), NEW d \in CallShape, IsAnswered(c, d)
  PROVE  CallInv(d)
  <1>1. c.handler \in ApiHandlers /\ SoundHandler(c.handler)
    BY HandlersAreSound DEF CallShape
  <1>2. SameCall(c, d) /\ c.answer = "none" /\ AnsweredRightly(c, d.answer, d.heard)
    BY DEF IsAnswered
  <1>3. /\ Guarded(c) /\ (c.work # "none" => c.guards = << >> /\ c.handler.effect # "none")
        /\ c.work \in {"begun", "stopped"} => c.handler.effect = "steps"
    BY <1>2 DEF CallInv
  <1>4. \/ d.answer = "none"
        \/ /\ d.answer # "unsent" /\ d.guards = << >> /\ d.handler.effect # "none"
           /\ d.work \in Unfinished
        => Guarded(d)
    <2>1. d.answer \notin {"none", "unsent"}
      <3>1. CASE c.work \in Unfinished
        BY <1>2, <3>1 DEF AnsweredRightly
      <3>2. CASE c.work \notin Unfinished
        BY <1>1, <1>2, <3>2, RepliesAreHonest DEF AnsweredRightly
      <3>3. QED
        BY <3>1, <3>2
    <2>2. QED
      BY <1>2, <1>3, <2>1 DEF IsAnswered, SameCall, Guarded
  <1>5. CASE c.work \in Unfinished
    <2>1. /\ d.heard = "nothing" /\ d.answer \notin {"unsent", "none"}
          /\ d.answer = "refused" => c.guards # << >>
          /\ d.answer = "done" => c.handler.effect = "none" \/ c.handler.answers = "always"
      BY <1>2, <1>5 DEF AnsweredRightly
    <2>2. d.answer = "refused" => d.work = "none" /\ d.guards # << >>
      BY <1>2, <1>3, <2>1 DEF SameCall
    <2>3. QED
      BY <1>2, <1>3, <1>4, <2>1, <2>2 DEF SameCall, CallInv
  <1>6. CASE c.work \notin Unfinished
    <2>1. /\ d.answer \in {"done", "refused", "unavailable"}
          /\ d.answer = "refused" => d.work \in {"refused", "stopped"}
          /\ d.answer = "done" => d.work = "done" \/ d.handler.answers \in {"always", "accepts"}
          /\ d.heard \in {"value", "empty"} /\ d.work = "done" =>
                d.answer = "done" \/ d.handler \in RoleHandlers
      <3>1. CASE /\ d.heard \in ReplyBodies(c)
                 /\ d.answer = Answer(c.handler.answers, c.work, d.heard)
        BY <1>1, <1>2, <1>6, <3>1, RepliesAreHonest DEF SameCall
      <3>2. CASE /\ d.answer = IF c.handler.answers = "always" THEN "done" ELSE "unavailable"
                 /\ d.heard = "nothing"
        BY <1>2, <3>2 DEF SameCall
      <3>3. c.work # "none"
        BY <1>6 DEF Unfinished
      <3>4. QED
        BY <1>2, <1>3, <3>1, <3>2, <3>3 DEF AnsweredRightly
    <2>2. /\ d.handler = c.handler /\ d.guards = << >> /\ d.handler.effect # "none"
          /\ d.work = c.work /\ d.work \notin Unfinished /\ d.work # "none"
          /\ d.answer \notin {"unsent", "none"}
      BY <1>2, <1>3, <1>6, <2>1 DEF SameCall, Unfinished
    <2>3. QED
      BY <1>3, <2>1, <2>2 DEF CallInv
  <1>7. QED
    BY <1>5, <1>6

LEMMA WorkedForKeeps ==
  ASSUME NEW c \in CallShape, CallInv(c), NEW d \in CallShape, IsWorkedFor(c, d)
  PROVE  CallInv(d)
  <1>1. /\ c.answer # "unsent" /\ c.guards = << >> /\ c.handler.effect # "none"
        /\ c.work \in Unfinished /\ d.work # "none" /\ d.handler = c.handler
        /\ d.guards = c.guards /\ d.heard = c.heard /\ d.answer = c.answer
        /\ d.work \in {"begun", "stopped"} => c.handler.effect = "steps"
        /\ d.answer = "none" \/ d.work \in Unfinished => d.csrf = c.csrf /\ d.content = c.content
    BY DEF IsWorkedFor
  <1>2. /\ c.heard = "nothing" /\ c.answer # "refused"
        /\ c.answer = "done" => c.handler.answers \in {"always", "accepts"}
    BY <1>1 DEF CallInv, Unfinished
  <1>3. d.answer = "none" \/ d.work \in Unfinished => Guarded(d)
    BY <1>1 DEF CallInv, Guarded
  <1>4. QED
    BY <1>1, <1>2, <1>3 DEF CallInv

\* What a step does: to the call of one slot, and to the jar.
CallSteps(c, d) == IsSent(c, d) \/ PassesGuard(c, d) \/ IsAnswered(c, d) \/ IsWorkedFor(c, d)
StepOf(slot) ==
    /\ jar' \in JarShape
    /\ apiCalls' \in [ApiSlots -> CallShape]
    /\ \A other \in ApiSlots \ {slot} : apiCalls'[other] = apiCalls[other]
    /\ CallSteps(apiCalls[slot], apiCalls'[slot])

LEMMA CallUpdate ==
  ASSUME apiCalls \in [ApiSlots -> CallShape], NEW slot \in ApiSlots, NEW d \in CallShape
  PROVE  /\ [apiCalls EXCEPT ![slot] = d] \in [ApiSlots -> CallShape]
         /\ [apiCalls EXCEPT ![slot] = d][slot] = d
         /\ \A other \in ApiSlots \ {slot} :
               [apiCalls EXCEPT ![slot] = d][other] = apiCalls[other]
  OBVIOUS

LEMMA UpdateIsStep ==
  ASSUME WebApiInv, NEW slot \in ApiSlots, NEW d \in CallShape, CallSteps(apiCalls[slot], d),
         apiCalls' = [apiCalls EXCEPT ![slot] = d], jar' \in JarShape
  PROVE  StepOf(slot)
  BY CallUpdate DEF StepOf, WebApiInv

LEMMA NoCallIsTyped == NoCall \in CallShape /\ CallInv(NoCall)
  <1>1. authMeGet \in ApiHandlers
    BY DEF ApiHandlers
  <1>2. << >> \in Seq(GuardNames)
    OBVIOUS
  <1>3. NoCall \in CallShape
    BY <1>1, <1>2 DEF NoCall, CallShape, Works, Answers, Unfinished
  <1>4. CallInv(NoCall)
    BY DEF NoCall, CallInv
  <1>5. QED
    BY <1>3, <1>4

LEMMA JarUpdates ==
  /\ \A n \in Nat, b \in BOOLEAN : [session |-> n, csrf |-> b] \in JarShape
  /\ \A j \in JarShape : j.session \in Nat
  /\ \A j \in JarShape : \A n \in Nat : [j EXCEPT !.session = n] \in JarShape
  /\ \A j \in JarShape : [j EXCEPT !.csrf = TRUE] \in JarShape
  BY DEF JarShape

\* A call that forgets its request stays what it is otherwise.
LEMMA Remembers ==
  ASSUME NEW c \in CallShape, NEW d, d = Remembered(c)
  PROVE  /\ d \in CallShape /\ SameCall(c, d) /\ d.answer = c.answer /\ d.heard = c.heard
         /\ \/ d.stale = FALSE /\ d.token = 0
            \/ d.stale = c.stale /\ d.token = c.token
         /\ \/ c.answer = "none"
            \/ c.guards = << >> /\ c.handler.effect # "none" /\ c.work \in Unfinished
            => d = c
  <1>1. CASE \/ c.answer = "none"
             \/ c.guards = << >> /\ c.handler.effect # "none" /\ c.work \in Unfinished
    BY <1>1 DEF Remembered, SameCall
  <1>2. CASE ~(\/ c.answer = "none"
               \/ c.guards = << >> /\ c.handler.effect # "none" /\ c.work \in Unfinished)
    <2>1. d = [c EXCEPT !.token = 0, !.stale = FALSE, !.csrf = FALSE, !.content = "good"]
      BY <1>2 DEF Remembered
    <2>2. d \in CallShape
      <3> DEFINE a == [c EXCEPT !.token = 0]
                 b == [a EXCEPT !.stale = FALSE]
                 e == [b EXCEPT !.csrf = FALSE]
      <3>1. a \in CallShape
        BY DEF CallShape
      <3>2. d = [e EXCEPT !.content = "good"]
        BY <2>1
      <3> HIDE DEF a
      <3>3. b \in CallShape
        BY <3>1 DEF CallShape
      <3> HIDE DEF b
      <3>4. e \in CallShape
        BY <3>3 DEF CallShape
      <3> HIDE DEF e
      <3>5. QED
        BY <3>2, <3>4 DEF CallShape
    <2>3. /\ d.handler = c.handler /\ d.guards = c.guards /\ d.work = c.work
          /\ d.answer = c.answer /\ d.heard = c.heard /\ d.issued = c.issued
          /\ d.stale = FALSE /\ d.token = 0
      BY <2>1 DEF CallShape
    <2>4. QED
      BY <1>2, <2>2, <2>3 DEF SameCall
  <1>3. QED
    BY <1>1, <1>2

LEMMA SendSteps ==
  ASSUME WebApiInv, NEW slot \in ApiSlots, SendCall(slot)
  PROVE  StepOf(slot)
  <1>0. PICK h \in HandlersOf(slot) :
            \E csrf \in Headers(h), content \in Contents(h) :
                apiCalls' = [apiCalls EXCEPT ![slot] =
                    [NoCall EXCEPT !.handler = h, !.token = jar.session,
                                   !.stale = jar.session \notin live, !.csrf = csrf,
                                   !.content = content, !.guards = h.guards,
                                   !.answer = "none"]]
    BY DEF SendCall
  <1>1. PICK csrf \in Headers(h), content \in Contents(h) :
            apiCalls' = [apiCalls EXCEPT ![slot] =
                [NoCall EXCEPT !.handler = h, !.token = jar.session,
                               !.stale = jar.session \notin live, !.csrf = csrf,
                               !.content = content, !.guards = h.guards, !.answer = "none"]]
    BY <1>0
  <1>2. h \in ApiHandlers /\ h.guards \in Seq(GuardNames)
    <2>1. h \in ApiHandlers
      BY DEF HandlersOf, ApiHandlers
    <2>2. QED
      BY <2>1, HandlersAreSound DEF SoundHandler
  <1>3. /\ jar.session \in Nat /\ csrf \in BOOLEAN /\ content \in {"good", "invalid", "broken"}
        /\ (jar.session \notin live) \in BOOLEAN
    BY DEF WebApiInv, JarShape, Contents, Headers
  <1> DEFINE d == [NoCall EXCEPT !.handler = h, !.token = jar.session,
                                 !.stale = jar.session \notin live, !.csrf = csrf,
                                 !.content = content, !.guards = h.guards, !.answer = "none"]
  <1>4. /\ d \in CallShape /\ d.handler = h /\ d.guards = h.guards /\ d.work = "none"
        /\ d.heard = "nothing" /\ d.answer = "none"
    <2>1. NoCall \in CallShape /\ NoCall.work = "none" /\ NoCall.heard = "nothing"
      BY NoCallIsTyped DEF NoCall
    <2>2. QED
      BY <1>2, <1>3, <2>1 DEF CallShape, Answers
  <1>5. apiCalls[slot] = NoCall /\ jar' = jar
    BY DEF SendCall
  <1>6. apiCalls' = [apiCalls EXCEPT ![slot] = d]
    BY <1>1
  <1> HIDE DEF d
  <1>7. QED
    BY <1>2, <1>4, <1>5, <1>6, UpdateIsStep DEF CallSteps, IsSent, WebApiInv

LEMMA AnswerSteps ==
  ASSUME WebApiInv, NEW slot \in ApiSlots, NEW answer \in Answers,
         NEW heard \in {"nothing", "value", "strange", "empty"}, Open(slot),
         ApiAnswer(slot, answer, heard), AnsweredRightly(apiCalls[slot], answer, heard),
         jar' \in JarShape
  PROVE  StepOf(slot)
  <1> DEFINE c == apiCalls[slot]
             call == [c EXCEPT !.answer = answer, !.heard = heard]
             d == Remembered(call)
  <1>1. c \in CallShape /\ c.answer = "none"
    BY DEF WebApiInv, Open
  <1>2. apiCalls' = [apiCalls EXCEPT ![slot] = d]
    BY DEF ApiAnswer
  <1>3. /\ call \in CallShape /\ SameCall(c, call) /\ call.answer = answer /\ call.heard = heard
        /\ call.csrf = c.csrf /\ call.content = c.content
    <2> HIDE DEF c
    <2>1. QED
      BY <1>1 DEF CallShape, SameCall
  <1> HIDE DEF call
  <1>4. d \in CallShape /\ SameCall(c, d) /\ d.answer = answer /\ d.heard = heard
    BY <1>3, Remembers DEF SameCall
  <1>5. c.guards = << >> /\ c.handler.effect # "none" /\ c.work \in Unfinished =>
            d.csrf = c.csrf /\ d.content = c.content
    <2>1. ASSUME c.guards = << >>, c.handler.effect # "none", c.work \in Unfinished
          PROVE  d = call
      <3>1. call.guards = << >> /\ call.handler.effect # "none" /\ call.work \in Unfinished
        BY <1>3, <2>1 DEF SameCall
      <3>2. QED
        BY <1>3, <3>1, Remembers
    <2>2. QED
      BY <1>3, <2>1
  <1> HIDE DEF d
  <1>6. IsAnswered(c, d)
    BY <1>1, <1>4, <1>5 DEF IsAnswered
  <1>7. QED
    BY <1>2, <1>4, <1>6, UpdateIsStep DEF CallSteps

LEMMA GuardSteps ==
  ASSUME WebApiInv, NEW slot \in ApiSlots, CheckGuard(slot)
  PROVE  StepOf(slot)
  <1> DEFINE c == apiCalls[slot]
  <1>1. c \in CallShape /\ c.answer = "none" /\ c.guards # << >> /\ Open(slot)
    BY DEF WebApiInv, CheckGuard, Open
  <1>2. PICK outcome \in GuardOutcomes(c) :
            IF outcome = "passes" THEN apiCalls' = [apiCalls EXCEPT ![slot].guards = Tail(@)]
            ELSE ApiAnswer(slot, outcome, "nothing")
    BY DEF CheckGuard
  <1>3. jar' = jar /\ jar \in JarShape
    BY DEF CheckGuard, WebApiInv
  <1>4. /\ outcome \in {"passes", "refused", "unavailable"}
        /\ outcome = "passes" /\ Head(c.guards) = "csrf" => c.csrf
        /\ outcome = "passes" /\ Head(c.guards) = "input" => c.content = "good"
    BY DEF GuardOutcomes, requireApiSession, lookupUser, csrfIsValid
  <1>5. CASE outcome = "passes"
    <2> DEFINE d == [c EXCEPT !.guards = Tail(@)]
    <2>1. apiCalls' = [apiCalls EXCEPT ![slot] = d]
      BY <1>2, <1>5
    <2>2. PassesGuard(c, d)
      BY <1>1, <1>4, <1>5 DEF PassesGuard
    <2>3. CallInv(c)
      BY DEF WebApiInv
    <2> HIDE DEF d, c
    <2>4. d \in CallShape
      BY <1>1, <2>2, <2>3, PassesKeeps
    <2>5. QED
      BY <1>3, <2>1, <2>2, <2>4, UpdateIsStep DEF CallSteps, c
  <1>6. CASE outcome # "passes"
    <2>1. outcome \in {"refused", "unavailable"} /\ outcome \in Answers
      BY <1>4, <1>6 DEF Answers
    <2>2. AnsweredRightly(c, outcome, "nothing")
      BY <1>1, <2>1 DEF AnsweredRightly
    <2>3. ApiAnswer(slot, outcome, "nothing")
      BY <1>2, <1>6
    <2>4. QED
      BY <1>1, <1>3, <2>1, <2>2, <2>3, AnswerSteps
  <1>7. QED
    BY <1>5, <1>6

LEMMA ItselfSteps ==
  ASSUME WebApiInv, NEW slot \in ApiSlots, AnswersItself(slot)
  PROVE  StepOf(slot)
  <1>1. AnsweredRightly(apiCalls[slot], "done", "nothing") /\ "done" \in Answers
    BY DEF AnswersItself, AnsweredRightly, Answers
  <1>2. jar' \in JarShape
    BY JarUpdates DEF AnswersItself, WebApiInv
  <1>3. Open(slot) /\ ApiAnswer(slot, "done", "nothing")
    BY DEF AnswersItself
  <1>4. QED
    BY <1>1, <1>2, <1>3, AnswerSteps

LEMMA ReplySteps ==
  ASSUME WebApiInv, NEW slot \in ApiSlots, ReplyArrives(slot)
  PROVE  StepOf(slot)
  <1> DEFINE c == apiCalls[slot]
  <1>1. /\ c \in CallShape /\ Open(slot) /\ c.guards = << >> /\ c.handler.effect # "none"
        /\ c.work \notin Unfinished /\ SoundHandler(c.handler)
    BY HandlersAreSound DEF WebApiInv, ReplyArrives, Forwarded, CallShape
  <1>2. PICK heard \in ReplyBodies(c) :
            LET answer == Answer(c.handler.answers, c.work, heard)
            IN  ApiAnswer(slot, answer, heard) /\ SetCookies(c, answer)
    BY DEF ReplyArrives
  <1> DEFINE answer == Answer(c.handler.answers, c.work, heard)
  <1>3. ApiAnswer(slot, answer, heard) /\ SetCookies(c, answer)
    BY <1>2
  <1>4. answer \in Answers /\ heard \in {"nothing", "value", "strange", "empty"}
    BY <1>1, RepliesAreHonest DEF Answers
  <1>5. AnsweredRightly(c, answer, heard)
    BY <1>1 DEF AnsweredRightly
  <1>6. jar' \in JarShape
    <2>1. c.issued \in Nat /\ c.token \in Nat /\ jar \in JarShape
      BY <1>1 DEF CallShape, WebApiInv
    <2> HIDE DEF c, answer
    <2>2. \/ jar' = [session |-> c.issued, csrf |-> TRUE]
          \/ jar' = [session |-> 0, csrf |-> FALSE]
          \/ jar' = [jar EXCEPT !.session = c.token]
          \/ jar' = jar
      BY <1>3 DEF SetCookies, setAuthCookies, clearAuthCookies
    <2>3. QED
      BY <2>1, <2>2, JarUpdates
  <1> HIDE DEF answer
  <1>7. QED
    BY <1>1, <1>3, <1>4, <1>5, <1>6, AnswerSteps

LEMMA LossSteps ==
  ASSUME WebApiInv, NEW slot \in ApiSlots, ReplyIsLost(slot)
  PROVE  StepOf(slot)
  <1> DEFINE c == apiCalls[slot]
             answer == IF c.handler.answers = "always" THEN "done" ELSE "unavailable"
  <1>1. Open(slot) /\ ApiAnswer(slot, answer, "nothing") /\ answer \in Answers
    BY DEF ReplyIsLost, Answers
  <1>2. AnsweredRightly(apiCalls[slot], answer, "nothing")
    BY DEF AnsweredRightly, ReplyIsLost, Forwarded
  <1>3. jar' \in JarShape
    <2>1. jar' = [session |-> 0, csrf |-> FALSE] \/ jar' = jar
      BY DEF ReplyIsLost, clearAuthCookies
    <2>2. jar \in JarShape
      BY DEF WebApiInv
    <2>3. QED
      BY <2>1, <2>2, JarUpdates
  <1> HIDE DEF answer
  <1>4. QED
    BY <1>1, <1>2, <1>3, AnswerSteps

LEMMA FreshTokenIsNat == FreshToken \in Nat
  <1> DEFINE some == {slot \in ApiSlots : apiCalls[slot].issued # 0}
  <1>1. IsFiniteSet(ApiSlots)
    <2>1. IsFiniteSet({"page"})
      BY FS_Singleton
    <2>2. ApiSlots = {"page"} \cup {"account"}
      BY DEF ApiSlots
    <2>3. QED
      BY <2>1, <2>2, FS_AddElement
  <1>2. IsFiniteSet(some)
    BY <1>1, FS_Subset
  <1>3. Cardinality(some) \in Nat
    BY <1>2, FS_CardinalityType
  <1> HIDE DEF some
  <1>4. QED
    BY <1>3 DEF FreshToken, some

LEMMA AcceptSteps ==
  ASSUME WebApiInv, NEW slot \in ApiSlots, CoreAccepts(slot)
  PROVE  StepOf(slot)
  <1> DEFINE c == apiCalls[slot]
             d == [c EXCEPT !.work = "accepted"]
  <1>1. /\ c \in CallShape /\ c.answer # "unsent" /\ c.guards = << >>
        /\ c.handler.effect # "none" /\ c.work = "none"
    BY DEF WebApiInv, CoreAccepts, Forwarded
  <1>2. apiCalls' = [apiCalls EXCEPT ![slot] = d] /\ jar' = jar /\ jar \in JarShape
    BY DEF CoreAccepts, WebApiInv
  <1>3. /\ d \in CallShape /\ d.work = "accepted" /\ d.handler = c.handler
        /\ d.guards = c.guards /\ d.csrf = c.csrf /\ d.content = c.content
        /\ d.heard = c.heard /\ d.answer = c.answer
    <2> HIDE DEF c
    <2>1. QED
      BY <1>1 DEF CallShape, Works, Unfinished
  <1> HIDE DEF d
  <1>4. IsWorkedFor(c, d)
    BY <1>1, <1>3 DEF IsWorkedFor, Unfinished
  <1>5. QED
    BY <1>2, <1>3, <1>4, UpdateIsStep DEF CallSteps

\* What Core may make of the work of a call that it has not finished.
WorkMoves(c, work) ==
    /\ c.work \in Unfinished /\ work \in {"begun", "done", "refused", "stopped", "failed"}
    /\ work \in {"begun", "done"} => c.work \in {"accepted", "begun"}
    /\ work \in {"begun", "stopped"} => c.handler.effect = "steps"
    /\ work # c.work

LEMMA ServiceMoves ==
  ASSUME WebApiInv, NEW slot \in ApiSlots, ServiceHandles(slot)
  PROVE  /\ jar' = jar
         /\ \E work, issued :
               /\ WorkMoves(apiCalls[slot], work) /\ Worked(slot, work, issued)
               /\ \/ issued = 0 /\ live' \subseteq live
                  \/ work = "done" /\ issued = FreshToken /\ live' \subseteq live \cup {FreshToken}
  <1> DEFINE c == apiCalls[slot]
  <1>1. CallInv(c)
    BY DEF WebApiInv
  <1>2. CASE WorkIsDone(slot)
    <2> DEFINE issued == IF c.handler.effect \in {"signIn", "rotate"} THEN FreshToken ELSE 0
    <2>1. Worked(slot, "done", issued)
      BY <1>2 DEF WorkIsDone
    <2>2. WorkMoves(c, "done")
      BY <1>2 DEF WorkIsDone, WorkMoves, Unfinished
    <2>3. \/ issued = 0 /\ live' \subseteq live
          \/ issued = FreshToken /\ live' \subseteq live \cup {FreshToken}
      BY <1>2 DEF WorkIsDone
    <2> HIDE DEF issued
    <2>4. QED
      BY <2>1, <2>2, <2>3 DEF ServiceHandles
  <1>3. ASSUME NEW outcome \in WorkOutcomes(c), Worked(slot, outcome, 0), live' = live
        PROVE  WorkMoves(c, outcome)
    BY <1>1, <1>3 DEF WorkOutcomes, WorkMoves, Unfinished, CallInv
  <1>4. QED
    BY <1>2, <1>3 DEF ServiceHandles

\* Core does something for a call, and may have issued a token for it.
LEMMA WorkSteps ==
  ASSUME WebApiInv, NEW slot \in ApiSlots, ServiceHandles(slot)
  PROVE  StepOf(slot)
  <1> DEFINE c == apiCalls[slot]
  <1>1. /\ c \in CallShape /\ c.answer # "unsent" /\ c.guards = << >>
        /\ c.handler.effect # "none"
    BY DEF WebApiInv, ServiceHandles, Forwarded
  <1>2. PICK work, issued :
            /\ WorkMoves(c, work) /\ Worked(slot, work, issued)
            /\ issued = 0 \/ issued = FreshToken
    BY ServiceMoves
  <1>3. jar' = jar /\ jar \in JarShape /\ issued \in Nat
    BY <1>2, FreshTokenIsNat DEF ServiceHandles, WebApiInv
  <1> DEFINE worked == [c EXCEPT !.work = work, !.issued = issued]
             d == Remembered(worked)
  <1>4. apiCalls' = [apiCalls EXCEPT ![slot] = d]
    BY <1>2 DEF Worked
  <1>5. /\ worked \in CallShape /\ worked.work = work /\ worked.handler = c.handler
        /\ worked.guards = c.guards /\ worked.csrf = c.csrf /\ worked.content = c.content
        /\ worked.heard = c.heard /\ worked.answer = c.answer
    <2>1. work \in Works
      BY <1>2 DEF WorkMoves, Works, Unfinished
    <2> HIDE DEF c
    <2>2. QED
      BY <1>1, <1>3, <2>1 DEF CallShape
  <1> HIDE DEF worked
  <1>6. /\ d \in CallShape /\ d.work = work /\ d.handler = c.handler /\ d.guards = c.guards
        /\ d.heard = c.heard /\ d.answer = c.answer
        /\ d.answer = "none" \/ d.work \in Unfinished => d.csrf = c.csrf /\ d.content = c.content
    <2>1. /\ d \in CallShape /\ SameCall(worked, d) /\ d.answer = worked.answer
          /\ d.heard = worked.heard
          /\ worked.answer = "none"
               \/ (/\ worked.guards = << >> /\ worked.handler.effect # "none"
                   /\ worked.work \in Unfinished)
             => d = worked
      BY <1>5, Remembers
    <2> HIDE DEF c, d
    <2>2. QED
      BY <1>1, <1>5, <2>1 DEF SameCall
  <1> HIDE DEF d
  <1>7. IsWorkedFor(c, d)
    <2>1. WorkMoves(c, work) /\ work # "none"
      BY <1>2 DEF WorkMoves
    <2>2. QED
      BY <1>1, <1>6, <2>1 DEF IsWorkedFor, WorkMoves
  <1>8. QED
    BY <1>3, <1>4, <1>6, <1>7, UpdateIsStep DEF CallSteps

LEMMA EveryApiStep ==
  ASSUME WebApiInv, WebApiNext
  PROVE  SessionEnds \/ \E slot \in ApiSlots : StepOf(slot)
  BY SendSteps, GuardSteps, ItselfSteps, AcceptSteps, WorkSteps, ReplySteps, LossSteps
     DEF WebApiNext, WebApiProgress

LEMMA WebApiStarts == WebApiInit => WebApiInv
  BY NoCallIsTyped DEF WebApiInit, WebApiInv, JarShape

LEMMA WebApiKept == WebApiInv /\ [WebApiNext]_apiVars => WebApiInv'
  <1> SUFFICES ASSUME WebApiInv, [WebApiNext]_apiVars  PROVE WebApiInv'
    OBVIOUS
  <1>1. CASE \E slot \in ApiSlots : StepOf(slot)
    <2>1. PICK slot \in ApiSlots : StepOf(slot)
      BY <1>1
    <2> DEFINE c == apiCalls[slot]
               d == apiCalls'[slot]
    <2>2. c \in CallShape /\ CallInv(c) /\ d \in CallShape /\ CallSteps(c, d)
      BY <2>1 DEF WebApiInv, StepOf
    <2> HIDE DEF c, d
    <2>3. CallInv(d)
      BY <2>2, SentKeeps, PassesKeeps, AnsweredKeeps, WorkedForKeeps DEF CallSteps
    <2>4. QED
      BY <2>1, <2>3 DEF StepOf, WebApiInv, d
  <1>2. CASE UNCHANGED <<jar, apiCalls>>
    BY <1>2 DEF WebApiInv
  <1>3. QED
    BY <1>1, <1>2, EveryApiStep DEF apiVars, SessionEnds

LEMMA HonestAnswers == WebApiInv => AnswersAreHonest
  <1> SUFFICES ASSUME WebApiInv, NEW slot \in ApiSlots, NEW call, call = apiCalls[slot],
                      call.handler.effect \notin {"read", "none"}
               PROVE  /\ call.answer = "refused" =>
                            /\ call.work \notin {"accepted", "begun", "done"}
                            /\ call.work = "stopped" => call.handler.effect = "steps"
                      /\ call.answer = "done" =>
                            call.work = "done" \/ call.handler.answers = "accepts"
    BY DEF AnswersAreHonest
  <1>1. CallInv(call) /\ SoundHandler(call.handler)
    BY HandlersAreSound DEF WebApiInv, CallShape
  <1>2. QED
    BY <1>1 DEF CallInv, SoundHandler

LEMMA ReportedWork == WebApiInv => CompletedWorkIsReported
  BY DEF WebApiInv, CallInv, CompletedWorkIsReported, RoleHandlers

-------------------------------------------------------------------------------
(* The tokens of the calls: each was issued before the one that is issued next. *)

\* What is left of the guards of a call is the end of its handler's.
RestOf(guards, n) == SubSeq(guards, n, Len(guards))
IsRest(rest, guards) == \E n \in 1 .. Len(guards) + 1 : rest = RestOf(guards, n)

LEMMA RestsOfGuards ==
  ASSUME NEW guards \in Seq(GuardNames)
  PROVE  /\ IsRest(guards, guards) /\ IsRest(<< >>, guards)
         /\ \A rest : IsRest(rest, guards) /\ rest # << >> => IsRest(Tail(rest), guards)
  <1>1. Len(guards) \in Nat /\ 1 \in 1 .. Len(guards) + 1 /\ Len(guards) + 1 \in 1 .. Len(guards) + 1
    OBVIOUS
  <1>2. RestOf(guards, 1) = guards
    BY <1>1 DEF RestOf
  <1>3. RestOf(guards, Len(guards) + 1) = << >>
    BY <1>1 DEF RestOf
  <1>4. ASSUME NEW n \in 1 .. Len(guards) + 1, RestOf(guards, n) # << >>
        PROVE  n + 1 \in 1 .. Len(guards) + 1 /\ Tail(RestOf(guards, n)) = RestOf(guards, n + 1)
    <2> DEFINE r == RestOf(guards, n)
               t == RestOf(guards, n + 1)
    <2>1. r \in Seq(GuardNames) /\ Len(r) = Len(guards) + 1 - n
          /\ \A i \in 1 .. Len(r) : r[i] = guards[n + i - 1]
      BY <1>1 DEF RestOf
    <2>2. n <= Len(guards)
      <3>1. Len(r) # 0
        BY <1>4, <2>1
      <3>2. QED
        BY <1>1, <2>1, <3>1
    <2>3. t \in Seq(GuardNames) /\ Len(t) = Len(guards) - n
          /\ \A i \in 1 .. Len(t) : t[i] = guards[n + i]
      BY <1>1, <2>2 DEF RestOf
    <2>4. Tail(r) \in Seq(GuardNames) /\ Len(Tail(r)) = Len(r) - 1
          /\ \A i \in 1 .. Len(Tail(r)) : Tail(r)[i] = r[i + 1]
      BY <1>4, <2>1
    <2> HIDE DEF r, t
    <2>5. Tail(r) = t
      <3> DEFINE g == Len(guards)
      <3>a. n \in Nat /\ g \in Nat /\ n <= g
        BY <1>1, <2>2
      <3>b. Len(Tail(r)) = Len(r) - 1 /\ Len(r) = g + 1 - n /\ Len(t) = g - n
        BY <2>1, <2>3, <2>4
      <3> HIDE DEF g
      <3>1. Len(Tail(r)) = Len(t) /\ Len(t) \in Nat
        BY <3>a, <3>b
      <3>2. ASSUME NEW i \in 1 .. Len(Tail(r)) PROVE Tail(r)[i] = t[i]
        <4>1. i \in Nat /\ i + 1 \in 1 .. Len(r) /\ i \in 1 .. Len(t)
          BY <1>1, <2>1, <2>2, <2>3, <2>4
        <4>2. Tail(r)[i] = r[i + 1] /\ r[i + 1] = guards[n + (i + 1) - 1] /\ t[i] = guards[n + i]
          BY <2>1, <2>3, <2>4, <4>1
        <4>3. n + (i + 1) - 1 = n + i
          BY <1>1, <4>1
        <4>4. QED
          BY <4>2, <4>3
      <3>3. QED
        BY <2>3, <2>4, <3>1, <3>2, SeqEqual
    <2>6. QED
      BY <1>1, <2>2, <2>5 DEF r, t
  <1>5. QED
    BY <1>1, <1>2, <1>3, <1>4 DEF IsRest

\* How many calls of two were given a token.
Given(call) == IF call.issued # 0 THEN 1 ELSE 0

LEMMA TokensGiven ==
  ASSUME NEW calls
  PROVE  Cardinality({slot \in ApiSlots : calls[slot].issued # 0})
            = Given(calls["page"]) + Given(calls["account"])
  <1> DEFINE some == {slot \in ApiSlots : calls[slot].issued # 0}
             p == calls["page"].issued # 0
             a == calls["account"].issued # 0
  <1>1. /\ some = (IF p THEN {"page"} ELSE {}) \cup (IF a THEN {"account"} ELSE {})
    BY DEF ApiSlots
  <1>2. /\ Cardinality({}) = 0 /\ Cardinality({"page"}) = 1 /\ Cardinality({"account"}) = 1
        /\ Cardinality({"page", "account"}) = 2
    <2>1. IsFiniteSet({"page"}) /\ Cardinality({"page"}) = 1 /\ Cardinality({"account"}) = 1
      BY FS_Singleton
    <2>2. Cardinality({"page"} \cup {"account"}) = 2
      BY <2>1, FS_AddElement
    <2>3. {"page", "account"} = {"page"} \cup {"account"}
      OBVIOUS
    <2>4. QED
      BY <2>1, <2>2, <2>3, FS_EmptySet
  <1>a. p \in BOOLEAN /\ a \in BOOLEAN
    OBVIOUS
  <1> HIDE DEF some, p, a
  <1>3. Cardinality(some) = (IF p THEN 1 ELSE 0) + (IF a THEN 1 ELSE 0)
    <2>1. CASE p /\ a
      <3>1. some = {"page", "account"}
        BY <1>1, <2>1
      <3>2. QED
        BY <1>2, <2>1, <3>1
    <2>2. CASE p /\ ~a
      <3>1. some = {"page"}
        BY <1>1, <2>2
      <3>2. QED
        BY <1>2, <2>2, <3>1
    <2>3. CASE ~p /\ a
      <3>1. some = {"account"}
        BY <1>1, <2>3
      <3>2. QED
        BY <1>2, <2>3, <3>1
    <2>4. CASE ~p /\ ~a
      <3>1. some = {}
        BY <1>1, <2>4
      <3>2. QED
        BY <1>2, <2>4, <3>1
    <2>5. QED
      BY <2>1, <2>2, <2>3, <2>4
  <1>4. QED
    BY <1>3 DEF Given, some, p, a

\* Every token there is was issued before the next one, and for a call that Core has worked
\* for; and a call has the guards of its handler still to pass, from some guard on.
TokenInv(c) ==
    /\ c.token \in 0 .. FreshToken - 1 /\ c.issued \in 0 .. FreshToken - 1
    /\ c.work \in Unfinished => c.issued = 0
    /\ IsRest(c.guards, c.handler.guards)
    /\ c.stale => c.token \notin live
    /\ c.work \in {"accepted", "begun"} /\ NeedsSession(c.handler) => ~c.stale

TokensInv ==
    /\ jar.session \in 0 .. FreshToken - 1
    /\ live \subseteq 1 .. FreshToken - 1
    /\ \A slot \in ApiSlots : TokenInv(apiCalls[slot])

\* What a step does to the tokens of a slot, whose call c becomes d.
TokenStep(slot, c, d) ==
    /\ apiCalls[slot] = c /\ apiCalls'[slot] = d
    /\ \A other \in ApiSlots \ {slot} : apiCalls'[other] = apiCalls[other]
    /\ jar'.session \in {jar.session, 0, c.token, c.issued}
    /\ d.token \in {c.token, 0, jar.session}
    /\ \/ d.issued = c.issued /\ live' \subseteq live
       \/ /\ d.issued = FreshToken /\ c.work \in Unfinished
          /\ live' \subseteq live \cup {FreshToken}
    /\ d.work \in Unfinished => c.work \in Unfinished /\ d.issued = c.issued
    /\ \/ d.guards = c.guards /\ d.handler = c.handler
       \/ c.guards # << >> /\ d.guards = Tail(c.guards) /\ d.handler = c.handler
       \/ d.guards = d.handler.guards
    /\ \/ d.stale = FALSE
       \/ d.stale = c.stale /\ d.token = c.token
       \/ d.stale = (jar.session \notin live) /\ d.token = jar.session /\ live' = live
    /\ d.work \in {"accepted", "begun"} =>
          /\ d.handler = c.handler /\ (d.stale => c.stale)
          /\ c.work \in {"accepted", "begun"} \/ (NeedsSession(c.handler) => c.token \in live)

LEMMA TokenStepKeeps ==
  ASSUME WebApiInv, WebApiInv', TokensInv, NEW slot \in ApiSlots, NEW c, NEW d,
         TokenStep(slot, c, d)
  PROVE  TokensInv'
  <1>1. FreshToken \in Nat /\ FreshToken >= 2 /\ FreshToken' \in Nat /\ FreshToken' >= FreshToken
        /\ (d.issued # c.issued => FreshToken' = FreshToken + 1)
    <2> DEFINE before(s) == Given(apiCalls[s])
               after(s) == Given(apiCalls'[s])
    <2>1. FreshToken = 1 + (before("page") + before("account")) + 1
      BY TokensGiven DEF FreshToken
    <2>2. FreshToken' = 1 + (after("page") + after("account")) + 1
      BY TokensGiven DEF FreshToken
    <2>3. \A s \in ApiSlots : before(s) \in {0, 1} /\ after(s) \in {0, 1}
      BY DEF Given
    <2>4. \A s \in ApiSlots \ {slot} : after(s) = before(s)
      BY DEF TokenStep
    <2>5. c.work \in Unfinished => c.issued = 0
      BY DEF TokensInv, TokenInv, TokenStep
    <2>6. /\ before(slot) = (IF c.issued # 0 THEN 1 ELSE 0)
          /\ after(slot) = (IF d.issued # 0 THEN 1 ELSE 0)
      BY DEF Given, TokenStep
    <2>7. d.issued = c.issued \/ (d.issued = FreshToken /\ c.issued = 0)
      BY <2>5 DEF TokenStep
    <2>8. FreshToken \in Nat \ {0}
      BY <2>1, <2>3 DEF ApiSlots
    <2>9. /\ after(slot) >= before(slot)
          /\ d.issued # c.issued => after(slot) = before(slot) + 1
      BY <2>6, <2>7, <2>8
    <2>10. slot = "page" \/ slot = "account"
      BY DEF ApiSlots
    <2> HIDE DEF before, after
    <2>11. QED
      BY <2>1, <2>2, <2>3, <2>4, <2>9, <2>10 DEF ApiSlots
  <1>2. 0 .. FreshToken - 1 \subseteq 0 .. FreshToken' - 1
        /\ 1 .. FreshToken - 1 \subseteq 1 .. FreshToken' - 1
    <2>1. \A a, b \in Nat : a <= b => 0 .. a - 1 \subseteq 0 .. b - 1 /\ 1 .. a - 1 \subseteq 1 .. b - 1
      OBVIOUS
    <2>2. QED
      BY <1>1, <2>1
  <1>3. TokenInv(c) /\ jar.session \in 0 .. FreshToken - 1 /\ live \subseteq 1 .. FreshToken - 1
    BY DEF TokensInv, TokenStep
  <1>4. jar'.session \in 0 .. FreshToken' - 1
    BY <1>1, <1>2, <1>3 DEF TokenStep, TokenInv
  <1>5. d.token \in 0 .. FreshToken' - 1
    BY <1>1, <1>2, <1>3 DEF TokenStep, TokenInv
  <1>6. d.issued \in 0 .. FreshToken' - 1 /\ live' \subseteq 1 .. FreshToken' - 1
    <2>1. CASE d.issued = c.issued /\ live' \subseteq live
      BY <1>2, <1>3, <2>1 DEF TokenInv
    <2>2. CASE /\ d.issued = FreshToken /\ c.work \in Unfinished
               /\ live' \subseteq live \cup {FreshToken}
      <3>1. FreshToken' = FreshToken + 1
        BY <1>1, <1>3, <2>2 DEF TokenInv
      <3>2. QED
        BY <1>1, <1>3, <2>2, <3>1
    <2>3. QED
      BY <2>1, <2>2 DEF TokenStep
  <1>7. d.work \in Unfinished => d.issued = 0
    BY <1>3 DEF TokenStep, TokenInv
  <1>8. IsRest(d.guards, d.handler.guards)
    <2>1. c.handler.guards \in Seq(GuardNames) /\ d.handler.guards \in Seq(GuardNames)
      <3>1. c.handler \in ApiHandlers /\ d.handler \in ApiHandlers
        BY DEF TokenStep, WebApiInv, CallShape
      <3>2. QED
        BY <3>1, HandlersAreSound DEF SoundHandler
    <2>2. IsRest(c.guards, c.handler.guards)
      BY <1>3 DEF TokenInv
    <2>3. QED
      BY <2>1, <2>2, RestsOfGuards DEF TokenStep
  <1>9. /\ \A token \in 0 .. FreshToken - 1 : token \notin live => token \notin live'
        /\ 0 .. FreshToken - 1 \subseteq Nat
    <2>1. live' \subseteq live \cup {FreshToken} /\ FreshToken \notin 0 .. FreshToken - 1
      BY <1>1 DEF TokenStep
    <2>2. QED
      BY <1>1, <2>1
  <1>10. d.stale => d.token \notin live'
    <2>1. CASE d.stale = c.stale /\ d.token = c.token
      BY <1>3, <1>9, <2>1 DEF TokenInv
    <2>2. CASE d.stale = (jar.session \notin live) /\ d.token = jar.session /\ live' = live
      BY <2>2
    <2>3. QED
      BY <2>1, <2>2 DEF TokenStep
  <1>11. d.work \in {"accepted", "begun"} /\ NeedsSession(d.handler) => ~d.stale
    BY <1>3 DEF TokenStep, TokenInv
  <1>12. TokenInv(d)'
    BY <1>5, <1>6, <1>7, <1>8, <1>10, <1>11 DEF TokenInv
  <1>13. ASSUME NEW other \in ApiSlots \ {slot} PROVE TokenInv(apiCalls[other])'
    <2>1. TokenInv(apiCalls[other]) /\ apiCalls'[other] = apiCalls[other]
      BY DEF TokensInv, TokenStep
    <2>2. QED
      BY <1>2, <1>9, <2>1 DEF TokenInv
  <1>14. QED
    BY <1>4, <1>6, <1>12, <1>13 DEF TokensInv, TokenStep

\* A call that is updated to d: the calls of the other slots stay what they are.
LEMMA UpdateTokens ==
  ASSUME WebApiInv, NEW slot \in ApiSlots, NEW d,
         apiCalls' = [apiCalls EXCEPT ![slot] = d]
  PROVE  apiCalls'[slot] = d /\ \A other \in ApiSlots \ {slot} : apiCalls'[other] = apiCalls[other]
  BY DEF WebApiInv

LEMMA SendTokens ==
  ASSUME WebApiInv, NEW slot \in ApiSlots, SendCall(slot)
  PROVE  \E c, d : TokenStep(slot, c, d)
  <1>1. PICK h \in HandlersOf(slot) :
            \E csrf \in Headers(h), content \in Contents(h) :
                apiCalls' = [apiCalls EXCEPT ![slot] =
                    [NoCall EXCEPT !.handler = h, !.token = jar.session,
                                   !.stale = jar.session \notin live, !.csrf = csrf,
                                   !.content = content, !.guards = h.guards,
                                   !.answer = "none"]]
    BY DEF SendCall
  <1>2. PICK csrf \in Headers(h), content \in Contents(h) :
            apiCalls' = [apiCalls EXCEPT ![slot] =
                [NoCall EXCEPT !.handler = h, !.token = jar.session,
                               !.stale = jar.session \notin live, !.csrf = csrf,
                               !.content = content, !.guards = h.guards, !.answer = "none"]]
    BY <1>1
  <1> DEFINE d == [NoCall EXCEPT !.handler = h, !.token = jar.session,
                                 !.stale = jar.session \notin live, !.csrf = csrf,
                                 !.content = content, !.guards = h.guards, !.answer = "none"]
  <1>3. /\ d.token = jar.session /\ d.issued = NoCall.issued /\ NoCall.work = "none"
        /\ d.guards = d.handler.guards /\ d.work = "none"
        /\ d.stale = (jar.session \notin live)
    BY DEF NoCall
  <1>4. apiCalls' = [apiCalls EXCEPT ![slot] = d]
    BY <1>2
  <1>5. apiCalls[slot] = NoCall /\ jar' = jar /\ live' = live
    BY DEF SendCall
  <1> HIDE DEF d
  <1>6. TokenStep(slot, NoCall, d)
    BY <1>3, <1>4, <1>5, UpdateTokens DEF TokenStep, Unfinished
  <1>7. QED
    BY <1>6

LEMMA AnswerTokens ==
  ASSUME WebApiInv, NEW slot \in ApiSlots, NEW answer \in Answers,
         NEW heard \in {"nothing", "value", "strange", "empty"},
         ApiAnswer(slot, answer, heard), live' = live,
         jar'.session \in {jar.session, 0, apiCalls[slot].token, apiCalls[slot].issued}
  PROVE  \E c, d : TokenStep(slot, c, d)
  <1> DEFINE c == apiCalls[slot]
             call == [c EXCEPT !.answer = answer, !.heard = heard]
             d == Remembered(call)
  <1>1. c \in CallShape
    BY DEF WebApiInv
  <1>2. apiCalls' = [apiCalls EXCEPT ![slot] = d]
    BY DEF ApiAnswer
  <1>3. /\ call \in CallShape /\ SameCall(c, call)
        /\ call.token = c.token /\ call.stale = c.stale
    <2> HIDE DEF c
    <2>1. QED
      BY <1>1 DEF CallShape, SameCall
  <1> HIDE DEF call
  <1>4. /\ d.issued = c.issued /\ d.guards = c.guards /\ d.handler = c.handler /\ d.work = c.work
        /\ \/ d.stale = FALSE /\ d.token = 0
           \/ d.stale = c.stale /\ d.token = c.token
    BY <1>3, Remembers DEF SameCall
  <1> HIDE DEF d
  <1>5. TokenStep(slot, c, d)
    BY <1>2, <1>4, UpdateTokens DEF TokenStep
  <1>6. QED
    BY <1>5

LEMMA GuardTokens ==
  ASSUME WebApiInv, NEW slot \in ApiSlots, CheckGuard(slot)
  PROVE  \E c, d : TokenStep(slot, c, d)
  <1> DEFINE c == apiCalls[slot]
  <1>1. /\ c \in CallShape /\ c.guards # << >> /\ jar' = jar /\ live' = live
    BY DEF WebApiInv, CheckGuard
  <1>2. CASE apiCalls' = [apiCalls EXCEPT ![slot].guards = Tail(@)]
    <2> DEFINE d == [c EXCEPT !.guards = Tail(@)]
    <2>1. apiCalls' = [apiCalls EXCEPT ![slot] = d]
      BY <1>2
    <2>2. /\ d.issued = c.issued /\ d.token = c.token /\ d.guards = Tail(c.guards)
          /\ d.handler = c.handler /\ d.work = c.work /\ d.stale = c.stale
      <3> HIDE DEF c
      <3>1. QED
        BY <1>1 DEF CallShape
    <2> HIDE DEF d
    <2>3. TokenStep(slot, c, d)
      BY <1>1, <2>1, <2>2, UpdateTokens DEF TokenStep
    <2>4. QED
      BY <2>3
  <1>3. ASSUME NEW outcome \in GuardOutcomes(c), outcome # "passes",
               ApiAnswer(slot, outcome, "nothing")
        PROVE  \E a, b : TokenStep(slot, a, b)
    <2>1. outcome \in Answers
      BY <1>3 DEF GuardOutcomes, requireApiSession, lookupUser, csrfIsValid, Answers
    <2>2. QED
      BY <1>1, <1>3, <2>1, AnswerTokens
  <1>4. QED
    BY <1>2, <1>3 DEF CheckGuard

LEMMA ItselfTokens ==
  ASSUME WebApiInv, NEW slot \in ApiSlots, AnswersItself(slot)
  PROVE  \E c, d : TokenStep(slot, c, d)
  <1>1. ApiAnswer(slot, "done", "nothing") /\ live' = live
    BY DEF AnswersItself
  <1>2. jar'.session = jar.session
    BY DEF AnswersItself, WebApiInv, JarShape
  <1>3. QED
    BY <1>1, <1>2, AnswerTokens DEF Answers

LEMMA ReplyTokens ==
  ASSUME WebApiInv, NEW slot \in ApiSlots, ReplyArrives(slot)
  PROVE  \E c, d : TokenStep(slot, c, d)
  <1> DEFINE c == apiCalls[slot]
  <1>1. PICK heard \in ReplyBodies(c) :
            LET answer == Answer(c.handler.answers, c.work, heard)
            IN  ApiAnswer(slot, answer, heard) /\ SetCookies(c, answer)
    BY DEF ReplyArrives
  <1> DEFINE answer == Answer(c.handler.answers, c.work, heard)
  <1>2. ApiAnswer(slot, answer, heard) /\ SetCookies(c, answer) /\ live' = live
    BY <1>1 DEF ReplyArrives
  <1>3. jar'.session \in {jar.session, 0, c.token, c.issued}
    <2>1. jar \in JarShape
      BY DEF WebApiInv
    <2> HIDE DEF c, answer
    <2>2. \/ jar' = [session |-> c.issued, csrf |-> TRUE]
          \/ jar' = [session |-> 0, csrf |-> FALSE]
          \/ jar' = [jar EXCEPT !.session = c.token]
          \/ jar' = jar
      BY <1>2 DEF SetCookies, setAuthCookies, clearAuthCookies
    <2>3. QED
      BY <2>1, <2>2 DEF JarShape
  <1>4. answer \in Answers /\ heard \in {"nothing", "value", "strange", "empty"}
    <2>1. c \in CallShape /\ c.work \notin Unfinished /\ SoundHandler(c.handler)
      BY HandlersAreSound DEF WebApiInv, ReplyArrives, CallShape
    <2>2. QED
      BY <2>1, RepliesAreHonest DEF Answers
  <1> HIDE DEF answer
  <1>5. QED
    BY <1>2, <1>3, <1>4, AnswerTokens

LEMMA LossTokens ==
  ASSUME WebApiInv, NEW slot \in ApiSlots, ReplyIsLost(slot)
  PROVE  \E c, d : TokenStep(slot, c, d)
  <1> DEFINE answer == IF apiCalls[slot].handler.answers = "always" THEN "done" ELSE "unavailable"
  <1>1. ApiAnswer(slot, answer, "nothing") /\ live' = live
    BY DEF ReplyIsLost
  <1>2. jar'.session \in {jar.session, 0}
    BY DEF ReplyIsLost, clearAuthCookies
  <1>3. answer \in Answers
    BY DEF Answers
  <1> HIDE DEF answer
  <1>4. QED
    BY <1>1, <1>2, <1>3, AnswerTokens

LEMMA AcceptTokens ==
  ASSUME WebApiInv, NEW slot \in ApiSlots, CoreAccepts(slot)
  PROVE  \E c, d : TokenStep(slot, c, d)
  <1> DEFINE c == apiCalls[slot]
             d == [c EXCEPT !.work = "accepted"]
  <1>1. c \in CallShape /\ c.work = "none" /\ (NeedsSession(c.handler) => c.token \in live)
    BY DEF WebApiInv, CoreAccepts
  <1>2. apiCalls' = [apiCalls EXCEPT ![slot] = d] /\ jar' = jar /\ live' = live
    BY DEF CoreAccepts
  <1>3. /\ d.work = "accepted" /\ d.handler = c.handler /\ d.guards = c.guards
        /\ d.token = c.token /\ d.stale = c.stale /\ d.issued = c.issued
    <2> HIDE DEF c
    <2>1. QED
      BY <1>1 DEF CallShape
  <1> HIDE DEF d
  <1>4. TokenStep(slot, c, d)
    BY <1>1, <1>2, <1>3, UpdateTokens DEF TokenStep, Unfinished
  <1>5. QED
    BY <1>4

LEMMA WorkTokens ==
  ASSUME WebApiInv, TokensInv, NEW slot \in ApiSlots, ServiceHandles(slot)
  PROVE  \E c, d : TokenStep(slot, c, d)
  <1> DEFINE c == apiCalls[slot]
  <1>1. c \in CallShape /\ TokenInv(c)
    BY DEF WebApiInv, TokensInv
  <1>2. PICK work, issued :
            /\ WorkMoves(c, work) /\ Worked(slot, work, issued)
            /\ \/ issued = 0 /\ live' \subseteq live
               \/ work = "done" /\ issued = FreshToken /\ live' \subseteq live \cup {FreshToken}
    BY ServiceMoves
  <1>3. jar' = jar /\ issued \in Nat /\ c.issued = 0
    BY <1>1, <1>2, FreshTokenIsNat DEF ServiceHandles, TokenInv, WorkMoves
  <1> DEFINE worked == [c EXCEPT !.work = work, !.issued = issued]
             d == Remembered(worked)
  <1>4. apiCalls' = [apiCalls EXCEPT ![slot] = d]
    BY <1>2 DEF Worked
  <1>5. /\ worked \in CallShape /\ worked.work = work /\ worked.handler = c.handler
        /\ worked.guards = c.guards /\ worked.token = c.token /\ worked.stale = c.stale
        /\ worked.issued = issued
    <2>1. work \in Works
      BY <1>2 DEF WorkMoves, Works, Unfinished
    <2> HIDE DEF c
    <2>2. QED
      BY <1>1, <1>3, <2>1 DEF CallShape
  <1> HIDE DEF worked
  <1>6. /\ d.issued = issued /\ d.guards = c.guards /\ d.handler = c.handler /\ d.work = work
        /\ \/ d.stale = FALSE /\ d.token = 0
           \/ d.stale = c.stale /\ d.token = c.token
    BY <1>5, Remembers DEF SameCall
  <1> HIDE DEF d
  <1>7. TokenStep(slot, c, d)
    BY <1>2, <1>3, <1>4, <1>6, UpdateTokens DEF TokenStep, WorkMoves, Unfinished
  <1>8. QED
    BY <1>7

LEMMA TokensStart == WebApiInit => TokensInv
  <1> SUFFICES ASSUME WebApiInit PROVE TokensInv
    OBVIOUS
  <1>1. /\ jar.session \in {0, 1} /\ live = {1}
        /\ \A slot \in ApiSlots : apiCalls[slot] = NoCall
    BY DEF WebApiInit
  <1>2. /\ NoCall.token = 0 /\ NoCall.issued = 0 /\ NoCall.guards = << >>
        /\ NoCall.handler = authMeGet /\ NoCall.stale = FALSE
    BY DEF NoCall
  <1>3. FreshToken = 2
    <2>1. Given(apiCalls["page"]) = 0 /\ Given(apiCalls["account"]) = 0
      BY <1>1, <1>2 DEF Given, ApiSlots
    <2>2. Cardinality({slot \in ApiSlots : apiCalls[slot].issued # 0})
             = Given(apiCalls["page"]) + Given(apiCalls["account"])
      BY TokensGiven
    <2>3. QED
      BY <2>1, <2>2 DEF FreshToken
  <1>4. IsRest(<< >>, authMeGet.guards)
    <2>1. authMeGet \in ApiHandlers
      BY DEF ApiHandlers
    <2>2. authMeGet.guards \in Seq(GuardNames)
      BY <2>1, HandlersAreSound DEF SoundHandler
    <2>3. QED
      BY <2>2, RestsOfGuards
  <1>5. QED
    BY <1>1, <1>2, <1>3, <1>4 DEF TokensInv, TokenInv

LEMMA TokensKept == WebApiInv /\ TokensInv /\ [WebApiNext]_apiVars => TokensInv'
  <1> SUFFICES ASSUME WebApiInv, TokensInv, [WebApiNext]_apiVars PROVE TokensInv'
    OBVIOUS
  <1>1. WebApiInv'
    BY WebApiKept
  <1>2. CASE \E slot \in ApiSlots : \E c, d : TokenStep(slot, c, d)
    BY <1>1, <1>2, TokenStepKeeps
  <1>3. CASE live' \subseteq live /\ UNCHANGED <<jar, apiCalls>>
    BY <1>3 DEF TokensInv, TokenInv, FreshToken
  <1>4. CASE SessionEnds
    BY <1>3, <1>4 DEF SessionEnds
  <1>5. CASE UNCHANGED apiVars
    BY <1>3, <1>5 DEF apiVars
  <1>6. QED
    BY <1>2, <1>4, <1>5, SendTokens, GuardTokens, ItselfTokens, AcceptTokens, WorkTokens,
       ReplyTokens, LossTokens DEF WebApiNext, WebApiProgress

LEMMA AuthorisedWrites ==
  ASSUME WebApiInv, TokensInv, [WebApiNext]_apiVars, NEW slot \in ApiSlots,
         apiCalls'[slot].work \in {"begun", "done"}, apiCalls[slot].work # apiCalls'[slot].work,
         apiCalls[slot].handler.effect # "read", apiCalls[slot].handler \notin PublicHandlers
  PROVE  /\ ~apiCalls[slot].stale
         /\ IF apiCalls[slot].handler.answers = "redirects" THEN apiCalls[slot].content = "good"
            ELSE apiCalls[slot].csrf
  <1> DEFINE c == apiCalls[slot]
             d == apiCalls'[slot]
  <1>1. \E one \in ApiSlots : StepOf(one)
    BY EveryApiStep DEF apiVars, SessionEnds
  <1>2. CallSteps(c, d)
    BY <1>1 DEF StepOf
  <1>3. c \in CallShape /\ CallInv(c) /\ SoundHandler(c.handler) /\ TokenInv(c)
    BY HandlersAreSound DEF WebApiInv, CallShape, TokensInv
  <1> HIDE DEF c, d
  <1>4. IsWorkedFor(c, d)
    <2>1. d.work \in {"begun", "done"} /\ c.work # d.work
      BY DEF c, d
    <2>2. PassesGuard(c, d) => d.work = c.work
      BY <1>3 DEF PassesGuard, CallShape
    <2>3. QED
      BY <1>2, <2>1, <2>2 DEF CallSteps, IsSent, IsAnswered, SameCall
  <1>5. c.work \in {"accepted", "begun"} /\ c.guards = << >> /\ c.handler.effect # "none"
        /\ c.answer # "unsent"
    BY <1>4 DEF IsWorkedFor, c, d
  <1>6. /\ HasGuard(c.handler.guards, "session")
        /\ HasGuard(c.handler.guards, IF c.handler.answers = "redirects" THEN "input" ELSE "csrf")
    BY <1>3, <1>5 DEF SoundHandler, c
  <1>7. Guarded(c) /\ ~HasGuard(c.guards, "csrf") /\ ~HasGuard(c.guards, "input")
    <2>1. Guarded(c)
      BY <1>3, <1>5 DEF CallInv, Unfinished
    <2>2. QED
      BY <1>5, <2>1 DEF HasGuard
  <1>8. NeedsSession(c.handler)
    BY <1>6 DEF NeedsSession, HasGuard
  <1>9. ~c.stale
    BY <1>3, <1>5, <1>8 DEF TokenInv
  <1>10. QED
    BY <1>6, <1>7, <1>9 DEF Guarded, c

\* Two calls, so at most two tokens are issued beside the first.
LEMMA TokensMean ==
  ASSUME WebApiInv, TokensInv
  PROVE  WebApiTypeOK
  <1>1. FreshToken \in 2 .. 4
    <2>1. Given(apiCalls["page"]) \in {0, 1} /\ Given(apiCalls["account"]) \in {0, 1}
      BY DEF Given
    <2>2. QED
      BY <2>1, TokensGiven DEF FreshToken
  <1>2. 0 .. FreshToken - 1 \subseteq 0 .. 3 /\ 1 .. FreshToken - 1 \subseteq 1 .. 3
    BY <1>1
  <1>3. jar \in [session : 0 .. 3, csrf : BOOLEAN] /\ live \subseteq 1 .. 3
    <2>1. jar \in JarShape /\ jar.session \in 0 .. 3 /\ live \subseteq 1 .. 3
      BY <1>2 DEF WebApiInv, TokensInv
    <2>2. QED
      BY <2>1 DEF JarShape
  <1>4. ASSUME NEW slot \in ApiSlots, NEW call, call = apiCalls[slot]
        PROVE  /\ call.handler \in ApiHandlers
               /\ call.token \in 0 .. 3 /\ call.issued \in 0 .. 3
               /\ call.csrf \in BOOLEAN /\ call.stale \in BOOLEAN
               /\ call.content \in {"good", "invalid", "broken"}
               /\ call.guards \in {SubSeq(call.handler.guards, n, Len(call.handler.guards)) :
                                       n \in 1 .. Len(call.handler.guards) + 1}
               /\ call.work \in Unfinished \cup {"done", "refused", "stopped", "failed"}
               /\ call.heard \in {"nothing", "value", "strange", "empty"}
               /\ call.answer \in {"unsent", "none", "done", "refused", "unavailable"}
    <2>1. call \in CallShape /\ TokenInv(call)
      BY <1>4 DEF WebApiInv, TokensInv
    <2>2. call.token \in 0 .. 3 /\ call.issued \in 0 .. 3
      BY <1>2, <2>1 DEF TokenInv
    <2>3. call.guards \in {SubSeq(call.handler.guards, n, Len(call.handler.guards)) :
                               n \in 1 .. Len(call.handler.guards) + 1}
      BY <2>1 DEF TokenInv, IsRest, RestOf
    <2>4. QED
      BY <2>1, <2>2, <2>3 DEF CallShape, Works, Answers
  <1>5. QED
    BY <1>3, <1>4 DEF WebApiTypeOK

-------------------------------------------------------------------------------
(* The workspace. *)

\* Every part starts in one of its initial states.
LEMMA PartsStart ==
  ASSUME Init
  PROVE  ShellInit /\ VoiceInit /\ DevicesInit /\ PanelsInit /\ WebApiInit /\ ContactInit
  <1>1. part \in Parts /\ AtRest(part) /\ Examined(part)
    BY DEF Init
  <1>2. ShellInit
    BY <1>1 DEF AtRest, Examined
  <1>3. VoiceInit
    BY <1>1 DEF AtRest, Examined
  <1>4. DevicesInit
    BY <1>1 DEF AtRest, Examined
  <1>5. PanelsInit
    BY <1>1 DEF AtRest, Examined
  <1>6. WebApiInit
    BY <1>1 DEF AtRest, Examined
  <1>7. ContactInit
    BY <1>1 DEF AtRest, Examined
  <1>8. QED
    BY <1>2, <1>3, <1>4, <1>5, <1>6, <1>7

\* A step of the workspace is a step of every part, or leaves it alone.
LEMMA PartsStep ==
  ASSUME [Next]_pageVars
  PROVE  /\ [ShellNext]_shellVars /\ [VoiceNext]_voiceVars /\ [DevicesNext]_deviceVars
         /\ [PanelsNext]_panel /\ [WebApiNext]_apiVars /\ [ContactNext]_contactVars
  <1>1. CASE UNCHANGED pageVars
    BY <1>1 DEF pageVars, shellVars, voiceVars, deviceVars, apiVars, contactVars
  <1>2. CASE ShellStep
    BY <1>2, Zenon DEF ShellStep, Only, OthersRest
  <1>3. CASE VoiceStep
    BY <1>3, Zenon DEF VoiceStep, Only, OthersRest
  <1>4. CASE DevicesStep
    BY <1>4, Zenon DEF DevicesStep, Only, OthersRest
  <1>5. CASE PanelsStep
    BY <1>5, Zenon DEF PanelsStep, Only, OthersRest
  <1>6. CASE ApiStep
    BY <1>6, Zenon DEF ApiStep, Only, OthersRest
  <1>7. CASE ContactStep
    BY <1>7, Zenon DEF ContactStep, Only, OthersRest
  <1>8. QED
    BY <1>1, <1>2, <1>3, <1>4, <1>5, <1>6, <1>7 DEF Next

\* The contact form: "sent" is shown only while the mailbox holds the message once and
\* with this text, a refusal only while it holds no copy, for any number of submissions.
THEOREM FormIsHonest == Spec => []ContactIsHonest
  <1>1. Init => ContactInv
    BY PartsStart, ContactInvInit
  <1>2. ContactInv /\ [Next]_pageVars => ContactInv'
    BY PartsStep, ContactInvNext
  <1>3. ContactInv => ContactIsHonest
    BY DEF ContactInv
  <1>4. QED
    BY <1>1, <1>2, <1>3, PTL DEF Spec

\* The frame of every page: the model and the voice in use are the saved ones wherever the
\* catalogue lists the model and the browser has the voice, and a model that is not ready is in
\* use only if it was saved or is the default, whatever was loaded or toggled in between.
THEOREM FrameSelectsSaved == Spec => []SelectionIsSaved
  <1>1. Init => ShellInv
    BY PartsStart, ShellInvInit
  <1>2. ShellInv /\ [Next]_pageVars => ShellInv'
    BY PartsStep, ShellInvNext
  <1>3. ShellInv => SelectionIsSaved
    BY DEF ShellInv
  <1>4. QED
    BY <1>1, <1>2, <1>3, PTL DEF Spec

\* The voice dialogue: its invariant holds of every reachable state.
LEMMA DialogueFitsTogether == Spec => []VoiceInv
  <1>1. Init => VoiceInv
    BY PartsStart, VoiceInvInit
  <1>2. VoiceInv /\ [Next]_pageVars => VoiceInv'
    BY PartsStep, VoiceStepKeeps
  <1>3. QED
    BY <1>1, <1>2, PTL DEF Spec

\* The browser never listens while it speaks, whatever timers, sessions and late callbacks
\* are still to come.
THEOREM DialogueIsNoEcho == Spec => []NeverHearsItself
  BY DialogueFitsTogether, VoiceIsSafe, PTL

\* The dialogue gives up an answer only when all of it was spoken, unless it failed or the
\* user paused it.
THEOREM DialogueSpeaksAll == Spec => SpeaksWholeAnswer
  <1>1. VoiceInv /\ [Next]_pageVars =>
          [ voice.pending /\ ~voice'.pending =>
              \/ chat.failed \/ voice.paused
              \/ ~chat.streaming /\ voice.queuedUntil = chat.text
                 /\ voice'.speaking = 0 ]_voiceVars
    BY PartsStep, VoiceStepKeeps DEF GivesUpRightly
  <1>2. QED
    BY <1>1, DialogueFitsTogether, PTL DEF Spec, SpeaksWholeAnswer

\* The devices page: what it shows of its devices and rooms never goes back to an older
\* observation or an older version, whatever order loads, refreshes and commands are answered
\* in, for any number of each.
THEOREM PageNeverGoesBack == Spec => ShownNeverGoesBack
  <1>1. Init => DevicesInv
    BY PartsStart, DevicesInvInit
  <1>2. DevicesInv /\ [Next]_pageVars => DevicesInv'
    BY PartsStep, DevicesStepKeeps
  <1>3. DevicesInv /\ [Next]_pageVars =>
          [ /\ \A d \in Devices :
                   devices.list[d].in /\ devices'.list[d].in /\ Observed(devices'.list[d]) =>
                       devices'.list[d].at >= devices.list[d].at
            /\ devices'.rooms # 0 => devices'.rooms >= devices.rooms ]_deviceVars
    BY PartsStep, DevicesStepKeeps DEF GoesOn, ListGoesOn
  <1>4. QED
    BY <1>1, <1>2, <1>3, PTL DEF Spec, ShownNeverGoesBack

\* The panels: what a panel of InOrder was told to have succeeded and reads back or has in
\* the reply, it shows once nothing is under way and nothing is said to be wanting, for any
\* number of loads and writes and whatever order they are answered in.
THEOREM PanelsShowSaved == Spec => []SavedIsShown
  <1> DEFINE Inv == panel \in PanelShape /\ PanelInv(panel) /\ PanelBounds(panel)
  <1>1. Init => Inv
    BY PartsStart, PanelStarts
  <1>2. Inv /\ [Next]_pageVars => Inv'
    BY PartsStep, PanelStepKeeps
  <1>3. Inv => SavedIsShown
    BY PanelShows
  <1>4. QED
    BY <1>1, <1>2, <1>3, PTL DEF Spec

\* The route handlers: the facts about the calls and their tokens hold of every reachable
\* state.
LEMMA CallsFitTogether == Spec => [](WebApiInv /\ TokensInv)
  <1>1. Init => WebApiInv /\ TokensInv
    BY PartsStart, WebApiStarts, TokensStart
  <1>2. WebApiInv /\ TokensInv /\ [Next]_pageVars => WebApiInv' /\ TokensInv'
    BY PartsStep, WebApiKept, TokensKept
  <1>3. QED
    BY <1>1, <1>2, PTL DEF Spec

\* A call answered with a 4xx was not done and will not be, or no more than a part of it
\* where Core commits the work in steps; one answered with success was done, unless its
\* handler answers so on purpose: for every handler and any tokens.
THEOREM AnswersAreFinal == Spec => []AnswersAreHonest
  BY CallsFitTogether, HonestAnswers, PTL

\* Work that Core has done is never answered with a 5xx because its acknowledgement is
\* empty, the role routes apart.
THEOREM DoneIsReported == Spec => []CompletedWorkIsReported
  BY CallsFitTogether, ReportedWork, PTL

\* What changes at Core was asked for with a matching CSRF header (or with the code and
\* state of an authorisation), and with a session that was not over when the call was sent:
\* whatever order a handler checks them in, and whatever sign-outs, password changes and
\* expiries come between the browser, Core's look at the session and Core's write.
THEOREM ChangesAreAuthorised == Spec => WritesAreAuthorised
  <1>1. WebApiInv /\ TokensInv /\ [Next]_pageVars =>
          [ \A slot \in ApiSlots :
              LET call == apiCalls[slot]
              IN  (/\ apiCalls'[slot].work \in {"begun", "done"} /\ call.work # apiCalls'[slot].work
                   /\ call.handler.effect # "read" /\ call.handler \notin PublicHandlers)
                  => /\ ~call.stale
                     /\ IF call.handler.answers = "redirects" THEN call.content = "good"
                        ELSE call.csrf ]_apiVars
    BY PartsStep, AuthorisedWrites
  <1>2. QED
    BY <1>1, CallsFitTogether, PTL DEF Spec, WritesAreAuthorised

LEMMA ShellTyped == ShellInv => ShellTypeOK
  BY DEF ShellInv, ShellTypeOK, ShellTypes, SidebarTypes, RequestTypes

\* The types of all parts, and the bounds on what is under way at once: timers, recognition
\* sessions and late callbacks of the dialogue, answers of a panel, polls of a command,
\* session tokens, for any value of the bounds.
THEOREM PagesAreTyped == Spec => []PagesTypeOK
  <1> DEFINE Inv ==
        /\ part \in Parts
        /\ ShellInv
        /\ VoiceInv /\ VoiceBounds
        /\ DevicesTypeOK
        /\ panel \in PanelShape /\ PanelInv(panel) /\ PanelBounds(panel)
        /\ WebApiInv /\ TokensInv
        /\ ContactInv
  <1>1. Init => Inv
    <2> SUFFICES ASSUME Init PROVE Inv
      OBVIOUS
    <2>1. part \in Parts
      BY DEF Init
    <2>2. QED
      BY <2>1, PartsStart, ShellInvInit, VoiceInvInit, VoiceBoundsInit, DevicesTypedInit,
         PanelStarts, WebApiStarts, TokensStart, ContactInvInit
  <1>2. Inv /\ [Next]_pageVars => Inv'
    <2> SUFFICES ASSUME Inv, [Next]_pageVars PROVE Inv'
      OBVIOUS
    <2>1. /\ [ShellNext]_shellVars /\ [VoiceNext]_voiceVars /\ [DevicesNext]_deviceVars
          /\ [PanelsNext]_panel /\ [WebApiNext]_apiVars /\ [ContactNext]_contactVars
      BY PartsStep
    <2>2. part' = part
      BY Zenon DEF Next, ShellStep, VoiceStep, DevicesStep, PanelsStep, ApiStep, ContactStep,
                   Only, pageVars
    <2>3. ShellInv'
      BY <2>1, ShellInvNext
    <2>4. VoiceInv' /\ VoiceBounds'
      BY <2>1, VoiceStepKeeps, VoiceStepBounds
    <2>5. DevicesTypeOK'
      BY <2>1, DevicesTypedNext
    <2>6. panel' \in PanelShape /\ PanelInv(panel') /\ PanelBounds(panel')
      BY <2>1, PanelStepKeeps
    <2>7. WebApiInv' /\ TokensInv'
      BY <2>1, WebApiKept, TokensKept
    <2>8. ContactInv'
      BY <2>1, ContactInvNext
    <2>9. QED
      BY <2>2, <2>3, <2>4, <2>5, <2>6, <2>7, <2>8
  <1>3. Inv => PagesTypeOK
    <2> SUFFICES ASSUME Inv PROVE PagesTypeOK
      OBVIOUS
    <2>1. ShellTypeOK /\ VoiceTypeOK /\ PanelsTypeOK /\ WebApiTypeOK /\ ContactTypeOK
      BY ShellTyped, BoundsMean, PanelTyped, TokensMean DEF ContactInv
    <2>2. QED
      BY <2>1 DEF PagesTypeOK
  <1> HIDE DEF Inv
  <1>4. QED
    BY <1>1, <1>2, <1>3, PTL DEF Spec

===============================================================================
