-------------------------------- MODULE ChatTurn --------------------------------
(***************************************************************************)
(* One chat turn after another, through the three places that have to agree *)
(* on it: the chat view in the browser, which shows what it is streamed and *)
(* may stop it; the route handler of the web application, which starts the *)
(* turn in Core, forwards the answer of the model and saves it; and Core,  *)
(* which keeps the conversation and the status of its turns.               *)
(*                                                                         *)
(* An answer is the number of its pieces. Turns are numbered in the order  *)
(* in which they were submitted. The route handler of a turn has a main    *)
(* loop and, once the browser has gone, a cancel callback next to it.      *)
(***************************************************************************)
EXTENDS Naturals, Sequences, FiniteSets, Functions

CONSTANTS MaxTurns, MaxText, MaxEvents, None

ASSUME BoundsAssumption == MaxTurns \in Nat /\ MaxText \in Nat \ {0} /\ MaxEvents \in Nat

Turns == 1 .. MaxTurns
Threads == {"loop", "cancel"}

VARIABLES
    view,       \* the mounted chat view: which instance, what it streams, its notices
    shown,      \* the messages of chatMessages of that view
    persisted,  \* hasPersisted of the first instance, which shows a new conversation
    heard,      \* heard[t]: the answer as the submission of turn t has received it
    page,       \* what router.replace is doing, and the transcript it rendered
    opened,     \* how many turns were submitted
    link,       \* link[t]: the events on their way to the browser, and how the stream ended
    gone,       \* gone[t]: the browser aborted the request; the handler noticed it
    route,      \* route[t]: the main loop of the handler
    call,       \* call[t][h]: the request to turns/complete of each thread
    status,     \* status[t]: the row of conversation_turn, or what became of its request
    log,        \* the rows of conversation_message
    failures    \* how many requests were lost so far

browser == <<view, shown, persisted, heard, page, opened>>
core == <<status, log>>
vars == <<browser, link, gone, route, call, core, failures>>

Message(r, t, n) == [role |-> r, turn |-> t, text |-> n]

Pcs == {"none", "model", "starting", "asking", "failing", "reading", "saving",
        "settling", "done"}
Requests == [status: {"completed", "stopped", "failed"}, text: 0 .. MaxText,
             phase: {"sent", "ok", "refused", "lost"}]

ASSUME NoneAssumption == None \notin Requests

Started == {"started", "completed", "stopped", "failed"}
Messages == [role: {"user", "assistant"}, turn: Turns, text: 0 .. MaxText]

TypeOK ==
    /\ view \in [instance: 0 .. 2, turn: {0} \union Turns, error: BOOLEAN, stopped: BOOLEAN]
    /\ shown \subseteq Messages
    /\ persisted \in BOOLEAN
    /\ heard \in [Turns -> [in: 0 .. 2, text: 0 .. MaxText]]
    /\ page \in [doing: {"no", "asked", "rendered"}, log: SUBSET Messages]
    /\ opened \in 0 .. MaxTurns
    /\ link \in [Turns -> [events: Seq({"started", "delta", "completed", "error"}),
                           end: {"open", "closed", "broken", "read"}]]
    /\ gone \in [Turns -> {"no", "aborted", "noticed"}]
    /\ route \in [Turns -> [pc: Pcs, local: BOOLEAN, msg: BOOLEAN, text: 0 .. MaxText,
                            over: BOOLEAN, finalized: BOOLEAN, exit: {"closed", "broken"},
                            cancel: {"idle", "settling", "done"}]]
    /\ call \in [Turns -> [Threads -> Requests \union {None}]]
    /\ status \in [Turns -> {"none", "asked", "refused"} \union Started]
    /\ log \in Seq(Messages)
    /\ failures \in 0 .. MaxEvents

Staying == [doing |-> "no", log |-> {}]

Fresh == [pc |-> "none", local |-> FALSE, msg |-> FALSE, text |-> 0, over |-> FALSE,
          finalized |-> FALSE, exit |-> "closed", cancel |-> "idle"]

Init ==
    /\ view = [instance |-> 1, turn |-> 0, error |-> FALSE, stopped |-> FALSE]
    /\ shown = {} /\ persisted = FALSE /\ page = Staying /\ opened = 0
    /\ heard = [t \in Turns |-> [in |-> 0, text |-> 0]]
    /\ link = [t \in Turns |-> [events |-> <<>>, end |-> "open"]]
    /\ gone = [t \in Turns |-> "no"]
    /\ route = [t \in Turns |-> Fresh]
    /\ call = [t \in Turns |-> [h \in Threads |-> None]]
    /\ status = [t \in Turns |-> "none"]
    /\ log = <<>> /\ failures = 0

-----------------------------------------------------------------------------
(* The chat view. *)

\* What bounds a behaviour: turns, stops, departures and lost requests, all taken together.
Room ==
    opened + failures + Cardinality({t \in Turns : gone[t] # "no"})
        + (IF view.instance = 0 THEN 1 ELSE 0) < MaxEvents

Streaming == view.turn # 0

\* While a turn streams, the text area is disabled and the send button gives way to a stop button.
ComposerOpen == view.instance # 0 /\ ~Streaming

\* An answer without text is rendered as three dots at work.
Spinner(m) == m.role = "assistant" /\ m.text = 0

WithoutEmptyAnswers(messages) == {m \in messages : ~Spinner(m)}

\* submitMessage, up to the request.
Submit ==
    /\ ComposerOpen /\ opened < MaxTurns /\ Room
    /\ LET t == opened + 1 IN
           /\ opened' = t
           /\ view' = [view EXCEPT !.turn = t, !.error = FALSE, !.stopped = FALSE]
           /\ shown' = shown \union {Message("user", t, 0)}
           /\ heard' = [heard EXCEPT ![t].in = view.instance]
           /\ route' = [route EXCEPT ![t].pc = "model"]
    /\ UNCHANGED <<persisted, page, link, gone, call, core, failures>>

\* stopResponse: the abort reaches the stream in a step of its own.
Stop ==
    /\ Streaming /\ gone[view.turn] = "no" /\ Room
    /\ view' = [view EXCEPT !.stopped = TRUE]
    /\ shown' = WithoutEmptyAnswers(shown)
    /\ gone' = [gone EXCEPT ![view.turn] = "aborted"]
    /\ UNCHANGED <<persisted, heard, page, opened, link, route, call, core, failures>>

\* A view that is not mounted any more ignores what its submissions set.
Mounted(t) == heard[t].in = view.instance
AnswerGrows(t) ==
    {IF m.role = "assistant" /\ m.turn = t THEN [m EXCEPT !.text = @ + 1] ELSE m : m \in shown}

\* One event of the stream, as the loop of submitMessage handles it.
Receive(t) ==
    /\ gone[t] = "no" /\ link[t].events # <<>>
    /\ link' = [link EXCEPT ![t].events = Tail(@)]
    /\ LET event == Head(link[t].events) IN
           /\ heard' = [heard EXCEPT ![t].text = IF event = "delta" THEN @ + 1 ELSE @]
           /\ IF ~Mounted(t) THEN UNCHANGED <<view, shown>>
              ELSE /\ shown' = CASE event = "started" -> shown \union {Message("assistant", t, 0)}
                                 [] event = "delta" -> AnswerGrows(t)
                                 [] event = "error" -> WithoutEmptyAnswers(shown)
                                 [] OTHER -> shown
                   /\ view' = [view EXCEPT !.error = @ \/ event = "error"]
    /\ UNCHANGED <<persisted, page, opened, gone, route, call, core, failures>>

\* The stream ended, broke (which the transport turns into an error event) or was aborted:
\* the end of submitMessage. The first answer of a new conversation replaces the page.
EndOfStream(t) ==
    /\ link[t].end # "read" /\ heard[t].in # 0
    /\ gone[t] # "no" \/ (link[t].events = <<>> /\ link[t].end # "open")
    /\ link' = [link EXCEPT ![t] = [events |-> <<>>, end |-> "read"]]
    /\ LET failed == gone[t] = "no" /\ link[t].end = "broken"
           answered == heard[t].text > 0
       IN  /\ IF ~Mounted(t) THEN UNCHANGED <<view, shown>>
              ELSE /\ view' = [view EXCEPT !.turn = 0, !.error = @ \/ failed]
                   /\ shown' = IF failed THEN WithoutEmptyAnswers(shown) ELSE shown
           /\ persisted' = (persisted \/ answered)
           /\ page' = IF answered /\ ~persisted THEN [page EXCEPT !.doing = "asked"] ELSE page
    /\ UNCHANGED <<heard, opened, gone, route, call, core, failures>>

\* The page of the conversation is rendered on the server, then a new view is mounted.
RenderPage ==
    /\ page.doing = "asked" /\ page' = [doing |-> "rendered", log |-> Range(log)]
    /\ UNCHANGED <<view, shown, persisted, heard, opened, link, gone, route, call, core, failures>>

MountPage ==
    /\ page.doing = "rendered" /\ page' = Staying
    /\ view' = [instance |-> 2, turn |-> 0, error |-> FALSE, stopped |-> FALSE]
    /\ shown' = page.log
    /\ UNCHANGED <<persisted, heard, opened, link, gone, route, call, core, failures>>

\* The user opens another page: the view is unmounted, its streams are not aborted, and a
\* navigation that was asked for before is superseded.
Leave ==
    /\ view.instance # 0 /\ Room
    /\ view' = [instance |-> 0, turn |-> 0, error |-> FALSE, stopped |-> FALSE]
    /\ shown' = {} /\ page' = Staying
    /\ UNCHANGED <<persisted, heard, opened, link, gone, route, call, core, failures>>

-----------------------------------------------------------------------------
(* The route handler of a turn. *)

At(t, pc) == route[t].pc = pc
Goto(t, pc) == route' = [route EXCEPT ![t].pc = pc]
Noticed(t) == gone[t] = "noticed"
Cancelled(t) == route[t].cancel # "idle"
Lose == Room /\ failures' = failures + 1
Call(s, n) == [status |-> s, text |-> n, phase |-> "sent"]

\* A request of the handler fails: the browser has gone, or the request is lost.
RequestFails(t) == (Noticed(t) /\ UNCHANGED failures) \/ Lose

NoticeAbort(t) ==
    /\ gone[t] = "aborted" /\ ~At(t, "done")
    /\ gone' = [gone EXCEPT ![t] = "noticed"]
    /\ UNCHANGED <<browser, link, route, call, core, failures>>

\* The main loop is over; the variables of its closure are forgotten.
Return(t, end) ==
    /\ link' = [link EXCEPT ![t].end = IF @ = "open" THEN end ELSE @]
    /\ route' = [route EXCEPT ![t] = [Fresh EXCEPT !.pc = "done",
        !.cancel = IF Cancelled(t) /\ call[t].cancel # None THEN "settling" ELSE "idle"]]
    /\ call' = [call EXCEPT ![t].loop = None]

\* An answer that is no stream carries an error code; the transport turns it into an event.
RespondError(t) == Return(t, "broken")

\* resolveChatModel: the catalogue and Core's routing decision, both fetched with the signal of
\* the request, agree on a model; any other outcome is an error.
ModelResolves(t) == ~Noticed(t)

\* Session, CSRF token and body are checked and the model is resolved: nothing is started.
ResolveModel(t) ==
    /\ At(t, "model")
    /\ \/ ModelResolves(t) /\ Goto(t, "starting") /\ status' = [status EXCEPT ![t] = "asked"]
          /\ UNCHANGED <<link, call>>
       \/ RespondError(t) /\ UNCHANGED status
    /\ UNCHANGED <<browser, gone, log, failures>>

\* interpretAction never throws, and its answer is a model to ask or a text to stream as if
\* a model had written it.
Interpreted(t) ==
    \/ Goto(t, "asking")
    \/ route' = [route EXCEPT ![t].pc = "reading", ![t].local = TRUE]

\* The context arrives. A cloud model must not be given more than the message itself.
TurnStarts(t) ==
    /\ At(t, "starting") /\ status[t] \in Started /\ ~Noticed(t)
    /\ \/ Interpreted(t) /\ UNCHANGED call
       \/ /\ Goto(t, "failing")
          /\ call' = [call EXCEPT ![t].loop = Call("failed", 0)]
    /\ UNCHANGED <<browser, link, gone, core, failures>>

\* Core refuses, or the answer never arrives: startedTurn is still null, and a turn that Core
\* has started, or starts when it serves the request, stays open.
TurnDoesNotStart(t) ==
    /\ At(t, "starting")
    /\ (status[t] = "refused" /\ UNCHANGED failures) \/ RequestFails(t)
    /\ RespondError(t)
    /\ UNCHANGED <<browser, gone, core>>

AskModel(t) ==
    /\ At(t, "asking")
    /\ \/ ~Noticed(t) /\ Goto(t, "reading") /\ UNCHANGED call
       \/ Goto(t, "failing") /\ call' = [call EXCEPT ![t].loop = Call("failed", 0)]
    /\ UNCHANGED <<browser, link, gone, core, failures>>

TurnFailed(t) ==
    /\ At(t, "failing") /\ call[t].loop.phase # "sent"
    /\ RespondError(t)
    /\ UNCHANGED <<browser, gone, core, failures>>

-----------------------------------------------------------------------------
(* persistAssistantStream: the loop that forwards and saves the answer. *)

UnknownStatus(r) == Call("aborted", r.text)
DropsText(r) == Call("failed", 0)

\* finalizeInterrupted, given the handler's state r: what it leaves, and what it sends.
Interrupted(r) ==
    IF r.msg /\ r.text > 0 THEN Call("stopped", r.text) ELSE Call("failed", 0)

SettleUnlessBroken(t, r, exit) ==
    IF r.finalized \/ exit = "broken" THEN Return(t, exit)
    ELSE /\ route' = [route EXCEPT ![t] =
                [r EXCEPT !.pc = "settling", !.finalized = TRUE, !.exit = exit]]
         /\ call' = [call EXCEPT ![t].loop = Interrupted(r)]
         /\ UNCHANGED link

\* The loop ends, and settles the turn if nobody did.
Settle(t, r, exit) ==
    IF r.finalized THEN Return(t, exit)
    ELSE /\ route' = [route EXCEPT ![t] =
                [r EXCEPT !.pc = "settling", !.finalized = TRUE, !.exit = exit]]
         /\ call' = [call EXCEPT ![t].loop = Interrupted(r)]
         /\ UNCHANGED link

\* controller.enqueue throws once the stream is cancelled.
Forward(t, r, event) ==
    IF Cancelled(t) THEN Settle(t, r, "broken")
    ELSE /\ route' = [route EXCEPT ![t] = r]
         /\ link' = [link EXCEPT ![t].events = IF link[t].end = "read" THEN @ ELSE Append(@, event)]
         /\ UNCHANGED call

\* forwardLine, for each kind of line. The source sends one terminal event; a completion
\* without any text is forwarded as an error.
ForwardLine(t) ==
    /\ At(t, "reading") /\ ~route[t].over
    /\ LET r == route[t] IN
           \/ ~r.msg /\ Forward(t, [r EXCEPT !.msg = TRUE], "started")
           \/ /\ r.msg /\ r.text < (IF r.local THEN 1 ELSE MaxText)
              /\ Forward(t, [r EXCEPT !.text = @ + 1], "delta")
           \/ /\ r.msg /\ r.text > 0
              /\ route' = [route EXCEPT ![t].over = TRUE, ![t].pc = "saving"]
              /\ call' = [call EXCEPT ![t].loop = Call("completed", r.text)]
              /\ UNCHANGED link
           \/ ~r.local /\ Forward(t, [r EXCEPT !.over = TRUE], "error")
    /\ UNCHANGED <<browser, gone, core, failures>>

AnnouncesUnsaved(t) ==
    /\ At(t, "saving") /\ call[t].loop.phase # "sent"
    /\ LET saved == call[t].loop.phase = "ok"
       IN  Forward(t, [route[t] EXCEPT !.pc = "reading", !.finalized = saved], "completed")
    /\ UNCHANGED <<browser, gone, core, failures>>

\* persistAssistant returned: only a saved answer is announced as completed.
AnswerSaved(t) ==
    /\ At(t, "saving") /\ call[t].loop.phase # "sent"
    /\ LET saved == call[t].loop.phase = "ok"
       IN  Forward(t, [route[t] EXCEPT !.pc = "reading", !.finalized = saved],
                   IF saved THEN "completed" ELSE "error")
    /\ UNCHANGED <<browser, gone, core, failures>>

\* The source is at its end, or its reader was cancelled.
SourceEnds(t) ==
    /\ At(t, "reading") /\ (route[t].over \/ Cancelled(t))
    /\ Settle(t, route[t], "closed")
    /\ UNCHANGED <<browser, gone, core, failures>>

\* The request to Core breaks off; what the route rendered itself does not.
SourceBreaks(t) ==
    /\ At(t, "reading") /\ ~route[t].local /\ RequestFails(t)
    /\ Settle(t, route[t], "broken")
    /\ UNCHANGED <<browser, gone, core>>

LoopSettled(t) ==
    /\ At(t, "settling") /\ call[t].loop.phase # "sent"
    /\ Return(t, route[t].exit)
    /\ UNCHANGED <<browser, gone, core, failures>>

\* cancel: called when the browser has gone while the stream is open.
Cancel(t) ==
    /\ Noticed(t) /\ route[t].pc \in {"reading", "saving", "settling"} /\ ~Cancelled(t)
    /\ IF route[t].finalized
       THEN route' = [route EXCEPT ![t].cancel = "done"] /\ UNCHANGED call
       ELSE /\ route' = [route EXCEPT ![t].cancel = "settling", ![t].finalized = TRUE]
            /\ call' = [call EXCEPT ![t].cancel = Interrupted(route[t])]
    /\ UNCHANGED <<browser, link, gone, core, failures>>

CancelSettled(t) ==
    /\ route[t].cancel = "settling" /\ call[t].cancel.phase # "sent"
    /\ route' = [route EXCEPT ![t].cancel = IF At(t, "done") THEN "idle" ELSE "done"]
    /\ call' = [call EXCEPT ![t].cancel = None]
    /\ UNCHANGED <<browser, link, gone, core, failures>>

-----------------------------------------------------------------------------
(* Core. Each request is one transaction; a request that was given up may be served. *)

\* startTurn: the user's message and the row of the turn.
CoreStarts(t) ==
    /\ status[t] = "asked"
    /\ \/ /\ status' = [status EXCEPT ![t] = "started"]
          /\ log' = Append(log, Message("user", t, 0))
       \/ status' = [status EXCEPT ![t] = "refused"] /\ UNCHANGED log
    /\ UNCHANGED <<browser, link, gone, route, call, failures>>

FinishesAgain(t, c) ==
    /\ status' = [status EXCEPT ![t] = c.status]
    /\ log' = IF c.status = "failed" THEN log
              ELSE Append(log, Message("assistant", t, c.text))

\* finishTurn: only a started turn can be finished.
Finishes(t, c) ==
    IF status[t] = "started"
    THEN /\ status' = [status EXCEPT ![t] = c.status]
         /\ log' = IF c.status = "failed" THEN log
                   ELSE Append(log, Message("assistant", t, c.text))
    ELSE UNCHANGED <<status, log>>

CoreFinishes(t, h) ==
    /\ call[t][h] # None /\ call[t][h].phase = "sent"
    /\ \/ /\ Finishes(t, call[t][h])
          /\ \/ /\ call' = [call EXCEPT ![t][h].phase = IF status[t] = "started"
                                                      THEN "ok" ELSE "refused"]
                /\ UNCHANGED failures
             \/ Lose /\ call' = [call EXCEPT ![t][h].phase = "lost"]
       \/ /\ Lose /\ call' = [call EXCEPT ![t][h].phase = "lost"]
          /\ UNCHANGED <<status, log>>
    /\ UNCHANGED <<browser, link, gone, route>>

-----------------------------------------------------------------------------

ViewStep == RenderPage \/ MountPage \/ \E t \in Turns : Receive(t) \/ EndOfStream(t)

HandlerStep(t) ==
    \/ ResolveModel(t) \/ TurnStarts(t) \/ TurnDoesNotStart(t)
    \/ AskModel(t) \/ TurnFailed(t) \/ ForwardLine(t) \/ AnswerSaved(t)
    \/ SourceEnds(t) \/ SourceBreaks(t) \/ LoopSettled(t)

Next ==
    \/ Submit \/ Stop \/ Leave \/ ViewStep
    \/ \E t \in Turns :
        \/ NoticeAbort(t) \/ HandlerStep(t) \/ Cancel(t) \/ CancelSettled(t)
        \/ CoreStarts(t) \/ \E h \in Threads : CoreFinishes(t, h)

Spec == Init /\ [][Next]_vars

\* The browser reads its stream, the handler goes on, a broken connection is noticed and
\* Core serves what it was sent. Nothing is assumed of the user or of lost requests.
Fairness ==
    /\ WF_vars(ViewStep)
    /\ \A t \in Turns :
        /\ WF_vars(NoticeAbort(t)) /\ WF_vars(HandlerStep(t))
        /\ WF_vars(Cancel(t)) /\ WF_vars(CancelSettled(t)) /\ WF_vars(CoreStarts(t))
        /\ \A h \in Threads : WF_vars(CoreFinishes(t, h))

FairSpec == Spec /\ Fairness

-----------------------------------------------------------------------------
(* Properties. *)

Answers(messages, t) == {n \in 0 .. MaxText : Message("assistant", t, n) \in messages}
Stored(t) == Answers(Range(log), t)
Quiet(t) == At(t, "done") /\ route[t].cancel # "settling" /\ link[t].end = "read"

\* How many pieces of an answer are on their way.
Deltas(events) == Cardinality({i \in DOMAIN events : events[i] = "delta"})

\* "The streamed assistant response is appended through Core before Next.js forwards the
\* completion event": when the browser is told that an answer is complete, the turn is
\* completed in Core, with everything that was forwarded.
CompletionMeansStored ==
    \A t \in Turns : "completed" \in Range(link[t].events) =>
        /\ status[t] = "completed"
        /\ Stored(t) = {heard[t].text + Deltas(link[t].events)}

\* What a view shows of an answer is not lost: once a turn is quiet, and if no request was
\* lost, an answer that was stopped is stored at least as far as it was shown, and an
\* answer that was not is stored as it is shown, whether it was completed or broke off.
ShownIsStored ==
    failures = 0 => \A t \in 1 .. opened : Quiet(t) =>
        /\ \A n \in Answers(shown, t) : \E k \in Stored(t) : n <= k
        /\ gone[t] = "no" /\ Mounted(t) => Answers(shown, t) = Stored(t)

\* The main loop, the cancel callback and requests that were given up all try to settle a
\* turn. It is settled once, and has one answer at most.
SettledOnce ==
    [][\A t \in Turns :
        /\ status[t] \in {"completed", "stopped", "failed"} => status'[t] = status[t]
        /\ Stored(t) # {} => Stored(t)' = Stored(t)
        /\ \A i, j \in DOMAIN log' :
             (/\ log'[i].role = "assistant" /\ log'[i].turn = t
              /\ log'[j].role = "assistant" /\ log'[j].turn = t) => i = j]_vars

\* The handler has read Core's answer and knows the turn (startedTurn, turnId).
InHand(t) == route[t].pc \notin {"none", "model", "starting", "done"}

\* A turn that is open in Core does not stay open, unless a request is lost: if nobody stops
\* it, it is settled whatever becomes of the model, the view and the page; and once the
\* handler knows of it, it is settled also if the browser stops it or disappears.
\*
\* What is left out is what the code does not settle: a stop while POST .../turns is under
\* way aborts that request (route.ts:106), Core may serve it all the same, and since
\* startedTurn is still null (line 211) nobody tells Core that the turn is over
\* (TurnDoesNotStart, then CoreStarts).
TurnsSettle ==
    \A t \in Turns :
        /\ status[t] = "started"
              ~> (status[t] # "started" \/ failures > 0 \/ gone[t] # "no")
        /\ status[t] = "started" /\ InHand(t) ~> (status[t] # "started" \/ failures > 0)

===============================================================================
