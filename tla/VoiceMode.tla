-------------------------------- MODULE VoiceMode --------------------------------
(***************************************************************************)
(* The voice dialogue of the chat view: the browser recognises what the    *)
(* user says, the chat view streams an answer, the browser speaks it a     *)
(* sentence at a time while it still streams, and then listens again. The  *)
(* callbacks of recognition sessions, utterances, timers and effects meet  *)
(* in a handful of refs: the record voice. The props are the record chat.  *)
(*                                                                         *)
(* An answer is a number of fragments; every second one ends a sentence.   *)
(***************************************************************************)
EXTENDS Naturals

CONSTANTS MaxVoice,     \* what the user says, toggles and closes, and what fails, altogether
          MaxFragments  \* the length of an answer

\* The answer before voice mode is opened has a fragment.
ASSUME VoiceAssumption == MaxVoice \in Nat /\ MaxFragments \in Nat \ {0}

VARIABLES voice, chat

voiceVars == <<voice, chat>>

Statuses == {"starting", "listening", "thinking", "speaking", "paused", "error"}

VoiceTypeOK ==
    /\ voice \in [open: BOOLEAN, supported: BOOLEAN, status: Statuses, paused: BOOLEAN,
                  pending: BOOLEAN, awaiting: BOOLEAN, handled: 0 .. MaxVoice + 2,
                  queuedUntil: 0 .. MaxFragments, queued: 0 .. MaxFragments, complete: BOOLEAN,
                  \* the session recognition.current, and replaced ones whose onend is to come
                  mic: {"off", "starting", "on", "submitted", "failed", "aborted"},
                  old: 0 .. MaxVoice + 1, timers: 0 .. MaxVoice + 1,
                  \* utterances queued in the browser, and dropped ones it did not report yet
                  speaking: 0 .. MaxFragments, stale: 0 .. MaxFragments * (MaxVoice + 2),
                  due: BOOLEAN,    \* a render with new props is committed, its effect is not run
                  astray: BOOLEAN, \* the dialogue lost the thread of this answer
                  events: 0 .. MaxVoice]
    /\ chat \in [streaming: BOOLEAN, begun: BOOLEAN, msg: 0 .. MaxVoice + 2,
                 text: 0 .. MaxFragments, failed: BOOLEAN]

\* Voice mode is opened with or without an earlier answer, or while an answer streams.
VoiceInit ==
    /\ voice \in [open: {TRUE}, supported: BOOLEAN, status: {"starting"}, paused: {FALSE},
                  pending: {FALSE}, awaiting: {FALSE}, handled: {0, 1}, queuedUntil: {0},
                  queued: {0}, complete: {FALSE}, mic: {"off"}, old: {0}, timers: {1},
                  speaking: {0}, stale: {0}, due: {FALSE}, astray: {FALSE}, events: {0}]
    /\ chat \in [streaming: BOOLEAN, begun: {FALSE}, msg: {voice.handled},
                 text: {voice.handled}, failed: {FALSE}]

VoiceRoom == voice.open /\ voice.events < MaxVoice
Spend(v) == [v EXCEPT !.events = @ + 1]

\* speechSynthesis.cancel(): the queue is dropped, each utterance reports it later.
CancelSpeech(v) == [v EXCEPT !.stale = @ + v.speaking, !.speaking = 0]

-----------------------------------------------------------------------------
(* Recognition. The browser runs one session at a time: a new one aborts the other. *)

\* A session that was aborted, or that a new one aborts, still reports its end.
Opens(v) == [CancelSpeech(v) EXCEPT !.mic = "starting",
                !.old = IF v.mic \in {"starting", "on", "aborted"} THEN @ + 1 ELSE @]

ListensWhilePending(v) == IF ~v.open \/ v.paused \/ ~v.supported THEN v ELSE Opens(v)

StartListening(v) ==
    IF ~v.open \/ v.paused \/ v.pending THEN v
    ELSE IF v.supported THEN Opens(v)
    ELSE [CancelSpeech(v) EXCEPT !.status = "error"]

\* The timer of the first mount, or the one that onend sets and nothing clears.
TimerFires ==
    /\ voice.timers > 0
    /\ voice' = StartListening([voice EXCEPT !.timers = @ - 1])
    /\ UNCHANGED chat

RecognitionStarts ==
    /\ voice.mic = "starting"
    /\ voice' = [voice EXCEPT !.mic = "on", !.status = "listening"]
    /\ UNCHANGED chat

\* onresult with a final transcript; submitMessage returns early while an answer streams.
HearsFinalResult ==
    /\ voice.mic = "on" /\ VoiceRoom
    /\ voice' = [Spend(CancelSpeech(voice)) EXCEPT
           !.pending = TRUE, !.awaiting = TRUE, !.complete = FALSE, !.queuedUntil = 0,
           !.queued = 0, !.status = "thinking", !.mic = "submitted",
           !.due = @ \/ ~chat.streaming, !.astray = chat.streaming]
    /\ chat' = IF chat.streaming THEN chat
               ELSE [chat EXCEPT !.streaming = TRUE, !.begun = FALSE, !.failed = FALSE]

RecognitionFails ==
    /\ voice.mic \in {"starting", "on"} /\ VoiceRoom
    /\ voice' = [Spend(voice) EXCEPT !.mic = "failed", !.status = "error"]
    /\ UNCHANGED chat

\* onend: a session that heard nothing is followed by another one a quarter of a second later.
RecognitionEnds ==
    /\ UNCHANGED chat
    /\ LET restarts == voice.open /\ ~voice.paused /\ ~voice.pending
           Ended(v) == [v EXCEPT !.timers = IF restarts THEN @ + 1 ELSE @]
       IN  \/ voice.mic \in {"submitted", "failed"} /\ voice' = [voice EXCEPT !.mic = "off"]
           \/ voice.mic = "aborted" /\ voice' = Ended([voice EXCEPT !.mic = "off"])
           \/ voice.mic = "on" /\ VoiceRoom /\ voice' = Ended([Spend(voice) EXCEPT !.mic = "off"])
           \/ voice.old > 0 /\ ~restarts /\ voice' = [voice EXCEPT !.old = @ - 1]
           \/ voice.old > 0 /\ VoiceRoom /\ voice' = Ended([Spend(voice) EXCEPT !.old = @ - 1])

-----------------------------------------------------------------------------
(* The answer arrives as props of a render, whose effect runs in a step of its own. *)

Props(c) == chat' = c /\ voice' = [voice EXCEPT !.due = voice.open]
Flowing == chat.streaming /\ ~chat.failed

AnswerStarts == Flowing /\ ~chat.begun /\ Props([chat EXCEPT !.begun = TRUE, !.msg = @ + 1, !.text = 0])

AnswerGrows ==
    Flowing /\ chat.begun /\ chat.text < MaxFragments /\ Props([chat EXCEPT !.text = @ + 1])

\* An answer without text is removed, and the one before it is the latest again.
AnswerFails ==
    /\ Flowing /\ VoiceRoom
    /\ chat' = IF chat.begun /\ chat.text = 0
               THEN [chat EXCEPT !.failed = TRUE, !.msg = @ - 1, !.text = IF chat.msg > 1 THEN 1 ELSE 0]
               ELSE [chat EXCEPT !.failed = TRUE]
    /\ voice' = [Spend(voice) EXCEPT !.due = TRUE]

AnswerEnds ==
    /\ chat.streaming /\ (chat.failed \/ (chat.begun /\ chat.text > 0))
    /\ Props([chat EXCEPT !.streaming = FALSE])

lastCompletedSentenceEnd(text) == text - (text % 2)

Thinking(v) == [v EXCEPT !.status = IF v.speaking = 0 THEN "thinking" ELSE @]

\* A new answer: what is left of the one before is not spoken any more.
NewAnswer(v) ==
    [CancelSpeech(v) EXCEPT !.handled = chat.msg, !.awaiting = FALSE, !.queuedUntil = 0,
        !.queued = 0, !.complete = FALSE]

SpeakMore(v) ==
    LET w == [(IF chat.streaming /\ v.queued = 0 THEN Thinking(v) ELSE v)
                EXCEPT !.complete = ~chat.streaming]
        speakUntil == IF chat.streaming THEN lastCompletedSentenceEnd(chat.text) ELSE chat.text
    IN  IF ~v.paused /\ speakUntil > v.queuedUntil
        THEN [w EXCEPT !.queuedUntil = speakUntil, !.queued = @ + 1, !.speaking = @ + 1]
        ELSE IF ~chat.streaming /\ v.queued = 0
        THEN StartListening([w EXCEPT !.pending = FALSE])
        ELSE w

\* The effect. Until the new answer begins, the props still show the one before.
RespondToProps ==
    /\ voice.due
    /\ LET v == [voice EXCEPT !.due = FALSE] IN
           voice' = IF ~v.open \/ ~v.pending THEN v
                    ELSE IF chat.failed
                    THEN [CancelSpeech(v) EXCEPT !.pending = FALSE, !.awaiting = FALSE, !.status = "error"]
                    ELSE IF chat.text = 0 THEN (IF chat.streaming THEN Thinking(v) ELSE v)
                    ELSE IF v.awaiting /\ chat.msg = v.handled THEN Thinking(v)
                    ELSE SpeakMore(IF chat.msg = v.handled THEN v ELSE NewAnswer(v))
    /\ UNCHANGED chat

-----------------------------------------------------------------------------
(* Speech. The callbacks of an utterance compare its generation with the current one. *)

UtteranceStarts ==
    /\ voice.speaking > 0 /\ voice.status # "speaking"
    /\ voice' = [voice EXCEPT !.status = "speaking"]
    /\ UNCHANGED chat

Dequeued(v) == [v EXCEPT !.queued = IF @ > 0 THEN @ - 1 ELSE 0]

ListensAfterEachUtterance(v) ==
    LET w == Dequeued(v) IN
        IF w.queued > 0 THEN w ELSE StartListening([w EXCEPT !.pending = FALSE])

\* onend of an utterance of the current generation.
UtteranceEnded(v) ==
    LET w == Dequeued(v) IN
        IF ~v.complete \/ w.queued > 0 THEN w ELSE StartListening([w EXCEPT !.pending = FALSE])

UtteranceEnds ==
    /\ voice.speaking > 0
    /\ voice' = UtteranceEnded([voice EXCEPT !.speaking = @ - 1])
    /\ UNCHANGED chat

\* The failure of the last utterance leaves pendingResponse set.
UtteranceFails ==
    /\ voice.speaking > 0 /\ VoiceRoom
    /\ LET v == Dequeued(Spend([voice EXCEPT !.speaking = @ - 1])) IN
           voice' = [v EXCEPT !.status = "error", !.astray = @ \/ (v.complete /\ v.queued = 0)]
    /\ UNCHANGED chat

\* onend or onerror of a dropped utterance: its generation is over.
DroppedUtteranceReports ==
    /\ voice.stale > 0
    /\ voice' = [voice EXCEPT !.stale = @ - 1]
    /\ UNCHANGED chat

-----------------------------------------------------------------------------
(* The user. *)

AbortedMic(v) == IF v.mic \in {"starting", "on"} THEN "aborted" ELSE v.mic

\* toggleListening. Paused while the rest of a complete answer is spoken, pendingResponse
\* stays set, and the dialogue cannot be resumed.
Toggle ==
    /\ VoiceRoom
    /\ voice' = IF voice.paused THEN StartListening([Spend(voice) EXCEPT !.paused = FALSE])
                ELSE [Spend(CancelSpeech(voice)) EXCEPT
                        !.paused = TRUE, !.queued = 0, !.mic = AbortedMic(voice), !.status = "paused",
                        !.astray = @ \/ (voice.pending /\ ~chat.streaming /\ ~voice.due)]
    /\ UNCHANGED chat

Close ==
    /\ VoiceRoom
    /\ voice' = [Spend(CancelSpeech(voice)) EXCEPT !.open = FALSE, !.mic = AbortedMic(voice)]
    /\ UNCHANGED chat

-----------------------------------------------------------------------------

\* What the browser and the stream do by themselves.
VoiceProgress ==
    \/ TimerFires \/ RecognitionStarts \/ RecognitionEnds
    \/ AnswerStarts \/ AnswerGrows \/ AnswerEnds \/ RespondToProps
    \/ UtteranceStarts \/ UtteranceEnds \/ DroppedUtteranceReports

VoiceNext ==
    \/ VoiceProgress \/ HearsFinalResult \/ RecognitionFails \/ AnswerFails \/ UtteranceFails
    \/ Toggle \/ Close

\* The dialogue waits for an answer whose thread it has not lost.
VoiceBusy == voice.open /\ voice.pending /\ ~voice.astray

\* The browser never recognises what it speaks itself: no session is on while an utterance is
\* queued, whatever timers, replaced sessions and late callbacks are still to come.
NeverHearsItself == voice.mic = "on" => voice.speaking = 0

\* The dialogue gives up an answer to listen again only when the stream is over and every part
\* of the answer was handed to speech and came to its end, unless the answer failed or the
\* user paused it.
SpeaksWholeAnswer ==
    [][ voice.pending /\ ~voice'.pending =>
        \/ chat.failed \/ voice.paused
        \/ ~chat.streaming /\ voice.queuedUntil = chat.text /\ voice'.speaking = 0 ]_voiceVars
===============================================================================
