--------------------------- MODULE VoiceMode_proofs ---------------------------
(***************************************************************************)
(* Lemmas about the voice dialogue, for any number of events and answers of *)
(* any length: an invariant that its steps keep, what a step may do with an *)
(* answer the dialogue waits for, and how much can be under way at once.    *)
(* The theorems are those of the workspace.                                 *)
(***************************************************************************)
EXTENDS VoiceMode, TLAPS

\* The records of the dialogue and of the chat, without the bounds of an instance.
VoiceShape ==
    [open: BOOLEAN, supported: BOOLEAN, status: Statuses, paused: BOOLEAN,
     pending: BOOLEAN, awaiting: BOOLEAN, handled: Nat, queuedUntil: Nat, queued: Nat,
     complete: BOOLEAN,
     mic: {"off", "starting", "on", "submitted", "failed", "aborted"},
     old: Nat, timers: Nat, speaking: Nat, stale: Nat, due: BOOLEAN, astray: BOOLEAN,
     events: Nat]

ChatShape == [streaming: BOOLEAN, begun: BOOLEAN, msg: Nat, text: Nat, failed: BOOLEAN]

\* The dialogue v and the chat c fit together: a session runs only while nothing is
\* to be spoken; what is known to be complete is over, and is spoken to its end; a
\* closed or paused dialogue is silent; what was handed to speech is a part of the
\* answer that is handled, and an answer without text is not yet handled.
Together(v, c) ==
    /\ v.mic \in {"starting", "on"} => v.speaking = 0 /\ ~v.pending
    /\ v.complete => ~c.streaming
    /\ ~v.open \/ v.paused => v.speaking = 0
    /\ v.complete /\ v.speaking > 0 => v.queuedUntil = c.text
    /\ v.handled <= c.msg
    /\ c.begun /\ c.text = 0 /\ ~c.failed => v.handled < c.msg
    /\ c.msg = v.handled /\ ~c.failed => v.queuedUntil <= c.text

VoiceInv == voice \in VoiceShape /\ chat \in ChatShape /\ Together(voice, chat)

\* What the invariant says is the same of the records v and w.
SameThread(v, w) ==
    /\ w.open = v.open /\ w.supported = v.supported /\ w.paused = v.paused
    /\ w.pending = v.pending /\ w.handled = v.handled /\ w.queuedUntil = v.queuedUntil
    /\ w.complete = v.complete /\ w.mic = v.mic /\ w.speaking = v.speaking

\* All but the session and what is spoken.
SameAnswer(v, w) ==
    /\ w.open = v.open /\ w.supported = v.supported /\ w.paused = v.paused
    /\ w.pending = v.pending /\ w.handled = v.handled /\ w.queuedUntil = v.queuedUntil
    /\ w.complete = v.complete

LEMMA TogetherSame ==
  ASSUME NEW v, NEW w, NEW c, Together(v, c), SameThread(v, w)
  PROVE  Together(w, c)
  BY DEF Together, SameThread

LEMMA VoiceInvInit == VoiceInit => VoiceInv
  <1> SUFFICES ASSUME VoiceInit PROVE VoiceInv
    OBVIOUS
  <1> DEFINE Yes == {TRUE}
             No == {FALSE}
             Zero == {0}
             First == {1}
             Answers == {0, 1}
             Off == {"off"}
             Starting == {"starting"}
             Heard == {voice.handled}
  <1>1. /\ voice \in [open: Yes, supported: BOOLEAN, status: Starting, paused: No, pending: No,
                      awaiting: No, handled: Answers, queuedUntil: Zero, queued: Zero,
                      complete: No, mic: Off, old: Zero, timers: First, speaking: Zero,
                      stale: Zero, due: No, astray: No, events: Zero]
        /\ chat \in [streaming: BOOLEAN, begun: No, msg: Heard, text: Heard, failed: No]
    BY Zenon DEF VoiceInit
  <1>2. /\ Yes \subseteq BOOLEAN /\ No \subseteq BOOLEAN /\ Zero \subseteq Nat
        /\ First \subseteq Nat /\ Answers \subseteq Nat /\ Starting \subseteq Statuses
        /\ Off \subseteq {"off", "starting", "on", "submitted", "failed", "aborted"}
    BY DEF Statuses
  <1>3. /\ voice.open \in Yes /\ voice.paused \in No /\ voice.complete \in No
        /\ voice.handled \in Answers /\ voice.queuedUntil \in Zero
        /\ voice.speaking \in Zero /\ voice.mic \in Off
        /\ chat.begun \in No /\ chat.msg \in Heard /\ chat.text \in Heard
    <2> HIDE DEF Yes, No, Zero, First, Answers, Off, Starting, Heard
    <2>1. QED
      BY <1>1
  <1>4. Heard \subseteq Nat
    BY <1>3
  <1>5. voice \in VoiceShape /\ chat \in ChatShape
    <2> HIDE DEF Yes, No, Zero, First, Answers, Off, Starting, Heard
    <2>1. QED
      BY <1>1, <1>2, <1>4 DEF VoiceShape, ChatShape
  <1>6. Together(voice, chat)
    <2>1. /\ voice.handled \in {0, 1} /\ voice.mic = "off" /\ voice.open /\ ~voice.paused
          /\ ~voice.complete /\ voice.queuedUntil = 0 /\ voice.speaking = 0
          /\ chat.msg = voice.handled /\ chat.text = voice.handled /\ ~chat.begun
      BY <1>3
    <2>2. QED
      BY <2>1 DEF Together
  <1>7. QED
    BY <1>5, <1>6 DEF VoiceInv

LEMMA SpendEffect ==
  ASSUME NEW v \in VoiceShape
  PROVE  Spend(v) \in VoiceShape /\ SameThread(v, Spend(v))
  BY DEF VoiceShape, Spend, SameThread

LEMMA CancelEffect ==
  ASSUME NEW v \in VoiceShape
  PROVE  /\ CancelSpeech(v) \in VoiceShape /\ SameAnswer(v, CancelSpeech(v))
         /\ CancelSpeech(v).mic = v.mic /\ CancelSpeech(v).speaking = 0
  <1> DEFINE s == [v EXCEPT !.stale = @ + v.speaking]
  <1>1. s \in VoiceShape /\ SameThread(v, s)
    BY DEF VoiceShape, SameThread
  <1>2. CancelSpeech(v) = [s EXCEPT !.speaking = 0]
    BY DEF CancelSpeech
  <1> HIDE DEF s
  <1>3. QED
    BY <1>1, <1>2 DEF VoiceShape, SameThread, SameAnswer

LEMMA OpensEffect ==
  ASSUME NEW v \in VoiceShape
  PROVE  /\ Opens(v) \in VoiceShape /\ SameAnswer(v, Opens(v))
         /\ Opens(v).mic = "starting" /\ Opens(v).speaking = 0
  <1> DEFINE s == CancelSpeech(v)
             t == [s EXCEPT !.mic = "starting"]
  <1>1. s \in VoiceShape /\ SameAnswer(v, s) /\ s.speaking = 0
    BY CancelEffect
  <1> DEFINE n == IF v.mic \in {"starting", "on", "aborted"} THEN s.old + 1 ELSE s.old
  <1>2. n \in Nat /\ Opens(v) = [t EXCEPT !.old = n]
    <2>1. n \in Nat
      BY <1>1 DEF VoiceShape
    <2>2. Opens(v) = [t EXCEPT !.old = n]
      BY DEF Opens
    <2>3. QED
      BY <2>1, <2>2
  <1> HIDE DEF n
  <1> HIDE DEF s
  <1>3. t \in VoiceShape /\ SameAnswer(v, t) /\ t.speaking = 0 /\ t.mic = "starting"
    BY <1>1 DEF VoiceShape, SameAnswer
  <1> HIDE DEF t
  <1>4. QED
    BY <1>2, <1>3 DEF VoiceShape, SameAnswer

\* The dialogue starts to listen, if it may: it cancels what is spoken, and opens a
\* session where the browser can.
LEMMA StartEffect ==
  ASSUME NEW v \in VoiceShape
  PROVE  /\ StartListening(v) \in VoiceShape /\ SameAnswer(v, StartListening(v))
         /\ ~v.open \/ v.paused \/ v.pending => StartListening(v) = v
         /\ ~(~v.open \/ v.paused \/ v.pending) =>
               /\ StartListening(v).speaking = 0
               /\ StartListening(v).mic \in {"starting", v.mic}
  <1>1. CASE ~v.open \/ v.paused \/ v.pending
    BY <1>1 DEF StartListening, SameAnswer
  <1>2. CASE ~(~v.open \/ v.paused \/ v.pending) /\ v.supported
    BY <1>2, OpensEffect DEF StartListening
  <1>3. CASE ~(~v.open \/ v.paused \/ v.pending) /\ ~v.supported
    <2> DEFINE s == CancelSpeech(v)
    <2>1. StartListening(v) = [s EXCEPT !.status = "error"]
      BY <1>3 DEF StartListening
    <2>2. s \in VoiceShape /\ SameAnswer(v, s) /\ s.speaking = 0 /\ s.mic = v.mic
      BY CancelEffect
    <2> HIDE DEF s
    <2>3. QED
      BY <1>3, <2>1, <2>2 DEF VoiceShape, SameAnswer, Statuses
  <1>4. QED
    BY <1>1, <1>2, <1>3

LEMMA StartKeeps ==
  ASSUME NEW v \in VoiceShape, NEW c \in ChatShape, Together(v, c)
  PROVE  StartListening(v) \in VoiceShape /\ Together(StartListening(v), c)
  BY StartEffect DEF Together, SameAnswer

\* A step that changes nothing the invariant is about.
LEMMA QuietVoice ==
  ASSUME VoiceInv, voice' \in VoiceShape, SameThread(voice, voice'), chat' = chat
  PROVE  VoiceInv'
  BY TogetherSame DEF VoiceInv

LEMMA TimerKeeps ==
  ASSUME VoiceInv, TimerFires
  PROVE  VoiceInv'
  <1> DEFINE v == [voice EXCEPT !.timers = @ - 1]
  <1>1. v \in VoiceShape /\ SameThread(voice, v)
    BY DEF TimerFires, VoiceInv, VoiceShape, SameThread
  <1>2. voice' = StartListening(v) /\ chat' = chat
    BY DEF TimerFires
  <1> HIDE DEF v
  <1>3. Together(v, chat)
    BY <1>1, TogetherSame DEF VoiceInv
  <1>4. QED
    BY <1>1, <1>2, <1>3, StartKeeps DEF VoiceInv

LEMMA RecognitionKeeps ==
  ASSUME VoiceInv, RecognitionStarts \/ RecognitionFails \/ RecognitionEnds
  PROVE  VoiceInv'
  <1>1. voice \in VoiceShape /\ Together(voice, chat) /\ chat' = chat
    BY DEF VoiceInv, RecognitionStarts, RecognitionFails, RecognitionEnds
  <1> DEFINE Quiet(w) ==
        /\ w \in VoiceShape /\ SameAnswer(voice, w) /\ w.speaking = voice.speaking
        /\ w.mic \in {"starting", "on"} => voice.mic \in {"starting", "on"}
  <1>2. Quiet(voice') => VoiceInv'
    BY <1>1 DEF VoiceInv, Together, SameAnswer
  <1>3. CASE RecognitionStarts
    <2>1. voice.mic = "starting"
          /\ voice' = [voice EXCEPT !.mic = "on", !.status = "listening"]
      BY <1>3 DEF RecognitionStarts
    <2>2. Quiet(voice')
      BY <1>1, <2>1 DEF VoiceShape, SameAnswer, Statuses
    <2>3. QED
      BY <1>2, <2>2
  <1>4. CASE RecognitionFails
    <2> DEFINE s == Spend(voice)
    <2>1. voice' = [s EXCEPT !.mic = "failed", !.status = "error"]
      BY <1>4 DEF RecognitionFails
    <2>2. s \in VoiceShape /\ SameThread(voice, s)
      BY <1>1, SpendEffect
    <2> HIDE DEF s
    <2>3. /\ voice' \in VoiceShape /\ SameAnswer(s, voice')
          /\ voice'.mic = "failed" /\ voice'.speaking = s.speaking
      BY <2>1, <2>2 DEF VoiceShape, SameAnswer, Statuses
    <2>4. Quiet(voice')
      BY <2>2, <2>3 DEF SameAnswer, SameThread
    <2>5. QED
      BY <1>2, <2>4
  <1>5. CASE RecognitionEnds
    <2> DEFINE Ended(v) == [v EXCEPT !.timers =
                  IF voice.open /\ ~voice.paused /\ ~voice.pending THEN @ + 1 ELSE @]
    <2>1. ASSUME NEW v, Quiet(v) PROVE Quiet(Ended(v))
      BY <2>1 DEF VoiceShape, SameAnswer
    <2>2. ASSUME NEW v, Quiet(v) PROVE Quiet([v EXCEPT !.mic = "off"])
      BY <2>2 DEF VoiceShape, SameAnswer
    <2>3. ASSUME NEW v, Quiet(v), v.old > 0 PROVE Quiet([v EXCEPT !.old = @ - 1])
      BY <2>3 DEF VoiceShape, SameAnswer
    <2>4. /\ Quiet(voice) /\ Quiet(Spend(voice)) /\ Spend(voice).old = voice.old
      <3>1. Spend(voice).old = voice.old
        BY <1>1 DEF Spend, VoiceShape
      <3>2. Quiet(Spend(voice))
        BY <1>1, SpendEffect DEF SameThread, SameAnswer
      <3>3. QED
        BY <1>1, <3>1, <3>2 DEF SameAnswer
    <2>5. \/ voice' = [voice EXCEPT !.mic = "off"]
          \/ voice' = Ended([voice EXCEPT !.mic = "off"])
          \/ voice' = Ended([Spend(voice) EXCEPT !.mic = "off"])
          \/ voice.old > 0 /\ voice' = [voice EXCEPT !.old = @ - 1]
          \/ voice.old > 0 /\ voice' = Ended([Spend(voice) EXCEPT !.old = @ - 1])
      BY <1>5 DEF RecognitionEnds
    <2> HIDE DEF Quiet, Ended
    <2>6. Quiet(voice')
      BY <2>1, <2>2, <2>3, <2>4, <2>5
    <2>7. QED
      BY <1>2, <2>6
  <1>6. QED
    BY <1>3, <1>4, <1>5

\* The question is submitted: the dialogue waits for its answer, silent.
LEMMA HearsKeeps ==
  ASSUME VoiceInv, HearsFinalResult
  PROVE  VoiceInv'
  <1> DEFINE s == Spend(CancelSpeech(voice))
             a == [s EXCEPT !.pending = TRUE, !.awaiting = TRUE]
             b == [a EXCEPT !.complete = FALSE, !.queuedUntil = 0]
             c == [b EXCEPT !.queued = 0, !.status = "thinking"]
             d == [c EXCEPT !.mic = "submitted", !.due = @ \/ ~chat.streaming]
  <1>1. /\ voice \in VoiceShape /\ chat \in ChatShape /\ Together(voice, chat)
        /\ voice' = [d EXCEPT !.astray = chat.streaming]
        /\ chat' = IF chat.streaming THEN chat
                   ELSE [chat EXCEPT !.streaming = TRUE, !.begun = FALSE, !.failed = FALSE]
    BY DEF VoiceInv, HearsFinalResult
  <1>2. /\ s \in VoiceShape /\ s.open = voice.open /\ s.paused = voice.paused
        /\ s.handled = voice.handled /\ s.speaking = 0
    BY <1>1, CancelEffect, SpendEffect DEF SameThread, SameAnswer
  <1> HIDE DEF s
  <1>3. /\ a \in VoiceShape /\ a.open = s.open /\ a.paused = s.paused
        /\ a.handled = s.handled /\ a.speaking = 0
    BY <1>2 DEF VoiceShape
  <1> HIDE DEF a
  <1>4. /\ b \in VoiceShape /\ b.open = s.open /\ b.paused = s.paused
        /\ b.handled = s.handled /\ b.speaking = 0 /\ ~b.complete /\ b.queuedUntil = 0
    BY <1>3 DEF VoiceShape
  <1> HIDE DEF b
  <1>5. /\ c \in VoiceShape /\ c.open = s.open /\ c.paused = s.paused
        /\ c.handled = s.handled /\ c.speaking = 0 /\ ~c.complete /\ c.queuedUntil = 0
    BY <1>4 DEF VoiceShape, Statuses
  <1> HIDE DEF c
  <1>6. /\ d \in VoiceShape /\ d.open = s.open /\ d.paused = s.paused
        /\ d.handled = s.handled /\ d.speaking = 0 /\ ~d.complete /\ d.queuedUntil = 0
        /\ d.mic = "submitted"
    BY <1>1, <1>5 DEF VoiceShape, ChatShape
  <1> HIDE DEF d
  <1>7. /\ voice' \in VoiceShape /\ voice'.handled = voice.handled /\ voice'.speaking = 0
        /\ ~voice'.complete /\ voice'.queuedUntil = 0 /\ voice'.mic = "submitted"
    BY <1>1, <1>2, <1>6 DEF VoiceShape, ChatShape
  <1>8. /\ chat' \in ChatShape /\ chat'.msg = chat.msg /\ chat'.text = chat.text
        /\ chat'.begun => chat'.begun = chat.begun /\ chat'.failed = chat.failed
    <2>1. CASE chat.streaming
      BY <1>1, <2>1
    <2>2. CASE ~chat.streaming
      <3> DEFINE e == [chat EXCEPT !.streaming = TRUE, !.begun = FALSE]
      <3>1. chat' = [e EXCEPT !.failed = FALSE]
        BY <1>1, <2>2
      <3>2. e \in ChatShape /\ e.msg = chat.msg /\ e.text = chat.text /\ ~e.begun
        BY <1>1 DEF ChatShape
      <3> HIDE DEF e
      <3>3. QED
        BY <3>1, <3>2 DEF ChatShape
    <2>3. QED
      BY <2>1, <2>2
  <1>9. Together(voice', chat')
    BY <1>1, <1>7, <1>8 DEF Together, VoiceShape, ChatShape
  <1>10. QED
    BY <1>7, <1>8, <1>9 DEF VoiceInv

\* A render with new props is committed: of the dialogue only that is recorded.
LEMMA PropsKeep ==
  ASSUME VoiceInv, AnswerStarts \/ AnswerGrows \/ AnswerEnds
  PROVE  VoiceInv'
  <1>1. /\ voice \in VoiceShape /\ chat \in ChatShape /\ Together(voice, chat)
        /\ voice' = [voice EXCEPT !.due = voice.open]
    BY DEF VoiceInv, AnswerStarts, AnswerGrows, AnswerEnds, Props
  <1>2. voice' \in VoiceShape /\ SameThread(voice, voice')
    BY <1>1 DEF VoiceShape, SameThread
  <1>3. Together(voice, chat') /\ chat' \in ChatShape => VoiceInv'
    BY <1>2, TogetherSame DEF VoiceInv
  <1>4. CASE AnswerStarts
    <2> DEFINE b == [chat EXCEPT !.begun = TRUE]
               c == [b EXCEPT !.msg = @ + 1]
    <2>1. chat' = [c EXCEPT !.text = 0] /\ chat.streaming /\ ~chat.failed
      BY <1>4 DEF AnswerStarts, Props, Flowing
    <2>2. /\ c \in ChatShape /\ c.msg = chat.msg + 1 /\ c.streaming = chat.streaming
          /\ c.failed = chat.failed /\ c.begun
      <3>1. /\ b \in ChatShape /\ b.msg = chat.msg /\ b.streaming = chat.streaming
            /\ b.failed = chat.failed /\ b.begun
        BY <1>1 DEF ChatShape
      <3> HIDE DEF b
      <3>2. QED
        BY <3>1 DEF ChatShape
    <2> HIDE DEF c
    <2>3. /\ chat' \in ChatShape /\ chat'.msg = chat.msg + 1 /\ chat'.streaming
          /\ ~chat'.failed /\ chat'.begun /\ chat'.text = 0
      BY <2>1, <2>2 DEF ChatShape
    <2>4. Together(voice, chat')
      BY <1>1, <2>1, <2>3 DEF Together, VoiceShape, ChatShape
    <2>5. QED
      BY <1>3, <2>3, <2>4
  <1>5. CASE AnswerGrows
    <2>1. chat' = [chat EXCEPT !.text = @ + 1] /\ chat.streaming /\ ~chat.failed
      BY <1>5 DEF AnswerGrows, Props, Flowing
    <2>2. /\ chat' \in ChatShape /\ chat'.msg = chat.msg /\ chat'.streaming
          /\ chat'.failed = chat.failed /\ chat'.begun = chat.begun
          /\ chat'.text = chat.text + 1
      BY <1>1, <2>1 DEF ChatShape
    <2>3. Together(voice, chat')
      BY <1>1, <2>1, <2>2 DEF Together, VoiceShape, ChatShape
    <2>4. QED
      BY <1>3, <2>2, <2>3
  <1>6. CASE AnswerEnds
    <2>1. chat' = [chat EXCEPT !.streaming = FALSE]
      BY <1>6 DEF AnswerEnds, Props
    <2>2. /\ chat' \in ChatShape /\ chat'.msg = chat.msg /\ ~chat'.streaming
          /\ chat'.failed = chat.failed /\ chat'.begun = chat.begun
          /\ chat'.text = chat.text
      BY <1>1, <2>1 DEF ChatShape
    <2>3. Together(voice, chat')
      BY <1>1, <2>2 DEF Together
    <2>4. QED
      BY <1>3, <2>2, <2>3
  <1>7. QED
    BY <1>4, <1>5, <1>6

LEMMA AnswerFailsKeeps ==
  ASSUME VoiceInv, AnswerFails
  PROVE  VoiceInv'
  <1> DEFINE s == Spend(voice)
             c == [chat EXCEPT !.failed = TRUE]
             gone == chat.begun /\ chat.text = 0
  <1>1. /\ voice \in VoiceShape /\ chat \in ChatShape /\ Together(voice, chat)
        /\ voice' = [s EXCEPT !.due = TRUE] /\ chat.streaming /\ ~chat.failed
        /\ chat' = IF gone
                   THEN [chat EXCEPT !.failed = TRUE, !.msg = @ - 1,
                                     !.text = IF chat.msg > 1 THEN 1 ELSE 0]
                   ELSE c
    BY DEF VoiceInv, AnswerFails, Flowing
  <1>2. voice' \in VoiceShape /\ SameThread(voice, voice')
    <2>1. s \in VoiceShape /\ SameThread(voice, s)
      BY <1>1, SpendEffect
    <2> HIDE DEF s
    <2>2. QED
      BY <1>1, <2>1 DEF VoiceShape, SameThread
  <1>3. c \in ChatShape /\ c.failed /\ c.msg = chat.msg /\ c.text = chat.text
        /\ c.streaming = chat.streaming
    BY <1>1 DEF ChatShape
  <1>4. gone => voice.handled < chat.msg
    BY <1>1 DEF Together
  <1>5. /\ chat' \in ChatShape /\ chat'.failed /\ chat'.streaming
        /\ voice.handled <= chat'.msg
    <2>1. CASE gone
      <3> DEFINE d == [c EXCEPT !.msg = chat.msg - 1]
                 left == IF chat.msg > 1 THEN 1 ELSE 0
      <3>1. d \in ChatShape /\ d.failed /\ d.msg = chat.msg - 1 /\ d.streaming
        <4>1. chat.msg \in Nat /\ voice.handled \in Nat /\ chat.msg - 1 \in Nat
          BY <1>1, <1>4, <2>1 DEF VoiceShape, ChatShape
        <4> HIDE DEF c
        <4>2. QED
          BY <1>1, <1>3, <4>1 DEF ChatShape
      <3>2. chat' = [d EXCEPT !.text = left]
        BY <1>1, <2>1
      <3>3. left \in Nat
        OBVIOUS
      <3> HIDE DEF d, left
      <3>4. /\ chat' \in ChatShape /\ chat'.failed /\ chat'.streaming
            /\ chat'.msg = chat.msg - 1
        BY <3>1, <3>2, <3>3 DEF ChatShape
      <3>5. QED
        BY <1>1, <1>4, <2>1, <3>4 DEF VoiceShape, ChatShape
    <2>2. CASE ~gone
      BY <1>1, <1>3, <2>2 DEF Together
    <2>3. QED
      BY <2>1, <2>2
  <1>6. Together(voice, chat')
    BY <1>1, <1>5 DEF Together
  <1>7. QED
    BY <1>2, <1>5, <1>6, TogetherSame DEF VoiceInv

LEMMA NewAnswerEffect ==
  ASSUME NEW v \in VoiceShape, chat \in ChatShape, Together(v, chat), chat.text # 0
  PROVE  /\ NewAnswer(v) \in VoiceShape /\ Together(NewAnswer(v), chat)
         /\ NewAnswer(v).open = v.open /\ NewAnswer(v).paused = v.paused
         /\ NewAnswer(v).pending = v.pending /\ NewAnswer(v).handled = chat.msg
         /\ NewAnswer(v).queuedUntil = 0
  <1> DEFINE s == CancelSpeech(v)
             a == [s EXCEPT !.handled = chat.msg, !.awaiting = FALSE]
             b == [a EXCEPT !.queuedUntil = 0, !.queued = 0]
  <1>1. NewAnswer(v) = [b EXCEPT !.complete = FALSE]
    BY DEF NewAnswer
  <1>2. /\ s \in VoiceShape /\ s.open = v.open /\ s.paused = v.paused /\ s.mic = v.mic
        /\ s.pending = v.pending /\ s.speaking = 0
    BY CancelEffect DEF SameAnswer
  <1> HIDE DEF s
  <1>3. /\ a \in VoiceShape /\ a.open = v.open /\ a.paused = v.paused /\ a.mic = v.mic
        /\ a.pending = v.pending /\ a.speaking = 0 /\ a.handled = chat.msg
    BY <1>2 DEF VoiceShape, ChatShape
  <1> HIDE DEF a
  <1>4. /\ b \in VoiceShape /\ b.open = v.open /\ b.paused = v.paused /\ b.mic = v.mic
        /\ b.pending = v.pending /\ b.speaking = 0 /\ b.handled = chat.msg
        /\ b.queuedUntil = 0
    BY <1>3 DEF VoiceShape
  <1> HIDE DEF b
  <1>5. LET w == NewAnswer(v) IN
        /\ w \in VoiceShape /\ w.open = v.open /\ w.paused = v.paused /\ w.mic = v.mic
        /\ w.pending = v.pending /\ w.speaking = 0 /\ w.handled = chat.msg
        /\ w.queuedUntil = 0 /\ ~w.complete
    <2>1. NewAnswer(v) \in VoiceShape
      BY <1>1, <1>4 DEF VoiceShape
    <2>2. /\ NewAnswer(v).open = v.open /\ NewAnswer(v).paused = v.paused
          /\ NewAnswer(v).mic = v.mic /\ NewAnswer(v).pending = v.pending
      BY <1>1, <1>4 DEF VoiceShape
    <2>3. /\ NewAnswer(v).speaking = 0 /\ NewAnswer(v).handled = chat.msg
          /\ NewAnswer(v).queuedUntil = 0 /\ ~NewAnswer(v).complete
      BY <1>1, <1>4 DEF VoiceShape
    <2>4. QED
      BY <2>1, <2>2, <2>3
  <1>6. QED
    BY <1>5 DEF Together, VoiceShape, ChatShape

\* The effect speaks what is new of the answer it handles. It stops waiting only when
\* the answer is over and there is nothing left to speak.
LEMMA SpeakMoreEffect ==
  ASSUME NEW v \in VoiceShape, chat \in ChatShape, Together(v, chat),
         v.open, v.pending, ~chat.failed, v.handled = chat.msg
  PROVE  /\ SpeakMore(v) \in VoiceShape /\ Together(SpeakMore(v), chat)
         /\ ~SpeakMore(v).pending =>
               \/ v.paused
               \/ ~chat.streaming /\ v.queuedUntil = chat.text /\ SpeakMore(v).speaking = 0
  <1> DEFINE u == IF chat.streaming /\ v.queued = 0 THEN Thinking(v) ELSE v
             w == [u EXCEPT !.complete = ~chat.streaming]
             until == IF chat.streaming THEN lastCompletedSentenceEnd(chat.text)
                      ELSE chat.text
             a == [w EXCEPT !.queuedUntil = until]
             more == a.queued + 1
             b == [a EXCEPT !.queued = more]
             spoken == b.speaking + 1
             z == [w EXCEPT !.pending = FALSE]
  <1>1. SpeakMore(v) = IF ~v.paused /\ until > v.queuedUntil
                       THEN [w EXCEPT !.queuedUntil = until, !.queued = @ + 1,
                                      !.speaking = @ + 1]
                       ELSE IF ~chat.streaming /\ v.queued = 0
                       THEN StartListening(z) ELSE w
    BY DEF SpeakMore
  <1>2. [w EXCEPT !.queuedUntil = until, !.queued = @ + 1, !.speaking = @ + 1]
          = [b EXCEPT !.speaking = spoken]
    OBVIOUS
  <1>3. u \in VoiceShape /\ SameThread(v, u)
    <2>1. Thinking(v) \in VoiceShape /\ SameThread(v, Thinking(v))
      BY DEF Thinking, VoiceShape, SameThread, Statuses
    <2>2. v \in VoiceShape /\ SameThread(v, v)
      BY DEF SameThread
    <2>3. QED
      BY <2>1, <2>2
  <1> HIDE DEF u
  <1>4. /\ w \in VoiceShape /\ (w.complete => ~chat.streaming)
        /\ w.open = v.open /\ w.paused = v.paused /\ w.pending = v.pending
        /\ w.handled = v.handled /\ w.queuedUntil = v.queuedUntil
        /\ w.mic = v.mic /\ w.speaking = v.speaking
    <2>1. w \in VoiceShape /\ (w.complete => ~chat.streaming)
      BY <1>3 DEF VoiceShape, ChatShape
    <2>2. /\ w.open = u.open /\ w.paused = u.paused /\ w.pending = u.pending
          /\ w.handled = u.handled /\ w.queuedUntil = u.queuedUntil
      BY <1>3 DEF VoiceShape
    <2>3. w.mic = u.mic /\ w.speaking = u.speaking
      BY <1>3 DEF VoiceShape
    <2> HIDE DEF w
    <2>4. QED
      BY <1>3, <2>1, <2>2, <2>3 DEF SameThread
  <1>5. until \in Nat /\ until <= chat.text /\ chat.text \in Nat
        /\ (~chat.streaming => until = chat.text) /\ chat.streaming \in BOOLEAN
    BY DEF lastCompletedSentenceEnd, ChatShape
  <1>6. /\ v.mic \notin {"starting", "on"}
        /\ v.queuedUntil \in Nat /\ v.queuedUntil <= chat.text
    BY DEF Together, VoiceShape
  <1> HIDE DEF w, until
  <1>7. CASE ~v.paused /\ until > v.queuedUntil
    <2>1. SpeakMore(v) = [b EXCEPT !.speaking = spoken]
      BY <1>1, <1>2, <1>7, Zenon
    <2>2. /\ a \in VoiceShape /\ (a.complete => ~chat.streaming)
          /\ a.open = v.open /\ a.paused = v.paused /\ a.pending = v.pending
          /\ a.handled = v.handled /\ a.queuedUntil = until
          /\ a.mic = v.mic /\ a.speaking = v.speaking
      BY <1>4, <1>5 DEF VoiceShape
    <2> HIDE DEF a
    <2> more \in Nat
      BY <2>2 DEF VoiceShape
    <2> HIDE DEF more
    <2>3. /\ b \in VoiceShape /\ (b.complete => ~chat.streaming)
          /\ b.open = v.open /\ b.paused = v.paused /\ b.pending = v.pending
          /\ b.handled = v.handled /\ b.queuedUntil = until
          /\ b.mic = v.mic /\ b.speaking = v.speaking
      BY <2>2 DEF VoiceShape
    <2> HIDE DEF b
    <2> spoken \in Nat
      BY <2>3 DEF VoiceShape
    <2> HIDE DEF spoken
    <2>4. LET y == SpeakMore(v) IN
          /\ y \in VoiceShape /\ (y.complete => ~chat.streaming)
          /\ y.open = v.open /\ y.paused = v.paused /\ y.pending = v.pending
          /\ y.handled = v.handled /\ y.queuedUntil = until /\ y.mic = v.mic
      <3> DEFINE y == [b EXCEPT !.speaking = spoken]
      <3>1. y \in VoiceShape
        BY <2>3 DEF VoiceShape
      <3>2. y.open = b.open /\ y.paused = b.paused /\ y.pending = b.pending
        BY <2>3 DEF VoiceShape
      <3>3. /\ y.handled = b.handled /\ y.queuedUntil = b.queuedUntil
            /\ y.mic = b.mic /\ y.complete = b.complete
        BY <2>3 DEF VoiceShape
      <3>4. SpeakMore(v) = y
        BY <2>1
      <3> HIDE DEF y
      <3>5. QED
        BY <2>3, <3>1, <3>2, <3>3, <3>4
    <2>5. Together(SpeakMore(v), chat)
      BY <1>5, <1>6, <1>7, <2>4 DEF Together
    <2>6. QED
      BY <2>4, <2>5
  <1>8. CASE ~(~v.paused /\ until > v.queuedUntil)
    <2>1. ~chat.streaming => v.paused \/ v.queuedUntil = chat.text
      BY <1>5, <1>6, <1>8
    <2>2. Together(w, chat)
      BY <1>4, <1>6, <2>1 DEF Together
    <2>3. CASE ~chat.streaming /\ v.queued = 0
      <3>1. SpeakMore(v) = StartListening(z)
        BY <1>1, <1>8, <2>3
      <3>2. /\ z \in VoiceShape /\ (z.complete => w.complete)
            /\ z.open = v.open /\ z.paused = v.paused /\ ~z.pending
            /\ z.handled = w.handled /\ z.queuedUntil = w.queuedUntil
            /\ z.mic = w.mic /\ z.speaking = w.speaking
        BY <1>4 DEF VoiceShape
      <3> HIDE DEF z
      <3>3. Together(z, chat)
        BY <1>4, <2>2, <3>2 DEF Together
      <3>4. StartListening(z) \in VoiceShape /\ Together(StartListening(z), chat)
        BY <3>2, <3>3, StartKeeps
      <3>5. ~v.paused => StartListening(z).speaking = 0
        BY <3>2, StartEffect
      <3>6. QED
        BY <2>1, <2>3, <3>1, <3>4, <3>5
    <2>4. CASE ~(~chat.streaming /\ v.queued = 0)
      <3>1. SpeakMore(v) = w
        BY <1>1, <1>8, <2>4, Zenon
      <3>2. QED
        BY <1>4, <2>2, <3>1
    <2>5. QED
      BY <2>3, <2>4
  <1>9. QED
    BY <1>7, <1>8

\* What a step may do with an answer the dialogue waits for.
GivesUpRightly ==
    voice.pending /\ ~voice'.pending =>
        \/ chat.failed \/ voice.paused
        \/ ~chat.streaming /\ voice.queuedUntil = chat.text /\ voice'.speaking = 0

LEMMA RespondKeeps ==
  ASSUME VoiceInv, RespondToProps
  PROVE  VoiceInv' /\ GivesUpRightly
  <1> DEFINE v == [voice EXCEPT !.due = FALSE]
  <1>1. /\ voice \in VoiceShape /\ chat \in ChatShape /\ Together(voice, chat)
        /\ chat' = chat
    BY DEF VoiceInv, RespondToProps
  <1>2. voice' = IF ~v.open \/ ~v.pending THEN v
                 ELSE IF chat.failed
                 THEN [CancelSpeech(v) EXCEPT !.pending = FALSE, !.awaiting = FALSE,
                                              !.status = "error"]
                 ELSE IF chat.text = 0 THEN (IF chat.streaming THEN Thinking(v) ELSE v)
                 ELSE IF v.awaiting /\ chat.msg = v.handled THEN Thinking(v)
                 ELSE SpeakMore(IF chat.msg = v.handled THEN v ELSE NewAnswer(v))
    BY DEF RespondToProps
  <1>3. v \in VoiceShape /\ SameThread(voice, v)
    BY <1>1 DEF VoiceShape, SameThread
  <1> HIDE DEF v
  <1>4. Together(v, chat)
    BY <1>1, <1>3, TogetherSame
  <1>5. CASE voice' = v \/ voice' = Thinking(v)
    <2>1. Thinking(v) \in VoiceShape /\ SameThread(v, Thinking(v))
      BY <1>3 DEF Thinking, VoiceShape, SameThread, Statuses
    <2>2. voice' \in VoiceShape /\ SameThread(voice, voice')
      BY <1>3, <1>5, <2>1 DEF SameThread
    <2>3. QED
      BY <1>1, <2>2, QuietVoice DEF GivesUpRightly, SameThread
  <1>6. CASE v.open /\ v.pending /\ chat.failed
    <2> DEFINE s == CancelSpeech(v)
               a == [s EXCEPT !.pending = FALSE, !.awaiting = FALSE]
    <2>1. voice' = [a EXCEPT !.status = "error"]
      BY <1>2, <1>6
    <2>2. /\ s \in VoiceShape /\ SameAnswer(v, s) /\ s.speaking = 0
      BY <1>3, CancelEffect
    <2> HIDE DEF s
    <2>3. /\ a \in VoiceShape /\ a.speaking = 0 /\ a.handled = s.handled
          /\ a.complete = s.complete
      BY <2>2 DEF VoiceShape
    <2> HIDE DEF a
    <2>4. /\ voice' \in VoiceShape /\ voice'.speaking = 0 /\ voice'.handled = s.handled
          /\ voice'.complete = s.complete
      BY <2>1, <2>3 DEF VoiceShape, Statuses
    <2>5. ~voice'.pending
      <3>1. ~a.pending
        BY <2>2 DEF a, VoiceShape
      <3>2. QED
        BY <2>1, <2>3, <3>1 DEF VoiceShape
    <2>6. Together(voice', chat')
      BY <1>1, <1>3, <1>4, <1>6, <2>2, <2>4, <2>5 DEF Together, SameAnswer
    <2>7. QED
      BY <1>1, <1>6, <2>4, <2>6 DEF VoiceInv, GivesUpRightly
  <1>7. CASE /\ v.open /\ v.pending /\ ~chat.failed /\ chat.text # 0
             /\ ~(v.awaiting /\ chat.msg = v.handled)
    <2> DEFINE w == IF chat.msg = v.handled THEN v ELSE NewAnswer(v)
    <2>1. voice' = SpeakMore(w)
      BY <1>2, <1>7
    <2>2. /\ w \in VoiceShape /\ Together(w, chat) /\ w.open /\ w.pending
          /\ w.paused = v.paused /\ w.handled = chat.msg
          /\ w.queuedUntil \in {v.queuedUntil, 0}
      BY <1>1, <1>3, <1>4, <1>7, NewAnswerEffect
    <2> HIDE DEF w
    <2>3. /\ voice' \in VoiceShape /\ Together(voice', chat)
          /\ ~voice'.pending =>
                \/ w.paused
                \/ ~chat.streaming /\ w.queuedUntil = chat.text /\ voice'.speaking = 0
      BY <1>1, <1>7, <2>1, <2>2, SpeakMoreEffect
    <2>4. GivesUpRightly
      BY <1>3, <1>7, <2>2, <2>3 DEF GivesUpRightly, SameThread
    <2>5. QED
      BY <1>1, <2>3, <2>4 DEF VoiceInv
  <1>8. QED
    BY <1>2, <1>5, <1>6, <1>7

\* One utterance less: its end, or its failure.
LEMMA DequeuedEffect ==
  ASSUME NEW v \in VoiceShape
  PROVE  Dequeued(v) \in VoiceShape /\ SameThread(v, Dequeued(v))
  <1> DEFINE n == IF v.queued > 0 THEN v.queued - 1 ELSE 0
  <1>1. n \in Nat /\ Dequeued(v) = [v EXCEPT !.queued = n]
    BY DEF Dequeued, VoiceShape
  <1> HIDE DEF n
  <1>2. QED
    BY <1>1 DEF VoiceShape, SameThread

\* The dialogue without the first utterance of its queue.
LEMMA SpokenEffect ==
  ASSUME VoiceInv, voice.speaking > 0
  PROVE  LET v == [voice EXCEPT !.speaking = @ - 1]
         IN  /\ v \in VoiceShape /\ Together(v, chat)
             /\ v.open /\ ~v.paused /\ v.complete = voice.complete
             /\ v.pending = voice.pending /\ v.queuedUntil = voice.queuedUntil
             /\ v.mic \notin {"starting", "on"}
             /\ v.complete => ~chat.streaming /\ v.queuedUntil = chat.text
  <1> DEFINE n == voice.speaking - 1
             v == [voice EXCEPT !.speaking = n]
  <1>1. voice \in VoiceShape /\ chat \in ChatShape /\ Together(voice, chat) /\ n \in Nat
    BY DEF VoiceInv, VoiceShape
  <1> HIDE DEF n
  <1>2. /\ v \in VoiceShape /\ v.open = voice.open /\ v.paused = voice.paused
        /\ v.complete = voice.complete /\ v.pending = voice.pending
        /\ v.handled = voice.handled /\ v.queuedUntil = voice.queuedUntil
        /\ v.mic = voice.mic
    BY <1>1 DEF VoiceShape
  <1>3. /\ voice.open /\ ~voice.paused /\ voice.mic \notin {"starting", "on"}
        /\ voice.complete => ~chat.streaming /\ voice.queuedUntil = chat.text
    BY <1>1 DEF Together, VoiceShape
  <1> HIDE DEF v
  <1>4. Together(v, chat)
    BY <1>1, <1>2, <1>3 DEF Together
  <1>5. QED
    BY <1>2, <1>3, <1>4 DEF v, n

LEMMA UtteranceEndsKeeps ==
  ASSUME VoiceInv, UtteranceEnds
  PROVE  VoiceInv' /\ GivesUpRightly
  <1> DEFINE v == [voice EXCEPT !.speaking = @ - 1]
             w == Dequeued(v)
             z == [w EXCEPT !.pending = FALSE]
  <1>1. /\ chat \in ChatShape /\ chat' = chat
        /\ v \in VoiceShape /\ Together(v, chat)
        /\ v.open /\ ~v.paused /\ v.complete = voice.complete
        /\ v.pending = voice.pending /\ v.queuedUntil = voice.queuedUntil
        /\ v.mic \notin {"starting", "on"}
        /\ v.complete => ~chat.streaming /\ v.queuedUntil = chat.text
    BY SpokenEffect DEF UtteranceEnds, VoiceInv
  <1>2. voice' = IF ~v.complete \/ w.queued > 0 THEN w ELSE StartListening(z)
    BY DEF UtteranceEnds, UtteranceEnded
  <1> HIDE DEF v
  <1>3. w \in VoiceShape /\ SameThread(v, w) /\ Together(w, chat)
    BY <1>1, DequeuedEffect, TogetherSame
  <1> HIDE DEF w
  <1>4. CASE voice' = w
    BY <1>1, <1>3, <1>4 DEF VoiceInv, GivesUpRightly, SameThread
  <1>5. CASE v.complete /\ voice' = StartListening(z)
    <2>1. /\ z \in VoiceShape /\ z.open = w.open /\ z.paused = w.paused /\ ~z.pending
          /\ z.handled = w.handled /\ z.queuedUntil = w.queuedUntil
          /\ z.mic = w.mic /\ z.speaking = w.speaking /\ z.complete = w.complete
      BY <1>3 DEF VoiceShape
    <2> HIDE DEF z
    <2>2. Together(z, chat)
      BY <1>3, <2>1 DEF Together
    <2>3. voice' \in VoiceShape /\ Together(voice', chat)
      BY <1>1, <1>5, <2>1, <2>2, StartKeeps
    <2>4. voice'.speaking = 0
      BY <1>1, <1>3, <1>5, <2>1, StartEffect DEF SameThread
    <2>5. QED
      BY <1>1, <1>5, <2>3, <2>4 DEF VoiceInv, GivesUpRightly
  <1>6. QED
    BY <1>2, <1>4, <1>5

LEMMA UtteranceKeeps ==
  ASSUME VoiceInv, UtteranceStarts \/ UtteranceFails \/ DroppedUtteranceReports
  PROVE  VoiceInv' /\ GivesUpRightly
  <1>1. voice \in VoiceShape /\ chat \in ChatShape /\ chat' = chat
    BY DEF VoiceInv, UtteranceStarts, UtteranceFails, DroppedUtteranceReports
  <1>2. voice' \in VoiceShape /\ SameThread(voice, voice') => VoiceInv' /\ GivesUpRightly
    BY <1>1, QuietVoice DEF GivesUpRightly, SameThread
  <1>3. CASE UtteranceStarts
    BY <1>1, <1>2, <1>3 DEF UtteranceStarts, VoiceShape, SameThread, Statuses
  <1>4. CASE DroppedUtteranceReports
    <2> DEFINE n == voice.stale - 1
    <2>1. n \in Nat /\ voice' = [voice EXCEPT !.stale = n]
      BY <1>1, <1>4 DEF DroppedUtteranceReports, VoiceShape
    <2> HIDE DEF n
    <2>2. voice' \in VoiceShape /\ SameThread(voice, voice')
      BY <1>1, <2>1 DEF VoiceShape, SameThread
    <2>3. QED
      BY <1>2, <2>2
  <1>5. CASE UtteranceFails
    <2> DEFINE s == [voice EXCEPT !.speaking = @ - 1]
               v == Dequeued(Spend(s))
               a == [v EXCEPT !.status = "error"]
               lost == v.astray \/ (v.complete /\ v.queued = 0)
    <2>1. voice' = [a EXCEPT !.astray = lost] /\ voice.speaking > 0
      BY <1>5 DEF UtteranceFails
    <2>2. s \in VoiceShape /\ Together(s, chat) /\ s.pending = voice.pending
      BY <2>1, SpokenEffect
    <2> HIDE DEF s
    <2>3. v \in VoiceShape /\ Together(v, chat) /\ v.pending = voice.pending
      <3> DEFINE t == Spend(s)
      <3>1. t \in VoiceShape /\ SameThread(s, t)
        BY <2>2, SpendEffect
      <3> HIDE DEF t
      <3>2. Dequeued(t) \in VoiceShape /\ SameThread(t, Dequeued(t))
        BY <3>1, DequeuedEffect
      <3>3. Together(t, chat)
        BY <2>2, <3>1, TogetherSame
      <3>4. Together(Dequeued(t), chat) /\ Dequeued(t).pending = voice.pending
        BY <2>2, <3>1, <3>2, <3>3, TogetherSame DEF SameThread
      <3>5. QED
        BY <3>2, <3>4 DEF t
    <2>4. lost \in BOOLEAN
      BY <2>3 DEF VoiceShape
    <2> HIDE DEF v, lost
    <2>5. a \in VoiceShape /\ SameThread(v, a)
      BY <2>3 DEF VoiceShape, SameThread, Statuses
    <2> HIDE DEF a
    <2>6. voice' \in VoiceShape /\ SameThread(v, voice')
      BY <2>1, <2>4, <2>5 DEF VoiceShape, SameThread
    <2>7. Together(voice', chat)
      BY <2>3, <2>6, TogetherSame
    <2>8. QED
      BY <1>1, <2>3, <2>6, <2>7 DEF VoiceInv, GivesUpRightly, SameThread
  <1>6. QED
    BY <1>3, <1>4, <1>5

\* The user pauses, resumes or closes the dialogue.
LEMMA UserKeeps ==
  ASSUME VoiceInv, Toggle \/ Close
  PROVE  VoiceInv' /\ GivesUpRightly
  <1> DEFINE s == Spend(CancelSpeech(voice))
             mic == AbortedMic(voice)
  <1>1. /\ voice \in VoiceShape /\ chat \in ChatShape /\ Together(voice, chat)
        /\ chat' = chat
    BY DEF VoiceInv, Toggle, Close
  <1>2. s \in VoiceShape /\ SameAnswer(voice, s) /\ s.speaking = 0
    <2> DEFINE c == CancelSpeech(voice)
    <2>1. c \in VoiceShape /\ SameAnswer(voice, c) /\ c.speaking = 0
      BY <1>1, CancelEffect
    <2> HIDE DEF c
    <2>2. Spend(c) \in VoiceShape /\ SameAnswer(voice, Spend(c)) /\ Spend(c).speaking = 0
      BY <2>1, SpendEffect DEF SameThread, SameAnswer
    <2>3. QED
      BY <2>2 DEF c
  <1>3. /\ mic \in {"off", "starting", "on", "submitted", "failed", "aborted"}
        /\ mic \notin {"starting", "on"}
    BY <1>1 DEF AbortedMic, VoiceShape
  <1>4. CASE Toggle /\ voice.paused
    <2> DEFINE t == Spend(voice)
               v == [t EXCEPT !.paused = FALSE]
    <2>1. voice' = StartListening(v)
      BY <1>4 DEF Toggle
    <2>2. t \in VoiceShape /\ SameThread(voice, t)
      BY <1>1, SpendEffect
    <2> HIDE DEF t
    <2>3. /\ v \in VoiceShape /\ v.open = t.open /\ ~v.paused /\ v.pending = t.pending
          /\ v.handled = t.handled /\ v.queuedUntil = t.queuedUntil
          /\ v.complete = t.complete /\ v.mic = t.mic /\ v.speaking = t.speaking
      BY <2>2 DEF VoiceShape
    <2> HIDE DEF v
    <2>4. Together(v, chat)
      BY <1>1, <1>4, <2>2, <2>3 DEF Together, SameThread
    <2>5. QED
      BY <1>1, <1>4, <2>1, <2>3, <2>4, StartKeeps DEF VoiceInv, GivesUpRightly
  <1> HIDE DEF s, mic
  <1>5. CASE Toggle /\ ~voice.paused
    <2> DEFINE a == [s EXCEPT !.paused = TRUE, !.queued = 0]
               b == [a EXCEPT !.mic = mic, !.status = "paused"]
               lost == s.astray \/ (voice.pending /\ ~chat.streaming /\ ~voice.due)
    <2>1. voice' = [b EXCEPT !.astray = lost]
      BY <1>5 DEF Toggle, s, mic
    <2>2. lost \in BOOLEAN
      BY <1>1, <1>2 DEF VoiceShape, ChatShape
    <2> HIDE DEF lost
    <2>3. /\ a \in VoiceShape /\ a.open = s.open /\ a.paused /\ a.pending = s.pending
          /\ a.handled = s.handled /\ a.queuedUntil = s.queuedUntil
          /\ a.complete = s.complete /\ a.speaking = 0
      BY <1>2 DEF VoiceShape
    <2> HIDE DEF a
    <2>4. /\ b \in VoiceShape /\ b.open = s.open /\ b.paused /\ b.pending = s.pending
          /\ b.handled = s.handled /\ b.queuedUntil = s.queuedUntil
          /\ b.complete = s.complete /\ b.speaking = 0 /\ b.mic = mic
      BY <1>3, <2>3 DEF VoiceShape, Statuses
    <2> HIDE DEF b
    <2>5. /\ voice' \in VoiceShape /\ voice'.open = s.open /\ voice'.paused
          /\ voice'.pending = s.pending /\ voice'.handled = s.handled
          /\ voice'.queuedUntil = s.queuedUntil /\ voice'.complete = s.complete
          /\ voice'.speaking = 0 /\ voice'.mic = mic
      BY <2>1, <2>2, <2>4 DEF VoiceShape
    <2>6. Together(voice', chat)
      BY <1>1, <1>2, <1>3, <2>5 DEF Together, SameAnswer
    <2>7. QED
      BY <1>1, <1>2, <2>5, <2>6 DEF VoiceInv, GivesUpRightly, SameAnswer
  <1>6. CASE Close
    <2> DEFINE a == [s EXCEPT !.open = FALSE]
    <2>1. voice' = [a EXCEPT !.mic = mic]
      BY <1>6 DEF Close, s, mic
    <2>2. /\ a \in VoiceShape /\ a.pending = s.pending
          /\ a.handled = s.handled /\ a.queuedUntil = s.queuedUntil
          /\ a.complete = s.complete /\ a.speaking = 0
      BY <1>2 DEF VoiceShape
    <2> HIDE DEF a
    <2>3. /\ voice' \in VoiceShape /\ voice'.pending = s.pending
          /\ voice'.handled = s.handled /\ voice'.queuedUntil = s.queuedUntil
          /\ voice'.complete = s.complete /\ voice'.speaking = 0 /\ voice'.mic = mic
      BY <1>3, <2>1, <2>2 DEF VoiceShape
    <2>4. Together(voice', chat)
      BY <1>1, <1>2, <1>3, <2>3 DEF Together, SameAnswer
    <2>5. QED
      BY <1>1, <1>2, <2>3, <2>4 DEF VoiceInv, GivesUpRightly, SameAnswer
  <1>7. QED
    BY <1>4, <1>5, <1>6

\* The other steps keep waiting for the answer.
LEMMA WaitsOn ==
  ASSUME VoiceInv,
         \/ TimerFires \/ RecognitionStarts \/ RecognitionFails \/ RecognitionEnds
         \/ HearsFinalResult \/ AnswerStarts \/ AnswerGrows \/ AnswerEnds \/ AnswerFails
  PROVE  voice'.pending \/ ~voice.pending
  <1>1. voice \in VoiceShape /\ Spend(voice) \in VoiceShape
        /\ Spend(voice).pending = voice.pending
    BY SpendEffect DEF VoiceInv, SameThread
  <1>2. CASE TimerFires
    <2> DEFINE v == [voice EXCEPT !.timers = @ - 1]
    <2>1. v \in VoiceShape /\ v.pending = voice.pending /\ voice' = StartListening(v)
      BY <1>1, <1>2 DEF TimerFires, VoiceShape
    <2> HIDE DEF v
    <2>2. QED
      BY <2>1, StartEffect DEF SameAnswer
  <1>3. CASE RecognitionStarts \/ RecognitionFails
    BY <1>1, <1>3 DEF RecognitionStarts, RecognitionFails, VoiceShape
  <1>4. CASE RecognitionEnds
    <2> DEFINE Ended(v) == [v EXCEPT !.timers =
                  IF voice.open /\ ~voice.paused /\ ~voice.pending THEN @ + 1 ELSE @]
               Waits(v) == v \in VoiceShape /\ v.pending = voice.pending
    <2>1. ASSUME NEW v, Waits(v) PROVE Waits(Ended(v)) /\ Waits([v EXCEPT !.mic = "off"])
      BY <2>1 DEF VoiceShape
    <2>2. ASSUME NEW v, Waits(v), v.old > 0 PROVE Waits([v EXCEPT !.old = @ - 1])
      BY <2>2 DEF VoiceShape
    <2>3. Waits(voice) /\ Waits(Spend(voice)) /\ Spend(voice).old = voice.old
      BY <1>1 DEF Spend, VoiceShape
    <2>4. \/ voice' = [voice EXCEPT !.mic = "off"]
          \/ voice' = Ended([voice EXCEPT !.mic = "off"])
          \/ voice' = Ended([Spend(voice) EXCEPT !.mic = "off"])
          \/ voice.old > 0 /\ voice' = [voice EXCEPT !.old = @ - 1]
          \/ voice.old > 0 /\ voice' = Ended([Spend(voice) EXCEPT !.old = @ - 1])
      BY <1>4 DEF RecognitionEnds
    <2> HIDE DEF Waits, Ended
    <2>5. Waits(voice')
      BY <2>1, <2>2, <2>3, <2>4
    <2>6. QED
      BY <2>5 DEF Waits
  <1>5. CASE HearsFinalResult
    <2>1. voice'.pending
      <3> DEFINE s == Spend(CancelSpeech(voice))
      <3>1. s \in VoiceShape
        BY <1>1, CancelEffect, SpendEffect
      <3> HIDE DEF s
      <3>2. voice' = [s EXCEPT
                !.pending = TRUE, !.awaiting = TRUE, !.complete = FALSE, !.queuedUntil = 0,
                !.queued = 0, !.status = "thinking", !.mic = "submitted",
                !.due = @ \/ ~chat.streaming, !.astray = chat.streaming]
        BY <1>5 DEF HearsFinalResult, s
      <3>3. QED
        BY <3>1, <3>2 DEF VoiceShape
    <2>2. QED
      BY <2>1
  <1>6. CASE AnswerStarts \/ AnswerGrows \/ AnswerEnds
    BY <1>1, <1>6 DEF AnswerStarts, AnswerGrows, AnswerEnds, Props, VoiceShape
  <1>7. CASE AnswerFails
    BY <1>1, <1>7 DEF AnswerFails, VoiceShape
  <1>8. QED
    BY <1>2, <1>3, <1>4, <1>5, <1>6, <1>7

LEMMA VoiceStepKeeps ==
  ASSUME VoiceInv, [VoiceNext]_voiceVars
  PROVE  VoiceInv' /\ GivesUpRightly
  <1>1. CASE \/ TimerFires \/ RecognitionStarts \/ RecognitionFails \/ RecognitionEnds
             \/ HearsFinalResult \/ AnswerStarts \/ AnswerGrows \/ AnswerEnds \/ AnswerFails
    <2>1. VoiceInv'
      BY <1>1, TimerKeeps, RecognitionKeeps, HearsKeeps, PropsKeep, AnswerFailsKeeps
    <2>2. QED
      BY <1>1, <2>1, WaitsOn DEF GivesUpRightly
  <1>2. CASE RespondToProps
    BY <1>2, RespondKeeps
  <1>3. CASE UtteranceEnds
    BY <1>3, UtteranceEndsKeeps
  <1>4. CASE UtteranceStarts \/ UtteranceFails \/ DroppedUtteranceReports
    BY <1>4, UtteranceKeeps
  <1>5. CASE Toggle \/ Close
    BY <1>5, UserKeeps
  <1>6. CASE UNCHANGED voiceVars
    BY <1>6 DEF voiceVars, VoiceInv, GivesUpRightly
  <1>7. QED
    BY <1>1, <1>2, <1>3, <1>4, <1>5, <1>6 DEF VoiceNext, VoiceProgress

LEMMA VoiceIsSafe == VoiceInv => NeverHearsItself
  BY DEF VoiceInv, Together, NeverHearsItself

-------------------------------------------------------------------------------
(* How much can be under way at once: the bounds that the type of the dialogue *)
(* gives. Each end of a session, timer and answer to wait for goes back to     *)
(* what the user did or to the first timer; each utterance to a fragment of an *)
(* answer that was handled.                                                    *)

Sessions(v) == IF v.mic \in {"starting", "on", "aborted"} THEN 1 ELSE 0
Waits(v) == IF v.pending THEN 1 ELSE 0
Late(v) == v.old + v.timers + Sessions(v) + Waits(v)

\* What may still be spoken of the answer that is handled.
Unspoken(v) == IF v.pending /\ ~v.awaiting THEN MaxFragments - v.queuedUntil ELSE 0
Uttered(v) == v.stale + v.speaking + Unspoken(v)

\* An answer that was asked for and did not begin.
Expected(c) == IF c.streaming /\ ~c.begun /\ ~c.failed THEN 1 ELSE 0

DialogueBounds(v) ==
    /\ Late(v) <= v.events + 1
    /\ Uttered(v) <= MaxFragments * v.handled
    /\ v.speaking <= v.queued /\ v.queued <= v.queuedUntil
    /\ v.queuedUntil <= MaxFragments
    /\ v.speaking > 0 => v.pending
    /\ v.events <= MaxVoice

ChatBounds(v, c) ==
    /\ c.text <= MaxFragments
    /\ c.msg + Expected(c) <= v.events + 2

VoiceBounds == DialogueBounds(voice) /\ ChatBounds(voice, chat)

\* The counters of the dialogue, and the shape they have.
SameCounts(v, w) ==
    /\ w.old = v.old /\ w.timers = v.timers /\ w.mic = v.mic
    /\ w.stale = v.stale /\ w.speaking = v.speaking
    /\ w.queued = v.queued /\ w.queuedUntil = v.queuedUntil
    /\ w.pending = v.pending /\ w.awaiting = v.awaiting
    /\ w.handled = v.handled /\ w.events = v.events

\* What is queued was cancelled at most.
Calmer(v, w) ==
    /\ w.stale + w.speaking = v.stale + v.speaking /\ w.speaking \in {0, v.speaking}
    /\ w.queued = v.queued /\ w.queuedUntil = v.queuedUntil
    /\ w.pending = v.pending /\ w.awaiting = v.awaiting
    /\ w.handled = v.handled /\ w.events = v.events

LEMMA BoundsMean ==
  ASSUME VoiceInv, VoiceBounds
  PROVE  VoiceTypeOK
  <1>1. voice \in VoiceShape /\ chat \in ChatShape /\ Together(voice, chat)
    BY DEF VoiceInv
  <1>2. /\ voice.old \in Nat /\ voice.timers \in Nat /\ voice.stale \in Nat
        /\ voice.speaking \in Nat /\ voice.queued \in Nat /\ voice.queuedUntil \in Nat
        /\ voice.handled \in Nat /\ voice.events \in Nat /\ chat.msg \in Nat /\ chat.text \in Nat
    BY <1>1 DEF VoiceShape, ChatShape
  <1>3. /\ voice.old <= MaxVoice + 1 /\ voice.timers <= MaxVoice + 1
        /\ voice.speaking <= MaxFragments /\ voice.queued <= MaxFragments
        /\ voice.queuedUntil <= MaxFragments /\ voice.events <= MaxVoice
        /\ chat.text <= MaxFragments /\ chat.msg <= MaxVoice + 2
        /\ voice.handled <= MaxVoice + 2 /\ voice.stale <= MaxFragments * voice.handled
    BY <1>1, <1>2, VoiceAssumption
       DEF VoiceBounds, DialogueBounds, ChatBounds, Late, Sessions, Waits, Uttered, Unspoken,
           Expected, Together
  <1>4. voice.stale <= MaxFragments * (MaxVoice + 2)
    <2>1. \A m, a, b \in Nat : a <= b => m * a <= m * b
      OBVIOUS
    <2>2. MaxFragments * voice.handled <= MaxFragments * (MaxVoice + 2)
      BY <1>2, <1>3, <2>1, VoiceAssumption
    <2>3. /\ MaxFragments * voice.handled \in Nat /\ MaxFragments * (MaxVoice + 2) \in Nat
      BY <1>2, VoiceAssumption
    <2>4. QED
      BY <1>2, <1>3, <2>2, <2>3
  <1> DEFINE Events == 0 .. MaxVoice
             Sooner == 0 .. MaxVoice + 1
             Handled == 0 .. MaxVoice + 2
             Parts == 0 .. MaxFragments
             Stale == 0 .. MaxFragments * (MaxVoice + 2)
  <1>5. /\ voice.old \in Sooner /\ voice.timers \in Sooner /\ voice.stale \in Stale
        /\ voice.speaking \in Parts /\ voice.queued \in Parts /\ voice.queuedUntil \in Parts
        /\ voice.handled \in Handled /\ voice.events \in Events
        /\ chat.msg \in Handled /\ chat.text \in Parts
    BY <1>2, <1>3, <1>4, VoiceAssumption
  <1> HIDE DEF Events, Sooner, Handled, Parts, Stale
  <1>6. /\ voice \in [open: BOOLEAN, supported: BOOLEAN, status: Statuses, paused: BOOLEAN,
                  pending: BOOLEAN, awaiting: BOOLEAN, handled: Handled,
                  queuedUntil: Parts, queued: Parts, complete: BOOLEAN,
                  mic: {"off", "starting", "on", "submitted", "failed", "aborted"},
                  old: Sooner, timers: Sooner, speaking: Parts, stale: Stale,
                  due: BOOLEAN, astray: BOOLEAN, events: Events]
    BY <1>1, <1>5 DEF VoiceShape
  <1>7. chat \in [streaming: BOOLEAN, begun: BOOLEAN, msg: Handled,
                 text: Parts, failed: BOOLEAN]
    BY <1>1, <1>5 DEF ChatShape
  <1>8. QED
    BY <1>6, <1>7 DEF VoiceTypeOK, Events, Sooner, Handled, Parts, Stale

LEMMA CancelCounts ==
  ASSUME NEW v \in VoiceShape
  PROVE  /\ Calmer(v, CancelSpeech(v)) /\ CancelSpeech(v).speaking = 0
         /\ Late(CancelSpeech(v)) = Late(v)
  BY DEF VoiceShape, Calmer, CancelSpeech, Late, Sessions, Waits

LEMMA OpensCounts ==
  ASSUME NEW v \in VoiceShape
  PROVE  Calmer(v, Opens(v)) /\ Late(Opens(v)) = Late(v) + 1
  <1> DEFINE s == CancelSpeech(v)
  <1>1. s \in VoiceShape /\ Calmer(v, s) /\ Late(s) = Late(v) /\ s.mic = v.mic
    BY CancelCounts, CancelEffect
  <1>2. Opens(v) = [s EXCEPT !.mic = "starting",
                       !.old = IF v.mic \in {"starting", "on", "aborted"} THEN @ + 1 ELSE @]
    BY DEF Opens
  <1> HIDE DEF s
  <1>3. QED
    BY <1>1, <1>2 DEF VoiceShape, Calmer, Late, Sessions, Waits

LEMMA StartCounts ==
  ASSUME NEW v \in VoiceShape
  PROVE  /\ Calmer(v, StartListening(v)) /\ Late(StartListening(v)) <= Late(v) + 1
         /\ Late(v) \in Nat /\ Late(StartListening(v)) \in Nat
  <1>1. Late(v) \in Nat
    BY DEF VoiceShape, Late, Sessions, Waits
  <1>2. CASE StartListening(v) = v
    BY <1>1, <1>2 DEF Calmer
  <1>3. CASE StartListening(v) = Opens(v)
    BY <1>1, <1>3, OpensCounts
  <1>4. CASE StartListening(v) = [CancelSpeech(v) EXCEPT !.status = "error"]
    <2> DEFINE s == CancelSpeech(v)
    <2>1. s \in VoiceShape /\ Calmer(v, s) /\ Late(s) = Late(v)
      BY CancelCounts, CancelEffect
    <2> HIDE DEF s
    <2>2. Calmer(v, [s EXCEPT !.status = "error"]) /\ Late([s EXCEPT !.status = "error"]) = Late(v)
      BY <2>1 DEF VoiceShape, Calmer, Late, Sessions, Waits
    <2>3. QED
      BY <1>1, <1>4, <2>2 DEF s
  <1>5. QED
    BY <1>2, <1>3, <1>4 DEF StartListening

LEMMA CalmerBounds ==
  ASSUME NEW v \in VoiceShape, NEW w \in VoiceShape, DialogueBounds(v), Calmer(v, w),
         Late(w) <= w.events + 1
  PROVE  DialogueBounds(w)
  BY DEF VoiceShape, DialogueBounds, Calmer, Uttered, Unspoken

\* A step that leaves the counters alone.
LEMMA QuietBounds ==
  ASSUME VoiceBounds, SameCounts(voice, voice'), chat' = chat
  PROVE  VoiceBounds'
  BY DEF VoiceBounds, DialogueBounds, ChatBounds, SameCounts, Late, Sessions, Waits, Uttered,
         Unspoken

LEMMA VoiceBoundsInit == VoiceInit => VoiceBounds
  <1> SUFFICES ASSUME VoiceInit PROVE VoiceBounds
    OBVIOUS
  <1>1. /\ voice.pending = FALSE /\ voice.handled \in {0, 1} /\ voice.queuedUntil = 0
        /\ voice.queued = 0 /\ voice.mic = "off" /\ voice.old = 0 /\ voice.timers = 1
        /\ voice.speaking = 0 /\ voice.stale = 0 /\ voice.events = 0
        /\ chat.msg = voice.handled /\ chat.text = voice.handled
    BY DEF VoiceInit
  <1>2. MaxFragments * voice.handled >= 0
    BY <1>1, VoiceAssumption
  <1>3. QED
    BY <1>1, <1>2, VoiceAssumption
       DEF VoiceBounds, DialogueBounds, ChatBounds, Late, Sessions, Waits, Uttered,
           Unspoken, Expected

\* Timers and sessions: what ends makes room for at most one that begins.
LEMMA TimerBounds ==
  ASSUME VoiceInv, VoiceBounds, TimerFires
  PROVE  VoiceBounds'
  <1> DEFINE v == [voice EXCEPT !.timers = @ - 1]
  <1>1. voice \in VoiceShape /\ voice.timers > 0 /\ voice' = StartListening(v) /\ chat' = chat
        /\ DialogueBounds(voice)
    BY DEF TimerFires, VoiceInv, VoiceBounds
  <1>2. v \in VoiceShape /\ Calmer(voice, v) /\ Late(v) = Late(voice) - 1
    BY <1>1 DEF VoiceShape, Calmer, Late, Sessions, Waits
  <1> HIDE DEF v
  <1>3. voice' \in VoiceShape /\ Calmer(v, voice') /\ Late(voice') <= Late(v) + 1
    BY <1>1, <1>2, StartCounts, StartEffect
  <1>4. Calmer(voice, voice')
    BY <1>2, <1>3 DEF Calmer
  <1>5. Late(voice') <= voice'.events + 1
    <2>1. Late(voice) \in Nat /\ Late(v) \in Nat /\ Late(voice') \in Nat /\ voice.events \in Nat
      BY <1>1, <1>2, <1>3 DEF VoiceShape, Late, Sessions, Waits
    <2>2. QED
      BY <1>1, <1>2, <1>3, <1>4, <2>1 DEF Calmer, DialogueBounds
  <1>6. QED
    BY <1>1, <1>3, <1>4, <1>5, CalmerBounds DEF VoiceBounds, Calmer, ChatBounds

LEMMA RecognitionBounds ==
  ASSUME VoiceInv, VoiceBounds, VoiceInv',
         RecognitionStarts \/ RecognitionFails \/ RecognitionEnds
  PROVE  VoiceBounds'
  <1>1. voice \in VoiceShape /\ voice' \in VoiceShape /\ chat' = chat
    BY DEF VoiceInv, RecognitionStarts, RecognitionFails, RecognitionEnds
  <1>2. /\ voice'.stale = voice.stale /\ voice'.speaking = voice.speaking
        /\ voice'.queued = voice.queued /\ voice'.queuedUntil = voice.queuedUntil
        /\ voice'.pending = voice.pending /\ voice'.awaiting = voice.awaiting
        /\ voice'.handled = voice.handled
        /\ voice'.events \in voice.events .. MaxVoice
        /\ Late(voice') - voice'.events <= Late(voice) - voice.events
    <2>1. voice.events \in Nat /\ voice.events <= MaxVoice
      BY <1>1 DEF VoiceShape, VoiceBounds, DialogueBounds
    <2>2. CASE RecognitionStarts
      BY <1>1, <2>1, <2>2, VoiceAssumption
         DEF RecognitionStarts, VoiceShape, Late, Sessions, Waits
    <2>3. CASE RecognitionFails
      BY <1>1, <2>1, <2>3, VoiceAssumption
         DEF RecognitionFails, VoiceShape, Late, Sessions, Waits, Spend, VoiceRoom
    <2>4. CASE RecognitionEnds
      <3> DEFINE paid == [voice EXCEPT !.events = @ + 1]
                 ended(v) == [v EXCEPT !.timers =
                    IF voice.open /\ ~voice.paused /\ ~voice.pending THEN @ + 1 ELSE @]
      <3>1. \/ /\ voice.mic \in {"submitted", "failed"}
               /\ voice' = [voice EXCEPT !.mic = "off"]
            \/ /\ voice.mic = "aborted" /\ voice' = ended([voice EXCEPT !.mic = "off"])
            \/ /\ voice.mic = "on" /\ voice.events < MaxVoice
               /\ voice' = ended([paid EXCEPT !.mic = "off"])
            \/ /\ voice.old > 0 /\ voice' = [voice EXCEPT !.old = @ - 1]
            \/ /\ voice.old > 0 /\ voice.events < MaxVoice
               /\ voice' = ended([paid EXCEPT !.old = @ - 1])
        BY <2>4 DEF RecognitionEnds, Spend, VoiceRoom
      <3>2. CASE /\ voice.mic \in {"submitted", "failed"}
                 /\ voice' = [voice EXCEPT !.mic = "off"]
        BY <1>1, <2>1, <3>2, VoiceAssumption DEF VoiceShape, Late, Sessions, Waits
      <3>3. CASE voice.mic = "aborted" /\ voice' = ended([voice EXCEPT !.mic = "off"])
        BY <1>1, <2>1, <3>3, VoiceAssumption DEF VoiceShape, Late, Sessions, Waits
      <3>4. CASE /\ voice.mic = "on" /\ voice.events < MaxVoice
                 /\ voice' = ended([paid EXCEPT !.mic = "off"])
        BY <1>1, <2>1, <3>4, VoiceAssumption DEF VoiceShape, Late, Sessions, Waits
      <3>5. CASE voice.old > 0 /\ voice' = [voice EXCEPT !.old = @ - 1]
        BY <1>1, <2>1, <3>5, VoiceAssumption DEF VoiceShape, Late, Sessions, Waits
      <3>6. CASE /\ voice.old > 0 /\ voice.events < MaxVoice
                 /\ voice' = ended([paid EXCEPT !.old = @ - 1])
        BY <1>1, <2>1, <3>6, VoiceAssumption DEF VoiceShape, Late, Sessions, Waits
      <3>7. QED
        BY <3>1, <3>2, <3>3, <3>4, <3>5, <3>6
    <2>5. QED
      BY <2>2, <2>3, <2>4
  <1>3. Late(voice') <= voice'.events + 1
    <2>1. /\ Late(voice) \in Nat /\ Late(voice') \in Nat
          /\ voice.events \in Nat /\ voice'.events \in Nat
      BY <1>1 DEF VoiceShape, Late, Sessions, Waits
    <2>2. QED
      BY <1>2, <2>1 DEF VoiceBounds, DialogueBounds
  <1>4. DialogueBounds(voice')
    BY <1>1, <1>2, <1>3 DEF VoiceBounds, DialogueBounds, Uttered, Unspoken
  <1>5. ChatBounds(voice', chat')
    BY <1>1, <1>2 DEF VoiceInv, VoiceBounds, ChatBounds, Expected, VoiceShape, ChatShape
  <1>6. QED
    BY <1>4, <1>5 DEF VoiceBounds

\* A question is an event; what was queued is cancelled, and the answer to it is awaited.
LEMMA HearsBounds ==
  ASSUME VoiceInv, VoiceBounds, HearsFinalResult
  PROVE  VoiceBounds'
  <1> DEFINE s == CancelSpeech(voice)
  <1>1. /\ voice \in VoiceShape /\ chat \in ChatShape /\ voice.mic = "on" /\ ~voice.pending
        /\ voice.events < MaxVoice
    BY DEF VoiceInv, HearsFinalResult, VoiceRoom, Together
  <1>2. s \in VoiceShape /\ Calmer(voice, s) /\ s.speaking = 0 /\ Late(s) = Late(voice)
        /\ s.mic = voice.mic
    BY <1>1, CancelCounts, CancelEffect
  <1>3. voice' = [[s EXCEPT !.events = @ + 1] EXCEPT
           !.pending = TRUE, !.awaiting = TRUE, !.complete = FALSE, !.queuedUntil = 0,
           !.queued = 0, !.status = "thinking", !.mic = "submitted",
           !.due = @ \/ ~chat.streaming, !.astray = chat.streaming]
    BY DEF HearsFinalResult, Spend
  <1> HIDE DEF s
  <1>4. /\ voice'.pending = TRUE /\ voice'.awaiting = TRUE /\ voice'.queuedUntil = 0
        /\ voice'.queued = 0 /\ voice'.mic = "submitted" /\ voice'.old = s.old
        /\ voice'.timers = s.timers /\ voice'.speaking = s.speaking /\ voice'.stale = s.stale
        /\ voice'.events = s.events + 1 /\ voice'.handled = s.handled
    BY <1>2, <1>3 DEF VoiceShape
  <1>5. Late(voice') <= voice'.events + 1
    BY <1>1, <1>2, <1>4
       DEF VoiceShape, Calmer, Late, Sessions, Waits, VoiceBounds, DialogueBounds
  <1>6. DialogueBounds(voice')
    BY <1>1, <1>2, <1>4, <1>5, VoiceAssumption
       DEF VoiceShape, Calmer, VoiceBounds, DialogueBounds, Uttered, Unspoken
  <1>7. chat'.text = chat.text /\ chat'.msg = chat.msg /\ Expected(chat') <= 1
    BY <1>1 DEF HearsFinalResult, ChatShape, Expected
  <1>8. Expected(chat) \in {0, 1} /\ Expected(chat') \in {0, 1}
    BY DEF Expected
  <1>9. ChatBounds(voice', chat')
    BY <1>1, <1>2, <1>4, <1>7, <1>8
       DEF VoiceShape, ChatShape, Calmer, VoiceBounds, ChatBounds
  <1>10. QED
    BY <1>6, <1>9 DEF VoiceBounds

LEMMA PropsBounds ==
  ASSUME VoiceInv, VoiceBounds, AnswerStarts \/ AnswerGrows \/ AnswerEnds
  PROVE  VoiceBounds'
  <1>1. voice \in VoiceShape /\ chat \in ChatShape /\ SameCounts(voice, voice')
    BY DEF VoiceInv, AnswerStarts, AnswerGrows, AnswerEnds, Props, VoiceShape, SameCounts
  <1>2. ChatBounds(voice, chat')
    <2>1. chat.msg \in Nat /\ chat.text \in Nat /\ voice.events \in Nat
      BY <1>1 DEF VoiceShape, ChatShape
    <2>2. chat.text <= MaxFragments /\ chat.msg + Expected(chat) <= voice.events + 2
      BY DEF VoiceBounds, ChatBounds
    <2>3. CASE AnswerStarts
      <3>1. Expected(chat) = 1
        BY <2>3 DEF AnswerStarts, Flowing, Expected
      <3>2. chat'.begun /\ chat'.msg = chat.msg + 1 /\ chat'.text = 0
        BY <1>1, <2>3 DEF AnswerStarts, Props, ChatShape
      <3>3. QED
        BY <2>1, <2>2, <3>1, <3>2, VoiceAssumption DEF ChatBounds, Expected
    <2>4. CASE AnswerGrows
      <3>1. /\ chat'.streaming = chat.streaming /\ chat'.begun = chat.begun
            /\ chat'.failed = chat.failed /\ chat'.msg = chat.msg
            /\ chat'.text = chat.text + 1 /\ chat.text < MaxFragments
        BY <1>1, <2>4 DEF AnswerGrows, Props, ChatShape
      <3>2. QED
        BY <2>1, <2>2, <3>1, VoiceAssumption DEF ChatBounds, Expected
    <2>5. CASE AnswerEnds
      <3>1. chat'.streaming = FALSE /\ chat'.msg = chat.msg /\ chat'.text = chat.text
        BY <1>1, <2>5 DEF AnswerEnds, Props, ChatShape
      <3>2. QED
        BY <2>1, <2>2, <3>1 DEF ChatBounds, Expected
    <2>6. QED
      BY <2>3, <2>4, <2>5
  <1>3. QED
    BY <1>1, <1>2 DEF VoiceBounds, DialogueBounds, ChatBounds, SameCounts, Late, Sessions,
                      Waits, Uttered, Unspoken

LEMMA AnswerFailsBounds ==
  ASSUME VoiceInv, VoiceBounds, VoiceInv', AnswerFails
  PROVE  VoiceBounds'
  <1>1. /\ voice \in VoiceShape /\ chat \in ChatShape /\ voice.events < MaxVoice
        /\ voice' = [[voice EXCEPT !.events = @ + 1] EXCEPT !.due = TRUE]
        /\ chat' \in ChatShape
    BY DEF VoiceInv, AnswerFails, VoiceRoom, Spend
  <1>2. SameCounts([voice EXCEPT !.events = @ + 1], voice')
    BY <1>1 DEF VoiceShape, SameCounts
  <1>3. DialogueBounds(voice') /\ voice'.events = voice.events + 1
    BY <1>1, <1>2, VoiceAssumption
       DEF VoiceShape, SameCounts, VoiceBounds, DialogueBounds, Late, Sessions, Waits,
           Uttered, Unspoken
  <1>4. /\ chat'.msg <= chat.msg /\ chat'.msg \in Nat
        /\ Expected(chat') = 0 /\ chat'.text <= MaxFragments
    <2>1. chat.text <= MaxFragments /\ chat'.msg \in Nat /\ chat.msg \in Nat
      BY <1>1 DEF ChatShape, VoiceBounds, ChatBounds
    <2>2. chat'.failed = TRUE /\ chat'.msg \in {chat.msg, chat.msg - 1}
          /\ chat'.text \in {chat.text, 0, 1}
      BY <1>1 DEF AnswerFails, ChatShape
    <2>3. QED
      BY <2>1, <2>2, VoiceAssumption DEF Expected
  <1>5. QED
    BY <1>1, <1>3, <1>4
       DEF VoiceShape, ChatShape, VoiceBounds, ChatBounds, Expected

\* The effect. An answer is handled once, and spoken a part at a time.
LEMMA NewAnswerBounds ==
  ASSUME NEW v \in VoiceShape, chat \in ChatShape, Together(v, chat), DialogueBounds(v),
         v.handled # chat.msg
  PROVE  DialogueBounds(NewAnswer(v)) /\ ~NewAnswer(v).awaiting
         /\ NewAnswer(v).events = v.events /\ NewAnswer(v).pending = v.pending
  <1> DEFINE s == CancelSpeech(v)
             w == NewAnswer(v)
  <1>1. s \in VoiceShape /\ Calmer(v, s) /\ s.speaking = 0 /\ Late(s) = Late(v)
    BY CancelCounts, CancelEffect
  <1>2. w = [s EXCEPT !.handled = chat.msg, !.awaiting = FALSE, !.queuedUntil = 0,
                      !.queued = 0, !.complete = FALSE]
    BY DEF NewAnswer
  <1> HIDE DEF s
  <1>3. /\ w.handled = chat.msg /\ w.awaiting = FALSE /\ w.queuedUntil = 0 /\ w.queued = 0
        /\ w.mic = s.mic /\ w.old = s.old /\ w.timers = s.timers /\ w.pending = s.pending
        /\ w.speaking = 0 /\ w.stale = s.stale /\ w.events = s.events
    BY <1>1, <1>2 DEF VoiceShape
  <1> HIDE DEF w
  <1>4. Late(w) <= w.events + 1 /\ w.events = v.events /\ w.pending = v.pending
    BY <1>1, <1>3 DEF Late, Sessions, Waits, DialogueBounds, Calmer
  <1>5. v.handled \in Nat /\ chat.msg \in Nat /\ v.handled + 1 <= chat.msg
    BY DEF VoiceShape, ChatShape, Together
  <1>6. MaxFragments * v.handled + MaxFragments <= MaxFragments * chat.msg
    <2>1. \A m, a, b \in Nat : a + 1 <= b => m * a + m <= m * b
      OBVIOUS
    <2>2. QED
      BY <1>5, <2>1, VoiceAssumption
  <1>7. Uttered(w) <= MaxFragments * w.handled
    <2>1. v.stale \in Nat /\ v.speaking \in Nat /\ Unspoken(v) \in Nat
      BY VoiceAssumption DEF VoiceShape, Unspoken, DialogueBounds
    <2>2. w.stale = v.stale + v.speaking /\ Unspoken(w) <= MaxFragments /\ Unspoken(w) \in Nat
      BY <1>1, <1>3, <2>1, VoiceAssumption DEF VoiceShape, Calmer, Unspoken
    <2>3. v.stale + v.speaking <= MaxFragments * v.handled
      BY <2>1, <1>5, VoiceAssumption DEF DialogueBounds, Uttered
    <2>4. MaxFragments * v.handled \in Nat /\ MaxFragments * chat.msg \in Nat
      BY <1>5, VoiceAssumption
    <2>5. QED
      BY <1>3, <1>6, <2>1, <2>2, <2>3, <2>4, VoiceAssumption DEF Uttered
  <1>8. QED
    BY <1>3, <1>4, <1>7, VoiceAssumption DEF w, DialogueBounds

LEMMA SpeakMoreBounds ==
  ASSUME NEW v \in VoiceShape, chat \in ChatShape, Together(v, chat), DialogueBounds(v),
         v.pending, ~v.awaiting, chat.text <= MaxFragments
  PROVE  DialogueBounds(SpeakMore(v)) /\ SpeakMore(v).events = v.events
  <1> DEFINE u == IF chat.streaming /\ v.queued = 0 THEN Thinking(v) ELSE v
             w == [u EXCEPT !.complete = ~chat.streaming]
             until == IF chat.streaming THEN lastCompletedSentenceEnd(chat.text)
                      ELSE chat.text
             z == [w EXCEPT !.pending = FALSE]
  <1>1. SpeakMore(v) = IF ~v.paused /\ until > v.queuedUntil
                       THEN [w EXCEPT !.queuedUntil = until, !.queued = @ + 1,
                                      !.speaking = @ + 1]
                       ELSE IF ~chat.streaming /\ v.queued = 0
                       THEN StartListening(z) ELSE w
    BY DEF SpeakMore
  <1>2. u \in VoiceShape /\ SameCounts(v, u)
    <2>1. Thinking(v) \in VoiceShape /\ SameCounts(v, Thinking(v))
      BY DEF Thinking, VoiceShape, SameCounts, Statuses
    <2>2. QED
      BY <2>1 DEF SameCounts
  <1> HIDE DEF u
  <1>3. w \in VoiceShape /\ SameCounts(v, w)
    BY <1>2 DEF VoiceShape, ChatShape, SameCounts
  <1> HIDE DEF w
  <1>4. until \in Nat /\ until <= MaxFragments
    BY VoiceAssumption DEF lastCompletedSentenceEnd, ChatShape
  <1> HIDE DEF until
  <1>5. /\ v.queuedUntil \in Nat /\ v.queued \in Nat /\ v.speaking \in Nat /\ v.stale \in Nat
        /\ v.events \in Nat /\ v.handled \in Nat /\ Late(v) \in Nat
    BY DEF VoiceShape, Late, Sessions, Waits
  <1>6. CASE ~v.paused /\ until > v.queuedUntil
    <2> DEFINE y == [w EXCEPT !.queuedUntil = until, !.queued = @ + 1, !.speaking = @ + 1]
    <2>1. /\ y.queuedUntil = until /\ y.queued = v.queued + 1 /\ y.speaking = v.speaking + 1
          /\ y.old = v.old /\ y.timers = v.timers /\ y.mic = v.mic /\ y.stale = v.stale
          /\ y.pending = v.pending /\ y.awaiting = v.awaiting /\ y.handled = v.handled
          /\ y.events = v.events
      BY <1>3 DEF VoiceShape, SameCounts
    <2>2. SpeakMore(v) = y
      BY <1>1, <1>6
    <2> HIDE DEF y
    <2>3. Late(y) = Late(v)
      BY <2>1 DEF Late, Sessions, Waits
    <2>4. Uttered(y) <= Uttered(v)
      BY <1>4, <1>5, <1>6, <2>1, VoiceAssumption DEF Uttered, Unspoken
    <2>5. Uttered(y) <= MaxFragments * v.handled
      <3>1. Uttered(v) \in Nat /\ Uttered(y) \in Nat /\ MaxFragments * v.handled \in Nat
        BY <1>4, <1>5, <2>1, VoiceAssumption DEF Uttered, Unspoken, DialogueBounds
      <3>2. QED
        BY <2>4, <3>1 DEF DialogueBounds
    <2>6. /\ y.speaking <= y.queued /\ y.queued <= y.queuedUntil
          /\ y.queuedUntil <= MaxFragments
      BY <1>4, <1>5, <1>6, <2>1, VoiceAssumption DEF DialogueBounds
    <2>7. DialogueBounds(y)
      BY <2>1, <2>3, <2>5, <2>6 DEF DialogueBounds
    <2>8. QED
      BY <2>1, <2>2, <2>7
  <1>7. DialogueBounds(w)
    BY <1>3 DEF SameCounts, DialogueBounds, Late, Sessions, Waits, Uttered, Unspoken
  <1>8. CASE SpeakMore(v) = w
    BY <1>3, <1>7, <1>8 DEF SameCounts
  <1>9. CASE v.queued = 0 /\ SpeakMore(v) = StartListening(z)
    <2>1. /\ z.queuedUntil = v.queuedUntil /\ z.queued = v.queued /\ z.speaking = v.speaking
          /\ z.old = v.old /\ z.timers = v.timers /\ z.mic = v.mic /\ z.stale = v.stale
          /\ z.pending = FALSE /\ z.awaiting = v.awaiting /\ z.handled = v.handled
          /\ z.events = v.events
      BY <1>3 DEF VoiceShape, SameCounts
    <2>2. z \in VoiceShape
      BY <1>3 DEF VoiceShape
    <2> HIDE DEF z
    <2>3. Late(z) = Late(v) - 1
      BY <1>5, <2>1, <2>2 DEF Late, Sessions, Waits, VoiceShape
    <2>4. DialogueBounds(z)
      BY <1>5, <1>9, <2>1, <2>3, VoiceAssumption DEF DialogueBounds, Uttered, Unspoken
    <2>5. /\ StartListening(z) \in VoiceShape /\ Calmer(z, StartListening(z))
          /\ Late(StartListening(z)) <= Late(z) + 1
          /\ Late(z) \in Nat /\ Late(StartListening(z)) \in Nat
      BY <2>2, StartCounts, StartEffect
    <2>6. Late(StartListening(z)) <= StartListening(z).events + 1
      BY <1>5, <2>1, <2>3, <2>5 DEF DialogueBounds, Calmer
    <2>7. QED
      BY <1>9, <2>1, <2>2, <2>4, <2>5, <2>6, CalmerBounds DEF Calmer
  <1>10. CASE ~(~v.paused /\ until > v.queuedUntil)
    <2>1. \/ SpeakMore(v) = w
          \/ v.queued = 0 /\ SpeakMore(v) = StartListening(z)
      BY <1>1, <1>10, Zenon
    <2>2. QED
      BY <1>8, <1>9, <2>1, Zenon
  <1>11. QED
    BY <1>6, <1>10

LEMMA RespondBounds ==
  ASSUME VoiceInv, VoiceBounds, RespondToProps
  PROVE  VoiceBounds'
  <1> DEFINE v == [voice EXCEPT !.due = FALSE]
  <1>1. /\ voice \in VoiceShape /\ chat \in ChatShape /\ Together(voice, chat)
        /\ DialogueBounds(voice) /\ ChatBounds(voice, chat) /\ chat' = chat
    BY DEF VoiceInv, VoiceBounds, RespondToProps
  <1>2. voice' = IF ~v.open \/ ~v.pending THEN v
                 ELSE IF chat.failed
                 THEN [CancelSpeech(v) EXCEPT !.pending = FALSE, !.awaiting = FALSE,
                                              !.status = "error"]
                 ELSE IF chat.text = 0 THEN (IF chat.streaming THEN Thinking(v) ELSE v)
                 ELSE IF v.awaiting /\ chat.msg = v.handled THEN Thinking(v)
                 ELSE SpeakMore(IF chat.msg = v.handled THEN v ELSE NewAnswer(v))
    BY DEF RespondToProps
  <1>3. v \in VoiceShape /\ SameThread(voice, v) /\ SameCounts(voice, v)
    BY <1>1 DEF VoiceShape, SameThread, SameCounts
  <1> HIDE DEF v
  <1>4. Together(v, chat) /\ DialogueBounds(v)
    BY <1>1, <1>3, TogetherSame
       DEF SameCounts, DialogueBounds, Late, Sessions, Waits, Uttered, Unspoken
  <1>5. DialogueBounds(voice') /\ voice'.events = v.events => VoiceBounds'
    BY <1>1, <1>3 DEF VoiceBounds, ChatBounds, SameCounts
  <1>6. CASE voice' = v \/ voice' = Thinking(v)
    <2>1. SameCounts(v, Thinking(v))
      BY <1>3 DEF Thinking, VoiceShape, SameCounts
    <2>2. SameCounts(voice, voice')
      BY <1>3, <1>6, <2>1 DEF SameCounts
    <2>3. QED
      BY <1>1, <2>2, QuietBounds DEF VoiceBounds
  <1>7. CASE v.pending /\ voice' = [CancelSpeech(v) EXCEPT !.pending = FALSE,
                                       !.awaiting = FALSE, !.status = "error"]
    <2> DEFINE s == CancelSpeech(v)
    <2>1. s \in VoiceShape /\ Calmer(v, s) /\ s.speaking = 0 /\ Late(s) = Late(v)
      BY <1>3, CancelCounts, CancelEffect
    <2>2. voice' = [s EXCEPT !.pending = FALSE, !.awaiting = FALSE, !.status = "error"]
      BY <1>7
    <2> HIDE DEF s
    <2>3. /\ voice'.queuedUntil = v.queuedUntil /\ voice'.queued = v.queued
          /\ voice'.speaking = 0 /\ voice'.stale = s.stale /\ voice'.old = s.old
          /\ voice'.timers = s.timers /\ voice'.mic = s.mic /\ voice'.pending = FALSE
          /\ voice'.handled = v.handled /\ voice'.events = v.events
      BY <2>1, <2>2 DEF VoiceShape, Calmer
    <2>4. Late(voice') = Late(v) - 1
      BY <1>7, <2>1, <2>3 DEF Late, Sessions, Waits, VoiceShape, Calmer
    <2>5. /\ s.stale = v.stale + v.speaking /\ Unspoken(v) \in Nat
          /\ v.stale \in Nat /\ v.speaking \in Nat /\ v.handled \in Nat /\ v.events \in Nat
      BY <1>3, <1>4, <2>1, VoiceAssumption
         DEF VoiceShape, Calmer, Unspoken, DialogueBounds
    <2>6. Uttered(voice') <= MaxFragments * voice'.handled
      <3>1. Uttered(voice') <= Uttered(v) /\ Uttered(v) \in Nat /\ Uttered(voice') \in Nat
        BY <2>3, <2>5 DEF Uttered, Unspoken
      <3>2. MaxFragments * v.handled \in Nat
        BY <2>5, VoiceAssumption
      <3>3. QED
        BY <1>4, <2>3, <3>1, <3>2 DEF DialogueBounds
    <2>7. Late(v) \in Nat
      BY <1>3 DEF Late, Sessions, Waits, VoiceShape
    <2>8. DialogueBounds(voice')
      BY <1>3, <1>4, <2>3, <2>4, <2>5, <2>6, <2>7 DEF DialogueBounds, VoiceShape
    <2>9. QED
      BY <1>5, <2>3, <2>8
  <1>8. CASE /\ v.open /\ v.pending /\ ~chat.failed /\ chat.text # 0
             /\ ~(v.awaiting /\ chat.msg = v.handled)
    <2> DEFINE w == IF chat.msg = v.handled THEN v ELSE NewAnswer(v)
    <2>1. voice' = SpeakMore(w)
      BY <1>2, <1>8
    <2>2. w \in VoiceShape /\ Together(w, chat) /\ w.pending
      BY <1>1, <1>3, <1>4, <1>8, NewAnswerEffect
    <2>3. DialogueBounds(w) /\ ~w.awaiting /\ w.events = v.events
      BY <1>1, <1>3, <1>4, <1>8, NewAnswerBounds
    <2> HIDE DEF w
    <2>4. chat.text <= MaxFragments
      BY <1>1 DEF ChatBounds
    <2>5. DialogueBounds(voice') /\ voice'.events = v.events
      BY <1>1, <2>1, <2>2, <2>3, <2>4, SpeakMoreBounds
    <2>6. QED
      BY <1>5, <2>5
  <1>9. QED
    BY <1>2, <1>6, <1>7, <1>8

\* One utterance less, of an answer that is waited for.
Quieter(v, w) ==
    /\ w.speaking = v.speaking - 1
    /\ w.queued = v.queued - 1
    /\ w.queuedUntil = v.queuedUntil /\ w.old = v.old /\ w.timers = v.timers
    /\ w.mic = v.mic /\ w.stale = v.stale /\ w.handled = v.handled
    /\ w.pending = v.pending /\ w.awaiting = v.awaiting
    /\ w.events >= v.events /\ w.events <= MaxVoice

LEMMA QuieterBounds ==
  ASSUME NEW v \in VoiceShape, NEW w \in VoiceShape, DialogueBounds(v), v.speaking > 0,
         Quieter(v, w)
  PROVE  DialogueBounds(w)
  <1>1. /\ v.stale \in Nat /\ v.speaking \in Nat /\ v.queued \in Nat /\ v.queuedUntil \in Nat
        /\ v.handled \in Nat /\ v.events \in Nat /\ w.events \in Nat /\ Unspoken(v) \in Nat
        /\ MaxFragments * v.handled \in Nat
    BY VoiceAssumption DEF VoiceShape, Unspoken, DialogueBounds
  <1>2. Unspoken(w) = Unspoken(v) /\ Late(w) = Late(v) /\ Late(v) \in Nat
    BY DEF Quieter, Unspoken, Late, Sessions, Waits, VoiceShape
  <1>3. QED
    BY <1>1, <1>2, VoiceAssumption DEF Quieter, DialogueBounds, Uttered

LEMMA UtteranceEndsBounds ==
  ASSUME VoiceInv, VoiceBounds, UtteranceEnds
  PROVE  VoiceBounds'
  <1> DEFINE v == [voice EXCEPT !.speaking = @ - 1]
             w == Dequeued(v)
             z == [w EXCEPT !.pending = FALSE]
  <1>1. /\ voice \in VoiceShape /\ DialogueBounds(voice) /\ voice.speaking > 0
        /\ voice.pending /\ ChatBounds(voice, chat) /\ chat' = chat
    BY DEF VoiceInv, VoiceBounds, DialogueBounds, UtteranceEnds
  <1>2. voice' = IF ~v.complete \/ w.queued > 0 THEN w ELSE StartListening(z)
    BY DEF UtteranceEnds, UtteranceEnded
  <1>3. v \in VoiceShape /\ w \in VoiceShape
    <2>1. v \in VoiceShape
      BY <1>1, SpokenEffect
    <2> HIDE DEF v
    <2>2. QED
      BY <2>1, DequeuedEffect
  <1>4. Quieter(voice, w) /\ w.events = voice.events
    <2>1. /\ v.speaking = voice.speaking - 1 /\ v.queued = voice.queued
          /\ v.queuedUntil = voice.queuedUntil /\ v.old = voice.old
          /\ v.timers = voice.timers /\ v.mic = voice.mic /\ v.stale = voice.stale
          /\ v.handled = voice.handled /\ v.pending = voice.pending
          /\ v.awaiting = voice.awaiting /\ v.events = voice.events
      BY <1>1 DEF VoiceShape
    <2> HIDE DEF v
    <2>2. /\ w.queued = IF v.queued > 0 THEN v.queued - 1 ELSE 0
          /\ w.speaking = v.speaking
          /\ w.queuedUntil = v.queuedUntil /\ w.old = v.old
          /\ w.timers = v.timers /\ w.mic = v.mic /\ w.stale = v.stale
          /\ w.handled = v.handled /\ w.pending = v.pending
          /\ w.awaiting = v.awaiting /\ w.events = v.events
      BY <1>3 DEF VoiceShape, Dequeued
    <2> HIDE DEF w
    <2>3. voice.speaking \in Nat /\ voice.queued \in Nat /\ voice.events \in Nat
      BY <1>1 DEF VoiceShape
    <2>4. QED
      BY <1>1, <2>1, <2>2, <2>3, VoiceAssumption DEF Quieter, DialogueBounds
  <1> HIDE DEF v
  <1>5. DialogueBounds(w)
    <2> HIDE DEF w
    <2>1. QED
      BY <1>1, <1>3, <1>4, QuieterBounds
  <1>6. DialogueBounds(voice') /\ voice'.events = voice.events => VoiceBounds'
    BY <1>1 DEF VoiceBounds, ChatBounds
  <1> HIDE DEF w
  <1>7. CASE voice' = w
    BY <1>4, <1>5, <1>6, <1>7
  <1>8. CASE w.queued <= 0 /\ voice' = StartListening(z)
    <2>1. /\ z \in VoiceShape /\ z.pending = FALSE /\ z.old = w.old /\ z.timers = w.timers
          /\ z.mic = w.mic /\ z.stale = w.stale /\ z.speaking = w.speaking
          /\ z.queued = w.queued /\ z.queuedUntil = w.queuedUntil /\ z.handled = w.handled
          /\ z.events = w.events
      BY <1>3 DEF VoiceShape
    <2> HIDE DEF z
    <2>2. Late(w) \in Nat /\ Late(z) = Late(w) - 1
      BY <1>1, <1>3, <1>4, <2>1 DEF Late, Sessions, Waits, VoiceShape, Quieter
    <2>3. DialogueBounds(z)
      <3>1. /\ w.stale \in Nat /\ w.speaking \in Nat /\ w.queued \in Nat
            /\ w.handled \in Nat /\ w.events \in Nat /\ Unspoken(w) \in Nat
            /\ MaxFragments * w.handled \in Nat
        BY <1>3, <1>5, VoiceAssumption DEF VoiceShape, Unspoken, DialogueBounds
      <3>2. QED
        BY <1>5, <1>8, <2>1, <2>2, <3>1 DEF DialogueBounds, Uttered, Unspoken
    <2>4. /\ voice' \in VoiceShape /\ Calmer(z, voice') /\ Late(voice') <= Late(z) + 1
          /\ Late(voice') \in Nat /\ Late(z) \in Nat
      BY <1>8, <2>1, StartCounts, StartEffect
    <2>5. Late(voice') <= voice'.events + 1
      BY <1>3, <1>5, <2>1, <2>2, <2>4 DEF DialogueBounds, Calmer, VoiceShape
    <2>6. DialogueBounds(voice')
      BY <2>1, <2>3, <2>4, <2>5, CalmerBounds
    <2>7. QED
      BY <1>4, <1>6, <2>1, <2>4, <2>6 DEF Calmer
  <1>9. QED
    <2>1. w.queued \in Nat
      BY <1>3 DEF VoiceShape
    <2>2. QED
      BY <1>2, <1>7, <1>8, <2>1

LEMMA UtteranceBounds ==
  ASSUME VoiceInv, VoiceBounds, VoiceInv',
         UtteranceStarts \/ UtteranceFails \/ DroppedUtteranceReports
  PROVE  VoiceBounds'
  <1>1. /\ voice \in VoiceShape /\ voice' \in VoiceShape /\ DialogueBounds(voice)
        /\ ChatBounds(voice, chat) /\ chat' = chat
    BY DEF VoiceInv, VoiceBounds, UtteranceStarts, UtteranceFails, DroppedUtteranceReports
  <1>2. CASE UtteranceStarts
    <2>1. SameCounts(voice, voice')
      BY <1>1, <1>2 DEF UtteranceStarts, VoiceShape, SameCounts
    <2>2. QED
      BY <1>1, <2>1, QuietBounds
  <1>3. CASE UtteranceFails
    <2>1. Quieter(voice, voice') /\ voice.speaking > 0
      BY <1>1, <1>3, VoiceAssumption
         DEF UtteranceFails, VoiceRoom, Dequeued, Spend, VoiceShape, Quieter, DialogueBounds
    <2>2. DialogueBounds(voice')
      BY <1>1, <2>1, QuieterBounds
    <2>3. QED
      BY <1>1, <2>1, <2>2
         DEF Quieter, VoiceBounds, ChatBounds, VoiceShape, Expected, ChatShape, VoiceInv
  <1>4. CASE DroppedUtteranceReports
    <2>1. /\ voice'.stale = voice.stale - 1 /\ voice'.speaking = voice.speaking
          /\ voice'.old = voice.old /\ voice'.timers = voice.timers /\ voice'.mic = voice.mic
          /\ voice'.queued = voice.queued /\ voice'.queuedUntil = voice.queuedUntil
          /\ voice'.pending = voice.pending /\ voice'.awaiting = voice.awaiting
          /\ voice'.handled = voice.handled /\ voice'.events = voice.events
      BY <1>1, <1>4 DEF DroppedUtteranceReports, VoiceShape
    <2>2. /\ voice.stale \in Nat /\ voice.speaking \in Nat /\ voice.handled \in Nat
          /\ Unspoken(voice) \in Nat /\ MaxFragments * voice.handled \in Nat
      BY <1>1, VoiceAssumption DEF VoiceShape, Unspoken, DialogueBounds
    <2>3. Late(voice') = Late(voice) /\ Unspoken(voice') = Unspoken(voice)
      BY <2>1 DEF Late, Sessions, Waits, Unspoken
    <2>4. DialogueBounds(voice')
      BY <1>1, <2>1, <2>2, <2>3 DEF DialogueBounds, Uttered
    <2>5. QED
      BY <1>1, <2>1, <2>4 DEF VoiceBounds, ChatBounds
  <1>5. QED
    BY <1>2, <1>3, <1>4

LEMMA UserBounds ==
  ASSUME VoiceInv, VoiceBounds, VoiceInv', Toggle \/ Close
  PROVE  VoiceBounds'
  <1> DEFINE s == CancelSpeech(voice)
  <1>1. /\ voice \in VoiceShape /\ voice' \in VoiceShape /\ DialogueBounds(voice)
        /\ ChatBounds(voice, chat) /\ chat \in ChatShape /\ chat' = chat
        /\ voice.events < MaxVoice
    BY DEF VoiceInv, VoiceBounds, Toggle, Close, VoiceRoom
  <1>2. /\ s \in VoiceShape /\ Calmer(voice, s) /\ s.speaking = 0 /\ Late(s) = Late(voice)
        /\ s.mic = voice.mic
    BY <1>1, CancelCounts, CancelEffect
  <1>3. /\ voice.stale \in Nat /\ voice.speaking \in Nat /\ voice.handled \in Nat
        /\ Unspoken(voice) \in Nat /\ MaxFragments * voice.handled \in Nat
        /\ voice.events \in Nat /\ Late(voice) \in Nat /\ chat.msg \in Nat
        /\ voice.queuedUntil \in Nat
    BY <1>1, VoiceAssumption
       DEF VoiceShape, ChatShape, Unspoken, DialogueBounds, Late, Sessions, Waits
  <1>4. DialogueBounds(voice') /\ voice'.events = voice.events + 1 => VoiceBounds'
    BY <1>1, <1>3 DEF VoiceBounds, ChatBounds, Expected
  <1>5. CASE Toggle /\ voice.paused
    <2> DEFINE v == [[voice EXCEPT !.events = @ + 1] EXCEPT !.paused = FALSE]
    <2>1. voice' = StartListening(v)
      BY <1>5 DEF Toggle, Spend
    <2>2. v \in VoiceShape
      <3>1. Spend(voice) \in VoiceShape
        BY <1>1, SpendEffect
      <3>2. v = [Spend(voice) EXCEPT !.paused = FALSE]
        BY DEF Spend
      <3>3. QED
        BY <3>1, <3>2 DEF VoiceShape
    <2>3. /\ v.old = voice.old /\ v.timers = voice.timers /\ v.mic = voice.mic
          /\ v.stale = voice.stale /\ v.speaking = voice.speaking
          /\ v.queued = voice.queued /\ v.queuedUntil = voice.queuedUntil
          /\ v.pending = voice.pending /\ v.awaiting = voice.awaiting
          /\ v.handled = voice.handled /\ v.events = voice.events + 1
      BY <1>1 DEF VoiceShape
    <2> HIDE DEF v
    <2>4. Late(v) = Late(voice) /\ Unspoken(v) = Unspoken(voice)
      BY <2>3 DEF Late, Sessions, Waits, Unspoken
    <2>5. DialogueBounds(v)
      BY <1>1, <1>3, <2>3, <2>4, VoiceAssumption DEF DialogueBounds, Uttered
    <2>6. /\ Calmer(v, voice') /\ Late(voice') <= Late(v) + 1 /\ Late(voice') \in Nat
      BY <2>1, <2>2, StartCounts
    <2>7. Late(voice') <= voice'.events + 1
      BY <1>1, <1>3, <2>3, <2>4, <2>6 DEF DialogueBounds, Calmer
    <2>8. DialogueBounds(voice')
      BY <1>1, <2>2, <2>5, <2>6, <2>7, CalmerBounds
    <2>9. QED
      BY <1>4, <2>3, <2>6, <2>8 DEF Calmer
  <1>6. ASSUME voice'.queued \in {0, s.queued}, voice'.queuedUntil = s.queuedUntil,
               voice'.speaking = 0, voice'.stale = s.stale, voice'.old = s.old,
               voice'.timers = s.timers, voice'.mic = AbortedMic(voice),
               voice'.pending = s.pending, voice'.awaiting = s.awaiting,
               voice'.handled = s.handled, voice'.events = s.events + 1
        PROVE  VoiceBounds'
    <2>1. Late(voice') = Late(voice)
      BY <1>1, <1>2, <1>6 DEF Late, Sessions, Waits, Calmer, AbortedMic
    <2>2. s.stale = voice.stale + voice.speaking /\ Unspoken(voice') = Unspoken(voice)
      BY <1>2, <1>3, <1>6 DEF Calmer, Unspoken, VoiceShape
    <2>3. DialogueBounds(voice')
      BY <1>1, <1>2, <1>3, <1>6, <2>1, <2>2, VoiceAssumption
         DEF DialogueBounds, Uttered, Calmer, VoiceShape
    <2>4. QED
      BY <1>2, <1>4, <1>6, <2>3 DEF Calmer
  <1> DEFINE p == [s EXCEPT !.events = @ + 1]
  <1>7. CASE Toggle /\ ~voice.paused
    <2>1. voice' = [p EXCEPT
              !.paused = TRUE, !.queued = 0, !.mic = AbortedMic(voice), !.status = "paused",
              !.astray = @ \/ (voice.pending /\ ~chat.streaming /\ ~voice.due)]
      BY <1>7 DEF Toggle, Spend
    <2> HIDE DEF s
    <2>2. QED
      BY <1>2, <1>6, <2>1 DEF VoiceShape
  <1>8. CASE Close
    <2>1. voice' = [p EXCEPT !.open = FALSE, !.mic = AbortedMic(voice)]
      BY <1>8 DEF Close, Spend
    <2> HIDE DEF s
    <2>2. QED
      BY <1>2, <1>6, <2>1 DEF VoiceShape
  <1>9. QED
    BY <1>5, <1>7, <1>8

LEMMA VoiceStepBounds ==
  ASSUME VoiceInv, VoiceBounds, [VoiceNext]_voiceVars
  PROVE  VoiceBounds'
  <1>1. VoiceInv'
    BY VoiceStepKeeps
  <1>2. CASE UNCHANGED voiceVars
    BY <1>2 DEF voiceVars, VoiceBounds
  <1>3. CASE VoiceNext
    BY <1>1, <1>3, TimerBounds, RecognitionBounds, HearsBounds, PropsBounds, AnswerFailsBounds,
       RespondBounds, UtteranceEndsBounds, UtteranceBounds, UserBounds
       DEF VoiceNext, VoiceProgress
  <1>4. QED
    BY <1>2, <1>3

===============================================================================
