# Kyrion: a TLA+ model of its command, action and audit core and its web application

Kyrion is a local-first home assistant. A Kotlin/Spring service ("Core", PostgreSQL
behind it) owns all state and all decisions; Python agents on gateway machines drive
Zigbee and Bluetooth devices; voice satellites, an AI service and a web application
talk to Core; a public website has a contact form. This directory models the parts of
that system in which several processes, a database, browsers and unreliable messages
have to agree, checks them with TLC and proves the most important results with TLAPS.

## 1. The system

| Component | State | Operations | Interacts with |
|---|---|---|---|
| Gateway command queue (`gateway/GatewayCommand.kt`) | `gateway_command` rows: pending, running, succeeded, failed | enqueue, executeConfirmed (48 polls), next, complete | agents over HTTP; device commands by call |
| Gateway agent (`services/gateway-agent`) | the command in hand, nothing persistent | loop: next, execute, report; heartbeat; event forwarding thread | Core over HTTP, 10 s timeout; MQTT and Bluetooth |
| Gateway registry (`gateway/GatewayNode.kt`) | `gateway_node` rows, last heartbeat | enrol, heartbeat, authenticate | agents; the queue asks for availability |
| Action execution (`action/`) | `action_execution` rows: pending, completed with an outcome | claim by idempotency key, policy, resolve, execute, complete, replay | device commands by call; web, voice and automation call it |
| Device commands (`capability/DeviceCommand.kt`, `integration/Nanoleaf*`) | last commanded power state, observations | execute per target, enqueue, status | the queue, vendor adapters, the activity log |
| Activity log (`activity/`) | `activity_event` rows in a chain of HMACs, `activity_integrity_chain` heads | append, verify, authorise a prefix for pruning | everybody appends; retention prunes |
| Retention (`retention/RetentionPolicy.kt`) | policy per owner | preview, cleanup | activity log, conversations, memories |
| Knowledge ingestion (`knowledge/`) | documents, jobs with leases, chunks, files | upload, reindex, delete, worker claim/renew/publish/fail, sweep | embedding provider |
| Conversations (`conversation/`) | conversations, messages, turns | replace, append, start and finish a turn | web client, voice, AI orchestration |
| Calendar synchronisation (`calendar/`) | events with etags, schedule rows with a lease | claim, renew, finish, synchronise an event | Google Calendar |
| Voice dialogue (`voice/`) | sessions, pending actions and playback latches in memory | turn, complete a pending action, acknowledge | action execution, conversations, AI |
| Sessions and identity (`security/`) | accounts, sessions, roles, attempt counters in memory | login, change password, revoke, invite | all endpoints |
| AI orchestration (`ai/`) | usage reservations | prepare, stream with fallback, settle | AI service |
| Automation (`automation/`) | button bindings, motion events | bind, handle a gesture, append a motion event | gateway agents, action execution |
| Chat view and chat route (`chat-view.tsx`, `app/api/chat/route.ts`) | messages shown; a handler per turn | submit, stop, leave; start a turn, forward the model's stream, settle the turn | Core, AI service |
| Browser voice dialogue (`voice-mode.tsx`) | recognition, queue of utterances, timer | listen, submit, speak, pause, close | the chat view; Web Speech API |
| Devices page (`devices/page.tsx`) | snapshot, marks, busy flags | load, refresh, write, command, poll | route handlers |
| Pages and panels (`components`, `features`, `app/(workspace)`) | what was loaded, busy flags | load, write, reload | route handlers |
| Application frame (`app-shell.tsx`) | list of conversations, models, voices, preferences | navigate, rename, delete, select | route handlers, `localStorage` |
| Route handlers (`app/api`) | the cookies of the browser | check session, CSRF header and input; forward; answer | Core, AI service |
| Website contact form (`apps/website`) | the draft and its outcome | submit, give up; mail | SMTP server |
| AI service, voice satellite, infrastructure | mostly stateless, or audio buffers | | Core |

### What is hard in it, and what correctness means

* **Gateway command queue.** A request can be lost, its reply can be lost, and a
  request an agent gave up can still be served later; agents and Core restart; the
  audit record that follows a row's INSERT or UPDATE is another transaction. Correct
  means: a command goes out at most once, in order, to its own gateway; a success is
  said only of what was sent; an answer once given stands; a caller always gets one;
  a lost command blocks nothing.
* **Action execution.** Clients repeat requests; a crash may fall between the claim
  and the outcome; targets fail one by one; audit records fail. Correct means: one
  execution per idempotency key, one outcome for all its replies, and an outcome that
  claims no more than the devices did.
* **Activity chain.** Writers, cleanups and a verifier meet on one chain. Correct
  means: the chain never forks, loses only an expired prefix and stays verifiable.
* **Knowledge ingestion.** Leases expire under slow workers, documents are reindexed
  or deleted while they are processed. Correct means: only current chunks are served,
  retries are bounded, every document ends up indexed, failed or gone, files included.
* **Chat.** The view, the handler, the model's stream and Core are four processes; the
  user stops or leaves at any point, and the handler learns of it late. Correct means: an
  answer announced as complete is stored, what was shown is stored, and a turn is settled,
  once, as far as the handler knows of it.
* **Voice dialogue.** Events of the Web Speech API arrive late, twice or after a cancel.
  Correct means: the microphone is off while an answer is spoken, the whole answer is
  spoken, and the dialogue goes on.
* **Pages.** Loads, polls and replies overlap in any order. Correct means: an older
  answer never replaces a newer one, a saved change is shown, a choice that was saved is
  the one used, and no button stays disabled.
* **Route handlers.** A reply may be lost, empty or strange, and the cookies may change
  meanwhile. Correct means: what changes was authorised, a refusal changed nothing, and
  completed work is reported as completed.
* **Contact form.** The browser may give up a submission that is still mailed. Correct
  means: the outcome shown is that of the submission it is shown for.
* **Calendar, voice in Core, sessions, AI usage, automation.** Their hazards are in
  section 5 and, as far as there is room, in `PROJECT.json`.

## 2. The modules

| Module | Models | Checked by |
|---|---|---|
| `CommandPromise` | abstract: what a caller of a device command may rely on | refined by `GatewayCommands`, used by `ActionExecution` |
| `GatewayCommands` | queue, agents, network, heartbeats, restarts | `gateway_two`, `gateway_liveness` |
| `GatewayCommands_proofs` | inductive invariant, safety theorems, refinement | TLAPS |
| `ActionPromise` | abstract: what a client that asks for device actions may rely on | refined by `ActionExecution` |
| `ActionExecution` | idempotency, policy, target loop, outcome, error paths | `action_replay`, `action_rejected`, `action_audit` |
| `ActionExecution_proofs` | inductive invariants, safety theorems, refinement | TLAPS |
| `ActivityChain` | append, retention cleanup, verifier | `chain_safety`, `chain_alarm` |
| `ActivityChain_proofs` | inductive invariant, safety theorems | TLAPS |
| `KnowledgeIngestion` | upload, reindex, deletion, workers with leases, files | `knowledge_two`, `knowledge_one`, `knowledge_fence` |
| `KnowledgeIngestion_proofs` | inductive invariant, safety theorems | TLAPS |
| `ChatTurn` | chat view, chat route, turns in Core | `chat_turns` |
| `ChatTurn_proofs` | inductive invariant, safety theorems | TLAPS |
| `VoiceMode` | the voice dialogue in the browser | `workspace` |
| `VoiceMode_proofs` | inductive invariant of the dialogue, lemmas | TLAPS |
| `DevicesPage` | the devices page | `workspace` |
| `DevicesPage_proofs` | inductive invariant of the page, lemmas | TLAPS |
| `WebApi` | the route handlers and the cookies | `workspace` |
| `AppShell` | the frame of every page | `workspace` |
| `Panels` | 33 pages and panels that load and write | `workspace` |
| `Contact` | the website's contact form and its handler | `workspace` |
| `Workspace` | the six modules above, one examined at a time | `workspace` |
| `Workspace_proofs` | invariants of form, frame, panels and route handlers, theorems of the parts | TLAPS |
| `MC*` | constants and symmetry of the TLC instances | |

Operators that stand just before the definition they resemble and carry the name of a
mistake (`PollPastTheEnd`, `ClaimUnlessCompleted`, ...) are altered versions of it. No
specification uses them; they document which mistake each property would notice.

### CommandPromise

Two variables: `answer`, what a caller was told, and `performed`, how often the order
went out. A refused command is never performed; a confirmed one was performed; a
command is performed at most once, possibly after its caller gave up. It is the
interface between the queue, which implements it, and action execution, which assumes
no more than it of an adapter.

### ActionPromise

Four variables: `asked`, the proposal a key stands for, `done`, what devices did and for
which key, `settled`, the outcome of a key, and `told`, the reply a request got. A key
stands for one proposal; only devices it names act for the key, each once, and none if
the policy forbids it or its arguments do not fit; the outcome is given once and says
"succeeded" only of what was done; who is answered asked for that proposal and is told
that outcome. `ActionExecution` implements it with its rows as `asked` and `settled`,
`Deeds` (what adapters performed) as `done` and `Replies` as `told`: `Claim` is `Ask`, a
device that obeys is `Do`, `Complete` is `Settle`, `Replay` is `Repeat`, and every other
step of a request, a crash and a catalogue or account that changes leave it alone.

### GatewayCommands

A row is `status`, `node` and `createdAt`; `offline` is the age of the gateway's last
heartbeat. `caller` follows a call of `enqueue`/`executeConfirmed` through its steps:
`Stamp` (the availability check and `clock.instant()`), `Insert` (the INSERT and the
activity record), `Poll`, `TimeOut`. `InsertUnrecorded` is the INSERT whose activity
record throws. `pc`, `cmd` and `ok` are an agent's position in `_execute_command`.
`ServeNext` and `ServeReport` are Core's transactions; between them and the agent's
receipt of the reply anything may happen. `LoseNext` and `LoseReport` are a request
that is dropped, a reply that is lost, or a request abandoned by the HTTP timeout; in
the last case it waits in `strayNext` or `strayReports` until Core serves it.
`AgentRestart` and `CoreRestart` lose what the process held in memory.

`Execute` stands for every kind of command: the order leaves or not (`dispatched`) and
the adapter call succeeds or raises (`well`); a success means that the order left. A
failed success report is followed by a failure report, as in the `try`/`except` of
`_execute_command`.

`claim` uses `FOR UPDATE SKIP LOCKED LIMIT 1` in one statement, so a claim is one step.
`dispatches` and `earlier` are history variables.

### ActionExecution

A request is `Claim` or `Replay`, then `Decide` (policy), `Resolve` (catalogue), for
each device in any order `Invoke`, an adapter result and `Note`, then `Finish` and
`Complete`. `Left(r)` are the targets not yet run. `catalog` are the devices that are paired
and offer their capability: a Zigbee device has its capabilities, all of them or none, from
its gateway's last health report, so it may leave the catalogue and return without being
unpaired. `active` is what `TenantBoundary` asks: the Space is active, the accounts of owner
and actor are enabled. The exceptions are actions or
branches of their own: `FindsTargetGone` and the `Resolve` failure (caught, rejected),
`BoundaryRefuses` and `FindsArgumentsInvalid` (not caught), `AuditFails` (any unguarded
activity record), `ConfirmedUnrecorded` (the record inside the Nanoleaf call). An
`IllegalArgumentException`, which is caught too, can only come from a stored row that cannot
be read: such a device is not in `catalog`. The record of
`action.device.confirmed` is guarded by `runCatching` and cannot change anything, so it
has no step. `Crash` loses every request in flight.

### ActivityChain

`chain` holds the sealed events of one owner by their `integrity_sequence`, of which
`sequence` is the last one given out, `head` is the row with the last hash and the anchor,
`lock` that row's lock. A hash is modelled as the sequence of
event ids it authenticates, which is what a collision-free MAC of the previous hash
and the event amounts to. A transaction reads the clock (`Begin`), then takes the lock
and commits, or rolls back at any point (`Abort`). A cleanup removes all events older
than its cutoff, moves the anchor and appends its own event, or is refused when the
expired events are not a prefix. `Tick` assumes that one transaction takes less time
than the retention window, 30 days at the least.

### KnowledgeIngestion

`doc`, `job`, `lease` and `chunks` are the rows of a document; `DELETING` stands for a
`deleted_at` that is set, since one statement writes both. A lease is *valid* or
*expired*, and `Expire` is ten minutes without renewal. What makes the component hard is
READ COMMITTED: `fresh` is whether the lease was valid when a transaction read its clock,
`scan` is what the first UPDATE of a claim saw, and `lock` is who holds the row lock of a
document. So a claim is `BeginClaim` and `CommitClaim`, a publication `BeginPublish`,
`LockToPublish` and `CommitPublish`, a failure `BeginFail`, `LockToFail` and `CommitFail`,
a reindex `BeginReindex` and `CommitReindex`. PostgreSQL rechecks an updated row after
waiting for it, but not the rows joined to it: `Condemns` looks at the job as the snapshot
had it and at the document as it is now. `held` is the `KnowledgeJob` of a worker. A crash
rolls its transaction back. A file is *new* for a day; `Age` assumes that neither an
upload nor a sweep takes that long.

### ChatTurn

`shown` and `opened` are the view: messages are told apart by their turn and role, so that a
set of them is what the view renders in order. `link` the stream between handler and browser (what
was forwarded and not yet read, and how it ended), `route` a handler: its `pc` in `POST`
and in the stream, its `cancel` callback, which is a second thread, and the text it has
collected. `call` is a request of either thread to Core, `status` and `log` are the rows
of turns and messages. `Stop` and `Leave` abort the request; the handler notices at
`NoticeAbort`, if it has not ended before. `Interrupted` is `finalizeInterrupted`, and
both threads may be in it, since each awaits Core after setting `finalized`. A failure is
a request that is lost before or after Core served it, or a stream that breaks.

### Workspace and its parts

The pages share no state but Core's, so `Workspace` examines one `part` in each
behaviour and leaves the others in a fixed initial state. Its module gives each part its
own environment, as free as Core and the network may be.

* `VoiceMode`: `voice` is the component (status, microphone, queue, generation, timer),
  `chat` the streaming answer it is given as props. `stale` counts utterances that were
  cancelled and still report. An answer's text is a number of half sentences; the
  dialogue speaks up to the last completed sentence while it streams.
* `DevicesPage`: `home` is what Core has observed and when, `devices` what the page
  holds, `loads`, `writes` and `commands` are its requests. Only the latest load is
  shown, and of each device only a later observation (`mergeDeviceSnapshots`). Devices
  that Core has only just paired with have no observation yet. A snapshot without one wins
  over any that has (`snapshot.ts:8`), so a load answered before the first observation and
  shown after a refresh or a command takes that observation away until the next load;
  `ShownNeverGoesBack` is about two observations and leaves this case out by name.
* `WebApi`: a handler is a record of its guards in order, what the service does, how it
  acknowledges and how the reply becomes an answer; `ApiHandlers` lists them all. Of two
  concurrent calls one is of any handler and one of the account's, so that sessions end
  and cookies change between any two steps; a session may also end by itself. Reads, and
  calls that their input or CSRF guard is bound to refuse, run alone (`MayChange`): they
  change nothing the other call could notice. Core looks the session up in
  `AuthenticatedRouteInterceptor.preHandle` and writes later, so `CoreAccepts` and the work are separate steps: a call that was let in does its work
  though a sign-out, a password change or an expiry falls in between. What
  `WritesAreAuthorised` claims is that a call *sent* after the end of its session never
  changes anything, however its cookie came to outlive the session. Seven services commit
  their work in several steps and may answer 4xx after some of them (`InSteps`): a
  permission withdrawn between two events of a calendar synchronisation
  (`CalendarSynchronization.kt:38`), a Zigbee connection stored before its command is
  refused, a removed device whose gateway has not answered in time, a Home Assistant
  connection stored before its first synchronisation, a refresh that loses an integration
  half way, an upload that is no longer found, an action whose claim stays pending. Of
  these `AnswersAreHonest` says only that a refused call is not carried on and was not
  done in full. Three handlers that Core acknowledges with
  an empty 204 copy that status onto a body: `new Response("", {status: 204})` throws,
  so the page sees an error although the role was changed
  (`rbac/users/[id]/roles/route.ts:3`, `rbac/users/[id]/enabled/route.ts:3`,
  `rbac/roles/[id]/route.ts:4`). `CompletedWorkIsReported` names and excludes them.
* `AppShell`: `shell` is the state of the frame and what `localStorage` holds, `sidebar`
  the conversations shown, those in Core and the requests under way. The catalogue
  *lists* models of which only some are *ready* (available and enabled): the user can
  choose a ready one only (`app-shell.tsx:266`), but `loadModels` takes the saved choice if
  it is listed (202), so a model that has become unavailable may still be in use.
  `SelectionIsSaved` says that this is the only way, apart from the default model.
* `Panels`: a panel is a record of the choices its code makes: when it loads again, which
  answers it drops, what each write waits for, which flag it sets and whether the flag
  disables the button, what its reply does, and whether something catches what `fetch`
  throws. One panel is chosen initially; each of the rows is read off one component, and
  it is `PagesSettle`, with its flags and uncaught errors, that needs them all. A load is
  `whole` where a failed part fails all of it; elsewhere a part may be wanting, which the
  page says (`told`: `calendarPage`, `KnowledgeView`, `SpacePage`, `IdentityPage`) or
  passes over (`silent`: the outputs of `SpotifyPage`, `PluginsPage`, and the player, whose
  reads need not show yet what Spotify accepted, though it asks up to three times:
  `ReadsAgain`). What a panel shows beside its data (an invitation code, a preview, the
  notice of a clean-up, search results) comes and goes as the code pleases; such writes
  (`beside`) change flags only and nothing is claimed of what they show.

  `SavedIsShown` is claimed for writes that are read back or replied, in the panels in
  which no load can overtake the reload after a write (`InOrder`). In
  `CalendarSyncSettings`, `AiOrchestrationSettings`, `KnowledgeView`, `SpacePage`,
  `IdentityPage`, `SystemServicesPage`, `HomePage`, `GatewaysPage`, `DeviceControlDialog`,
  `NanoleafPage`, `HomeAssistantConnection` and `UsersPage` TLC finds it violated: an
  answer asked for before the write can arrive last and stays until the next load. In
  `SpotifyPage` it is the part that was not read, in `useSpotifyPlayer` the read that is too
  early. `RolesPage` neither reads back nor shows a reply as a whole.
* `Contact`: a submission has a number; the handler may go on with one the browser gave
  up after 65 s. The mail server may accept a mail and its reply be lost, which the
  visitor reads as a failed delivery. That a second submission then mails the text again
  is the code's behaviour and no property excludes it.

## 3. The runs

| Run | Instance | Shows |
|---|---|---|
| `gateway_two` | 2 commands, 2 gateways, 1 poll, 1 fault | type, at most once, standing answers, order of dispatch, refinement of `CommandPromise` |
| `gateway_liveness` | 2 commands, 1 gateway, 1 fault, fair | callers return, the queue keeps moving, everything settles without faults |
| `action_replay` | 3 requests, 1 key, 2 devices, 4 proposals, 1 audit failure, 1 crash, 1 device comes and goes, the account too, fair | idempotency, truthful replies, refinement of `ActionPromise`, claims are settled unless a crash, an audit failure, a disabled account or malformed arguments interfere |
| `action_rejected` | no audit failures or crashes, 1 device comes and goes | *violated*: a rejected action may have been carried out in part |
| `action_audit` | 2 audit failures | *violated*: an audit failure changes a confirmed result |
| `chain_safety` | 2 writers, 2 cleanups, 1 verifier, window 1, clock to 3 | the chain verifies, events stay as long as promised, an undisturbed verification is right |
| `chain_alarm` | 2 writers, 1 cleanup, 1 verifier | *violated*: the verifier raises a false alarm |
| `knowledge_two` | 1 document, 2 instances, 3 attempts, 2 revisions, 1 crash | READY means indexed, no document is stranded, files follow documents |
| `knowledge_one` | 1 document, 1 instance, 3 attempts, 3 revisions, 2 crashes, fair | an indexed document stays so, every job ends, nothing is left behind |
| `knowledge_fence` | 1 document, 2 instances | *violated*: a publication is committed under a lease another instance holds |
| `chat_turns` | 2 turns, 1 delta each; turns, stops, departures and lost requests 3 together; fair | a completion means stored, what was shown is stored, a turn is settled (but see `TurnsSettle` below), and once |
| `workspace` | 3 voice events, 3 fragments, 2 device events, 1 poll, 1 gateway device and 1 panel, 4 events of the frame, 1 further load and 2 writes per panel, 2 calls, 2 submissions, fair | see below |

In `workspace`: the dialogue never hears itself and speaks whole answers
(`NeverHearsItself`, `SpeaksWholeAnswer`); no device is put back from one observation to an
older one (`ShownNeverGoesBack`); what a handler changes was authorised by a session that lived
when the call was sent, a refusal is final, a success was done, and completed work is reported (`WritesAreAuthorised`,
`AnswersAreHonest`, `CompletedWorkIsReported`); saved selections are used
(`SelectionIsSaved`); four panels show what was saved (`SavedIsShown`); the contact form tells
the outcome of the last submission (`ContactIsHonest`); and no page waits for ever
(`PagesSettle`).

**Bounds.** Two commands are what an order, a contradiction or a blocked queue needs,
and two gateways what a command of the wrong one needs; one fault is a lost claim, a
lost report or a restart at any point. The theorems hold for any number of either.
`MaxPolls = 1` (48 in the code) makes a timeout as likely as an answer. Three requests
of one key are the original, a retry and a mismatch. In the chain two writers can fork,
two cleanups can find each other's events, and with a window of 1 and a clock to 3
events expire before, while and after others are written. One document is enough for
ingestion, since documents meet only in the choice of a candidate; two instances are
what a lease is for, and `knowledge_one` is the deployment the documentation describes.
Two turns are what a late abort of one needs to disturb the next, and `MaxEvents = 3`
leaves them one stop, one departure or one lost request (a single turn, two of these): each
finds the one delta and the completion at every point of the stream.
Three voice events are a question, a pause and a resumption, and three fragments a
sentence, half of another and the end. A panel's first load, a further one and two
writes give every order of an old answer, a new answer and two replies. Two calls are an
action and the sign-out or password change that it races. Two submissions are one that
was given up and its successor.

`CHECK_DEADLOCK FALSE` is set for `ActionExecution`, `ActivityChain`, `ChatTurn` and
`Workspace`, whose requests and events are finite in number: when all are done nothing
is left to do. The loops of the gateway and of the ingestion worker never stop, and
their runs check for deadlock.

**Symmetry** is used in runs without liveness only, over commands, gateways, writers,
cleanups, documents and instances of Core, none of which the specifications tell apart.

**Fairness.** `GatewayCommands`: a caller's thread and an agent's loop keep running and
Core serves a request it received; nothing is assumed of heartbeats, of new calls, of
stray requests or of faults, and `Execute` is fair in the sense that adapter calls end
(every subprocess and socket in `cli.py` has a timeout). `ActionExecution`: the thread of
a request keeps running; adapter calls end because of the polls' limit and the 5 s
timeout of `NanoleafClient`. `KnowledgeIngestion`: the scheduler ticks, a sweep that
began goes on, time passes (`Age` strongly, because the assumption that a sweep is short
disables it while one runs), and a reindex that holds its row commits unless it fails.
`ChatTurn`: the browser reads its stream, a handler's two threads go on, a broken
connection is noticed, Core serves what it was sent. `Workspace`: `Progress`, which is
what browser, network and services do by themselves: requests end in an answer or an
error (`browserRequest` gives up after 15 s, handlers and `fetch` when the connection
breaks), timers fire, utterances end. Nothing is assumed of the user.

`TurnsSettle` says that an open turn is settled, unless a request is lost, in two cases: if
nobody stops it, and, stopped or not, once the handler has Core's answer in hand. The case
in between is left out because the code does not settle it: a stop while `POST .../turns` is
under way aborts that request (`chat/route.ts:106`), Core may serve it all the same, and as
`startedTurn` is still null (`:211`) the row stays `started` for good, without a request
having been lost. The model has these behaviours (`Stop`, `TurnDoesNotStart`, `CoreStarts`).

`PagesSettle` excludes by name what the code does not settle. `stuck`: in a panel whose
write nothing catches (`GatewayLightControlDialog`, `ZigbeeDeviceControlDialog`,
`DeviceControlDialog`, `NanoleafPage`, `SpotifyPage`, `HomeAssistantConnection`,
`RolesPage`) a `fetch` that throws leaves the flag set. `astray`: pausing the dialogue
while it waits for an answer, or an error of the last utterance, leaves
`pendingResponse` set, and `startListening` then returns at once
(`voice-mode.tsx:90`, `:266`, `:291`) until the dialogue is closed and opened again.

**Disagreements found** (the four violated runs):

* `DeviceCommand.kt:206` says that a failing audit store must not change a confirmed
  result, but the Nanoleaf service records its success inside the guarded device call
  and the orchestrator's final record is unguarded. Nothing but a failing audit record
  does it (`OnlyAuditFailuresUndo`).
* ADR 0011 says rejected outcomes are returned without calling a domain service, but a
  target that is unpaired in the middle of the loop, or whose capability is withdrawn by a
  health report, rejects an action already begun. As long as its devices stay in the
  catalogue with their capability, it does not happen (`RejectionsAreClean`).
* ADR 0015 says the verifier compares with the locked chain head; it takes no lock.
* `k-data.md` says that leases prevent competing publications and that publication is
  fenced; `alive` measures the lease at the beginning of the transaction and does not
  lock the job, so a publication that outlives its lease is committed next to that of the
  instance that claimed the job. The document ends up indexed all the same
  (`ReadyIsIndexed` holds), but with several instances `IndexedStays` does not. One
  instance cannot do that (`OneInstanceIsFenced`). `IndexedStays` has a second way to
  fail, of which no document speaks: the first UPDATE of a claim waits for the document
  of an exhausted job, checks the document again but not the job, and marks as failed
  what was published while it waited. There is no third (`FencingKeepsIndex`).

## 4. The theorems

### GatewayCommands_proofs

For any sets of commands and gateways, any `MaxPolls` and any `MaxFaults`; the
assumptions are those named in `GatewayCommands`.

`Invariance` proves `Spec => []IInv`. None of the safety properties is inductive, since
each relates a row to what an agent, a stray request or a caller knows about it, so
`IInv` adds:

* `RowInv`: which status a row can have at each step of its caller;
* `HoldInv`: what an agent holds at each position of its loop is a running (or already
  settled) row of its own gateway, held by nobody else, and stray reports are about
  commands of their gateway;
* `SentInv`: a pending command has not been sent, one about to be executed has not been
  sent yet, a positive report or a success is about one that was sent exactly once;
* `OrderInv`: rows that existed when a command was stamped have older timestamps, and
  while one of them is pending on a gateway the later command has not been claimed.

Each action preserves each part (`InvStep`, one step per action). The properties follow:
`NeverSentTwice`, `SuccessIsHonest`, `AnswersStand`, `TakenOnce` and `TypeCorrect` from
the invariant alone, `Final` and `InOrder` from the invariant and one step.
`SuccessIsHonest`, `TakenOnce` and `Final` state properties (`SuccessWasSent`,
`TakenByItsGateway`, `OutcomeIsFinal`) that no run repeats.
`Refinement` proves that the queue implements `CommandPromise`: initial states map to
initial states (`PromiseStart`) and every step to a step or a stutter (`PromiseStep`).

### ActionExecution_proofs

For any sets of requests, keys, devices and proposals, and any bounds on crashes and
audit failures; the assumption is `ProposalsAssumption`. What the adapter does enters only
through `CommandPromise`, which `Refinement` above proves of the gateway queue. The three
properties speak of requests that have replied, so the inductive invariant has to say what
the requests on the way there own and know:

* `OwnInv`: a request that is at work under its key, or was, or has ever called an
  adapter, is the only such request of that key, and the key's row exists; whatever was
  performed was asked for. The INSERT of `Claim` is what makes it true: it succeeds only
  while there is no row, hence no owner;
* `RowInv`: a row has the proposal of its owner and of every request it answered, and a
  request that replied has the outcome of a completed row;
* `TruthInv`: what a request has noted as succeeded, is about to store, or has stored in
  its row was performed, by itself or by the owner of the row.

`Works` describes a step of a request that has claimed its key and has not replied, which
leaves the rows and all other requests alone. `WorksKeeps` shows once that such a step
keeps the invariant, `OrchestratorWorks` and `CommandWorks` that twelve of the actions are
such steps, and claim, replay, completion, a device that obeys, and a crash have a lemma
each; `TruthFrame` is what the last five share. `OncePerKey`, `Truthfulness` and
`TypeCorrect` follow from the invariant alone, and so does `RepliesAreTheRow`, which states
`RepliesAgree`: no run repeats it, because `ActionPromise` demands it.

`ActionRefinement` proves that action execution implements `ActionPromise`. Its invariant
`PInv` adds to `IInv` what the promise says and the three properties do not:

* `OutcomesInv`: a free key stands for nothing, a key has an outcome exactly when its row
  is completed, and what is about to be stored is an outcome;
* `PermitInv`: whoever has got past the policy asks for nothing forbidden, and a device was
  asked only for a proposal its row stands for, that names it, and that is neither forbidden
  nor malformed.

`PromiseStarts` maps the initial states; `ClaimAsks`, `PerformDoes`, `CompleteSettles` and
`ReplayRepeats` map a step of the code to the step of the promise it is, and `PromiseStep`
puts them together with the steps that stutter. `PermittedOnly` is a consequence for
devices, and `StoredRowsStand` for the table: a row keeps its proposal, and a completed one
its outcome.

Two theorems say what remains of the two documented promises that the code breaks (the runs
`action_rejected` and `action_audit`):

* `RejectionsAreClean`: in every behaviour in which a proposal's devices stay in the
  catalogue, nothing of a rejected action of that proposal is carried out under its key, by
  whatever request. By `PendingInv` the row of a request at work is pending, so that nobody
  asks a device once the outcome is stored, and a request that has not resolved its devices
  has not asked any; `RejectionInv` follows the outcome from the loop into the row;
* `OnlyAuditFailuresUndo`: as long as no audit record has failed, a confirmed command is
  noted and answered as succeeded.

### KnowledgeIngestion_proofs

For any sets of documents and instances of Core, and any bounds on attempts, revisions
and crashes; the assumptions are those named in `KnowledgeIngestion`. `TypeCorrect`,
`ReadyMeansIndexed`, `NoneIsStranded` and `FilesFollow` follow from an inductive invariant
that adds to the three properties:

* `HandInv`: a worker past its claim has a document in hand, and what it cleans up was
  deleted before (otherwise removing a row could take the chunks of a `READY` document);
* `LockInv`: a locked row is visible and belongs to the worker whose step says so, which
  still sees the revision it was given; this is what `publish` needs the `FOR UPDATE` for,
  as the chunks would otherwise be of a revision that a reindex has replaced;
* `ScanInv`: nothing a running claim saw lapse gets a new lease or another attempt before
  the claim ends, so that its two statements agree on which jobs are exhausted; it holds
  because a claim reads the clock once, at its beginning;
* `FileInv`: what a running sweep does not know to be referenced is too new for it, if it
  is referenced.

Effect lemmas say what each statement does to a row (`BecomesEffect`, `ClaimEffect`,
`PublishEffect`, `FailEffect`, ...); `DocumentStep`, `FilesStep` and `JobsStep` say what
any step may do to a document, a file and a job; and each part of the invariant has a
lemma of its own (`HandStep`, `LockStep`, `ScanStep`, `FileInvStep`, `IndexStep`,
`StrandStep`, with `TypeStep` for the types).

`OneInstanceKeepsIndex` states `IndexedStays` for any set `Workers` with one element; with
two it is false (a publication that outlives its lease leaves the job with the other
instance, which then marks the document as being processed again). It needs `AloneInv` on
top of the invariant: what the worker is about to publish or record is still leased to it,
so that the job of a `READY` document has ended; and nothing a claim found exhausted is
`READY` when the claim condemns it, because only the claiming worker could have published.
From the same invariant, `OneInstanceIsFenced` states for one instance what `knowledge_fence`
shows to be violated by two.

`FencingKeepsIndex` says which of it all makes `IndexedStays` true: for any number of
instances it holds in every behaviour whose publications are fenced (`PublicationIsFenced`)
and whose claims condemn nothing published since they began (`ClaimsAreCurrent`). Under
these hypotheses `FenceInv` is inductive: the job of a `READY` document has ended, and a
document a worker has locked is not `READY`, as only who holds its job can lock it
(`LockHoldsJob`) and a publication leaves it unlocked (`OnlyPublished`). `RowsStay`, about
every step that publishes only what is leased and condemns nothing `READY`, serves both
theorems. The code ensures neither hypothesis; with one instance it ensures both.

### ActivityChain_proofs

For any sets of writers, cleanups and verifiers, any window and any clock; the assumptions
are `BoundsAssumption` and `ActorsAssumption`. `ChainAlwaysVerifies`, `EventsAreRetained`,
`QuietVerification` and `Typing` follow from an inductive invariant that adds to the
properties:

* `LockInv`: who works behind the row lock holds it, and a writer behind it knows the last
  hash as the row has it, so that two writers cannot fork the chain;
* `TimeInv`: no transaction outlasts the window, so that a cleanup that found no chain row
  has nothing to delete in a chain started meanwhile;
* `Suffix`: the events left are the last ones without a gap, which is what makes the anchor
  of a cleanup the hash before its first survivor;
* `HeadInv` and `VerifierInv`: no row means no hash and no anchor, and a verifier nobody
  disturbed compares with the row as it is.

`VerifiesMeansLinked` states what the verifier compares as a fact about every event and its
predecessor, and `InsertKeepsChain` that sealing one more event keeps it.

### ChatTurn_proofs

For any number of turns, pieces of an answer, stops, departures and lost requests; the
assumptions are `BoundsAssumption` and `NoneAssumption`. `Typing`, `CompletionIsStored` and
`TurnsSettleOnce` follow from `IInv`, whose parts are:

* `TurnInv`: `TurnOK` of the values that belong to a turn. A handler that has not asked for
  a stream has sent nothing; while it streams, what was heard and what is on its way add up
  to the text it has collected, which is what it sends to Core; a completion is on its way
  only after Core stored that text; and a request answered with "ok" settled the turn as it
  says, so that the row has its status and the log its text;
* `LogInv`: a turn has one answer at most, and only once it ended;
* `ViewInv`: what a mounted view shows of an answer is what was heard of it, which bounds
  the text, and the page of a new conversation is opened once.

Since `TurnOK` is stated of values, what the main loop does is proved of them first
(`ReturnKeeps`, `SettleKeeps`, `ForwardKeeps`, `EarlyKeeps`, `SavingKeeps`, `CancelKeeps`,
`EndsKeeps`, `RefusedKeeps`), and `TurnStep`, `CoreStep`, `ReadingStep` and `ViewOnly` say
once what the rest of the state has to do with it. Every action then has a lemma of a few
lines. `Deltas`, a cardinality, has its lemmas at the beginning.

`ShownIsKept` needs a second invariant on top of `IInv`, which holds while no request is
lost (`SInv`), and is stated of `OnWay`, what the browser has of an answer or will still
read:

* `CallsOK` and `RowOK`: a request to settle a turn, and the row and the answer it leaves,
  carry at least that much, and exactly that much if the browser reads on;
* `LoopOK`: whoever marks a turn as finalized has sent such a request, so the handler never
  ends with an answer nobody will store, although a callback next to it may be first;
* `LinkOK`: the stream ends with its handler, and an error or a completion is its last event;
* `Shows` and `ShownInv`: a view shows what it has heard, three dots only while something is
  to come that replaces or removes them, and of turns it did not stream only rows of the log.

Each handler action is shown to keep these of the values of its turn (`ReturnSettles`,
`SettleSettles`, `ForwardSettles`, `AnswerSettles` and so on); `KeptStep` and `BrowserKept`
carry that over to the state. Its hypothesis is the one of the property: with a lost request
the text shown may be stored nowhere. `QuietIsSettled` and `KeptShows`
then read the property off the invariant.

### VoiceMode_proofs, DevicesPage_proofs and Workspace_proofs

For any bounds on events, fragments, submissions, loads, writes and calls, and any finite
sets of devices; the assumptions are `ShellEventsAssumption`, `VoiceAssumption`,
`DevicesAssumption`, `SubmissionsAssumption` and `PanelsAssumption` (the bounds are
numbers, and an answer has a fragment at least). A behaviour of `Workspace` is one of
each of its parts (`PartsStart`, `PartsStep`), so that a part's own invariant is enough:

* `VoiceInv` of `DialogueIsNoEcho` and `DialogueSpeaksAll`: a session of the microphone runs
  only while nothing is spoken or about to be; an answer known to be complete has ended and
  what is still spoken of it reaches to its end; what was queued is a part of the answer
  being handled. The steps are proved of the record `voice` (`Together`), one helper of the
  component after the other;
* `DevicesInv` of `PageNeverGoesBack`: whatever the page shows, a load carries or a write
  brings along was observed by Core's clock; the rooms of the page are no later than Core's;
  and the load that is to be shown next has no answer yet or one as late as the page. That
  no device goes back to an older observation is then `MergeGoesOn`, a lemma about `mergeDeviceSnapshots`, and that
  the rooms do not is what the comparison with the latest load is for. `PageMoves`,
  `PageLoads` and `CoreMoves` say once which steps cannot disturb the rest;
* `ContactInv` of `FormIsHonest`: a submission that has not been answered, or was refused,
  has mailed nothing; one answered as sent has mailed its text once; and the form's verdict
  is about a submission that is over, so that no late answer can make it untrue;
* `ShellInv` of `FrameSelectsSaved`: the selection is the saved one if the catalogue lists it,
  what is ready is listed, and each request to change a conversation names it;
* `PanelInv` of `PanelsShowSaved`. `InOrder` names panels; the invariant says what they have
  in common. A panel is `Serial` if all its buttons that change what is shown wait for one flag,
  which lets one such write be under way at a time, and `Once` if only a write loads it after the first load, which
  every write waits for. A `Reloading` panel is serial and reloads after its writes: its
  newest load carries every write that was told to have succeeded, no older answer is taken
  any more, and what is shown has them unless something was said to be wanting or the newest
  load is still to come (`ReloadInv`). In a `Replying` one every reply carries the writes
  told before it (`ReplyInv`), whatever is done beside them. The steps are
  stated as relations of two records of a panel, each with one lemma per part of the
  invariant, and a last group of lemmas shows that the actions are those steps;
* `WebApiInv` of `AnswersAreFinal`, `DoneIsReported` and `ChangesAreAuthorised`. What the
  table of handlers has to be like is `SoundHandler`, proved of every row
  (`HandlersAreSound`): a handler that changes something has a session guard and a CSRF
  guard (or, where a browser comes back from an authorisation, the flow's code and state),
  answers "done" unconditionally only where nothing is changed, and does not parse an empty
  acknowledgement. `CallInv` then says of a call that Core works for it only behind all its
  guards, that each guard is still to come or passed (`Guarded`), and that an answer is one
  that the work or a guard gave. Every action but the end of a session is one of four steps
  of a call (`IsSent`, `PassesGuard`, `IsAnswered`, `IsWorkedFor`). `TokensInv` adds that
  every token was issued before the next one, so that a session that is over never lives
  again, that the token of a stale call is such a one, and that Core has let no stale call
  in. The model has no constant, and the run covers the same calls exhaustively.

`PagesAreTyped` states `PagesTypeOK`, which says not only what the variables of the parts
are but how much of it can be under way: timers, sessions and late callbacks of the
dialogue, answers of a panel, polls of a command, session tokens. That these are bounded
by the numbers of events and writes has to be counted: `VoiceBounds` adds up what each
event of the browser may leave behind, `PanelBounds` the loads that a panel's writes ask for,
`TokensInv` the tokens that calls have handed out; the page's polls are counted by
`DevicesTypeOK` itself, since a command ends at its last poll.

**Only model-checked:** liveness (`CallersReturn`, `QueueKeepsMoving`,
`SettlesWithoutFaults`, `ClaimsAreSettled`, `JobsEnd`, `NothingIsLeftBehind`, `TurnsSettle`,
`PagesSettle`), for which the prover has no rule. Every invariant and every action property
of a passing run is a theorem, and so are both refinements; `IndexedStays` is one for the one
instance that its run has, and under the hypotheses of `FencingKeepsIndex`.

## 5. What is not modelled, and the plan

Not modelled because there is nothing concurrent in them or they are data: enrolment and
credentials, wording and rendering, translations and type guards, device protocols, OAuth
flows beyond their handlers, static pages, installation scripts, role checks, the AI
service and the voice satellite, whose state is buffers of audio.

Left out of modelled parts: in the devices page the button bindings (whose reload
overwrites edits, `page.tsx:142`) and the motion history; in the frame the theme, text
size, speech rate and signing out; a blocked `localStorage` (a selection is then lost on
reload); in the pages the YouTube card, the session status, the voice preview, the model
benchmark and reads of single devices; in Core's conversations `replace`.

Hazards seen in parts that have no module yet: the attempt limiter is asked before and
told after the password check; `CalendarSyncSchedule.finish` computes its backoff from a
row it read before its UPDATE; a pending voice action is taken before it is executed and
answered; `appendIfChanged` of motion events and two toggles of a button each read and
write in separate statements; a generation's usage is to be settled once per attempt
although it may fall back.

Next, in this order:

1. `ConversationTurns`: a client's replace against turns that append and finish.
2. `CalendarSync`: the lease, etags and lost replies of the provider; abstractly, an
   exchange in which no change of either side is lost silently.
3. `VoiceTurn`, `AuthSessions`, `AiGeneration`, and button and motion events.
