-------------------------------- MODULE Panels --------------------------------
(***************************************************************************)
(* The pages and panels of the web application that load what Core has,    *)
(* let the user change it and show the result. Each of them wrote this     *)
(* cycle for itself: when it loads again and whether a superseded answer   *)
(* is dropped, what a button waits for, what the reply of a write does to  *)
(* what is shown, and what happens when there is no reply. A panel is the  *)
(* record of these choices; one panel is examined at a time.               *)
(*                                                                         *)
(* What Core has is the set of the user's writes it has applied. The pages *)
(* with a life of their own are modules of their own (DevicesPage,         *)
(* VoiceMode, ChatTurn, AppShell).                                         *)
(***************************************************************************)
EXTENDS Naturals, Sequences, FiniteSets

CONSTANTS MaxLoads,  \* how often a panel is loaded on request of the user or a timer
          MaxWrites  \* how often the user writes

ASSUME PanelsAssumption == MaxLoads \in Nat /\ MaxWrites \in Nat

VARIABLE panel

(***************************************************************************)
(* A write of a panel: what its button waits for (something "shown", the   *)
(* first load "ended", "nothing"), the flag it sets while it is under way  *)
(* ("none": it sets none), whether that flag disables it (blocks), what    *)
(* its reply does, and what a request that throws does: the flag is        *)
(* cleared ("caught") or stays set ("thrown").                             *)
(*   reload      the panel loads again, and the flag is cleared after that *)
(*   rereads     the same, and it is read up to MaxReads times             *)
(*   reply       the reply is what is shown from now on                    *)
(*   adds        the reply is put into what is shown now                   *)
(*   overlays    the change is put into what was shown at the press        *)
(*   optimistic  shown before it is sent, taken back when it is refused    *)
(*   follows     the reply is asked for again until the work has ended     *)
(*   leaves      the browser leaves the page, with the flag set            *)
(*   beside      what was loaded stays as it is. What is shown beside it   *)
(*               (a code, a preview, search results, a notice) and is      *)
(*               replaced or cleared as the panel pleases, is left out.    *)
(***************************************************************************)
MaxReads == 3
Op(needs, flag, blocks, then, lost) ==
    [needs |-> needs, flag |-> flag, blocks |-> blocks, then |-> then, lost |-> lost]

\* The common cases: a button that waits for the load, or that does not.
Edits(flag, then) == Op("shown", flag, TRUE, then, "caught")
Starts(flag, then) == Op("nothing", flag, TRUE, then, "caught")

\* The same where nothing catches what fetch throws.
EditsBlindly(flag, then) == Op("shown", flag, TRUE, then, "thrown")
StartsBlindly(flag, then) == Op("nothing", flag, TRUE, then, "thrown")

\* A button that nothing disables while its request is under way.
Unguarded(then) == Op("shown", "none", FALSE, then, "thrown")

\* Loads: "once" when the panel opens, "idle" also when the user asks or a timer
\* fires and no write is under way, "any" also while one is, "asked" only when the
\* user asks. Which answers are dropped: none, those of a superseded load ("older"),
\* or also those asked for before a write was sent ("stale"). What a load that came
\* brings: the "whole"; or some of its parts may be wanting, which it says ("told") or
\* does not ("silent").
PanelOfParts(name, loads, drops, reads, ops) ==
    [name |-> name, loads |-> loads, drops |-> drops, reads |-> reads, ops |-> ops]
Panel(name, loads, drops, ops) == PanelOfParts(name, loads, drops, "whole", ops)

SupersededLoadsWin ==    \* mutant
    PanelOfParts("calendar", "any", "none", "told",
                 {Starts("saving", "reload"), Edits("saving", "reload")})
calendarPage ==          \* Google's events may be wanting
    PanelOfParts("calendar", "any", "older", "told",
                 {Starts("saving", "reload"), Edits("saving", "reload")})
CalendarSyncSettings == Panel("calendarSync", "any", "none", {Edits("busy", "reply")})
MemoryPanel == Panel("memory", "once", "none", {Edits("pending", "reload")})
AiOrchestrationSettings == Panel("ai", "any", "none", {Edits("busy", "reload")})
KnowledgeView ==
    PanelOfParts("knowledge", "any", "none", "told",
                 {Edits("busy", "reload"), Op("ended", "busy", TRUE, "reload", "caught")})
SpacePage == PanelOfParts("space", "idle", "none", "told", {Starts("pending", "reload")})
IdentityPage == PanelOfParts("identity", "idle", "none", "told", {Edits("busy", "reload")})
SystemServicesPage == Panel("services", "any", "none", {Edits("syncing", "reload")})
RetentionPolicyPanel ==
    Panel("retention", "once", "none",
          {Edits("saving", "reply"), Edits("cleanupState", "beside")})
PersonalBackupPanel == Panel("backup", "never", "none", {Starts("working", "beside")})
ActiveSessionsPanel == Panel("sessions", "once", "none", {Edits("pendingId", "reload")})
HomePage ==
    Panel("home", "any", "none", {Starts("savingRoom", "reload"), Op("shown", "none", FALSE, "optimistic", "caught")})
GatewaysPage ==
    Panel("gateways", "any", "none", {Starts("pending", "beside"), Edits("commandPending", "reload")})
AddDevicePage ==
    Panel("addDevice", "any", "none",
          {Op("shown", "addingDevice", FALSE, "beside", "caught"),   \* Zigbee and Bluetooth
           Edits("addingDevice", "beside"),                          \* Shelly
           Starts("networkSearching", "beside"),
           Unguarded("beside")})                                     \* pairing
GatewayLightControlDialog ==
    Panel("lightDialog", "never", "none", {StartsBlindly("status", "follows")})
ZigbeeDeviceControlDialog ==
    Panel("zigbeeDialog", "never", "none", {StartsBlindly("status", "follows")})
DeviceControlDialog == Panel("panelDialog", "once", "none", {StartsBlindly("pending", "reply")})

NanoleafPage ==
    Panel("nanoleaf", "once", "none",
          {StartsBlindly("pending", "reload"), StartsBlindly("discovering", "beside"),
           EditsBlindly("pending", "reload"), EditsBlindly("pending", "beside"),
           Op("shown", "pending", FALSE, "reload", "thrown")})       \* renaming
SpotifyPage ==           \* a failed read of the outputs is passed over
    PanelOfParts("spotify", "once", "none", "silent",
                 {EditsBlindly("pending", "leaves"), EditsBlindly("pending", "reload")})
useSpotifyPlayer ==      \* a read need not show yet what was accepted
    PanelOfParts("player", "idle", "stale", "silent", {Edits("pending", "rereads")})
SpotifyPlaylistShelf == Panel("playlists", "any", "older", {})
PluginsPage == PanelOfParts("plugins", "any", "older", "silent", {})
IntegrationProviderPage ==
    Panel("provider", "once", "none", {Edits("starting", "leaves"), Unguarded("leaves")})
HomeAssistantConnection ==
    Panel("homeAssistant", "once", "none",
          {Starts("phase", "beside"), Starts("phase", "reload"), EditsBlindly("phase", "reload")})
UsersPage == Panel("users", "once", "none", {Unguarded("reload")})
RolesPage ==
    Panel("roles", "once", "none",
          {StartsBlindly("createState", "adds"), EditsBlindly("state", "adds"),
           Unguarded("overlays")})
ActivityPage == Panel("activity", "once", "none", {})
ActionInspector == Panel("inspector", "asked", "older", {})
ContextSourceInspector == Panel("sources", "asked", "none", {})
AuthForm == Panel("login", "never", "none", {Starts("pending", "beside")})
PasswordChangeForm == Panel("password", "never", "none", {Starts("pending", "beside")})
InvitationPanel == Panel("invitation", "never", "none", {Starts("pending", "beside")})
RecoveryPage == Panel("recovery", "never", "none", {Starts("busy", "follows")})

AllPanels ==
    {calendarPage, CalendarSyncSettings, MemoryPanel, AiOrchestrationSettings, KnowledgeView,
     SpacePage, IdentityPage, SystemServicesPage, RetentionPolicyPanel, PersonalBackupPanel,
     ActiveSessionsPanel, HomePage, GatewaysPage, AddDevicePage, GatewayLightControlDialog,
     ZigbeeDeviceControlDialog, DeviceControlDialog, NanoleafPage, SpotifyPage, useSpotifyPlayer,
     SpotifyPlaylistShelf, PluginsPage, IntegrationProviderPage, HomeAssistantConnection,
     UsersPage, RolesPage, ActivityPage, ActionInspector, ContextSourceInspector,
     AuthForm, PasswordChangeForm, InvitationPanel, RecoveryPage}

(***************************************************************************)
(* The state of the panel under examination.                               *)
(***************************************************************************)
Writes == 1 .. MaxWrites
Flags(kind) == {op.flag : op \in kind.ops} \ {"none"}
NoWrite == [op |-> Starts("none", "beside"), state |-> "unsent", has |-> {}]

PanelsTypeOK ==
    /\ panel.kind \in AllPanels
    /\ panel.store \subseteq Writes /\ panel.shown \subseteq Writes
    /\ panel.loaded \in BOOLEAN /\ panel.ended \in BOOLEAN /\ panel.broken \in BOOLEAN
    /\ panel.flags \subseteq Flags(panel.kind) /\ panel.stuck \subseteq panel.flags
    /\ panel.asked \in 0 .. 1 + MaxLoads + 2 * MaxWrites
    /\ \A l \in panel.loads : /\ l.n \in 1 .. panel.asked
                              /\ l.state \in {"asked", "answered"} /\ l.for \in 0 .. MaxWrites
                              /\ l.reads \in 1 .. MaxReads
    /\ \A w \in Writes : panel.writes[w].state \in
          {"unsent", "asked", "applied", "refused", "reloading", "following", "ok", "failed"}

Asking(n, w) == [n |-> n, state |-> "asked", has |-> {}, for |-> w, reads |-> 1]

PanelsInit ==
    \E kind \in AllPanels :
        panel = [kind |-> kind, store |-> {}, shown |-> {}, loaded |-> FALSE, ended |-> FALSE,
                 broken |-> FALSE, flags |-> {}, stuck |-> {},
                 asked |-> IF kind.loads \in {"never", "asked"} THEN 0 ELSE 1,
                 loads |-> IF kind.loads \in {"never", "asked"} THEN {} ELSE {Asking(1, 0)},
                 polls |-> 0, writes |-> [w \in Writes |-> NoWrite]]

(***************************************************************************)
(* Loads.                                                                  *)
(***************************************************************************)
Load(p, w) == [p EXCEPT !.asked = @ + 1, !.loads = @ \cup {Asking(p.asked + 1, w)}]

LoadPanel ==
    /\ panel.polls < MaxLoads
    /\ \/ panel.kind.loads \in {"any", "asked"}
       \/ panel.kind.loads = "idle" /\ panel.flags = {}
    /\ panel' = Load([panel EXCEPT !.polls = @ + 1], 0)

AnswerPanel(l) ==
    /\ l.state = "asked"
    /\ panel' = [panel EXCEPT !.loads =
            (@ \ {l}) \cup {[l EXCEPT !.state = "answered", !.has = panel.store]}]

\* The load after a write that is read more than once failed, or does not show the
\* write yet.
ReadsAgain(l) ==
    /\ l.for # 0 /\ panel.writes[l.for].op.then = "rereads" /\ l.reads < MaxReads
    /\ panel' = [panel EXCEPT !.loads =
            (@ \ {l}) \cup {[l EXCEPT !.state = "asked", !.reads = @ + 1]}]

\* The flag of a write nobody cleans up after stays set, until another write that
\* shares it clears it.
Sticks(p, w) == [p EXCEPT !.stuck = @ \cup ({p.writes[w].op.flag} \cap p.flags)]
Cleared(p, w) ==
    [p EXCEPT !.flags = @ \ {p.writes[w].op.flag}, !.stuck = @ \ {p.writes[w].op.flag}]

Throws(p, w) == Sticks([p EXCEPT !.writes[w].state = "failed"], w)

\* A load has ended; the write that waited for it has, too.
Ends(p, l, outcome) ==
    LET q == [p EXCEPT !.loads = @ \ {l}, !.ended = TRUE]
    IN  IF l.for = 0 THEN q
        ELSE [Cleared(q, l.for) EXCEPT !.writes[l.for].state = outcome]

\* A part that is wanting is missing, or stays as it was.
ShowsLoad(l) ==
    \/ panel' = Ends([panel EXCEPT !.shown = l.has, !.loaded = TRUE, !.broken = FALSE], l, "ok")
    \/ /\ panel.kind.reads # "whole"
       /\ \E shown \in SUBSET (l.has \cup panel.shown) :
             panel' = Ends([panel EXCEPT !.shown = shown, !.loaded = TRUE,
                                         !.broken = panel.kind.reads = "told"], l, "ok")

LoadEnds(l) ==
    /\ l.state = "answered"
    /\ IF panel.kind.drops # "none" /\ l.n # panel.asked
       THEN panel' = Ends(panel, l, "ok")
       ELSE ShowsLoad(l)

\* The load of a write whose errors nobody catches takes the write with it.
PanelLoadFails(l) ==
    LET broken == [panel EXCEPT !.broken = TRUE, !.loads = @ \ {l}, !.ended = TRUE]
    IN  panel' = IF l.for # 0 /\ panel.writes[l.for].op.lost = "thrown"
                 THEN Throws(broken, l.for)
                 ELSE Ends([panel EXCEPT !.broken = TRUE], l, "ok")

(***************************************************************************)
(* Writes.                                                                 *)
(***************************************************************************)
MayStart(op) ==
    /\ op.needs = "shown" => panel.loaded
    /\ op.needs = "ended" => panel.ended
    /\ op.blocks => op.flag \notin panel.flags

StartPanelWrite(w) ==
    /\ panel.writes[w] = NoWrite
    /\ \A v \in Writes : v < w => panel.writes[v] # NoWrite
    /\ \E op \in panel.kind.ops :
         /\ MayStart(op)
         /\ panel' = [panel EXCEPT
                !.writes[w] = [op |-> op, state |-> "asked", has |-> panel.shown],
                !.flags = @ \cup ({op.flag} \ {"none"}),
                !.asked = IF panel.kind.drops = "stale" THEN @ + 1 ELSE @,
                !.shown = IF op.then = "optimistic" THEN @ \cup {w} ELSE @]

ApplyWrite(w) ==
    /\ panel.writes[w].state = "asked"
    /\ \/ panel' = [panel EXCEPT !.writes[w].state = "refused"]
       \/ LET op == panel.writes[w].op
              store == panel.store \cup {w}
          IN  panel' = [panel EXCEPT !.store = store, !.writes[w].state = "applied",
                  !.writes[w].has = IF op.then = "reply" THEN store ELSE @]

LeavesItsFlagSet(p, w, state) == [p EXCEPT !.writes[w].state = state]  \* mutant

Settled(p, w, state) == [Cleared(p, w) EXCEPT !.writes[w].state = state]

WriteReplies(w) ==
    /\ panel.writes[w].state = "applied"
    /\ LET op == panel.writes[w].op
       IN  panel' = CASE op.then \in {"reload", "rereads"} ->
                            Load([panel EXCEPT !.writes[w].state = "reloading"], w)
                      [] op.then = "follows" -> [panel EXCEPT !.writes[w].state = "following"]
                      [] op.then = "reply" ->
                            Settled([panel EXCEPT !.shown = panel.writes[w].has], w, "ok")
                      [] op.then = "adds" ->
                            Settled([panel EXCEPT !.shown = @ \cup {w}], w, "ok")
                      [] op.then = "overlays" ->
                            Settled([panel EXCEPT !.shown = panel.writes[w].has \cup {w}], w, "ok")
                      [] op.then = "leaves" -> Sticks([panel EXCEPT !.writes[w].state = "ok"], w)
                      [] OTHER -> Settled(panel, w, "ok")

\* A refusal is shown; a guess is taken back, with all that was shown meanwhile.
Refused(w) ==
    panel' = Settled(IF panel.writes[w].op.then = "optimistic"
                     THEN [panel EXCEPT !.shown = panel.writes[w].has] ELSE panel, w, "failed")

WriteIsRefused(w) == panel.writes[w].state = "refused" /\ Refused(w)

\* The request throws, at whatever point it was: what Core did stays done. Where it is
\* caught, it counts as refused. A question for the outcome of work that is followed is
\* asked again, if it is caught.
WriteIsLost(w) ==
    LET op == panel.writes[w].op IN
        \/ /\ panel.writes[w].state \in {"asked", "applied", "refused"}
           /\ IF op.lost = "caught" THEN Refused(w) ELSE panel' = Throws(panel, w)
        \/ /\ panel.writes[w].state = "following" /\ op.lost = "thrown"
           /\ panel' = Throws(panel, w)

\* The work that was followed has ended, or was asked for too often.
WorkHasEnded(w) ==
    /\ panel.writes[w].state = "following"
    /\ \E outcome \in {"ok", "failed"} : panel' = Settled(panel, w, outcome)

PanelsProgress ==
    \/ \E l \in panel.loads : \/ AnswerPanel(l) \/ ReadsAgain(l)
                              \/ LoadEnds(l) \/ PanelLoadFails(l)
    \/ \E w \in Writes : \/ ApplyWrite(w) \/ WriteReplies(w) \/ WriteIsRefused(w)
                         \/ WriteIsLost(w) \/ WorkHasEnded(w)

PanelsNext == PanelsProgress \/ LoadPanel \/ \E w \in Writes : StartPanelWrite(w)

\* A flag that an uncaught error left set stays set: those are in the README.
PanelsBusy == ~(panel.flags \subseteq panel.stuck)

-----------------------------------------------------------------------------
(* Properties. *)

\* The panels in which what a write does is read back, or replied, in order: no load can
\* overtake the reload after a write (nothing else loads them while a write is possible,
\* or superseded answers are dropped), one write at a time changes what is shown, and
\* what is wanting in a load is told. In the others a write that succeeded may be hidden
\* by an older answer (a timer reads them meanwhile), by a part that was not read, or by
\* a read that is too early, until they are loaded again.
InOrder == {calendarPage, MemoryPanel, ActiveSessionsPanel, RetentionPolicyPanel}

\* When nothing is under way and nothing is said to be wanting, such a panel shows every
\* write it was told to have succeeded, however loads and replies were delayed.
SavedIsShown ==
    (/\ panel.kind \in InOrder /\ ~panel.broken
     /\ panel.loads = {} /\ \A w \in Writes : panel.writes[w].state \in {"unsent", "ok", "failed"})
    => \A w \in Writes :
          panel.writes[w].state = "ok" /\ panel.writes[w].op.then \in {"reload", "reply"}
              => w \in panel.shown

=============================================================================
