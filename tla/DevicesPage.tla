------------------------------- MODULE DevicesPage -------------------------------
(***************************************************************************)
(* The devices page of the web application: snapshots that it loads every  *)
(* few seconds and after each change, observations that it asks to refresh, *)
(* writes to rooms and devices behind one pending flag, and commands: a    *)
(* gateway device is commanded asynchronously and polled, a panel is       *)
(* commanded in one request, a room switch commands its devices in turn.   *)
(*                                                                         *)
(* Core's rooms are a version number. An observation is a point in time and *)
(* whether the device was on; a device that Core has never observed is at 0. *)
(* Filters, layout and the order in which rooms are shown are left out; the *)
(* clocks of browser and Core agree.                                        *)
(***************************************************************************)
EXTENDS Naturals, Sequences, FiniteSets

CONSTANTS GatewayDevices, PanelDevices,
          MaxDeviceEvents, \* what users and devices do, timers and failures, altogether
          MaxPolls         \* how often a command is polled

ASSUME DevicesAssumption ==
    /\ IsFiniteSet(GatewayDevices) /\ IsFiniteSet(PanelDevices)
    /\ MaxDeviceEvents \in Nat /\ MaxPolls \in Nat

VARIABLES
    home,      \* Core: the version of its rooms, the clock, the latest observations
    devices,   \* the state of the page
    loads,     \* loads[i]: the answers of the requests of load number i
    writes,    \* the writes and refreshes that are not over, and what they wait for
    commands   \* the commands that are not over

deviceVars == <<home, devices, loads, writes, commands>>

Devices == GatewayDevices \union PanelDevices
Snapshots == [Devices -> [in: BOOLEAN, at: Nat, on: BOOLEAN]]
Nothing == [d \in Devices |-> [in |-> FALSE, at |-> 0, on |-> FALSE]]
Observed(device) == device.at # 0       \* its observedAt is not null

WriteKinds == {"saveRoom", "removeRoom", "assign", "rename", "removeDevice"}

Command(id, d, rest, room) ==
    [id |-> id, device |-> d, rest |-> rest, room |-> room, core |-> "asked", polls |-> 0]

HomeShape == [rooms: Nat \ {0}, clock: Nat, seen: Snapshots]
PageShape ==
    [rooms: Nat, list: Snapshots, loaded: BOOLEAN, error: BOOLEAN, reloading: BOOLEAN,
     pending: BOOLEAN, editor: BOOLEAN, confirm: {"none", "room", "device"}, edited: BOOLEAN,
     marks: [Devices -> {"none", "pending", "succeeded", "failed"}],
     roomBusy: BOOLEAN, fading: BOOLEAN, events: 0 .. MaxDeviceEvents]
LoadShape ==
    [rooms: {"asked", "ok", "failed"}, devices: {"asked", "ok", "failed"},
     version: Nat, snapshot: Snapshots, over: BOOLEAN]
WriteShape ==
    [id: 0 .. MaxDeviceEvents, kind: WriteKinds \union {"reload", "refresh"},
     step: {"posting", "answered", "loading"}, load: Nat, snapshot: Snapshots]
CommandShape ==
    [id: 0 .. MaxDeviceEvents, device: Devices, rest: Seq(Devices), room: BOOLEAN,
     core: {"asked", "queued", "succeeded", "failed"}, polls: 0 .. MaxPolls]

DevicesTypeOK ==
    /\ home \in HomeShape /\ devices \in PageShape /\ loads \in Seq(LoadShape)
    /\ \A w \in writes : w \in WriteShape /\ (w.step = "loading" => w.load \in DOMAIN loads)
    /\ \A c \in commands : c \in CommandShape

\* The page is just mounted, or has loaded once; Core has observed the devices, or has only
\* just paired with them.
DevicesInit ==
    /\ \E at \in 0 .. 1 :
        home = [rooms |-> 1, clock |-> 1,
                seen |-> [d \in Devices |-> [in |-> TRUE, at |-> at, on |-> FALSE]]]
    /\ \E once \in BOOLEAN :
        devices = [rooms |-> IF once THEN 1 ELSE 0, list |-> IF once THEN home.seen ELSE Nothing,
                   loaded |-> once, error |-> FALSE, reloading |-> FALSE, pending |-> FALSE,
                   editor |-> FALSE, confirm |-> "none", edited |-> FALSE,
                   marks |-> [d \in Devices |-> "none"], roomBusy |-> FALSE, fading |-> FALSE,
                   events |-> 0]
    /\ loads = <<>> /\ writes = {} /\ commands = {}

DeviceRoom == devices.events < MaxDeviceEvents
Paid(p) == [p EXCEPT !.events = @ + 1]

-----------------------------------------------------------------------------
(* Core. *)

Observe(d, on, at) == [home EXCEPT !.clock = at, !.seen[d].at = at, !.seen[d].on = on]

DeviceChanges(d) ==
    /\ DeviceRoom /\ home.seen[d].in
    /\ home' = Observe(d, ~home.seen[d].on, home.clock + 1)
    /\ devices' = Paid(devices)
    /\ UNCHANGED <<loads, writes, commands>>

-----------------------------------------------------------------------------
(* load, and what it does with its answers. *)

NewLoad == Append(loads, [rooms |-> "asked", devices |-> "asked", version |-> 0,
                          snapshot |-> Nothing, over |-> FALSE])

\* The timer of the first load and the interval after it.
StartLoad ==
    /\ DeviceRoom /\ loads' = NewLoad /\ devices' = Paid(devices)
    /\ UNCHANGED <<home, writes, commands>>

\* The requests of a load are answered one by one, each with what Core has at that time;
\* browserRequest turns a failure into a response that is not ok.
AnswerLoad(i) ==
    /\ \/ /\ loads[i].rooms = "asked"
          /\ \/ /\ loads' = [loads EXCEPT ![i].rooms = "ok", ![i].version = home.rooms]
                /\ UNCHANGED devices
             \/ DeviceRoom /\ loads' = [loads EXCEPT ![i].rooms = "failed"] /\ devices' = Paid(devices)
       \/ /\ loads[i].devices = "asked"
          /\ \/ /\ loads' = [loads EXCEPT ![i].devices = "ok", ![i].snapshot = home.seen]
                /\ UNCHANGED devices
             \/ DeviceRoom /\ loads' = [loads EXCEPT ![i].devices = "failed"] /\ devices' = Paid(devices)
    /\ UNCHANGED <<home, writes, commands>>

TakesEverySnapshot(previous, incoming) == incoming

\* "Keep newer confirmed observations when a slower request finishes last." A device without
\* an observation, before or now, is taken as it comes.
mergeDeviceSnapshots(previous, incoming) ==
    [d \in Devices |->
        IF /\ previous[d].in /\ Observed(previous[d])
           /\ incoming[d].in /\ Observed(incoming[d]) /\ incoming[d].at < previous[d].at
        THEN previous[d] ELSE incoming[d]]

Latest(i) == i = Len(loads)

\* Only the load that was started last is shown; without devices it throws.
FinishLoad(i) ==
    /\ ~loads[i].over /\ loads[i].rooms # "asked" /\ loads[i].devices # "asked"
    /\ loads' = [loads EXCEPT ![i] = [@ EXCEPT !.over = TRUE, !.version = 0, !.snapshot = Nothing]]
    /\ devices' =
           IF ~Latest(i) THEN devices
           ELSE IF loads[i].devices = "failed" THEN [devices EXCEPT !.error = TRUE]
           ELSE [devices EXCEPT !.rooms = loads[i].version, !.loaded = TRUE,
                    !.list = mergeDeviceSnapshots(devices.list, loads[i].snapshot),
                    !.error = loads[i].rooms = "failed"]
    /\ UNCHANGED <<home, writes, commands>>

-----------------------------------------------------------------------------
(* Reloads, refreshes and writes. *)

Write(kind, step) ==
    {[id |-> devices.events, kind |-> kind, step |-> step, snapshot |-> Nothing,
      load |-> IF step = "loading" THEN Len(loads) + 1 ELSE 0]}

\* SnapshotStatus: the button is disabled while reloading or pending.
ReloadSnapshot ==
    /\ DeviceRoom /\ ~devices.reloading /\ ~devices.pending
    /\ devices' = [Paid(devices) EXCEPT !.reloading = TRUE]
    /\ loads' = NewLoad /\ writes' = writes \union Write("reload", "loading")
    /\ UNCHANGED <<home, commands>>

RefreshObservations ==
    /\ DeviceRoom /\ ~devices.pending
    /\ devices' = [Paid(devices) EXCEPT !.pending = TRUE, !.error = FALSE]
    /\ writes' = writes \union Write("refresh", "posting")
    /\ UNCHANGED <<home, loads, commands>>

\* Core observes what it still has, now.
AnswerRefresh(w) ==
    /\ w.kind = "refresh" /\ w.step = "posting"
    /\ LET now == home.clock + 1
           seen == [d \in Devices |-> IF home.seen[d].in THEN [home.seen[d] EXCEPT !.at = now]
                                      ELSE home.seen[d]]
       IN  /\ home' = [home EXCEPT !.clock = now, !.seen = seen]
           /\ writes' = (writes \ {w}) \union {[w EXCEPT !.step = "answered", !.snapshot = seen]}
    /\ UNCHANGED <<devices, loads, commands>>

FinishRefresh(w) ==
    /\ w.kind = "refresh" /\ writes' = writes \ {w}
    /\ \/ /\ w.step = "answered"
          /\ devices' = [devices EXCEPT !.pending = FALSE,
                            !.list = mergeDeviceSnapshots(devices.list, w.snapshot)]
       \/ DeviceRoom /\ devices' = [Paid(devices) EXCEPT !.pending = FALSE, !.error = TRUE]
    /\ UNCHANGED <<home, loads, commands>>

\* The dialogs. The editor of a room closes only while nothing is pending and no question
\* is open above it; a question closes only while nothing is pending.
UseDialogs ==
    /\ \/ ~devices.editor /\ devices.loaded /\ devices' = [devices EXCEPT !.editor = TRUE]
       \/ /\ devices.editor /\ ~devices.pending /\ devices.confirm # "room"
          /\ devices' = [devices EXCEPT !.editor = FALSE]
       \/ /\ ~devices.pending /\ devices.confirm = "none" /\ devices.loaded
          /\ devices' = [devices EXCEPT !.confirm = IF devices.editor THEN "room" ELSE "device"]
       \/ ~devices.pending /\ devices.confirm # "none" /\ devices' = [devices EXCEPT !.confirm = "none"]
       \/ devices.loaded /\ ~devices.edited /\ devices' = [devices EXCEPT !.edited = TRUE]
    /\ UNCHANGED <<home, loads, writes, commands>>

\* What the page must show for the button of a write to be there.
Offered(kind) ==
    CASE kind = "saveRoom" -> devices.editor
      [] kind = "removeRoom" -> devices.confirm = "room"
      [] kind = "removeDevice" -> devices.confirm = "device"
      [] kind = "rename" -> devices.edited
      [] OTHER -> devices.loaded

\* createRoom, removeRoom, assign, renameDevice and removeZigbeeDevice.
StartWrite(kind) ==
    /\ DeviceRoom /\ ~devices.pending /\ Offered(kind)
    /\ devices' = [Paid(devices) EXCEPT !.pending = TRUE,
                      !.error = @ /\ kind \in {"removeRoom", "assign"}]
    /\ writes' = writes \union Write(kind, "posting")
    /\ UNCHANGED <<home, loads, commands>>

Written(kind) ==
    CASE kind = "saveRoom" -> [devices EXCEPT !.editor = FALSE]
      [] kind = "removeRoom" -> [devices EXCEPT !.editor = FALSE, !.confirm = "none"]
      [] kind = "removeDevice" -> [devices EXCEPT !.confirm = "none"]
      [] kind = "rename" -> [devices EXCEPT !.edited = FALSE]
      [] OTHER -> devices

\* Core performs the write; its answer may be lost. After an answer the page loads again.
CoreWrites(w) ==
    /\ w.kind \in WriteKinds /\ w.step = "posting"
    /\ IF w.kind = "removeDevice"
       THEN \E d \in Devices : home.seen[d].in /\ home' = [home EXCEPT !.seen[d] = Nothing[d]]
       ELSE home' = [home EXCEPT !.rooms = @ + 1]
    /\ writes' = (writes \ {w}) \union {[w EXCEPT !.step = "answered"]}
    /\ UNCHANGED <<devices, loads, commands>>

WriteAnswered(w) ==
    /\ w.kind \in WriteKinds /\ w.step = "answered"
    /\ devices' = Written(w.kind) /\ loads' = NewLoad
    /\ writes' = (writes \ {w}) \union {[w EXCEPT !.step = "loading", !.load = Len(loads) + 1]}
    /\ UNCHANGED <<home, commands>>

WriteFails(w) ==
    /\ w.kind \in WriteKinds /\ w.step # "loading" /\ DeviceRoom
    /\ devices' = [Paid(devices) EXCEPT !.pending = FALSE, !.error = TRUE]
    /\ writes' = writes \ {w}
    /\ UNCHANGED <<home, loads, commands>>

\* The load of the write returned or threw, shown or superseded by a later one.
LoadReturns(w) ==
    /\ w.step = "loading" /\ loads[w.load].over
    /\ devices' = IF w.kind = "reload" THEN [devices EXCEPT !.reloading = FALSE]
                  ELSE [devices EXCEPT !.pending = FALSE]
    /\ writes' = writes \ {w}
    /\ UNCHANGED <<home, loads, commands>>

-----------------------------------------------------------------------------
(* Commands. A command switches a device on. *)

Begun(p, d) ==
    IF d \in GatewayDevices THEN [p EXCEPT !.marks[d] = "pending"] ELSE [p EXCEPT !.pending = TRUE]

\* The buttons of a device are disabled while it is pending, or anything else of the page.
QuickPower(d) ==
    /\ DeviceRoom /\ devices.list[d].in /\ ~devices.pending /\ devices.marks[d] # "pending"
    /\ commands' = commands \union {Command(devices.events, d, <<>>, FALSE)}
    /\ devices' = Begun(Paid(devices), d)
    /\ UNCHANGED <<home, loads, writes>>

\* The switch of a room forgets the marks of its devices and commands one after the other.
RoomPower(items) ==
    /\ DeviceRoom /\ ~devices.pending /\ ~devices.roomBusy
    /\ {items[i] : i \in DOMAIN items} = {d \in Devices : devices.list[d].in}
    /\ LET cleared == [Paid(devices) EXCEPT !.roomBusy = TRUE, !.marks = [d \in Devices |->
                          IF devices.list[d].in THEN "none" ELSE @[d]]]
       IN  devices' = Begun(cleared, items[1])
    /\ commands' = commands \union {Command(devices.events, items[1], Tail(items), TRUE)}
    /\ UNCHANGED <<home, loads, writes>>

\* Core takes a command, and a gateway or the panel executes it or fails.
CoreCommands(c) ==
    /\ \/ c.core = "asked" /\ c.device \in GatewayDevices /\ UNCHANGED home
          /\ commands' = (commands \ {c}) \union {[c EXCEPT !.core = "queued"]}
       \/ /\ c.core = (IF c.device \in GatewayDevices THEN "queued" ELSE "asked")
          /\ home.seen[c.device].in
          /\ home' = Observe(c.device, TRUE, home.clock + 1)
          /\ commands' = (commands \ {c}) \union {[c EXCEPT !.core = "succeeded"]}
       \/ /\ c.core \in {"asked", "queued"} /\ ~home.seen[c.device].in /\ UNCHANGED home
          /\ commands' = (commands \ {c}) \union {[c EXCEPT !.core = "failed"]}
    /\ UNCHANGED <<devices, loads, writes>>

\* quickPower returns with the page p: a room goes on to its next device, or is not busy any
\* more and lets the marks of success fade.
Return(c, p) ==
    IF c.rest # <<>>
    THEN /\ commands' = (commands \ {c}) \union {Command(c.id, c.rest[1], Tail(c.rest), TRUE)}
         /\ devices' = Begun(p, c.rest[1])
    ELSE /\ commands' = commands \ {c}
         /\ devices' = IF c.room THEN [p EXCEPT !.roomBusy = FALSE, !.fading = TRUE] ELSE p

Failed(c) == Return(c, [devices EXCEPT !.marks[c.device] = "failed"])

PollsOnceTooOften(c) == c.core = "queued" /\ c.polls <= MaxPolls    \* mutant
PollsAgain(c) == c.core = "queued" /\ c.polls < MaxPolls

\* Polling: a command that has not ended after the last attempt counts as failed.
PollCommand(c) ==
    /\ c.device \in GatewayDevices /\ c.core # "asked"
    /\ CASE c.core = "succeeded" ->
              Return(c, [devices EXCEPT !.marks[c.device] = "succeeded",
                            !.list[c.device].on = @ \/ devices.list[c.device].in])
         [] PollsAgain(c) ->
              /\ commands' = (commands \ {c}) \union {[c EXCEPT !.polls = @ + 1]}
              /\ UNCHANGED devices
         [] OTHER -> Failed(c)
    /\ UNCHANGED <<home, loads, writes>>

\* A request of a gateway command fails.
CommandLost(c) ==
    /\ c.device \in GatewayDevices /\ DeviceRoom
    /\ Return(c, [Paid(devices) EXCEPT !.marks[c.device] = "failed"])
    /\ UNCHANGED <<home, loads, writes>>

\* The one request of a panel: whatever it answered, the device counts as observed now.
PanelAnswered(c) ==
    /\ c.device \in PanelDevices
    /\ LET seen == devices.list[c.device]
           now(on) == [devices EXCEPT !.pending = FALSE,
                          !.list[c.device] = IF seen.in THEN [seen EXCEPT !.at = home.clock, !.on = on] ELSE seen]
       IN  \/ c.core = "succeeded" /\ Return(c, now(TRUE))
           \/ c.core = "failed" /\ Return(c, now(seen.on))
           \/ DeviceRoom /\ Return(c, Paid(now(seen.on)))
    /\ UNCHANGED <<home, loads, writes>>

MarksFade ==
    /\ devices.fading
    /\ devices' = [devices EXCEPT !.fading = FALSE, !.marks = [d \in Devices |->
                      IF @[d] = "succeeded" THEN "none" ELSE @[d]]]
    /\ UNCHANGED <<home, loads, writes, commands>>

-----------------------------------------------------------------------------

DevicesProgress ==
    \/ \E i \in DOMAIN loads : AnswerLoad(i) \/ FinishLoad(i)
    \/ \E w \in writes : AnswerRefresh(w) \/ FinishRefresh(w) \/ CoreWrites(w) \/ WriteAnswered(w)
                           \/ WriteFails(w) \/ LoadReturns(w)
    \/ \E c \in commands : CoreCommands(c) \/ PollCommand(c) \/ PanelAnswered(c) \/ CommandLost(c)
    \/ MarksFade

DevicesNext ==
    \/ DevicesProgress \/ StartLoad \/ ReloadSnapshot \/ RefreshObservations \/ UseDialogs
    \/ \E d \in Devices : DeviceChanges(d) \/ QuickPower(d)
    \/ \E kind \in WriteKinds : StartWrite(kind)
    \/ \E n \in 1 .. Cardinality(Devices) : \E items \in [1 .. n -> Devices] : RoomPower(items)

DevicesBusy == devices.pending \/ devices.reloading \/ devices.roomBusy
                 \/ \E d \in Devices : devices.marks[d] = "pending"

\* Whatever order the answers of loads, refreshes and commands come in, what the page shows
\* never goes back: not from an observation of a device that it goes on showing to an older
\* observation, and not to an older version of the rooms. It does go back from an observation
\* to none: a load that was answered before Core had observed the device, and is shown after
\* a refresh or a command has observed it, takes the observation away until the next load.
ShownNeverGoesBack ==
    [][ /\ \A d \in Devices :
               devices.list[d].in /\ devices'.list[d].in /\ Observed(devices'.list[d]) =>
                   devices'.list[d].at >= devices.list[d].at
        /\ devices'.rooms # 0 => devices'.rooms >= devices.rooms ]_deviceVars
===============================================================================
