-------------------------- MODULE DevicesPage_proofs --------------------------
(***************************************************************************)
(* What the devices page shows never goes back, for any number of devices,  *)
(* loads, writes, commands and failures. The invariant says that everything *)
(* the page has or is still to be given was observed by Core's clock, that  *)
(* its rooms are no later than Core's, and that the load it will show next  *)
(* is no older than the one it shows.                                      *)
(***************************************************************************)
EXTENDS DevicesPage, SequenceTheorems, FiniteSetTheorems, TLAPS

\* Observations that were made until a point in time.
SnapshotsUntil(c) == [Devices -> [in : BOOLEAN, at : 0 .. c, on : BOOLEAN]]

\* Loads that were answered by Core until its version v and a point in time.
LoadsUntil(v, c) ==
    [rooms : {"asked", "ok", "failed"}, devices : {"asked", "ok", "failed"},
     version : 0 .. v, snapshot : SnapshotsUntil(c), over : BOOLEAN]

PageFields == {"rooms", "list", "loaded", "error", "reloading", "pending", "editor",
               "confirm", "edited", "marks", "roomBusy", "fading", "events"}
WriteFields == {"id", "kind", "step", "snapshot", "load"}

HomeInv ==
    home \in [rooms : Nat, clock : Nat, seen : SnapshotsUntil(home.clock)]

PageInv ==
    /\ DOMAIN devices = PageFields
    /\ devices.list \in SnapshotsUntil(home.clock)
    /\ devices.rooms \in 0 .. home.rooms

LoadsInv == loads \in Seq(LoadsUntil(home.rooms, home.clock))

\* The load that is to be shown has no version yet, or one as late as the page.
LatestInv ==
    loads # <<>> => \/ loads[Len(loads)].version = 0
                    \/ loads[Len(loads)].version >= devices.rooms

WritesInv ==
    \A w \in writes : DOMAIN w = WriteFields /\ w.snapshot \in SnapshotsUntil(home.clock)

DevicesInv == HomeInv /\ PageInv /\ LoadsInv /\ LatestInv /\ WritesInv

ListGoesOn ==
    \A d \in Devices :
        devices.list[d].in /\ devices'.list[d].in /\ Observed(devices'.list[d]) =>
            devices'.list[d].at >= devices.list[d].at

GoesOn ==
    /\ ListGoesOn
    /\ devices'.rooms # 0 => devices'.rooms >= devices.rooms

-------------------------------------------------------------------------------
(* Snapshots. *)

LEMMA UntilGrows ==
  ASSUME NEW b \in Nat, NEW c \in Nat, b <= c
  PROVE  SnapshotsUntil(b) \subseteq SnapshotsUntil(c)
  <1>1. 0 .. b \subseteq 0 .. c
    OBVIOUS
  <1>2. [in : BOOLEAN, at : 0 .. b, on : BOOLEAN]
            \subseteq [in : BOOLEAN, at : 0 .. c, on : BOOLEAN]
    BY <1>1
  <1>3. QED
    BY <1>2 DEF SnapshotsUntil

LEMMA NothingUntil ==
  ASSUME NEW c \in Nat
  PROVE  Nothing \in SnapshotsUntil(c)
  BY DEF Nothing, SnapshotsUntil

\* Merging is by a device's latest observation, where there are two.
LEMMA MergeGoesOn ==
  ASSUME NEW c \in Nat, NEW p \in SnapshotsUntil(c), NEW q \in SnapshotsUntil(c)
  PROVE  /\ mergeDeviceSnapshots(p, q) \in SnapshotsUntil(c)
         /\ \A d \in Devices :
                p[d].in /\ mergeDeviceSnapshots(p, q)[d].in
                        /\ Observed(mergeDeviceSnapshots(p, q)[d]) =>
                    mergeDeviceSnapshots(p, q)[d].at >= p[d].at
  <1> DEFINE m == mergeDeviceSnapshots(p, q)
  <1>1. ASSUME NEW d \in Devices
        PROVE  /\ m[d] \in [in : BOOLEAN, at : 0 .. c, on : BOOLEAN]
               /\ p[d].in /\ m[d].in /\ Observed(m[d]) => m[d].at >= p[d].at
    <2>1. /\ p[d] \in [in : BOOLEAN, at : 0 .. c, on : BOOLEAN]
          /\ q[d] \in [in : BOOLEAN, at : 0 .. c, on : BOOLEAN]
      BY DEF SnapshotsUntil
    <2>2. m[d] = IF /\ p[d].in /\ p[d].at # 0
                    /\ q[d].in /\ q[d].at # 0 /\ q[d].at < p[d].at
                 THEN p[d] ELSE q[d]
      BY DEF mergeDeviceSnapshots, Observed
    <2> HIDE DEF m
    <2>3. QED
      BY <2>1, <2>2 DEF Observed
  <1>2. m \in SnapshotsUntil(c)
    <2>1. m = [d \in Devices |-> m[d]]
      BY DEF mergeDeviceSnapshots
    <2> HIDE DEF m
    <2>2. QED
      BY <1>1, <2>1 DEF SnapshotsUntil
  <1>3. QED
    BY <1>1, <1>2

-------------------------------------------------------------------------------
(* Steps that start no load and answer none, or leave the rooms of the page alone. *)

\* A later Core has answered every load that an earlier one has.
LEMMA LoadsGrow ==
  ASSUME LoadsInv, HomeInv, HomeInv', home'.rooms >= home.rooms,
         home'.clock >= home.clock, loads' = loads
  PROVE  LoadsInv'
  <1>1. 0 .. home.rooms \subseteq 0 .. home'.rooms
    BY DEF HomeInv
  <1>2. SnapshotsUntil(home.clock) \subseteq SnapshotsUntil(home'.clock)
    BY UntilGrows DEF HomeInv
  <1>3. LoadsUntil(home.rooms, home.clock) \subseteq LoadsUntil(home'.rooms, home'.clock)
    BY <1>1, <1>2 DEF LoadsUntil
  <1>4. QED
    BY <1>3 DEF LoadsInv

\* A step that keeps the rooms of the page and takes nothing back of its list.
LEMMA GoingOn ==
  ASSUME DevicesInv, HomeInv', home'.rooms >= home.rooms, home'.clock >= home.clock,
         DOMAIN devices' = PageFields, devices'.rooms = devices.rooms,
         devices'.list \in SnapshotsUntil(home'.clock), ListGoesOn,
         LoadsInv', loads' # <<>> => \/ loads' = loads
                                     \/ loads'[Len(loads')].version = 0,
         \A w \in writes' : \/ w \in writes
                            \/ /\ DOMAIN w = WriteFields
                               /\ w.snapshot \in SnapshotsUntil(home'.clock)
  PROVE  DevicesInv' /\ GoesOn
  <1>1. PageInv'
    BY DEF DevicesInv, PageInv, HomeInv
  <1>2. LatestInv'
    BY DEF DevicesInv, LatestInv
  <1>3. SnapshotsUntil(home.clock) \subseteq SnapshotsUntil(home'.clock)
    BY UntilGrows DEF HomeInv, DevicesInv
  <1>4. WritesInv'
    BY <1>3 DEF DevicesInv, WritesInv
  <1>5. GoesOn
    BY DEF GoesOn, DevicesInv, PageInv, HomeInv
  <1>6. QED
    BY <1>1, <1>2, <1>4, <1>5 DEF DevicesInv

\* A page that shows what the page shows.
SameShown(p) ==
    DOMAIN p = PageFields /\ p.rooms = devices.rooms /\ p.list = devices.list

LEMMA ShownKept ==
  ASSUME DevicesInv, SameShown(devices'), HomeInv', home'.clock >= home.clock
  PROVE  /\ DOMAIN devices' = PageFields /\ devices'.rooms = devices.rooms
         /\ devices'.list \in SnapshotsUntil(home'.clock) /\ ListGoesOn
  <1>1. SnapshotsUntil(home.clock) \subseteq SnapshotsUntil(home'.clock)
    BY UntilGrows DEF HomeInv, DevicesInv
  <1>2. ASSUME NEW d \in Devices PROVE devices.list[d].at \in Nat
    BY DEF DevicesInv, PageInv, HomeInv, SnapshotsUntil
  <1>3. QED
    BY <1>1, <1>2 DEF SameShown, ListGoesOn, DevicesInv, PageInv

\* Core moves on, the page shows what it did.
LEMMA CoreMoves ==
  ASSUME DevicesInv, HomeInv', home'.rooms >= home.rooms, home'.clock >= home.clock,
         SameShown(devices'), loads' = loads,
         \A w \in writes' : \/ w \in writes
                            \/ /\ DOMAIN w = WriteFields
                               /\ w.snapshot \in SnapshotsUntil(home'.clock)
  PROVE  DevicesInv' /\ GoesOn
  BY ShownKept, LoadsGrow, GoingOn DEF DevicesInv

LEMMA NewLoadKeeps ==
  ASSUME DevicesInv, loads' = NewLoad, home' = home
  PROVE  LoadsInv' /\ loads'[Len(loads')].version = 0 /\ Len(loads') = Len(loads) + 1
  <1> DEFINE L == LoadsUntil(home.rooms, home.clock)
             new == [rooms |-> "asked", devices |-> "asked", version |-> 0,
                     snapshot |-> Nothing, over |-> FALSE]
  <1>1. Nothing \in SnapshotsUntil(home.clock) /\ 0 \in 0 .. home.rooms
    BY NothingUntil DEF DevicesInv, HomeInv
  <1>2. new \in L /\ new.version = 0
    BY <1>1 DEF LoadsUntil
  <1>3. loads \in Seq(L) /\ loads' = Append(loads, new)
    BY DEF DevicesInv, LoadsInv, NewLoad
  <1> HIDE DEF L, new
  <1>4. loads' \in Seq(L) /\ loads'[Len(loads')] = new /\ Len(loads') = Len(loads) + 1
    BY <1>2, <1>3
  <1>5. QED
    BY <1>2, <1>4 DEF LoadsInv, L

\* The page moves on: a load is started, or none.
LEMMA PageMoves ==
  ASSUME DevicesInv, home' = home, loads' = loads, SameShown(devices'),
         \A w \in writes' : \/ w \in writes
                            \/ /\ DOMAIN w = WriteFields
                               /\ w.snapshot \in SnapshotsUntil(home'.clock)
  PROVE  DevicesInv' /\ GoesOn
  <1>1. HomeInv' /\ home'.rooms >= home.rooms /\ home'.clock >= home.clock
    BY DEF DevicesInv, HomeInv
  <1>2. QED
    BY <1>1, CoreMoves

LEMMA PageLoads ==
  ASSUME DevicesInv, home' = home, loads' = NewLoad, SameShown(devices'),
         \A w \in writes' : \/ w \in writes
                            \/ /\ DOMAIN w = WriteFields
                               /\ w.snapshot \in SnapshotsUntil(home'.clock)
  PROVE  DevicesInv' /\ GoesOn
  <1>1. HomeInv' /\ home'.rooms >= home.rooms /\ home'.clock >= home.clock
    BY DEF DevicesInv, HomeInv
  <1>2. QED
    BY <1>1, ShownKept, NewLoadKeeps, GoingOn

-------------------------------------------------------------------------------
(* Core. *)

\* Core observes a device at a time.
LEMMA ObserveEffect ==
  ASSUME HomeInv, NEW d, NEW on \in BOOLEAN, home' = Observe(d, on, home.clock + 1)
  PROVE  HomeInv' /\ home'.rooms = home.rooms /\ home'.clock = home.clock + 1
  <1> DEFINE now == home.clock + 1
             O == [in : BOOLEAN, at : 0 .. now, on : BOOLEAN]
             seen == [home.seen EXCEPT ![d].at = now]
             seen2 == [seen EXCEPT ![d].on = on]
  <1>1. now \in Nat /\ now \in 0 .. now /\ home.clock <= now /\ home.clock \in Nat
    BY DEF HomeInv
  <1>2. home.seen \in [Devices -> O]
    BY <1>1, UntilGrows DEF HomeInv, SnapshotsUntil
  <1>3. seen \in [Devices -> O]
    <2> HIDE DEF now
    <2>1. ASSUME NEW e \in Devices PROVE seen[e] \in O
      <3>1. home.seen[e] \in O
        BY <1>2
      <3>2. seen[e] = IF e = d THEN [home.seen[e] EXCEPT !.at = now] ELSE home.seen[e]
        BY <1>2
      <3>3. QED
        BY <1>1, <3>1, <3>2
    <2>2. QED
      BY <1>2, <2>1
  <1>4. seen2 \in [Devices -> O]
    <2> HIDE DEF seen
    <2>1. ASSUME NEW e \in Devices PROVE seen2[e] \in O
      <3>1. seen[e] \in O
        BY <1>3
      <3>2. seen2[e] = IF e = d THEN [seen[e] EXCEPT !.on = on] ELSE seen[e]
        BY <1>3
      <3>3. QED
        BY <3>1, <3>2
    <2>2. QED
      BY <1>3, <2>1
  <1>5. home' = [[home EXCEPT !.clock = now] EXCEPT !.seen = seen2]
    BY DEF Observe, HomeInv
  <1> HIDE DEF seen2, now
  <1>6. /\ home'.rooms = home.rooms /\ home'.clock = now /\ home'.seen = seen2
        /\ home' \in [rooms : Nat, clock : Nat, seen : [Devices -> O]]
    BY <1>1, <1>4, <1>5 DEF HomeInv
  <1>7. QED
    BY <1>6 DEF HomeInv, SnapshotsUntil, now

LEMMA DeviceChangesKeeps ==
  ASSUME DevicesInv, NEW d \in Devices, DeviceChanges(d)
  PROVE  DevicesInv' /\ GoesOn
  <1>1. HomeInv' /\ home'.rooms >= home.rooms /\ home'.clock >= home.clock
    <2> DEFINE on == ~home.seen[d].on
    <2>1. on \in BOOLEAN /\ HomeInv /\ home' = Observe(d, on, home.clock + 1)
      BY DEF DeviceChanges, DevicesInv
    <2> HIDE DEF on
    <2>2. HomeInv' /\ home'.rooms = home.rooms /\ home'.clock = home.clock + 1
      BY <2>1, ObserveEffect
    <2>3. QED
      BY <2>1, <2>2 DEF HomeInv
  <1>2. SameShown(devices')
    BY DEF DeviceChanges, Paid, SameShown, DevicesInv, PageInv, PageFields
  <1>3. QED
    BY <1>1, <1>2, CoreMoves DEF DeviceChanges

LEMMA CoreCommandsKeeps ==
  ASSUME DevicesInv, NEW c, CoreCommands(c)
  PROVE  DevicesInv' /\ GoesOn
  <1>1. HomeInv' /\ home'.rooms >= home.rooms /\ home'.clock >= home.clock
    <2>1. CASE home' = home
      BY <2>1 DEF DevicesInv, HomeInv
    <2>2. CASE home' = Observe(c.device, TRUE, home.clock + 1)
      <3>1. HomeInv' /\ home'.rooms = home.rooms /\ home'.clock = home.clock + 1
        BY <2>2, ObserveEffect DEF DevicesInv
      <3>2. QED
        BY <3>1 DEF DevicesInv, HomeInv
    <2>3. QED
      BY <2>1, <2>2 DEF CoreCommands
  <1>2. SameShown(devices')
    BY DEF CoreCommands, SameShown, DevicesInv, PageInv
  <1>3. QED
    BY <1>1, <1>2, CoreMoves DEF CoreCommands

LEMMA CoreWritesKeeps ==
  ASSUME DevicesInv, NEW w \in writes, CoreWrites(w)
  PROVE  DevicesInv' /\ GoesOn
  <1>1. HomeInv' /\ home'.rooms >= home.rooms /\ home'.clock >= home.clock
    <2>1. CASE w.kind = "removeDevice"
      <3>1. PICK d \in Devices : home' = [home EXCEPT !.seen[d] = Nothing[d]]
        BY <2>1 DEF CoreWrites
      <3> DEFINE seen == [home.seen EXCEPT ![d] = Nothing[d]]
      <3>2. Nothing[d] \in [in : BOOLEAN, at : 0 .. home.clock, on : BOOLEAN]
        BY DEF Nothing, DevicesInv, HomeInv
      <3>3. seen \in SnapshotsUntil(home.clock)
        BY <3>2 DEF DevicesInv, HomeInv, SnapshotsUntil
      <3>4. home' = [home EXCEPT !.seen = seen]
        BY <3>1
      <3> HIDE DEF seen
      <3>5. /\ home'.rooms = home.rooms /\ home'.clock = home.clock
            /\ home' \in [rooms : Nat, clock : Nat, seen : SnapshotsUntil(home.clock)]
        BY <3>3, <3>4 DEF DevicesInv, HomeInv
      <3>6. QED
        BY <3>5 DEF DevicesInv, HomeInv
    <2>2. CASE w.kind # "removeDevice"
      <3>1. home' = [home EXCEPT !.rooms = home.rooms + 1]
        BY <2>2 DEF CoreWrites
      <3>2. /\ home'.rooms = home.rooms + 1 /\ home'.clock = home.clock
            /\ home' \in [rooms : Nat, clock : Nat, seen : SnapshotsUntil(home.clock)]
        BY <3>1 DEF DevicesInv, HomeInv
      <3>3. QED
        BY <3>2 DEF DevicesInv, HomeInv
    <2>3. QED
      BY <2>1, <2>2
  <1> DEFINE v == [w EXCEPT !.step = "answered"]
  <1>2. DOMAIN v = WriteFields /\ v.snapshot = w.snapshot
    BY DEF DevicesInv, WritesInv, WriteFields
  <1>3. v.snapshot \in SnapshotsUntil(home'.clock)
    BY <1>1, <1>2, UntilGrows DEF DevicesInv, WritesInv, HomeInv
  <1>4. writes' = (writes \ {w}) \cup {v} /\ devices' = devices /\ loads' = loads
    BY DEF CoreWrites
  <1> HIDE DEF v
  <1>5. SameShown(devices')
    BY <1>4 DEF SameShown, DevicesInv, PageInv
  <1>6. QED
    BY <1>1, <1>2, <1>3, <1>4, <1>5, CoreMoves

LEMMA AnswerRefreshKeeps ==
  ASSUME DevicesInv, NEW w \in writes, AnswerRefresh(w)
  PROVE  DevicesInv' /\ GoesOn
  <1> DEFINE now == home.clock + 1
             seen == [d \in Devices |-> IF home.seen[d].in
                        THEN [home.seen[d] EXCEPT !.at = now] ELSE home.seen[d]]
             v == [w EXCEPT !.step = "answered", !.snapshot = seen]
  <1>1. now \in Nat /\ now \in 0 .. now /\ home.clock <= now /\ home.clock \in Nat
    BY DEF DevicesInv, HomeInv
  <1>2. home.seen \in SnapshotsUntil(now)
    BY <1>1, UntilGrows DEF DevicesInv, HomeInv
  <1>3. /\ home' = [home EXCEPT !.clock = now, !.seen = seen]
        /\ writes' = (writes \ {w}) \cup {v} /\ devices' = devices /\ loads' = loads
    BY DEF AnswerRefresh
  <1>4. seen \in SnapshotsUntil(now)
    <2> HIDE DEF now
    <2>1. QED
      BY <1>1, <1>2 DEF SnapshotsUntil
  <1> HIDE DEF seen, now
  <1>5. DOMAIN v = WriteFields /\ v.snapshot = seen
    BY DEF DevicesInv, WritesInv, WriteFields
  <1>6. HomeInv' /\ home'.rooms >= home.rooms /\ home'.clock = now
    <2>1. /\ home'.rooms = home.rooms /\ home'.clock = now /\ home'.seen = seen
          /\ home' \in [rooms : Nat, clock : Nat, seen : SnapshotsUntil(now)]
      BY <1>1, <1>3, <1>4 DEF DevicesInv, HomeInv
    <2>2. QED
      BY <2>1 DEF DevicesInv, HomeInv
  <1>7. SameShown(devices')
    BY <1>3 DEF SameShown, DevicesInv, PageInv
  <1> HIDE DEF v
  <1>8. QED
    BY <1>1, <1>3, <1>4, <1>5, <1>6, <1>7, CoreMoves

-------------------------------------------------------------------------------
(* Loads. *)

LEMMA AnswerLoadKeeps ==
  ASSUME DevicesInv, NEW i \in DOMAIN loads, AnswerLoad(i)
  PROVE  DevicesInv' /\ GoesOn
  <1> DEFINE L == LoadsUntil(home.rooms, home.clock)
             l == loads'[i]
  <1>1. loads \in Seq(L) /\ loads[i] \in L
    BY DEF DevicesInv, LoadsInv
  <1>2. /\ home.rooms \in 0 .. home.rooms /\ home.seen \in SnapshotsUntil(home.clock)
        /\ home.rooms >= devices.rooms
    BY DEF DevicesInv, HomeInv, PageInv
  <1>3. \E m \in L :
           /\ loads' = [loads EXCEPT ![i] = m]
           /\ m.version = loads[i].version \/ m.version = home.rooms
    <2>1. CASE loads' = [loads EXCEPT ![i].rooms = "ok", ![i].version = home.rooms]
      <3> DEFINE m == [loads[i] EXCEPT !.rooms = "ok", !.version = home.rooms]
      <3>1. m \in L /\ m.version = home.rooms
        BY <1>1, <1>2 DEF LoadsUntil
      <3>2. loads' = [loads EXCEPT ![i] = m]
        BY <1>1, <2>1
      <3>3. QED
        BY <3>1, <3>2
    <2>2. CASE loads' = [loads EXCEPT ![i].rooms = "failed"]
      <3> DEFINE m == [loads[i] EXCEPT !.rooms = "failed"]
      <3>1. m \in L /\ m.version = loads[i].version
        BY <1>1 DEF LoadsUntil
      <3>2. loads' = [loads EXCEPT ![i] = m]
        BY <1>1, <2>2
      <3>3. QED
        BY <3>1, <3>2
    <2>3. CASE loads' = [loads EXCEPT ![i].devices = "ok", ![i].snapshot = home.seen]
      <3> DEFINE m == [loads[i] EXCEPT !.devices = "ok", !.snapshot = home.seen]
      <3>1. m \in L /\ m.version = loads[i].version
        BY <1>1, <1>2 DEF LoadsUntil
      <3>2. loads' = [loads EXCEPT ![i] = m]
        BY <1>1, <2>3
      <3>3. QED
        BY <3>1, <3>2
    <2>4. CASE loads' = [loads EXCEPT ![i].devices = "failed"]
      <3> DEFINE m == [loads[i] EXCEPT !.devices = "failed"]
      <3>1. m \in L /\ m.version = loads[i].version
        BY <1>1 DEF LoadsUntil
      <3>2. loads' = [loads EXCEPT ![i] = m]
        BY <1>1, <2>4
      <3>3. QED
        BY <3>1, <3>2
    <2>5. QED
      BY <2>1, <2>2, <2>3, <2>4 DEF AnswerLoad
  <1>4. PICK m \in L : /\ loads' = [loads EXCEPT ![i] = m]
                       /\ m.version = loads[i].version \/ m.version = home.rooms
    BY <1>3
  <1>5. /\ home' = home /\ writes' = writes
        /\ devices' = devices \/ devices' = Paid(devices)
    BY DEF AnswerLoad
  <1>6. HomeInv' /\ PageInv' /\ WritesInv' /\ devices'.rooms = devices.rooms /\ GoesOn
    <2>1. SameShown(devices')
      BY <1>5 DEF Paid, SameShown, DevicesInv, PageInv, PageFields
    <2>2. QED
      BY <1>5, <2>1, ShownKept
         DEF DevicesInv, HomeInv, PageInv, WritesInv, GoesOn
  <1>7. LoadsInv'
    <2> HIDE DEF L
    <2>1. loads' \in Seq(L)
      BY <1>1, <1>4
    <2>2. QED
      BY <1>5, <2>1 DEF LoadsInv, L
  <1>8. LatestInv'
    <2>1. loads \in Seq(L) /\ Len(loads') = Len(loads) /\ i \in 1 .. Len(loads)
      BY <1>1, <1>4
    <2>2. CASE i = Len(loads)
      <3>1. loads'[Len(loads')] = m /\ loads # <<>>
        BY <1>1, <1>4, <2>1, <2>2
      <3>2. QED
        BY <1>2, <1>4, <1>6, <2>2, <3>1 DEF DevicesInv, LatestInv
    <2>3. CASE i # Len(loads)
      <3>1. loads'[Len(loads')] = loads[Len(loads)] /\ loads # <<>>
        BY <1>1, <1>4, <2>1, <2>3
      <3>2. QED
        BY <1>6, <3>1 DEF DevicesInv, LatestInv
    <2>4. QED
      BY <2>2, <2>3
  <1>9. QED
    BY <1>6, <1>7, <1>8 DEF DevicesInv

LEMMA FinishLoadKeeps ==
  ASSUME DevicesInv, NEW i \in DOMAIN loads, FinishLoad(i)
  PROVE  DevicesInv' /\ GoesOn
  <1> DEFINE L == LoadsUntil(home.rooms, home.clock)
             m == [loads[i] EXCEPT !.over = TRUE, !.version = 0, !.snapshot = Nothing]
  <1>1. loads \in Seq(L) /\ loads[i] \in L
    BY DEF DevicesInv, LoadsInv
  <1>2. m \in L /\ m.version = 0
    <2>1. Nothing \in SnapshotsUntil(home.clock) /\ 0 \in 0 .. home.rooms
      BY NothingUntil DEF DevicesInv, HomeInv
    <2>2. QED
      BY <1>1, <2>1 DEF LoadsUntil
  <1>3. loads' = [loads EXCEPT ![i] = m] /\ home' = home /\ writes' = writes
    BY <1>1 DEF FinishLoad
  <1> HIDE DEF m
  <1>4. HomeInv' /\ WritesInv' /\ home'.rooms >= home.rooms /\ home'.clock >= home.clock
    BY <1>3 DEF DevicesInv, HomeInv, WritesInv
  <1>5. LoadsInv'
    <2> HIDE DEF L
    <2>1. loads' \in Seq(L)
      BY <1>1, <1>2, <1>3
    <2>2. QED
      BY <1>3, <2>1 DEF LoadsInv, L
  <1>6. CASE i # Len(loads) \/ loads[i].devices = "failed"
    <2>1. SameShown(devices')
      BY <1>6 DEF FinishLoad, Latest, SameShown, DevicesInv, PageInv, PageFields
    <2>2. /\ PageInv' /\ GoesOn /\ devices'.rooms = devices.rooms
      BY <1>3, <1>4, <2>1, ShownKept DEF DevicesInv, PageInv, HomeInv, GoesOn
    <2>3. LatestInv'
      <3>1. /\ Len(loads') = Len(loads) /\ i \in 1 .. Len(loads)
            /\ loads'[Len(loads')] = m \/ loads'[Len(loads')] = loads[Len(loads)]
            /\ loads # <<>>
        BY <1>1, <1>3
      <3>2. QED
        BY <1>2, <2>2, <3>1 DEF DevicesInv, LatestInv
    <2>4. QED
      BY <1>4, <1>5, <2>2, <2>3 DEF DevicesInv
  <1>7. CASE i = Len(loads) /\ loads[i].devices # "failed"
    <2> DEFINE list == mergeDeviceSnapshots(devices.list, loads[i].snapshot)
               version == loads[i].version
    <2>1. /\ list \in SnapshotsUntil(home.clock)
          /\ \A d \in Devices : devices.list[d].in /\ list[d].in /\ Observed(list[d]) =>
                 list[d].at >= devices.list[d].at
      BY <1>1, MergeGoesOn DEF DevicesInv, HomeInv, PageInv, LoadsUntil
    <2>2. version \in 0 .. home.rooms /\ (version = 0 \/ version >= devices.rooms)
      BY <1>1, <1>7 DEF LoadsUntil, DevicesInv, LatestInv
    <2>3. devices' = [devices EXCEPT !.rooms = version, !.loaded = TRUE, !.list = list,
                                     !.error = loads[i].rooms = "failed"]
      BY <1>7 DEF FinishLoad, Latest
    <2> HIDE DEF list, version
    <2>4. /\ devices'.rooms = version /\ devices'.list = list
          /\ DOMAIN devices' = PageFields
      BY <2>3 DEF DevicesInv, PageInv, PageFields
    <2>5. PageInv' /\ GoesOn
      BY <1>3, <2>1, <2>2, <2>4 DEF PageInv, GoesOn, ListGoesOn
    <2>6. LatestInv'
      <3>1. loads'[Len(loads')] = m
        BY <1>1, <1>3, <1>7
      <3>2. QED
        BY <1>2, <3>1 DEF LatestInv
    <2>7. QED
      BY <1>4, <1>5, <2>5, <2>6 DEF DevicesInv
  <1>8. QED
    BY <1>6, <1>7

-------------------------------------------------------------------------------
(* The page. *)

LEMMA FinishRefreshKeeps ==
  ASSUME DevicesInv, NEW w \in writes, FinishRefresh(w)
  PROVE  DevicesInv' /\ GoesOn
  <1>1. home' = home /\ loads' = loads /\ writes' = writes \ {w}
    BY DEF FinishRefresh
  <1>2. CASE SameShown(devices')
    BY <1>1, <1>2, PageMoves
  <1>3. CASE devices' = [devices EXCEPT !.pending = FALSE,
                            !.list = mergeDeviceSnapshots(devices.list, w.snapshot)]
    <2> DEFINE list == mergeDeviceSnapshots(devices.list, w.snapshot)
    <2>1. /\ list \in SnapshotsUntil(home.clock)
          /\ \A d \in Devices : devices.list[d].in /\ list[d].in /\ Observed(list[d]) =>
                 list[d].at >= devices.list[d].at
      BY MergeGoesOn DEF DevicesInv, HomeInv, PageInv, WritesInv
    <2>2. devices' = [devices EXCEPT !.pending = FALSE, !.list = list]
      BY <1>3
    <2> HIDE DEF list
    <2>3. /\ devices'.rooms = devices.rooms /\ devices'.list = list
          /\ DOMAIN devices' = PageFields
      BY <2>2 DEF DevicesInv, PageInv, PageFields
    <2>4. HomeInv' /\ home'.rooms >= home.rooms /\ home'.clock >= home.clock
      BY <1>1 DEF DevicesInv, HomeInv
    <2>5. ListGoesOn
      BY <2>1, <2>3 DEF ListGoesOn
    <2>6. LoadsInv'
      BY <1>1, <2>4, LoadsGrow DEF DevicesInv
    <2>7. QED
      BY <1>1, <2>1, <2>3, <2>4, <2>5, <2>6, GoingOn
  <1>4. ASSUME devices' = [Paid(devices) EXCEPT !.pending = FALSE, !.error = TRUE]
        PROVE  SameShown(devices')
    BY <1>4 DEF Paid, SameShown, DevicesInv, PageInv, PageFields
  <1>5. QED
    BY <1>2, <1>3, <1>4 DEF FinishRefresh

\* A write that has begun holds no snapshot yet.
LEMMA WriteHasShape ==
  ASSUME DevicesInv, NEW kind, NEW step
  PROVE  \A w \in Write(kind, step) :
             DOMAIN w = WriteFields /\ w.snapshot \in SnapshotsUntil(home.clock)
  BY NothingUntil DEF Write, WriteFields, DevicesInv, HomeInv

\* What users ask for, and writes that fail or are over.
LEMMA PageAsks ==
  ASSUME DevicesInv, NEW kind, NEW w,
         \/ RefreshObservations \/ UseDialogs \/ StartWrite(kind)
         \/ WriteFails(w) \/ LoadReturns(w)
  PROVE  DevicesInv' /\ GoesOn
  <1>1. home' = home /\ loads' = loads
    BY DEF RefreshObservations, UseDialogs, StartWrite, WriteFails, LoadReturns
  <1>2. SameShown(devices')
    <2>1. CASE RefreshObservations
      BY <2>1 DEF RefreshObservations, Paid, SameShown, DevicesInv, PageInv, PageFields
    <2>2. CASE UseDialogs
      BY <2>2 DEF UseDialogs, SameShown, DevicesInv, PageInv, PageFields
    <2>3. CASE StartWrite(kind)
      BY <2>3 DEF StartWrite, Paid, SameShown, DevicesInv, PageInv, PageFields
    <2>4. CASE WriteFails(w)
      BY <2>4 DEF WriteFails, Paid, SameShown, DevicesInv, PageInv, PageFields
    <2>5. CASE LoadReturns(w)
      BY <2>5 DEF LoadReturns, SameShown, DevicesInv, PageInv, PageFields
    <2>6. QED
      BY <2>1, <2>2, <2>3, <2>4, <2>5
  <1>3. ASSUME NEW v \in writes'
        PROVE  \/ v \in writes
               \/ DOMAIN v = WriteFields /\ v.snapshot \in SnapshotsUntil(home'.clock)
    BY <1>1, <1>3, WriteHasShape
       DEF RefreshObservations, UseDialogs, StartWrite, WriteFails, LoadReturns
  <1>4. QED
    BY <1>1, <1>2, <1>3, PageMoves

\* The page starts a load.
LEMMA LoadingKeeps ==
  ASSUME DevicesInv, StartLoad \/ ReloadSnapshot
  PROVE  DevicesInv' /\ GoesOn
  <1>1. home' = home /\ loads' = NewLoad
    BY DEF StartLoad, ReloadSnapshot
  <1>2. SameShown(devices')
    BY DEF StartLoad, ReloadSnapshot, Paid, SameShown, DevicesInv, PageInv, PageFields
  <1>3. ASSUME NEW v \in writes'
        PROVE  \/ v \in writes
               \/ DOMAIN v = WriteFields /\ v.snapshot \in SnapshotsUntil(home'.clock)
    BY <1>1, <1>3, WriteHasShape DEF StartLoad, ReloadSnapshot
  <1>4. QED
    BY <1>1, <1>2, <1>3, PageLoads

LEMMA WriteAnsweredKeeps ==
  ASSUME DevicesInv, NEW w \in writes, WriteAnswered(w)
  PROVE  DevicesInv' /\ GoesOn
  <1> DEFINE v == [w EXCEPT !.step = "loading", !.load = Len(loads) + 1]
  <1>1. home' = home /\ loads' = NewLoad /\ writes' = (writes \ {w}) \cup {v}
    BY DEF WriteAnswered
  <1>2. DOMAIN v = WriteFields /\ v.snapshot = w.snapshot
    BY DEF DevicesInv, WritesInv, WriteFields
  <1>3. v.snapshot \in SnapshotsUntil(home'.clock)
    BY <1>1, <1>2 DEF DevicesInv, WritesInv
  <1>4. SameShown(devices')
    BY DEF WriteAnswered, Written, SameShown, DevicesInv, PageInv, PageFields
  <1> HIDE DEF v
  <1>5. QED
    BY <1>1, <1>2, <1>3, <1>4, PageLoads

-------------------------------------------------------------------------------
(* Commands. *)

\* What a list becomes when a device is seen on, or observed now.
LEMMA ListUpdated ==
  ASSUME DevicesInv, NEW d, NEW o, home' = home, loads' = loads, writes' = writes,
         DOMAIN devices' = PageFields, devices'.rooms = devices.rooms,
         devices'.list = [devices.list EXCEPT ![d] = o],
         d \in Devices => /\ o \in [in : BOOLEAN, at : 0 .. home.clock, on : BOOLEAN]
                          /\ o.at >= devices.list[d].at
  PROVE  DevicesInv' /\ GoesOn
  <1>1. HomeInv' /\ home'.rooms >= home.rooms /\ home'.clock >= home.clock
    BY DEF DevicesInv, HomeInv
  <1>2. devices'.list \in SnapshotsUntil(home'.clock)
    BY DEF DevicesInv, PageInv, SnapshotsUntil
  <1>3. ListGoesOn
    <2>1. ASSUME NEW e \in Devices PROVE devices'.list[e].at >= devices.list[e].at
      <3>1. devices.list[e].at \in Nat
        BY DEF DevicesInv, HomeInv, PageInv, SnapshotsUntil
      <3>2. devices'.list[e] = IF e = d THEN o ELSE devices.list[e]
        BY DEF DevicesInv, PageInv, SnapshotsUntil
      <3>3. QED
        BY <3>1, <3>2
    <2>2. QED
      BY <2>1 DEF ListGoesOn
  <1>4. LoadsInv'
    BY <1>1, LoadsGrow DEF DevicesInv
  <1>5. QED
    BY <1>1, <1>2, <1>3, <1>4, GoingOn

\* A page after quickPower returned with the page p, whatever p is.
LEMMA ReturnShows ==
  ASSUME NEW c, NEW p, DOMAIN p = PageFields, Return(c, p)
  PROVE  DOMAIN devices' = PageFields /\ devices'.list = p.list /\ devices'.rooms = p.rooms
  BY DEF Return, Begun, PageFields

LEMMA PowerKeeps ==
  ASSUME DevicesInv, NEW d, NEW items, QuickPower(d) \/ RoomPower(items) \/ MarksFade
  PROVE  DevicesInv' /\ GoesOn
  <1>1. home' = home /\ loads' = loads /\ writes' = writes
    BY DEF QuickPower, RoomPower, MarksFade
  <1>2. SameShown(devices')
    <2>1. CASE QuickPower(d)
      BY <2>1 DEF QuickPower, Begun, Paid, SameShown, DevicesInv, PageInv, PageFields
    <2>2. CASE RoomPower(items)
      BY <2>2 DEF RoomPower, Begun, Paid, SameShown, DevicesInv, PageInv, PageFields
    <2>3. CASE MarksFade
      BY <2>3 DEF MarksFade, SameShown, DevicesInv, PageInv, PageFields
    <2>4. QED
      BY <2>1, <2>2, <2>3
  <1>3. QED
    BY <1>1, <1>2, PageMoves

LEMMA FailedKeeps ==
  ASSUME DevicesInv, NEW c, NEW p, SameShown(p), Return(c, p), home' = home,
         loads' = loads, writes' = writes
  PROVE  DevicesInv' /\ GoesOn
  <1>1. SameShown(devices')
    BY ReturnShows DEF SameShown
  <1>2. QED
    BY <1>1, PageMoves

LEMMA PollCommandKeeps ==
  ASSUME DevicesInv, NEW c, PollCommand(c)
  PROVE  DevicesInv' /\ GoesOn
  <1>1. home' = home /\ loads' = loads /\ writes' = writes
    BY DEF PollCommand
  <1>2. CASE c.core = "succeeded"
    <2> DEFINE d == c.device
               on == devices.list[d].on \/ devices.list[d].in
               o == [devices.list[d] EXCEPT !.on = on]
               p == [devices EXCEPT !.marks[c.device] = "succeeded",
                        !.list[c.device].on = @ \/ devices.list[c.device].in]
    <2>1. Return(c, p)
      <3> HIDE DEF p
      <3>1. PollCommand(c) /\ ~PollsAgain(c)
        BY <1>2 DEF PollsAgain
      <3>2. QED
        BY <1>2, <3>1 DEF PollCommand, p
    <2>2. /\ DOMAIN p = PageFields /\ p.rooms = devices.rooms
          /\ p.list = [devices.list EXCEPT ![d] = o]
      BY DEF DevicesInv, PageInv, PageFields
    <2>3. d \in Devices
      BY DEF PollCommand, Devices
    <2>4. devices.list[d] \in [in : BOOLEAN, at : 0 .. home.clock, on : BOOLEAN]
      BY <2>3 DEF DevicesInv, PageInv, SnapshotsUntil
    <2>5. on \in BOOLEAN
      OBVIOUS
    <2> HIDE DEF on, p
    <2>6. /\ o \in [in : BOOLEAN, at : 0 .. home.clock, on : BOOLEAN]
          /\ o.at >= devices.list[d].at
      BY <2>4, <2>5
    <2> HIDE DEF o
    <2>7. QED
      BY <1>1, <2>1, <2>2, <2>6, ReturnShows, ListUpdated
  <1>3. CASE devices' = devices
    <2>1. SameShown(devices')
      BY <1>3 DEF SameShown, DevicesInv, PageInv
    <2>2. QED
      BY <1>1, <2>1, PageMoves
  <1>4. CASE Failed(c)
    <2> DEFINE p == [devices EXCEPT !.marks[c.device] = "failed"]
    <2>1. SameShown(p) /\ Return(c, p)
      BY <1>4 DEF Failed, SameShown, DevicesInv, PageInv, PageFields
    <2> HIDE DEF p
    <2>2. QED
      BY <1>1, <2>1, FailedKeeps
  <1>5. QED
    BY <1>2, <1>3, <1>4 DEF PollCommand

LEMMA CommandLostKeeps ==
  ASSUME DevicesInv, NEW c, CommandLost(c)
  PROVE  DevicesInv' /\ GoesOn
  <1> DEFINE p == [Paid(devices) EXCEPT !.marks[c.device] = "failed"]
  <1>1. SameShown(p)
    BY DEF Paid, SameShown, DevicesInv, PageInv, PageFields
  <1>2. Return(c, p) /\ home' = home /\ loads' = loads /\ writes' = writes
    BY DEF CommandLost
  <1> HIDE DEF p
  <1>3. QED
    BY <1>1, <1>2, FailedKeeps

LEMMA PanelAnsweredKeeps ==
  ASSUME DevicesInv, NEW c, PanelAnswered(c)
  PROVE  DevicesInv' /\ GoesOn
  <1> DEFINE d == c.device
             seen == devices.list[d]
             O == [in : BOOLEAN, at : 0 .. home.clock, on : BOOLEAN]
             o(on) == IF seen.in THEN [seen EXCEPT !.at = home.clock, !.on = on] ELSE seen
             p(on) == [devices EXCEPT !.pending = FALSE, !.list[d] = o(on)]
  <1>1. home' = home /\ loads' = loads /\ writes' = writes
    BY DEF PanelAnswered
  <1>2. seen \in O
    BY DEF PanelAnswered, Devices, DevicesInv, PageInv, SnapshotsUntil
  <1>3. home.clock \in 0 .. home.clock /\ home.clock \in Nat
    BY DEF DevicesInv, HomeInv
  <1>4. \E on \in BOOLEAN : \E q :
           /\ q = p(on) \/ q = Paid(p(on))
           /\ Return(c, q)
    <2>1. seen.on \in BOOLEAN
      BY <1>2
    <2>2. \/ Return(c, p(TRUE)) \/ Return(c, p(seen.on)) \/ Return(c, Paid(p(seen.on)))
      BY DEF PanelAnswered
    <2> HIDE DEF p
    <2>3. QED
      BY <2>1, <2>2
  <1>5. PICK on \in BOOLEAN : \E q : /\ q = p(on) \/ q = Paid(p(on))
                                     /\ Return(c, q)
    BY <1>4
  <1>6. PICK q : /\ q = p(on) \/ q = Paid(p(on))
                 /\ Return(c, q)
    BY <1>5
  <1>7. o(on) \in O /\ o(on).at >= seen.at
    <2> HIDE DEF seen
    <2>1. on \in BOOLEAN /\ seen.at \in 0 .. home.clock
      BY <1>2, <1>5
    <2>2. CASE ~seen.in
      BY <1>2, <2>1, <2>2
    <2>3. CASE seen.in
      <3> DEFINE now == [seen EXCEPT !.at = home.clock]
      <3>1. now \in O /\ now.at = home.clock
        BY <1>2, <1>3
      <3>2. o(on) = [now EXCEPT !.on = on]
        BY <2>3
      <3> HIDE DEF now, o
      <3>3. QED
        BY <1>3, <2>1, <3>1, <3>2
    <2>4. QED
      BY <2>2, <2>3
  <1> HIDE DEF o
  <1>8. /\ DOMAIN q = PageFields /\ q.rooms = devices.rooms
        /\ q.list = [devices.list EXCEPT ![d] = o(on)]
    BY <1>6 DEF Paid, DevicesInv, PageInv, PageFields
  <1>9. /\ DOMAIN devices' = PageFields /\ devices'.rooms = devices.rooms
        /\ devices'.list = [devices.list EXCEPT ![d] = o(on)]
    <2> HIDE DEF p
    <2>1. QED
      BY <1>6, <1>8, ReturnShows
  <1> HIDE DEF d
  <1>10. QED
    BY <1>1, <1>7, <1>9, ListUpdated

-------------------------------------------------------------------------------

LEMMA DevicesInvInit == DevicesInit => DevicesInv
  <1> SUFFICES ASSUME DevicesInit PROVE DevicesInv
    OBVIOUS
  <1>1. HomeInv
    <2>1. PICK at \in 0 .. 1 :
              home = [rooms |-> 1, clock |-> 1,
                      seen |-> [d \in Devices |-> [in |-> TRUE, at |-> at, on |-> FALSE]]]
      BY DEF DevicesInit
    <2>2. QED
      BY <2>1 DEF HomeInv, SnapshotsUntil
  <1>2. PICK once \in BOOLEAN :
        devices = [rooms |-> IF once THEN 1 ELSE 0, list |-> IF once THEN home.seen ELSE Nothing,
                   loaded |-> once, error |-> FALSE, reloading |-> FALSE, pending |-> FALSE,
                   editor |-> FALSE, confirm |-> "none", edited |-> FALSE,
                   marks |-> [d \in Devices |-> "none"], roomBusy |-> FALSE, fading |-> FALSE,
                   events |-> 0]
    BY DEF DevicesInit
  <1>3. PageInv
    <2>1. /\ DOMAIN devices = PageFields /\ devices.rooms \in 0 .. 1
          /\ devices.list \in {home.seen, Nothing}
      BY <1>2 DEF PageFields
    <2>2. home.rooms = 1 /\ home.clock = 1
      BY DEF DevicesInit
    <2>3. QED
      BY <1>1, <2>1, <2>2, NothingUntil DEF PageInv, HomeInv
  <1>4. LoadsInv /\ LatestInv /\ WritesInv
    BY DEF DevicesInit, LoadsInv, LatestInv, WritesInv
  <1>5. QED
    BY <1>1, <1>3, <1>4 DEF DevicesInv

LEMMA DevicesStepKeeps ==
  DevicesInv /\ [DevicesNext]_deviceVars => DevicesInv' /\ [GoesOn]_deviceVars
  <1> SUFFICES ASSUME DevicesInv, [DevicesNext]_deviceVars
               PROVE  DevicesInv' /\ [GoesOn]_deviceVars
    OBVIOUS
  <1>1. CASE UNCHANGED deviceVars
    BY <1>1 DEF deviceVars, DevicesInv, HomeInv, PageInv, LoadsInv, LatestInv, WritesInv
  <1>2. ASSUME NEW i \in DOMAIN loads, AnswerLoad(i) \/ FinishLoad(i)
        PROVE  DevicesInv' /\ GoesOn
    BY <1>2, AnswerLoadKeeps, FinishLoadKeeps
  <1>3. ASSUME NEW w \in writes, \/ AnswerRefresh(w) \/ FinishRefresh(w) \/ CoreWrites(w)
                                 \/ WriteAnswered(w) \/ WriteFails(w) \/ LoadReturns(w)
        PROVE  DevicesInv' /\ GoesOn
    BY <1>3, AnswerRefreshKeeps, FinishRefreshKeeps, CoreWritesKeeps, WriteAnsweredKeeps,
       PageAsks
  <1>4. ASSUME NEW c, \/ CoreCommands(c) \/ PollCommand(c) \/ PanelAnswered(c)
                      \/ CommandLost(c)
        PROVE  DevicesInv' /\ GoesOn
    BY <1>4, CoreCommandsKeeps, PollCommandKeeps, PanelAnsweredKeeps, CommandLostKeeps
  <1>5. ASSUME NEW d \in Devices, DeviceChanges(d) \/ QuickPower(d)
        PROVE  DevicesInv' /\ GoesOn
    BY <1>5, DeviceChangesKeeps, PowerKeeps
  <1>6. ASSUME NEW items, MarksFade \/ RoomPower(items)
        PROVE  DevicesInv' /\ GoesOn
    BY <1>6, PowerKeeps
  <1>7. ASSUME NEW kind, RefreshObservations \/ UseDialogs \/ StartWrite(kind)
        PROVE  DevicesInv' /\ GoesOn
    BY <1>7, PageAsks
  <1>8. CASE StartLoad \/ ReloadSnapshot
    BY <1>8, LoadingKeeps
  <1>9. QED
    BY <1>1, <1>2, <1>3, <1>4, <1>5, <1>6, <1>7, <1>8 DEF DevicesNext, DevicesProgress

-------------------------------------------------------------------------------
(* The types of the page and of Core, for any devices. A load that a write waits *)
(* for is one that was started.                                              *)

Marks == {"none", "pending", "succeeded", "failed"}
Seen == [in: BOOLEAN, at: Nat, on: BOOLEAN]

\* A page of which a field is set is a page.
LEMMA PageSets ==
  ASSUME NEW p \in PageShape
  PROVE  /\ \A b \in BOOLEAN :
              /\ [p EXCEPT !.loaded = b] \in PageShape /\ [p EXCEPT !.error = b] \in PageShape
              /\ [p EXCEPT !.reloading = b] \in PageShape
              /\ [p EXCEPT !.pending = b] \in PageShape /\ [p EXCEPT !.editor = b] \in PageShape
              /\ [p EXCEPT !.edited = b] \in PageShape /\ [p EXCEPT !.roomBusy = b] \in PageShape
              /\ [p EXCEPT !.fading = b] \in PageShape
         /\ \A n \in Nat : [p EXCEPT !.rooms = n] \in PageShape
         /\ \A s \in Snapshots : [p EXCEPT !.list = s] \in PageShape
         /\ \A c \in {"none", "room", "device"} : [p EXCEPT !.confirm = c] \in PageShape
         /\ \A m \in [Devices -> Marks] : [p EXCEPT !.marks = m] \in PageShape
         /\ \A n \in 0 .. MaxDeviceEvents : [p EXCEPT !.events = n] \in PageShape
  BY DEF PageShape, Marks

LEMMA PagePaid ==
  ASSUME NEW p \in PageShape, p.events < MaxDeviceEvents
  PROVE  Paid(p) \in PageShape /\ Paid(p).events \in 0 .. MaxDeviceEvents
  <1>1. p.events \in Nat /\ p.events + 1 \in 0 .. MaxDeviceEvents
    BY DevicesAssumption DEF PageShape
  <1>2. Paid(p) = [p EXCEPT !.events = p.events + 1]
    BY DEF Paid
  <1>3. Paid(p) \in PageShape
    BY <1>1, <1>2, PageSets
  <1>4. Paid(p).events \in 0 .. MaxDeviceEvents
    BY <1>3 DEF PageShape
  <1>5. QED
    BY <1>3, <1>4

LEMMA PageMarks ==
  ASSUME NEW p \in PageShape, NEW d, NEW m \in Marks
  PROVE  [p EXCEPT !.marks[d] = m] \in PageShape
  <1> DEFINE marks == [p.marks EXCEPT ![d] = m]
  <1>1. p.marks \in [Devices -> Marks]
    BY DEF PageShape, Marks
  <1>2. marks \in [Devices -> Marks]
    BY <1>1
  <1>3. [p EXCEPT !.marks[d] = m] = [p EXCEPT !.marks = marks]
    OBVIOUS
  <1> HIDE DEF marks
  <1>4. QED
    BY <1>2, <1>3, PageSets

LEMMA PageBegun ==
  ASSUME NEW p \in PageShape, NEW d
  PROVE  Begun(p, d) \in PageShape
  <1>1. "pending" \in Marks
    BY DEF Marks
  <1>2. QED
    BY <1>1, PageMarks, PageSets DEF Begun

LEMMA PageLists ==
  ASSUME NEW p \in PageShape, NEW s \in Snapshots, NEW b \in BOOLEAN
  PROVE  [p EXCEPT !.pending = b, !.list = s] \in PageShape
  BY PageSets

LEMMA MergeTyped ==
  ASSUME NEW p \in Snapshots, NEW q \in Snapshots
  PROVE  mergeDeviceSnapshots(p, q) \in Snapshots
  BY DEF mergeDeviceSnapshots, Snapshots

LEMMA NothingTyped == Nothing \in Snapshots
  BY DEF Nothing, Snapshots

LEMMA SnapshotUpdate ==
  ASSUME NEW s \in Snapshots, NEW d, NEW o, d \in Devices => o \in Seen
  PROVE  [s EXCEPT ![d] = o] \in Snapshots
  BY DEF Snapshots, Seen

LEMMA NewLoadTyped ==
  ASSUME loads \in Seq(LoadShape)
  PROVE  /\ NewLoad \in Seq(LoadShape) /\ Len(loads) \in Nat
         /\ DOMAIN NewLoad = 1 .. Len(loads) + 1 /\ DOMAIN loads \subseteq DOMAIN NewLoad
  <1> DEFINE new == [rooms |-> "asked", devices |-> "asked", version |-> 0,
                     snapshot |-> Nothing, over |-> FALSE]
  <1>1. new \in LoadShape
    BY NothingTyped DEF LoadShape
  <1> HIDE DEF new
  <1>2. NewLoad = Append(loads, new)
    BY DEF NewLoad, new
  <1>3. QED
    BY <1>1, <1>2

LEMMA ObserveTyped ==
  ASSUME home \in HomeShape, NEW d, NEW on \in BOOLEAN
  PROVE  Observe(d, on, home.clock + 1) \in HomeShape
  <1> DEFINE now == home.clock + 1
             seen1 == [home.seen EXCEPT ![d] = [home.seen[d] EXCEPT !.at = now]]
             seen2 == [seen1 EXCEPT ![d] = [seen1[d] EXCEPT !.on = on]]
  <1>1. now \in Nat /\ home.seen \in Snapshots
    BY DEF HomeShape
  <1>2. seen1 \in Snapshots
    <2> HIDE DEF now
    <2>1. d \in Devices => [home.seen[d] EXCEPT !.at = now] \in Seen
      BY <1>1 DEF Snapshots, Seen
    <2>2. QED
      BY <1>1, <2>1, SnapshotUpdate
  <1>3. seen2 \in Snapshots
    <2> HIDE DEF seen1
    <2>1. d \in Devices => [seen1[d] EXCEPT !.on = on] \in Seen
      BY <1>2 DEF Snapshots, Seen
    <2>2. QED
      BY <1>2, <2>1, SnapshotUpdate
  <1>4. Observe(d, on, now) = [[home EXCEPT !.clock = now] EXCEPT !.seen = seen2]
    BY DEF Observe, HomeShape
  <1> HIDE DEF seen2, now
  <1>5. Observe(d, on, now) \in HomeShape
    BY <1>1, <1>3, <1>4 DEF HomeShape
  <1>6. QED
    BY <1>5 DEF now

WritesTyped(ws, ls) ==
    \A w \in ws : w \in WriteShape /\ (w.step = "loading" => w.load \in DOMAIN ls)

\* Writes that were under way go on, and new ones fit.
LEMMA WritesGoOn ==
  ASSUME DevicesTypeOK, DOMAIN loads \subseteq DOMAIN loads',
         \A w \in writes' : \/ w \in writes
                            \/ w \in WriteShape /\ (w.step = "loading" => w.load \in DOMAIN loads')
  PROVE  WritesTyped(writes', loads')
  BY DEF DevicesTypeOK, WritesTyped

LEMMA AnswerLoadTyped ==
  ASSUME DevicesTypeOK, NEW i \in DOMAIN loads, AnswerLoad(i)
  PROVE  DevicesTypeOK'
  <1>1. /\ loads \in Seq(LoadShape) /\ loads[i] \in LoadShape /\ devices \in PageShape
        /\ home.rooms \in Nat /\ home.seen \in Snapshots
    BY DEF DevicesTypeOK, HomeShape
  <1>2. \E m \in LoadShape : loads' = [loads EXCEPT ![i] = m]
    <2>1. CASE loads' = [loads EXCEPT ![i].rooms = "ok", ![i].version = home.rooms]
      <3> DEFINE m == [loads[i] EXCEPT !.rooms = "ok", !.version = home.rooms]
      <3>1. m \in LoadShape /\ loads' = [loads EXCEPT ![i] = m]
        BY <1>1, <2>1 DEF LoadShape
      <3>2. QED
        BY <3>1
    <2>2. CASE loads' = [loads EXCEPT ![i].rooms = "failed"]
      <3> DEFINE m == [loads[i] EXCEPT !.rooms = "failed"]
      <3>1. m \in LoadShape /\ loads' = [loads EXCEPT ![i] = m]
        BY <1>1, <2>2 DEF LoadShape
      <3>2. QED
        BY <3>1
    <2>3. CASE loads' = [loads EXCEPT ![i].devices = "ok", ![i].snapshot = home.seen]
      <3> DEFINE m == [loads[i] EXCEPT !.devices = "ok", !.snapshot = home.seen]
      <3>1. m \in LoadShape /\ loads' = [loads EXCEPT ![i] = m]
        BY <1>1, <2>3 DEF LoadShape
      <3>2. QED
        BY <3>1
    <2>4. CASE loads' = [loads EXCEPT ![i].devices = "failed"]
      <3> DEFINE m == [loads[i] EXCEPT !.devices = "failed"]
      <3>1. m \in LoadShape /\ loads' = [loads EXCEPT ![i] = m]
        BY <1>1, <2>4 DEF LoadShape
      <3>2. QED
        BY <3>1
    <2>5. QED
      BY <2>1, <2>2, <2>3, <2>4 DEF AnswerLoad
  <1>3. loads' \in Seq(LoadShape) /\ DOMAIN loads' = DOMAIN loads
    BY <1>1, <1>2
  <1>4. devices' \in PageShape
    BY <1>1, PagePaid DEF AnswerLoad, DeviceRoom
  <1>5. home' = home /\ writes' = writes /\ commands' = commands
    BY DEF AnswerLoad
  <1>6. QED
    BY <1>3, <1>4, <1>5 DEF DevicesTypeOK

LEMMA FinishLoadTyped ==
  ASSUME DevicesTypeOK, NEW i \in DOMAIN loads, FinishLoad(i)
  PROVE  DevicesTypeOK'
  <1> DEFINE m == [loads[i] EXCEPT !.over = TRUE, !.version = 0, !.snapshot = Nothing]
  <1>1. loads \in Seq(LoadShape) /\ loads[i] \in LoadShape /\ devices \in PageShape
    BY DEF DevicesTypeOK
  <1>2. m \in LoadShape
    BY <1>1, NothingTyped DEF LoadShape
  <1>3. loads' = [loads EXCEPT ![i] = m]
    BY <1>1 DEF FinishLoad
  <1> HIDE DEF m
  <1>4. loads' \in Seq(LoadShape) /\ DOMAIN loads' = DOMAIN loads
    BY <1>1, <1>2, <1>3
  <1>5. devices' \in PageShape
    <2> DEFINE version == loads[i].version
               list == mergeDeviceSnapshots(devices.list, loads[i].snapshot)
               fails == loads[i].rooms = "failed"
               p1 == [devices EXCEPT !.rooms = version]
               p2 == [p1 EXCEPT !.loaded = TRUE]
               p3 == [p2 EXCEPT !.list = list]
               p4 == [p3 EXCEPT !.error = fails]
    <2>1. version \in Nat /\ fails \in BOOLEAN
      BY <1>1 DEF LoadShape
    <2>2. list \in Snapshots
      BY <1>1, MergeTyped DEF LoadShape, PageShape
    <2>3. \/ devices' = devices \/ devices' = [devices EXCEPT !.error = TRUE]
          \/ devices' = p4
      BY DEF FinishLoad
    <2> HIDE DEF version, list, fails
    <2>4. p1 \in PageShape
      BY <1>1, <2>1, PageSets
    <2> HIDE DEF p1
    <2>5. p2 \in PageShape
      BY <2>4, PageSets
    <2> HIDE DEF p2
    <2>6. p3 \in PageShape
      BY <2>2, <2>5, PageSets
    <2> HIDE DEF p3
    <2>7. p4 \in PageShape
      BY <2>1, <2>6, PageSets
    <2> HIDE DEF p4
    <2>8. QED
      BY <1>1, <2>3, <2>7, PageSets
  <1>6. home' = home /\ writes' = writes /\ commands' = commands
    BY DEF FinishLoad
  <1>7. QED
    BY <1>4, <1>5, <1>6 DEF DevicesTypeOK

LEMMA AnswerRefreshTyped ==
  ASSUME DevicesTypeOK, NEW w \in writes, AnswerRefresh(w)
  PROVE  DevicesTypeOK'
  <1> DEFINE now == home.clock + 1
             seen == [d \in Devices |-> IF home.seen[d].in
                        THEN [home.seen[d] EXCEPT !.at = now] ELSE home.seen[d]]
             v == [w EXCEPT !.step = "answered", !.snapshot = seen]
  <1>1. now \in Nat /\ home.seen \in Snapshots /\ home \in HomeShape /\ w \in WriteShape
    BY DEF DevicesTypeOK, HomeShape
  <1>2. /\ home' = [home EXCEPT !.clock = now, !.seen = seen]
        /\ writes' = (writes \ {w}) \cup {v} /\ devices' = devices /\ loads' = loads
        /\ commands' = commands
    BY DEF AnswerRefresh
  <1>3. seen \in Snapshots
    <2> HIDE DEF now
    <2>1. QED
      BY <1>1 DEF Snapshots
  <1> HIDE DEF seen, now
  <1>4. home' \in HomeShape
    BY <1>1, <1>2, <1>3 DEF HomeShape
  <1>5. v \in WriteShape /\ v.step = "answered"
    BY <1>1, <1>3 DEF WriteShape
  <1> HIDE DEF v
  <1>6. QED
    BY <1>2, <1>4, <1>5 DEF DevicesTypeOK

LEMMA FinishRefreshTyped ==
  ASSUME DevicesTypeOK, NEW w \in writes, FinishRefresh(w)
  PROVE  DevicesTypeOK'
  <1>1. devices \in PageShape /\ w.snapshot \in Snapshots /\ devices.list \in Snapshots
    BY DEF DevicesTypeOK, WriteShape, PageShape
  <1>2. devices' \in PageShape
    <2>1. CASE devices' = [devices EXCEPT !.pending = FALSE,
                              !.list = mergeDeviceSnapshots(devices.list, w.snapshot)]
      BY <1>1, <2>1, PageLists, MergeTyped
    <2>2. CASE /\ DeviceRoom
               /\ devices' = [Paid(devices) EXCEPT !.pending = FALSE, !.error = TRUE]
      <3> DEFINE p1 == Paid(devices)
                 p2 == [p1 EXCEPT !.pending = FALSE]
      <3>1. p1 \in PageShape
        BY <1>1, <2>2, PagePaid DEF DeviceRoom
      <3>2. devices' = [p2 EXCEPT !.error = TRUE]
        BY <2>2
      <3> HIDE DEF p1
      <3>3. p2 \in PageShape
        BY <3>1, PageSets
      <3> HIDE DEF p2
      <3>4. QED
        BY <3>2, <3>3, PageSets
    <2>3. QED
      BY <2>1, <2>2 DEF FinishRefresh
  <1>3. home' = home /\ writes' = writes \ {w} /\ commands' = commands /\ loads' = loads
    BY DEF FinishRefresh
  <1>4. QED
    BY <1>2, <1>3 DEF DevicesTypeOK

LEMMA CoreWritesTyped ==
  ASSUME DevicesTypeOK, NEW w \in writes, CoreWrites(w)
  PROVE  DevicesTypeOK'
  <1>1. home \in HomeShape /\ home.rooms \in Nat \ {0} /\ home.seen \in Snapshots
    BY DEF DevicesTypeOK, HomeShape
  <1>2. home' \in HomeShape
    <2>1. CASE home' = [home EXCEPT !.rooms = home.rooms + 1]
      <3>1. home.rooms + 1 \in Nat \ {0}
        BY <1>1
      <3>2. QED
        BY <1>1, <2>1, <3>1 DEF HomeShape
    <2>2. ASSUME NEW d \in Devices, home' = [home EXCEPT !.seen[d] = Nothing[d]]
          PROVE  home' \in HomeShape
      <3> DEFINE seen == [home.seen EXCEPT ![d] = Nothing[d]]
      <3>1. Nothing[d] \in Seen
        BY NothingTyped DEF Snapshots, Seen
      <3>2. seen \in Snapshots
        BY <1>1, <3>1, SnapshotUpdate
      <3>3. home' = [home EXCEPT !.seen = seen]
        BY <2>2
      <3> HIDE DEF seen
      <3>4. QED
        BY <1>1, <3>2, <3>3 DEF HomeShape
    <2>3. QED
      BY <2>1, <2>2 DEF CoreWrites
  <1> DEFINE v == [w EXCEPT !.step = "answered"]
  <1>3. v \in WriteShape /\ v.step = "answered"
    BY DEF DevicesTypeOK, WriteShape
  <1>4. /\ devices' = devices /\ writes' = (writes \ {w}) \cup {v}
        /\ commands' = commands /\ loads' = loads
    BY DEF CoreWrites
  <1> HIDE DEF v
  <1>5. QED
    BY <1>2, <1>3, <1>4 DEF DevicesTypeOK

LEMMA WriteAnsweredTyped ==
  ASSUME DevicesTypeOK, NEW w \in writes, WriteAnswered(w)
  PROVE  DevicesTypeOK'
  <1> DEFINE v == [w EXCEPT !.step = "loading", !.load = Len(loads) + 1]
  <1>1. /\ devices \in PageShape /\ w \in WriteShape /\ loads \in Seq(LoadShape)
        /\ loads' = NewLoad /\ home' = home /\ commands' = commands
        /\ writes' = (writes \ {w}) \cup {v}
    BY DEF DevicesTypeOK, WriteAnswered
  <1>2. /\ loads' \in Seq(LoadShape) /\ Len(loads) \in Nat
        /\ DOMAIN loads' = 1 .. Len(loads) + 1 /\ DOMAIN loads \subseteq DOMAIN loads'
    BY <1>1, NewLoadTyped
  <1>3. v \in WriteShape /\ v.load = Len(loads) + 1
    <2> DEFINE l == Len(loads) + 1
    <2>1. l \in Nat
      BY <1>2
    <2> HIDE DEF l
    <2>2. v = [w EXCEPT !.step = "loading", !.load = l]
      BY DEF l
    <2>3. v \in WriteShape /\ v.load = l
      BY <1>1, <2>1, <2>2 DEF WriteShape
    <2>4. QED
      BY <2>3 DEF l
  <1> HIDE DEF v
  <1>4. WritesTyped(writes', loads')
    BY <1>1, <1>2, <1>3, WritesGoOn
  <1>5. devices' \in PageShape
    <2> DEFINE p1 == [devices EXCEPT !.editor = FALSE]
    <2>1. p1 \in PageShape
      BY <1>1, PageSets
    <2>2. \/ devices' = p1 \/ devices' = [p1 EXCEPT !.confirm = "none"]
          \/ devices' = [devices EXCEPT !.confirm = "none"]
          \/ devices' = [devices EXCEPT !.edited = FALSE] \/ devices' = devices
      BY DEF WriteAnswered, Written
    <2> HIDE DEF p1
    <2>3. QED
      BY <1>1, <2>1, <2>2, PageSets
  <1>6. QED
    BY <1>1, <1>2, <1>4, <1>5 DEF DevicesTypeOK, WritesTyped

LEMMA WriteFailsTyped ==
  ASSUME DevicesTypeOK, NEW w \in writes, WriteFails(w) \/ LoadReturns(w)
  PROVE  DevicesTypeOK'
  <1>1. devices \in PageShape
    BY DEF DevicesTypeOK
  <1>2. devices' \in PageShape
    <2>1. CASE WriteFails(w)
      <3> DEFINE p1 == Paid(devices)
                 p2 == [p1 EXCEPT !.pending = FALSE]
      <3>1. p1 \in PageShape
        BY <1>1, <2>1, PagePaid DEF DeviceRoom, WriteFails
      <3>2. devices' = [p2 EXCEPT !.error = TRUE]
        BY <2>1 DEF WriteFails
      <3> HIDE DEF p1
      <3>3. p2 \in PageShape
        BY <3>1, PageSets
      <3> HIDE DEF p2
      <3>4. QED
        BY <3>2, <3>3, PageSets
    <2>2. CASE LoadReturns(w)
      BY <1>1, <2>2, PageSets DEF LoadReturns
    <2>3. QED
      BY <2>1, <2>2
  <1>3. home' = home /\ writes' = writes \ {w} /\ commands' = commands /\ loads' = loads
    BY DEF WriteFails, LoadReturns
  <1>4. QED
    BY <1>2, <1>3 DEF DevicesTypeOK

\* Writes that begin.
LEMMA WriteTyped ==
  ASSUME DevicesTypeOK, DeviceRoom, NEW kind \in WriteKinds \cup {"reload", "refresh"},
         NEW step \in {"posting", "loading"}, NEW w \in Write(kind, step)
  PROVE  /\ w \in WriteShape
         /\ w.step = "loading" => w.load = Len(loads) + 1
  <1> DEFINE l == IF step = "loading" THEN Len(loads) + 1 ELSE 0
  <1>1. devices.events \in 0 .. MaxDeviceEvents /\ Nothing \in Snapshots
    BY NothingTyped DEF DevicesTypeOK, PageShape
  <1>2. l \in Nat
    BY NewLoadTyped DEF DevicesTypeOK
  <1>3. w = [id |-> devices.events, kind |-> kind, step |-> step, snapshot |-> Nothing, load |-> l]
    BY DEF Write
  <1>4. w.step = "loading" => w.load = Len(loads) + 1
    BY <1>3
  <1> HIDE DEF l
  <1>5. w \in WriteShape
    BY <1>1, <1>2, <1>3 DEF WriteShape
  <1>6. QED
    BY <1>4, <1>5

LEMMA LoadingTyped ==
  ASSUME DevicesTypeOK, StartLoad \/ ReloadSnapshot
  PROVE  DevicesTypeOK'
  <1>1. /\ devices \in PageShape /\ DeviceRoom /\ loads' = NewLoad /\ home' = home
        /\ commands' = commands /\ loads \in Seq(LoadShape)
    BY DEF DevicesTypeOK, StartLoad, ReloadSnapshot
  <1>2. /\ loads' \in Seq(LoadShape) /\ Len(loads) \in Nat
        /\ DOMAIN loads' = 1 .. Len(loads) + 1 /\ DOMAIN loads \subseteq DOMAIN loads'
    BY <1>1, NewLoadTyped
  <1>3. Paid(devices) \in PageShape
    BY <1>1, PagePaid DEF DeviceRoom
  <1>4. devices' \in PageShape
    <2> DEFINE p == Paid(devices)
    <2>1. devices' = p \/ devices' = [p EXCEPT !.reloading = TRUE]
      BY DEF StartLoad, ReloadSnapshot
    <2> HIDE DEF p
    <2>2. p \in PageShape
      BY <1>3 DEF p
    <2>3. QED
      BY <2>1, <2>2, PageSets
  <1>5. writes' = writes \/ writes' = writes \cup Write("reload", "loading")
    BY DEF StartLoad, ReloadSnapshot
  <1>6. ASSUME NEW w \in Write("reload", "loading")
        PROVE  w \in WriteShape /\ (w.step = "loading" => w.load \in DOMAIN loads')
    BY <1>1, <1>2, <1>6, WriteTyped
  <1>7. WritesTyped(writes', loads')
    BY <1>2, <1>5, <1>6, WritesGoOn
  <1>8. QED
    BY <1>1, <1>2, <1>4, <1>7 DEF DevicesTypeOK, WritesTyped

LEMMA AskingTyped ==
  ASSUME DevicesTypeOK, NEW kind \in WriteKinds,
         RefreshObservations \/ StartWrite(kind) \/ UseDialogs
  PROVE  DevicesTypeOK'
  <1>1. /\ devices \in PageShape /\ home' = home /\ loads' = loads /\ commands' = commands
    BY DEF DevicesTypeOK, RefreshObservations, StartWrite, UseDialogs
  <1>2. CASE UseDialogs
    <2>1. writes' = writes
      BY <1>2 DEF UseDialogs
    <2>2. devices' \in PageShape
      BY <1>1, <1>2, PageSets DEF UseDialogs
    <2>3. QED
      BY <1>1, <2>1, <2>2 DEF DevicesTypeOK
  <1>3. CASE RefreshObservations \/ StartWrite(kind)
    <2> DEFINE p == Paid(devices)
               p1 == [p EXCEPT !.pending = TRUE]
               error == IF RefreshObservations THEN FALSE
                        ELSE p1.error /\ kind \in {"removeRoom", "assign"}
    <2>1. DeviceRoom
      BY <1>3 DEF RefreshObservations, StartWrite
    <2>2. p \in PageShape
      BY <1>1, <2>1, PagePaid DEF DeviceRoom
    <2>3. \E b \in BOOLEAN : devices' = [p1 EXCEPT !.error = b]
      <3>1. CASE RefreshObservations
        BY <3>1 DEF RefreshObservations
      <3>2. CASE StartWrite(kind)
        BY <3>2 DEF StartWrite
      <3>3. QED
        BY <1>3, <3>1, <3>2
    <2> HIDE DEF p
    <2>4. p1 \in PageShape
      BY <2>2, PageSets
    <2> HIDE DEF p1
    <2>5. devices' \in PageShape
      BY <2>3, <2>4, PageSets
    <2>6. \/ writes' = writes \cup Write("refresh", "posting")
          \/ writes' = writes \cup Write(kind, "posting")
      BY <1>3 DEF RefreshObservations, StartWrite
    <2>7. ASSUME NEW k \in {kind, "refresh"}, NEW w \in Write(k, "posting")
          PROVE  w \in WriteShape /\ w.step = "posting"
      <3>1. k \in WriteKinds \cup {"reload", "refresh"}
        BY <2>7
      <3>2. w \in WriteShape
        BY <2>1, <2>7, <3>1, WriteTyped
      <3>3. w.step = "posting"
        BY <2>7 DEF Write
      <3>4. QED
        BY <3>2, <3>3
    <2>8. QED
      BY <1>1, <2>5, <2>6, <2>7 DEF DevicesTypeOK
  <1>4. QED
    BY <1>2, <1>3

LEMMA DeviceChangesTyped ==
  ASSUME DevicesTypeOK, NEW d \in Devices, DeviceChanges(d)
  PROVE  DevicesTypeOK'
  <1> DEFINE on == ~home.seen[d].on
  <1>1. on \in BOOLEAN /\ home' = Observe(d, on, home.clock + 1)
    BY DEF DeviceChanges
  <1> HIDE DEF on
  <1>2. home' \in HomeShape
    BY <1>1, ObserveTyped DEF DevicesTypeOK
  <1>3. devices' \in PageShape
    BY PagePaid DEF DeviceChanges, DeviceRoom, DevicesTypeOK
  <1>4. QED
    BY <1>2, <1>3 DEF DeviceChanges, DevicesTypeOK

-------------------------------------------------------------------------------
(* Commands. *)

LEMMA CommandTyped ==
  ASSUME NEW id \in 0 .. MaxDeviceEvents, NEW d \in Devices, NEW rest \in Seq(Devices),
         NEW room \in BOOLEAN
  PROVE  Command(id, d, rest, room) \in CommandShape
  <1>1. 0 \in 0 .. MaxPolls
    BY DevicesAssumption
  <1>2. QED
    BY <1>1 DEF Command, CommandShape

LEMMA CoreCommandsTyped ==
  ASSUME DevicesTypeOK, NEW c \in commands, CoreCommands(c)
  PROVE  DevicesTypeOK'
  <1>1. c \in CommandShape /\ home \in HomeShape
    BY DEF DevicesTypeOK
  <1>2. \A core \in {"queued", "succeeded", "failed"} : [c EXCEPT !.core = core] \in CommandShape
    BY <1>1 DEF CommandShape
  <1>3. home' \in HomeShape
    BY <1>1, ObserveTyped DEF CoreCommands
  <1>4. \E core \in {"queued", "succeeded", "failed"} :
            commands' = (commands \ {c}) \cup {[c EXCEPT !.core = core]}
    BY DEF CoreCommands
  <1>5. devices' = devices /\ loads' = loads /\ writes' = writes
    BY DEF CoreCommands
  <1>6. QED
    BY <1>2, <1>3, <1>4, <1>5 DEF DevicesTypeOK

\* quickPower returns with a page.
LEMMA ReturnTyped ==
  ASSUME DevicesTypeOK, NEW c \in commands, NEW p \in PageShape, Return(c, p),
         home' = home, loads' = loads, writes' = writes
  PROVE  DevicesTypeOK'
  <1>1. c \in CommandShape
    BY DEF DevicesTypeOK
  <1>2. CASE c.rest # <<>>
    <2>1. c.rest \in Seq(Devices) /\ c.id \in 0 .. MaxDeviceEvents
      BY <1>1 DEF CommandShape
    <2>2. c.rest[1] \in Devices /\ Tail(c.rest) \in Seq(Devices)
      BY <1>2, <2>1
    <2> DEFINE v == Command(c.id, c.rest[1], Tail(c.rest), TRUE)
    <2>3. v \in CommandShape
      BY <2>1, <2>2, CommandTyped
    <2>4. commands' = (commands \ {c}) \cup {v} /\ devices' = Begun(p, c.rest[1])
      BY <1>2 DEF Return
    <2> HIDE DEF v
    <2>5. QED
      BY <2>3, <2>4, PageBegun DEF DevicesTypeOK
  <1>3. CASE c.rest = <<>>
    <2> DEFINE p1 == [p EXCEPT !.roomBusy = FALSE]
    <2>1. /\ commands' = commands \ {c}
          /\ devices' = [p1 EXCEPT !.fading = TRUE] \/ devices' = p
      BY <1>3 DEF Return
    <2>2. p1 \in PageShape
      BY PageSets
    <2> HIDE DEF p1
    <2>3. devices' \in PageShape
      BY <2>1, <2>2, PageSets
    <2>4. QED
      BY <2>1, <2>3 DEF DevicesTypeOK
  <1>4. QED
    BY <1>2, <1>3

LEMMA PollCommandTyped ==
  ASSUME DevicesTypeOK, NEW c \in commands, PollCommand(c)
  PROVE  DevicesTypeOK'
  <1>1. c \in CommandShape /\ devices \in PageShape /\ c.device \in Devices
    BY DEF DevicesTypeOK, CommandShape
  <1>2. home' = home /\ loads' = loads /\ writes' = writes
    BY DEF PollCommand
  <1>3. CASE c.core = "succeeded"
    <2> DEFINE d == c.device
               on == devices.list[d].on \/ devices.list[d].in
               list == [devices.list EXCEPT ![d] = [devices.list[d] EXCEPT !.on = on]]
               p1 == [devices EXCEPT !.marks[d] = "succeeded"]
               p == [devices EXCEPT !.marks[c.device] = "succeeded",
                        !.list[c.device].on = @ \/ devices.list[c.device].in]
    <2>1. Return(c, p)
      <3> HIDE DEF p
      <3>1. PollCommand(c) /\ ~PollsAgain(c)
        BY <1>3 DEF PollsAgain
      <3>2. QED
        BY <1>3, <3>1 DEF PollCommand, p
    <2>2. p1 \in PageShape
      BY <1>1, PageMarks DEF Marks
    <2>3. on \in BOOLEAN
      OBVIOUS
    <2>4. p = [p1 EXCEPT !.list = list]
      BY <1>1 DEF PageShape
    <2> HIDE DEF on, p1, p
    <2>5. list \in Snapshots
      <3>1. [devices.list[d] EXCEPT !.on = on] \in Seen /\ devices.list \in Snapshots
        BY <1>1, <2>3 DEF PageShape, Snapshots, Seen
      <3>2. QED
        BY <3>1, SnapshotUpdate
    <2> HIDE DEF list
    <2>6. p \in PageShape
      BY <2>2, <2>4, <2>5, PageSets
    <2>7. QED
      BY <1>2, <2>1, <2>6, ReturnTyped
  <1>4. CASE c.core # "succeeded" /\ PollsAgain(c)
    <2> DEFINE n == c.polls + 1
               v == [c EXCEPT !.polls = n]
    <2>1. n \in 0 .. MaxPolls
      BY <1>1, <1>4, DevicesAssumption DEF PollsAgain, CommandShape
    <2>2. commands' = (commands \ {c}) \cup {v} /\ devices' = devices
      BY <1>4 DEF PollCommand
    <2> HIDE DEF n
    <2>3. v \in CommandShape
      BY <1>1, <2>1 DEF CommandShape
    <2> HIDE DEF v
    <2>4. QED
      BY <1>2, <2>2, <2>3 DEF DevicesTypeOK
  <1>5. CASE c.core # "succeeded" /\ ~PollsAgain(c)
    <2> DEFINE p == [devices EXCEPT !.marks[c.device] = "failed"]
    <2>1. Return(c, p)
      BY <1>5 DEF PollCommand, Failed
    <2>2. p \in PageShape
      BY <1>1, PageMarks DEF Marks
    <2> HIDE DEF p
    <2>3. QED
      BY <1>2, <2>1, <2>2, ReturnTyped
  <1>6. QED
    BY <1>3, <1>4, <1>5

LEMMA CommandLostTyped ==
  ASSUME DevicesTypeOK, NEW c \in commands, CommandLost(c)
  PROVE  DevicesTypeOK'
  <1> DEFINE p1 == Paid(devices)
             p == [p1 EXCEPT !.marks[c.device] = "failed"]
  <1>1. p1 \in PageShape
    BY PagePaid DEF DevicesTypeOK, CommandLost, DeviceRoom
  <1>2. Return(c, p) /\ home' = home /\ loads' = loads /\ writes' = writes
    BY DEF CommandLost
  <1> HIDE DEF p1
  <1>3. p \in PageShape
    BY <1>1, PageMarks DEF Marks
  <1> HIDE DEF p
  <1>4. QED
    BY <1>2, <1>3, ReturnTyped

LEMMA PanelAnsweredTyped ==
  ASSUME DevicesTypeOK, NEW c \in commands, PanelAnswered(c)
  PROVE  DevicesTypeOK'
  <1> DEFINE d == c.device
             seen == devices.list[d]
             o(on) == IF seen.in THEN [seen EXCEPT !.at = home.clock, !.on = on] ELSE seen
             p(on) == [devices EXCEPT !.pending = FALSE, !.list[d] = o(on)]
  <1>1. /\ devices \in PageShape /\ d \in Devices /\ devices.list \in Snapshots /\ seen \in Seen
        /\ home.clock \in Nat /\ home' = home /\ loads' = loads /\ writes' = writes
    BY DEF DevicesTypeOK, PageShape, HomeShape, CommandShape, PanelAnswered, Snapshots, Seen
  <1>2. \/ Return(c, p(TRUE)) \/ Return(c, p(seen.on))
        \/ DeviceRoom /\ Return(c, Paid(p(seen.on)))
    BY DEF PanelAnswered
  <1>3. ASSUME NEW on \in BOOLEAN PROVE p(on) \in PageShape /\ p(on).events = devices.events
    <2>1. o(on) \in Seen
      <3> HIDE DEF seen
      <3>1. QED
        BY <1>1 DEF Seen
    <2> DEFINE list == [devices.list EXCEPT ![d] = o(on)]
    <2>2. list \in Snapshots
      <3> HIDE DEF o
      <3>1. QED
        BY <1>1, <2>1, SnapshotUpdate
    <2>3. p(on) = [devices EXCEPT !.pending = FALSE, !.list = list]
      OBVIOUS
    <2> HIDE DEF list, p
    <2>4. p(on) \in PageShape
      BY <1>1, <2>2, <2>3, PageLists
    <2>5. p(on).events = devices.events
      BY <1>1, <2>3 DEF PageShape
    <2>6. QED
      BY <2>4, <2>5
  <1>4. seen.on \in BOOLEAN
    BY <1>1 DEF Seen
  <1> HIDE DEF p
  <1>5. DeviceRoom => Paid(p(seen.on)) \in PageShape
    BY <1>3, <1>4, PagePaid DEF DeviceRoom
  <1>6. QED
    BY <1>1, <1>2, <1>3, <1>4, <1>5, ReturnTyped

LEMMA QuickPowerTyped ==
  ASSUME DevicesTypeOK, NEW d \in Devices, QuickPower(d)
  PROVE  DevicesTypeOK'
  <1> DEFINE p == Paid(devices)
             v == Command(devices.events, d, <<>>, FALSE)
  <1>1. p \in PageShape /\ devices.events \in 0 .. MaxDeviceEvents
    BY PagePaid DEF DevicesTypeOK, QuickPower, DeviceRoom, PageShape
  <1>2. v \in CommandShape
    <2>1. <<>> \in Seq(Devices)
      OBVIOUS
    <2>2. QED
      BY <1>1, <2>1, CommandTyped
  <1>3. /\ devices' = Begun(p, d) /\ commands' = commands \cup {v}
        /\ home' = home /\ loads' = loads /\ writes' = writes
    BY DEF QuickPower
  <1> HIDE DEF p, v
  <1>4. QED
    BY <1>1, <1>2, <1>3, PageBegun DEF DevicesTypeOK

LEMMA RoomPowerTyped ==
  ASSUME DevicesTypeOK, NEW n \in 1 .. Cardinality(Devices), NEW items \in [1 .. n -> Devices],
         RoomPower(items)
  PROVE  DevicesTypeOK'
  <1>1. n \in Nat \ {0}
    <2>1. IsFiniteSet(Devices)
      BY DevicesAssumption, FS_Union DEF Devices
    <2>2. Cardinality(Devices) \in Nat
      BY <2>1, FS_CardinalityType
    <2>3. QED
      BY <2>2
  <1>2. items \in Seq(Devices) /\ items # <<>>
    BY <1>1
  <1>3. items[1] \in Devices /\ Tail(items) \in Seq(Devices)
    BY <1>1, <1>2
  <1> DEFINE p == Paid(devices)
             p1 == [p EXCEPT !.roomBusy = TRUE]
             marks == [d \in Devices |-> IF devices.list[d].in THEN "none" ELSE devices.marks[d]]
             p2 == [p1 EXCEPT !.marks = marks]
             v == Command(devices.events, items[1], Tail(items), TRUE)
  <1>4. p \in PageShape /\ devices.events \in 0 .. MaxDeviceEvents /\ devices \in PageShape
    BY PagePaid DEF DevicesTypeOK, RoomPower, DeviceRoom, PageShape
  <1>5. v \in CommandShape
    <2> DEFINE first == items[1]
               rest == Tail(items)
    <2>1. first \in Devices /\ rest \in Seq(Devices) /\ TRUE \in BOOLEAN
      BY <1>3
    <2> HIDE DEF first, rest
    <2>2. Command(devices.events, first, rest, TRUE) \in CommandShape
      BY <1>4, <2>1, CommandTyped
    <2>3. QED
      BY <2>2 DEF first, rest
  <1>6. p.marks = devices.marks
    BY <1>4 DEF Paid, PageShape
  <1>7. /\ devices' = Begun(p2, items[1]) /\ commands' = commands \cup {v}
        /\ home' = home /\ loads' = loads /\ writes' = writes
    BY <1>6 DEF RoomPower
  <1>8. marks \in [Devices -> Marks]
    BY <1>4 DEF PageShape, Marks
  <1> HIDE DEF p, v, marks
  <1>9. p1 \in PageShape
    BY <1>4, PageSets
  <1> HIDE DEF p1
  <1>10. p2 \in PageShape
    BY <1>8, <1>9, PageSets
  <1> HIDE DEF p2
  <1>11. QED
    BY <1>5, <1>7, <1>10, PageBegun DEF DevicesTypeOK

LEMMA MarksFadeTyped ==
  ASSUME DevicesTypeOK, MarksFade
  PROVE  DevicesTypeOK'
  <1> DEFINE p1 == [devices EXCEPT !.fading = FALSE]
             marks == [d \in Devices |-> IF devices.marks[d] = "succeeded" THEN "none"
                                         ELSE devices.marks[d]]
  <1>1. devices \in PageShape /\ p1.marks = devices.marks
    BY DEF DevicesTypeOK, PageShape
  <1>2. devices' = [p1 EXCEPT !.marks = marks]
    BY <1>1 DEF MarksFade
  <1>3. marks \in [Devices -> Marks]
    BY <1>1 DEF PageShape, Marks
  <1> HIDE DEF marks
  <1>4. p1 \in PageShape
    BY <1>1, PageSets
  <1> HIDE DEF p1
  <1>5. devices' \in PageShape
    BY <1>2, <1>3, <1>4, PageSets
  <1>6. QED
    BY <1>5 DEF MarksFade, DevicesTypeOK

-------------------------------------------------------------------------------

LEMMA DevicesTypedInit == DevicesInit => DevicesTypeOK
  <1> SUFFICES ASSUME DevicesInit PROVE DevicesTypeOK
    OBVIOUS
  <1>1. home \in HomeShape
    <2>1. PICK at \in 0 .. 1 :
              home = [rooms |-> 1, clock |-> 1,
                      seen |-> [d \in Devices |-> [in |-> TRUE, at |-> at, on |-> FALSE]]]
      BY DEF DevicesInit
    <2>2. QED
      BY <2>1 DEF HomeShape, Snapshots
  <1>2. devices \in PageShape
    <2>1. 0 \in 0 .. MaxDeviceEvents /\ home.seen \in Snapshots
      BY <1>1, DevicesAssumption DEF HomeShape
    <2>2. [d \in Devices |-> "none"] \in [Devices -> Marks]
      BY DEF Marks
    <2>3. QED
      BY <2>1, <2>2, NothingTyped DEF DevicesInit, PageShape, Marks
  <1>3. loads \in Seq(LoadShape) /\ writes = {} /\ commands = {}
    BY DEF DevicesInit
  <1>4. QED
    BY <1>1, <1>2, <1>3 DEF DevicesTypeOK

LEMMA DevicesTypedNext == DevicesTypeOK /\ [DevicesNext]_deviceVars => DevicesTypeOK'
  <1> SUFFICES ASSUME DevicesTypeOK, [DevicesNext]_deviceVars PROVE DevicesTypeOK'
    OBVIOUS
  <1>1. CASE UNCHANGED deviceVars
    BY <1>1 DEF deviceVars, DevicesTypeOK
  <1>2. ASSUME NEW i \in DOMAIN loads, AnswerLoad(i) \/ FinishLoad(i)
        PROVE  DevicesTypeOK'
    BY <1>2, AnswerLoadTyped, FinishLoadTyped
  <1>3. ASSUME NEW w \in writes, \/ AnswerRefresh(w) \/ FinishRefresh(w) \/ CoreWrites(w)
                                 \/ WriteAnswered(w) \/ WriteFails(w) \/ LoadReturns(w)
        PROVE  DevicesTypeOK'
    BY <1>3, AnswerRefreshTyped, FinishRefreshTyped, CoreWritesTyped, WriteAnsweredTyped,
       WriteFailsTyped
  <1>4. ASSUME NEW c \in commands, \/ CoreCommands(c) \/ PollCommand(c) \/ PanelAnswered(c)
                                   \/ CommandLost(c)
        PROVE  DevicesTypeOK'
    BY <1>4, CoreCommandsTyped, PollCommandTyped, PanelAnsweredTyped, CommandLostTyped
  <1>5. ASSUME NEW d \in Devices, DeviceChanges(d) \/ QuickPower(d)
        PROVE  DevicesTypeOK'
    BY <1>5, DeviceChangesTyped, QuickPowerTyped
  <1>6. ASSUME NEW n \in 1 .. Cardinality(Devices), NEW items \in [1 .. n -> Devices],
               RoomPower(items)
        PROVE  DevicesTypeOK'
    BY <1>6, RoomPowerTyped
  <1>7. ASSUME NEW kind \in WriteKinds, StartWrite(kind)
        PROVE  DevicesTypeOK'
    BY <1>7, AskingTyped
  <1>8. CASE RefreshObservations \/ UseDialogs
    BY <1>8, AskingTyped DEF WriteKinds
  <1>9. CASE MarksFade \/ StartLoad \/ ReloadSnapshot
    BY <1>9, MarksFadeTyped, LoadingTyped
  <1>10. QED
    BY <1>1, <1>2, <1>3, <1>4, <1>5, <1>6, <1>7, <1>8, <1>9 DEF DevicesNext, DevicesProgress

=============================================================================
