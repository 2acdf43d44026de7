----------------------------- MODULE HostProofs -----------------------------
(* Theorems about ReaderSlots, for any device trees, and about the four    *)
(* parts of MCHost side by side.                                           *)
EXTENDS MCHost, ServiceProofs, WatcherProofs, RingProofs, TLAPS

(***************************************************************************)
(* The way up from a disk.                                                 *)
(***************************************************************************)
\* A set of devices with the next step of each on the way up.
upward(t, S) ==
  \A x \in S : t.path[x] = Nowhere /\ t.parent[x] # Nowhere => t.parent[x] \in S

LEMMA ClimbsForm ==
  ASSUME NEW t, NEW d
  PROVE  climbs(t, d) = {n \in Devices : \A S \in SUBSET Devices : d \in S /\ upward(t, S) => n \in S}
BY DEF climbs, upward

\* The way up begins at the disk, and goes on from every device without a
\* location path.
LEMMA WayUp ==
  ASSUME NEW t \in Trees, NEW d \in Devices
  PROVE  /\ d \in climbs(t, d)
         /\ \A x \in climbs(t, d) :
              t.path[x] = Nowhere /\ t.parent[x] # Nowhere => t.parent[x] \in climbs(t, d)
<1>1. d \in climbs(t, d)
  BY ClimbsForm
<1>2. ASSUME NEW x \in climbs(t, d), t.path[x] = Nowhere, t.parent[x] # Nowhere
      PROVE  t.parent[x] \in climbs(t, d)
  <2>1. x \in Devices /\ t.parent[x] \in Devices
    BY <1>2, TreesAssumption DEF climbs
  <2>2. ASSUME NEW S \in SUBSET Devices, d \in S, upward(t, S) PROVE t.parent[x] \in S
    <3>1. x \in S
      BY <2>2, ClimbsForm
    <3> QED
      BY <1>2, <2>2, <3>1 DEF upward
  <2> QED
    BY <2>1, <2>2, ClimbsForm
<1> QED
  BY <1>1, <1>2

\* It ends at the first device that has one: there is no other.
LEMMA OneLocation ==
  ASSUME NEW t \in Trees, NEW d \in Devices, NEW m \in climbs(t, d), NEW n \in climbs(t, d),
         t.path[m] # Nowhere, t.path[n] # Nowhere
  PROVE  m = n
<1> DEFINE S == {x \in Devices : m \in climbs(t, x)}
<1>1. upward(t, S)
  <2> SUFFICES ASSUME NEW x \in S, t.path[x] = Nowhere, t.parent[x] # Nowhere
               PROVE  t.parent[x] \in S
    BY DEF upward
  <2>1. x \in Devices /\ m \in climbs(t, x) /\ m # x /\ m \in Devices
    BY DEF climbs
  <2>2. t.parent[x] \in Devices
    BY <2>1, TreesAssumption
  <2>3. ASSUME NEW T \in SUBSET Devices, t.parent[x] \in T, upward(t, T) PROVE m \in T
    <3>1. T \cup {x} \in SUBSET Devices /\ x \in T \cup {x}
      BY <2>1
    <3>2. upward(t, T \cup {x})
      BY <2>3 DEF upward
    <3>3. m \in T \cup {x}
      BY <2>1, <3>1, <3>2, ClimbsForm
    <3> QED
      BY <2>1, <3>3
  <2> QED
    BY <2>1, <2>2, <2>3, ClimbsForm
<1>2. d \in S /\ S \in SUBSET Devices
  OBVIOUS
<1>3. n \in S
  BY <1>1, <1>2, ClimbsForm
<1>4. n \in Devices /\ m \in climbs(t, n)
  BY <1>3
<1>5. upward(t, {n})
  BY DEF upward
<1>6. m \in {n}
  <2>1. {n} \in SUBSET Devices /\ n \in {n}
    BY <1>4
  <2> QED
    BY <1>4, <1>5, <2>1, ClimbsForm
<1> QED
  BY <1>6

(***************************************************************************)
(* The inductive invariant of the walk: while nothing was misread and no   *)
(* number was given again, it is on the way up from the disk of the slot   *)
(* it was asked for.                                                       *)
(***************************************************************************)
locatedAt(d, path) == \E n \in climbs(tree, d) : tree.path[n] = path

WalkInv ==
  walk # Nowhere =>
    /\ walk.path # Nowhere \/ walk.lun # Nowhere => walk.disk # Nowhere
    /\ walk.clear => /\ walk.disk # Nowhere => walk.disk = walk.of
                     /\ walk.path = Nowhere => walk.node \in climbs(tree, walk.of)
                     /\ walk.path # Nowhere => locatedAt(walk.of, walk.path)
                     /\ walk.lun # Nowhere => walk.lun = lunOf(tree, walk.of)

FoundInv == \A a \in found : locatedAt(a.of, a.path) /\ a.lun = lunOf(tree, a.of)

TreeInv == TreeTypeOK /\ WalkInv /\ FoundInv

\* The LUN of a disk is one of the LUNs there are.
LEMMA LunTypes ==
  ASSUME NEW t \in Trees, NEW d \in Disks
  PROVE  lunOf(t, d) \in Luns /\ suffixLUN(t, d) \in Luns
<1>1. t.address[d] \in Luns /\ t.suffix[d] \in Luns /\ 0 \in Luns
  <2> DEFINE own(u) == {u.address[e] : e \in Disks} \cup {u.suffix[e] : e \in Disks}
  <2>1. t.address[d] \in own(t) /\ t.suffix[d] \in own(t)
    OBVIOUS
  <2>2. Luns = (UNION {own(u) : u \in Trees}) \cup {0}
    BY DEF Luns
  <2>3. own(t) \in {own(u) : u \in Trees}
    OBVIOUS
  <2> HIDE DEF own
  <2>4. own(t) \subseteq UNION {own(u) : u \in Trees}
    BY <2>3
  <2> QED
    BY <2>1, <2>2, <2>4
<1>2. suffixLUN(t, d) \in Luns
  BY <1>1 DEF suffixLUN
<1>3. lunOf(t, d) \in Luns
  BY <1>1, <1>2 DEF lunOf
<1> QED
  BY <1>2, <1>3

\* A location path of a tree is one of the paths there are.
LEMMA PathTypes ==
  ASSUME NEW t \in Trees, NEW d \in Devices, t.path[d] # Nowhere
  PROVE  t.path[d] \in Paths
<1> DEFINE own(u) == {u.path[e] : e \in Devices}
<1>1. t.path[d] \in own(t)
  OBVIOUS
<1>2. Paths = (UNION {own(u) : u \in Trees}) \ {Nowhere}
  BY DEF Paths
<1>3. own(t) \in {own(u) : u \in Trees}
  OBVIOUS
<1> HIDE DEF own
<1>4. own(t) \subseteq UNION {own(u) : u \in Trees}
  BY <1>3
<1> QED
  BY <1>1, <1>2, <1>4

LEMMA TreeInitHolds == TreeInit => TreeInv
<1> SUFFICES ASSUME TreeInit PROVE TreeInv
  OBVIOUS
<1>1. \E n \in [Disks -> Numbers] : distinct(n)
  BY NumbersAssumption DEF distinct
<1>2. number \in [Disks -> Numbers]
  BY <1>1 DEF TreeInit
<1>3. TreeTypeOK
  BY <1>2, WalkBoundsAssumption DEF TreeInit, TreeTypeOK
<1> QED
  BY <1>3 DEF TreeInit, TreeInv, WalkInv, FoundInv

\* Where a walk may go.
LEMMA ClimbForm ==
  ASSUME TreeInv, walk # Nowhere, NEW clear \in BOOLEAN, climb(clear)
  PROVE  \/ walk' = Nowhere
         \/ /\ walk' = [walk EXCEPT !.node = tree.parent[@], !.depth = @ + 1, !.clear = @ /\ clear]
            /\ walk' \in Walks
            /\ tree.parent[walk.node] # Nowhere
<1>1. CASE tree.parent[walk.node] = Nowhere \/ walk.depth + 1 >= MaxDepth
  BY <1>1 DEF climb
<1>2. CASE ~(tree.parent[walk.node] = Nowhere \/ walk.depth + 1 >= MaxDepth)
  <2>1. walk' = [walk EXCEPT !.node = tree.parent[@], !.depth = @ + 1, !.clear = @ /\ clear]
    BY <1>2 DEF climb
  <2>2. walk \in Walks /\ tree \in Trees
    BY DEF TreeInv, TreeTypeOK
  <2>3. tree.parent[walk.node] \in Devices
    BY <1>2, <2>2, TreesAssumption DEF Walks
  <2>4. walk.depth + 1 \in 0..MaxDepth
    BY <1>2, <2>2, WalkBoundsAssumption DEF Walks
  <2>5. walk' \in Walks
    BY <2>1, <2>2, <2>3, <2>4 DEF Walks
  <2> QED
    BY <1>2, <2>1, <2>5
<1> QED
  BY <1>1, <1>2

\* A walk is asked for a disk that is there.
LEMMA AskedForm ==
  ASSUME TreeInv, NEW d \in Disks
  PROVE  /\ asked("volume", d) \in Walks
         /\ [asked("interface", d) EXCEPT !.num = Nowhere, !.disk = d] \in Walks
<1>1. number[d] \in Numbers \cup {Nowhere} /\ d \in Devices /\ 0 \in 0..MaxDepth
  BY DisksAssumption, WalkBoundsAssumption DEF TreeInv, TreeTypeOK
<1> QED
  BY <1>1 DEF asked, Walks

\* Every step keeps the walk on its way.
LEMMA TreeStep == TreeInv /\ [TreeNext]_treeVars => TreeInv'
<1> SUFFICES ASSUME TreeInv, [TreeNext]_treeVars PROVE TreeInv'
  OBVIOUS
<1>1. /\ TreeTypeOK /\ WalkInv /\ FoundInv
      /\ tree \in Trees /\ (walk # Nowhere => walk \in Walks)
  BY DEF TreeInv, TreeTypeOK
\* What is left to show of the steps that find no key.
<1>2. ASSUME tree' = tree, found' = found, number' \in [Disks -> Numbers \cup {Nowhere}],
             misreads' \in 0..MaxMisreads, replugs' \in 0..MaxReplugs,
             walk' \in Walks \cup {Nowhere}, WalkInv'
      PROVE  TreeInv'
  BY <1>1, <1>2 DEF TreeInv, TreeTypeOK, FoundInv, locatedAt
<1>3. CASE UNCHANGED treeVars
  BY <1>1, <1>2, <1>3 DEF treeVars, TreeTypeOK, WalkInv, locatedAt
<1>4. ASSUME NEW r \in Devices, Replug(r) PROVE TreeInv'
  <2>1. replugs' \in 0..MaxReplugs
    BY <1>1, <1>4, WalkBoundsAssumption DEF Replug, TreeTypeOK
  <2>2. /\ UNCHANGED <<tree, walk, found, misreads>>
        /\ number' \in [Disks -> Numbers \cup {Nowhere}]
    BY <1>4 DEF Replug
  <2> QED
    BY <1>1, <1>2, <2>1, <2>2 DEF TreeTypeOK, WalkInv, locatedAt
<1>5. ASSUME NEW d \in Disks, volumeDeviceNumber(d) PROVE TreeInv'
  <2>1. walk' = asked("volume", d) /\ UNCHANGED <<tree, number, found, misreads, replugs>>
    BY <1>5 DEF volumeDeviceNumber
  <2>4. walk' \in Walks
    <3>1. asked("volume", d) \in Walks
      BY AskedForm, Zenon
    <3> QED
      BY <2>1, <3>1
  <2>2. d \in climbs(tree, d)
    BY <1>1, WayUp, DisksAssumption
  <2>3. WalkInv'
    BY <2>1, <2>2 DEF asked, WalkInv
  <2> QED
    BY <1>1, <1>2, <2>1, <2>3, <2>4 DEF TreeTypeOK
<1>6. ASSUME NEW d \in Disks, ListReaderSlot(d) PROVE TreeInv'
  <2>1. /\ walk' = [asked("interface", d) EXCEPT !.num = Nowhere, !.disk = d]
        /\ UNCHANGED <<tree, number, found, misreads, replugs>>
    BY <1>6 DEF ListReaderSlot
  <2>4. walk' \in Walks
    <3>1. [asked("interface", d) EXCEPT !.num = Nowhere, !.disk = d] \in Walks
      BY AskedForm, Zenon
    <3> QED
      BY <2>1, <3>1
  <2>2. d \in climbs(tree, d)
    BY <1>1, WayUp, DisksAssumption
  <2>3. WalkInv'
    BY <2>1, <2>2 DEF asked, WalkInv
  <2> QED
    BY <1>1, <1>2, <2>1, <2>3, <2>4 DEF TreeTypeOK
<1>7. CASE GiveUp
  BY <1>1, <1>2, <1>7 DEF GiveUp, TreeTypeOK, WalkInv
<1>8. CASE diskInstanceIDByNumber
  <2>7. \E d \in Disks :
          /\ number[d] = walk.num
          /\ walk' = [walk EXCEPT !.num = Nowhere, !.disk = d, !.node = d, !.clear = (d = walk.of)]
    BY <1>8, Zenon DEF diskInstanceIDByNumber
  <2>1. PICK d \in Disks :
          walk' = [walk EXCEPT !.num = Nowhere, !.disk = d, !.node = d, !.clear = (d = walk.of)]
    BY <2>7, Zenon
  <2>2. walk # Nowhere /\ walk \in Walks /\ walk.disk = Nowhere
        /\ UNCHANGED <<tree, number, found, misreads, replugs>>
    BY <1>1, <1>8 DEF diskInstanceIDByNumber
  <2>3. d \in Devices /\ d \in climbs(tree, d)
    BY <1>1, WayUp, DisksAssumption
  <2>4. walk' \in Walks
    BY <2>1, <2>2, <2>3 DEF Walks
  <2>5. walk.path = Nowhere /\ walk.lun = Nowhere
    BY <1>1, <2>2 DEF WalkInv
  <2>6. WalkInv'
    BY <2>1, <2>2, <2>3, <2>5, DisksAssumption DEF Walks, WalkInv
  <2> QED
    BY <1>1, <1>2, <2>2, <2>4, <2>6 DEF TreeTypeOK
<1>9. CASE resolveLUN
  <2>1. walk # Nowhere /\ walk \in Walks /\ walk.disk # Nowhere /\ walk.disk \in Disks
    BY <1>1, <1>9 DEF resolveLUN, Walks
  <2>2. UNCHANGED <<tree, number, found, replugs>> /\ misreads' \in 0..MaxMisreads
    BY <1>1, <1>9, WalkBoundsAssumption DEF resolveLUN, misread, TreeTypeOK
  <2>3. \/ walk' = [walk EXCEPT !.lun = lunOf(tree, walk.disk)]
        \/ walk' = [walk EXCEPT !.lun = suffixLUN(tree, walk.disk), !.clear = FALSE]
    BY <1>9 DEF resolveLUN
  <2>4. lunOf(tree, walk.disk) \in Luns /\ suffixLUN(tree, walk.disk) \in Luns
    BY <1>1, <2>1, LunTypes
  <2>5. walk' \in Walks
    BY <2>1, <2>3, <2>4 DEF Walks
  <2>6. WalkInv'
    <3>1. CASE walk' = [walk EXCEPT !.lun = lunOf(tree, walk.disk)]
      BY <1>1, <2>1, <2>2, <3>1 DEF Walks, WalkInv, locatedAt
    <3>2. CASE walk' = [walk EXCEPT !.lun = suffixLUN(tree, walk.disk), !.clear = FALSE]
      BY <1>1, <2>1, <2>2, <3>2 DEF Walks, WalkInv, locatedAt
    <3> QED
      BY <2>3, <3>1, <3>2
  <2> QED
    BY <1>1, <1>2, <2>2, <2>5, <2>6 DEF TreeTypeOK
<1>10. CASE findLocationPath
  <2>1. walk # Nowhere /\ walk \in Walks /\ walk.disk # Nowhere /\ walk.path = Nowhere
    BY <1>1, <1>10 DEF findLocationPath
  <2>2. UNCHANGED <<tree, number, found, replugs>> /\ misreads' \in 0..MaxMisreads
    <3>1. UNCHANGED misreads \/ misread
      BY <1>10 DEF findLocationPath
    <3> QED
      BY <1>1, <1>10, <3>1, WalkBoundsAssumption DEF findLocationPath, misread, TreeTypeOK
  <2>3. \/ tree.path[walk.node] # Nowhere /\ walk' = [walk EXCEPT !.path = tree.path[walk.node]]
        \/ tree.path[walk.node] = Nowhere /\ climb(TRUE)
        \/ climb(FALSE)
    BY <1>10 DEF findLocationPath
  <2>4. CASE tree.path[walk.node] # Nowhere /\ walk' = [walk EXCEPT !.path = tree.path[walk.node]]
    <3>1. tree.path[walk.node] \in Paths
      BY <1>1, <2>1, <2>4, PathTypes DEF Walks
    <3>2. walk' \in Walks
      BY <2>1, <2>4, <3>1 DEF Walks
    <3>3. WalkInv'
      BY <1>1, <2>1, <2>2, <2>4 DEF Walks, WalkInv, locatedAt
    <3> QED
      BY <1>1, <1>2, <2>2, <3>2, <3>3 DEF TreeTypeOK
  <2>5. ASSUME NEW clear \in BOOLEAN, climb(clear),
               clear => tree.path[walk.node] = Nowhere
        PROVE  TreeInv'
    <3>1. CASE walk' = Nowhere
      BY <1>1, <1>2, <2>2, <3>1 DEF TreeTypeOK, WalkInv
    <3>2. CASE /\ walk' = [walk EXCEPT !.node = tree.parent[@], !.depth = @ + 1, !.clear = @ /\ clear]
               /\ walk' \in Walks
               /\ tree.parent[walk.node] # Nowhere
      <4>1. /\ walk'.path = Nowhere /\ walk'.disk = walk.disk /\ walk'.of = walk.of
            /\ walk'.lun = walk.lun /\ walk'.node = tree.parent[walk.node]
            /\ walk'.clear => walk.clear /\ clear
        BY <2>1, <3>2 DEF Walks
      <4>2. walk.of \in Devices
        BY <2>1, DisksAssumption DEF Walks
      <4>3. walk'.clear => walk'.node \in climbs(tree, walk.of)
        BY <1>1, <2>1, <2>5, <3>2, <4>1, <4>2, WayUp DEF WalkInv
      <4>4. WalkInv'
        BY <1>1, <2>1, <2>2, <4>1, <4>3 DEF WalkInv
      <4> QED
        BY <1>1, <1>2, <2>2, <3>2, <4>4 DEF TreeTypeOK
    <3>3. \/ walk' = Nowhere
          \/ /\ walk' = [walk EXCEPT !.node = tree.parent[@], !.depth = @ + 1, !.clear = @ /\ clear]
             /\ walk' \in Walks
             /\ tree.parent[walk.node] # Nowhere
      BY <2>1, <2>5, ClimbForm, Zenon
    <3> QED
      BY <3>1, <3>2, <3>3
  <2> QED
    BY <2>3, <2>4, <2>5
<1>11. CASE Resolved
  <2>1. /\ walk # Nowhere /\ walk \in Walks /\ walk.path # Nowhere /\ walk.lun # Nowhere
        /\ walk' = Nowhere /\ UNCHANGED <<tree, number, misreads, replugs>>
    BY <1>1, <1>11 DEF Resolved
  <2> DEFINE k == [of |-> walk.of, path |-> walk.path, lun |-> walk.lun]
  <2>2. found' = found \/ (walk.clear /\ found' = found \cup {k})
    BY <1>11 DEF Resolved
  <2>3. k \in [of : Disks, path : Paths, lun : Luns]
    BY <2>1 DEF Walks
  <2>4. walk.clear => locatedAt(k.of, k.path) /\ k.lun = lunOf(tree, k.of)
    BY <1>1, <2>1 DEF WalkInv
  <2> HIDE DEF k
  <2>5. FoundInv'
    BY <1>1, <2>1, <2>2, <2>4 DEF FoundInv, locatedAt
  <2>6. TreeTypeOK' /\ WalkInv'
    BY <1>1, <2>1, <2>2, <2>3 DEF TreeTypeOK, WalkInv
  <2> QED
    BY <2>5, <2>6 DEF TreeInv
<1> QED
  BY <1>3, <1>4, <1>5, <1>6, <1>7, <1>8, <1>9, <1>10, <1>11 DEF TreeNext

(***************************************************************************)
(* The theorems about reader slots.                                        *)
(***************************************************************************)
\* The walk stays on the way up from the disk it was asked for.
THEOREM TreeInductive == TreeSpec => []TreeInv
BY TreeInitHolds, TreeStep, PTL DEF TreeSpec

\* However readers come and go, numbers are given again and reads fail: two
\* keys found without such an accident are of one slot exactly if they are
\* the same, on every host whose readers differ by location path and whose
\* slots in a reader differ by LUN.
THEOREM KeysAreSlots == TreeSpec => []OneKeyPerSlot
<1>1. TreeInv => OneKeyPerSlot
  <2> SUFFICES ASSUME TreeInv, NEW a \in found, NEW b \in found
               PROVE  a.of = b.of <=> a.path = b.path /\ a.lun = b.lun
    BY DEF OneKeyPerSlot
  <2>1. /\ a.of \in Disks /\ b.of \in Disks /\ a.of \in Devices /\ tree \in Trees
        /\ a.path # Nowhere /\ b.path # Nowhere
    <3>1. found \subseteq [of : Disks, path : Paths, lun : Luns] /\ tree \in Trees
      BY DEF TreeInv, TreeTypeOK
    <3>2. Nowhere \notin Paths
      BY DEF Paths
    <3> QED
      BY <3>1, <3>2, DisksAssumption
  <2>2. PICK n \in climbs(tree, a.of) : tree.path[n] = a.path
    BY DEF TreeInv, FoundInv, locatedAt
  <2>3. PICK m \in climbs(tree, b.of) : tree.path[m] = b.path
    BY DEF TreeInv, FoundInv, locatedAt
  <2>4. a.lun = lunOf(tree, a.of) /\ b.lun = lunOf(tree, b.of)
    BY DEF TreeInv, FoundInv
  <2>5. a.of = b.of => n = m
    BY <2>1, <2>2, <2>3, OneLocation
  <2>6. ASSUME a.path = b.path, a.lun = b.lun PROVE a.of = b.of
    <3>1. tree.path[n] # Nowhere /\ tree.path[n] = tree.path[m]
      BY <2>1, <2>2, <2>3, <2>6
    <3>2. lunOf(tree, a.of) = lunOf(tree, b.of)
      BY <2>4, <2>6
    <3> QED
      BY <2>1, <3>1, <3>2, SlotsAssumption, Zenon
  <2> QED
    BY <2>2, <2>3, <2>4, <2>5, <2>6
<1> QED
  BY <1>1, TreeInductive, PTL

(***************************************************************************)
(* The parts side by side.                                                 *)
(***************************************************************************)
\* MCHost adds no behaviour to its parts: what it does to the state of each,
\* the part may do alone, so that what is proved of a part holds of the whole.
THEOREM PartsKeepApart == HostSpec => ServiceSpec /\ WatcherSpec /\ RingSpec /\ TreeSpec
<1>1. HostInit => ServiceInit /\ WatcherInit /\ RingInit /\ TreeInit
  BY DEF HostInit
<1>2. [HostNext]_hostVars => /\ [ServiceNext]_serviceVars /\ [WatcherNext]_watcherVars
                            /\ [RingNext]_ringVars /\ [TreeNext]_treeVars
  <2> SUFFICES ASSUME [HostNext]_hostVars
               PROVE  /\ [ServiceNext]_serviceVars /\ [WatcherNext]_watcherVars
                      /\ [RingNext]_ringVars /\ [TreeNext]_treeVars
    OBVIOUS
  <2>1. CASE ServiceNext /\ OfService
    BY <2>1 DEF OfService
  <2>2. CASE WatcherNext /\ OfWatcher
    BY <2>2 DEF OfWatcher
  <2>3. CASE RingNext /\ OfRing
    BY <2>3 DEF OfRing
  <2>4. CASE TreeNext /\ OfTree
    BY <2>4 DEF OfTree
  <2>5. CASE UNCHANGED hostVars
    BY <2>5 DEF hostVars
  <2> QED
    BY <2>1, <2>2, <2>3, <2>4, <2>5 DEF HostNext
<1> QED
  BY <1>1, <1>2, PTL DEF HostSpec, ServiceSpec, WatcherSpec, RingSpec, TreeSpec

\* Every variable of every part keeps its type, buffers their capacity and
\* counters their bounds.
THEOREM HostTyped == HostSpec => []TypeOK
<1>1. WatcherInv => WatcherTypeOK
  BY DEF WatcherInv
<1>2. RingInv => RingTypeOK
  BY DEF RingInv
<1>3. TreeInv => TreeTypeOK
  BY DEF TreeInv
<1> QED
  BY <1>1, <1>2, <1>3, PartsKeepApart, ServiceTyped, WatcherInductive, RingInductive,
     TreeInductive, PTL DEF TypeOK

\* The safety properties of the parts, of the whole.
THEOREM HostIsSafe ==
  HostSpec => /\ [](NoBinaryLost /\ NeverDowngrades /\ UpdateSparesCountedJobs)
              /\ [](SavedTokenStays /\ InterruptedIsDead /\ OneKeyPerSlot)
              /\ KeepsLatestLines
BY PartsKeepApart, BinaryNeverLost, NoDowngrade, CountedJobsSpared, UserTokenStays,
   InterruptedHasEnded, KeysAreSlots, RingIsIdeal, PTL
=============================================================================
