---------------------------- MODULE ReaderSlots ----------------------------
(***************************************************************************)
(* Which physical slot a card is in (platform/win/slot.go, cfgmgr.go): the *)
(* walk from a volume, or from a disk interface at boot, to the location   *)
(* path of the reader and the LUN of the slot in it.                       *)
(*                                                                         *)
(* Every question to Windows is a step. Readers come and go in between and *)
(* device numbers are given again; the read of a property may fail.        *)
(***************************************************************************)
EXTENDS Naturals, FiniteSets

CONSTANTS
  Trees,        \* device trees the host may have
  Disks,        \* disk devices, one per slot of a reader
  Devices,      \* disks, readers, hubs, controllers
  Numbers,      \* device numbers Windows gives to disks
  MaxDepth,     \* levels findLocationPath climbs (10)
  MaxMisreads,  \* bound: reads of a property that fail
  MaxReplugs,   \* bound: times a reader is pulled or plugged
  Nowhere       \* no parent, no property, no disk, no question under way

ASSUME DisksAssumption == Disks \subseteq Devices /\ Nowhere \notin Devices
ASSUME TreesAssumption ==
  \A t \in Trees :
    /\ DOMAIN t.parent = Devices /\ DOMAIN t.path = Devices
    /\ DOMAIN t.address = Disks /\ DOMAIN t.suffix = Disks
    /\ \A d \in Devices : t.parent[d] \in Devices \cup {Nowhere}
ASSUME WalkBoundsAssumption ==
  MaxDepth \in Nat /\ MaxMisreads \in Nat /\ MaxReplugs \in Nat /\ Numbers \subseteq Nat
ASSUME NumbersAssumption ==
  \E n \in [Disks -> Numbers] : \A d, e \in Disks : n[d] = n[e] => d = e

\* The devices the way up from d comes by: it ends at the first one that has
\* a location path.
climbs(t, d) ==
  {n \in Devices : \A S \in SUBSET Devices :
     /\ d \in S
     /\ \A x \in S : t.path[x] = Nowhere /\ t.parent[x] # Nowhere => t.parent[x] \in S
     => n \in S}

\* The LUN of a disk: what its instance ID ends in, else 0, counts when it
\* has no address.
suffixLUN(t, d) == IF t.suffix[d] = Nowhere THEN 0 ELSE t.suffix[d]
lunOf(t, d) == IF t.address[d] = Nowhere THEN suffixLUN(t, d) ELSE t.address[d]

\* What the hardware promises (ResolveSlot): readers differ by location path,
\* and the slots of a reader, which share it, by LUN.
ASSUME SlotsAssumption ==
  \A t \in Trees : \A d, e \in Disks : \A n \in climbs(t, d), m \in climbs(t, e) :
    t.path[n] # Nowhere /\ t.path[n] = t.path[m] /\ lunOf(t, d) = lunOf(t, e) => d = e

VARIABLES
  tree,     \* the device tree: parent, location path, address, suffix of the ID
  number,   \* per disk its device number, Nowhere while its reader is unplugged
  walk,     \* the resolution under way
  found,    \* history: the keys found, with the slot they were asked for
  misreads, \* reads that failed
  replugs   \* readers pulled or plugged

treeVars == <<tree, number, walk, found, misreads, replugs>>

Paths == (UNION {{t.path[d] : d \in Devices} : t \in Trees}) \ {Nowhere}
Luns == (UNION {{t.address[d] : d \in Disks} \cup {t.suffix[d] : d \in Disks} : t \in Trees})
        \cup {0}
\* of: the slot asked about; disk: the one the number led to; clear: nothing
\* was misread and no number was given again.
Walks == [by : {"volume", "interface"}, of : Disks, num : Numbers \cup {Nowhere},
          disk : Disks \cup {Nowhere}, lun : Luns \cup {Nowhere},
          path : Paths \cup {Nowhere}, node : Devices, depth : 0..MaxDepth, clear : BOOLEAN]

TreeTypeOK ==
  /\ tree \in Trees
  /\ number \in [Disks -> Numbers \cup {Nowhere}]
  /\ walk \in Walks \cup {Nowhere}
  /\ found \subseteq [of : Disks, path : Paths, lun : Luns]
  /\ misreads \in 0..MaxMisreads
  /\ replugs \in 0..MaxReplugs

present(d) == number[d] # Nowhere
distinct(n) == \A d, e \in Disks : n[d] = n[e] /\ n[d] # Nowhere => d = e
reader(d) == tree.parent[d]

TreeInit ==
  /\ tree \in Trees
  /\ number = CHOOSE n \in [Disks -> Numbers] : distinct(n)
  /\ walk = Nowhere
  /\ found = {} /\ misreads = 0 /\ replugs = 0

(***************************************************************************)
(* A reader is pulled with all its slots, or plugged and numbered anew.    *)
(***************************************************************************)
Replug(r) ==
  /\ replugs < MaxReplugs /\ replugs' = replugs + 1
  /\ LET slots == {d \in Disks : reader(d) = r} IN
       /\ slots # {}
       /\ number' \in {n \in [Disks -> Numbers \cup {Nowhere}] :
                         /\ distinct(n)
                         /\ \A d \in Disks \ slots : n[d] = number[d]
                         /\ \A d \in slots : present(d) <=> n[d] = Nowhere}
  /\ UNCHANGED <<tree, walk, found, misreads>>

(***************************************************************************)
(* The questions.                                                          *)
(***************************************************************************)
asked(by, d) ==
  [by |-> by, of |-> d, num |-> number[d], disk |-> Nowhere, lun |-> Nowhere,
   path |-> Nowhere, node |-> d, depth |-> 0, clear |-> TRUE]

\* ResolveSlot: the number of the disk the volume is on.
volumeDeviceNumber(d) ==
  /\ walk = Nowhere /\ present(d)
  /\ walk' = asked("volume", d)
  /\ UNCHANGED <<tree, number, found, misreads, replugs>>

\* ListReaderSlots: a disk interface; its instance ID names the disk.
ListReaderSlot(d) ==
  /\ walk = Nowhere /\ present(d)
  /\ walk' = [asked("interface", d) EXCEPT !.num = Nowhere, !.disk = d]
  /\ UNCHANGED <<tree, number, found, misreads, replugs>>

\* No disk has the number any more, it cannot be opened, or it or its reader
\* is gone: ErrSlotUnknown, or the reader is not listed.
GiveUp ==
  /\ walk # Nowhere
  /\ walk' = Nowhere
  /\ UNCHANGED <<tree, number, found, misreads, replugs>>

\* The disk that has the number now.
diskInstanceIDByNumber ==
  /\ walk # Nowhere /\ walk.disk = Nowhere
  /\ \E d \in Disks :
       /\ number[d] = walk.num
       /\ walk' = [walk EXCEPT !.num = Nowhere, !.disk = d, !.node = d, !.clear = (d = walk.of)]
  /\ UNCHANGED <<tree, number, found, misreads, replugs>>

misread == misreads < MaxMisreads /\ misreads' = misreads + 1

\* Mutant: the address is not looked at.
resolveLUN_never ==
  /\ walk # Nowhere /\ walk.disk # Nowhere /\ walk.lun = Nowhere
  /\ walk' = [walk EXCEPT !.lun = 0]
  /\ UNCHANGED <<tree, number, found, misreads, replugs>>

\* The address of the disk; else what the instance ID ends in; else 0. A
\* volume's is read before the location, an interface's after it. That the
\* disk is gone by now is no error either.
resolveLUN ==
  /\ walk # Nowhere /\ walk.disk # Nowhere /\ walk.lun = Nowhere
  /\ walk.by = "interface" => walk.path # Nowhere
  /\ LET d == walk.disk IN
       \/ /\ present(d)
          /\ walk' = [walk EXCEPT !.lun = lunOf(tree, d)]
          /\ UNCHANGED misreads
       \/ /\ walk' = [walk EXCEPT !.lun = suffixLUN(tree, d), !.clear = FALSE]
          /\ IF present(d) THEN misread ELSE UNCHANGED misreads
  /\ UNCHANGED <<tree, number, found, replugs>>

\* A disk and its reader answer while plugged in; what is above them stays.
answers == present(walk.disk) \/ walk.node \notin {walk.disk, reader(walk.disk)}

climb(clear) ==
  IF tree.parent[walk.node] = Nowhere \/ walk.depth + 1 >= MaxDepth THEN walk' = Nowhere
  ELSE walk' = [walk EXCEPT !.node = tree.parent[@], !.depth = @ + 1, !.clear = @ /\ clear]

\* The first node on the way up that has a location path. A read that fails
\* is taken for one without: the walk goes on to what stands above.
findLocationPath ==
  /\ walk # Nowhere /\ walk.disk # Nowhere /\ walk.path = Nowhere /\ answers
  /\ walk.by = "volume" => walk.lun # Nowhere
  /\ LET path == tree.path[walk.node] IN
       \/ path # Nowhere /\ walk' = [walk EXCEPT !.path = path] /\ UNCHANGED misreads
       \/ path = Nowhere /\ climb(TRUE) /\ UNCHANGED misreads
       \/ climb(FALSE) /\ misread
  /\ UNCHANGED <<tree, number, found, replugs>>

Resolved ==
  /\ walk # Nowhere /\ walk.path # Nowhere /\ walk.lun # Nowhere
  /\ found' = IF walk.clear
                THEN found \cup {[of |-> walk.of, path |-> walk.path, lun |-> walk.lun]}
                ELSE found
  /\ walk' = Nowhere
  /\ UNCHANGED <<tree, number, misreads, replugs>>

TreeNext ==
  \/ \E r \in Devices : Replug(r)
  \/ \E d \in Disks : volumeDeviceNumber(d) \/ ListReaderSlot(d)
  \/ diskInstanceIDByNumber \/ resolveLUN \/ findLocationPath \/ GiveUp \/ Resolved

TreeSpec == TreeInit /\ [][TreeNext]_treeVars

(***************************************************************************)
(* Properties.                                                             *)
(***************************************************************************)
\* A key stands for one physical slot: the slot found at boot (with no card
\* in it) and the slot of a card put there later have the same key, across
\* reinsertions and new device numbers, and no two slots share one, unless a
\* property could not be read or a number was given again during the walk
\* (ResolveSlot: "stable across reboots and reinsertions; multi-slot readers
\* share it and differ by LUN").
OneKeyPerSlot ==
  \A a, b \in found : a.of = b.of <=> a.path = b.path /\ a.lun = b.lun
=============================================================================
