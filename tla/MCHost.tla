------------------------------ MODULE MCHost ------------------------------
(***************************************************************************)
(* An instance for TLC of four parts that share no state: the processes   *)
(* (Service), the watcher of one of them (Watcher), its log ring (LogRing) *)
(* and the resolution of reader slots (ReaderSlots). Every behaviour is    *)
(* one of one part, chosen in the initial state; the others stand still.   *)
(***************************************************************************)
EXTENDS Service, Watcher, LogRing, ReaderSlots

VARIABLE part
hostVars == <<serviceVars, watcherVars, ringVars, treeVars, part>>

ThreeVersions == <<<<0, 9, 1>>, <<0, 10, 0>>, <<1, 0, 0>>>>
\* A release that is withdrawn, seen by two instances; a death at any step
\* of an update; the token, with a second instance and two deaths.
ThreeScenarios ==
  {[env |-> FALSE, releases |-> 2, launches |-> 1, deaths |-> 0, saves |-> 0],
   [env |-> FALSE, releases |-> 1, launches |-> 1, deaths |-> 1, saves |-> 0],
   [env |-> TRUE, releases |-> 0, launches |-> 1, deaths |-> 2, saves |-> 1]}
OwnSlot == [v \in Volumes |-> v]
DebugOrError == [r \in Lines |-> IF r \in {"d1", "d2"} THEN 0 ELSE 8]

\* A reader with two slots and one with a single slot behind one hub. On the
\* second host the disks have no address, and the single reader has its
\* location in the port it is plugged into.
Above == [d \in Devices |->
  CASE d \in {"left", "right"} -> "double" [] d = "only" -> "single"
    [] d = "double" -> "hub" [] d = "single" -> "port" [] d = "port" -> "hub"
    [] OTHER -> Nowhere]
LocatedAt(nodes) == [d \in Devices |-> IF d \in nodes THEN d ELSE Nowhere]
SlotNumbers == [d \in Disks |-> IF d = "right" THEN 1 ELSE 0]
NoNumbers == [d \in Disks |-> Nowhere]
TwoTrees ==
  {[parent |-> Above, path |-> LocatedAt({"double", "single", "hub"}),
    address |-> SlotNumbers, suffix |-> NoNumbers],
   [parent |-> Above, path |-> LocatedAt({"double", "port", "hub"}),
    address |-> NoNumbers, suffix |-> SlotNumbers]}

HostInit ==
  /\ ServiceInit /\ WatcherInit /\ RingInit /\ TreeInit
  /\ part \in {"service", "watcher", "ring", "tree"}
  /\ part # "service" => left = CHOOSE s \in Scenarios : TRUE
  /\ part # "watcher" => ~paused
  /\ part # "ring" => level = CHOOSE l \in Levels : TRUE
  /\ part # "tree" => tree = CHOOSE t \in Trees : TRUE

Only(name) == part = name
OfService == UNCHANGED <<watcherVars, ringVars, treeVars, part>>
OfWatcher == UNCHANGED <<serviceVars, ringVars, treeVars, part>>
OfRing == UNCHANGED <<serviceVars, watcherVars, treeVars, part>>
OfTree == UNCHANGED <<serviceVars, watcherVars, ringVars, part>>

HostNext ==
  \/ Only("service") /\ ServiceNext /\ OfService
  \/ Only("watcher") /\ WatcherNext /\ OfWatcher
  \/ Only("ring") /\ RingNext /\ OfRing
  \/ Only("tree") /\ TreeNext /\ OfTree

\* The fairness of Service and of Watcher, each where its part runs.
HostFairness ==
  /\ \A j \in CopyJobs : WF_hostVars(Only("service") /\ FinishJob(j) /\ OfService)
  /\ \A p \in Procs : /\ WF_hostVars(Only("service") /\ BootStep(p) /\ OfService)
                      /\ WF_hostVars(Only("service") /\ UpdateStep(p) /\ OfService)
                      /\ SF_hostVars(Only("service") /\ Downloads(p) /\ OfService)
                      /\ SF_hostVars(Only("service") /\ Places(p) /\ OfService)
  /\ \A p \in Services : WF_hostVars(Only("service") /\ Start(p) /\ OfService)
  /\ WF_hostVars(Only("watcher") /\ Poll /\ OfWatcher)
  /\ SF_hostVars(Only("watcher") /\ List /\ scan' # None /\ OfWatcher)
  /\ \A v \in Volumes : SF_hostVars(Only("watcher") /\ Attach(v) /\ tracked'[v].slot = None /\ OfWatcher)
  /\ \A s \in Subscribers : WF_hostVars(Only("watcher") /\ Take(s) /\ OfWatcher)

HostSpec == HostInit /\ [][HostNext]_hostVars /\ HostFairness

TypeOK == ServiceTypeOK /\ RingTypeOK /\ WatcherTypeOK /\ TreeTypeOK

\* FollowsTheWorld of Watcher, where the watcher runs.
WatcherFollows == part = "watcher" => FollowsTheWorld
=============================================================================
