------------------------------ MODULE Watcher ------------------------------
(***************************************************************************)
(* The volume watcher of cardpit (watcher.go) and the bus it publishes on  *)
(* (bus.go).                                                               *)
(*                                                                         *)
(* Every PollInterval the watcher lists the removable volumes and compares *)
(* the list with what it tracks: a new volume is a candidate, a candidate  *)
(* listed long enough is attached, one that is no longer listed is         *)
(* forgotten. Cards come and go at any moment, also between the listing    *)
(* and the questions asked about a volume afterwards.                      *)
(*                                                                         *)
(* Time is counted in polls.                                               *)
(***************************************************************************)
EXTENDS Naturals, FiniteSets, Sequences

CONSTANTS
  Volumes,      \* removable volumes, by volume GUID
  SlotOf,       \* the reader slot each volume is plugged into
  Subscribers,  \* receivers of the attach and detach events
  OnlyAttach,   \* the subscribers that asked for attach events only
  BusCap,       \* buffer of a subscription (256 for the manager, 64 for calibration)
  Debounce,     \* polls a volume must have been known for
  Grace,        \* polls the slot is asked for once more (5 s in poll)
  AtBoot,       \* volumes plugged in when the program starts
  MaxMoves,     \* bound: times a card is plugged or pulled
  MaxPauses,    \* bound: times detection is paused or resumed
  None          \* not tracked; no slot; no scan

ASSUME TimesAssumption == Debounce \in Nat /\ Grace \in Nat
ASSUME BusCapAssumption == BusCap \in Nat \ {0}
ASSUME MovesAssumption == MaxMoves \in Nat /\ MaxPauses \in Nat
ASSUME VolumesAssumption ==
  /\ None \notin Volumes
  /\ DOMAIN SlotOf = Volumes
  /\ OnlyAttach \subseteq Subscribers
  /\ AtBoot \subseteq Volumes

VARIABLES
  mounted,  \* volumes plugged in
  paused,   \* w.paused
  tracked,  \* w.states
  scan,     \* the poll under way: what was listed, what is left to look at
  inbox,    \* per subscription, the events in its buffer
  seen,     \* per subscription, the volumes attached by the events it took
  dropped,  \* subscriptions that lost an event
  moves,    \* times a card was plugged or pulled
  pauses    \* times detection was paused or resumed

watcherVars == <<mounted, paused, tracked, scan, inbox, seen, dropped, moves, pauses>>

Oldest == Debounce + Grace
SlotKeys == {SlotOf[v] : v \in Volumes}
Tracked == [age : 0..Oldest, attached : BOOLEAN, slot : SlotKeys \cup {None}]
Events == [kind : {"attach", "detach"}, vol : Volumes, slot : SlotKeys \cup {None}]
ASSUME TrackedAssumption == None \notin Tracked

WatcherTypeOK ==
  /\ mounted \subseteq Volumes
  /\ paused \in BOOLEAN
  /\ tracked \in [Volumes -> Tracked \cup {None}]
  /\ scan \in [listed : SUBSET Volumes, todo : SUBSET Volumes] \cup {None}
  /\ inbox \in [Subscribers -> Seq(Events)]
  /\ \A s \in Subscribers : Len(inbox[s]) <= BusCap
  /\ seen \in [Subscribers -> SUBSET Volumes]
  /\ dropped \subseteq Subscribers
  /\ moves \in 0..MaxMoves
  /\ pauses \in 0..MaxPauses

\* The boot reads the setting watcher_paused.
WatcherInit ==
  /\ mounted = AtBoot
  /\ paused \in (IF MaxPauses > 0 THEN BOOLEAN ELSE {FALSE})
  /\ tracked = [v \in Volumes |-> None]
  /\ scan = None
  /\ inbox = [s \in Subscribers |-> <<>>]
  /\ seen = [s \in Subscribers |-> {}]
  /\ dropped = {}
  /\ moves = 0
  /\ pauses = 0

attached(v) == tracked[v] # None /\ tracked[v].attached

\* Publish: to every subscription that asked for it and has room.
wants(s, e) == e.kind = "attach" \/ s \notin OnlyAttach
\* Mutant: no limit.
Publish_unbounded(e) ==
  /\ inbox' = [s \in Subscribers |-> IF wants(s, e) THEN Append(inbox[s], e) ELSE inbox[s]]
  /\ UNCHANGED dropped

Publish(e) ==
  /\ inbox' = [s \in Subscribers |->
                 IF wants(s, e) /\ Len(inbox[s]) < BusCap THEN Append(inbox[s], e) ELSE inbox[s]]
  /\ dropped' = dropped \cup {s \in Subscribers : wants(s, e) /\ Len(inbox[s]) = BusCap}

\* A subscriber takes its next event.
Take(s) ==
  /\ inbox[s] # <<>>
  /\ LET e == Head(inbox[s]) IN
       seen' = [seen EXCEPT ![s] = IF e.kind = "attach" THEN @ \cup {e.vol} ELSE @ \ {e.vol}]
  /\ inbox' = [inbox EXCEPT ![s] = Tail(@)]
  /\ UNCHANGED <<mounted, paused, tracked, scan, dropped, moves, pauses>>

(***************************************************************************)
(* The world and the user.                                                 *)
(***************************************************************************)
Plug(v) ==
  /\ v \notin mounted /\ moves < MaxMoves
  /\ mounted' = mounted \cup {v}
  /\ moves' = moves + 1
  /\ UNCHANGED <<paused, tracked, scan, inbox, seen, dropped, pauses>>

Pull(v) ==
  /\ v \in mounted /\ moves < MaxMoves
  /\ mounted' = mounted \ {v}
  /\ moves' = moves + 1
  /\ UNCHANGED <<paused, tracked, scan, inbox, seen, dropped, pauses>>

SetPaused ==
  /\ pauses < MaxPauses
  /\ paused' = ~paused
  /\ pauses' = pauses + 1
  /\ UNCHANGED <<mounted, tracked, scan, inbox, seen, dropped, moves>>

(***************************************************************************)
(* One poll: List, then LookAt for each listed volume in any order, then   *)
(* Forget.                                                                 *)
(***************************************************************************)
older(t) == IF t = None THEN None ELSE [t EXCEPT !.age = IF @ < Oldest THEN @ + 1 ELSE @]

List ==
  /\ scan = None
  /\ tracked' = [v \in Volumes |-> older(tracked[v])]
  /\ \/ scan' = [listed |-> mounted, todo |-> mounted]
     \/ UNCHANGED scan                            \* listing failed
  /\ UNCHANGED <<mounted, paused, inbox, seen, dropped, moves, pauses>>

done(v) == scan' = [scan EXCEPT !.todo = @ \ {v}]

\* Volumes that stay as they are: attached ones, candidates that are too
\* young, every candidate while detection is paused.
settled(v) == tracked[v] # None /\ (tracked[v].attached \/ paused \/ tracked[v].age < Debounce)

BecomeCandidate(v) ==
  /\ scan # None /\ v \in scan.todo
  /\ tracked[v] = None
  /\ tracked' = [tracked EXCEPT ![v] = [age |-> 0, attached |-> FALSE, slot |-> None]]
  /\ done(v)
  /\ UNCHANGED <<mounted, paused, inbox, seen, dropped, moves, pauses>>

\* VolumeInfo fails (the media is not ready, or gone), or the slot cannot be
\* resolved yet.
NotYet(v) ==
  /\ scan # None /\ v \in scan.todo
  /\ tracked[v] # None
  /\ done(v)
  /\ UNCHANGED <<mounted, paused, tracked, inbox, seen, dropped, moves, pauses>>

ready(v) ==
  /\ scan # None /\ v \in scan.todo
  /\ tracked[v] # None /\ ~settled(v)
  /\ v \in mounted

\* Mutant: no end of the grace period.
Attach_needsSlot(v) ==
  /\ ready(v)
  /\ tracked' = [tracked EXCEPT ![v].attached = TRUE, ![v].slot = SlotOf[v]]
  /\ Publish([kind |-> "attach", vol |-> v, slot |-> SlotOf[v]])
  /\ done(v)
  /\ UNCHANGED <<mounted, paused, seen, moves, pauses>>

\* With its slot, or without one when the grace period is over.
Attach(v) ==
  /\ ready(v)
  /\ \E slot \in {SlotOf[v]} \cup (IF tracked[v].age >= Oldest THEN {None} ELSE {}) :
       /\ tracked' = [tracked EXCEPT ![v].attached = TRUE, ![v].slot = slot]
       /\ Publish([kind |-> "attach", vol |-> v, slot |-> slot])
  /\ done(v)
  /\ UNCHANGED <<mounted, paused, seen, moves, pauses>>

\* The volumes that were not listed, one by one.
departed == {v \in Volumes : tracked[v] # None /\ v \notin scan.listed}
\* Mutants: no event for a volume without slot; an event for a candidate too.
Forget_slotless(v) ==
  /\ scan # None /\ scan.todo = {} /\ v \in departed
  /\ tracked' = [tracked EXCEPT ![v] = None]
  /\ IF tracked[v].slot # None
       THEN Publish([kind |-> "detach", vol |-> v, slot |-> tracked[v].slot])
       ELSE UNCHANGED <<inbox, dropped>>
  /\ UNCHANGED <<mounted, paused, scan, seen, moves, pauses>>

Forget_candidates(v) ==
  /\ scan # None /\ scan.todo = {} /\ v \in departed
  /\ tracked' = [tracked EXCEPT ![v] = None]
  /\ Publish([kind |-> "detach", vol |-> v, slot |-> tracked[v].slot])
  /\ UNCHANGED <<mounted, paused, scan, seen, moves, pauses>>

Forget(v) ==
  /\ scan # None /\ scan.todo = {}
  /\ v \in departed
  /\ tracked' = [tracked EXCEPT ![v] = None]
  /\ IF tracked[v].attached
       THEN Publish([kind |-> "detach", vol |-> v, slot |-> tracked[v].slot])
       ELSE UNCHANGED <<inbox, dropped>>
  /\ UNCHANGED <<mounted, paused, scan, seen, moves, pauses>>

EndPoll ==
  /\ scan # None /\ scan.todo = {} /\ departed = {}
  /\ scan' = None
  /\ UNCHANGED <<mounted, paused, tracked, inbox, seen, dropped, moves, pauses>>

LookAt(v) == BecomeCandidate(v) \/ NotYet(v) \/ Attach(v)
Poll == List \/ EndPoll \/ \E v \in Volumes : LookAt(v) \/ Forget(v)
World == SetPaused \/ \E v \in Volumes : Plug(v) \/ Pull(v)

WatcherNext == Poll \/ World \/ \E s \in Subscribers : Take(s)
WatcherSpec == WatcherInit /\ [][WatcherNext]_watcherVars

\* The ticker fires for ever, polls end, and a volume that stays is readable
\* and listed again and again; its slot may never be found.
WatcherFairness ==
  /\ WF_watcherVars(Poll)
  /\ SF_watcherVars(List /\ scan' # None)
  /\ \A v \in Volumes : SF_watcherVars(Attach(v) /\ tracked'[v].slot = None)
  /\ \A s \in Subscribers : WF_watcherVars(Take(s))
WatcherFairSpec == WatcherSpec /\ WatcherFairness

(***************************************************************************)
(* Properties.                                                             *)
(***************************************************************************)
\* What a subscription believes once it has taken the events in its buffer.
will(s, v) ==
  LET q == inbox[s]
      about == {i \in DOMAIN q : q[i].vol = v}
  IN IF about = {} THEN v \in seen[s]
     ELSE \E i \in about : q[i].kind = "attach" /\ \A k \in about : k <= i

\* A subscription to both topics that lost no event agrees with the watcher
\* about every volume as soon as it has taken what waits in its buffer
\* (poll, Publish): no detach is published for a candidate, none is missing
\* for a volume that was announced.
ViewFollows ==
  \A s \in Subscribers \ (dropped \cup OnlyAttach) :
    \A v \in Volumes : will(s, v) <=> attached(v)

\* Attach and detach of a volume alternate in every subscription that lost no
\* event: a card pulled and inserted between two polls, listed late or not
\* readable at first, is never announced twice in a row (volState.attached).
EventsAlternate ==
  \A s \in Subscribers \ (dropped \cup OnlyAttach) :
    \A i \in DOMAIN inbox[s] :
      LET e == inbox[s][i]
          before == {k \in 1..(i - 1) : inbox[s][k].vol = e.vol}
          was == IF before = {} THEN e.vol \in seen[s]
                 ELSE \E k \in before : /\ inbox[s][k].kind = "attach"
                                        /\ \A n \in before : n <= k
      IN (e.kind = "attach") <=> ~was

\* A volume that stays while detection is on is attached for good, with or
\* without a slot; one that stays away is forgotten (poll, Debounce + 5 s).
FollowsTheWorld ==
  \A v \in Volumes :
    /\ <>[](v \in mounted /\ ~paused) => <>[]attached(v)
    /\ <>[](v \notin mounted) => <>[](tracked[v] = None)
=============================================================================
