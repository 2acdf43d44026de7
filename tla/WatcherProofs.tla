--------------------------- MODULE WatcherProofs ---------------------------
(* Theorems about Watcher, for any volumes, subscribers and bounds.        *)
EXTENDS Watcher, TLAPS

(***************************************************************************)
(* Types.                                                                  *)
(***************************************************************************)
\* A subscription's buffer stays one, when an event is published...
LEMMA PublishType ==
  ASSUME WatcherTypeOK, NEW e \in Events, Publish(e)
  PROVE  /\ inbox' \in [Subscribers -> Seq(Events)]
         /\ \A s \in Subscribers : Len(inbox'[s]) <= BusCap
         /\ dropped' \subseteq Subscribers
<1>1. ASSUME NEW s \in Subscribers
      PROVE  inbox'[s] \in Seq(Events) /\ Len(inbox'[s]) <= BusCap
  <2>1. inbox'[s] = IF wants(s, e) /\ Len(inbox[s]) < BusCap THEN Append(inbox[s], e) ELSE inbox[s]
    BY DEF Publish
  <2>2. inbox[s] \in Seq(Events) /\ Len(inbox[s]) <= BusCap
    BY DEF WatcherTypeOK
  <2> QED
    BY <2>1, <2>2, BusCapAssumption
<1> QED
  BY <1>1 DEF Publish, WatcherTypeOK

\* ...and when one is taken.
LEMMA TakeType ==
  ASSUME WatcherTypeOK, NEW s \in Subscribers, Take(s)
  PROVE  WatcherTypeOK' /\ Head(inbox[s]) \in Events
<1>1. inbox[s] \in Seq(Events) /\ inbox[s] # <<>>
  BY DEF WatcherTypeOK, Take
<1>2. Head(inbox[s]) \in Events /\ Tail(inbox[s]) \in Seq(Events) /\ Len(Tail(inbox[s])) <= Len(inbox[s])
  BY <1>1
<1>3. inbox' = [inbox EXCEPT ![s] = Tail(inbox[s])]
  BY DEF Take
<1>4. Len(inbox[s]) <= BusCap /\ Len(inbox[s]) \in Nat /\ Len(Tail(inbox[s])) \in Nat
  BY <1>1, <1>2 DEF WatcherTypeOK
<1>5. Len(Tail(inbox[s])) <= BusCap
  BY <1>2, <1>4, BusCapAssumption
<1>6. /\ inbox' \in [Subscribers -> Seq(Events)]
      /\ \A r \in Subscribers : Len(inbox'[r]) <= BusCap
  BY <1>2, <1>3, <1>5 DEF WatcherTypeOK
<1>7. seen' \in [Subscribers -> SUBSET Volumes]
  BY <1>2 DEF Take, WatcherTypeOK, Events
<1> QED
  BY <1>2, <1>6, <1>7 DEF Take, WatcherTypeOK

\* The watcher and the cards keep the types of the watcher.
LEMMA WatcherTypeStep == WatcherTypeOK /\ (Poll \/ World) => WatcherTypeOK'
<1> SUFFICES ASSUME WatcherTypeOK, Poll \/ World PROVE WatcherTypeOK'
  OBVIOUS
<1>1. CASE List
  <2>1. ASSUME NEW v \in Volumes PROVE older(tracked[v]) \in Tracked \cup {None}
    BY TimesAssumption DEF older, Tracked, Oldest, WatcherTypeOK
  <2>2. tracked' \in [Volumes -> Tracked \cup {None}]
    BY <1>1, <2>1 DEF List
  <2> QED
    BY <1>1, <2>2 DEF List, WatcherTypeOK
<1>2. CASE EndPoll
  BY <1>2 DEF EndPoll, WatcherTypeOK
<1>3. ASSUME NEW v \in Volumes, BecomeCandidate(v) PROVE WatcherTypeOK'
  <2>1. [age |-> 0, attached |-> FALSE, slot |-> None] \in Tracked
    BY TimesAssumption DEF Tracked, Oldest
  <2>2. tracked' \in [Volumes -> Tracked \cup {None}]
    BY <1>3, <2>1 DEF BecomeCandidate, WatcherTypeOK
  <2>3. scan' \in [listed : SUBSET Volumes, todo : SUBSET Volumes] \cup {None}
    BY <1>3 DEF BecomeCandidate, done, WatcherTypeOK
  <2> QED
    BY <1>3, <2>2, <2>3 DEF BecomeCandidate, WatcherTypeOK
<1>4. ASSUME NEW v \in Volumes, NotYet(v) PROVE WatcherTypeOK'
  BY <1>4 DEF NotYet, done, WatcherTypeOK
<1>5. ASSUME NEW v \in Volumes, Attach(v) PROVE WatcherTypeOK'
  <2>1. PICK slot \in SlotKeys \cup {None} :
          /\ tracked' = [tracked EXCEPT ![v].attached = TRUE, ![v].slot = slot]
          /\ Publish([kind |-> "attach", vol |-> v, slot |-> slot])
    BY <1>5 DEF Attach, SlotKeys
  <2>2. [tracked[v] EXCEPT !.attached = TRUE, !.slot = slot] \in Tracked
    <3>1. tracked[v] \in Tracked
      BY <1>5 DEF Attach, ready, WatcherTypeOK
    <3> QED
      BY <3>1 DEF Tracked
  <2>3. tracked' \in [Volumes -> Tracked \cup {None}]
    BY <2>1, <2>2 DEF WatcherTypeOK
  <2>4. [kind |-> "attach", vol |-> v, slot |-> slot] \in Events
    BY DEF Events
  <2>5. /\ inbox' \in [Subscribers -> Seq(Events)]
        /\ \A s \in Subscribers : Len(inbox'[s]) <= BusCap
        /\ dropped' \subseteq Subscribers
    BY <2>1, <2>4, PublishType
  <2>6. scan' \in [listed : SUBSET Volumes, todo : SUBSET Volumes] \cup {None}
    BY <1>5 DEF Attach, ready, done, WatcherTypeOK
  <2> QED
    BY <1>5, <2>3, <2>5, <2>6 DEF Attach, WatcherTypeOK
<1>6. ASSUME NEW v \in Volumes, Forget(v) PROVE WatcherTypeOK'
  <2>1. tracked' \in [Volumes -> Tracked \cup {None}]
    BY <1>6 DEF Forget, WatcherTypeOK
  <2>2. [kind |-> "detach", vol |-> v, slot |-> tracked[v].slot] \in Events
    BY <1>6 DEF Forget, departed, Events, Tracked, WatcherTypeOK
  <2>3. /\ inbox' \in [Subscribers -> Seq(Events)]
        /\ \A s \in Subscribers : Len(inbox'[s]) <= BusCap
        /\ dropped' \subseteq Subscribers
    <3>1. CASE tracked[v].attached
      BY <1>6, <2>2, <3>1, PublishType DEF Forget
    <3>2. CASE ~tracked[v].attached
      BY <1>6, <3>2 DEF Forget, WatcherTypeOK
    <3> QED
      BY <3>1, <3>2
  <2> QED
    BY <1>6, <2>1, <2>3 DEF Forget, WatcherTypeOK
<1>7. CASE SetPaused
  BY <1>7, MovesAssumption DEF SetPaused, WatcherTypeOK
<1>8. ASSUME NEW v \in Volumes, Plug(v) PROVE WatcherTypeOK'
  BY <1>8, MovesAssumption DEF Plug, WatcherTypeOK
<1>9. ASSUME NEW v \in Volumes, Pull(v) PROVE WatcherTypeOK'
  BY <1>9, MovesAssumption DEF Pull, WatcherTypeOK
<1> QED
  BY <1>1, <1>2, <1>3, <1>4, <1>5, <1>6, <1>7, <1>8, <1>9 DEF Poll, World, LookAt


LEMMA WatcherInitTypes == WatcherInit => WatcherTypeOK
<1> SUFFICES ASSUME WatcherInit PROVE WatcherTypeOK
  OBVIOUS
<1>1. inbox \in [Subscribers -> Seq(Events)] /\ \A s \in Subscribers : Len(inbox[s]) <= BusCap
  <2>1. <<>> \in Seq(Events) /\ Len(<<>>) = 0
    OBVIOUS
  <2> QED
    BY <2>1, BusCapAssumption DEF WatcherInit
<1>2. paused \in BOOLEAN
  BY DEF WatcherInit
<1>3. tracked \in [Volumes -> Tracked \cup {None}] /\ seen \in [Subscribers -> SUBSET Volumes]
  BY DEF WatcherInit
<1> QED
  BY <1>1, <1>2, <1>3, VolumesAssumption, MovesAssumption DEF WatcherInit, WatcherTypeOK

(***************************************************************************)
(* What a subscription believes after the first n events of its buffer.    *)
(***************************************************************************)
believes(q, m, v, n) ==
  LET about == {k \in 1..n : q[k].vol = v}
  IN IF about = {} THEN v \in m
     ELSE \E k \in about : q[k].kind = "attach" /\ \A i \in about : i <= k

\* The beliefs of a volume after one more event...
after(m, e) == IF e.kind = "attach" THEN m \cup {e.vol} ELSE m \ {e.vol}

\* ...put at the end of the buffer...
LEMMA OneMore ==
  ASSUME NEW q \in Seq(Events), NEW e \in Events, NEW m, NEW v
  PROVE  /\ \A n \in 0..Len(q) : believes(Append(q, e), m, v, n) <=> believes(q, m, v, n)
         /\ believes(Append(q, e), m, v, Len(q) + 1) <=>
              IF e.vol = v THEN e.kind = "attach" ELSE believes(q, m, v, Len(q))
<1> DEFINE p == Append(q, e)
           N == Len(q)
<1>1. /\ N \in Nat /\ p[N + 1] = e
      /\ \A k \in 1..N : p[k] = q[k]
  OBVIOUS
<1> HIDE DEF p, N
<1>2. ASSUME NEW n \in 0..N
      PROVE  believes(p, m, v, n) <=> believes(q, m, v, n)
  <2>1. \A k \in 1..n : p[k] = q[k]
    BY <1>1
  <2> QED
    BY <2>1 DEF believes
<1>3. believes(p, m, v, N + 1) <=> IF e.vol = v THEN e.kind = "attach" ELSE believes(q, m, v, N)
  <2> DEFINE long == {k \in 1..N + 1 : p[k].vol = v}
             short == {k \in 1..N : q[k].vol = v}
  <2>1. CASE e.vol = v
    <3>1. N + 1 \in long /\ \A k \in long : k <= N + 1 /\ k \in Nat
      BY <1>1, <2>1
    <3>2. \A k \in long : N + 1 <= k => k = N + 1
      BY <1>1, <3>1
    <3> QED
      BY <1>1, <2>1, <3>1, <3>2 DEF believes
  <2>2. CASE e.vol # v
    <3>1. long = short
      BY <1>1, <2>2
    <3>2. \A k \in short : p[k] = q[k]
      BY <1>1
    <3> QED
      BY <2>2, <3>1, <3>2 DEF believes
  <2> QED
    BY <2>1, <2>2
<1> QED
  BY <1>2, <1>3 DEF p, N

\* ...and taken from its beginning.
LEMMA OneLess ==
  ASSUME NEW q \in Seq(Events), q # <<>>, NEW m, NEW v, NEW n \in 0..Len(q) - 1
  PROVE  believes(Tail(q), after(m, Head(q)), v, n) <=> believes(q, m, v, n + 1)
<1> DEFINE h == Head(q)
           r == Tail(q)
           here == {k \in 1..n : r[k].vol = v}
           there == {k \in 1..n + 1 : q[k].vol = v}
<1>1. /\ h = q[1] /\ n \in Nat /\ h \in Events
      /\ \A k \in 1..n : r[k] = q[k + 1]
      /\ \A k \in 1..n + 1 : k # 1 => q[k] = r[k - 1] /\ k - 1 \in 1..n
  OBVIOUS
<1> HIDE DEF h, r
<1>2. /\ \A k \in here : k + 1 \in there /\ k \in Nat /\ k >= 1 /\ r[k] = q[k + 1]
      /\ \A k \in there : k \in Nat /\ k >= 1 /\ (k # 1 => k - 1 \in here /\ q[k] = r[k - 1])
      /\ 1 \in there <=> h.vol = v
  BY <1>1
<1> HIDE DEF here, there
<1>3. CASE here = {}
  <2>1. \A k \in there : k = 1
    BY <1>2, <1>3
  <2>2. CASE 1 \in there
    <3>1. there = {1} /\ h.vol = v
      BY <1>2, <2>1, <2>2
    <3>2. believes(q, m, v, n + 1) <=> h.kind = "attach"
      <4>1. believes(q, m, v, n + 1) <=>
              \E k \in there : q[k].kind = "attach" /\ \A i \in there : i <= k
        BY <3>1 DEF believes, there
      <4> QED
        BY <1>1, <3>1, <4>1
    <3>3. believes(r, after(m, h), v, n) <=> v \in after(m, h)
      BY <1>3 DEF believes, here
    <3> QED
      BY <3>1, <3>2, <3>3 DEF after, h, r
  <2>3. CASE 1 \notin there
    <3>1. there = {} /\ h.vol # v
      BY <1>2, <2>1, <2>3
    <3>2. believes(q, m, v, n + 1) <=> v \in m
      BY <3>1 DEF believes, there
    <3>3. believes(r, after(m, h), v, n) <=> v \in after(m, h)
      BY <1>3 DEF believes, here
    <3> QED
      BY <3>1, <3>2, <3>3 DEF after, h, r
  <2> QED
    BY <2>2, <2>3
<1>4. CASE here # {}
  <2>1. there # {}
    BY <1>2, <1>4
  <2>2. believes(r, after(m, h), v, n) <=>
          \E k \in here : r[k].kind = "attach" /\ \A i \in here : i <= k
    BY <1>4 DEF believes, here
  <2>3. believes(q, m, v, n + 1) <=>
          \E k \in there : q[k].kind = "attach" /\ \A i \in there : i <= k
    BY <2>1 DEF believes, there
  <2>4. ASSUME NEW k \in here, r[k].kind = "attach", \A i \in here : i <= k
        PROVE  \E l \in there : q[l].kind = "attach" /\ \A i \in there : i <= l
    <3>1. k + 1 \in there /\ q[k + 1].kind = "attach"
      BY <1>2, <2>4
    <3>2. \A i \in there : i <= k + 1
      <4> TAKE i \in there
      <4>1. i \in Nat /\ k \in Nat /\ (i # 1 => i - 1 <= k)
        BY <1>2, <2>4
      <4> QED
        BY <4>1
    <3> QED
      BY <3>1, <3>2
  <2>5. ASSUME NEW k \in there, q[k].kind = "attach", \A i \in there : i <= k
        PROVE  \E l \in here : r[l].kind = "attach" /\ \A i \in here : i <= l
    <3>1. PICK x \in here : TRUE
      BY <1>4
    <3>2. k # 1
      <4>1. x + 1 <= k /\ x >= 1 /\ x \in Nat
        BY <1>2, <2>5, <3>1
      <4> QED
        BY <4>1
    <3>3. k - 1 \in here /\ r[k - 1].kind = "attach"
      BY <1>2, <2>5, <3>2
    <3>4. \A i \in here : i <= k - 1
      BY <1>2, <2>5
    <3> QED
      BY <3>3, <3>4
  <2> QED
    BY <2>2, <2>3, <2>4, <2>5 DEF h, r
<1> QED
  BY <1>3, <1>4

(***************************************************************************)
(* The steps.                                                              *)
(***************************************************************************)
\* The subscriptions that must agree with the watcher.
Faithful == Subscribers \ (dropped \cup OnlyAttach)

\* ViewFollows and EventsAlternate, event by event.
Agrees(s) ==
  /\ \A v \in Volumes : believes(inbox[s], seen[s], v, Len(inbox[s])) <=> attached(v)
  /\ \A i \in 1..Len(inbox[s]) :
       (inbox[s][i].kind = "attach") <=> ~believes(inbox[s], seen[s], inbox[s][i].vol, i - 1)

WatcherInv == WatcherTypeOK /\ \A s \in Faithful : Agrees(s)

\* A step that publishes nothing attaches nothing and detaches nothing...
Quiet ==
  /\ UNCHANGED <<inbox, seen, dropped>>
  /\ \A v \in Volumes : attached(v)' <=> attached(v)

\* ...and one that does tells everyone who has room.
Tells(e) ==
  /\ Publish(e) /\ UNCHANGED seen
  /\ attached(e.vol)' <=> e.kind = "attach"
  /\ attached(e.vol) <=> e.kind # "attach"
  /\ \A v \in Volumes \ {e.vol} : attached(v)' <=> attached(v)

\* Every step of the watcher and of the world is one or the other.
LEMMA QuietOrTells ==
  ASSUME WatcherTypeOK, Poll \/ World
  PROVE  Quiet \/ \E e \in Events : Tells(e)
<1>1. CASE List
  <2>1. ASSUME NEW v \in Volumes PROVE attached(v)' <=> attached(v)
    <3>1. tracked[v] # None => /\ older(tracked[v]) \in Tracked
                               /\ older(tracked[v]).attached = tracked[v].attached
      BY TimesAssumption DEF older, Tracked, Oldest, WatcherTypeOK
    <3>2. tracked'[v] = older(tracked[v])
      BY <1>1 DEF List
    <3> QED
      BY <3>1, <3>2, TrackedAssumption DEF attached, older
  <2> QED
    BY <1>1, <2>1 DEF List, Quiet
<1>2. CASE EndPoll
  BY <1>2 DEF EndPoll, Quiet, attached
<1>3. ASSUME NEW v \in Volumes, BecomeCandidate(v) PROVE Quiet
  <2>1. \A w \in Volumes : tracked'[w] =
          IF w = v THEN [age |-> 0, attached |-> FALSE, slot |-> None] ELSE tracked[w]
    BY <1>3 DEF BecomeCandidate, WatcherTypeOK
  <2> QED
    BY <1>3, <2>1 DEF BecomeCandidate, Quiet, attached
<1>4. ASSUME NEW v \in Volumes, NotYet(v) PROVE Quiet
  BY <1>4 DEF NotYet, Quiet, attached
<1>5. ASSUME NEW v \in Volumes, Attach(v) PROVE \E e \in Events : Tells(e)
  <2>1. PICK slot \in SlotKeys \cup {None} :
          /\ tracked' = [tracked EXCEPT ![v].attached = TRUE, ![v].slot = slot]
          /\ Publish([kind |-> "attach", vol |-> v, slot |-> slot])
    BY <1>5 DEF Attach, SlotKeys
  <2> DEFINE e == [kind |-> "attach", vol |-> v, slot |-> slot]
             t == [tracked[v] EXCEPT !.attached = TRUE, !.slot = slot]
  <2>2. e \in Events /\ e.kind = "attach" /\ e.vol = v /\ Publish(e)
    BY <2>1 DEF Events
  <2>3. tracked[v] \in Tracked /\ ~attached(v)
    BY <1>5 DEF Attach, ready, settled, attached, WatcherTypeOK
  <2>4. t \in Tracked /\ t.attached
    BY <2>3 DEF Tracked
  <2>5. \A w \in Volumes : tracked'[w] = IF w = v THEN t ELSE tracked[w]
    BY <2>1 DEF WatcherTypeOK
  <2> HIDE DEF e, t
  <2>6. /\ ~attached(v) /\ attached(v)'
        /\ \A w \in Volumes \ {v} : attached(w)' <=> attached(w)
    BY <2>3, <2>4, <2>5, TrackedAssumption DEF attached
  <2>7. UNCHANGED seen
    BY <1>5 DEF Attach
  <2>8. Tells(e)
    BY <2>2, <2>6, <2>7 DEF Tells
  <2> QED
    BY <2>2, <2>8
<1>6. ASSUME NEW v \in Volumes, Forget(v) PROVE Quiet \/ \E e \in Events : Tells(e)
  <2>1. \A w \in Volumes : tracked'[w] = IF w = v THEN None ELSE tracked[w]
    BY <1>6 DEF Forget, WatcherTypeOK
  <2>2. CASE ~tracked[v].attached
    BY <1>6, <2>1, <2>2 DEF Forget, Quiet, attached
  <2>3. CASE tracked[v].attached
    <3>1. PICK e \in Events : e = [kind |-> "detach", vol |-> v, slot |-> tracked[v].slot]
      BY <1>6 DEF Forget, departed, Events, Tracked, WatcherTypeOK
    <3>2. Publish(e) /\ UNCHANGED seen /\ tracked[v] # None /\ e.kind = "detach" /\ e.vol = v
      BY <1>6, <2>3, <3>1 DEF Forget, departed
    <3>3. /\ ~attached(v)' /\ attached(v)
          /\ \A w \in Volumes \ {v} : attached(w)' <=> attached(w)
      BY <2>1, <2>3, <3>2 DEF attached
    <3>4. Tells(e)
      BY <3>2, <3>3 DEF Tells
    <3> QED
      BY <3>1, <3>4
  <2> QED
    BY <2>2, <2>3
<1>7. CASE SetPaused
  BY <1>7 DEF SetPaused, Quiet, attached
<1>8. ASSUME NEW v \in Volumes, Plug(v) PROVE Quiet
  BY <1>8 DEF Plug, Quiet, attached
<1>9. ASSUME NEW v \in Volumes, Pull(v) PROVE Quiet
  BY <1>9 DEF Pull, Quiet, attached
<1> QED
  BY <1>1, <1>2, <1>3, <1>4, <1>5, <1>6, <1>7, <1>8, <1>9 DEF Poll, World, LookAt

\* Telling keeps subscriptions that are told in agreement.
LEMMA TellsKeeps ==
  ASSUME WatcherInv, NEW e \in Events, Tells(e), NEW s \in Faithful'
  PROVE  Agrees(s)'
<1>1. /\ s \in Faithful /\ s \in Subscribers /\ inbox[s] \in Seq(Events) /\ Len(inbox[s]) \in Nat
      /\ inbox'[s] = Append(inbox[s], e) /\ seen'[s] = seen[s]
  <2>1. s \in Subscribers /\ s \notin dropped' /\ s \notin OnlyAttach
    BY DEF Faithful
  <2>2. inbox[s] \in Seq(Events) /\ Len(inbox[s]) <= BusCap /\ Len(inbox[s]) \in Nat
    BY <2>1 DEF WatcherInv, WatcherTypeOK
  <2>3. wants(s, e) /\ Len(inbox[s]) # BusCap /\ s \notin dropped
    BY <2>1 DEF Tells, Publish, wants
  <2>4. Len(inbox[s]) < BusCap
    BY <2>2, <2>3, BusCapAssumption
  <2> QED
    BY <2>1, <2>2, <2>3, <2>4 DEF Tells, Publish, Faithful
<1> DEFINE q == inbox[s]
           p == inbox'[s]
           m == seen[s]
           N == Len(inbox[s])
<1>2. /\ p = Append(q, e) /\ q \in Seq(Events) /\ N = Len(q) /\ N \in Nat
      /\ Len(p) = N + 1 /\ p[N + 1] = e /\ \A i \in 1..N : p[i] = q[i]
  BY <1>1
<1>3. Agrees(s) /\ e.vol \in Volumes
  BY <1>1 DEF WatcherInv, Events
<1>4. /\ \A v \in Volumes : believes(q, m, v, N) <=> attached(v)
      /\ \A i \in 1..N : (q[i].kind = "attach") <=> ~believes(q, m, q[i].vol, i - 1)
  BY <1>3 DEF Agrees
<1> HIDE DEF q, p, m, N
<1>5. ASSUME NEW v \in Volumes PROVE believes(p, m, v, N + 1) <=> attached(v)'
  <2>1. believes(p, m, v, N + 1) <=> IF e.vol = v THEN e.kind = "attach" ELSE believes(q, m, v, N)
    BY <1>2, OneMore
  <2> QED
    BY <1>4, <2>1 DEF Tells
<1>6. ASSUME NEW i \in 1..N + 1 PROVE (p[i].kind = "attach") <=> ~believes(p, m, p[i].vol, i - 1)
  <2>1. i - 1 \in 0..N
    BY <1>2
  <2>2. believes(p, m, p[i].vol, i - 1) <=> believes(q, m, p[i].vol, i - 1)
    BY <1>2, <2>1, OneMore
  <2>3. CASE i = N + 1
    <3>1. p[i] = e /\ i - 1 = N
      BY <1>2, <2>3
    <3> QED
      BY <1>3, <1>4, <2>2, <3>1 DEF Tells
  <2>4. CASE i # N + 1
    <3>1. i \in 1..N /\ p[i] = q[i]
      BY <1>2, <2>4
    <3> QED
      BY <1>4, <2>2, <3>1
  <2> QED
    BY <2>3, <2>4
<1> QED
  BY <1>1, <1>2, <1>5, <1>6 DEF Agrees, p, m

\* So does taking an event.
LEMMA TakeKeeps ==
  ASSUME WatcherInv, NEW r \in Subscribers, Take(r), NEW s \in Faithful'
  PROVE  Agrees(s)'
<1>1. s \in Faithful /\ s \in Subscribers /\ \A v \in Volumes : attached(v)' <=> attached(v)
  BY DEF Faithful, Take, attached
<1>2. Agrees(s)
  BY <1>1 DEF WatcherInv
<1>3. CASE s # r
  <2>1. inbox'[s] = inbox[s] /\ seen'[s] = seen[s]
    BY <1>1, <1>3 DEF Take, WatcherInv, WatcherTypeOK
  <2> QED
    BY <1>1, <1>2, <2>1 DEF Agrees
<1>4. CASE s = r
  <2> DEFINE q == inbox[s]
             p == inbox'[s]
             m == seen[s]
             N == Len(inbox[s])
  <2>1. q \in Seq(Events) /\ q # <<>> /\ p = Tail(q) /\ seen'[s] = after(m, Head(q)) /\ N = Len(q)
    BY <1>1, <1>4 DEF Take, after, WatcherInv, WatcherTypeOK
  <2>2. /\ \A v \in Volumes : believes(q, m, v, N) <=> attached(v)
        /\ \A i \in 1..N : (q[i].kind = "attach") <=> ~believes(q, m, q[i].vol, i - 1)
    BY <1>2 DEF Agrees
  <2> HIDE DEF q, p, m, N
  <2>3. /\ N \in Nat /\ N > 0 /\ Len(p) = N - 1 /\ N - 1 \in 0..Len(q) - 1
        /\ \A i \in 1..N - 1 : p[i] = q[i + 1] /\ i + 1 \in 1..N /\ i - 1 \in 0..Len(q) - 1 /\ (i - 1) + 1 = i
    BY <2>1
  <2>4. \A v \in Volumes : believes(p, seen'[s], v, N - 1) <=> attached(v)'
    <3> TAKE v \in Volumes
    <3>1. believes(p, seen'[s], v, N - 1) <=> believes(q, m, v, (N - 1) + 1)
      <4>1. believes(Tail(q), after(m, Head(q)), v, N - 1) <=> believes(q, m, v, (N - 1) + 1)
        BY <2>1, <2>3, OneLess
      <4> QED
        BY <2>1, <4>1
    <3>2. (N - 1) + 1 = N
      BY <2>3
    <3> QED
      BY <1>1, <2>2, <3>1, <3>2
  <2>5. ASSUME NEW i \in 1..N - 1
        PROVE  (p[i].kind = "attach") <=> ~believes(p, seen'[s], p[i].vol, i - 1)
    <3>1. believes(p, seen'[s], p[i].vol, i - 1) <=> believes(q, m, p[i].vol, (i - 1) + 1)
      <4>1. believes(Tail(q), after(m, Head(q)), p[i].vol, i - 1)
              <=> believes(q, m, p[i].vol, (i - 1) + 1)
        BY <2>1, <2>3, OneLess
      <4> QED
        BY <2>1, <4>1
    <3>2. p[i] = q[i + 1] /\ i + 1 \in 1..N /\ (i - 1) + 1 = (i + 1) - 1
      BY <2>3
    <3> QED
      BY <2>2, <3>1, <3>2
  <2> QED
    BY <2>3, <2>4, <2>5 DEF Agrees, p
<1> QED
  BY <1>3, <1>4

(***************************************************************************)
(* The theorems.                                                           *)
(***************************************************************************)
\* Subscriptions that lost nothing agree with the watcher in every state.
THEOREM WatcherInductive == WatcherSpec => []WatcherInv
<1>1. WatcherInit => WatcherInv
  <2> SUFFICES ASSUME WatcherInit PROVE WatcherInv
    OBVIOUS
  <2>1. ASSUME NEW s \in Subscribers PROVE Agrees(s)
    <3>1. inbox[s] = <<>> /\ seen[s] = {} /\ Len(inbox[s]) = 0
      BY DEF WatcherInit
    <3>2. \A v \in Volumes : ~attached(v)
      BY DEF WatcherInit, attached
    <3> QED
      BY <3>1, <3>2 DEF Agrees, believes
  <2> QED
    BY <2>1, WatcherInitTypes DEF WatcherInv, Faithful
<1>2. WatcherInv /\ [WatcherNext]_watcherVars => WatcherInv'
  <2> SUFFICES ASSUME WatcherInv, [WatcherNext]_watcherVars PROVE WatcherInv'
    OBVIOUS
  <2>1. CASE Poll \/ World
    <3>1. WatcherTypeOK'
      BY <2>1, WatcherTypeStep DEF WatcherInv
    <3>2. ASSUME Quiet, NEW s \in Faithful' PROVE Agrees(s)'
      <4>1. s \in Faithful /\ inbox' = inbox /\ seen' = seen /\ \A v \in Volumes : attached(v)' <=> attached(v)
        BY <3>2 DEF Quiet, Faithful
      <4> QED
        BY <4>1 DEF WatcherInv, Agrees
    <3> QED
      BY <2>1, <3>1, <3>2, QuietOrTells, TellsKeeps DEF WatcherInv
  <2>2. ASSUME NEW r \in Subscribers, Take(r) PROVE WatcherInv'
    BY <2>2, TakeType, TakeKeeps DEF WatcherInv
  <2>3. CASE UNCHANGED watcherVars
    BY <2>3 DEF watcherVars, WatcherInv, WatcherTypeOK, Agrees, attached, Faithful
  <2> QED
    BY <2>1, <2>2, <2>3 DEF WatcherNext
<1> QED
  BY <1>1, <1>2, PTL DEF WatcherSpec

\* What a subscription believes at the end of its buffer is what is attached.
THEOREM ViewIsKept == WatcherSpec => []ViewFollows
<1>1. WatcherInv => ViewFollows
  <2> SUFFICES ASSUME WatcherInv, NEW s \in Faithful, NEW v \in Volumes
               PROVE  will(s, v) <=> attached(v)
    BY DEF ViewFollows, Faithful
  <2>1. believes(inbox[s], seen[s], v, Len(inbox[s])) <=> attached(v)
    BY DEF WatcherInv, Agrees
  <2>2. DOMAIN inbox[s] = 1..Len(inbox[s])
    BY DEF WatcherInv, WatcherTypeOK, Faithful
  <2> QED
    BY <2>1, <2>2 DEF believes, will
<1> QED
  BY <1>1, WatcherInductive, PTL

\* Attach and detach alternate.
THEOREM AttachAlternates == WatcherSpec => []EventsAlternate
<1>1. WatcherInv => EventsAlternate
  <2> SUFFICES ASSUME WatcherInv, NEW s \in Faithful, NEW i \in DOMAIN inbox[s]
               PROVE  LET e == inbox[s][i]
                          before == {k \in 1..(i - 1) : inbox[s][k].vol = e.vol}
                          was == IF before = {} THEN e.vol \in seen[s]
                                 ELSE \E k \in before : /\ inbox[s][k].kind = "attach"
                                                        /\ \A n \in before : n <= k
                      IN (e.kind = "attach") <=> ~was
    BY DEF EventsAlternate, Faithful
  <2>1. i \in 1..Len(inbox[s])
    BY DEF WatcherInv, WatcherTypeOK, Faithful
  <2>2. (inbox[s][i].kind = "attach") <=> ~believes(inbox[s], seen[s], inbox[s][i].vol, i - 1)
    BY <2>1 DEF WatcherInv, Agrees
  <2> QED
    BY <2>2 DEF believes
<1> QED
  BY <1>1, WatcherInductive, PTL
=============================================================================
