---------------------------- MODULE SlotsProofs ----------------------------
(* Theorems about Slots, for any volumes, readers, names and bounds.       *)
EXTENDS Slots, WatcherProofs, WellFoundedInduction, TLAPS

(***************************************************************************)
(* The inductive invariant.                                                *)
(***************************************************************************)
\* Rows have ids of their own, and ids have a bound.
RowsInv ==
  /\ \A k \in SlotKeys : slots[k] # None => slots[k].id # 0
  /\ \A k, l \in SlotKeys :
       slots[k] # None /\ slots[l] # None /\ slots[k].id = slots[l].id => k = l
  /\ \E b \in Nat : \A k \in SlotKeys : slots[k] # None => slots[k].id <= b

\* What the manager carries from one statement of an event to the next. Its
\* name is not in the log, and if it is a "Leitor N", N is the entry it makes.
MgrInv == mgr # None =>
  /\ mgr.pc \in {"find", "pick", "upsert", "append"} => mgr.key \in SlotKeys
  /\ mgr.pc \in {"upsert", "append"} =>
       /\ mgr.name \in Names
       /\ \A m \in DOMAIN Leitor : mgr.name = Leitor[m] => m = Len(log) + 1
  /\ mgr.pc = "upsert" => \A n \in DOMAIN log : log[n].alias # mgr.name
  /\ mgr.id # 0 /\ ~mgr.raced =>
       mgr.key \in SlotKeys /\ slots[mgr.key] # None /\ slots[mgr.key].id = mgr.id

\* A "Leitor N" of the log is its Nth entry.
LogInv == \A n \in DOMAIN log, m \in DOMAIN Leitor : log[n].alias = Leitor[m] => m = n

Logged(entry) ==
  \/ entry \in unlogged
  \/ \E n \in DOMAIN log : log[n] = entry
  \/ mgr # None /\ mgr.pc = "append" /\ entry = [alias |-> mgr.name, key |-> mgr.key]

\* Every name given is in the log, or is known not to be.
GivenInv == \A i \in DOMAIN given : Logged(given[i])

\* Every automatic label is.
LabelsInv ==
  \A k \in SlotKeys : slots[k] # None /\ slots[k].by = "auto" =>
    Logged([alias |-> slots[k].alias, key |-> k])

\* A job that was not raced has its slot.
JobsInv ==
  /\ \A j \in jobs : j.id # 0 /\ ~j.raced =>
       j.key \in SlotKeys /\ slots[j.key] # None /\ slots[j.key].id = j.id
  /\ \A r \in refused : r.raced

IInv == /\ TypeOK /\ RowsInv /\ MgrInv /\ LogInv /\ GivenInv /\ LabelsInv /\ JobsInv
        /\ ReuseOnlyIfUnlogged

\* What the steps that name no slot leave alone.
core == <<slots, log, jobs, mgr, given, unlogged, refused>>

(***************************************************************************)
(* The least and the greatest member of a set, ids and names.              *)
(***************************************************************************)
\* A set of numbers has a least member.
LEMMA HasLeast ==
  ASSUME NEW T \in SUBSET Nat, T # {}
  PROVE  \E x \in T : \A y \in T : x <= y
<1> DEFINE R == {ss \in Nat \X Nat : ss[1] < ss[2]}
<1>1. IsWellFoundedOn(R, Nat)
  BY NatLessThanWellFounded DEF OpToRel
<1>2. \A x, y \in Nat : <<y, x>> \in R <=> y < x
  OBVIOUS
<1> HIDE DEF R
<1>3. PICK x \in T : \A y \in T : ~ (<<y, x>> \in R)
  BY <1>1, WFMin
<1>4. \A y \in T : ~ (y < x)
  BY <1>2, <1>3
<1>5. \A y \in T : x <= y
  BY <1>4
<1> QED
  BY <1>5

\* A set of numbers with a bound has a greatest member.
LEMMA HasGreatest ==
  ASSUME NEW T \in SUBSET Nat, T # {}, NEW b \in Nat, \A x \in T : x <= b
  PROVE  \E x \in T : \A y \in T : y <= x
<1> DEFINE U == {b - x : x \in T}
<1>1. U \in SUBSET Nat
  <2>1. \A x \in T : b - x \in Nat
    OBVIOUS
  <2> QED
    BY <2>1
<1>2. U # {}
  OBVIOUS
<1> HIDE DEF U
<1>3. PICK u \in U : \A y \in U : u <= y
  BY <1>1, <1>2, HasLeast
<1> USE DEF U
<1>4. PICK x \in T : u = b - x
  OBVIOUS
<1>5. \A y \in T : u <= b - y
  BY <1>3
<1>6. \A y \in T : y <= x
  BY <1>4, <1>5
<1> QED
  BY <1>6

\* The id of a new row is no row's, and not 0.
LEMMA NewIdIsNew ==
  ASSUME TypeOK, RowsInv
  PROVE  /\ newId \in Nat /\ newId # 0
         /\ \A i \in rowIds : i \in Nat /\ i < newId
<1>1. rowIds \in SUBSET Nat
  BY DEF rowIds, TypeOK, SlotsTypeOK, Rows
<1>2. PICK b \in Nat : \A i \in rowIds : i <= b
  BY DEF rowIds, RowsInv
<1>3. CASE rowIds = {}
  BY <1>3 DEF newId
<1>4. CASE rowIds # {}
  <2>1. \E i \in rowIds : \A j \in rowIds : j <= i
    BY <1>1, <1>2, <1>4, HasGreatest
  <2> DEFINE g == CHOOSE i \in rowIds : \A j \in rowIds : j <= i
  <2>2. g \in rowIds /\ \A j \in rowIds : j <= g
    BY <2>1
  <2>3. newId = 1 + g
    BY <1>4 DEF newId
  <2> HIDE DEF g
  <2> QED
    BY <1>1, <2>2, <2>3
<1> QED
  BY <1>3, <1>4

\* Writing a row keeps its id, or takes one that no other row has.
LEMMA UpsertedRow ==
  ASSUME TypeOK, RowsInv, NEW k \in SlotKeys, NEW name \in Names, NEW by \in {"auto", "user"},
         NEW row, row = upserted(k, name, by)
  PROVE  /\ row \in Rows /\ row # None /\ row.alias = name /\ row.by = by /\ row.id # 0
         /\ slots[k] # None => row.id = slots[k].id
         /\ slots[k] = None => \A l \in SlotKeys : slots[l] # None => slots[l].id < row.id
<1> DEFINE id == IF slots[k] = None THEN newId ELSE slots[k].id
<1>1. row = [id |-> id, alias |-> name, by |-> by]
  BY DEF upserted
<1>2. id \in Nat /\ id # 0
  BY NewIdIsNew DEF TypeOK, SlotsTypeOK, Rows, RowsInv
<1>3. slots[k] = None => \A l \in SlotKeys : slots[l] # None => slots[l].id < id
  BY NewIdIsNew DEF rowIds
<1>4. slots[k] # None => id = slots[k].id
  OBVIOUS
<1> HIDE DEF id
<1>5. row \in Rows /\ row.alias = name /\ row.by = by /\ row.id = id
  BY <1>1, <1>2 DEF Rows
<1> QED
  BY <1>2, <1>3, <1>4, <1>5, NoneAssumption

\* The next name is a name that is not in the log; a "Leitor N" is the log's
\* next entry.
LEMMA NextNameIsNew ==
  ASSUME TypeOK, LogInv, Len(log) < Len(Leitor)
  PROVE  /\ nextSlotName \in Names
         /\ \A n \in DOMAIN log : log[n].alias # nextSlotName
         /\ \A m \in DOMAIN Leitor : nextSlotName = Leitor[m] => m = Len(log) + 1
<1> DEFINE inUse == {log[i].alias : i \in DOMAIN log}
                    \cup {slots[k].alias : k \in {k \in SlotKeys : slots[k] # None}}
           free == {i \in DOMAIN Pool : Pool[i] \notin inUse}
<1>1. CASE free # {}
  <2>1. free \in SUBSET Nat
    BY PoolAssumption
  <2>2. \E i \in free : \A j \in free : i <= j
    BY <1>1, <2>1, HasLeast
  <2> DEFINE f == CHOOSE i \in free : \A j \in free : i <= j
  <2>3. f \in free
    BY <2>2
  <2>4. nextSlotName = Pool[f]
    BY <1>1 DEF nextSlotName
  <2>5. f \in DOMAIN Pool /\ Pool[f] \notin inUse
    BY <2>3
  <2> HIDE DEF f, free
  <2> QED
    BY <2>4, <2>5, PoolAssumption DEF Names
<1>2. CASE free = {}
  <2> DEFINE n == Len(log) + 1
  <2>1. log \in Seq(Entries) /\ Leitor \in Seq(STRING)
    BY PoolAssumption DEF TypeOK, SlotsTypeOK
  <2>2. n \in DOMAIN Leitor /\ n \notin DOMAIN log
    BY <2>1
  <2>3. nextSlotName = Leitor[n]
    BY <1>2 DEF nextSlotName
  <2> HIDE DEF n, inUse
  <2>4. \A m \in DOMAIN Leitor : nextSlotName = Leitor[m] => m = n
    BY <2>2, <2>3, PoolAssumption
  <2>5. \A i \in DOMAIN log : log[i].alias # nextSlotName
    BY <2>2, <2>3 DEF LogInv
  <2> QED
    BY <2>2, <2>3, <2>4, <2>5 DEF n, Names
<1> QED
  BY <1>1, <1>2

(***************************************************************************)
(* Types.                                                                  *)
(***************************************************************************)
\* The initial state has its types.
LEMMA InitTypes == Init => TypeOK
<1> SUFFICES ASSUME Init PROVE TypeOK
  OBVIOUS
<1>1. WatcherTypeOK
  BY WatcherInitTypes DEF Init
<1>2. SlotsTypeOK
  BY ReadersAssumption, SlotBoundsAssumption DEF Init, SlotsTypeOK
<1> QED
  BY <1>1, <1>2 DEF TypeOK

\* A statement of an event is one of the manager's.
LEMMA HandlingType ==
  ASSUME NEW v \in Volumes \cup {None}, NEW k \in SlotKeys \cup {None},
         NEW pc \in {"find", "pick", "upsert", "append", "create"}
  PROVE  LET h == handling(pc, v, k) IN
           h \in Handling /\ h # None /\ h.pc = pc /\ h.vol = v /\ h.key = k /\ h.id = 0 /\ ~h.raced
<1> DEFINE h == handling(pc, v, k)
<1>1. h = [pc |-> pc, vol |-> v, key |-> k, name |-> None, id |-> 0, raced |-> FALSE]
  BY DEF handling
<1> HIDE DEF h
<1>2. h \in Handling
  BY <1>1 DEF Handling
<1>3. h.pc = pc /\ h.vol = v /\ h.key = k /\ h.id = 0 /\ ~h.raced
  BY <1>1
<1> QED
  BY <1>2, <1>3, NoneAssumption DEF h

\* Going on with an event keeps the rest of it.
LEMMA HandlingSet ==
  ASSUME NEW h \in Handling, NEW pc \in {"find", "pick", "upsert", "append", "create"},
         NEW name \in Names, NEW id \in Nat
  PROVE  LET g == [h EXCEPT !.pc = pc]
             a == [h EXCEPT !.pc = pc, !.name = name]
             i == [h EXCEPT !.pc = pc, !.id = id]
             r == [h EXCEPT !.raced = TRUE]
         IN /\ {g, a, i, r} \subseteq Handling /\ None \notin {g, a, i, r}
            /\ \A x \in {g, a, i} : x.pc = pc /\ x.vol = h.vol /\ x.key = h.key /\ x.raced = h.raced
            /\ g.name = h.name /\ g.id = h.id
            /\ a.name = name /\ a.id = h.id
            /\ i.name = h.name /\ i.id = id
            /\ r.pc = h.pc /\ r.key = h.key /\ r.name = h.name /\ r.id = h.id /\ r.raced
<1> DEFINE g == [h EXCEPT !.pc = pc]
           a == [h EXCEPT !.pc = pc, !.name = name]
           i == [h EXCEPT !.pc = pc, !.id = id]
           r == [h EXCEPT !.raced = TRUE]
<1>1. g \in Handling /\ a \in Handling /\ i \in Handling /\ r \in Handling
  <2>1. g \in Handling
    BY DEF Handling
  <2>2. a \in Handling
    BY DEF Handling
  <2>3. i \in Handling
    BY DEF Handling
  <2>4. r \in Handling
    BY DEF Handling
  <2> QED
    BY <2>1, <2>2, <2>3, <2>4
<1>2. g.pc = pc /\ g.vol = h.vol /\ g.key = h.key /\ g.raced = h.raced /\ g.name = h.name /\ g.id = h.id
  BY DEF Handling
<1>3. a.pc = pc /\ a.vol = h.vol /\ a.key = h.key /\ a.raced = h.raced /\ a.name = name /\ a.id = h.id
  BY DEF Handling
<1>4. i.pc = pc /\ i.vol = h.vol /\ i.key = h.key /\ i.raced = h.raced /\ i.name = h.name /\ i.id = id
  BY DEF Handling
<1>5. r.pc = h.pc /\ r.key = h.key /\ r.name = h.name /\ r.id = h.id /\ r.raced
  BY DEF Handling
<1> HIDE DEF g, a, i, r
<1>6. /\ {g, a, i, r} \subseteq Handling /\ None \notin {g, a, i, r}
      /\ \A x \in {g, a, i} : x.pc = pc /\ x.vol = h.vol /\ x.key = h.key /\ x.raced = h.raced
  BY <1>1, <1>2, <1>3, <1>4, NoneAssumption
<1> QED
  BY <1>2, <1>3, <1>4, <1>5, <1>6 DEF g, a, i, r

\* Every step keeps the types.
LEMMA TypeStep ==
  ASSUME TypeOK, RowsInv, MgrInv, LogInv, [Next]_vars
  PROVE  TypeOK'
<1> USE DEF TypeOK
<1>1. CASE running /\ (Poll \/ World) /\ UNCHANGED slotVars
  BY <1>1, WatcherTypeStep DEF slotVars, SlotsTypeOK
<1>2. CASE DiscoverReader
  <2>1. WatcherTypeOK'
    BY <1>2 DEF DiscoverReader, watcherVars, WatcherTypeOK
  <2>2. mgr' \in Handling \cup {None} /\ readers' \in (SUBSET SlotKeys) \cup {None}
    <3>1. CASE readers' = None /\ UNCHANGED mgr
      BY <3>1 DEF SlotsTypeOK
    <3>2. ASSUME NEW k \in readers, readers' = readers \ {k}, mgr' = handling("find", None, k), readers # None
          PROVE  mgr' \in Handling \cup {None} /\ readers' \in (SUBSET SlotKeys) \cup {None}
      <4>1. readers \in SUBSET SlotKeys
        BY <3>2 DEF SlotsTypeOK
      <4> QED
        BY <3>2, <4>1, HandlingType
    <3> QED
      BY <1>2, <3>1, <3>2 DEF DiscoverReader
  <2> QED
    BY <1>2, <2>1, <2>2 DEF DiscoverReader, SlotsTypeOK
<1>3. CASE HandleEvent
  <2>1. WatcherTypeOK' /\ Head(inbox[TheManager]) \in Events
    BY <1>3, TakeType, SubscribersAssumption DEF HandleEvent
  <2> DEFINE e == Head(inbox[TheManager])
  <2>2. e.vol \in Volumes /\ e.slot \in SlotKeys \cup {None}
    BY <2>1 DEF Events
  <2>3. mgr' \in Handling \cup {None}
    BY <1>3, <2>2, HandlingType DEF HandleEvent
  <2> QED
    BY <1>3, <2>1, <2>3 DEF HandleEvent, SlotsTypeOK
<1>4. CASE FindByKey
  <2>1. mgr' \in Handling \cup {None}
    <3>1. mgr \in Handling /\ mgr.key \in SlotKeys
      BY <1>4 DEF FindByKey, SlotsTypeOK, MgrInv
    <3>2. slots[mgr.key] # None => slots[mgr.key].id \in Nat
      BY <3>1 DEF SlotsTypeOK, Rows
    <3> QED
      BY <1>4, <3>1, <3>2 DEF FindByKey, Handling
  <2> QED
    BY <1>4, <2>1 DEF FindByKey, watcherVars, WatcherTypeOK, SlotsTypeOK
<1>5. CASE PickName
  <2>1. mgr' \in Handling \cup {None}
    <3>1. mgr \in Handling
      BY <1>5 DEF PickName, SlotsTypeOK
    <3>2. CASE Len(log) < Len(Leitor) /\ mgr' = [mgr EXCEPT !.pc = "upsert", !.name = nextSlotName]
      BY <3>1, <3>2, NextNameIsNew DEF Handling
    <3>3. CASE mgr' = [mgr EXCEPT !.pc = "create"]
      BY <3>1, <3>3 DEF Handling
    <3> QED
      BY <1>5, <3>2, <3>3 DEF PickName
  <2> QED
    BY <1>5, <2>1 DEF PickName, watcherVars, WatcherTypeOK, SlotsTypeOK
<1>6. CASE UpsertName
  <2> DEFINE row == upserted(mgr.key, mgr.name, "auto")
  <2>1. mgr \in Handling /\ mgr.key \in SlotKeys /\ mgr.name \in Names
    BY <1>6 DEF UpsertName, SlotsTypeOK, MgrInv
  <2>2. row \in Rows
    BY <2>1, UpsertedRow
  <2>3. slots' \in [SlotKeys -> Rows \cup {None}]
    BY <1>6, <2>2 DEF UpsertName, SlotsTypeOK
  <2>4. row.id \in Nat
    BY <2>2 DEF Rows
  <2>5. mgr' = [mgr EXCEPT !.pc = "append", !.id = row.id]
    BY <1>6 DEF UpsertName
  <2> HIDE DEF row
  <2>6. mgr' \in Handling
    BY <2>1, <2>4, <2>5 DEF Handling
  <2>7. [alias |-> mgr.name, key |-> mgr.key] \in Entries
    BY <2>1 DEF Entries
  <2>8. given' \in Seq(Entries)
    BY <1>6, <2>7 DEF UpsertName, SlotsTypeOK
  <2> QED
    BY <1>6, <2>3, <2>6, <2>8 DEF UpsertName, watcherVars, WatcherTypeOK, SlotsTypeOK
<1>7. CASE AppendLog
  <2>1. mgr \in Handling /\ mgr.key \in SlotKeys /\ mgr.name \in Names
    BY <1>7 DEF AppendLog, SlotsTypeOK, MgrInv
  <2>2. mgr' \in Handling
    BY <1>7, <2>1 DEF AppendLog, Handling
  <2>3. [alias |-> mgr.name, key |-> mgr.key] \in Entries
    BY <2>1 DEF Entries
  <2>4. log' \in Seq(Entries) /\ unlogged' \subseteq Entries
    <3> DEFINE entry == [alias |-> mgr.name, key |-> mgr.key]
    <3>1. \/ log' = Append(log, entry) /\ UNCHANGED unlogged
          \/ unlogged' = unlogged \cup {entry} /\ UNCHANGED log
      BY <1>7 DEF AppendLog
    <3> HIDE DEF entry
    <3>2. entry \in Entries
      BY <2>3 DEF entry
    <3> QED
      <4>1. log \in Seq(Entries) /\ unlogged \subseteq Entries
        BY DEF SlotsTypeOK
      <4> QED
        BY <3>1, <3>2, <4>1
  <2> QED
    BY <1>7, <2>2, <2>4 DEF AppendLog, watcherVars, WatcherTypeOK, SlotsTypeOK
<1>8. CASE CreateJob
  <2>1. mgr \in Handling
    BY <1>8 DEF CreateJob, SlotsTypeOK
  <2>2. [key |-> mgr.key, id |-> mgr.id, raced |-> mgr.raced]
          \in [key : SlotKeys \cup {None}, id : Nat, raced : BOOLEAN]
    BY <2>1 DEF Handling
  <2>3. /\ jobs' \subseteq [key : SlotKeys \cup {None}, id : Nat, raced : BOOLEAN]
        /\ refused' \subseteq Handling /\ mgr' = None
    BY <1>8, <2>1, <2>2 DEF CreateJob, SlotsTypeOK
  <2> QED
    BY <1>8, <2>3 DEF CreateJob, watcherVars, WatcherTypeOK, SlotsTypeOK
<1>9. CASE handleCalibrate
  BY <1>9, SlotBoundsAssumption DEF handleCalibrate, watcherVars, WatcherTypeOK, SlotsTypeOK, Names
<1>10. CASE handleCancelCalibrate
  BY <1>10 DEF handleCancelCalibrate, watcherVars, WatcherTypeOK, SlotsTypeOK
<1>11. CASE HandleArmed
  <2>1. WatcherTypeOK' /\ Head(inbox[TheWizard]) \in Events
    BY <1>11, TakeType, SubscribersAssumption DEF HandleArmed
  <2> DEFINE e == Head(inbox[TheWizard])
  <2>2. e.slot \in SlotKeys \cup {None}
    BY <2>1 DEF Events
  <2>3. armed # None /\ e.slot # None =>
          [key |-> e.slot, alias |-> armed, written |-> FALSE]
            \in [key : SlotKeys, alias : Names, written : BOOLEAN]
    BY <2>2 DEF SlotsTypeOK
  <2>4. /\ armed' \in Names \cup {None}
        /\ cal' \in [key : SlotKeys, alias : Names, written : BOOLEAN] \cup {None}
    BY <1>11, <2>3 DEF HandleArmed, SlotsTypeOK
  <2> QED
    BY <1>11, <2>1, <2>4 DEF HandleArmed, SlotsTypeOK
<1>12. CASE Calibrate
  <2>1. cal \in [key : SlotKeys, alias : Names, written : BOOLEAN]
    BY <1>12 DEF Calibrate, SlotsTypeOK
  <2>2. upserted(cal.key, cal.alias, "user") \in Rows
    BY <2>1, UpsertedRow
  <2>3. slots' \in [SlotKeys -> Rows \cup {None}]
    BY <1>12, <2>2 DEF Calibrate, SlotsTypeOK
  <2>4. cal' \in [key : SlotKeys, alias : Names, written : BOOLEAN] \cup {None}
    BY <1>12, <2>1 DEF Calibrate
  <2> QED
    BY <1>12, <2>3, <2>4 DEF Calibrate, watcherVars, WatcherTypeOK, SlotsTypeOK
<1>13. CASE Disarm
  BY <1>13 DEF Disarm, watcherVars, WatcherTypeOK, SlotsTypeOK
<1>14. CASE Rename
  <2>1. PICK k \in SlotKeys, alias \in UserNames :
          /\ slots[k] # None
          /\ slots' = [slots EXCEPT ![k].alias = alias, ![k].by = "user"]
    BY <1>14 DEF Rename
  <2>2. slots[k] \in Rows /\ alias \in Names
    BY <2>1 DEF SlotsTypeOK, Names
  <2>3. [slots[k] EXCEPT !.alias = alias, !.by = "user"] \in Rows
    BY <2>2 DEF Rows
  <2>4. slots' \in [SlotKeys -> Rows \cup {None}]
    BY <2>1, <2>3 DEF SlotsTypeOK
  <2>5. /\ edits' \in 0..MaxEdits
        /\ UNCHANGED <<watcherVars, readers, log, jobs, mgr, armed, cal, given, unlogged, refused, arms>>
    BY <1>14, SlotBoundsAssumption DEF Rename, SlotsTypeOK
  <2> QED
    BY <2>4, <2>5 DEF watcherVars, WatcherTypeOK, SlotsTypeOK
<1>15. CASE Delete
  <2>1. slots' \in [SlotKeys -> Rows \cup {None}]
    <3>1. PICK k \in SlotKeys : slots' = [slots EXCEPT ![k] = None]
      BY <1>15 DEF Delete
    <3> QED
      BY <3>1 DEF SlotsTypeOK
  <2>2. mgr' \in Handling \cup {None}
    <3>1. mgr' = mgr \/ (mgr # None /\ mgr' = [mgr EXCEPT !.raced = TRUE])
      BY <1>15 DEF Delete
    <3>2. mgr # None => mgr \in Handling
      BY DEF SlotsTypeOK
    <3>3. mgr # None => [mgr EXCEPT !.raced = TRUE] \in Handling
      BY <3>2 DEF Handling
    <3> QED
      BY <3>1, <3>3 DEF SlotsTypeOK
  <2> QED
    BY <1>15, <2>1, <2>2, SlotBoundsAssumption DEF Delete, watcherVars, WatcherTypeOK, SlotsTypeOK
<1>16. CASE UNCHANGED vars
  BY <1>16 DEF vars, slotVars, watcherVars, WatcherTypeOK, SlotsTypeOK
<1> QED
  BY <1>1, <1>2, <1>3, <1>4, <1>5, <1>6, <1>7, <1>8, <1>9, <1>10, <1>11, <1>12, <1>13, <1>14,
     <1>15, <1>16 DEF Next, Naming

(***************************************************************************)
(* What the steps do to the rows and to the manager.                       *)
(***************************************************************************)
\* Every step leaves the rows alone, writes one that keeps its id or has a new
\* one, or deletes one that no job refers to.
Writes(k, row) ==
  /\ slots' = [slots EXCEPT ![k] = row] /\ row \in Rows /\ row # None /\ row.id # 0
  /\ slots[k] # None => row.id = slots[k].id
  /\ slots[k] = None => \A l \in SlotKeys : slots[l] # None => slots[l].id < row.id

\* UpsertName writes the row of the manager's slot and remembers its id.
LEMMA UpsertEffect ==
  ASSUME TypeOK, RowsInv, MgrInv, UpsertName
  PROVE  \E row \in Rows :
           /\ Writes(mgr.key, row) /\ row.alias = mgr.name /\ row.by = "auto"
           /\ mgr.key \in SlotKeys /\ mgr.pc = "upsert" /\ mgr # None
           /\ mgr' \in Handling /\ mgr' # None /\ mgr'.pc = "append" /\ mgr'.id = row.id
           /\ mgr'.name = mgr.name /\ mgr'.key = mgr.key /\ mgr'.raced = mgr.raced
           /\ given' = Append(given, [alias |-> mgr.name, key |-> mgr.key])
           /\ UNCHANGED <<log, jobs, unlogged, refused>>
<1> DEFINE row == upserted(mgr.key, mgr.name, "auto")
<1>1. mgr \in Handling /\ mgr.key \in SlotKeys /\ mgr.name \in Names /\ mgr # None /\ mgr.pc = "upsert"
  BY DEF UpsertName, TypeOK, SlotsTypeOK, MgrInv
<1>2. /\ row \in Rows /\ row # None /\ row.alias = mgr.name /\ row.by = "auto" /\ row.id # 0
      /\ slots[mgr.key] # None => row.id = slots[mgr.key].id
      /\ slots[mgr.key] = None => \A l \in SlotKeys : slots[l] # None => slots[l].id < row.id
  BY <1>1, UpsertedRow
<1>3. /\ slots' = [slots EXCEPT ![mgr.key] = row]
      /\ mgr' = [mgr EXCEPT !.pc = "append", !.id = row.id]
      /\ given' = Append(given, [alias |-> mgr.name, key |-> mgr.key])
      /\ UNCHANGED <<log, jobs, unlogged, refused>>
  BY DEF UpsertName
<1> HIDE DEF row
<1>4. Writes(mgr.key, row)
  BY <1>2, <1>3 DEF Writes
<1>5. row.id \in Nat
  BY <1>2 DEF Rows
<1>6. /\ mgr' \in Handling /\ mgr'.pc = "append" /\ mgr'.id = row.id
      /\ mgr'.name = mgr.name /\ mgr'.key = mgr.key /\ mgr'.raced = mgr.raced
  BY <1>1, <1>3, <1>5 DEF Handling
<1> QED
  BY <1>1, <1>2, <1>3, <1>4, <1>6, NoneAssumption

\* Calibration and renames write a row of the user's.
LEMMA UserEffect ==
  ASSUME TypeOK, RowsInv, Calibrate \/ Rename
  PROVE  /\ UNCHANGED <<mgr, log, jobs, given, unlogged, refused>>
         /\ \/ UNCHANGED slots
            \/ \E k \in SlotKeys, row \in Rows : Writes(k, row) /\ row.by = "user"
<1>1. CASE Calibrate
  <2>1. CASE UNCHANGED slots
    BY <1>1, <2>1 DEF Calibrate
  <2>2. CASE ~UNCHANGED slots
    <3> DEFINE row == upserted(cal.key, cal.alias, "user")
    <3>1. cal.key \in SlotKeys /\ cal.alias \in Names
      BY <1>1 DEF Calibrate, TypeOK, SlotsTypeOK
    <3>2. slots' = [slots EXCEPT ![cal.key] = row]
      BY <1>1, <2>2 DEF Calibrate
    <3>3. /\ row \in Rows /\ row # None /\ row.by = "user" /\ row.id # 0
          /\ slots[cal.key] # None => row.id = slots[cal.key].id
          /\ slots[cal.key] = None => \A l \in SlotKeys : slots[l] # None => slots[l].id < row.id
      BY <3>1, UpsertedRow
    <3> HIDE DEF row
    <3>4. Writes(cal.key, row)
      BY <3>2, <3>3 DEF Writes
    <3> QED
      BY <1>1, <3>1, <3>3, <3>4 DEF Calibrate
  <2> QED
    BY <2>1, <2>2
<1>2. CASE Rename
  <2>1. PICK k \in SlotKeys, alias \in UserNames :
          /\ slots[k] # None
          /\ slots' = [slots EXCEPT ![k].alias = alias, ![k].by = "user"]
    BY <1>2 DEF Rename
  <2>2. slots[k] \in Rows /\ alias \in Names
    BY <2>1 DEF TypeOK, SlotsTypeOK, Names
  <2> DEFINE row == [slots[k] EXCEPT !.alias = alias, !.by = "user"]
  <2>3. row \in Rows /\ row.id = slots[k].id /\ row.by = "user"
    BY <2>2 DEF Rows
  <2>4. slots' = [slots EXCEPT ![k] = row]
    BY <2>1 DEF TypeOK, SlotsTypeOK
  <2> HIDE DEF row
  <2>5. Writes(k, row)
    BY <2>1, <2>3, <2>4, NoneAssumption DEF Writes, RowsInv
  <2> QED
    BY <1>2, <2>3, <2>5 DEF Rename
<1> QED
  BY <1>1, <1>2

\* A deletion marks the event that has the id of the row.
LEMMA DeleteEffect ==
  ASSUME TypeOK, Delete
  PROVE  /\ UNCHANGED <<log, jobs, given, unlogged, refused>>
         /\ \E k \in SlotKeys :
              /\ slots[k] # None /\ slots' = [slots EXCEPT ![k] = None]
              /\ \A j \in jobs : j.id # slots[k].id
              /\ \/ mgr' = mgr /\ (mgr = None \/ mgr.id # slots[k].id)
                 \/ /\ mgr # None /\ mgr' # None /\ mgr'.raced
                    /\ mgr'.pc = mgr.pc /\ mgr'.key = mgr.key /\ mgr'.name = mgr.name
<1>1. PICK k \in SlotKeys :
        /\ slots[k] # None /\ ~referenced(slots[k].id)
        /\ slots' = [slots EXCEPT ![k] = None]
        /\ mgr' = IF mgr # None /\ mgr.id = slots[k].id THEN [mgr EXCEPT !.raced = TRUE] ELSE mgr
  BY DEF Delete
<1>2. CASE mgr # None /\ mgr.id = slots[k].id
  <2>1. mgr \in Handling /\ mgr' = [mgr EXCEPT !.raced = TRUE]
    BY <1>1, <1>2 DEF TypeOK, SlotsTypeOK
  <2>2. mgr' \in Handling /\ mgr'.raced /\ mgr'.pc = mgr.pc /\ mgr'.key = mgr.key /\ mgr'.name = mgr.name
    BY <2>1 DEF Handling
  <2> QED
    BY <1>1, <1>2, <2>2, NoneAssumption DEF Delete, referenced
<1>3. CASE ~(mgr # None /\ mgr.id = slots[k].id)
  BY <1>1, <1>3 DEF Delete, referenced
<1> QED
  BY <1>2, <1>3

\* An event begins with its reader's key, if it looks for its row.
LEMMA BeginsEffect ==
  ASSUME TypeOK, DiscoverReader \/ HandleEvent
  PROVE  /\ UNCHANGED <<slots, log, jobs, given, unlogged, refused>> /\ mgr = None
         /\ mgr' # None =>
              /\ mgr'.pc \in {"find", "create"} /\ mgr'.id = 0
              /\ mgr'.pc = "find" => mgr'.key \in SlotKeys
<1>1. CASE DiscoverReader
  <2>1. ASSUME NEW k \in readers, mgr' = handling("find", None, k), readers # None
        PROVE  mgr'.pc = "find" /\ mgr'.id = 0 /\ mgr'.key \in SlotKeys
    <3>1. k \in SlotKeys
      BY <2>1 DEF TypeOK, SlotsTypeOK
    <3> QED
      BY <2>1, <3>1, HandlingType
  <2> QED
    BY <1>1, <2>1 DEF DiscoverReader
<1>2. CASE HandleEvent
  <2>1. Head(inbox[TheManager]) \in Events
    BY <1>2, TakeType, SubscribersAssumption DEF HandleEvent, TypeOK
  <2> DEFINE e == Head(inbox[TheManager])
  <2>2. e.vol \in Volumes /\ e.slot \in SlotKeys \cup {None}
    BY <2>1 DEF Events
  <2>3. \/ mgr' = None
        \/ e.slot = None /\ mgr' = handling("create", e.vol, e.slot)
        \/ e.slot # None /\ mgr' = handling("find", e.vol, e.slot)
    BY <1>2 DEF HandleEvent
  <2> HIDE DEF e
  <2> QED
    BY <1>2, <2>2, <2>3, HandlingType DEF HandleEvent
<1> QED
  BY <1>1, <1>2

\* FindByKey and PickName only move the event on.
LEMMA LooksEffect ==
  ASSUME TypeOK, MgrInv, LogInv, FindByKey \/ PickName
  PROVE  /\ UNCHANGED <<slots, log, jobs, given, unlogged, refused>>
         /\ mgr # None /\ mgr.pc \in {"find", "pick"} /\ mgr.key \in SlotKeys
         /\ mgr'.key = mgr.key /\ mgr'.raced = mgr.raced
         /\ \/ mgr'.pc = "pick" /\ mgr'.id = mgr.id
            \/ mgr'.pc = "create" /\ mgr'.id = mgr.id
            \/ mgr'.pc = "create" /\ slots[mgr.key] # None /\ mgr'.id = slots[mgr.key].id
            \/ /\ mgr'.pc = "upsert" /\ mgr'.id = mgr.id
               /\ mgr'.name \in Names
               /\ \A n \in DOMAIN log : log[n].alias # mgr'.name
               /\ \A m \in DOMAIN Leitor : mgr'.name = Leitor[m] => m = Len(log) + 1
<1>1. mgr \in Handling /\ mgr # None /\ mgr.pc \in {"find", "pick"} /\ mgr.key \in SlotKeys
  BY DEF FindByKey, PickName, TypeOK, SlotsTypeOK, MgrInv
<1>2. CASE FindByKey
  <2>1. CASE mgr' = [mgr EXCEPT !.pc = "pick"]
    BY <1>1, <1>2, <2>1 DEF FindByKey, Handling
  <2>2. CASE slots[mgr.key] # None /\ mgr' = [mgr EXCEPT !.pc = "create", !.id = slots[mgr.key].id]
    BY <1>1, <1>2, <2>2 DEF FindByKey, Handling
  <2> QED
    BY <1>2, <2>1, <2>2 DEF FindByKey
<1>3. CASE PickName
  <2>1. CASE Len(log) < Len(Leitor) /\ mgr' = [mgr EXCEPT !.pc = "upsert", !.name = nextSlotName]
    <3>1. /\ nextSlotName \in Names
          /\ \A n \in DOMAIN log : log[n].alias # nextSlotName
          /\ \A m \in DOMAIN Leitor : nextSlotName = Leitor[m] => m = Len(log) + 1
      BY <2>1, NextNameIsNew
    <3>2. mgr'.pc = "upsert" /\ mgr'.name = nextSlotName
          /\ mgr'.id = mgr.id /\ mgr'.key = mgr.key /\ mgr'.raced = mgr.raced
      BY <1>1, <2>1 DEF Handling
    <3> QED
      BY <1>1, <1>3, <3>1, <3>2 DEF PickName
  <2>2. CASE mgr' = [mgr EXCEPT !.pc = "create"]
    BY <1>1, <1>3, <2>2 DEF PickName, Handling
  <2> QED
    BY <1>3, <2>1, <2>2 DEF PickName
<1> QED
  BY <1>2, <1>3

\* AppendLog writes the entry of the name just given, or fails to.
LEMMA AppendEffect ==
  ASSUME TypeOK, MgrInv, AppendLog
  PROVE  LET entry == [alias |-> mgr.name, key |-> mgr.key] IN
           /\ UNCHANGED <<slots, jobs, given, refused>>
           /\ entry \in Entries
           /\ \/ log' = Append(log, entry) /\ UNCHANGED unlogged
              \/ unlogged' = unlogged \cup {entry} /\ UNCHANGED log
           /\ mgr # None /\ mgr.pc = "append"
           /\ mgr'.pc = "create" /\ mgr'.id = mgr.id /\ mgr'.key = mgr.key /\ mgr'.raced = mgr.raced
<1>1. mgr \in Handling /\ mgr # None /\ mgr.pc = "append" /\ mgr.key \in SlotKeys /\ mgr.name \in Names
  BY DEF AppendLog, TypeOK, SlotsTypeOK, MgrInv
<1>2. mgr' = [mgr EXCEPT !.pc = "create"]
  BY DEF AppendLog
<1>3. mgr'.pc = "create" /\ mgr'.id = mgr.id /\ mgr'.key = mgr.key /\ mgr'.raced = mgr.raced
  BY <1>1, <1>2 DEF Handling
<1>4. [alias |-> mgr.name, key |-> mgr.key] \in Entries
  BY <1>1 DEF Entries
<1> QED
  BY <1>1, <1>3, <1>4 DEF AppendLog

\* Every step is one of these.
LEMMA StepCases ==
  ASSUME [Next]_vars
  PROVE  \/ UNCHANGED core
         \/ DiscoverReader \/ HandleEvent
         \/ FindByKey \/ PickName
         \/ UpsertName \/ AppendLog \/ CreateJob
         \/ Calibrate \/ Rename
         \/ Delete
<1>1. running /\ (Poll \/ World) /\ UNCHANGED slotVars => UNCHANGED core
  BY DEF slotVars, core
<1>2. handleCalibrate \/ handleCancelCalibrate => UNCHANGED core
  BY DEF handleCalibrate, handleCancelCalibrate, core
<1>3. HandleArmed => UNCHANGED core
  BY DEF HandleArmed, core
<1>4. Disarm => UNCHANGED core
  BY DEF Disarm, core
<1>5. UNCHANGED vars => UNCHANGED core
  BY DEF vars, slotVars, core
<1> QED
  BY <1>1, <1>2, <1>3, <1>4, <1>5 DEF Next, Naming

(***************************************************************************)
(* Every step keeps the invariant.                                         *)
(***************************************************************************)
\* Ids stay unique.
LEMMA RowsStep ==
  ASSUME TypeOK, RowsInv, MgrInv, LogInv, [Next]_vars
  PROVE  RowsInv'
<1>1. CASE UNCHANGED slots
  BY <1>1 DEF RowsInv
<1>2. ASSUME NEW k \in SlotKeys, NEW row \in Rows, Writes(k, row) PROVE RowsInv'
  <2>1. \A l \in SlotKeys : slots'[l] = IF l = k THEN row ELSE slots[l]
    BY <1>2 DEF Writes, TypeOK, SlotsTypeOK
  <2>2. row.id \in Nat /\ row.id # 0
    BY <1>2 DEF Writes, Rows
  <2>3. \A l \in SlotKeys : slots[l] # None => slots[l].id \in Nat
    BY DEF TypeOK, SlotsTypeOK, Rows
  <2>4. \A l \in SlotKeys \ {k} : slots[l] # None => slots[l].id # row.id
    BY <1>2, <2>2, <2>3 DEF Writes, RowsInv
  <2>5. PICK b \in Nat : \A l \in SlotKeys : slots[l] # None => slots[l].id <= b
    BY DEF RowsInv
  <2>6. \A l \in SlotKeys : slots'[l] # None => slots'[l].id <= b + row.id
    BY <2>1, <2>2, <2>3, <2>5
  <2>7. b + row.id \in Nat
    BY <2>2, <2>5
  <2> QED
    BY <2>1, <2>2, <2>4, <2>6, <2>7 DEF RowsInv
<1>3. CASE Delete
  <2>1. PICK k \in SlotKeys : slots' = [slots EXCEPT ![k] = None]
    BY <1>3, DeleteEffect
  <2>2. \A l \in SlotKeys : slots'[l] # None => slots'[l] = slots[l]
    BY <2>1 DEF TypeOK, SlotsTypeOK
  <2> QED
    BY <2>2 DEF RowsInv
<1>4. CASE UpsertName
  BY <1>2, <1>4, UpsertEffect
<1>5. CASE Calibrate \/ Rename
  BY <1>1, <1>2, <1>5, UserEffect
<1>6. CreateJob => UNCHANGED slots
  BY DEF CreateJob
<1> QED
  BY <1>1, <1>3, <1>4, <1>5, <1>6, StepCases, BeginsEffect, LooksEffect, AppendEffect DEF core

\* The log stays in order.
LEMMA LogStep ==
  ASSUME TypeOK, RowsInv, MgrInv, LogInv, [Next]_vars
  PROVE  LogInv'
<1>1. CASE UNCHANGED log
  BY <1>1 DEF LogInv
<1>2. CASE AppendLog
  <2> DEFINE entry == [alias |-> mgr.name, key |-> mgr.key]
  <2>1. CASE log' = Append(log, entry)
    <3>1. log \in Seq(Entries) /\ entry \in Entries
      BY <1>2, AppendEffect DEF TypeOK, SlotsTypeOK
    <3>2. \A m \in DOMAIN Leitor : entry.alias = Leitor[m] => m = Len(log) + 1
      BY <1>2, AppendEffect DEF MgrInv
    <3> HIDE DEF entry
    <3>3. \A n \in DOMAIN log' : log'[n] = IF n = Len(log) + 1 THEN entry ELSE log[n]
      BY <2>1, <3>1
    <3>4. \A n \in DOMAIN log' : n # Len(log) + 1 => n \in DOMAIN log
      BY <2>1, <3>1
    <3> QED
      BY <3>2, <3>3, <3>4 DEF LogInv
  <2> QED
    BY <1>1, <1>2, <2>1, AppendEffect
<1>3. CreateJob => UNCHANGED log
  BY DEF CreateJob
<1> QED
  BY <1>1, <1>2, <1>3, StepCases, BeginsEffect, LooksEffect, UpsertEffect, UserEffect, DeleteEffect
     DEF core

\* What the manager carries stays true, also of rows others change.
LEMMA MgrStep ==
  ASSUME TypeOK, RowsInv, MgrInv, LogInv, [Next]_vars
  PROVE  MgrInv'
<1>1. CASE UNCHANGED <<mgr, slots, log>>
  BY <1>1 DEF MgrInv
<1>2. CASE DiscoverReader \/ HandleEvent
  BY <1>2, BeginsEffect DEF MgrInv
<1>3. CASE FindByKey \/ PickName
  BY <1>3, LooksEffect DEF MgrInv
<1>4. CASE UpsertName
  <2>1. PICK row \in Rows :
          /\ Writes(mgr.key, row) /\ mgr.key \in SlotKeys /\ mgr.pc = "upsert" /\ mgr # None
          /\ mgr'.pc = "append" /\ mgr'.id = row.id /\ mgr'.name = mgr.name /\ mgr'.key = mgr.key
          /\ log' = log
    BY <1>4, UpsertEffect
  <2>2. slots'[mgr.key] = row /\ row # None
    BY <2>1 DEF Writes, TypeOK, SlotsTypeOK
  <2> QED
    BY <2>1, <2>2 DEF MgrInv
<1>5. CASE AppendLog
  BY <1>5, AppendEffect DEF MgrInv
<1>6. CASE CreateJob
  BY <1>6 DEF CreateJob, MgrInv
<1>7. CASE Calibrate \/ Rename
  <2>1. ASSUME NEW k \in SlotKeys, NEW row \in Rows, Writes(k, row), UNCHANGED <<mgr, log>>
        PROVE  MgrInv'
    <3>1. \A l \in SlotKeys : slots'[l] = IF l = k THEN row ELSE slots[l]
      BY <2>1 DEF Writes, TypeOK, SlotsTypeOK
    <3>2. \A l \in SlotKeys : slots[l] # None => slots'[l] # None /\ slots'[l].id = slots[l].id
      BY <2>1, <3>1 DEF Writes
    <3> QED
      BY <2>1, <3>2 DEF MgrInv
  <2> QED
    BY <1>1, <1>7, <2>1, UserEffect
<1>8. CASE Delete
  <2>1. PICK k \in SlotKeys :
          /\ log' = log /\ slots' = [slots EXCEPT ![k] = None]
          /\ \/ mgr' = mgr /\ (mgr = None \/ mgr.id # slots[k].id)
             \/ /\ mgr # None /\ mgr' # None /\ mgr'.raced
                /\ mgr'.pc = mgr.pc /\ mgr'.key = mgr.key /\ mgr'.name = mgr.name
    BY <1>8, DeleteEffect
  <2>2. \A l \in SlotKeys : l # k => slots'[l] = slots[l]
    BY <2>1 DEF TypeOK, SlotsTypeOK
  <2> QED
    BY <2>1, <2>2 DEF MgrInv
<1> QED
  BY <1>1, <1>2, <1>3, <1>4, <1>5, <1>6, <1>7, <1>8, StepCases DEF core

\* A name that is in the log, or known not to be, stays so.
LEMMA LoggedKept ==
  ASSUME TypeOK, RowsInv, MgrInv, LogInv, [Next]_vars
  PROVE  \A entry \in Entries : Logged(entry) => Logged(entry)'
<1>1. CASE UNCHANGED <<mgr, log, unlogged>>
  BY <1>1 DEF Logged
<1>2. CASE UNCHANGED <<log, unlogged>> /\ (mgr = None \/ mgr.pc # "append")
  BY <1>2 DEF Logged
<1>3. CASE AppendLog
  <2> DEFINE new == [alias |-> mgr.name, key |-> mgr.key]
  <2>1. new \in Entries /\ log \in Seq(Entries)
    BY <1>3, AppendEffect DEF TypeOK, SlotsTypeOK
  <2>2. \A entry \in Entries : Logged(entry) =>
          entry \in unlogged \/ (\E n \in DOMAIN log : log[n] = entry) \/ entry = new
    BY DEF Logged
  <2>3. \/ log' = Append(log, new) /\ unlogged' = unlogged
        \/ unlogged' = unlogged \cup {new} /\ log' = log
    BY <1>3, AppendEffect
  <2> HIDE DEF new
  <2>4. CASE log' = Append(log, new) /\ unlogged' = unlogged
    <3>1. log'[Len(log) + 1] = new /\ Len(log) + 1 \in DOMAIN log'
      BY <2>1, <2>4
    <3>2. \A n \in DOMAIN log : n \in DOMAIN log' /\ log'[n] = log[n]
      BY <2>1, <2>4
    <3> QED
      BY <2>2, <2>4, <3>1, <3>2 DEF Logged
  <2>5. CASE unlogged' = unlogged \cup {new} /\ log' = log
    BY <2>2, <2>5 DEF Logged
  <2> QED
    BY <2>3, <2>4, <2>5
<1>4. CASE Delete
  BY <1>4, DeleteEffect DEF Logged
<1>5. CASE CreateJob
  BY <1>2, <1>5 DEF CreateJob
<1>6. CASE UpsertName
  BY <1>2, <1>6, UpsertEffect
<1>7. CASE FindByKey \/ PickName
  BY <1>2, <1>7, LooksEffect
<1> QED
  BY <1>1, <1>2, <1>3, <1>4, <1>5, <1>6, <1>7, StepCases, BeginsEffect, UserEffect DEF core

\* So do the names given...
LEMMA GivenStep ==
  ASSUME TypeOK, RowsInv, MgrInv, LogInv, GivenInv, ReuseOnlyIfUnlogged, [Next]_vars
  PROVE  GivenInv' /\ ReuseOnlyIfUnlogged'
<1>1. given \in Seq(Entries)
  BY DEF TypeOK, SlotsTypeOK
<1>2. unlogged \subseteq unlogged'
  BY StepCases, BeginsEffect, LooksEffect, UpsertEffect, AppendEffect, UserEffect, DeleteEffect
  DEF core, CreateJob
<1>3. CASE given' = given
  <2>1. \A i \in DOMAIN given : given[i] \in Entries
    BY <1>1
  <2>2. GivenInv'
    BY <1>3, <2>1, LoggedKept DEF GivenInv
  <2>3. ReuseOnlyIfUnlogged'
    BY <1>2, <1>3 DEF ReuseOnlyIfUnlogged
  <2> QED
    BY <2>2, <2>3
<1>4. CASE UpsertName
  <2>1. /\ mgr # None /\ mgr.pc = "upsert" /\ mgr.key \in SlotKeys
        /\ mgr' # None /\ mgr'.pc = "append" /\ mgr'.name = mgr.name /\ mgr'.key = mgr.key
        /\ given' = Append(given, [alias |-> mgr.name, key |-> mgr.key])
        /\ UNCHANGED <<log, unlogged>>
    BY <1>4, UpsertEffect
  <2>2. PICK new \in Entries : new = [alias |-> mgr.name, key |-> mgr.key]
    BY <2>1 DEF Entries, MgrInv
  <2>3. Logged(new)'
    BY <2>1, <2>2 DEF Logged
  <2>4. \A n \in DOMAIN log : log[n].alias # mgr.name
    BY <2>1 DEF MgrInv
  <2>5. \A i \in DOMAIN given : given[i].alias = mgr.name => given[i] \in unlogged
    BY <2>1, <2>4 DEF GivenInv, Logged
  <2>6. new.alias = mgr.name
    BY <2>2
  <2>7. given' = Append(given, new)
    BY <2>1, <2>2
  <2>8. /\ \A i \in DOMAIN given' : i \in DOMAIN given \/ i = Len(given) + 1
        /\ \A i \in DOMAIN given : given'[i] = given[i] /\ given[i] \in Entries
        /\ given'[Len(given) + 1] = new
        /\ \A i, j \in DOMAIN given' : i < j => i \in DOMAIN given
    BY <1>1, <2>2, <2>7
  <2>9. GivenInv'
    BY <2>3, <2>8, LoggedKept DEF GivenInv
  <2>10. ReuseOnlyIfUnlogged'
    <3> SUFFICES ASSUME NEW i \in DOMAIN given', NEW j \in DOMAIN given', i < j,
                        given'[i].alias = given'[j].alias
                 PROVE  given'[i] \in unlogged'
      BY DEF ReuseOnlyIfUnlogged
    <3>1. i \in DOMAIN given /\ given'[i] = given[i]
      BY <2>8
    <3>2. CASE j \in DOMAIN given
      <4>1. given'[j] = given[j]
        BY <2>8, <3>2
      <4> QED
        BY <1>2, <3>1, <3>2, <4>1 DEF ReuseOnlyIfUnlogged
    <3>3. CASE j = Len(given) + 1
      BY <1>2, <2>5, <2>6, <2>8, <3>1, <3>3
    <3> QED
      BY <2>8, <3>2, <3>3
  <2> QED
    BY <2>9, <2>10
<1>5. CreateJob => UNCHANGED given
  BY DEF CreateJob
<1> QED
  BY <1>3, <1>4, <1>5, StepCases, BeginsEffect, LooksEffect, AppendEffect, UserEffect, DeleteEffect
  DEF core

\* ...and the automatic labels.
LEMMA LabelsStep ==
  ASSUME TypeOK, RowsInv, MgrInv, LogInv, LabelsInv, [Next]_vars
  PROVE  LabelsInv'
<1> SUFFICES ASSUME NEW k \in SlotKeys, slots'[k] # None, slots'[k].by = "auto",
                    NEW entry, entry = [alias |-> slots'[k].alias, key |-> k]
             PROVE  Logged(entry)'
  BY DEF LabelsInv, Logged
<1>1. CASE slots'[k] = slots[k]
  <2>1. slots[k] \in Rows
    BY <1>1 DEF TypeOK, SlotsTypeOK
  <2>2. entry \in Entries
    BY <1>1, <2>1 DEF Rows, Entries
  <2>3. Logged(entry)
    BY <1>1 DEF LabelsInv
  <2> QED
    BY <2>2, <2>3, LoggedKept
<1>2. CASE UpsertName /\ slots'[k] # slots[k]
  <2>1. PICK row \in Rows :
          /\ Writes(mgr.key, row) /\ row.alias = mgr.name
          /\ mgr' # None /\ mgr'.pc = "append" /\ mgr'.name = mgr.name /\ mgr'.key = mgr.key
    BY <1>2, UpsertEffect
  <2>2. k = mgr.key /\ slots'[k] = row
    BY <1>2, <2>1 DEF Writes, TypeOK, SlotsTypeOK
  <2> QED
    BY <2>1, <2>2 DEF Logged
<1>3. CASE (Calibrate \/ Rename) /\ slots'[k] # slots[k]
  <2>1. PICK l \in SlotKeys, row \in Rows : Writes(l, row) /\ row.by = "user"
    BY <1>3, UserEffect
  <2>2. slots'[k] = row
    BY <1>3, <2>1 DEF Writes, TypeOK, SlotsTypeOK
  <2> QED
    BY <2>1, <2>2
<1>4. CASE Delete /\ slots'[k] # slots[k]
  <2>1. PICK l \in SlotKeys : slots' = [slots EXCEPT ![l] = None]
    BY <1>4, DeleteEffect
  <2> QED
    BY <1>4, <2>1 DEF TypeOK, SlotsTypeOK
<1>5. CreateJob => UNCHANGED slots
  BY DEF CreateJob
<1> QED
  BY <1>1, <1>2, <1>3, <1>4, <1>5, StepCases, BeginsEffect, LooksEffect, AppendEffect DEF core

\* Jobs keep their slots, and no job is refused but one whose slot was deleted.
LEMMA JobsStep ==
  ASSUME TypeOK, RowsInv, MgrInv, LogInv, JobsInv, [Next]_vars
  PROVE  JobsInv'
<1>1. CASE UNCHANGED <<slots, jobs, refused>>
  BY <1>1 DEF JobsInv
<1>2. ASSUME NEW k \in SlotKeys, NEW row \in Rows, Writes(k, row), UNCHANGED <<jobs, refused>>
      PROVE  JobsInv'
  <2>1. \A l \in SlotKeys : slots'[l] = IF l = k THEN row ELSE slots[l]
    BY <1>2 DEF Writes, TypeOK, SlotsTypeOK
  <2>2. \A l \in SlotKeys : slots[l] # None => slots'[l] # None /\ slots'[l].id = slots[l].id
    BY <1>2, <2>1 DEF Writes
  <2> QED
    BY <1>2, <2>2 DEF JobsInv
<1>3. CASE Delete
  <2>1. PICK k \in SlotKeys :
          /\ slots' = [slots EXCEPT ![k] = None] /\ UNCHANGED <<jobs, refused>>
          /\ \A j \in jobs : j.id # slots[k].id
    BY <1>3, DeleteEffect
  <2>2. \A l \in SlotKeys : l # k => slots'[l] = slots[l]
    BY <2>1 DEF TypeOK, SlotsTypeOK
  <2> QED
    BY <2>1, <2>2 DEF JobsInv
<1>4. CASE CreateJob
  <2>1. /\ mgr # None /\ UNCHANGED slots
        /\ \/ UNCHANGED <<jobs, refused>>
           \/ /\ jobs' = jobs \cup {[key |-> mgr.key, id |-> mgr.id, raced |-> mgr.raced]}
              /\ UNCHANGED refused
           \/ /\ mgr.id # 0 /\ mgr.id \notin rowIds
              /\ refused' = refused \cup {mgr} /\ UNCHANGED jobs
    BY <1>4 DEF CreateJob
  <2>2. mgr.id # 0 /\ ~mgr.raced =>
          mgr.key \in SlotKeys /\ slots[mgr.key] # None /\ slots[mgr.key].id = mgr.id
    BY <2>1 DEF MgrInv
  <2>3. mgr.id # 0 /\ mgr.id \notin rowIds => mgr.raced
    BY <2>2 DEF rowIds
  <2> QED
    BY <2>1, <2>2, <2>3 DEF JobsInv
<1>5. CASE UpsertName
  BY <1>2, <1>5, UpsertEffect
<1>6. CASE Calibrate \/ Rename
  BY <1>1, <1>2, <1>6, UserEffect
<1> QED
  BY <1>1, <1>3, <1>4, <1>5, <1>6, StepCases, BeginsEffect, LooksEffect, AppendEffect DEF core

(***************************************************************************)
(* The theorems.                                                           *)
(***************************************************************************)
\* The inductive invariant holds in every state.
THEOREM Inductive == Spec => []IInv
<1>1. Init => IInv
  <2> SUFFICES ASSUME Init PROVE IInv
    OBVIOUS
  <2>1. RowsInv
    BY DEF Init, RowsInv
  <2>2. GivenInv /\ ReuseOnlyIfUnlogged /\ LogInv
    BY DEF Init, GivenInv, ReuseOnlyIfUnlogged, LogInv
  <2>3. MgrInv /\ LabelsInv /\ JobsInv
    BY DEF Init, MgrInv, LabelsInv, JobsInv
  <2> QED
    BY <2>1, <2>2, <2>3, InitTypes DEF IInv
<1>2. IInv /\ [Next]_vars => IInv'
  BY TypeStep, RowsStep, LogStep, MgrStep, GivenStep, LabelsStep, JobsStep DEF IInv
<1> QED
  BY <1>1, <1>2, PTL DEF Spec

\* The tables, the manager and the wizard keep their types, and ids are
\* numbers, never the "no row" of a failed lookup.
THEOREM TypeCorrect == Spec => []TypeOK
<1>1. IInv => TypeOK
  BY DEF IInv
<1> QED
  BY <1>1, Inductive, PTL

\* A job's slot_id names the row of its reader for as long as the job exists,
\* whatever is renamed, calibrated and deleted meanwhile, and a card's row is
\* refused only if its slot was deleted under it.
THEOREM JobsKeepSlots == Spec => []JobKeepsItsSlot
<1>1. IInv => JobKeepsItsSlot
  BY DEF IInv, JobsInv, JobKeepsItsSlot
<1> QED
  BY <1>1, Inductive, PTL

\* The name history has an entry for every automatic label.
THEOREM LogIsComplete == Spec => []LogExplainsNames
<1>1. IInv => LogExplainsNames
  BY DEF IInv, LabelsInv, Logged, LogExplainsNames
<1> QED
  BY <1>1, Inductive, PTL

\* No name is given automatically a second time unless the first was not logged.
THEOREM NamesNotReused == Spec => []ReuseOnlyIfUnlogged
<1>1. IInv => ReuseOnlyIfUnlogged
  BY DEF IInv
<1> QED
  BY <1>1, Inductive, PTL

\* The naming of slots leaves the watcher as it is: what WatcherProofs shows of
\* the watcher holds of it here.
THEOREM SlotsWatch == Spec => WatcherSpec
<1>1. Init => WatcherInit
  BY DEF Init
<1>2. [Next]_vars => [WatcherNext]_watcherVars
  <2> SUFFICES ASSUME [Next]_vars PROVE [WatcherNext]_watcherVars
    OBVIOUS
  <2>1. CASE running /\ (Poll \/ World)
    BY <2>1 DEF WatcherNext
  <2>2. HandleEvent \/ HandleArmed => WatcherNext
    BY SubscribersAssumption DEF HandleEvent, HandleArmed, WatcherNext
  <2>3. DiscoverReader \/ Naming => UNCHANGED watcherVars
    BY DEF DiscoverReader, Naming, FindByKey, PickName, UpsertName, AppendLog, CreateJob
  <2>4. handleCalibrate \/ handleCancelCalibrate \/ Calibrate \/ Disarm \/ Rename \/ Delete
          => UNCHANGED watcherVars
    BY DEF handleCalibrate, handleCancelCalibrate, Calibrate, Disarm, Rename, Delete
  <2>5. UNCHANGED vars => UNCHANGED watcherVars
    BY DEF vars
  <2> QED
    BY <2>1, <2>2, <2>3, <2>4, <2>5 DEF Next
<1> QED
  BY <1>1, <1>2, PTL DEF Spec, WatcherSpec

\* The manager, whose subscription is to both topics, agrees with the watcher.
THEOREM ManagerFollows == Spec => [](ViewFollows /\ EventsAlternate)
BY SlotsWatch, ViewIsKept, AttachAlternates, PTL
=============================================================================
