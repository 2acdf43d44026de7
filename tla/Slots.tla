------------------------------- MODULE Slots -------------------------------
(***************************************************************************)
(* The names of the reader slots: automatic naming by the manager          *)
(* (slotnames.go, slotAlias and DiscoverReaderSlots in manager.go), the    *)
(* calibration wizard and the slots page (server.go, handlers.go) over the *)
(* tables slots, slot_name_log and jobs (store/slots.go), composed with    *)
(* the watcher whose attach events start both.                             *)
(*                                                                         *)
(* Every database statement is a step. The manager handles one event at a  *)
(* time; the calibration goroutine handles the same events on its own.     *)
(***************************************************************************)
EXTENDS Watcher

CONSTANTS
  TheManager, TheWizard,  \* the two subscriptions
  Readers,                \* slots ListReaderSlots finds at boot
  Pool,                   \* autoSlotNames, a sequence of names
  Leitor,                 \* the fallback names "Leitor 1", "Leitor 2", ...
                          \* (bound: as many as the log may need)
  UserNames,              \* aliases the user gives; they may be of either kind
  MaxEdits,               \* bound: renames and deletions
  MaxArms,                \* bound: calibrations armed
  MayFail                 \* whether naming and logging statements may fail

ASSUME SubscribersAssumption ==
  /\ Subscribers = {TheManager, TheWizard} /\ TheManager # TheWizard
  /\ OnlyAttach = {TheWizard}
ASSUME ReadersAssumption == Readers \subseteq SlotKeys /\ None \notin SlotKeys
ASSUME SlotBoundsAssumption == MaxEdits \in Nat /\ MaxArms \in Nat /\ MayFail \in BOOLEAN
ASSUME PoolAssumption ==
  /\ Pool \in Seq(STRING) /\ Leitor \in Seq(STRING)
  /\ \A i, j \in DOMAIN Pool : Pool[i] = Pool[j] => i = j
  /\ \A i, j \in DOMAIN Leitor : Leitor[i] = Leitor[j] => i = j
  /\ \A i \in DOMAIN Pool, j \in DOMAIN Leitor : Pool[i] # Leitor[j]

VARIABLES
  readers,   \* readers DiscoverReaderSlots has still to name; None once the app runs
  slots,     \* table slots
  log,       \* table slot_name_log
  jobs,      \* table jobs: the slot key and the slot_id of each row
  mgr,       \* the manager between the statements of one event
  armed,     \* s.calibration: the alias waiting for a card
  cal,       \* the wizard between the statements of one event
  given,     \* history: the names given automatically, in order
  unlogged,  \* history: those whose log entry was never written
  refused,   \* history: cards whose job row was refused
  edits, arms

slotVars == <<readers, slots, log, jobs, mgr, armed, cal, given, unlogged, refused, edits, arms>>
vars == <<watcherVars, slotVars>>

Names == UserNames \cup {Pool[i] : i \in DOMAIN Pool} \cup {Leitor[i] : i \in DOMAIN Leitor}
Rows == [id : Nat, alias : Names, by : {"auto", "user"}]
Entries == [alias : Names, key : SlotKeys]
\* vol is None for a reader found at boot; raced is history: its slot was
\* deleted while the event was handled.
Handling == [pc : {"find", "pick", "upsert", "append", "create"}, vol : Volumes \cup {None},
             key : SlotKeys \cup {None}, name : Names \cup {None}, id : Nat,
             raced : BOOLEAN]

ASSUME NoneAssumption == None \notin Rows /\ None \notin Handling

SlotsTypeOK ==
  /\ readers \in (SUBSET SlotKeys) \cup {None}
  /\ slots \in [SlotKeys -> Rows \cup {None}]
  /\ log \in Seq(Entries)
  /\ jobs \subseteq [key : SlotKeys \cup {None}, id : Nat, raced : BOOLEAN]
  /\ mgr \in Handling \cup {None}
  /\ armed \in Names \cup {None}
  /\ cal \in [key : SlotKeys, alias : Names, written : BOOLEAN] \cup {None}
  /\ given \in Seq(Entries)
  /\ unlogged \subseteq Entries
  /\ refused \subseteq Handling
  /\ edits \in 0..MaxEdits /\ arms \in 0..MaxArms
TypeOK == WatcherTypeOK /\ SlotsTypeOK

Init ==
  /\ WatcherInit
  /\ readers = Readers
  /\ slots = [k \in SlotKeys |-> None]
  /\ log = <<>> /\ jobs = {}
  /\ mgr = None /\ armed = None /\ cal = None
  /\ given = <<>> /\ unlogged = {} /\ refused = {}
  /\ edits = 0 /\ arms = 0

running == readers = None

(***************************************************************************)
(* The tables.                                                             *)
(***************************************************************************)
rowIds == {slots[k].id : k \in {k \in SlotKeys : slots[k] # None}}

\* INTEGER PRIMARY KEY without AUTOINCREMENT: one more than the largest in use.
newId == IF rowIds = {} THEN 1 ELSE 1 + CHOOSE i \in rowIds : \A j \in rowIds : j <= i

\* The row after Upsert: a row that is there keeps its id.
upserted(k, name, by) ==
  [id |-> IF slots[k] = None THEN newId ELSE slots[k].id, alias |-> name, by |-> by]

\* Mutant: foreign keys are not enforced.
referenced_never(id) == FALSE

\* jobs.slot_id REFERENCES slots(id), with foreign_keys(ON).
referenced(id) == \E j \in jobs : j.id = id

\* Mutant: only the names in use now are avoided, not those of the log.
nextSlotName_current ==
  LET inUse == {slots[k].alias : k \in {k \in SlotKeys : slots[k] # None}}
      free == {i \in DOMAIN Pool : Pool[i] \notin inUse}
  IN IF free # {} THEN Pool[CHOOSE i \in free : \A j \in free : i <= j]
                  ELSE Leitor[Len(log) + 1]

nextSlotName ==
  LET inUse == {log[i].alias : i \in DOMAIN log}
               \cup {slots[k].alias : k \in {k \in SlotKeys : slots[k] # None}}
      free == {i \in DOMAIN Pool : Pool[i] \notin inUse}
  IN IF free # {} THEN Pool[CHOOSE i \in free : \A j \in free : i <= j]
                  ELSE Leitor[Len(log) + 1]

(***************************************************************************)
(* The manager.                                                            *)
(***************************************************************************)
handling(pc, v, k) ==
  [pc |-> pc, vol |-> v, key |-> k, name |-> None, id |-> 0, raced |-> FALSE]

\* Boot: DiscoverReaderSlots, before the watcher, the manager and the API run.
DiscoverReader ==
  /\ readers # None /\ mgr = None
  /\ \/ /\ readers = {}
        /\ readers' = None
        /\ UNCHANGED mgr
     \/ \E k \in readers :
          /\ readers' = readers \ {k}
          /\ mgr' = handling("find", None, k)
  /\ UNCHANGED <<watcherVars, slots, log, jobs, armed, cal, given, unlogged, refused, edits, arms>>

\* handleAttach; a card whose slot is not known gets no slot.
HandleEvent ==
  /\ running /\ mgr = None
  /\ Take(TheManager)
  /\ LET e == Head(inbox[TheManager]) IN
       mgr' = IF e.kind = "detach" THEN None
              ELSE handling(IF e.slot = None THEN "create" ELSE "find", e.vol, e.slot)
  /\ UNCHANGED <<readers, slots, log, jobs, armed, cal, given, unlogged, refused, edits, arms>>

FindByKey ==
  /\ mgr # None /\ mgr.pc = "find"
  /\ mgr' = IF slots[mgr.key] = None THEN [mgr EXCEPT !.pc = "pick"]
            ELSE [mgr EXCEPT !.pc = "create", !.id = slots[mgr.key].id]
  /\ UNCHANGED <<watcherVars, readers, slots, log, jobs, armed, cal, given, unlogged, refused,
                 edits, arms>>

\* autoNameSlot: UsedAliases, List and nextSlotName. Without a name, or when
\* the row cannot be written, the job gets no slot.
PickName ==
  /\ mgr # None /\ mgr.pc = "pick"
  /\ \/ Len(log) < Len(Leitor) /\ mgr' = [mgr EXCEPT !.pc = "upsert", !.name = nextSlotName]
     \/ MayFail /\ mgr' = [mgr EXCEPT !.pc = "create"]
  /\ UNCHANGED <<watcherVars, readers, slots, log, jobs, armed, cal, given, unlogged, refused,
                 edits, arms>>

\* Mutant: the name is not logged.
UpsertName_unlogged ==
  /\ mgr # None /\ mgr.pc = "upsert"
  /\ LET row == upserted(mgr.key, mgr.name, "auto") IN
       /\ slots' = [slots EXCEPT ![mgr.key] = row]
       /\ mgr' = [mgr EXCEPT !.pc = "create", !.id = row.id]
  /\ given' = Append(given, [alias |-> mgr.name, key |-> mgr.key])
  /\ UNCHANGED <<watcherVars, readers, log, jobs, armed, cal, unlogged, refused, edits, arms>>

UpsertName ==
  /\ mgr # None /\ mgr.pc = "upsert"
  /\ LET row == upserted(mgr.key, mgr.name, "auto") IN
       /\ slots' = [slots EXCEPT ![mgr.key] = row]
       /\ mgr' = [mgr EXCEPT !.pc = "append", !.id = row.id]
  /\ given' = Append(given, [alias |-> mgr.name, key |-> mgr.key])
  /\ UNCHANGED <<watcherVars, readers, log, jobs, armed, cal, unlogged, refused, edits, arms>>

\* The log entry; a failure is only logged.
AppendLog ==
  /\ mgr # None /\ mgr.pc = "append"
  /\ LET entry == [alias |-> mgr.name, key |-> mgr.key] IN
       \/ log' = Append(log, entry) /\ UNCHANGED unlogged
       \/ MayFail /\ unlogged' = unlogged \cup {entry} /\ UNCHANGED log
  /\ mgr' = [mgr EXCEPT !.pc = "create"]
  /\ UNCHANGED <<watcherVars, readers, slots, jobs, armed, cal, given, refused, edits, arms>>

\* createAndAdmit. A slot_id that names no row is refused, and the card is
\* not copied.
CreateJob ==
  /\ mgr # None /\ mgr.pc = "create"
  /\ mgr' = None
  /\ IF mgr.vol = None THEN UNCHANGED <<jobs, refused>>
     ELSE IF mgr.id = 0 \/ mgr.id \in rowIds
       THEN /\ jobs' = jobs \cup {[key |-> mgr.key, id |-> mgr.id, raced |-> mgr.raced]}
            /\ UNCHANGED refused
       ELSE refused' = refused \cup {mgr} /\ UNCHANGED jobs
  /\ UNCHANGED <<watcherVars, readers, slots, log, armed, cal, given, unlogged, edits, arms>>

(***************************************************************************)
(* The wizard and the slots page.                                          *)
(***************************************************************************)
handleCalibrate ==
  /\ running /\ arms < MaxArms
  /\ \E alias \in UserNames : armed' = alias
  /\ arms' = arms + 1
  /\ UNCHANGED <<watcherVars, readers, slots, log, jobs, mgr, cal, given, unlogged, refused, edits>>

\* Cancelled by the user, or found expired by the wizard (HandleArmed).
handleCancelCalibrate ==
  /\ running /\ armed # None
  /\ armed' = None
  /\ UNCHANGED <<watcherVars, readers, slots, log, jobs, mgr, cal, given, unlogged, refused,
                 edits, arms>>

\* watchCalibration loads the armed alias; an event without a location does
\* not count.
HandleArmed ==
  /\ running /\ cal = None
  /\ Take(TheWizard)
  /\ LET e == Head(inbox[TheWizard]) IN
       \/ /\ armed # None /\ e.slot # None
          /\ cal' = [key |-> e.slot, alias |-> armed, written |-> FALSE]
          /\ UNCHANGED armed
       \/ armed' = None /\ UNCHANGED cal
       \/ e.slot = None /\ UNCHANGED <<armed, cal>>
  /\ UNCHANGED <<readers, slots, log, jobs, mgr, given, unlogged, refused, edits, arms>>

\* When the row cannot be written, the wizard stays armed.
Calibrate ==
  /\ cal # None /\ ~cal.written
  /\ \/ /\ slots' = [slots EXCEPT ![cal.key] = upserted(cal.key, cal.alias, "user")]
        /\ cal' = [cal EXCEPT !.written = TRUE]
     \/ MayFail /\ cal' = None /\ UNCHANGED slots
  /\ UNCHANGED <<watcherVars, readers, log, jobs, mgr, armed, given, unlogged, refused, edits, arms>>

\* Store(nil), whatever is armed by now.
Disarm ==
  /\ cal # None /\ cal.written
  /\ armed' = None /\ cal' = None
  /\ UNCHANGED <<watcherVars, readers, slots, log, jobs, mgr, given, unlogged, refused, edits, arms>>

Rename ==
  /\ running /\ edits < MaxEdits
  /\ \E k \in SlotKeys, alias \in UserNames :
       /\ slots[k] # None
       /\ slots' = [slots EXCEPT ![k].alias = alias, ![k].by = "user"]
  /\ edits' = edits + 1
  /\ UNCHANGED <<watcherVars, readers, log, jobs, mgr, armed, cal, given, unlogged, refused, arms>>

Delete ==
  /\ running /\ edits < MaxEdits
  /\ \E k \in SlotKeys :
       /\ slots[k] # None /\ ~referenced(slots[k].id)
       /\ slots' = [slots EXCEPT ![k] = None]
       /\ mgr' = IF mgr # None /\ mgr.id = slots[k].id THEN [mgr EXCEPT !.raced = TRUE] ELSE mgr
  /\ edits' = edits + 1
  /\ UNCHANGED <<watcherVars, readers, log, jobs, armed, cal, given, unlogged, refused, arms>>

Naming == FindByKey \/ PickName \/ UpsertName \/ AppendLog \/ CreateJob
Next ==
  \/ running /\ (Poll \/ World) /\ UNCHANGED slotVars
  \/ DiscoverReader \/ HandleEvent \/ Naming
  \/ handleCalibrate \/ handleCancelCalibrate \/ HandleArmed \/ Calibrate \/ Disarm
  \/ Rename \/ Delete

Spec == Init /\ [][Next]_vars

(***************************************************************************)
(* Properties.                                                             *)
(***************************************************************************)
\* A name given automatically is given again only if the first time never
\* reached the log: not after a rename, a deletion or with the pool used up
\* (nextSlotName, "never reused" in slotnames.go).
ReuseOnlyIfUnlogged ==
  \A i, j \in DOMAIN given :
    i < j /\ given[i].alias = given[j].alias => given[i] \in unlogged

\* The name history explains every automatic label: a slot that carries one
\* has a log entry of that name and reader, unless writing it failed or is
\* the manager's next statement (autoNameSlot).
LogExplainsNames ==
  \A k \in SlotKeys :
    slots[k] # None /\ slots[k].by = "auto" =>
      LET entry == [alias |-> slots[k].alias, key |-> k] IN
        \/ \E i \in DOMAIN log : log[i] = entry
        \/ entry \in unlogged
        \/ mgr # None /\ mgr.pc = "append" /\ mgr.name = entry.alias /\ mgr.key = k

\* A job's slot_id names the row of the slot its card was in for as long as
\* the job exists, and no card goes uncopied because its job row was refused,
\* unless that slot was deleted while the card was being handled
\* (createAndAdmit, handleDeleteSlot, the foreign key).
JobKeepsItsSlot ==
  /\ \A j \in jobs : j.id # 0 /\ ~j.raced => slots[j.key] # None /\ slots[j.key].id = j.id
  /\ \A r \in refused : r.raced

\* The alias a user gave by calibration or rename is changed by the user
\* only ("the next attached volume gets the alias", handlers.go).
UserNameStays ==
  [][\A k \in SlotKeys :
       slots[k] # None /\ slots[k].by = "user" /\ slots'[k] # None => slots'[k].by = "user"]_vars
=============================================================================
