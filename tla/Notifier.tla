------------------------------ MODULE Notifier ------------------------------
(***************************************************************************)
(* The notifier of cardpit: notify.Dispatcher (notify.go), its outbox      *)
(* (queue.go) and the Telegram notifier it drives (telegram.go).           *)
(*                                                                         *)
(* Actors that interleave:                                                 *)
(*   - the engine, which publishes job events and alerts on the bus;       *)
(*   - the dispatcher's loop, which turns events into tasks and, every     *)
(*     15 s, rebuilds the notifier when the settings changed;              *)
(*   - the outbox's worker, which runs one task at a time, and one         *)
(*     goroutine per failed task, which puts it back after its backoff;    *)
(*   - Telegram, which may refuse a message, or take it and lose the       *)
(*     answer.                                                             *)
(*                                                                         *)
(* A notifier is the configuration it was built from. What a message says  *)
(* is reduced to the stage of the job it tells of.                         *)
(***************************************************************************)
EXTENDS Naturals, FiniteSets, Sequences

CONSTANTS
  Jobs,         \* jobs the engine runs
  Alerts,       \* unknown cards, missing destinations, slots just named
  Chats,        \* Telegram chats
  Configs,      \* [token, chats] pairs the settings may hold
  Off,          \* the pair of a fresh installation: no token, no chats
  SubCap,       \* buffer of the bus subscription (256 in Run)
  QueueCap,     \* length of the outbox (512 in NewDispatcher)
  Retries,      \* retries of every task but progress edits (8; 4 for DestMissing)
  MaxFaults,    \* bound: attempts that fail, per job and per alert
  MaxBuildFails,\* bound: builds of the bot that fail
  MaxChanges,   \* bound: changes of the settings
  MaxProgress,  \* bound: progress events of one job
  None

ASSUME CapsAssumption == SubCap \in Nat \ {0} /\ QueueCap \in Nat \ {0}
ASSUME BoundsAssumption ==
  /\ Retries \in Nat /\ MaxFaults \in Nat /\ MaxBuildFails \in Nat
  /\ MaxChanges \in Nat /\ MaxProgress \in Nat
ASSUME NamesAssumption ==
  /\ Jobs \cap Alerts = {}
  /\ None \notin Jobs \cup Alerts \cup Configs /\ None \notin BOOLEAN
ASSUME ConfigsAssumption ==
  /\ Off \in Configs
  /\ Configs \subseteq [token : BOOLEAN, chats : Seq(Chats)]
  /\ Off = [token |-> FALSE, chats |-> <<>>]

VARIABLES
  phase,     \* what the engine has published of each job
  progress,  \* number of progress events published of each job
  raised,    \* the alerts published
  inbox,     \* the dispatcher's subscription
  settings,  \* the configuration in the database
  applied,   \* curToken and curChats
  notifier,  \* d.notifier: the configuration it was built from
  bots,      \* bots whose long polling is running
  msgs,      \* d.jobs: per job None or whether msgRef is known
  outbox,    \* q.tasks
  backoff,   \* failed tasks waiting to be put back
  sending,   \* job whose start message is out and not yet recorded
  shown,     \* what the job's start message (the one msgRef names) says
  ends,      \* times each chat was told that a job is over
  late,      \* jobs whose start was announced after their end
  told,      \* times each chat received an alert
  lost,      \* jobs whose end, and alerts which, were dropped
  failed,    \* attempts that failed, per job and per alert
  builds,    \* builds of the bot that failed
  changes    \* changes of the settings

engineVars == <<phase, progress, raised>>
configVars == <<settings, applied, notifier, bots, builds, changes>>
chatVars   == <<shown, ends, late, told>>
vars == <<engineVars, inbox, configVars, msgs, outbox, backoff, sending,
          chatVars, lost, failed>>

Items == Jobs \cup Alerts
Kinds == {"started", "progress", "completed", "failed", "alert"}
Events == [kind : Kinds, of : Items]
\* A queued closure: the notifier, the message reference and the event it
\* captured, and the retries it has left.
Tasks == [kind : Kinds, of : Items, to : Seq(Chats), ref : BOOLEAN, retries : 0..Retries]
Stages == {"none", "start", "progress", "end"}

TypeOK ==
  /\ phase \in [Jobs -> {"new", "copying", "over"}]
  /\ progress \in [Jobs -> 0..MaxProgress]
  /\ raised \subseteq Alerts
  /\ inbox \in Seq(Events) /\ Len(inbox) <= SubCap
  /\ settings \in Configs /\ applied \in Configs
  /\ notifier \in Configs \cup {None}
  /\ bots \in Nat
  /\ msgs \in [Jobs -> BOOLEAN \cup {None}]
  /\ outbox \in Seq(Tasks) /\ Len(outbox) <= QueueCap
  /\ backoff \subseteq Tasks
  /\ sending \in Jobs \cup {None}
  /\ shown \in [Jobs -> Stages]
  /\ ends \in [Jobs -> [Chats -> Nat]]
  /\ late \subseteq Jobs
  /\ told \in [Alerts -> [Chats -> Nat]]
  /\ lost \subseteq Items
  /\ failed \in [Items -> 0..MaxFaults]
  /\ builds \in 0..MaxBuildFails
  /\ changes \in 0..MaxChanges

Init ==
  /\ phase = [j \in Jobs |-> "new"]
  /\ progress = [j \in Jobs |-> 0]
  /\ raised = {}
  /\ inbox = <<>>
  /\ settings \in Configs
  /\ applied = Off
  /\ notifier = None
  /\ bots = 0
  /\ msgs = [j \in Jobs |-> None]
  /\ outbox = <<>>
  /\ backoff = {}
  /\ sending = None
  /\ shown = [j \in Jobs |-> "none"]
  /\ ends = [j \in Jobs |-> [c \in Chats |-> 0]]
  /\ late = {}
  /\ told = [a \in Alerts |-> [c \in Chats |-> 0]]
  /\ lost = {}
  /\ failed = [x \in Items |-> 0]
  /\ builds = 0
  /\ changes = 0

(***************************************************************************)
(* The engine publishes. Publish never blocks: with a full buffer the      *)
(* event is gone.                                                          *)
(***************************************************************************)
Matters(kind) == kind \in {"completed", "failed", "alert"}

Publish(kind, x) ==
  IF Len(inbox) < SubCap
    THEN inbox' = Append(inbox, [kind |-> kind, of |-> x]) /\ UNCHANGED lost
    ELSE /\ lost' = IF Matters(kind) THEN lost \cup {x} ELSE lost
         /\ UNCHANGED inbox

JobStarts(j) ==
  /\ phase[j] = "new"
  /\ phase' = [phase EXCEPT ![j] = "copying"]
  /\ Publish("started", j)
  /\ UNCHANGED <<progress, raised, configVars, msgs, outbox, backoff, sending, chatVars, failed>>

JobProgresses(j) ==
  /\ phase[j] = "copying"
  /\ progress[j] < MaxProgress
  /\ progress' = [progress EXCEPT ![j] = @ + 1]
  /\ Publish("progress", j)
  /\ UNCHANGED <<phase, raised, configVars, msgs, outbox, backoff, sending, chatVars, failed>>

\* A job that fails before it copies (no space, unreadable card) has had no
\* start event.
JobEnds(j) ==
  /\ \E kind \in {"completed", "failed"} :
       /\ phase[j] \in (IF kind = "completed" THEN {"copying"} ELSE {"new", "copying"})
       /\ Publish(kind, j)
  /\ phase' = [phase EXCEPT ![j] = "over"]
  /\ UNCHANGED <<progress, raised, configVars, msgs, outbox, backoff, sending, chatVars, failed>>

Raise(a) ==
  /\ a \notin raised
  /\ raised' = raised \cup {a}
  /\ Publish("alert", a)
  /\ UNCHANGED <<phase, progress, configVars, msgs, outbox, backoff, sending, chatVars, failed>>

(***************************************************************************)
(* The outbox.                                                             *)
(***************************************************************************)
\* Mutants: no limit; the new task goes first.
enqueue_unbounded(t) == outbox' = Append(outbox, t) /\ UNCHANGED lost

enqueue_first(t) ==
  IF Len(outbox) < QueueCap THEN outbox' = <<t>> \o outbox /\ UNCHANGED lost
  ELSE UNCHANGED <<outbox, lost>>

enqueue(t) ==
  IF Len(outbox) < QueueCap
    THEN outbox' = Append(outbox, t) /\ UNCHANGED lost
    ELSE /\ lost' = IF Matters(t.kind) THEN lost \cup {t.of} ELSE lost
         /\ UNCHANGED outbox

task(kind, x, ref) ==
  [kind |-> kind, of |-> x, to |-> notifier.chats, ref |-> ref,
   retries |-> IF kind = "progress" THEN 0 ELSE Retries]

\* run, after a task failed: put back later, or dropped when it has no
\* retries left.
PutBack(t) ==
  /\ failed[t.of] < MaxFaults
  /\ failed' = [failed EXCEPT ![t.of] = @ + 1]
  /\ outbox' = Tail(outbox)
  /\ IF t.retries > 0
       THEN backoff' = backoff \cup {[t EXCEPT !.retries = @ - 1]} /\ UNCHANGED lost
       ELSE /\ lost' = IF Matters(t.kind) THEN lost \cup {t.of} ELSE lost
            /\ UNCHANGED backoff

\* Mutants: a task put back is dropped; one is put back only while others
\* wait.
Wake_drops ==
  \E t \in backoff :
    /\ backoff' = backoff \ {t}
    /\ UNCHANGED <<engineVars, inbox, configVars, msgs, outbox, sending, chatVars, lost, failed>>

Wake_unsignalled ==
  /\ outbox # <<>>
  /\ \E t \in backoff :
       /\ backoff' = backoff \ {t}
       /\ enqueue(t)
  /\ UNCHANGED <<engineVars, inbox, configVars, msgs, sending, chatVars, failed>>

Wake ==
  \E t \in backoff :
    /\ backoff' = backoff \ {t}
    /\ enqueue(t)
    /\ UNCHANGED <<engineVars, inbox, configVars, msgs, sending, chatVars, failed>>

(***************************************************************************)
(* The dispatcher's loop.                                                  *)
(***************************************************************************)
\* takeState: the reference known when the end is handled, and no later one.
takeState(j) == msgs[j] = TRUE

Handle ==
  /\ inbox # <<>>
  /\ inbox' = Tail(inbox)
  /\ LET e == Head(inbox) IN
       \/ /\ notifier = None
          /\ lost' = IF Matters(e.kind) THEN lost \cup {e.of} ELSE lost
          /\ UNCHANGED <<msgs, outbox>>
       \/ /\ notifier # None /\ e.kind = "started"
          /\ msgs' = [msgs EXCEPT ![e.of] = FALSE]
          /\ enqueue(task("started", e.of, FALSE))
       \/ \* shouldEdit; how much time and how many bytes passed is a choice
          /\ notifier # None /\ e.kind = "progress"
          /\ \/ msgs[e.of] = TRUE /\ enqueue(task("progress", e.of, TRUE))
             \/ UNCHANGED <<outbox, lost>>
          /\ UNCHANGED msgs
       \/ /\ notifier # None /\ e.kind \in {"completed", "failed"}
          /\ msgs' = [msgs EXCEPT ![e.of] = None]
          /\ enqueue(task(e.kind, e.of, takeState(e.of)))
       \/ /\ notifier # None /\ e.kind = "alert"
          /\ enqueue(task("alert", e.of, FALSE))
          /\ UNCHANGED msgs
  /\ UNCHANGED <<engineVars, configVars, backoff, sending, chatVars, failed>>

\* handlePutSettings writes one key at a time; the pairs in between are
\* configurations like any other.
ChangeSettings ==
  /\ changes < MaxChanges
  /\ changes' = changes + 1
  /\ settings' \in Configs \ {settings}
  /\ UNCHANGED <<engineVars, inbox, applied, notifier, bots, builds, msgs, outbox,
                 backoff, sending, chatVars, lost, failed>>

usable(c) == c.token /\ c.chats # <<>>

\* Mutant: the cleanup is not called.
stopped_never == bots

\* The running bot, if any, is stopped before another one is built.
stopped == IF notifier # None THEN bots - 1 ELSE bots

\* Mutant: settings count as applied although the bot could not be built.
superviseTelegram_once ==
  /\ settings # applied
  /\ applied' = settings
  /\ \/ /\ ~usable(settings)
        /\ notifier' = None /\ bots' = stopped
        /\ UNCHANGED builds
     \/ /\ usable(settings)
        /\ notifier' = settings /\ bots' = stopped + 1
        /\ UNCHANGED builds
     \/ /\ usable(settings) /\ builds < MaxBuildFails
        /\ builds' = builds + 1
        /\ notifier' = None /\ bots' = stopped
  /\ UNCHANGED <<engineVars, inbox, settings, changes, msgs, outbox, backoff, sending,
                 chatVars, lost, failed>>

\* A bot that cannot be built leaves "" and "" behind, so that the next tick
\* tries again.
superviseTelegram ==
  /\ settings # applied
  /\ \/ /\ ~usable(settings)
        /\ notifier' = None /\ applied' = settings /\ bots' = stopped
        /\ UNCHANGED builds
     \/ /\ usable(settings)
        /\ notifier' = settings /\ applied' = settings /\ bots' = stopped + 1
        /\ UNCHANGED builds
     \/ /\ usable(settings) /\ builds < MaxBuildFails
        /\ builds' = builds + 1
        /\ notifier' = None /\ applied' = Off /\ bots' = stopped
  /\ UNCHANGED <<engineVars, inbox, settings, changes, msgs, outbox, backoff, sending,
                 chatVars, lost, failed>>

(***************************************************************************)
(* The outbox's worker. An attempt succeeds, or fails after some chats got *)
(* their message: a refused one did not, one whose answer was lost did.    *)
(***************************************************************************)
idle == sending = None /\ outbox # <<>>

\* The first chat's message is the one edited later; its reference is stored
\* by RecordStart, after the call returns. The other chats are best effort.
SendStart ==
  /\ idle /\ Head(outbox).kind = "started"
  /\ LET t == Head(outbox)  j == t.of
         posted == late' = IF \E c \in Chats : ends[j][c] > 0 THEN late \cup {j} ELSE late
     IN \/ /\ posted
           /\ shown' = [shown EXCEPT ![j] = "start"]
           /\ sending' = j
           /\ outbox' = Tail(outbox)
           /\ UNCHANGED <<backoff, lost, failed>>
        \/ /\ PutBack(t)
           /\ posted \/ UNCHANGED late
           /\ UNCHANGED <<shown, sending>>
  /\ UNCHANGED <<engineVars, inbox, configVars, msgs, ends, told>>

RecordStart ==
  /\ sending # None
  /\ msgs' = IF msgs[sending] # None THEN [msgs EXCEPT ![sending] = TRUE] ELSE msgs
  /\ sending' = None
  /\ UNCHANGED <<engineVars, inbox, configVars, outbox, backoff, chatVars, lost, failed>>

\* Mutant: a progress edit that fails is tried again like any other task.
SendProgress_retried ==
  /\ idle /\ Head(outbox).kind = "progress"
  /\ outbox' = Tail(outbox)
  /\ \/ shown' = [shown EXCEPT ![Head(outbox).of] = "progress"] /\ UNCHANGED backoff
     \/ backoff' = backoff \cup {Head(outbox)} /\ UNCHANGED shown
  /\ UNCHANGED <<engineVars, inbox, configVars, msgs, sending, ends, late, told, lost, failed>>

\* An edit that fails is not tried again.
SendProgress ==
  /\ idle /\ Head(outbox).kind = "progress"
  /\ LET j == Head(outbox).of IN shown' \in {shown, [shown EXCEPT ![j] = "progress"]}
  /\ outbox' = Tail(outbox)
  /\ UNCHANGED <<engineVars, inbox, configVars, msgs, backoff, sending, ends, late, told,
                 lost, failed>>

reached(count, chats) == [c \in Chats |-> IF c \in chats THEN count[c] + 1 ELSE count[c]]
upTo(to, k) == {to[i] : i \in 1..k}

\* JobCompleted stops at the first chat it cannot reach, JobFailed goes on to
\* the others; either reports the failure, so the whole task runs again.
delivered(t) ==
  IF t.kind = "completed" THEN {upTo(t.to, k) : k \in 0..Len(t.to)}
                          ELSE SUBSET upTo(t.to, Len(t.to))

\* The start message is edited when its reference is known; a failed edit
\* does not fail the task.
SendEnd ==
  /\ idle /\ Head(outbox).kind \in {"completed", "failed"}
  /\ LET t == Head(outbox)  j == t.of IN
       /\ shown' \in {shown} \cup (IF t.ref THEN {[shown EXCEPT ![j] = "end"]} ELSE {})
       /\ \/ /\ ends' = [ends EXCEPT ![j] = reached(@, upTo(t.to, Len(t.to)))]
             /\ outbox' = Tail(outbox)
             /\ UNCHANGED <<backoff, lost, failed>>
          \/ /\ \E some \in delivered(t) : ends' = [ends EXCEPT ![j] = reached(@, some)]
             /\ PutBack(t)
  /\ UNCHANGED <<engineVars, inbox, configVars, msgs, sending, late, told>>

SendAlert ==
  /\ idle /\ Head(outbox).kind = "alert"
  /\ LET t == Head(outbox)  a == t.of IN
       \/ /\ told' = [told EXCEPT ![a] = reached(@, upTo(t.to, Len(t.to)))]
          /\ outbox' = Tail(outbox)
          /\ UNCHANGED <<backoff, lost, failed>>
       \/ /\ \E some \in delivered(t) : told' = [told EXCEPT ![a] = reached(@, some)]
          /\ PutBack(t)
  /\ UNCHANGED <<engineVars, inbox, configVars, msgs, sending, shown, ends, late>>

Next ==
  \/ \E j \in Jobs : JobStarts(j) \/ JobProgresses(j) \/ JobEnds(j)
  \/ \E a \in Alerts : Raise(a)
  \/ Handle \/ ChangeSettings \/ superviseTelegram
  \/ SendStart \/ RecordStart \/ SendProgress \/ SendEnd \/ SendAlert \/ Wake

Spec == Init /\ [][Next]_vars

\* The dispatcher's loop, its ticker, the worker and the backoff timers run;
\* neither the engine nor the user has to do anything.
Worker == SendStart \/ RecordStart \/ SendProgress \/ SendEnd \/ SendAlert
Fairness ==
  /\ WF_vars(Handle) /\ WF_vars(superviseTelegram) /\ WF_vars(Worker) /\ WF_vars(Wake)
FairSpec == Spec /\ Fairness

(***************************************************************************)
(* Properties.                                                             *)
(***************************************************************************)
\* No start is announced after the end of its job, and no chat is told twice
\* that a job is over, unless an attempt of that job failed before: what the
\* comment of queue.go calls "serial execution preserves ordering" holds up
\* to retries, and a task that failed halfway starts over at the first chat.
OrderUnlessRetried ==
  \A j \in Jobs :
    /\ j \in late => failed[j] > 0
    /\ \A c \in Chats : ends[j][c] <= 1 + failed[j]

\* The start message of a job that says the job is over never goes back to
\* "copying": a progress edit queued before the end is not tried again after
\* it (queue.go, retries of progress edits).
EndIsLastWord ==
  [][\A j \in Jobs : shown[j] = "end" => shown'[j] = "end"]_vars

\* Every finished job whose end was not dropped has an event or a task that
\* will tell of it, and keeps no entry in d.jobs: entries outlive their job
\* only when the event that removes them was lost (takeState).
carried(x) ==
  \/ \E i \in DOMAIN inbox : inbox[i].of = x /\ Matters(inbox[i].kind)
  \/ \E i \in DOMAIN outbox : outbox[i].of = x /\ Matters(outbox[i].kind)
  \/ \E t \in backoff : t.of = x /\ Matters(t.kind)
everyone(count) == \E c \in Configs : usable(c) /\ \A i \in DOMAIN c.chats : count[c.chats[i]] > 0
NoEndForgotten ==
  /\ \A j \in Jobs : phase[j] = "over" => j \in lost \/ carried(j) \/ everyone(ends[j])
  /\ \A a \in raised : a \in lost \/ carried(a) \/ everyone(told[a])
  /\ \A j \in Jobs : msgs[j] # None /\ phase[j] = "over" =>
       j \in lost \/ \E i \in DOMAIN inbox : inbox[i].of = j

\* Exactly one bot polls while there is a notifier and none otherwise, also
\* across rebuilds and failed builds (applyConfig, curCleanup).
OnePoller == bots = (IF notifier = None THEN 0 ELSE 1)

\* Every end of a job is announced to all chats of a configuration or was
\* dropped by a full buffer, a missing notifier or exhausted retries.
EndSettles ==
  \A j \in Jobs : phase[j] = "over" ~> j \in lost \/ everyone(ends[j])

\* Settings that stay are in effect after a while, also when a build of the
\* bot fails at first (superviseTelegram, applyConfig).
SettingsTakeEffect ==
  \A c \in Configs :
    <>[](settings = c) => <>[](notifier = (IF usable(c) THEN c ELSE None))
=============================================================================
