------------------------------ MODULE Manager ------------------------------
(***************************************************************************)
(* The ingest engine of cardpit: engine.Manager (manager.go), the control  *)
(* of jobRunner.run (job.go) and the jobs table it writes (store/jobs.go). *)
(*                                                                         *)
(* Actors that interleave:                                                 *)
(*   - the manager's event loop (Run), one goroutine, whose handlers read  *)
(*     and write the maps under m.mu and touch the database outside it;    *)
(*   - one goroutine per admitted job (admit + jobRunner.run);             *)
(*   - HTTP requests: cancel a job, choose the destination, edit a card,   *)
(*     answer the question about an unknown card;                          *)
(*   - the watcher, which publishes attach and detach events on the bus;   *)
(*   - the physical world (drives come and go) and the process itself      *)
(*     (shutdown, crash, restart).                                         *)
(*                                                                         *)
(* What a file is and how it is copied is module Copier; here the outcome  *)
(* of scanning, planning, checking space and copying is a choice.          *)
(***************************************************************************)
EXTENDS Naturals, FiniteSets, Sequences

CONSTANTS
  Jobs,            \* job ids: rows the jobs table may ever hold (a bound)
  Drives,          \* volumes that can be mounted, by volume GUID
  Removable,       \* the drives ListRemovableVolumes reports: cards, USB SSDs
  DefaultDrive,    \* the drive mounted as defaultDestDrive ("D:")
  Serials,         \* volume serials, the identity of a card
  SerialOf,        \* the serial of each removable drive
  UnknownPolicies, \* values the unknown_card_policy setting takes
  UserAnswers,     \* answers the user gives to questions about unknown cards
  CardEdits,       \* policies the user gives to cards by hand; "unknown" deletes
  CancelTargets,   \* jobs the user asks to cancel
  DestChoices,     \* destinations the user picks in the UI
  MaxConcurrent,   \* capacity of the semaphore m.sem
  InboxCap,        \* buffer of the manager's bus subscription (256 in Run)
  Pluggable,       \* drives that come and go; the others stay as they start
  MayStop,         \* whether the process stops and restarts in the run
  None             \* no job, no drive, no value

ASSUME MaxConcurrentAssumption == MaxConcurrent \in Nat \ {0}
ASSUME InboxCapAssumption == InboxCap \in Nat \ {0}
ASSUME JobsAssumption == IsFiniteSet(Jobs) /\ None \notin Jobs
ASSUME DrivesAssumption ==
  /\ Removable \subseteq Drives
  /\ DefaultDrive \in Drives
  /\ Pluggable \subseteq Drives
  /\ None \notin Drives
\* cards.volume_serial is UNIQUE and awaiting is keyed by serial: the code
\* takes a serial to identify one card.
ASSUME SerialsIdentifyVolumes ==
  /\ SerialOf \in [Removable -> Serials]
  /\ \A v, w \in Removable : SerialOf[v] = SerialOf[w] => v = w
ASSUME PoliciesAssumption == UnknownPolicies \subseteq {"copy", "ask", "ignore"}
ASSUME MayStopAssumption == MayStop \in BOOLEAN
ASSUME UserAssumption ==
  /\ UserAnswers \subseteq {"copy", "ignore", "always_ignore"}
  /\ CardEdits \subseteq {"unknown", "copy", "ignore"}
  /\ CancelTargets \subseteq Jobs
  /\ DestChoices \subseteq Drives \cup {None}

VARIABLES
  \* --- database -----------------------------------------------------------
  status,     \* jobs.status; "unused" for a row that does not exist yet
  vol,        \* the volume of the job (queuedJob.vol)
  dest,       \* setting dest_volume_guid; None when empty
  cards,      \* policy of the registered card with this serial, or "unknown"
  \* --- job goroutines -----------------------------------------------------
  pc,         \* where the goroutine of the job is; "idle" when it has none
  cause,      \* why the job's context was cancelled; "none" while it is live
  \* --- maps of the Manager, guarded by m.mu -------------------------------
  byGUID,     \* volume -> job registered as running on it, or None
  blocked,    \* jobs parked until the destination is mounted
  awaiting,   \* serial -> job waiting for a decision, or None
  \* --- event loop ---------------------------------------------------------
  loop,       \* where the loop is; "down" when the process is not running
  cur,        \* volume whose attach event is being handled, or None
  retryQ,     \* the copy of blocked that retryBlocked works from
  kick,       \* the one-slot channel m.kick holds a token
  ctxDone,    \* the context of Run was cancelled (service stop)
  inbox,      \* events buffered in the manager's subscription
  \* --- HTTP cancel requests -----------------------------------------------
  cancelReq,  \* progress of the request to cancel the job
  \* --- outside the process ------------------------------------------------
  present,    \* drives mounted now
  watched     \* volumes the watcher has reported attached (volState.attached)

dbVars   == <<status, vol, dest, cards>>
runVars  == <<pc, cause>>
mapVars  == <<byGUID, blocked, awaiting>>
loopVars == <<loop, cur, retryQ, kick, ctxDone>>
envVars  == <<present, watched>>
vars == <<dbVars, runVars, mapVars, loopVars, inbox, cancelReq, envVars>>

-----------------------------------------------------------------------------
Terminal == {"done", "failed", "cancelled"}
Active   == {"awaiting_decision", "pending", "copying"}
Statuses == {"unused"} \cup Active \cup Terminal

Causes  == {"none", "detached", "user", "shutdown"}
Answers == {"copy", "ignore", "always_ignore"}
Events  == ({"attach", "detach"} \X Removable) \cup (Answers \X Serials)

\* The goroutine is inside runner.run: it has a context of its own and, as
\* long as no other job of the volume interferes, an entry in byGUID.
Running == {"scan", "planned", "space", "copy", "eject", "unwind", "parking"}
\* It holds a slot of the semaphore.
Holding == Running \cup {"admitted"}
PCs     == Holding \cup {"idle", "queued"}

\* The seed and attach steps of the loop come before "idle"; retry steps after.
LoopPCs == {"down", "idle", "seed", "seedset", "attach", "retry", "resolve", "resume"}
Handling == {"seed", "seedset", "attach"}

Up == loop # "down"
Holders == {j \in Jobs : pc[j] \in Holding}
Cancelled(j) == cause[j] # "none"       \* ctx.Err() # nil
Resolvable(d) == d # None /\ d \in present \* resolveDest returns no error

\* Mutant: open questions are forgotten.
isTracked_noAwaiting(v) == byGUID[v] # None \/ \E j \in blocked : vol[j] = v

\* isTracked: the volume has a job the manager knows of.
isTracked(v) ==
  \/ byGUID[v] # None
  \/ \E j \in blocked : vol[j] = v
  \/ \E s \in Serials : awaiting[s] # None /\ vol[awaiting[s]] = v

\* Bus.Publish towards the manager: never blocks, drops when the buffer is full.
Publish(e) == inbox' = IF Len(inbox) < InboxCap THEN Append(inbox, e) ELSE inbox

TypeOK ==
  /\ status \in [Jobs -> Statuses]
  /\ vol \in [Jobs -> Removable \cup {None}]
  /\ dest \in Drives \cup {None}
  /\ cards \in [Serials -> {"unknown", "copy", "ignore"}]
  /\ pc \in [Jobs -> PCs]
  /\ cause \in [Jobs -> Causes]
  /\ byGUID \in [Removable -> Jobs \cup {None}]
  /\ blocked \subseteq Jobs
  /\ awaiting \in [Serials -> Jobs \cup {None}]
  /\ loop \in LoopPCs
  /\ cur \in Removable \cup {None}
  /\ retryQ \subseteq Jobs
  /\ kick \in BOOLEAN
  /\ ctxDone \in BOOLEAN
  /\ inbox \in Seq(Events)
  /\ cancelReq \in [Jobs -> {"none", "taken", "accepted", "refused", "aborted"}]
  /\ present \subseteq Drives
  /\ watched \subseteq Removable

Init ==
  /\ status = [j \in Jobs |-> "unused"]
  /\ vol = [j \in Jobs |-> None]
  /\ dest = None
  /\ cards = [s \in Serials |-> "unknown"]
  /\ pc = [j \in Jobs |-> "idle"]
  /\ cause = [j \in Jobs |-> "none"]
  /\ byGUID = [v \in Removable |-> None]
  /\ blocked = {}
  /\ awaiting = [s \in Serials |-> None]
  /\ loop = "down"
  /\ cur = None
  /\ retryQ = {}
  /\ kick = FALSE
  /\ ctxDone = FALSE
  /\ inbox = <<>>
  /\ cancelReq = [j \in Jobs |-> "none"]
  /\ present \in SUBSET Drives
  /\ watched = {}

-----------------------------------------------------------------------------
(* Job goroutines: admit and jobRunner.run.                                 *)

\* select { case m.sem <- struct{}{} }
AcquireSem(j) ==
  /\ pc[j] = "queued"
  /\ Cardinality(Holders) < MaxConcurrent
  /\ pc' = [pc EXCEPT ![j] = "admitted"]
  /\ UNCHANGED <<dbVars, cause, mapVars, loopVars, inbox, cancelReq, envVars>>

\* select { case <-ctx.Done(): return }
QueuedExit(j) ==
  /\ pc[j] = "queued"
  /\ ctxDone
  /\ pc' = [pc EXCEPT ![j] = "idle"]
  /\ UNCHANGED <<dbVars, cause, mapVars, loopVars, inbox, cancelReq, envVars>>

\* A fresh context, and the entry in byGUID whatever was there before.
Register(j) ==
  /\ pc[j] = "admitted"
  /\ byGUID' = [byGUID EXCEPT ![vol[j]] = j]
  /\ cause' = [cause EXCEPT ![j] = IF ctxDone THEN "shutdown" ELSE "none"]
  /\ pc' = [pc EXCEPT ![j] = "scan"]
  /\ UNCHANGED <<dbVars, blocked, awaiting, loopVars, inbox, cancelReq, envVars>>

\* Mutant: a status outside the enumeration.
EndStatus_typo(j) == IF cause[j] = "user" THEN "canceled" ELSE "failed"

\* Mutant: a card pulled out counts as a cancellation.
EndStatus_anyCause(j) == IF cause[j] \in {"user", "detached"} THEN "cancelled" ELSE "failed"

\* The status fail and the end of run record, by the cause of the context.
EndStatus(j) == IF cause[j] = "user" THEN "cancelled" ELSE "failed"

fail(j) ==
  /\ status' = [status EXCEPT ![j] = EndStatus(j)]
  /\ pc' = [pc EXCEPT ![j] = "unwind"]
  /\ UNCHANGED <<vol, dest, cards, cause>>

\* scanSource and planDedup. An I/O error or a cancelled context fails the
\* job; the plan of a card without files never looks at the context, so it can
\* succeed even after a cancellation.
ScanAndPlan(j) ==
  /\ pc[j] = "scan"
  /\ \/ fail(j)
     \/ /\ pc' = [pc EXCEPT ![j] = "planned"]
        /\ UNCHANGED <<dbVars, cause>>
  /\ UNCHANGED <<mapVars, loopVars, inbox, cancelReq, envVars>>

\* resolveDest reads the setting with the job's context, so a cancelled
\* context reads as "no destination configured" and the job goes to wait.
ResolveDest(j) ==
  /\ pc[j] = "planned"
  /\ IF Cancelled(j) \/ ~Resolvable(dest)
     THEN /\ status' = [status EXCEPT ![j] = "pending"]
          /\ pc' = [pc EXCEPT ![j] = "parking"]
     ELSE /\ status' = status
          /\ pc' = [pc EXCEPT ![j] = "space"]
  /\ UNCHANGED <<vol, dest, cards, cause, mapVars, loopVars, inbox, cancelReq, envVars>>

\* FreeSpace fails or is short: fail; otherwise the copy starts.
CheckSpace(j) ==
  /\ pc[j] = "space"
  /\ \/ fail(j)
     \/ /\ status' = [status EXCEPT ![j] = "copying"]
        /\ pc' = [pc EXCEPT ![j] = "copy"]
        /\ UNCHANGED <<vol, dest, cards, cause>>
  /\ UNCHANGED <<mapVars, loopVars, inbox, cancelReq, envVars>>

\* The copy loop ended, by exhaustion or because the context was cancelled. A
\* job with failed files is done as well, but its card is not ejected.
FinishCopy(j) ==
  /\ pc[j] = "copy"
  /\ \/ /\ Cancelled(j)
        /\ status' = [status EXCEPT ![j] = EndStatus(j)]
        /\ pc' = [pc EXCEPT ![j] = "unwind"]
     \/ /\ ~Cancelled(j)
        /\ status' = [status EXCEPT ![j] = "done"]
        /\ \E next \in {"eject", "unwind"} : pc' = [pc EXCEPT ![j] = next]
  /\ UNCHANGED <<vol, dest, cards, cause, mapVars, loopVars, inbox, cancelReq, envVars>>

\* Eject is optional (setting) and its failure is only logged.
Eject(j) ==
  /\ pc[j] = "eject"
  /\ pc' = [pc EXCEPT ![j] = "unwind"]
  /\ present' \in {present, present \ {vol[j]}}
  /\ UNCHANGED <<dbVars, cause, mapVars, loopVars, inbox, cancelReq, watched>>

\* The deferred release of the slot and of the context, taken together with
\* the unlock before it: giving a slot back earlier only lets others run.
goroutineEnds(j) ==
  /\ pc' = [pc EXCEPT ![j] = "idle"]
  /\ cause' = [cause EXCEPT ![j] = "none"]

\* Mutant: the entry outlives the goroutine.
Unwind_keepsEntry(j) ==
  /\ pc[j] = "unwind"
  /\ goroutineEnds(j)
  /\ UNCHANGED <<dbVars, mapVars, loopVars, inbox, cancelReq, envVars>>

\* delete(m.byGUID, guid): whoever's entry it is.
Unwind(j) ==
  /\ pc[j] = "unwind"
  /\ byGUID' = [byGUID EXCEPT ![vol[j]] = None]
  /\ goroutineEnds(j)
  /\ UNCHANGED <<dbVars, blocked, awaiting, loopVars, inbox, cancelReq, envVars>>

\* Mutant: the job is not put into blocked.
Park_loses(j) ==
  /\ pc[j] = "parking"
  /\ byGUID' = [byGUID EXCEPT ![vol[j]] = None]
  /\ goroutineEnds(j)
  /\ UNCHANGED <<dbVars, blocked, awaiting, loopVars, inbox, cancelReq, envVars>>

Park(j) ==
  /\ pc[j] = "parking"
  /\ byGUID' = [byGUID EXCEPT ![vol[j]] = None]
  /\ blocked' = blocked \cup {j}
  /\ goroutineEnds(j)
  /\ UNCHANGED <<dbVars, awaiting, loopVars, inbox, cancelReq, envVars>>

Runner(j) ==
  \/ AcquireSem(j) \/ QueuedExit(j) \/ Register(j)
  \/ ScanAndPlan(j) \/ ResolveDest(j) \/ CheckSpace(j)
  \/ FinishCopy(j) \/ Eject(j)
  \/ Unwind(j) \/ Park(j)

-----------------------------------------------------------------------------
(* The event loop. Its handlers are taken only while the context is live:   *)
(* afterwards their database writes fail and their maps die with the        *)
(* process.                                                                 *)

LoopAt(l) == loop = l /\ ~ctxDone

\* A handler step that leaves jobs, maps and environment alone.
OnlyLoop == UNCHANGED <<dbVars, runVars, mapVars, ctxDone, cancelReq, envVars>>

\* handleAttach up to the duplicate check.
TakeAttach ==
  /\ LoopAt("idle")
  /\ inbox # <<>> /\ Head(inbox)[1] = "attach"
  /\ inbox' = Tail(inbox)
  /\ IF isTracked(Head(inbox)[2])
     THEN UNCHANGED <<loop, cur>>
     ELSE loop' = "seed" /\ cur' = Head(inbox)[2]
  /\ UNCHANGED <<retryQ, kick>>
  /\ OnlyLoop

\* The periodic tick: seedDefaultDest, then retryBlocked.
Tick ==
  /\ LoopAt("idle")
  /\ loop' = "seed"
  /\ UNCHANGED <<cur, retryQ, kick, inbox>>
  /\ OnlyLoop

\* <-m.kick: retryBlocked at once.
TakeKick ==
  /\ LoopAt("idle")
  /\ kick
  /\ kick' = FALSE
  /\ loop' = "retry"
  /\ UNCHANGED <<cur, retryQ, inbox>>
  /\ OnlyLoop

\* Mutant: the tick seeds and forgets to retry.
AfterSeed_noRetry == IF cur = None THEN "idle" ELSE "attach"

AfterSeed == IF cur = None THEN "retry" ELSE "attach"

\* seedDefaultDest, first half: the setting is empty and D: is mounted.
SeedRead ==
  /\ LoopAt("seed")
  /\ loop' = IF dest = None /\ DefaultDrive \in present THEN "seedset" ELSE AfterSeed
  /\ UNCHANGED <<cur, retryQ, kick, inbox>>
  /\ OnlyLoop

\* seedDefaultDest, second half: Settings.Set.
SeedSet ==
  /\ LoopAt("seedset")
  /\ dest' = DefaultDrive
  /\ loop' = AfterSeed
  /\ UNCHANGED <<status, vol, cards, runVars, mapVars, cur, retryQ, kick, ctxDone, inbox, cancelReq, envVars>>

\* Jobs.Create with this status; any unused id stands for the next one.
Create(j, st) ==
  /\ status[j] = "unused"
  /\ status' = [status EXCEPT ![j] = st]
  /\ vol' = [vol EXCEPT ![j] = cur]

createAndAdmit(j) ==
  /\ Create(j, "pending")
  /\ pc' = [pc EXCEPT ![j] = "queued"]
  /\ awaiting' = awaiting

\* Mutant: the question falls through to admit.
askUnknown_admits(j) ==
  /\ Create(j, "awaiting_decision")
  /\ awaiting' = [awaiting EXCEPT ![SerialOf[cur]] = j]
  /\ pc' = [pc EXCEPT ![j] = "queued"]

askUnknown(j) ==
  /\ Create(j, "awaiting_decision")
  /\ awaiting' = [awaiting EXCEPT ![SerialOf[cur]] = j]
  /\ pc' = pc

\* What handleAttach decides for the card: its registered policy, or the
\* unknown_card_policy setting as it reads at this moment.
Policies == LET c == cards[SerialOf[cur]]
            IN  IF c = "unknown" THEN UnknownPolicies ELSE {c}

\* handleAttach after the seed. "ignore" also stands for the early returns:
\* the destination itself, a card without DCIM, a failed lookup or insert.
HandleAttach ==
  /\ LoopAt("attach")
  /\ loop' = "idle" /\ cur' = None
  /\ \/ UNCHANGED <<status, vol, pc, awaiting>>
     \/ \E j \in Jobs :
          /\ cur # dest
          /\ \/ "copy" \in Policies /\ createAndAdmit(j)
             \/ "ask" \in Policies /\ askUnknown(j)
  /\ UNCHANGED <<dest, cards, cause, byGUID, blocked,
                 retryQ, kick, ctxDone, inbox, cancelReq, envVars>>

\* handleDetach: cancels the registered job, drops at most one blocked job and
\* at most one question of the volume and finishes them.
blockedOn(v) == {j \in blocked : vol[j] = v}
askedOn(v) == {j \in Jobs : vol[j] = v /\ \E s \in Serials : awaiting[s] = j}
pickOne(S) == IF S = {} THEN {{}} ELSE {{j} : j \in S}

CancelCause(j, c) == [cause EXCEPT ![j] = IF @ = "none" THEN c ELSE @]

HandleDetach ==
  /\ LoopAt("idle")
  /\ inbox # <<>> /\ Head(inbox)[1] = "detach"
  /\ inbox' = Tail(inbox)
  /\ LET v == Head(inbox)[2] IN
     \E B \in pickOne(blockedOn(v)), A \in pickOne(askedOn(v)) :
       /\ cause' = IF byGUID[v] = None THEN cause ELSE CancelCause(byGUID[v], "detached")
       /\ blocked' = blocked \ B
       /\ awaiting' = [s \in Serials |-> IF awaiting[s] \in A THEN None ELSE awaiting[s]]
       /\ status' = [j \in Jobs |-> CASE j \in B -> "failed"
                                      [] j \in A -> "cancelled"
                                      [] OTHER -> status[j]]
  /\ UNCHANGED <<vol, dest, cards, pc, byGUID, loopVars, cancelReq, envVars>>

\* handleDecision: an answer registers the card (a serial already registered
\* keeps its row: Cards.Create fails and is logged) and starts or ends the job.
HandleDecision ==
  /\ LoopAt("idle")
  /\ inbox # <<>> /\ Head(inbox)[1] \in Answers
  /\ inbox' = Tail(inbox)
  /\ LET a == Head(inbox)[1]
         s == Head(inbox)[2]
         j == awaiting[s]
     IN  IF j = None
         THEN UNCHANGED <<status, cards, pc, awaiting>>
         ELSE /\ awaiting' = [awaiting EXCEPT ![s] = None]
              /\ cards' = [cards EXCEPT ![s] =
                   CASE @ # "unknown" \/ a = "ignore" -> @
                     [] a = "copy" -> "copy"
                     [] OTHER -> "ignore"]
              /\ status' = [status EXCEPT ![j] = IF a = "copy" THEN "pending" ELSE "cancelled"]
              /\ pc' = [pc EXCEPT ![j] = IF a = "copy" THEN "queued" ELSE @]
  /\ UNCHANGED <<vol, dest, cause, byGUID, blocked, loopVars, cancelReq, envVars>>

\* retryBlocked: copy blocked under the lock ...
RetrySnapshot ==
  /\ LoopAt("retry")
  /\ IF blocked = {}
     THEN loop' = "idle" /\ UNCHANGED retryQ
     ELSE loop' = "resolve" /\ retryQ' = blocked
  /\ UNCHANGED <<cur, kick, inbox>>
  /\ OnlyLoop

\* ... resolve the destination with the lock released ...
RetryResolve ==
  /\ LoopAt("resolve")
  /\ IF Resolvable(dest)
     THEN loop' = "resume" /\ UNCHANGED retryQ
     ELSE loop' = "idle" /\ retryQ' = {}
  /\ UNCHANGED <<cur, kick, inbox>>
  /\ OnlyLoop

\* Mutant: the admitted job stays in blocked.
ResumeOne_keepsBlocked(j) ==
  /\ LoopAt("resume")
  /\ j \in retryQ
  /\ retryQ' = retryQ \ {j}
  /\ loop' = IF retryQ' = {} THEN "idle" ELSE "resume"
  /\ pc' = [pc EXCEPT ![j] = "queued"]
  /\ UNCHANGED <<dbVars, cause, mapVars, cur, kick, ctxDone, inbox, cancelReq, envVars>>

\* ... and admit the copied jobs one by one, still blocked or not.
ResumeOne(j) ==
  /\ LoopAt("resume")
  /\ j \in retryQ
  /\ retryQ' = retryQ \ {j}
  /\ loop' = IF retryQ' = {} THEN "idle" ELSE "resume"
  /\ blocked' = blocked \ {j}
  /\ pc' = [pc EXCEPT ![j] = "queued"]
  /\ UNCHANGED <<dbVars, cause, byGUID, awaiting,
                 cur, kick, ctxDone, inbox, cancelReq, envVars>>

Loop ==
  \/ TakeAttach \/ Tick \/ TakeKick \/ SeedRead \/ SeedSet
  \/ HandleAttach \/ HandleDetach \/ HandleDecision
  \/ RetrySnapshot \/ RetryResolve \/ \E j \in Jobs : ResumeOne(j)

-----------------------------------------------------------------------------
(* HTTP requests and the answer buttons.                                    *)

\* The HTTP server and the watcher stop with the context.
Serving == Up /\ ~ctxDone

registered(j) == \E v \in Removable : byGUID[v] = j
asked(j) == \E s \in Serials : awaiting[s] = j

\* Manager.Cancel, the part under the lock. A parked or asked job is taken out
\* of its map and finished in a second step. Bound: a job is cancelled once
\* (a refused request may be repeated).
CancelRequest(j) ==
  /\ Serving
  /\ status[j] # "unused"
  /\ cancelReq[j] \in {"none", "refused"}
  /\ \/ /\ registered(j)
        /\ cause' = CancelCause(j, "user")
        /\ cancelReq' = [cancelReq EXCEPT ![j] = "accepted"]
        /\ UNCHANGED <<blocked, awaiting>>
     \/ /\ ~registered(j) /\ j \in blocked
        /\ blocked' = blocked \ {j}
        /\ cancelReq' = [cancelReq EXCEPT ![j] = "taken"]
        /\ UNCHANGED <<cause, awaiting>>
     \/ /\ ~registered(j) /\ j \notin blocked /\ asked(j)
        /\ awaiting' = [s \in Serials |-> IF awaiting[s] = j THEN None ELSE awaiting[s]]
        /\ cancelReq' = [cancelReq EXCEPT ![j] = "taken"]
        /\ UNCHANGED <<cause, blocked>>
     \/ /\ ~registered(j) /\ j \notin blocked /\ ~asked(j)
        /\ cancelReq' = [cancelReq EXCEPT ![j] = "refused"]
        /\ UNCHANGED <<cause, blocked, awaiting>>
  /\ UNCHANGED <<dbVars, pc, byGUID, loopVars, inbox, envVars>>

\* ... Jobs.Finish with the context of the request ...
CancelFinish(j) ==
  /\ cancelReq[j] = "taken"
  /\ status' = [status EXCEPT ![j] = "cancelled"]
  /\ cancelReq' = [cancelReq EXCEPT ![j] = "accepted"]
  /\ UNCHANGED <<vol, dest, cards, runVars, mapVars, loopVars, inbox, envVars>>

\* ... which fails when the client has closed the connection meanwhile.
CancelAborted(j) ==
  /\ cancelReq[j] = "taken"
  /\ cancelReq' = [cancelReq EXCEPT ![j] = "aborted"]
  /\ UNCHANGED <<dbVars, runVars, mapVars, loopVars, inbox, envVars>>

\* handlePutSettings for dest_volume_guid, KickDestRetry included.
PutDest(d) ==
  /\ Serving
  /\ dest' = d
  /\ kick' = TRUE
  /\ UNCHANGED <<status, vol, cards, runVars, mapVars, loop, cur, retryQ, ctxDone, inbox, cancelReq, envVars>>

\* Card CRUD: create, change the policy, delete.
EditCard(s, p) ==
  /\ Serving
  /\ cards' = [cards EXCEPT ![s] = p]
  /\ UNCHANGED <<status, vol, dest, runVars, mapVars, loopVars, inbox, cancelReq, envVars>>

\* handleCardDecision and the Telegram buttons publish without looking whether
\* the question is still open.
Decide(s, a) ==
  /\ Serving
  /\ Publish(<<a, s>>)
  /\ UNCHANGED <<dbVars, runVars, mapVars, loopVars, cancelReq, envVars>>

Requests ==
  \/ \E j \in CancelTargets : CancelRequest(j) \/ CancelFinish(j) \/ CancelAborted(j)
  \/ \E d \in DestChoices : PutDest(d)
  \/ \E s \in Serials, p \in CardEdits : EditCard(s, p)
  \/ \E s \in Serials, a \in UserAnswers : Decide(s, a)

-----------------------------------------------------------------------------
(* The watcher, the drives and the process.                                 *)

\* The outcome of a poll for one volume, after the debounce.
WatchAttach(v) ==
  /\ Serving
  /\ v \in present /\ v \notin watched
  /\ watched' = watched \cup {v}
  /\ Publish(<<"attach", v>>)
  /\ UNCHANGED <<dbVars, runVars, mapVars, loopVars, cancelReq, present>>

WatchDetach(v) ==
  /\ Serving
  /\ v \in watched /\ v \notin present
  /\ watched' = watched \ {v}
  /\ Publish(<<"detach", v>>)
  /\ UNCHANGED <<dbVars, runVars, mapVars, loopVars, cancelReq, present>>

\* A drive is plugged in or pulled out.
Plug(d) ==
  /\ present' = IF d \in present THEN present \ {d} ELSE present \cup {d}
  /\ UNCHANGED <<dbVars, runVars, mapVars, loopVars, inbox, cancelReq, watched>>

\* The service is asked to stop: every context derived from Run's is done.
Shutdown ==
  /\ MayStop /\ Up /\ ~ctxDone
  /\ ctxDone' = TRUE
  /\ cause' = [j \in Jobs |-> IF pc[j] \in Running /\ cause[j] = "none"
                              THEN "shutdown" ELSE cause[j]]
  /\ UNCHANGED <<dbVars, pc, mapVars, loop, cur, retryQ, kick, inbox, cancelReq, envVars>>

\* The process ends, stopped or killed, at any step of any goroutine. app.Run
\* does not wait for the job goroutines. Only the database survives.
Crash ==
  /\ MayStop /\ Up
  /\ loop' = "down" /\ cur' = None /\ retryQ' = {} /\ kick' = FALSE /\ ctxDone' = FALSE
  /\ pc' = [j \in Jobs |-> "idle"]
  /\ cause' = [j \in Jobs |-> "none"]
  /\ byGUID' = [v \in Removable |-> None]
  /\ blocked' = {}
  /\ awaiting' = [s \in Serials |-> None]
  /\ inbox' = <<>>
  /\ cancelReq' = [j \in Jobs |-> IF cancelReq[j] = "taken" THEN "aborted" ELSE cancelReq[j]]
  /\ watched' = {}
  /\ UNCHANGED <<dbVars, present>>

\* Mutant: only questions and queued jobs are cleaned up.
FailInterrupted_onlyWaiting ==
  status' = [j \in Jobs |-> IF status[j] \in {"awaiting_decision", "pending"}
                            THEN "cancelled" ELSE status[j]]

\* Mutant: the WHERE clause is lost.
FailInterrupted_all ==
  status' = [j \in Jobs |-> IF status[j] = "unused" THEN "unused" ELSE "failed"]

\* FailInterrupted: interrupted copies fail, open questions and queued jobs
\* are cancelled.
FailInterrupted ==
  status' = [j \in Jobs |-> CASE status[j] = "copying" -> "failed"
                              [] status[j] \in {"awaiting_decision", "pending"} -> "cancelled"
                              [] OTHER -> status[j]]

\* The process starts: Recover, then Run up to its first seedDefaultDest.
\* (blocked is empty, so the retry step that follows a seed does nothing.)
Boot ==
  /\ loop = "down"
  /\ FailInterrupted
  /\ loop' = "seed"
  /\ UNCHANGED <<vol, dest, cards, runVars, mapVars, cur, retryQ, kick, ctxDone, inbox, cancelReq, envVars>>

Environment ==
  \/ \E v \in Removable : WatchAttach(v) \/ WatchDetach(v)
  \/ \E d \in Pluggable : Plug(d)
  \/ Shutdown \/ Crash \/ Boot

Next == (\E j \in Jobs : Runner(j)) \/ Loop \/ Requests \/ Environment

Spec == Init /\ [][Next]_vars

\* Fairness the runtime provides: a runnable goroutine runs (weak fairness of
\* its steps, of the handlers once started and of the polling watcher); senders
\* waiting on m.sem are served in order, and select picks among the ready cases
\* of Run at random (strong fairness of taking the slot and of each case).
\* Users, drives and the end of the process are under no obligation.
LoopStep ==
  \/ SeedRead \/ SeedSet \/ HandleAttach
  \/ RetrySnapshot \/ RetryResolve \/ \E j \in Jobs : ResumeOne(j)

Fairness ==
  /\ \A j \in Jobs :
       /\ SF_vars(AcquireSem(j))
       /\ WF_vars(Register(j) \/ ScanAndPlan(j) \/ ResolveDest(j) \/ CheckSpace(j)
                  \/ FinishCopy(j) \/ Eject(j) \/ Unwind(j) \/ Park(j))
       /\ WF_vars(CancelFinish(j) \/ CancelAborted(j))
  /\ WF_vars(LoopStep)
  /\ SF_vars(Tick)
  /\ SF_vars(TakeAttach \/ HandleDetach \/ HandleDecision)
  /\ \A v \in Removable : WF_vars(WatchAttach(v) \/ WatchDetach(v))
  /\ WF_vars(Boot)

FairSpec == Spec /\ Fairness

-----------------------------------------------------------------------------
(* Properties.                                                              *)

\* A job is in the hands of at most one owner: a goroutine, the blocked map or
\* the awaiting map; and retryBlocked never works on a job that has a
\* goroutine. This is what keeps a job from being admitted twice and two
\* goroutines from copying for the same row (admit, retryBlocked,
\* handleDecision and Cancel all move jobs between the maps).
OneOwnerPerJob ==
  \A j \in Jobs :
    /\ j \in blocked => pc[j] = "idle" /\ ~asked(j)
    /\ asked(j) => pc[j] = "idle"
    /\ j \in retryQ => pc[j] = "idle" /\ ~asked(j)

\* A job the database shows as active has somebody who will move it on: an
\* open question can be answered, a pending job is queued, running, parked or
\* about to be cancelled, a copying job is being copied. Otherwise it would
\* stay active until the next restart, could not be cancelled, and would hold
\* back the self-update. The one exception is a cancel request whose client
\* left between the two steps of Manager.Cancel; a stopping process is exempt.
ActiveJobHasOwner ==
  Up /\ ~ctxDone =>
    \A j \in Jobs :
      cancelReq[j] \notin {"taken", "aborted"} =>
        /\ status[j] = "awaiting_decision" => awaiting[SerialOf[vol[j]]] = j
        /\ status[j] = "pending" => pc[j] # "idle" \/ j \in blocked
        /\ status[j] = "copying" => pc[j] = "copy"

\* The registry Cancel and handleDetach look jobs up in only names jobs whose
\* goroutine is inside run on that very volume, although two jobs of one
\* volume overwrite and delete each other's entry.
RegistryNamesLiveJobs ==
  \A v \in Removable :
    byGUID[v] # None => pc[byGUID[v]] \in Running /\ vol[byGUID[v]] = v

\* The jobs table never shows more copies in progress than the semaphore
\* allows: no path leaves a job "copying" after its slot was given back.
CopyingWithinLimit ==
  Up => Cardinality({j \in Jobs : status[j] = "copying"}) <= MaxConcurrent

\* A job that ended done or failed keeps that outcome: no late goroutine,
\* answer, detach or recovery rewrites it. Only a cancel request that had
\* already taken the job out of its map may still write "cancelled" over it.
FinishedIsFinal ==
  [][\A j \in Jobs :
       status[j] \in {"done", "failed"} /\ status'[j] # status[j]
         => cancelReq[j] = "taken" /\ status'[j] = "cancelled"]_vars

\* Nothing waits for ever: once the drives stay put and the destination is
\* mounted, every pending job (queued for a slot, parked for the destination
\* or sent back by a lost cancellation) reaches a terminal status, unless the
\* client of its cancel request left half-way.
PendingIsResolved ==
  (\E P \in SUBSET Drives : <>[](present = P /\ Resolvable(dest))) =>
    \A j \in Jobs :
      status[j] = "pending" ~> (status[j] \in Terminal \/ cancelReq[j] = "aborted")

\* The manager implements JobLifecycle: what a row of the jobs table says and
\* the slots of the semaphore follow the lifecycle through every interleaving
\* of goroutines, detaches, answers, retries, cancel requests and restarts.
\* Above all, "cancelled" is only recorded for a job whose cancellation was
\* asked for or whose question was closed, and only a cancel request that
\* raced with retryBlocked lets a cancelled job go on.
Taken == {j \in Jobs : cancelReq[j] = "taken"}
Accepted == {j \in Jobs : cancelReq[j] = "accepted"}
Lifecycle == INSTANCE JobLifecycle WITH slots <- Holders, taken <- Taken, cancelled <- Accepted, up <- Up
FollowsLifecycle == Lifecycle!Spec

-----------------------------------------------------------------------------
(* The strengthening that makes the properties above inductive.             *)

\* The status a job can have where it is. A cancel request that lost the race
\* with retryBlocked may write "cancelled" over a job that is on its way again.
StatusFitsPlace ==
  \A j \in Jobs :
    /\ status[j] # "unused" => vol[j] \in Removable
    /\ cancelReq[j] # "none" => status[j] # "unused"
    /\ pc[j] # "idle" \/ j \in blocked \/ j \in retryQ => status[j] # "unused"
    /\ pc[j] \in {"queued", "admitted", "scan", "planned", "space", "parking"}
         => status[j] \in {"pending", "cancelled"}
    /\ pc[j] = "copy" => status[j] \in {"copying", "cancelled"}
    /\ pc[j] \in {"eject", "unwind"} => status[j] \in Terminal
    /\ j \in blocked \/ j \in retryQ => status[j] \in {"pending", "cancelled"}
    /\ Up /\ status[j] = "copying" => pc[j] = "copy"

\* An entry of awaiting is an open question about the card of its key.
QuestionsFitKeys ==
  \A s \in Serials :
    awaiting[s] # None =>
      /\ status[awaiting[s]] = "awaiting_decision"
      /\ cancelReq[awaiting[s]] # "taken"
      /\ vol[awaiting[s]] \in Removable
      /\ SerialOf[vol[awaiting[s]]] = s

\* What the loop remembers between its steps.
LoopRemembers ==
  /\ loop = "attach" => cur # None
  /\ loop \notin Handling => cur = None
  /\ \A s \in Serials :
       cur # None /\ awaiting[s] # None => vol[awaiting[s]] # cur
  /\ loop \notin {"resolve", "resume"} => retryQ = {}
  /\ ~Up => /\ blocked = {} /\ ctxDone = FALSE
            /\ \A j \in Jobs : pc[j] = "idle"
            /\ \A s \in Serials : awaiting[s] = None
            /\ \A v \in Removable : byGUID[v] = None

\* The semaphore is never over capacity.
SlotsWithinCapacity == Cardinality(Holders) <= MaxConcurrent

\* On its way to the archive, or waiting for the destination to go on.
underWay(j) ==
  pc[j] \notin {"idle", "eject", "unwind"} \/ j \in blocked \/ j \in retryQ

\* A cancellation of a job under way was asked for, and its request is over.
CancelledOnRequest ==
  \A j \in Jobs :
    /\ cause[j] = "user" => cancelReq[j] = "accepted"
    /\ status[j] = "cancelled" /\ underWay(j) => cancelReq[j] = "accepted"
    /\ ~Up => cancelReq[j] # "taken"

IInv ==
  /\ TypeOK /\ OneOwnerPerJob /\ RegistryNamesLiveJobs
  /\ StatusFitsPlace /\ QuestionsFitKeys /\ LoopRemembers

-----------------------------------------------------------------------------
(* What the documentation says and the code does not keep.                  *)

\* PRD.md RF-03.1: one copy job per detected volume; the engine test relies on
\* isTracked to drop duplicate attach events. isTracked knows nothing of a job
\* that waits for a slot of the semaphore.
OneJobPerVolume ==
  \A j, k \in Jobs :
    pc[j] # "idle" /\ pc[k] # "idle" /\ vol[j] = vol[k] => j = k

\* Manager.Cancel: "aborts a job from the API". A job whose cancel request was
\* accepted is not started again. retryBlocked admits from a copy made before
\* the cancellation, and a cancellation that reaches a job on its way to the
\* blocked map is forgotten with its context.
AcceptedCancelAborts ==
  [][\A j \in Jobs :
       cancelReq[j] = "accepted" /\ pc[j] = "queued" => pc'[j] # "admitted"]_vars

\* handleAttach: "never ingest the configured destination volume into itself".
\* The destination is compared with the card when the card is attached, not
\* when the job resolves the destination it writes to.
NeverIngestsDestination ==
  [][\A j \in Jobs : pc[j] = "planned" /\ pc'[j] = "space" => dest # vol[j]]_vars
=============================================================================
