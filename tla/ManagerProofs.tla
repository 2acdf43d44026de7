--------------------------- MODULE ManagerProofs ---------------------------
(* Proofs about Manager, for every set of jobs, drives and cards.           *)
EXTENDS Manager, FiniteSetTheorems, TLAPS

USE DEF vars, dbVars, runVars, mapVars, loopVars, envVars

-----------------------------------------------------------------------------
(* Type correctness.                                                        *)

LEMMA EmptyInbox == <<>> \in Seq(Events)
  OBVIOUS

LEMMA InitTypeOK == Init => TypeOK
<1> SUFFICES ASSUME Init PROVE TypeOK OBVIOUS
<1>1. inbox \in Seq(Events)
  BY EmptyInbox DEF Init
<1>2. /\ status \in [Jobs -> Statuses] /\ pc \in [Jobs -> PCs]
      /\ cause \in [Jobs -> Causes] /\ loop \in LoopPCs
  BY DEF Init, Statuses, PCs, Causes, LoopPCs
<1>3. /\ byGUID \in [Removable -> Jobs \cup {None}]
      /\ awaiting \in [Serials -> Jobs \cup {None}]
      /\ vol \in [Jobs -> Removable \cup {None}]
  BY DEF Init
<1>4. cards \in [Serials -> {"unknown", "copy", "ignore"}]
  BY DEF Init
<1> QED BY <1>1, <1>2, <1>3, <1>4 DEF Init, TypeOK

\* Every event in a nonempty inbox is an event, and so is what follows.
LEMMA InboxHead ==
  ASSUME TypeOK, inbox # <<>>
  PROVE  Head(inbox) \in Events /\ Tail(inbox) \in Seq(Events)
  BY DEF TypeOK

LEMMA PublishTypeOK ==
  ASSUME TypeOK, NEW e \in Events, Publish(e)
  PROVE  inbox' \in Seq(Events)
  BY DEF TypeOK, Publish

LEMMA RunnerTypeOK ==
  ASSUME TypeOK, NEW j \in Jobs, Runner(j)
  PROVE  TypeOK'
<1> USE DEF TypeOK, Statuses, Active, Terminal, PCs, Holding, Running, Causes
<1>1. CASE AcquireSem(j) BY <1>1 DEF AcquireSem
<1>2. CASE QueuedExit(j) BY <1>2 DEF QueuedExit
<1>3. CASE Register(j) BY <1>3 DEF Register
<1>4. CASE ScanAndPlan(j) BY <1>4 DEF ScanAndPlan, fail, EndStatus
<1>5. CASE ResolveDest(j) BY <1>5, SMTT(30) DEF ResolveDest
<1>6. CASE CheckSpace(j) BY <1>6, SMTT(30) DEF CheckSpace, fail, EndStatus
<1>7. CASE FinishCopy(j) BY <1>7 DEF FinishCopy, EndStatus
<1>8. CASE Eject(j) BY <1>8 DEF Eject
<1>9. CASE Unwind(j) BY <1>9 DEF Unwind, goroutineEnds
<1>10. CASE Park(j) BY <1>10 DEF Park, goroutineEnds
<1> QED BY <1>1, <1>2, <1>3, <1>4, <1>5, <1>6, <1>7, <1>8, <1>9, <1>10 DEF Runner

LEMMA LoopTypeOK ==
  ASSUME TypeOK, Loop
  PROVE  TypeOK'
<1> USE DrivesAssumption DEF TypeOK, LoopAt, OnlyLoop, LoopPCs, Statuses, Active, Terminal, PCs
<1>1. CASE TakeAttach
  <2>1. Head(inbox)[2] \in Removable
    BY <1>1, InboxHead DEF TakeAttach, Events, Answers
  <2> QED BY <1>1, <2>1, InboxHead DEF TakeAttach
<1>2. CASE Tick BY <1>2 DEF Tick
<1>3. CASE TakeKick BY <1>3 DEF TakeKick
<1>4. CASE SeedRead BY <1>4 DEF SeedRead, AfterSeed
<1>5. CASE SeedSet BY <1>5 DEF SeedSet, AfterSeed
<1>6. CASE HandleAttach
  BY <1>6 DEF HandleAttach, createAndAdmit, askUnknown, Create
<1>7. CASE HandleDetach
  <2>1. inbox' \in Seq(Events)
    BY <1>7, InboxHead DEF HandleDetach
  <2>2. cause' \in [Jobs -> Causes]
    <3>1. \/ cause' = cause
          \/ cause' = CancelCause(byGUID[Head(inbox)[2]], "detached")
      BY <1>7 DEF HandleDetach
    <3> QED BY <3>1 DEF CancelCause, Causes
  <2>3. blocked' \subseteq Jobs /\ awaiting' \in [Serials -> Jobs \cup {None}]
    BY <1>7 DEF HandleDetach
  <2>4. status' \in [Jobs -> Statuses]
    BY <1>7 DEF HandleDetach
  <2> QED BY <1>7, <2>1, <2>2, <2>3, <2>4 DEF HandleDetach
<1>8. CASE HandleDecision
  <2>1. inbox' \in Seq(Events)
    BY <1>8, InboxHead DEF HandleDecision
  <2>2. cards' \in [Serials -> {"unknown", "copy", "ignore"}]
    BY <1>8 DEF HandleDecision
  <2>3. status' \in [Jobs -> Statuses] /\ pc' \in [Jobs -> PCs]
    <3> DEFINE a == Head(inbox)[1]
               j == awaiting[Head(inbox)[2]]
    <3>1. \/ status' = status /\ pc' = pc
          \/ /\ status' = [status EXCEPT ![j] = IF a = "copy" THEN "pending" ELSE "cancelled"]
             /\ pc' = [pc EXCEPT ![j] = IF a = "copy" THEN "queued" ELSE pc[j]]
      BY <1>8 DEF HandleDecision
    <3> HIDE DEF a, j
    <3> QED BY <3>1
  <2>4. awaiting' \in [Serials -> Jobs \cup {None}]
    BY <1>8 DEF HandleDecision
  <2> QED BY <1>8, <2>1, <2>2, <2>3, <2>4 DEF HandleDecision
<1>9. CASE RetrySnapshot BY <1>9 DEF RetrySnapshot
<1>10. CASE RetryResolve BY <1>10 DEF RetryResolve
<1>11. CASE \E j \in Jobs : ResumeOne(j) BY <1>11 DEF ResumeOne
<1> QED BY <1>1, <1>2, <1>3, <1>4, <1>5, <1>6, <1>7, <1>8, <1>9, <1>10, <1>11 DEF Loop

LEMMA RequestsTypeOK ==
  ASSUME TypeOK, Requests
  PROVE  TypeOK'
<1> USE UserAssumption DEF TypeOK, Statuses, Active, Terminal, Causes
<1>1. ASSUME NEW j \in Jobs, CancelRequest(j) PROVE TypeOK'
  BY <1>1 DEF CancelRequest, CancelCause
<1>2. ASSUME NEW j \in Jobs, CancelFinish(j) PROVE TypeOK'
  BY <1>2 DEF CancelFinish
<1>3. ASSUME NEW j \in Jobs, CancelAborted(j) PROVE TypeOK'
  BY <1>3 DEF CancelAborted
<1>4. ASSUME NEW d \in DestChoices, PutDest(d) PROVE TypeOK'
  BY <1>4 DEF PutDest
<1>5. ASSUME NEW s \in Serials, NEW p \in CardEdits, EditCard(s, p) PROVE TypeOK'
  BY <1>5 DEF EditCard
<1>6. ASSUME NEW s \in Serials, NEW a \in UserAnswers, Decide(s, a) PROVE TypeOK'
  <2>1. <<a, s>> \in Events BY <1>6 DEF Events, Answers
  <2> QED BY <1>6, <2>1, PublishTypeOK DEF Decide
<1> QED BY <1>1, <1>2, <1>3, <1>4, <1>5, <1>6 DEF Requests

LEMMA EnvironmentTypeOK ==
  ASSUME TypeOK, Environment
  PROVE  TypeOK'
<1> USE DrivesAssumption DEF TypeOK, Statuses, Active, Terminal, Causes, PCs, LoopPCs
<1>1. ASSUME NEW v \in Removable, WatchAttach(v) PROVE TypeOK'
  <2>1. <<"attach", v>> \in Events BY DEF Events
  <2> QED BY <1>1, <2>1, PublishTypeOK DEF WatchAttach
<1>2. ASSUME NEW v \in Removable, WatchDetach(v) PROVE TypeOK'
  <2>1. <<"detach", v>> \in Events BY DEF Events
  <2> QED BY <1>2, <2>1, PublishTypeOK DEF WatchDetach
<1>3. ASSUME NEW d \in Pluggable, Plug(d) PROVE TypeOK'
  BY <1>3 DEF Plug
<1>4. CASE Shutdown BY <1>4 DEF Shutdown
<1>5. CASE Crash BY <1>5, EmptyInbox DEF Crash
<1>6. CASE Boot BY <1>6 DEF Boot, FailInterrupted
<1> QED BY <1>1, <1>2, <1>3, <1>4, <1>5, <1>6 DEF Environment

LEMMA NextTypeOK == TypeOK /\ [Next]_vars => TypeOK'
<1> SUFFICES ASSUME TypeOK, [Next]_vars PROVE TypeOK' OBVIOUS
<1>1. CASE UNCHANGED vars BY <1>1 DEF TypeOK
<1> QED BY <1>1, RunnerTypeOK, LoopTypeOK, RequestsTypeOK, EnvironmentTypeOK DEF Next

\* Every reachable state of the engine has well-formed tables, maps and queue.
THEOREM TypeCorrect == Spec => []TypeOK
  BY InitTypeOK, NextTypeOK, PTL DEF Spec

-----------------------------------------------------------------------------
(* The invariant is kept by the job goroutines.                             *)

\* A job with a goroutine has no open question.
LEMMA RunningNotAsked ==
  ASSUME IInv, NEW j \in Jobs, pc[j] # "idle", NEW s \in Serials
  PROVE  awaiting[s] # j
  BY DEF IInv, OneOwnerPerJob, asked

\* AcquireSem keeps the invariant.
LEMMA AcquireSemKeeps ==
  ASSUME IInv, TypeOK', NEW j \in Jobs, AcquireSem(j)
  PROVE  IInv'
<1> USE DEF IInv, TypeOK, AcquireSem
<1>1. OneOwnerPerJob'
  BY DEF OneOwnerPerJob, asked, Running, Terminal, Up
<1>2. RegistryNamesLiveJobs'
  BY DEF RegistryNamesLiveJobs, OneOwnerPerJob, Running, Terminal, Up
<1>3. StatusFitsPlace'
  BY DEF StatusFitsPlace, OneOwnerPerJob, Running, Terminal, Up
<1>4. QuestionsFitKeys'
  BY DEF QuestionsFitKeys, Running, Terminal, Up
<1>5. LoopRemembers'
  BY DEF LoopRemembers, Running, Terminal, Up
<1> QED BY <1>1, <1>2, <1>3, <1>4, <1>5

\* QueuedExit keeps the invariant.
LEMMA QueuedExitKeeps ==
  ASSUME IInv, TypeOK', NEW j \in Jobs, QueuedExit(j)
  PROVE  IInv'
<1> USE DEF IInv, TypeOK, QueuedExit
<1>1. OneOwnerPerJob'
  BY DEF OneOwnerPerJob, asked, Running, Terminal, Up
<1>2. RegistryNamesLiveJobs'
  BY DEF RegistryNamesLiveJobs, OneOwnerPerJob, Running, Terminal, Up
<1>3. StatusFitsPlace'
  BY DEF StatusFitsPlace, OneOwnerPerJob, Running, Terminal, Up
<1>4. QuestionsFitKeys'
  BY DEF QuestionsFitKeys, Running, Terminal, Up
<1>5. LoopRemembers'
  BY DEF LoopRemembers, Running, Terminal, Up
<1> QED BY <1>1, <1>2, <1>3, <1>4, <1>5

\* Register keeps the invariant.
LEMMA RegisterKeeps ==
  ASSUME IInv, TypeOK', NEW j \in Jobs, Register(j)
  PROVE  IInv'
<1> USE DEF IInv, TypeOK, Register
<1>1. OneOwnerPerJob'
  BY DEF OneOwnerPerJob, asked, Running, Terminal, Up
<1>2. RegistryNamesLiveJobs'
  BY DEF RegistryNamesLiveJobs, OneOwnerPerJob, Running, Terminal, Up
<1>3. StatusFitsPlace'
  BY DEF StatusFitsPlace, OneOwnerPerJob, Running, Terminal, Up
<1>4. QuestionsFitKeys'
  BY DEF QuestionsFitKeys, Running, Terminal, Up
<1>5. LoopRemembers'
  BY DEF LoopRemembers, Running, Terminal, Up
<1> QED BY <1>1, <1>2, <1>3, <1>4, <1>5

\* ScanAndPlan keeps the invariant.
LEMMA ScanAndPlanKeeps ==
  ASSUME IInv, TypeOK', NEW j \in Jobs, ScanAndPlan(j)
  PROVE  IInv'
<1> USE DEF IInv, TypeOK, ScanAndPlan, fail, EndStatus
<1>1. OneOwnerPerJob'
  BY DEF OneOwnerPerJob, asked, Running, Terminal, Up
<1>2. RegistryNamesLiveJobs'
  BY DEF RegistryNamesLiveJobs, Running
<1>3. StatusFitsPlace'
  <2>1. CASE fail(j)
    BY <2>1 DEF StatusFitsPlace, OneOwnerPerJob, Running, Terminal, Up
  <2>2. CASE pc' = [pc EXCEPT ![j] = "planned"] /\ UNCHANGED status
    BY <2>2 DEF StatusFitsPlace, OneOwnerPerJob, Running, Terminal, Up
  <2> QED BY <2>1, <2>2
<1>4. QuestionsFitKeys'
  BY RunningNotAsked DEF QuestionsFitKeys, Running, Terminal, Up
<1>5. LoopRemembers'
  BY DEF LoopRemembers, Running, Terminal, Up
<1> QED BY <1>1, <1>2, <1>3, <1>4, <1>5

\* ResolveDest keeps the invariant.
LEMMA ResolveDestKeeps ==
  ASSUME IInv, TypeOK', NEW j \in Jobs, ResolveDest(j)
  PROVE  IInv'
<1> USE DEF IInv, TypeOK, ResolveDest
<1>1. OneOwnerPerJob'
  BY DEF OneOwnerPerJob, asked, Running, Terminal, Up
<1>2. RegistryNamesLiveJobs'
  BY DEF RegistryNamesLiveJobs, OneOwnerPerJob, Running, Terminal, Up
<1>3. StatusFitsPlace'
  BY DEF StatusFitsPlace, OneOwnerPerJob, Running, Terminal, Up
<1>4. QuestionsFitKeys'
  BY RunningNotAsked DEF QuestionsFitKeys, Running, Terminal, Up
<1>5. LoopRemembers'
  BY DEF LoopRemembers, Running, Terminal, Up
<1> QED BY <1>1, <1>2, <1>3, <1>4, <1>5

\* CheckSpace keeps the invariant.
LEMMA CheckSpaceKeeps ==
  ASSUME IInv, TypeOK', NEW j \in Jobs, CheckSpace(j)
  PROVE  IInv'
<1> USE DEF IInv, TypeOK, CheckSpace, fail, EndStatus
<1>1. OneOwnerPerJob'
  BY DEF OneOwnerPerJob, asked, Running, Terminal, Up
<1>2. RegistryNamesLiveJobs'
  BY DEF RegistryNamesLiveJobs, OneOwnerPerJob, Running, Terminal, Up
<1>3. StatusFitsPlace'
  <2>1. CASE fail(j)
    BY <2>1 DEF StatusFitsPlace, OneOwnerPerJob, Running, Terminal, Up
  <2>2. CASE status' = [status EXCEPT ![j] = "copying"]
    BY <2>2 DEF StatusFitsPlace, OneOwnerPerJob, Running, Terminal, Up
  <2> QED BY <2>1, <2>2
<1>4. QuestionsFitKeys'
  BY RunningNotAsked DEF QuestionsFitKeys, Running, Terminal, Up
<1>5. LoopRemembers'
  BY DEF LoopRemembers, Running, Terminal, Up
<1> QED BY <1>1, <1>2, <1>3, <1>4, <1>5

\* FinishCopy keeps the invariant.
LEMMA FinishCopyKeeps ==
  ASSUME IInv, TypeOK', NEW j \in Jobs, FinishCopy(j)
  PROVE  IInv'
<1> USE DEF IInv, TypeOK, FinishCopy, EndStatus
<1>1. OneOwnerPerJob'
  BY DEF OneOwnerPerJob, asked, Running, Terminal, Up
<1>2. RegistryNamesLiveJobs'
  BY DEF RegistryNamesLiveJobs, OneOwnerPerJob, Running, Terminal, Up
<1>3. StatusFitsPlace'
  <2>1. CASE Cancelled(j)
    BY <2>1 DEF StatusFitsPlace, OneOwnerPerJob, Running, Terminal, Up
  <2>2. CASE ~Cancelled(j)
    BY <2>2 DEF StatusFitsPlace, OneOwnerPerJob, Running, Terminal, Up
  <2> QED BY <2>1, <2>2
<1>4. QuestionsFitKeys'
  BY RunningNotAsked DEF QuestionsFitKeys, Running, Terminal, Up
<1>5. LoopRemembers'
  BY DEF LoopRemembers, Running, Terminal, Up
<1> QED BY <1>1, <1>2, <1>3, <1>4, <1>5

\* Eject keeps the invariant.
LEMMA EjectKeeps ==
  ASSUME IInv, TypeOK', NEW j \in Jobs, Eject(j)
  PROVE  IInv'
<1> USE DEF IInv, TypeOK, Eject
<1>1. OneOwnerPerJob'
  BY DEF OneOwnerPerJob, asked, Running, Terminal, Up
<1>2. RegistryNamesLiveJobs'
  BY DEF RegistryNamesLiveJobs, OneOwnerPerJob, Running, Terminal, Up
<1>3. StatusFitsPlace'
  BY DEF StatusFitsPlace, OneOwnerPerJob, Running, Terminal, Up
<1>4. QuestionsFitKeys'
  BY DEF QuestionsFitKeys, Running, Terminal, Up
<1>5. LoopRemembers'
  BY DEF LoopRemembers, Running, Terminal, Up
<1> QED BY <1>1, <1>2, <1>3, <1>4, <1>5

\* Unwind keeps the invariant.
LEMMA UnwindKeeps ==
  ASSUME IInv, TypeOK', NEW j \in Jobs, Unwind(j)
  PROVE  IInv'
<1> USE DEF IInv, TypeOK, Unwind, goroutineEnds
<1>1. OneOwnerPerJob'
  BY DEF OneOwnerPerJob, asked, Running, Terminal, Up
<1>2. RegistryNamesLiveJobs'
  BY DEF RegistryNamesLiveJobs, OneOwnerPerJob, Running, Terminal, Up
<1>3. StatusFitsPlace'
  BY DEF StatusFitsPlace, OneOwnerPerJob, Running, Terminal, Up
<1>4. QuestionsFitKeys'
  BY DEF QuestionsFitKeys, Running, Terminal, Up
<1>5. LoopRemembers'
  BY DEF LoopRemembers, Running, Terminal, Up
<1> QED BY <1>1, <1>2, <1>3, <1>4, <1>5

\* Park keeps the invariant.
LEMMA ParkKeeps ==
  ASSUME IInv, TypeOK', NEW j \in Jobs, Park(j)
  PROVE  IInv'
<1> USE DEF IInv, TypeOK, Park, goroutineEnds
<1>1. OneOwnerPerJob'
  BY DEF OneOwnerPerJob, asked, Running, Terminal, Up
<1>2. RegistryNamesLiveJobs'
  BY DEF RegistryNamesLiveJobs, OneOwnerPerJob, Running, Terminal, Up
<1>3. StatusFitsPlace'
  BY DEF StatusFitsPlace, OneOwnerPerJob, Running, Terminal, Up
<1>4. QuestionsFitKeys'
  BY DEF QuestionsFitKeys, Running, Terminal, Up
<1>5. LoopRemembers'
  BY DEF LoopRemembers, Running, Terminal, Up
<1> QED BY <1>1, <1>2, <1>3, <1>4, <1>5

-----------------------------------------------------------------------------
(* The invariant is kept by the event loop.                                 *)

\* TakeAttach keeps the invariant.
LEMMA TakeAttachKeeps ==
  ASSUME IInv, TypeOK', TakeAttach
  PROVE  IInv'
<1> USE DEF IInv, TypeOK, TakeAttach, LoopAt, OnlyLoop, Handling, isTracked
<1>1. OneOwnerPerJob'
  BY DEF OneOwnerPerJob, asked, Running, Terminal, Up
<1>2. RegistryNamesLiveJobs'
  BY DEF RegistryNamesLiveJobs, OneOwnerPerJob, Running, Terminal, Up
<1>3. StatusFitsPlace'
  BY DEF StatusFitsPlace, OneOwnerPerJob, Running, Terminal, Up
<1>4. QuestionsFitKeys'
  BY DEF QuestionsFitKeys, Running, Terminal, Up
<1>5. LoopRemembers'
  BY DEF LoopRemembers, Running, Terminal, Up
<1> QED BY <1>1, <1>2, <1>3, <1>4, <1>5

\* Tick keeps the invariant.
LEMMA TickKeeps ==
  ASSUME IInv, TypeOK', Tick
  PROVE  IInv'
<1> USE DEF IInv, TypeOK, Tick, LoopAt, OnlyLoop, Handling
<1>1. OneOwnerPerJob'
  BY DEF OneOwnerPerJob, asked, Running, Terminal, Up
<1>2. RegistryNamesLiveJobs'
  BY DEF RegistryNamesLiveJobs, OneOwnerPerJob, Running, Terminal, Up
<1>3. StatusFitsPlace'
  BY DEF StatusFitsPlace, OneOwnerPerJob, Running, Terminal, Up
<1>4. QuestionsFitKeys'
  BY DEF QuestionsFitKeys, Running, Terminal, Up
<1>5. LoopRemembers'
  BY DEF LoopRemembers, Running, Terminal, Up
<1> QED BY <1>1, <1>2, <1>3, <1>4, <1>5

\* TakeKick keeps the invariant.
LEMMA TakeKickKeeps ==
  ASSUME IInv, TypeOK', TakeKick
  PROVE  IInv'
<1> USE DEF IInv, TypeOK, TakeKick, LoopAt, OnlyLoop, Handling
<1>1. OneOwnerPerJob'
  BY DEF OneOwnerPerJob, asked, Running, Terminal, Up
<1>2. RegistryNamesLiveJobs'
  BY DEF RegistryNamesLiveJobs, OneOwnerPerJob, Running, Terminal, Up
<1>3. StatusFitsPlace'
  BY DEF StatusFitsPlace, OneOwnerPerJob, Running, Terminal, Up
<1>4. QuestionsFitKeys'
  BY DEF QuestionsFitKeys, Running, Terminal, Up
<1>5. LoopRemembers'
  BY DEF LoopRemembers, Running, Terminal, Up
<1> QED BY <1>1, <1>2, <1>3, <1>4, <1>5

\* SeedRead keeps the invariant.
LEMMA SeedReadKeeps ==
  ASSUME IInv, TypeOK', SeedRead
  PROVE  IInv'
<1> USE DEF IInv, TypeOK, SeedRead, LoopAt, OnlyLoop, Handling, AfterSeed
<1>1. OneOwnerPerJob'
  BY DEF OneOwnerPerJob, asked, Running, Terminal, Up
<1>2. RegistryNamesLiveJobs'
  BY DEF RegistryNamesLiveJobs, OneOwnerPerJob, Running, Terminal, Up
<1>3. StatusFitsPlace'
  BY DEF StatusFitsPlace, OneOwnerPerJob, Running, Terminal, Up
<1>4. QuestionsFitKeys'
  BY DEF QuestionsFitKeys, Running, Terminal, Up
<1>5. LoopRemembers'
  BY DEF LoopRemembers, Running, Terminal, Up
<1> QED BY <1>1, <1>2, <1>3, <1>4, <1>5

\* SeedSet keeps the invariant.
LEMMA SeedSetKeeps ==
  ASSUME IInv, TypeOK', SeedSet
  PROVE  IInv'
<1> USE DEF IInv, TypeOK, SeedSet, LoopAt, Handling, AfterSeed
<1>1. OneOwnerPerJob'
  BY DEF OneOwnerPerJob, asked, Running, Terminal, Up
<1>2. RegistryNamesLiveJobs'
  BY DEF RegistryNamesLiveJobs, OneOwnerPerJob, Running, Terminal, Up
<1>3. StatusFitsPlace'
  BY DEF StatusFitsPlace, OneOwnerPerJob, Running, Terminal, Up
<1>4. QuestionsFitKeys'
  BY DEF QuestionsFitKeys, Running, Terminal, Up
<1>5. LoopRemembers'
  BY DEF LoopRemembers, Running, Terminal, Up
<1> QED BY <1>1, <1>2, <1>3, <1>4, <1>5

\* HandleAttach keeps the invariant.
LEMMA HandleAttachKeeps ==
  ASSUME IInv, TypeOK', HandleAttach
  PROVE  IInv'
<1> USE DEF IInv, TypeOK, HandleAttach, LoopAt, Handling
<1>0. /\ cur \in Removable /\ SerialOf[cur] \in Serials
      /\ awaiting[SerialOf[cur]] = None
      /\ \A j \in Jobs : status[j] = "unused" =>
           /\ pc[j] = "idle" /\ j \notin blocked /\ j \notin retryQ
           /\ cancelReq[j] = "none"
           /\ \A s \in Serials : awaiting[s] # j
           /\ \A v \in Removable : byGUID[v] # j
  <2>1. cur \in Removable /\ SerialOf[cur] \in Serials
    BY SerialsIdentifyVolumes DEF LoopRemembers
  <2>2. awaiting[SerialOf[cur]] = None
    BY <2>1, SerialsIdentifyVolumes DEF LoopRemembers, QuestionsFitKeys
  <2>3. ASSUME NEW j \in Jobs, status[j] = "unused"
        PROVE  /\ pc[j] = "idle" /\ j \notin blocked /\ j \notin retryQ
               /\ cancelReq[j] = "none"
    BY <2>3 DEF StatusFitsPlace
  <2>4. ASSUME NEW j \in Jobs, status[j] = "unused"
        PROVE  /\ \A s \in Serials : awaiting[s] # j
               /\ \A v \in Removable : byGUID[v] # j
    BY <2>3, <2>4, JobsAssumption DEF QuestionsFitKeys, RegistryNamesLiveJobs, Running
  <2> QED BY <2>1, <2>2, <2>3, <2>4
<1>1. OneOwnerPerJob'
  <2>1. CASE UNCHANGED <<status, vol, pc, awaiting>>
    BY <2>1 DEF OneOwnerPerJob, asked, Running, Terminal, Up
  <2>2. ASSUME NEW j \in Jobs, createAndAdmit(j) PROVE OneOwnerPerJob'
    BY <2>2, <1>0 DEF OneOwnerPerJob, asked, createAndAdmit, Create, Running, Terminal, Up
  <2>3. ASSUME NEW j \in Jobs, askUnknown(j) PROVE OneOwnerPerJob'
    BY <2>3, <1>0 DEF OneOwnerPerJob, asked, askUnknown, Create, Running, Terminal, Up
  <2> QED BY <2>1, <2>2, <2>3
<1>2. RegistryNamesLiveJobs'
  <2>1. CASE UNCHANGED <<status, vol, pc, awaiting>>
    BY <2>1 DEF RegistryNamesLiveJobs, Running, Terminal, Up
  <2>2. ASSUME NEW j \in Jobs, createAndAdmit(j) PROVE RegistryNamesLiveJobs'
    BY <2>2, <1>0 DEF RegistryNamesLiveJobs, createAndAdmit, Create, Running, Terminal, Up
  <2>3. ASSUME NEW j \in Jobs, askUnknown(j) PROVE RegistryNamesLiveJobs'
    BY <2>3, <1>0 DEF RegistryNamesLiveJobs, askUnknown, Create, Running, Terminal, Up
  <2> QED BY <2>1, <2>2, <2>3
<1>3. StatusFitsPlace'
  <2>1. CASE UNCHANGED <<status, vol, pc, awaiting>>
    BY <2>1 DEF StatusFitsPlace, Running, Terminal, Up
  <2>2. ASSUME NEW j \in Jobs, createAndAdmit(j) PROVE StatusFitsPlace'
    BY <2>2, <1>0 DEF StatusFitsPlace, createAndAdmit, Create, Running, Terminal, Up
  <2>3. ASSUME NEW j \in Jobs, askUnknown(j) PROVE StatusFitsPlace'
    BY <2>3, <1>0 DEF StatusFitsPlace, askUnknown, Create, Running, Terminal, Up
  <2> QED BY <2>1, <2>2, <2>3
<1>4. QuestionsFitKeys'
  <2>1. CASE UNCHANGED <<status, vol, pc, awaiting>>
    BY <2>1 DEF QuestionsFitKeys, Running, Terminal, Up
  <2>2. ASSUME NEW j \in Jobs, createAndAdmit(j) PROVE QuestionsFitKeys'
    BY <2>2, <1>0 DEF QuestionsFitKeys, createAndAdmit, Create, Running, Terminal, Up
  <2>3. ASSUME NEW j \in Jobs, askUnknown(j) PROVE QuestionsFitKeys'
    BY <2>3, <1>0 DEF QuestionsFitKeys, askUnknown, Create, Running, Terminal, Up
  <2> QED BY <2>1, <2>2, <2>3
<1>5. LoopRemembers'
  <2>1. CASE UNCHANGED <<status, vol, pc, awaiting>>
    BY <2>1 DEF LoopRemembers, Running, Terminal, Up
  <2>2. ASSUME NEW j \in Jobs, createAndAdmit(j) PROVE LoopRemembers'
    BY <2>2, <1>0 DEF LoopRemembers, createAndAdmit, Create, Running, Terminal, Up
  <2>3. ASSUME NEW j \in Jobs, askUnknown(j) PROVE LoopRemembers'
    BY <2>3, <1>0 DEF LoopRemembers, askUnknown, Create, Running, Terminal, Up
  <2> QED BY <2>1, <2>2, <2>3
<1> QED BY <1>1, <1>2, <1>3, <1>4, <1>5

\* HandleDetach keeps the invariant.
LEMMA HandleDetachKeeps ==
  ASSUME IInv, TypeOK', HandleDetach
  PROVE  IInv'
<1> USE DEF IInv, TypeOK, HandleDetach, LoopAt, Handling
<1>0. PICK B \in SUBSET blocked, A \in SUBSET {j \in Jobs : asked(j)} :
        /\ blocked' = blocked \ B
        /\ awaiting' = [s \in Serials |-> IF awaiting[s] \in A THEN None ELSE awaiting[s]]
        /\ status' = [j \in Jobs |-> CASE j \in B -> "failed"
                                       [] j \in A -> "cancelled"
                                       [] OTHER -> status[j]]
  <2>1. PICK B \in pickOne(blockedOn(Head(inbox)[2])), A \in pickOne(askedOn(Head(inbox)[2])) :
          /\ blocked' = blocked \ B
          /\ awaiting' = [s \in Serials |-> IF awaiting[s] \in A THEN None ELSE awaiting[s]]
          /\ status' = [j \in Jobs |-> CASE j \in B -> "failed"
                                         [] j \in A -> "cancelled"
                                         [] OTHER -> status[j]]
    OBVIOUS
  <2>2. B \in SUBSET blocked
    BY <2>1 DEF pickOne, blockedOn
  <2>3. A \in SUBSET {j \in Jobs : asked(j)}
    BY <2>1 DEF pickOne, askedOn, asked
  <2> QED BY <2>1, <2>2, <2>3, ZenonT(30)
<1>a. \A j \in Jobs : asked(j)' => asked(j) /\ j \notin A
  BY <1>0, JobsAssumption DEF asked
<1>b. /\ UNCHANGED <<vol, pc, byGUID, loop, cur, retryQ, kick, ctxDone, cancelReq>>
      /\ retryQ = {}
  BY DEF LoopRemembers
<1> HIDE DEF HandleDetach
<1>1. OneOwnerPerJob'
  BY <1>0, <1>a, <1>b DEF OneOwnerPerJob
<1>2. RegistryNamesLiveJobs'
  BY <1>b DEF RegistryNamesLiveJobs, Running
<1>3. StatusFitsPlace'
  <2>1. \A j \in A : pc[j] = "idle" /\ status[j] = "awaiting_decision"
    BY JobsAssumption DEF asked, OneOwnerPerJob, QuestionsFitKeys
  <2>2. \A j \in B : pc[j] = "idle" /\ status[j] \in {"pending", "cancelled"}
    BY DEF OneOwnerPerJob, StatusFitsPlace
  <2> QED BY <1>0, <1>b, <2>1, <2>2 DEF StatusFitsPlace, Terminal, Up
<1>4. QuestionsFitKeys'
  <2> SUFFICES ASSUME NEW s \in Serials, awaiting'[s] # None
               PROVE  /\ awaiting'[s] = awaiting[s]
                      /\ status'[awaiting[s]] = status[awaiting[s]]
    BY <1>b DEF QuestionsFitKeys
  <2>1. awaiting'[s] = awaiting[s] /\ awaiting[s] \in Jobs /\ awaiting[s] \notin A
    BY <1>0
  <2>2. awaiting[s] \notin B
    BY <2>1 DEF OneOwnerPerJob, asked
  <2> QED BY <1>0, <2>1, <2>2
<1>5. LoopRemembers'
  BY <1>0, <1>b DEF LoopRemembers, HandleDetach, Up
<1> QED BY <1>1, <1>2, <1>3, <1>4, <1>5

\* HandleDecision keeps the invariant.
LEMMA HandleDecisionKeeps ==
  ASSUME IInv, TypeOK', HandleDecision
  PROVE  IInv'
<1> USE DEF IInv, TypeOK, HandleDecision, LoopAt, Handling
<1>0. PICK s \in Serials, a \in Answers :
        \/ UNCHANGED <<status, pc, awaiting>>
        \/ /\ awaiting[s] # None
           /\ awaiting' = [awaiting EXCEPT ![s] = None]
           /\ status' = [status EXCEPT ![awaiting[s]] =
                            IF a = "copy" THEN "pending" ELSE "cancelled"]
           /\ pc' = [pc EXCEPT ![awaiting[s]] = IF a = "copy" THEN "queued" ELSE @]
  <2> DEFINE e == Head(inbox)
  <2>1. e[1] \in Answers /\ e[2] \in Serials
    BY InboxHead DEF Events, Answers
  <2>2. \/ UNCHANGED <<status, pc, awaiting>>
        \/ /\ awaiting[e[2]] # None
           /\ awaiting' = [awaiting EXCEPT ![e[2]] = None]
           /\ status' = [status EXCEPT ![awaiting[e[2]]] =
                            IF e[1] = "copy" THEN "pending" ELSE "cancelled"]
           /\ pc' = [pc EXCEPT ![awaiting[e[2]]] = IF e[1] = "copy" THEN "queued" ELSE @]
    OBVIOUS
  <2> QED BY <2>1, <2>2
<1>a. /\ UNCHANGED <<vol, byGUID, blocked, loop, cur, retryQ, kick, ctxDone, cancelReq>>
      /\ loop = "idle" /\ cur = None /\ retryQ = {}
  BY DEF LoopRemembers
<1>b. awaiting[s] # None =>
        /\ awaiting[s] \in Jobs
        /\ pc[awaiting[s]] = "idle" /\ awaiting[s] \notin blocked
        /\ status[awaiting[s]] = "awaiting_decision"
        /\ vol[awaiting[s]] \in Removable
        /\ \A t \in Serials : awaiting[t] = awaiting[s] => t = s
  BY DEF OneOwnerPerJob, QuestionsFitKeys, asked
<1> HIDE DEF HandleDecision
<1>1. OneOwnerPerJob'
  <2>1. \A j \in Jobs : asked(j)' => asked(j)
    BY <1>0, JobsAssumption DEF asked
  <2>3. CASE UNCHANGED <<status, pc, awaiting>>
    BY <2>1, <2>3, <1>a DEF OneOwnerPerJob
  <2>4. CASE awaiting[s] # None /\ ~UNCHANGED <<status, pc, awaiting>>
    <3> DEFINE k == awaiting[s]
    <3>1. /\ k \in Jobs /\ k \notin blocked
          /\ \A t \in Serials : awaiting'[t] # k
          /\ pc' \in [Jobs -> PCs] /\ \A j \in Jobs : j # k => pc'[j] = pc[j]
      BY <2>4, <1>0, <1>b, JobsAssumption
    <3> HIDE DEF k
    <3>2. \A j \in Jobs : asked(j)' => j # k
      BY <3>1 DEF asked
    <3> QED BY <2>1, <3>1, <3>2, <1>a DEF OneOwnerPerJob
  <2> QED BY <2>3, <2>4, <1>0
<1>2. RegistryNamesLiveJobs'
  <2>1. CASE UNCHANGED <<status, pc, awaiting>>
    BY <2>1, <1>a DEF RegistryNamesLiveJobs, Running, Terminal, Up
  <2>2. CASE awaiting[s] # None /\ ~UNCHANGED <<status, pc, awaiting>>
    BY <2>2, <1>0, <1>a, <1>b DEF RegistryNamesLiveJobs, Running, Terminal, Up
  <2> QED BY <2>1, <2>2, <1>0
<1>3. StatusFitsPlace'
  <2>1. CASE UNCHANGED <<status, pc, awaiting>>
    BY <2>1, <1>a DEF StatusFitsPlace, Running, Terminal, Up
  <2>2. CASE awaiting[s] # None /\ ~UNCHANGED <<status, pc, awaiting>>
    BY <2>2, <1>0, <1>a, <1>b DEF StatusFitsPlace, Running, Terminal, Up
  <2> QED BY <2>1, <2>2, <1>0
<1>4. QuestionsFitKeys'
  <2>1. CASE UNCHANGED <<status, pc, awaiting>>
    BY <2>1, <1>a DEF QuestionsFitKeys, Running, Terminal, Up
  <2>2. CASE awaiting[s] # None /\ ~UNCHANGED <<status, pc, awaiting>>
    BY <2>2, <1>0, <1>a, <1>b DEF QuestionsFitKeys, Running, Terminal, Up
  <2> QED BY <2>1, <2>2, <1>0
<1>5. LoopRemembers'
  <2>1. CASE UNCHANGED <<status, pc, awaiting>>
    BY <2>1, <1>a DEF LoopRemembers, Running, Terminal, Up
  <2>2. CASE awaiting[s] # None /\ ~UNCHANGED <<status, pc, awaiting>>
    BY <2>2, <1>0, <1>a, <1>b DEF LoopRemembers, Running, Terminal, Up
  <2> QED BY <2>1, <2>2, <1>0
<1> QED BY <1>1, <1>2, <1>3, <1>4, <1>5

\* RetrySnapshot keeps the invariant.
LEMMA RetrySnapshotKeeps ==
  ASSUME IInv, TypeOK', RetrySnapshot
  PROVE  IInv'
<1> USE DEF IInv, TypeOK, RetrySnapshot, LoopAt, OnlyLoop, Handling
<1>1. OneOwnerPerJob'
  BY DEF OneOwnerPerJob, asked, Running, Terminal, Up
<1>2. RegistryNamesLiveJobs'
  BY DEF RegistryNamesLiveJobs, OneOwnerPerJob, Running, Terminal, Up
<1>3. StatusFitsPlace'
  BY DEF StatusFitsPlace, OneOwnerPerJob, Running, Terminal, Up
<1>4. QuestionsFitKeys'
  BY DEF QuestionsFitKeys, Running, Terminal, Up
<1>5. LoopRemembers'
  BY DEF LoopRemembers, Running, Terminal, Up
<1> QED BY <1>1, <1>2, <1>3, <1>4, <1>5

\* RetryResolve keeps the invariant.
LEMMA RetryResolveKeeps ==
  ASSUME IInv, TypeOK', RetryResolve
  PROVE  IInv'
<1> USE DEF IInv, TypeOK, RetryResolve, LoopAt, OnlyLoop, Handling
<1>1. OneOwnerPerJob'
  BY DEF OneOwnerPerJob, asked, Running, Terminal, Up
<1>2. RegistryNamesLiveJobs'
  BY DEF RegistryNamesLiveJobs, OneOwnerPerJob, Running, Terminal, Up
<1>3. StatusFitsPlace'
  BY DEF StatusFitsPlace, OneOwnerPerJob, Running, Terminal, Up
<1>4. QuestionsFitKeys'
  BY DEF QuestionsFitKeys, Running, Terminal, Up
<1>5. LoopRemembers'
  BY DEF LoopRemembers, Running, Terminal, Up
<1> QED BY <1>1, <1>2, <1>3, <1>4, <1>5

\* ResumeOne keeps the invariant.
LEMMA ResumeOneKeeps ==
  ASSUME IInv, TypeOK', NEW j \in Jobs, ResumeOne(j)
  PROVE  IInv'
<1> USE DEF IInv, TypeOK, ResumeOne, LoopAt, Handling
<1>1. OneOwnerPerJob'
  BY DEF OneOwnerPerJob, asked, Running, Terminal, Up
<1>2. RegistryNamesLiveJobs'
  BY DEF RegistryNamesLiveJobs, OneOwnerPerJob, Running, Terminal, Up
<1>3. StatusFitsPlace'
  BY DEF StatusFitsPlace, OneOwnerPerJob, Running, Terminal, Up
<1>4. QuestionsFitKeys'
  BY DEF QuestionsFitKeys, Running, Terminal, Up
<1>5. LoopRemembers'
  BY DEF LoopRemembers, Running, Terminal, Up
<1> QED BY <1>1, <1>2, <1>3, <1>4, <1>5

-----------------------------------------------------------------------------
(* The invariant is kept by the requests.                                   *)

\* CancelRequest keeps the invariant.
LEMMA CancelRequestKeeps ==
  ASSUME IInv, TypeOK', NEW j \in Jobs, CancelRequest(j)
  PROVE  IInv'
<1> USE DEF IInv, TypeOK, CancelRequest
<1>0. \A k \in Jobs : asked(k)' => asked(k) /\ (asked(j) /\ cancelReq'[j] = "taken" => k # j)
  <2> SUFFICES ASSUME NEW k \in Jobs, NEW s \in Serials, awaiting'[s] = k
               PROVE  awaiting[s] = k /\ (asked(j) /\ cancelReq'[j] = "taken" => k # j)
    BY DEF asked
  <2>1. awaiting[s] = k
    BY JobsAssumption
  <2>2. j \in blocked => ~asked(j)
    BY DEF OneOwnerPerJob
  <2> QED BY <2>1, <2>2, JobsAssumption
<1>1. OneOwnerPerJob'
  BY <1>0 DEF OneOwnerPerJob
<1>2. RegistryNamesLiveJobs'
  BY DEF RegistryNamesLiveJobs, OneOwnerPerJob, Running, Terminal, Up
<1>3. StatusFitsPlace'
  BY DEF StatusFitsPlace, OneOwnerPerJob, Running, Terminal, Up
<1>4. QuestionsFitKeys'
  <2> SUFFICES ASSUME NEW s \in Serials, awaiting'[s] # None
               PROVE  /\ status[awaiting[s]] = "awaiting_decision"
                      /\ cancelReq'[awaiting[s]] # "taken"
                      /\ vol[awaiting[s]] \in Removable
                      /\ SerialOf[vol[awaiting[s]]] = s
                      /\ awaiting'[s] = awaiting[s]
    BY DEF QuestionsFitKeys
  <2>1. awaiting'[s] = awaiting[s] /\ awaiting[s] \in Jobs
    OBVIOUS
  <2>2. asked(awaiting[s]) /\ asked(awaiting[s])'
    BY <2>1 DEF asked
  <2>3. awaiting[s] = j => cancelReq'[j] # "taken"
    BY <1>0, <2>2 DEF OneOwnerPerJob
  <2> QED BY <2>1, <2>3 DEF QuestionsFitKeys
<1>5. LoopRemembers'
  BY DEF LoopRemembers, Running, Terminal, Up
<1> QED BY <1>1, <1>2, <1>3, <1>4, <1>5

\* CancelFinish keeps the invariant.
LEMMA CancelFinishKeeps ==
  ASSUME IInv, TypeOK', NEW j \in Jobs, CancelFinish(j)
  PROVE  IInv'
<1> USE DEF IInv, TypeOK, CancelFinish
<1>1. OneOwnerPerJob'
  BY DEF OneOwnerPerJob, asked, Running, Terminal, Up
<1>2. RegistryNamesLiveJobs'
  BY DEF RegistryNamesLiveJobs, OneOwnerPerJob, Running, Terminal, Up
<1>3. StatusFitsPlace'
  BY DEF StatusFitsPlace, OneOwnerPerJob, Running, Terminal, Up
<1>4. QuestionsFitKeys'
  BY DEF QuestionsFitKeys, Running, Terminal, Up
<1>5. LoopRemembers'
  BY DEF LoopRemembers, Running, Terminal, Up
<1> QED BY <1>1, <1>2, <1>3, <1>4, <1>5

\* CancelAborted keeps the invariant.
LEMMA CancelAbortedKeeps ==
  ASSUME IInv, TypeOK', NEW j \in Jobs, CancelAborted(j)
  PROVE  IInv'
<1> USE DEF IInv, TypeOK, CancelAborted
<1>1. OneOwnerPerJob'
  BY DEF OneOwnerPerJob, asked, Running, Terminal, Up
<1>2. RegistryNamesLiveJobs'
  BY DEF RegistryNamesLiveJobs, OneOwnerPerJob, Running, Terminal, Up
<1>3. StatusFitsPlace'
  BY DEF StatusFitsPlace, OneOwnerPerJob, Running, Terminal, Up
<1>4. QuestionsFitKeys'
  BY DEF QuestionsFitKeys, Running, Terminal, Up
<1>5. LoopRemembers'
  BY DEF LoopRemembers, Running, Terminal, Up
<1> QED BY <1>1, <1>2, <1>3, <1>4, <1>5

-----------------------------------------------------------------------------
(* The invariant is kept by crashes and restarts.                           *)

\* Shutdown keeps the invariant.
LEMMA ShutdownKeeps ==
  ASSUME IInv, TypeOK', Shutdown
  PROVE  IInv'
<1> USE DEF IInv, TypeOK, Shutdown, Handling
<1>1. OneOwnerPerJob'
  BY DEF OneOwnerPerJob, asked, Running, Terminal, Up
<1>2. RegistryNamesLiveJobs'
  BY DEF RegistryNamesLiveJobs, OneOwnerPerJob, Running, Terminal, Up
<1>3. StatusFitsPlace'
  BY DEF StatusFitsPlace, OneOwnerPerJob, Running, Terminal, Up
<1>4. QuestionsFitKeys'
  BY DEF QuestionsFitKeys, Running, Terminal, Up
<1>5. LoopRemembers'
  BY DEF LoopRemembers, Running, Terminal, Up
<1> QED BY <1>1, <1>2, <1>3, <1>4, <1>5

\* Crash keeps the invariant.
LEMMA CrashKeeps ==
  ASSUME IInv, TypeOK', Crash
  PROVE  IInv'
<1> USE DEF IInv, TypeOK, Crash, Handling
<1>1. OneOwnerPerJob'
  BY DEF OneOwnerPerJob, asked, Running, Terminal, Up
<1>2. RegistryNamesLiveJobs'
  BY DEF RegistryNamesLiveJobs, OneOwnerPerJob, Running, Terminal, Up
<1>3. StatusFitsPlace'
  BY DEF StatusFitsPlace, OneOwnerPerJob, Running, Terminal, Up
<1>4. QuestionsFitKeys'
  BY DEF QuestionsFitKeys, Running, Terminal, Up
<1>5. LoopRemembers'
  BY DEF LoopRemembers, Running, Terminal, Up
<1> QED BY <1>1, <1>2, <1>3, <1>4, <1>5

\* Boot keeps the invariant.
LEMMA BootKeeps ==
  ASSUME IInv, TypeOK', Boot
  PROVE  IInv'
<1> USE DEF IInv, TypeOK, Boot, FailInterrupted, Handling
<1>1. OneOwnerPerJob'
  BY DEF OneOwnerPerJob, asked, Running, Terminal, Up
<1>2. RegistryNamesLiveJobs'
  BY DEF RegistryNamesLiveJobs, OneOwnerPerJob, Running, Terminal, Up
<1>3. StatusFitsPlace'
  BY DEF StatusFitsPlace, LoopRemembers, Running, Terminal, Up
<1>4. QuestionsFitKeys'
  BY DEF QuestionsFitKeys, LoopRemembers, Running, Terminal, Up
<1>5. LoopRemembers'
  BY DEF LoopRemembers, Running, Terminal, Up
<1> QED BY <1>1, <1>2, <1>3, <1>4, <1>5

-----------------------------------------------------------------------------
(* The theorems.                                                            *)

\* Steps that change nothing the invariant speaks of.
LEMMA QuietKeeps ==
  ASSUME IInv, TypeOK',
         UNCHANGED <<status, vol, pc, mapVars, loop, cur, retryQ, ctxDone, cancelReq>>
  PROVE  IInv'
  BY DEF IInv, OneOwnerPerJob, asked, RegistryNamesLiveJobs, StatusFitsPlace,
         QuestionsFitKeys, LoopRemembers, Up

LEMMA InitIInv == Init => IInv
<1> SUFFICES ASSUME Init PROVE IInv OBVIOUS
<1>1. TypeOK BY InitTypeOK
<1>2. OneOwnerPerJob /\ RegistryNamesLiveJobs
  BY JobsAssumption DEF Init, OneOwnerPerJob, asked, RegistryNamesLiveJobs
<1>3. StatusFitsPlace BY DEF Init, StatusFitsPlace, Up
<1>4. QuestionsFitKeys /\ LoopRemembers
  BY DEF Init, QuestionsFitKeys, LoopRemembers, Handling, Up
<1> QED BY <1>1, <1>2, <1>3, <1>4 DEF IInv

LEMMA NextIInv == IInv /\ [Next]_vars => IInv'
<1> SUFFICES ASSUME IInv, [Next]_vars PROVE IInv' OBVIOUS
<1>0. TypeOK' BY NextTypeOK DEF IInv
<1>1. ASSUME NEW j \in Jobs, Runner(j) PROVE IInv'
  BY <1>0, <1>1, AcquireSemKeeps, QueuedExitKeeps, RegisterKeeps, ScanAndPlanKeeps,
     ResolveDestKeeps, CheckSpaceKeeps, FinishCopyKeeps, EjectKeeps, UnwindKeeps, ParkKeeps
     DEF Runner
<1>2. CASE Loop
  BY <1>0, <1>2, TakeAttachKeeps, TickKeeps, TakeKickKeeps, SeedReadKeeps, SeedSetKeeps,
     HandleAttachKeeps, HandleDetachKeeps, HandleDecisionKeeps, RetrySnapshotKeeps,
     RetryResolveKeeps, ResumeOneKeeps DEF Loop
<1>3. CASE Requests
  <2>1. ASSUME NEW j \in Jobs, CancelRequest(j) \/ CancelFinish(j) \/ CancelAborted(j)
        PROVE IInv'
    BY <1>0, <2>1, CancelRequestKeeps, CancelFinishKeeps, CancelAbortedKeeps
  <2>2. ASSUME NEW d \in DestChoices, PutDest(d) PROVE IInv'
    BY <1>0, <2>2, QuietKeeps DEF PutDest
  <2>3. ASSUME NEW s \in Serials, NEW p \in CardEdits, EditCard(s, p) PROVE IInv'
    BY <1>0, <2>3, QuietKeeps DEF EditCard
  <2>4. ASSUME NEW s \in Serials, NEW a \in UserAnswers, Decide(s, a) PROVE IInv'
    BY <1>0, <2>4, QuietKeeps DEF Decide
  <2> QED BY <1>3, <2>1, <2>2, <2>3, <2>4, UserAssumption DEF Requests
<1>4. CASE Environment
  <2>1. ASSUME NEW v \in Removable, WatchAttach(v) \/ WatchDetach(v) PROVE IInv'
    BY <1>0, <2>1, QuietKeeps DEF WatchAttach, WatchDetach
  <2>2. ASSUME NEW d \in Pluggable, Plug(d) PROVE IInv'
    BY <1>0, <2>2, QuietKeeps DEF Plug
  <2> QED BY <1>0, <1>4, <2>1, <2>2, ShutdownKeeps, CrashKeeps, BootKeeps DEF Environment
<1>5. CASE UNCHANGED vars BY <1>0, <1>5, QuietKeeps
<1> QED BY <1>1, <1>2, <1>3, <1>4, <1>5 DEF Next

\* The inductive invariant holds in every reachable state.
THEOREM Inductive == Spec => []IInv
  BY InitIInv, NextIInv, PTL DEF Spec

\* No job is ever admitted twice or held by two of goroutine, blocked and
\* awaiting, whatever the interleaving of the loop, the goroutines and Cancel.
THEOREM SingleOwnership == Spec => []OneOwnerPerJob
<1>1. IInv => OneOwnerPerJob BY DEF IInv
<1> QED BY <1>1, Inductive, PTL

\* Cancel and handleDetach only ever find live jobs of the right volume.
THEOREM RegistryLive == Spec => []RegistryNamesLiveJobs
<1>1. IInv => RegistryNamesLiveJobs BY DEF IInv
<1> QED BY <1>1, Inductive, PTL

\* done and failed are final but for a cancel request already under way.
THEOREM FinishedFinal == Spec => FinishedIsFinal
<1>1. ASSUME IInv, [Next]_vars, NEW j \in Jobs,
             status[j] \in {"done", "failed"}, status'[j] # status[j]
      PROVE  cancelReq[j] = "taken" /\ status'[j] = "cancelled"
  <2> USE <1>1 DEF IInv, TypeOK
  <2>0. /\ pc[j] \notin {"queued", "admitted", "scan", "planned", "space", "parking", "copy"}
        /\ j \notin blocked
        /\ \A s \in Serials : awaiting[s] # j
    BY JobsAssumption DEF StatusFitsPlace, QuestionsFitKeys
  <2>1. ASSUME NEW k \in Jobs, Runner(k) PROVE FALSE
    BY <2>0, <2>1 DEF Runner, AcquireSem, QueuedExit, Register, ScanAndPlan, ResolveDest,
       CheckSpace, FinishCopy, Eject, Unwind, Park, fail
  <2>2. CASE Loop
    <3>1. CASE HandleAttach
      BY <3>1 DEF HandleAttach, createAndAdmit, askUnknown, Create
    <3>2. CASE HandleDetach
      <4>1. PICK B \in pickOne(blockedOn(Head(inbox)[2])), A \in pickOne(askedOn(Head(inbox)[2])) :
              status' = [k \in Jobs |-> CASE k \in B -> "failed"
                                          [] k \in A -> "cancelled"
                                          [] OTHER -> status[k]]
        BY <3>2 DEF HandleDetach
      <4>2. j \notin B BY <2>0 DEF pickOne, blockedOn
      <4>3. j \notin A BY <2>0 DEF pickOne, askedOn
      <4> QED BY <4>1, <4>2, <4>3
    <3>3. CASE HandleDecision
      <4>1. Head(inbox)[2] \in Serials
        BY <3>3, InboxHead DEF HandleDecision, Events, Answers
      <4> QED BY <2>0, <3>3, <4>1 DEF HandleDecision
    <3> QED BY <2>2, <3>1, <3>2, <3>3 DEF Loop, OnlyLoop, TakeAttach, Tick, TakeKick,
          SeedRead, SeedSet, RetrySnapshot, RetryResolve, ResumeOne
  <2>3. CASE Requests
    BY <2>3, UserAssumption DEF Requests, CancelRequest, CancelFinish, CancelAborted,
       PutDest, EditCard, Decide
  <2>4. CASE Environment
    BY <2>4 DEF Environment, WatchAttach, WatchDetach, Plug, Shutdown, Crash, Boot,
       FailInterrupted
  <2>5. CASE UNCHANGED vars BY <2>5
  <2> QED BY <2>1, <2>2, <2>3, <2>4, <2>5 DEF Next
<1>2. IInv /\ [Next]_vars =>
        [\A j \in Jobs :
           status[j] \in {"done", "failed"} /\ status'[j] # status[j]
             => cancelReq[j] = "taken" /\ status'[j] = "cancelled"]_vars
  BY <1>1
<1> QED BY <1>2, Inductive, PTL DEF Spec, FinishedIsFinal

-----------------------------------------------------------------------------
(* The copies in progress stay within the limit.                            *)

LEMMA HoldersFinite == IsFiniteSet(Holders) /\ IsFiniteSet(Holders')
  BY JobsAssumption, FS_Subset DEF Holders

\* Only taking a slot enlarges the set of holders.
LEMMA HoldersShrink ==
  ASSUME IInv, [Next]_vars, ~(\E j \in Jobs : AcquireSem(j))
  PROVE  Holders' \subseteq Holders
<1> USE DEF IInv, TypeOK, Holders, Holding, Running
<1>1. ASSUME NEW j \in Jobs, Runner(j) PROVE Holders' \subseteq Holders
  BY <1>1 DEF Runner, QueuedExit, Register, ScanAndPlan, ResolveDest, CheckSpace,
     FinishCopy, Eject, Unwind, Park, fail, goroutineEnds
<1>2. CASE Loop
  <2>1. CASE HandleDecision
    BY <2>1 DEF HandleDecision
  <2>2. CASE HandleAttach
    BY <2>2 DEF HandleAttach, createAndAdmit, askUnknown
  <2>3. CASE \E j \in Jobs : ResumeOne(j)
    BY <2>3 DEF ResumeOne
  <2> QED BY <1>2, <2>1, <2>2, <2>3 DEF Loop, OnlyLoop, TakeAttach, Tick, TakeKick,
        SeedRead, SeedSet, HandleDetach, RetrySnapshot, RetryResolve
<1>3. CASE Requests
  BY <1>3 DEF Requests, CancelRequest, CancelFinish, CancelAborted, PutDest, EditCard, Decide
<1>4. CASE Environment
  BY <1>4 DEF Environment, WatchAttach, WatchDetach, Plug, Shutdown, Crash, Boot
<1>5. CASE UNCHANGED vars BY <1>5
<1> QED BY <1>1, <1>2, <1>3, <1>4, <1>5 DEF Next

LEMMA SlotsKept ==
  ASSUME IInv, [Next]_vars, SlotsWithinCapacity
  PROVE  SlotsWithinCapacity'
<1>1. CASE \E j \in Jobs : AcquireSem(j)
  <2>1. PICK j \in Jobs : AcquireSem(j) BY <1>1
  <2>2. Holders' = Holders \cup {j}
    BY <2>1 DEF AcquireSem, Holders, Holding, IInv, TypeOK
  <2>3. j \notin Holders
    BY <2>1 DEF AcquireSem, Holders, Holding, Running
  <2>4. Cardinality(Holders') = Cardinality(Holders) + 1
    BY <2>2, <2>3, HoldersFinite, FS_AddElement
  <2>5. Cardinality(Holders) < MaxConcurrent BY <2>1 DEF AcquireSem
  <2>6. Cardinality(Holders) \in Nat BY HoldersFinite, FS_CardinalityType
  <2> QED BY <2>4, <2>5, <2>6, MaxConcurrentAssumption DEF SlotsWithinCapacity
<1>2. CASE ~(\E j \in Jobs : AcquireSem(j))
  <2>1. Cardinality(Holders') <= Cardinality(Holders)
    BY <1>2, HoldersShrink, HoldersFinite, FS_Subset
  <2>2. Cardinality(Holders) \in Nat /\ Cardinality(Holders') \in Nat
    BY HoldersFinite, FS_CardinalityType
  <2> QED BY <2>1, <2>2, MaxConcurrentAssumption DEF SlotsWithinCapacity
<1> QED BY <1>1, <1>2

LEMMA InitSlots == Init => SlotsWithinCapacity
<1> SUFFICES ASSUME Init PROVE SlotsWithinCapacity OBVIOUS
<1>1. Holders = {} BY DEF Init, Holders, Holding, Running
<1> QED BY <1>1, FS_EmptySet, MaxConcurrentAssumption DEF SlotsWithinCapacity

\* A job the database shows as copying holds a slot, so there are never more
\* of them than max_concurrent_jobs, across crashes and restarts.
THEOREM CopyingBounded == Spec => []CopyingWithinLimit
<1>1. Spec => []SlotsWithinCapacity
  <2>1. IInv /\ SlotsWithinCapacity /\ [Next]_vars => SlotsWithinCapacity'
    BY SlotsKept
  <2> QED BY <2>1, InitSlots, Inductive, PTL DEF Spec
<1>2. ASSUME IInv, SlotsWithinCapacity PROVE CopyingWithinLimit
  <2> SUFFICES ASSUME Up PROVE Cardinality({j \in Jobs : status[j] = "copying"}) <= MaxConcurrent
    BY DEF CopyingWithinLimit
  <2> DEFINE C == {j \in Jobs : status[j] = "copying"}
  <2>1. C \subseteq Holders
    BY <1>2 DEF IInv, StatusFitsPlace, Holders, Holding, Running
  <2>2. IsFiniteSet(C) /\ Cardinality(C) <= Cardinality(Holders)
    BY <2>1, HoldersFinite, FS_Subset
  <2>3. Cardinality(C) \in Nat /\ Cardinality(Holders) \in Nat
    BY <2>2, HoldersFinite, FS_CardinalityType
  <2> QED BY <1>2, <2>2, <2>3, MaxConcurrentAssumption DEF SlotsWithinCapacity
<1> QED BY <1>1, <1>2, Inductive, PTL

-----------------------------------------------------------------------------
(* Every active job has an owner.                                           *)

\* What ActiveJobHasOwner asks of one job, the copying case apart: that one
\* is part of StatusFitsPlace.
Owned(k) ==
  cancelReq[k] \notin {"taken", "aborted"} =>
    /\ status[k] = "awaiting_decision" => awaiting[SerialOf[vol[k]]] = k
    /\ status[k] = "pending" => pc[k] # "idle" \/ k \in blocked

LEMMA RunnerOwned ==
  ASSUME IInv, TypeOK', NEW j \in Jobs, Runner(j), ~ctxDone, NEW k \in Jobs, Owned(k)
  PROVE  Owned(k)'
<1> USE DEF IInv, TypeOK, Owned
<1>1. CASE AcquireSem(j) BY <1>1 DEF AcquireSem
<1>2. CASE QueuedExit(j) BY <1>2 DEF QueuedExit
<1>3. CASE Register(j) BY <1>3 DEF Register
<1>4. CASE ScanAndPlan(j) BY <1>4 DEF ScanAndPlan, fail, EndStatus
<1>5. CASE ResolveDest(j) BY <1>5 DEF ResolveDest
<1>6. CASE CheckSpace(j) BY <1>6 DEF CheckSpace, fail, EndStatus
<1>7. CASE FinishCopy(j) BY <1>7 DEF FinishCopy, EndStatus
<1>8. CASE Eject(j) BY <1>8 DEF Eject
<1>9. CASE Unwind(j) BY <1>9 DEF Unwind, goroutineEnds, StatusFitsPlace, Terminal
<1>10. CASE Park(j) BY <1>10 DEF Park, goroutineEnds, StatusFitsPlace
<1> QED BY <1>1, <1>2, <1>3, <1>4, <1>5, <1>6, <1>7, <1>8, <1>9, <1>10 DEF Runner

LEMMA LoopOwned ==
  ASSUME IInv, TypeOK', Loop, NEW k \in Jobs, Owned(k)
  PROVE  Owned(k)'
<1> USE DEF IInv, TypeOK, Owned
<1>1. CASE HandleAttach
  <2>0. cur \in Removable /\ SerialOf[cur] \in Serials
    BY <1>1, SerialsIdentifyVolumes DEF HandleAttach, LoopAt, LoopRemembers
  <2>1. CASE UNCHANGED <<status, vol, pc, awaiting>>
    BY <1>1, <2>1 DEF HandleAttach
  <2>2. ASSUME NEW j \in Jobs, createAndAdmit(j) PROVE Owned(k)'
    BY <1>1, <2>2 DEF HandleAttach, createAndAdmit, Create
  <2>3. ASSUME NEW j \in Jobs, askUnknown(j) PROVE Owned(k)'
    <3>1. CASE j = k
      BY <1>1, <2>0, <2>3, <3>1 DEF HandleAttach, askUnknown, Create
    <3>2. CASE j # k
      <4>0. cur # None BY <2>0, DrivesAssumption
      <4>1. ASSUME awaiting[SerialOf[cur]] # None PROVE FALSE
        <5>1. /\ vol[awaiting[SerialOf[cur]]] \in Removable
              /\ SerialOf[vol[awaiting[SerialOf[cur]]]] = SerialOf[cur]
          BY <2>0, <4>1 DEF QuestionsFitKeys
        <5>2. vol[awaiting[SerialOf[cur]]] = cur
          BY <2>0, <5>1, SerialsIdentifyVolumes
        <5> QED BY <2>0, <4>0, <4>1, <5>2 DEF LoopRemembers
      <4> QED BY <1>1, <2>0, <2>3, <3>2, <4>1, JobsAssumption DEF HandleAttach, askUnknown, Create
    <3> QED BY <3>1, <3>2
  <2> QED BY <1>1, <2>1, <2>2, <2>3 DEF HandleAttach
<1>2. CASE HandleDetach
  <2>1. PICK B \in pickOne(blockedOn(Head(inbox)[2])), A \in pickOne(askedOn(Head(inbox)[2])) :
          /\ blocked' = blocked \ B
          /\ awaiting' = [s \in Serials |-> IF awaiting[s] \in A THEN None ELSE awaiting[s]]
          /\ status' = [j \in Jobs |-> CASE j \in B -> "failed"
                                         [] j \in A -> "cancelled"
                                         [] OTHER -> status[j]]
    BY <1>2 DEF HandleDetach
  <2>2. UNCHANGED <<vol, pc, cancelReq>> BY <1>2 DEF HandleDetach
  <2>3. CASE k \in B \/ k \in A BY <2>1, <2>3
  <2>4. CASE k \notin B /\ k \notin A
    <3>1. status'[k] = status[k] /\ (k \in blocked => k \in blocked')
      BY <2>1, <2>4
    <3>2. ASSUME status[k] = "awaiting_decision", awaiting[SerialOf[vol[k]]] = k
          PROVE  awaiting'[SerialOf[vol[k]]] = k
      <4>1. vol[k] \in Removable BY <3>2 DEF StatusFitsPlace
      <4> QED BY <2>1, <2>4, <3>2, <4>1, SerialsIdentifyVolumes
    <3> QED BY <2>2, <3>1, <3>2
  <2> QED BY <2>3, <2>4
<1>3. CASE HandleDecision
  <2>1. Head(inbox)[2] \in Serials
    BY <1>3, InboxHead DEF HandleDecision, Events, Answers
  <2>2. CASE awaiting[Head(inbox)[2]] = k
    BY <1>3, <2>1, <2>2, JobsAssumption DEF HandleDecision
  <2>3. CASE awaiting[Head(inbox)[2]] # k
    <3>1. status'[k] = status[k] /\ pc'[k] = pc[k]
      BY <1>3, <2>1, <2>3 DEF HandleDecision
    <3>2. UNCHANGED <<vol, blocked, cancelReq>>
      BY <1>3 DEF HandleDecision
    <3>3. ASSUME NEW s \in Serials, awaiting[s] = k PROVE awaiting'[s] = k
      BY <1>3, <2>1, <2>3, <3>3 DEF HandleDecision
    <3>4. status[k] = "awaiting_decision" => SerialOf[vol[k]] \in Serials
      BY SerialsIdentifyVolumes DEF StatusFitsPlace
    <3> QED BY <3>1, <3>2, <3>3, <3>4
  <2> QED BY <2>2, <2>3
<1>4. CASE \E j \in Jobs : ResumeOne(j)
  BY <1>4 DEF ResumeOne
<1> QED BY <1>1, <1>2, <1>3, <1>4 DEF Loop, OnlyLoop, TakeAttach, Tick, TakeKick,
      SeedRead, SeedSet, RetrySnapshot, RetryResolve

LEMMA RequestsOwned ==
  ASSUME IInv, TypeOK', Requests, NEW k \in Jobs, Owned(k)
  PROVE  Owned(k)'
<1> USE DEF IInv, TypeOK, Owned
<1>1. ASSUME NEW j \in Jobs, CancelRequest(j) PROVE Owned(k)'
  <2>1. CASE j = k
    BY <1>1, <2>1 DEF CancelRequest
  <2>2. CASE j # k
    <3>1. /\ cancelReq'[k] = cancelReq[k]
          /\ UNCHANGED <<status, vol, pc>>
          /\ k \in blocked => k \in blocked'
      BY <1>1, <2>2 DEF CancelRequest
    <3>2. ASSUME NEW s \in Serials, awaiting[s] = k PROVE awaiting'[s] = k
      BY <1>1, <2>2, <3>2 DEF CancelRequest
    <3>3. status[k] = "awaiting_decision" => SerialOf[vol[k]] \in Serials
      BY SerialsIdentifyVolumes DEF StatusFitsPlace
    <3> QED BY <3>1, <3>2, <3>3
  <2> QED BY <2>1, <2>2
<1>2. ASSUME NEW j \in Jobs, CancelFinish(j) PROVE Owned(k)' BY <1>2 DEF CancelFinish
<1>3. ASSUME NEW j \in Jobs, CancelAborted(j) PROVE Owned(k)' BY <1>3 DEF CancelAborted
<1> QED BY <1>1, <1>2, <1>3, UserAssumption DEF Requests, PutDest, EditCard, Decide

\* Only the start of the process brings it up.
LEMMA OnlyBootStarts ==
  ASSUME [Next]_vars, ~Boot, Up', ~ctxDone'
  PROVE  Up /\ ~ctxDone
<1> USE DEF Up
<1>1. CASE Loop
  BY <1>1 DEF Loop, LoopAt, OnlyLoop, TakeAttach, Tick, TakeKick, SeedRead, SeedSet,
     HandleAttach, HandleDetach, HandleDecision, RetrySnapshot, RetryResolve, ResumeOne
<1>2. CASE UNCHANGED <<loop, ctxDone>> BY <1>2
<1>3. ASSUME NEW j \in Jobs, Runner(j) PROVE UNCHANGED <<loop, ctxDone>>
  BY <1>3 DEF Runner, AcquireSem, QueuedExit, Register, ScanAndPlan,
     ResolveDest, CheckSpace, FinishCopy, Eject, Unwind, Park
<1>4. ASSUME Requests PROVE UNCHANGED <<loop, ctxDone>>
  <2>1. ASSUME NEW j \in CancelTargets, CancelRequest(j) \/ CancelFinish(j) \/ CancelAborted(j)
        PROVE  UNCHANGED <<loop, ctxDone>>
    BY <2>1 DEF CancelRequest, CancelFinish, CancelAborted
  <2>2. ASSUME NEW d \in DestChoices, PutDest(d) PROVE UNCHANGED <<loop, ctxDone>>
    BY <2>2 DEF PutDest
  <2>3. ASSUME NEW s \in Serials, NEW p \in CardEdits, EditCard(s, p)
        PROVE  UNCHANGED <<loop, ctxDone>>
    BY <2>3 DEF EditCard
  <2>4. ASSUME NEW s \in Serials, NEW a \in UserAnswers, Decide(s, a)
        PROVE  UNCHANGED <<loop, ctxDone>>
    BY <2>4 DEF Decide
  <2> QED BY <1>4, <2>1, <2>2, <2>3, <2>4 DEF Requests
<1>5. CASE Environment
  <2>1. ASSUME NEW v \in Removable, WatchAttach(v) \/ WatchDetach(v)
        PROVE  UNCHANGED <<loop, ctxDone>>
    BY <2>1 DEF WatchAttach, WatchDetach
  <2>2. ASSUME NEW d \in Pluggable, Plug(d) PROVE UNCHANGED <<loop, ctxDone>>
    BY <2>2 DEF Plug
  <2> QED BY <1>5, <2>1, <2>2 DEF Environment, Shutdown, Crash
<1> QED BY <1>1, <1>2, <1>3, <1>4, <1>5 DEF Next

\* No interleaving of detach, decision, retry, crash and restart orphans a job.
THEOREM ActiveJobsOwned == Spec => []ActiveJobHasOwner
<1> DEFINE AllOwned == Up /\ ~ctxDone => \A k \in Jobs : Owned(k)
<1>1. Init => AllOwned
  BY DEF Init, Up
<1>2. ASSUME IInv, AllOwned, [Next]_vars PROVE AllOwned'
  <2> SUFFICES ASSUME Up', ~ctxDone', NEW k \in Jobs PROVE Owned(k)'
    OBVIOUS
  <2>0. TypeOK' BY <1>2, NextTypeOK DEF IInv
  <2>1. CASE Boot
    BY <2>1 DEF Boot, FailInterrupted, Owned
  <2>2. CASE ~Boot
    <3>1. Up /\ ~ctxDone BY <1>2, <2>2, OnlyBootStarts
    <3>2. Owned(k) BY <1>2, <3>1
    <3>3. CASE \E j \in Jobs : Runner(j) BY <1>2, <2>0, <3>1, <3>2, <3>3, RunnerOwned
    <3>4. CASE Loop BY <1>2, <2>0, <3>2, <3>4, LoopOwned
    <3>5. CASE Requests BY <1>2, <2>0, <3>2, <3>5, RequestsOwned
    <3>6. CASE Environment
      BY <2>2, <3>2, <3>6 DEF Environment, WatchAttach, WatchDetach, Plug, Shutdown, Crash,
         Owned, Up
    <3>7. CASE UNCHANGED vars BY <3>2, <3>7 DEF Owned
    <3> QED BY <1>2, <3>3, <3>4, <3>5, <3>6, <3>7 DEF Next
  <2> QED BY <2>1, <2>2
<1>3. IInv /\ AllOwned => ActiveJobHasOwner
  BY DEF IInv, StatusFitsPlace, ActiveJobHasOwner, Owned
<1> QED BY <1>1, <1>2, <1>3, Inductive, PTL DEF Spec
-----------------------------------------------------------------------------
(* The manager implements JobLifecycle.                                     *)

\* What CancelledOnRequest asks of one job.
OnRequest(k) ==
  /\ cause[k] = "user" => cancelReq[k] = "accepted"
  /\ status[k] = "cancelled" /\ underWay(k) => cancelReq[k] = "accepted"
  /\ ~Up => cancelReq[k] # "taken"

\* A job with a goroutine or an open question holds with the process up.
LEMMA OwnedMeansUp ==
  ASSUME IInv, NEW j \in Jobs, pc[j] # "idle" \/ asked(j) \/ j \in blocked
  PROVE  Up
  BY JobsAssumption DEF IInv, LoopRemembers, asked, TypeOK

LEMMA RunnerOnRequest ==
  ASSUME IInv, TypeOK', NEW j \in Jobs, Runner(j), NEW k \in Jobs, OnRequest(k)
  PROVE  OnRequest(k)'
<1> USE DEF IInv, TypeOK, OnRequest, underWay
<1>1. CASE AcquireSem(j) BY <1>1 DEF AcquireSem, Up
<1>2. CASE QueuedExit(j) BY <1>2 DEF QueuedExit, Up
<1>3. CASE Register(j) BY <1>3 DEF Register, Up
<1>4. CASE ScanAndPlan(j)
  BY <1>4 DEF ScanAndPlan, fail, EndStatus, Up, OneOwnerPerJob
<1>5. CASE ResolveDest(j) BY <1>5 DEF ResolveDest, Up
<1>6. CASE CheckSpace(j) BY <1>6 DEF CheckSpace, fail, EndStatus, Up, OneOwnerPerJob
<1>7. CASE FinishCopy(j) BY <1>7 DEF FinishCopy, EndStatus, Up, OneOwnerPerJob
<1>8. CASE Eject(j) BY <1>8 DEF Eject, Up
<1>9. CASE Unwind(j) BY <1>9 DEF Unwind, goroutineEnds, Up
<1>10. CASE Park(j) BY <1>10 DEF Park, goroutineEnds, Up
<1> QED BY <1>1, <1>2, <1>3, <1>4, <1>5, <1>6, <1>7, <1>8, <1>9, <1>10 DEF Runner

LEMMA LoopOnRequest ==
  ASSUME IInv, TypeOK', Loop, NEW k \in Jobs, OnRequest(k)
  PROVE  OnRequest(k)'
<1> USE DEF IInv, TypeOK, OnRequest, underWay
<1>1. CASE HandleAttach
  <2>1. ASSUME NEW j \in Jobs, createAndAdmit(j) \/ askUnknown(j) PROVE OnRequest(k)'
    <3>1. status' = [status EXCEPT ![j] = status'[j]] /\ status'[j] # "cancelled"
      BY <2>1 DEF createAndAdmit, askUnknown, Create
    <3>2. k # j => pc'[k] = pc[k]
      BY <2>1 DEF createAndAdmit, askUnknown
    <3> QED BY <1>1, <3>1, <3>2 DEF HandleAttach, LoopAt, Up
  <2>2. CASE UNCHANGED <<status, vol, pc, awaiting>>
    BY <1>1, <2>2 DEF HandleAttach, LoopAt, Up
  <2> QED BY <1>1, <2>1, <2>2 DEF HandleAttach
<1>2. CASE HandleDetach
  <2>1. PICK B \in pickOne(blockedOn(Head(inbox)[2])), A \in pickOne(askedOn(Head(inbox)[2])) :
          /\ cause' = IF byGUID[Head(inbox)[2]] = None THEN cause
                      ELSE CancelCause(byGUID[Head(inbox)[2]], "detached")
          /\ blocked' = blocked \ B
          /\ status' = [j \in Jobs |-> CASE j \in B -> "failed"
                                         [] j \in A -> "cancelled"
                                         [] OTHER -> status[j]]
    BY <1>2 DEF HandleDetach
  <2>2. UNCHANGED <<pc, cancelReq, loop, retryQ>> /\ retryQ = {}
    BY <1>2 DEF HandleDetach, LoopAt, LoopRemembers
  <2>3. cause'[k] = "user" => cause[k] = "user"
    BY <2>1 DEF CancelCause
  <2>4. k \in A => ~underWay(k)
    BY <2>1, <2>2 DEF pickOne, askedOn, OneOwnerPerJob, asked
  <2>5. status'[k] = "cancelled" => k \in A \/ status[k] = "cancelled"
    BY <2>1
  <2>6. underWay(k)' => underWay(k)
    BY <2>1, <2>2
  <2> QED BY <2>2, <2>3, <2>4, <2>5, <2>6 DEF Up
<1>3. CASE HandleDecision
  <2>1. Head(inbox)[2] \in Serials
    BY <1>3, InboxHead DEF HandleDecision, Events, Answers
  <2>2. CASE awaiting[Head(inbox)[2]] = k
    <3>1. asked(k) /\ ~underWay(k) /\ status[k] # "cancelled"
      BY <1>3, <2>1, <2>2, JobsAssumption
         DEF asked, OneOwnerPerJob, QuestionsFitKeys, HandleDecision, LoopAt, LoopRemembers
    <3>2. UNCHANGED <<cause, cancelReq, blocked, retryQ, loop>>
      BY <1>3 DEF HandleDecision
    <3>3. status'[k] = "cancelled" => pc'[k] = pc[k]
      BY <1>3, <2>1, <2>2, JobsAssumption DEF HandleDecision
    <3> QED BY <3>1, <3>2, <3>3 DEF Up
  <2>3. CASE awaiting[Head(inbox)[2]] # k
    <3>1. status'[k] = status[k] /\ pc'[k] = pc[k]
      BY <1>3, <2>1, <2>3 DEF HandleDecision
    <3> QED BY <1>3, <3>1 DEF HandleDecision, Up
  <2> QED BY <2>2, <2>3
<1>4. CASE \E j \in Jobs : ResumeOne(j)
  BY <1>4 DEF ResumeOne, LoopAt, Up
<1>5. CASE RetrySnapshot
  BY <1>5 DEF RetrySnapshot, OnlyLoop, LoopAt, Up
<1>6. CASE RetryResolve
  BY <1>6 DEF RetryResolve, OnlyLoop, LoopAt, Up
<1>7. CASE TakeAttach \/ Tick \/ TakeKick \/ SeedRead \/ SeedSet
  BY <1>7 DEF TakeAttach, Tick, TakeKick, SeedRead, SeedSet, OnlyLoop, LoopAt, AfterSeed, Up
<1> QED BY <1>1, <1>2, <1>3, <1>4, <1>5, <1>6, <1>7 DEF Loop

LEMMA RequestsOnRequest ==
  ASSUME IInv, TypeOK', Requests, NEW k \in Jobs, OnRequest(k)
  PROVE  OnRequest(k)'
<1> USE DEF IInv, TypeOK, OnRequest, underWay
<1>1. ASSUME NEW j \in Jobs, CancelRequest(j) PROVE OnRequest(k)'
  <2>1. /\ UNCHANGED <<status, pc, retryQ, loop>> /\ Up
        /\ k \in blocked' => k \in blocked
    BY <1>1 DEF CancelRequest, Serving
  <2>2. cancelReq[k] = "accepted" => cancelReq'[k] = "accepted"
    BY <1>1 DEF CancelRequest
  <2>3. cause'[k] = "user" => cancelReq'[k] = "accepted"
    BY <1>1, <2>2 DEF CancelRequest, CancelCause
  <2> QED BY <2>1, <2>2, <2>3 DEF Up
<1>2. ASSUME NEW j \in Jobs, CancelFinish(j) PROVE OnRequest(k)'
  BY <1>2 DEF CancelFinish, Up
<1>3. ASSUME NEW j \in Jobs, CancelAborted(j) PROVE OnRequest(k)'
  BY <1>3 DEF CancelAborted, Up
<1> QED BY <1>1, <1>2, <1>3, UserAssumption DEF Requests, PutDest, EditCard, Decide, Up

LEMMA EnvironmentOnRequest ==
  ASSUME IInv, TypeOK', Environment, NEW k \in Jobs, OnRequest(k)
  PROVE  OnRequest(k)'
<1> USE DEF IInv, TypeOK, OnRequest, underWay
<1>1. CASE Shutdown BY <1>1 DEF Shutdown, Up
<1>2. CASE Crash BY <1>2 DEF Crash
<1>3. CASE Boot BY <1>3 DEF Boot, FailInterrupted, LoopRemembers, Up
<1> QED BY <1>1, <1>2, <1>3 DEF Environment, WatchAttach, WatchDetach, Plug, Up

LEMMA NextOnRequest == IInv /\ CancelledOnRequest /\ [Next]_vars => CancelledOnRequest'
<1> SUFFICES ASSUME IInv, CancelledOnRequest, [Next]_vars, NEW k \in Jobs PROVE OnRequest(k)'
  BY DEF CancelledOnRequest, OnRequest
<1>0. TypeOK' BY NextTypeOK DEF IInv
<1>1. OnRequest(k) BY DEF CancelledOnRequest, OnRequest
<1>2. CASE UNCHANGED vars BY <1>1, <1>2 DEF OnRequest, underWay, Up
<1> QED BY <1>0, <1>1, <1>2, RunnerOnRequest, LoopOnRequest, RequestsOnRequest,
       EnvironmentOnRequest DEF Next

\* In every reachable state a job on its way that reads "cancelled" had a
\* cancel request that was accepted.
THEOREM CancelledByRequest == Spec => []CancelledOnRequest
<1>1. Init => CancelledOnRequest BY DEF Init, CancelledOnRequest
<1> QED BY <1>1, NextOnRequest, Inductive, PTL DEF Spec

\* The invariants the steps of the lifecycle are read from.
LifeInv == IInv /\ CancelledOnRequest

\* A step that keeps what the lifecycle sees is none of it.
LEMMA Unseen ==
  ASSUME UNCHANGED <<status, cancelReq, Up>>,
         \A k \in Jobs : pc'[k] \in Holding <=> pc[k] \in Holding
  PROVE  UNCHANGED Lifecycle!vars
  BY DEF Lifecycle!vars, Holders, Taken, Accepted

\* A step that only writes the row of j.
LEMMA RowWritten ==
  ASSUME NEW j \in Jobs, NEW st, status' = [status EXCEPT ![j] = st],
         UNCHANGED <<cancelReq, Up>>,
         \A k \in Jobs : pc'[k] \in Holding <=> pc[k] \in Holding
  PROVE  Lifecycle!Move(j, st)
  BY DEF Lifecycle!Move, Holders, Taken, Accepted

\* What a goroutine finds in the row of its job.
LEMMA RowOfHolder ==
  ASSUME LifeInv, NEW j \in Jobs, pc[j] \in Holding
  PROVE  /\ Up /\ j \in Holders
         /\ pc[j] \in {"admitted", "scan", "planned", "space", "parking"} => Lifecycle!waits(j)
         /\ pc[j] = "copy" => status[j] = "copying" \/ (status[j] = "cancelled" /\ j \in Accepted)
         /\ pc[j] \in {"eject", "unwind"} => status[j] \in Terminal
         /\ cause[j] = "user" => j \in Accepted
<1>1. Up
  BY OwnedMeansUp DEF LifeInv, Holding, Running
<1>2. j \in Holders
  BY DEF Holders
<1>3. pc[j] \in {"admitted", "scan", "planned", "space", "parking"} => Lifecycle!waits(j)
  BY DEF LifeInv, IInv, StatusFitsPlace, CancelledOnRequest, underWay, Accepted, Lifecycle!waits
<1>4. pc[j] = "copy" => status[j] = "copying" \/ (status[j] = "cancelled" /\ j \in Accepted)
  BY DEF LifeInv, IInv, StatusFitsPlace, CancelledOnRequest, underWay, Accepted
<1>5. pc[j] \in {"eject", "unwind"} => status[j] \in Terminal
  BY DEF LifeInv, IInv, StatusFitsPlace
<1>6. cause[j] = "user" => j \in Accepted
  BY DEF LifeInv, CancelledOnRequest, Accepted
<1> QED BY <1>1, <1>2, <1>3, <1>4, <1>5, <1>6

\* A goroutine that ends a job before its copy.
LEMMA FailFollows ==
  ASSUME LifeInv, NEW j \in Jobs, pc[j] \in {"scan", "space"}, fail(j), UNCHANGED <<cancelReq, loop>>
  PROVE  Lifecycle!Work(j) \/ UNCHANGED Lifecycle!vars
<1>1. pc[j] \in Holding BY DEF Holding, Running
<1>2. Up /\ j \in Holders /\ Lifecycle!waits(j) /\ (cause[j] = "user" => j \in Accepted)
  BY <1>1, RowOfHolder
<1>3. \A k \in Jobs : pc'[k] \in Holding <=> pc[k] \in Holding
  BY <1>1 DEF fail, LifeInv, IInv, TypeOK, Holding, Running
<1>4. Lifecycle!Move(j, EndStatus(j))
  BY <1>3, RowWritten DEF fail, Up
<1>5. CASE cause[j] # "user"
  BY <1>2, <1>4, <1>5 DEF EndStatus, Lifecycle!Work
<1>6. CASE cause[j] = "user"
  <2>1. CASE status[j] = "pending"
    BY <1>2, <1>4, <1>6, <2>1 DEF EndStatus, Lifecycle!Work
  <2>2. CASE status[j] = "cancelled"
    <3>1. status' = status BY <1>6, <2>2 DEF fail, EndStatus, LifeInv, IInv, TypeOK
    <3> QED BY <1>3, <3>1, Unseen DEF Up
  <2> QED BY <1>2, <2>1, <2>2 DEF Lifecycle!waits
<1> QED BY <1>5, <1>6

\* The goroutine that gives its slot back.
LEMMA SlotGiven ==
  ASSUME LifeInv, NEW j \in Jobs, pc[j] \in {"unwind", "parking"}, goroutineEnds(j),
         UNCHANGED <<status, cancelReq, loop>>
  PROVE  Lifecycle!GiveSlot(j)
<1>1. pc[j] \in Holding BY DEF Holding, Running
<1>2. j \in Holders /\ status[j] \in {"done", "failed", "cancelled", "pending"}
  BY <1>1, RowOfHolder DEF Lifecycle!waits, Terminal
<1>3. Holders' = Holders \ {j}
  BY DEF goroutineEnds, LifeInv, IInv, TypeOK, Holders, Holding, Running
<1> QED BY <1>2, <1>3 DEF Lifecycle!GiveSlot, Lifecycle!Ended, Taken, Accepted, Up

\* Every step of a goroutine is one of its job, or none.
LEMMA RunnerFollows ==
  ASSUME LifeInv, NEW j \in Jobs, Runner(j)
  PROVE  Lifecycle!Next \/ UNCHANGED Lifecycle!vars
<1> USE DEF LifeInv, IInv, TypeOK
<1>1. CASE AcquireSem(j)
  <2>1. j \notin Holders BY <1>1 DEF AcquireSem, Holders, Holding, Running
  <2>2. Holders' = Holders \cup {j}
    BY <1>1 DEF AcquireSem, Holders, Holding
  <2>3. Up BY <1>1, OwnedMeansUp DEF AcquireSem
  <2>4. Lifecycle!waits(j)
    BY <1>1 DEF AcquireSem, StatusFitsPlace, CancelledOnRequest, underWay, Accepted, Lifecycle!waits
  <2>5. Lifecycle!TakeSlot(j)
    <3>1. Cardinality(Holders) < MaxConcurrent BY <1>1 DEF AcquireSem
    <3>2. UNCHANGED <<status, Taken, Accepted, Up>>
      BY <1>1 DEF AcquireSem, Taken, Accepted, Up
    <3>3. Lifecycle!Cardinality(Holders) = Cardinality(Holders)
      BY DEF Lifecycle!Cardinality, Cardinality
    <3> QED BY <2>1, <2>2, <2>3, <2>4, <3>1, <3>2, <3>3, Zenon DEF Lifecycle!TakeSlot
  <2> QED BY <2>5 DEF Lifecycle!Next
<1>2. CASE QueuedExit(j) \/ Register(j) \/ Eject(j)
  <2>1. UNCHANGED <<status, cancelReq, loop>>
    BY <1>2 DEF QueuedExit, Register, Eject
  <2>2. \A k \in Jobs : pc'[k] \in Holding <=> pc[k] \in Holding
    BY <1>2 DEF QueuedExit, Register, Eject, Holding, Running
  <2> QED BY <2>1, <2>2, Unseen DEF Up
<1>3. CASE ScanAndPlan(j) \/ CheckSpace(j)
  <2>1. /\ pc[j] \in {"scan", "space"} /\ UNCHANGED <<cancelReq, loop>>
    BY <1>3 DEF ScanAndPlan, CheckSpace
  <2>2. CASE fail(j)
    BY <2>1, <2>2, FailFollows DEF Lifecycle!Next
  <2>3. CASE pc' = [pc EXCEPT ![j] = "planned"] /\ UNCHANGED status
    <3>1. \A k \in Jobs : pc'[k] \in Holding <=> pc[k] \in Holding
      BY <2>1, <2>3 DEF Holding, Running
    <3> QED BY <2>1, <2>3, <3>1, Unseen DEF Up
  <2>4. CASE status' = [status EXCEPT ![j] = "copying"] /\ pc' = [pc EXCEPT ![j] = "copy"]
    <3>1. \A k \in Jobs : pc'[k] \in Holding <=> pc[k] \in Holding
      BY <2>1, <2>4 DEF Holding, Running
    <3>2. Lifecycle!Move(j, "copying")
      BY <2>1, <2>4, <3>1, RowWritten DEF Up
    <3>3. Up /\ j \in Holders /\ Lifecycle!waits(j)
      BY <2>1, RowOfHolder DEF Holding, Running
    <3> QED BY <3>2, <3>3 DEF Lifecycle!Work, Lifecycle!Next
  <2> QED BY <1>3, <2>2, <2>3, <2>4 DEF ScanAndPlan, CheckSpace
<1>4. CASE ResolveDest(j)
  <2>1. \A k \in Jobs : pc'[k] \in Holding <=> pc[k] \in Holding
    BY <1>4 DEF ResolveDest, Holding, Running
  <2>2. CASE status' = status
    BY <1>4, <2>1, <2>2, Unseen DEF ResolveDest, Up
  <2>3. CASE status' = [status EXCEPT ![j] = "pending"]
    <3>1. Lifecycle!Move(j, "pending")
      BY <1>4, <2>1, <2>3, RowWritten DEF ResolveDest, Up
    <3>2. Up /\ j \in Holders /\ Lifecycle!waits(j)
      BY <1>4, RowOfHolder DEF ResolveDest, Holding, Running
    <3> QED BY <3>1, <3>2 DEF Lifecycle!Work, Lifecycle!Next
  <2> QED BY <1>4, <2>2, <2>3 DEF ResolveDest
<1>5. CASE FinishCopy(j)
  <2>1. \A k \in Jobs : pc'[k] \in Holding <=> pc[k] \in Holding
    BY <1>5 DEF FinishCopy, Holding, Running
  <2>2. /\ Up /\ j \in Holders /\ (cause[j] = "user" => j \in Accepted)
        /\ status[j] = "copying" \/ (status[j] = "cancelled" /\ j \in Accepted)
    BY <1>5, RowOfHolder DEF FinishCopy, Holding, Running
  <2>3. PICK st \in {"done", "failed", "cancelled"} :
          /\ status' = [status EXCEPT ![j] = st]
          /\ st = "cancelled" => cause[j] = "user"
    BY <1>5 DEF FinishCopy, EndStatus
  <2>4. Lifecycle!Move(j, st)
    BY <1>5, <2>1, <2>3, RowWritten DEF FinishCopy, Up
  <2>5. CASE status[j] = "copying"
    BY <2>2, <2>3, <2>4, <2>5 DEF Lifecycle!Work, Lifecycle!Next
  <2>6. CASE status[j] = "cancelled" /\ j \in Accepted
    <3>1. CASE st = "done" BY <2>2, <2>4, <2>6, <3>1 DEF Lifecycle!Work, Lifecycle!Next
    <3>2. CASE st = "failed"
      BY <2>2, <2>4, <2>6, <3>2 DEF Lifecycle!Work, Lifecycle!waits, Lifecycle!Next
    <3>3. CASE st = "cancelled"
      <4>1. status' = status BY <2>3, <2>6, <3>3
      <4> QED BY <1>5, <2>1, <4>1, Unseen DEF FinishCopy, Up
    <3> QED BY <2>3, <3>1, <3>2, <3>3
  <2> QED BY <2>2, <2>5, <2>6
<1>6. CASE Unwind(j) \/ Park(j)
  BY <1>6, SlotGiven DEF Unwind, Park, Lifecycle!Next
<1> QED BY <1>1, <1>2, <1>3, <1>4, <1>5, <1>6 DEF Runner

\* Every step of the loop opens a job, settles waiting ones, or is none.
LEMMA LoopFollows ==
  ASSUME LifeInv, TypeOK', Loop
  PROVE  Lifecycle!Next \/ UNCHANGED Lifecycle!vars
<1> USE DEF LifeInv, IInv, TypeOK
<1>0. Up /\ Up'
  BY DEF Loop, LoopAt, OnlyLoop, TakeAttach, Tick, TakeKick, SeedRead, SeedSet, AfterSeed,
     HandleAttach, HandleDetach, HandleDecision, RetrySnapshot, RetryResolve, ResumeOne, Up
<1>1. CASE HandleAttach
  <2>1. ASSUME NEW j \in Jobs, createAndAdmit(j) \/ askUnknown(j) PROVE Lifecycle!Open(j)
    <3>1. PICK st \in {"pending", "awaiting_decision"} : status' = [status EXCEPT ![j] = st]
      BY <2>1 DEF createAndAdmit, askUnknown, Create
    <3>2. status[j] = "unused" /\ pc[j] = "idle"
      BY <2>1 DEF createAndAdmit, askUnknown, Create, StatusFitsPlace
    <3>3. \A k \in Jobs : pc'[k] \in Holding <=> pc[k] \in Holding
      BY <2>1, <3>2 DEF createAndAdmit, askUnknown, Holding, Running
    <3>4. Lifecycle!Move(j, st)
      BY <1>0, <1>1, <3>1, <3>3, RowWritten DEF HandleAttach
    <3> QED BY <1>0, <3>2, <3>4 DEF Lifecycle!Open
  <2>2. CASE UNCHANGED <<status, vol, pc, awaiting>>
    BY <1>0, <1>1, <2>2, Unseen DEF HandleAttach
  <2> QED BY <1>1, <2>1, <2>2 DEF HandleAttach, Lifecycle!Next
<1>2. CASE HandleDetach
  <2>1. PICK B \in pickOne(blockedOn(Head(inbox)[2])), A \in pickOne(askedOn(Head(inbox)[2])) :
          status' = [j \in Jobs |-> CASE j \in B -> "failed"
                                      [] j \in A -> "cancelled"
                                      [] OTHER -> status[j]]
    BY <1>2 DEF HandleDetach
  <2>2. UNCHANGED <<pc, cancelReq>>
    BY <1>2 DEF HandleDetach
  <2>3. \A j \in B : j \in Jobs \ Holders /\ Lifecycle!waits(j)
    BY <2>1 DEF pickOne, blockedOn, OneOwnerPerJob, StatusFitsPlace, CancelledOnRequest,
       underWay, Holders, Holding, Running, Accepted, Lifecycle!waits
  <2>4. \A j \in A : j \in Jobs \ Holders /\ status[j] = "awaiting_decision"
    <3> SUFFICES ASSUME NEW j \in A PROVE j \in Jobs \ Holders /\ status[j] = "awaiting_decision"
      OBVIOUS
    <3>1. j \in Jobs /\ asked(j) BY <2>1 DEF pickOne, askedOn, asked
    <3>2. pc[j] = "idle" BY <3>1 DEF OneOwnerPerJob
    <3>3. status[j] = "awaiting_decision" BY <3>1, JobsAssumption DEF asked, QuestionsFitKeys
    <3> QED BY <3>1, <3>2, <3>3 DEF Holders, Holding, Running
  <2>6. UNCHANGED <<Holders, Taken, Accepted, Up>>
    BY <1>0, <2>2 DEF Holders, Taken, Accepted
  <2>7. B \in SUBSET (Jobs \ Holders) /\ A \in SUBSET (Jobs \ Holders)
    BY <2>3, <2>4
  <2>8. Lifecycle!Detach
    <3>1. /\ \A j \in B : Lifecycle!waits(j)
          /\ \A j \in A : status[j] = "awaiting_decision"
      BY <2>3, <2>4
    <3> QED BY <1>0, <2>1, <2>6, <2>7, <3>1, Zenon DEF Lifecycle!Detach
  <2> QED BY <2>8 DEF Lifecycle!Next
<1>3. CASE HandleDecision
  <2> DEFINE s == Head(inbox)[2]
             j == awaiting[s]
  <2>1. s \in Serials
    BY <1>3, InboxHead DEF HandleDecision, Events, Answers
  <2>2. CASE j = None
    BY <1>0, <1>3, <2>2, Unseen DEF HandleDecision
  <2>3. CASE j # None
    <3>1. j \in Jobs /\ asked(j) BY <2>1, <2>3 DEF asked
    <3>2. pc[j] = "idle" /\ status[j] = "awaiting_decision"
      BY <2>1, <2>3, <3>1 DEF OneOwnerPerJob, QuestionsFitKeys
    <3>3. PICK st \in {"pending", "cancelled"} : status' = [status EXCEPT ![j] = st]
      BY <1>3, <2>3 DEF HandleDecision
    <3>4. pc' \in [Jobs -> PCs] /\ pc'[j] \in {"queued", "idle"}
          /\ \A k \in Jobs : k # j => pc'[k] = pc[k]
      BY <1>3, <2>3, <3>1, <3>2 DEF HandleDecision
    <3>5. UNCHANGED cancelReq BY <1>3 DEF HandleDecision
    <3> HIDE DEF j
    <3>6. \A k \in Jobs : pc'[k] \in Holding <=> pc[k] \in Holding
      BY <3>2, <3>4 DEF Holding, Running
    <3>7. Lifecycle!Move(j, st)
      BY <1>0, <3>1, <3>3, <3>5, <3>6, RowWritten
    <3> QED BY <1>0, <3>1, <3>2, <3>7 DEF Lifecycle!Answer, Lifecycle!Next
  <2> QED BY <2>2, <2>3
<1>4. ASSUME NEW j \in Jobs, ResumeOne(j) PROVE UNCHANGED Lifecycle!vars
  <2>1. pc[j] = "idle" BY <1>4 DEF ResumeOne, OneOwnerPerJob
  <2>2. \A k \in Jobs : pc'[k] \in Holding <=> pc[k] \in Holding
    BY <1>4, <2>1 DEF ResumeOne, Holding, Running
  <2> QED BY <1>0, <1>4, <2>2, Unseen DEF ResumeOne
<1>5. CASE TakeAttach \/ Tick \/ TakeKick \/ SeedRead \/ SeedSet \/ RetrySnapshot \/ RetryResolve
  <2>1. UNCHANGED <<status, cancelReq, pc>>
    BY <1>5 DEF TakeAttach, Tick, TakeKick, SeedRead, SeedSet, RetrySnapshot, RetryResolve, OnlyLoop
  <2> QED BY <1>0, <2>1, Unseen
<1> QED BY <1>1, <1>2, <1>3, <1>4, <1>5 DEF Loop

\* Every request is a cancellation, the end of one, or none.
LEMMA RequestsFollow ==
  ASSUME LifeInv, Requests
  PROVE  Lifecycle!Next \/ UNCHANGED Lifecycle!vars
<1> USE DEF LifeInv, IInv, TypeOK
<1>1. ASSUME NEW j \in Jobs, CancelRequest(j) PROVE Lifecycle!Cancel(j) \/ UNCHANGED Lifecycle!vars
  <2>0. /\ UNCHANGED <<status, pc, Up>> /\ Up
        /\ j \notin Taken \cup Accepted
    BY <1>1 DEF CancelRequest, Serving, Up, Taken, Accepted
  <2>1. UNCHANGED Holders BY <2>0 DEF Holders
  <2>2. CASE registered(j) /\ cancelReq' = [cancelReq EXCEPT ![j] = "accepted"]
    <3>1. j \in Holders
      BY <2>2, JobsAssumption DEF registered, RegistryNamesLiveJobs, Holders, Holding
    <3>2. Accepted' = Accepted \cup {j} /\ Taken' = Taken
      BY <2>0, <2>2 DEF Accepted, Taken
    <3> QED BY <2>0, <2>1, <3>1, <3>2 DEF Lifecycle!Cancel
  <2>3. CASE (j \in blocked \/ asked(j)) /\ cancelReq' = [cancelReq EXCEPT ![j] = "taken"]
    <3>1. pc[j] = "idle"
      BY <2>3 DEF OneOwnerPerJob
    <3>2. j \notin Holders BY <3>1 DEF Holders, Holding, Running
    <3>3. status[j] \in {"pending", "awaiting_decision"}
      <4>1. CASE j \in blocked
        BY <2>0, <4>1 DEF StatusFitsPlace, CancelledOnRequest, underWay, Accepted
      <4>2. CASE asked(j)
        BY <4>2, JobsAssumption DEF asked, QuestionsFitKeys
      <4> QED BY <2>3, <4>1, <4>2
    <3>4. Taken' = Taken \cup {j} /\ Accepted' = Accepted
      BY <2>0, <2>3 DEF Accepted, Taken
    <3> QED BY <2>0, <2>1, <3>2, <3>3, <3>4 DEF Lifecycle!Cancel
  <2>4. CASE cancelReq' = [cancelReq EXCEPT ![j] = "refused"]
    <3>1. Taken' = Taken /\ Accepted' = Accepted
      BY <2>0, <2>4 DEF Accepted, Taken
    <3> QED BY <2>0, <2>1, <3>1 DEF Lifecycle!vars
  <2> QED BY <1>1, <2>2, <2>3, <2>4 DEF CancelRequest
<1>2. ASSUME NEW j \in Jobs, CancelFinish(j) \/ CancelAborted(j) PROVE Lifecycle!WriteCancelled(j)
  <2>1. Up /\ j \in Taken
    BY <1>2 DEF CancelFinish, CancelAborted, CancelledOnRequest, Taken
  <2>2. UNCHANGED <<Holders, Up>>
    BY <1>2 DEF CancelFinish, CancelAborted, Holders, Up
  <2>3. Taken' = Taken \ {j}
    BY <1>2 DEF CancelFinish, CancelAborted, Taken
  <2>4. \/ status' = [status EXCEPT ![j] = "cancelled"] /\ Accepted' = Accepted \cup {j}
        \/ UNCHANGED <<status, Accepted>>
    BY <1>2 DEF CancelFinish, CancelAborted, Accepted
  <2> QED BY <2>1, <2>2, <2>3, <2>4 DEF Lifecycle!WriteCancelled
<1>3. CASE \/ \E d \in DestChoices : PutDest(d)
           \/ \E s \in Serials, p \in CardEdits : EditCard(s, p)
           \/ \E s \in Serials, a \in UserAnswers : Decide(s, a)
  <2>1. UNCHANGED <<status, cancelReq, loop, pc>>
    BY <1>3 DEF PutDest, EditCard, Decide
  <2> QED BY <2>1, Unseen DEF Up
<1> QED BY <1>1, <1>2, <1>3, UserAssumption DEF Requests, Lifecycle!Next

\* The process stops and starts; the watcher and the drives are not seen.
LEMMA EnvironmentFollows ==
  ASSUME LifeInv, Environment
  PROVE  Lifecycle!Next \/ UNCHANGED Lifecycle!vars
<1> USE DEF LifeInv, IInv, TypeOK
<1>1. CASE Crash
  <2>1. Holders' = {} BY <1>1 DEF Crash, Holders, Holding, Running
  <2>2. Taken' = {} /\ Accepted' = Accepted
    BY <1>1 DEF Crash, Taken, Accepted
  <2>3. Lifecycle!Stop BY <1>1, <2>1, <2>2 DEF Crash, Up, Lifecycle!Stop
  <2> QED BY <2>3 DEF Lifecycle!Next
<1>2. CASE Boot
  <2>1. UNCHANGED <<Holders, Taken, Accepted>> BY <1>2 DEF Boot, Holders, Taken, Accepted
  <2>2. Lifecycle!Start BY <1>2, <2>1 DEF Boot, FailInterrupted, Up, Lifecycle!Start
  <2> QED BY <2>2 DEF Lifecycle!Next
<1>3. CASE ~Crash /\ ~Boot
  <2>1. UNCHANGED <<status, cancelReq, loop, pc>>
    BY <1>3 DEF Environment, WatchAttach, WatchDetach, Plug, Shutdown
  <2> QED BY <2>1, Unseen DEF Up
<1> QED BY <1>1, <1>2, <1>3

\* The manager implements the lifecycle of its jobs, for any number of jobs,
\* cards, slots and drives.
THEOREM ImplementsLifecycle == Spec => FollowsLifecycle
<1>1. Init => Lifecycle!Init
  BY DEF Init, Lifecycle!Init, Holders, Holding, Running, Taken, Accepted, Up
<1>2. ASSUME LifeInv, [Next]_vars PROVE Lifecycle!Next \/ UNCHANGED Lifecycle!vars
  <2>1. TypeOK' BY <1>2, NextTypeOK DEF LifeInv, IInv
  <2>2. CASE UNCHANGED vars BY <2>2, Unseen DEF Up
  <2> QED BY <1>2, <2>1, <2>2, RunnerFollows, LoopFollows, RequestsFollow, EnvironmentFollows
          DEF Next
<1>3. LifeInv /\ [Next]_vars => [Lifecycle!Next]_(Lifecycle!vars)
  BY <1>2
<1>4. IInv /\ CancelledOnRequest => LifeInv BY DEF LifeInv
<1> QED BY <1>1, <1>3, <1>4, Inductive, CancelledByRequest, PTL
        DEF Spec, FollowsLifecycle, Lifecycle!Spec
=============================================================================
