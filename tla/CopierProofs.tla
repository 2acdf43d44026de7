----------------------------- MODULE CopierProofs -----------------------------
(* Proofs about Copier, for every set of jobs, cards, files and names.         *)
EXTENDS Copier, FiniteSetTheorems, SequenceTheorems, TLAPS

Streamed == {"verify", "lock", "pick", "rename"}
AtEntry == Streamed \cup {"begin", "stream", "insert", "wait"}
PlanMade == AtEntry \cup {"ready", "copy", "eject"}
Ingesting == PlanMade \cup {"plan", "hash"}

\* A file that reached its final name is what was read: it is either read again
\* before the rename, or a write that goes wrong is reported.
WritesChecked == Paranoid \/ ~MayMiswrite

\* What each place of the program says of the job's plan and current entry.
FitsPlace(j) ==
  /\ pc[j] \in AtEntry => todo[j] # <<>>
  /\ pc[j] = "hash" => plan[j] # <<>>
  /\ pc[j] \in PlanMade => plan[j] = <<>>
  /\ pc[j] = "eject" => todo[j] = <<>> /\ ~failed[j]
  /\ pc[j] \in Streamed \cup {"insert"} => sum[j] \in Hashes

\* The temporary file of an attempt exists and, once written, holds what was read.
TmpFits(j) ==
  /\ pc[j] \in InCopyOnce => TmpPath(j) \in DOMAIN tmps
  /\ pc[j] \in Streamed => tmps[TmpPath(j)] \in Hashes
  /\ ~MayMiswrite /\ pc[j] \in Streamed => tmps[TmpPath(j)] = sum[j]
  /\ WritesChecked /\ pc[j] \in Streamed \ {"verify"} => tmps[TmpPath(j)] = sum[j]

\* Between the choice of a name and the rename the mutex is held, so that the
\* name stays free.
NameFits(j) ==
  /\ pc[j] \in {"pick", "rename"} => renameMu = j
  /\ pc[j] = "rename" => FinalPath(j) \notin DOMAIN dst

\* The row about to be inserted tells the truth.
RowFits(j) ==
  WritesChecked /\ pc[j] = "insert" =>
    FinalPath(j) \in DOMAIN dst /\ dst[FinalPath(j)] = sum[j]

SumFits(j) ==
  ~MayMisread /\ pc[j] \in Streamed \cup {"insert"} => sum[j] = ContentOf[File(j)]

\* Every file on the card is still to be looked at, still to be copied, stored,
\* or the reason that the job has a failure.
Accounted(j) ==
  ~MayMisread /\ WritesChecked /\ pc[j] \in Ingesting =>
    \A f \in Range(Card[j]) :
      \/ f \in Range(plan[j])
      \/ \E i \in DOMAIN todo[j] : todo[j][i][1] = f
      \/ failed[j]
      \/ ContentOf[f] \in Range(dst)

DownIsIdle == ~up => \A j \in Jobs : pc[j] \in {"new", "done", "failed"}
UnmountedIsAway == ~mounted => away

IInv ==
  /\ TypeOK
  /\ IsFiniteSet(DOMAIN dst)
  /\ \A j \in Jobs : FitsPlace(j)
  /\ \A j \in Jobs : TmpFits(j)
  /\ \A j \in Jobs : NameFits(j)
  /\ \A j \in Jobs : RowFits(j)
  /\ \A j \in Jobs : SumFits(j)
  /\ \A j \in Jobs : Accounted(j)
  /\ WritesChecked => IndexSound
  /\ NoOrphans
  /\ DownIsIdle
  /\ UnmountedIsAway

USE DEF vars, jobVars, Goto

-----------------------------------------------------------------------------
(* Lemmas about the helpers.                                                *)

Entries == Files \X (Hashes \cup {None})

LEMMA HashesRead ==
  ASSUME NEW f \in Files, NEW h \in Reads(f)
  PROVE  /\ h \in Hashes
         /\ ~MayMisread => h = ContentOf[f]
         /\ \A w \in Writes(h) : w \in Hashes /\ (~MayMiswrite => w = h)
  BY ContentAssumption DEF Reads, Writes, Hashes

\* Two jobs never share a temporary file.
LEMMA TmpPathsDiffer ==
  ASSUME NEW j \in Jobs, NEW k \in Jobs, j # k
  PROVE  TmpPath(j) # TmpPath(k)
  BY DEF TmpPath

LEMMA CurrentEntry ==
  ASSUME TypeOK, NEW j \in Jobs, todo[j] # <<>>
  PROVE  /\ Entry(j) \in Entries
         /\ File(j) \in Files
         /\ Tail(todo[j]) \in Seq(Entries)
<1>1. todo[j] \in Seq(Entries) BY DEF TypeOK, Entries
<1>2. Head(todo[j]) \in Entries /\ Tail(todo[j]) \in Seq(Entries)
  BY <1>1, HeadTailProperties
<1> QED BY <1>2 DEF Entry, File, Entries

LEMMA PlannedEntry ==
  ASSUME TypeOK, NEW j \in Jobs, plan[j] # <<>>
  PROVE  Head(plan[j]) \in Files /\ Tail(plan[j]) \in Seq(Files)
<1>1. plan[j] \in Seq(Files) BY DEF TypeOK
<1> QED BY <1>1, HeadTailProperties

\* The elements of a sequence are its head and those of its tail.
LEMMA HeadOrTail ==
  ASSUME NEW S, NEW s \in Seq(S), s # <<>>, NEW i \in DOMAIN s
  PROVE  s[i] = Head(s) \/ \E k \in DOMAIN Tail(s) : Tail(s)[k] = s[i]
<1>1. i \in 1..Len(s) /\ Len(s) \in Nat BY LenProperties
<1>2. CASE i = 1 BY <1>2, HeadTailProperties
<1>3. CASE i # 1
  <2>1. /\ Tail(s) \in Seq(S) /\ Len(Tail(s)) = Len(s) - 1
        /\ \A k \in 1..Len(Tail(s)) : Tail(s)[k] = s[k + 1]
    BY HeadTailProperties
  <2>2. DOMAIN Tail(s) = 1..Len(Tail(s)) BY <2>1, LenProperties
  <2>3. i - 1 \in 1..Len(Tail(s)) BY <1>1, <1>3, <2>1
  <2>4. Tail(s)[i - 1] = s[i] BY <2>1, <2>3, <1>1
  <2> QED BY <2>2, <2>3, <2>4
<1> QED BY <1>2, <1>3

LEMMA AppendHas ==
  ASSUME NEW S, NEW s \in Seq(S), NEW e \in S
  PROVE  /\ Append(s, e) \in Seq(S)
         /\ \A i \in DOMAIN s : i \in DOMAIN Append(s, e) /\ Append(s, e)[i] = s[i]
         /\ \E i \in DOMAIN Append(s, e) : Append(s, e)[i] = e
<1>1. /\ Append(s, e) \in Seq(S)
      /\ Len(Append(s, e)) = Len(s) + 1
      /\ \A i \in 1..Len(s) : Append(s, e)[i] = s[i]
      /\ Append(s, e)[Len(s) + 1] = e
  BY AppendProperties
<1>2. DOMAIN s = 1..Len(s) /\ Len(s) \in Nat BY LenProperties
<1>3. DOMAIN Append(s, e) = 1..(Len(s) + 1) BY <1>1, LenProperties
<1> QED BY <1>1, <1>2, <1>3

-----------------------------------------------------------------------------
(* What the steps of a job have in common.                                  *)

\* A failed attempt ends the attempt: the job waits to try again, or goes on
\* after counting the failure, or stops.
AttemptEnds(j) ==
  /\ \/ pc' = [pc EXCEPT ![j] = "copy"] /\ todo' = todo /\ failed' = failed /\ attempt' = attempt
     \/ pc' = [pc EXCEPT ![j] = "wait"] /\ todo' = todo /\ failed' = failed
     \/ /\ pc' = [pc EXCEPT ![j] = "copy"]
        /\ todo' = [todo EXCEPT ![j] = Tail(@)]
        /\ failed' = [failed EXCEPT ![j] = TRUE]
  /\ attempt' \in [Jobs -> 0..Retries]

LEMMA FailedAttempt ==
  ASSUME TypeOK, NEW j \in Jobs, attemptFails(j)
  PROVE  AttemptEnds(j)
<1>1. CASE giveUp(j)
  BY <1>1 DEF giveUp, AttemptEnds, TypeOK
<1>2. CASE /\ ~cancelled[j] /\ attempt[j] < Retries
           /\ Goto(j, "wait")
           /\ attempt' = [attempt EXCEPT ![j] = @ + 1]
           /\ UNCHANGED <<todo, failed>>
  <2>1. attempt[j] + 1 \in 0..Retries BY <1>2, RetriesAssumption DEF TypeOK
  <2>2. attempt' \in [Jobs -> 0..Retries] BY <1>2, <2>1 DEF TypeOK
  <2> QED BY <1>2, <2>2 DEF AttemptEnds
<1> QED BY <1>1, <1>2 DEF attemptFails

\* The steps of a job by what they do to the destination: one leaves its final
\* files alone, and all leave the temporary files of other jobs alone.
TmpsKept(j) ==
  \A p : p # TmpPath(j) =>
    /\ p \in DOMAIN tmps' <=> p \in DOMAIN tmps
    /\ p \in DOMAIN tmps => tmps'[p] = tmps[p]

LEMMA CleanupKeeps ==
  ASSUME NEW j \in Jobs, cleanup(j)
  PROVE  TmpsKept(j) /\ (mounted => TmpPath(j) \notin DOMAIN tmps')
  BY DEF cleanup, TmpsKept, Remove, Restrict

LEMMA RunnerTmpsKept ==
  ASSUME NEW j \in Jobs, Runner(j)
  PROVE  TmpsKept(j)
<1>1. CASE tmps' = tmps BY <1>1 DEF TmpsKept
<1>2. ASSUME NEW w, tmps' = Extend(tmps, TmpPath(j), w) PROVE TmpsKept(j)
  BY <1>2 DEF TmpsKept, Extend
<1>3. CASE BeginAttempt(j) \/ Stream(j)
  BY <1>1, <1>2, <1>3, CleanupKeeps DEF BeginAttempt, Stream
<1>4. CASE Verify(j) BY <1>1, <1>4, CleanupKeeps DEF Verify
<1>5. CASE PickFreeName(j) BY <1>1, <1>5, CleanupKeeps DEF PickFreeName, renameFails
<1>6. CASE Rename(j)
  <2>1. CASE tmps' = Remove(tmps, TmpPath(j)) BY <2>1 DEF TmpsKept, Remove, Restrict
  <2> QED BY <1>6, <2>1, CleanupKeeps DEF Rename, renameFails
<1> QED
  BY <1>1, <1>2, <1>3, <1>4, <1>5, <1>6
  DEF Runner, PlanEntry, ConfirmEntry, CheckDest, NextEntry, Wait, Lock, Insert, Eject

\* A final file is never replaced.
DstKept == \A p \in DOMAIN dst : p \in DOMAIN dst' /\ dst'[p] = dst[p]

LEMMA RunnerDstKept ==
  ASSUME NEW j \in Jobs, Runner(j), NameFits(j)
  PROVE  DstKept
<1>1. CASE dst' = dst BY <1>1 DEF DstKept
<1>2. CASE Rename(j)
  <2>1. CASE dst' = Extend(dst, FinalPath(j), tmps[TmpPath(j)])
    <3>1. FinalPath(j) \notin DOMAIN dst BY <1>2 DEF Rename, NameFits
    <3> QED BY <2>1, <3>1 DEF Extend, DstKept
  <2> QED BY <1>1, <1>2, <2>1 DEF Rename
<1> QED
  BY <1>1, <1>2
  DEF Runner, PlanEntry, ConfirmEntry, CheckDest, NextEntry, Wait, BeginAttempt, Stream, Verify,
      Lock, PickFreeName, Insert, Eject

\* A job's step leaves the other jobs' places, plans and results alone.
OthersKept(j) ==
  \A k \in Jobs : k # j =>
    /\ pc'[k] = pc[k] /\ plan'[k] = plan[k] /\ todo'[k] = todo[k]
    /\ sum'[k] = sum[k] /\ target'[k] = target[k] /\ failed'[k] = failed[k]

LEMMA AttemptOthersKept ==
  ASSUME TypeOK, NEW j \in Jobs, AttemptEnds(j), UNCHANGED <<plan, sum, target>>
  PROVE  OthersKept(j)
<1> SUFFICES ASSUME NEW k \in Jobs, k # j
             PROVE  pc'[k] = pc[k] /\ todo'[k] = todo[k] /\ failed'[k] = failed[k]
  BY DEF OthersKept
<1>1. pc'[k] = pc[k] BY DEF AttemptEnds, TypeOK
<1>2. todo'[k] = todo[k] BY DEF AttemptEnds, TypeOK
<1>3. failed'[k] = failed[k] BY DEF AttemptEnds, TypeOK
<1> QED BY <1>1, <1>2, <1>3

LEMMA RunnerOthersKept ==
  ASSUME TypeOK, NEW j \in Jobs, Runner(j)
  PROVE  OthersKept(j)
<1>1. CASE PlanEntry(j) BY <1>1 DEF PlanEntry, Planned, TypeOK, OthersKept
<1>2. CASE ConfirmEntry(j) BY <1>2 DEF ConfirmEntry, Planned, TypeOK, OthersKept
<1>3. CASE CheckDest(j) \/ NextEntry(j) \/ Wait(j)
  BY <1>3 DEF CheckDest, NextEntry, Wait, TypeOK, OthersKept
<1>4. CASE attemptFails(j) /\ UNCHANGED <<plan, sum, target>>
  BY <1>4, FailedAttempt, AttemptOthersKept
<1>5. CASE /\ UNCHANGED <<plan, todo, failed>>
           /\ \E l \in PCs : pc' = [pc EXCEPT ![j] = l]
           /\ sum' = sum \/ \E h : sum' = [sum EXCEPT ![j] = h]
           /\ target' = target \/ \E i : target' = [target EXCEPT ![j] = i]
  BY <1>5 DEF TypeOK, OthersKept
<1>6. CASE BeginAttempt(j) BY <1>4, <1>5, <1>6 DEF BeginAttempt, PCs, InCopyOnce
<1>7. CASE Stream(j) BY <1>4, <1>5, <1>7 DEF Stream, PCs, InCopyOnce
<1>8. CASE Verify(j) BY <1>4, <1>5, <1>8 DEF Verify, PCs, InCopyOnce
<1>9. CASE PickFreeName(j) BY <1>4, <1>5, <1>9 DEF PickFreeName, renameFails, PCs, InCopyOnce
<1>10. CASE Rename(j) BY <1>4, <1>5, <1>10 DEF Rename, renameFails, PCs, InCopyOnce
<1>11. CASE Lock(j) \/ Insert(j) \/ Eject(j) BY <1>11 DEF Lock, Insert, Eject, TypeOK, OthersKept
<1> QED
  BY <1>1, <1>2, <1>3, <1>6, <1>7, <1>8, <1>9, <1>10, <1>11 DEF Runner

-----------------------------------------------------------------------------
(* Type correctness.                                                        *)

LEMMA InitTypeOK == Init => TypeOK
<1> SUFFICES ASSUME Init PROVE TypeOK OBVIOUS
<1>1. plan \in [Jobs -> Seq(Files)] BY EmptySeq DEF Init
<1>2. todo \in [Jobs -> Seq(Files \X (Hashes \cup {None}))] BY EmptySeq DEF Init
<1>3. DOMAIN dst = {} /\ DOMAIN tmps = {}
  <2>1. <<>> \in Seq({}) /\ Len(<<>>) = 0 BY EmptySeq
  <2> QED BY <2>1, LenProperties DEF Init
<1>4. pc \in [Jobs -> PCs] /\ attempt \in [Jobs -> 0..Retries]
  BY RetriesAssumption DEF Init, PCs
<1> QED BY <1>1, <1>2, <1>3, <1>4 DEF Init, TypeOK

\* Moving the head of the plan to the list of copies, or dropping it.
LEMMA PlannedTypeOK ==
  ASSUME TypeOK, NEW j \in Jobs, plan[j] # <<>>,
         plan' = [plan EXCEPT ![j] = Tail(@)],
         \/ todo' = todo
         \/ \E known \in Hashes \cup {None} :
              todo' = [todo EXCEPT ![j] = Append(@, <<Head(plan[j]), known>>)]
  PROVE  /\ plan' \in [Jobs -> Seq(Files)]
         /\ todo' \in [Jobs -> Seq(Entries)]
<1>1. plan' \in [Jobs -> Seq(Files)] BY PlannedEntry DEF TypeOK
<1>2. todo \in [Jobs -> Seq(Entries)] BY DEF TypeOK, Entries
<1>3. ASSUME NEW known \in Hashes \cup {None},
             todo' = [todo EXCEPT ![j] = Append(@, <<Head(plan[j]), known>>)]
      PROVE  todo' \in [Jobs -> Seq(Entries)]
  <2>1. <<Head(plan[j]), known>> \in Entries BY PlannedEntry DEF Entries
  <2>2. todo[j] \in Seq(Entries) BY <1>2
  <2>3. Append(todo[j], <<Head(plan[j]), known>>) \in Seq(Entries)
    BY <2>1, <2>2, AppendProperties
  <2> QED BY <1>2, <1>3, <2>3
<1> QED BY <1>1, <1>2, <1>3

LEMMA AttemptTypeOK ==
  ASSUME TypeOK, NEW j \in Jobs, todo[j] # <<>>, AttemptEnds(j)
  PROVE  /\ pc' \in [Jobs -> PCs] /\ failed' \in [Jobs -> BOOLEAN]
         /\ attempt' \in [Jobs -> 0..Retries]
         /\ todo' \in [Jobs -> Seq(Files \X (Hashes \cup {None}))]
<1>1. Tail(todo[j]) \in Seq(Files \X (Hashes \cup {None})) BY CurrentEntry DEF Entries
<1>2. todo' \in [Jobs -> Seq(Files \X (Hashes \cup {None}))]
  <2>1. todo \in [Jobs -> Seq(Files \X (Hashes \cup {None}))] BY DEF TypeOK
  <2>2. todo' = todo \/ todo' = [todo EXCEPT ![j] = Tail(@)] BY DEF AttemptEnds
  <2> QED BY <1>1, <2>1, <2>2
<1>3. pc \in [Jobs -> PCs] /\ failed \in [Jobs -> BOOLEAN] BY DEF TypeOK
<1> QED BY <1>2, <1>3 DEF AttemptEnds, PCs

\* What TypeOK says of the destination.
TmpsOK == \A p \in DOMAIN tmps : tmps[p] \in Hashes \cup {None}
DstOK == \A p \in DOMAIN dst : dst[p] \in Hashes

LEMMA RunnerTmpsOK ==
  ASSUME TypeOK, NEW j \in Jobs, FitsPlace(j), Runner(j)
  PROVE  TmpsOK'
<1>1. CASE tmps' = tmps BY <1>1 DEF TmpsOK, TypeOK
<1>2. ASSUME NEW w \in Hashes \cup {None}, tmps' = Extend(tmps, TmpPath(j), w)
      PROVE  TmpsOK'
  BY <1>2 DEF TmpsOK, TypeOK, Extend
<1>3. CASE tmps' = Remove(tmps, TmpPath(j)) BY <1>3 DEF TmpsOK, TypeOK, Remove, Restrict
<1>4. CASE cleanup(j) BY <1>1, <1>3, <1>4 DEF cleanup
<1>5. CASE BeginAttempt(j) BY <1>1, <1>2, <1>5 DEF BeginAttempt
<1>6. CASE Stream(j)
  <2>1. File(j) \in Files BY <1>6, CurrentEntry DEF Stream, FitsPlace, AtEntry
  <2> QED BY <1>2, <1>4, <1>6, <2>1, HashesRead DEF Stream
<1>7. CASE Verify(j) BY <1>1, <1>4, <1>7 DEF Verify
<1>8. CASE PickFreeName(j) BY <1>1, <1>4, <1>8 DEF PickFreeName, renameFails
<1>9. CASE Rename(j) BY <1>3, <1>4, <1>9 DEF Rename, renameFails
<1> QED
  BY <1>1, <1>5, <1>6, <1>7, <1>8, <1>9
  DEF Runner, PlanEntry, ConfirmEntry, CheckDest, NextEntry, Wait, Lock, Insert, Eject

LEMMA RunnerDstOK ==
  ASSUME TypeOK, IsFiniteSet(DOMAIN dst), NEW j \in Jobs, TmpFits(j), Runner(j)
  PROVE  DstOK' /\ IsFiniteSet(DOMAIN dst')
<1>1. CASE dst' = dst BY <1>1 DEF DstOK, TypeOK
<1>2. CASE Rename(j) /\ dst' = Extend(dst, FinalPath(j), tmps[TmpPath(j)])
  <2>1. tmps[TmpPath(j)] \in Hashes BY <1>2 DEF Rename, TmpFits, Streamed
  <2>2. DstOK' BY <1>2, <2>1 DEF DstOK, TypeOK, Extend
  <2>3. DOMAIN dst' = DOMAIN dst \cup {FinalPath(j)} BY <1>2 DEF Extend
  <2> QED BY <2>2, <2>3, FS_AddElement
<1> QED
  BY <1>1, <1>2
  DEF Runner, PlanEntry, ConfirmEntry, CheckDest, NextEntry, Wait, BeginAttempt, Stream, Verify,
      Lock, PickFreeName, Rename, Insert, Eject

LEMMA RunnerTypeOK ==
  ASSUME TypeOK, IsFiniteSet(DOMAIN dst), NEW j \in Jobs, FitsPlace(j), TmpFits(j), Runner(j)
  PROVE  TypeOK'
<1>1. TmpsOK' BY RunnerTmpsOK
<1>2. DstOK' BY RunnerDstOK
<1> USE <1>1, <1>2 DEF TmpsOK, DstOK, TypeOK, PCs, InCopyOnce
<1>3. CASE PlanEntry(j)
  <2>1. CASE plan' = plan /\ todo' = todo BY <1>3, <2>1 DEF PlanEntry
  <2>2. CASE plan[j] # <<>> /\ Planned(j, None)
    <3>1. plan' \in [Jobs -> Seq(Files)] /\ todo' \in [Jobs -> Seq(Entries)]
      BY <2>2, PlannedTypeOK DEF Planned
    <3> QED BY <1>3, <3>1 DEF PlanEntry, Entries
  <2> QED BY <1>3, <2>1, <2>2 DEF PlanEntry
<1>4. CASE ConfirmEntry(j)
  <2>1. CASE plan' = plan /\ todo' = todo BY <1>4, <2>1 DEF ConfirmEntry
  <2>2. CASE \E h \in Reads(Head(plan[j])) :
               IF inIndex(KeyOf[Head(plan[j])], h)
               THEN plan' = [plan EXCEPT ![j] = Tail(@)] /\ todo' = todo
               ELSE Planned(j, h)
    <3>1. plan[j] # <<>> BY <1>4 DEF ConfirmEntry, FitsPlace
    <3>2. \A h \in Reads(Head(plan[j])) : h \in Hashes BY <3>1, PlannedEntry, HashesRead
    <3>3. plan' \in [Jobs -> Seq(Files)] /\ todo' \in [Jobs -> Seq(Entries)]
      BY <2>2, <3>1, <3>2, PlannedTypeOK DEF Planned
    <3> QED BY <1>4, <3>3 DEF ConfirmEntry, Entries
  <2> QED BY <1>4, <2>1, <2>2 DEF ConfirmEntry
<1>5. CASE CheckDest(j) BY <1>5 DEF CheckDest
<1>6. CASE NextEntry(j)
  <2>1. 0 \in 0..Retries BY RetriesAssumption
  <2> QED BY <1>6, <2>1 DEF NextEntry, EndOfLoop
<1>7. CASE Wait(j) BY <1>7 DEF Wait
<1>8. CASE AttemptEnds(j) /\ (BeginAttempt(j) \/ Verify(j) \/ Stream(j) \/ PickFreeName(j) \/ Rename(j))
                          /\ sum' = sum /\ target' = target
  <2>1. todo[j] # <<>>
    BY <1>8 DEF BeginAttempt, Verify, Stream, PickFreeName, Rename, FitsPlace, AtEntry, Streamed
  <2>2. /\ pc' \in [Jobs -> PCs] /\ failed' \in [Jobs -> BOOLEAN]
        /\ attempt' \in [Jobs -> 0..Retries]
        /\ todo' \in [Jobs -> Seq(Files \X (Hashes \cup {None}))]
    BY <1>8, <2>1, AttemptTypeOK
  <2>3. UNCHANGED <<plan, cancelled, rows, mounted, up, released, away>>
    BY <1>8 DEF BeginAttempt, Verify, Stream, PickFreeName, Rename
  <2>4. renameMu' \in {renameMu, None}
    BY <1>8 DEF BeginAttempt, Verify, Stream, PickFreeName, Rename, renameFails
  <2> QED BY <1>8, <2>2, <2>3, <2>4
<1>9. CASE BeginAttempt(j) BY <1>8, <1>9, FailedAttempt DEF BeginAttempt
<1>10. CASE Verify(j) BY <1>8, <1>10, FailedAttempt DEF Verify
<1>11. CASE Stream(j)
  <2>1. File(j) \in Files
    BY <1>11, CurrentEntry DEF Stream, FitsPlace, AtEntry
  <2>2. CASE /\ \E h \in Reads(File(j)) : sum' = [sum EXCEPT ![j] = h]
             /\ Goto(j, "verify")
             /\ UNCHANGED <<todo, failed, attempt>>
    <3>1. sum' \in [Jobs -> Hashes \cup {None}] BY <2>1, <2>2, HashesRead
    <3> QED BY <1>11, <2>2, <3>1 DEF Stream
  <2> QED BY <1>8, <1>11, <2>2, FailedAttempt DEF Stream
<1>12. CASE PickFreeName(j)
  <2>1. 0..Cardinality(DOMAIN dst) \subseteq Nat BY FS_CardinalityType
  <2>2. CASE Goto(j, "rename")
             /\ (\E i \in 0..Cardinality(DOMAIN dst) : target' = [target EXCEPT ![j] = i])
             /\ UNCHANGED <<todo, failed, attempt, tmps, renameMu>>
    <3>1. target' \in [Jobs -> Nat] BY <2>1, <2>2
    <3> QED BY <1>12, <2>2, <3>1 DEF PickFreeName
  <2> QED BY <1>8, <1>12, <2>2, FailedAttempt DEF PickFreeName, renameFails
<1>13. CASE Rename(j)
  <2>1. CASE AttemptEnds(j) BY <1>8, <1>13, <2>1 DEF Rename
  <2> QED BY <1>13, <2>1, FailedAttempt DEF Rename, renameFails
<1>14. CASE Lock(j) BY <1>14 DEF Lock
<1>15. CASE Insert(j)
  <2>1. sum[j] \in Hashes /\ todo[j] # <<>>
    BY <1>15 DEF Insert, FitsPlace, AtEntry
  <2>2. todo' \in [Jobs -> Seq(Files \X (Hashes \cup {None}))]
    BY <1>15, <2>1, CurrentEntry DEF Insert, Entries
  <2>3. \A r \in rows' : r.hash \in Hashes BY <1>15, <2>1 DEF Insert
  <2>4. pc' \in [Jobs -> PCs] BY <1>15 DEF Insert
  <2>5. UNCHANGED <<plan, attempt, sum, target, failed, cancelled, renameMu, mounted, up,
                    released, away>>
    BY <1>15 DEF Insert
  <2> QED BY <2>2, <2>3, <2>4, <2>5
<1>16. CASE Eject(j) BY <1>16 DEF Eject
<1> QED
  BY <1>3, <1>5, <1>4, <1>6, <1>7, <1>9, <1>10, <1>11, <1>12, <1>13, <1>14, <1>15, <1>16 DEF Runner

-----------------------------------------------------------------------------
(* What a job's own step keeps of what its place says.                      *)

LEMMA OwnFitsPlace ==
  ASSUME TypeOK, NEW j \in Jobs, FitsPlace(j), Runner(j)
  PROVE  FitsPlace(j)'
<1> USE DEF TypeOK, FitsPlace, AtEntry, PlanMade, Streamed
<1>1. CASE PlanEntry(j) BY <1>1 DEF PlanEntry, Planned
<1>2. CASE ConfirmEntry(j) BY <1>2 DEF ConfirmEntry
<1>3. CASE CheckDest(j) BY <1>3 DEF CheckDest
<1>4. CASE NextEntry(j) BY <1>4 DEF NextEntry, EndOfLoop
<1>5. CASE Wait(j) BY <1>5 DEF Wait
<1>6. CASE AttemptEnds(j) /\ UNCHANGED <<plan, sum>> /\ pc[j] \in AtEntry
  BY <1>6 DEF AttemptEnds
<1>7. CASE BeginAttempt(j) BY <1>6, <1>7, FailedAttempt DEF BeginAttempt
<1>8. CASE Stream(j)
  <2>1. File(j) \in Files BY <1>8, CurrentEntry DEF Stream
  <2>2. CASE /\ \E h \in Reads(File(j)) : sum' = [sum EXCEPT ![j] = h]
             /\ Goto(j, "verify")
             /\ UNCHANGED <<todo, failed, attempt>>
    <3>1. sum'[j] \in Hashes BY <2>1, <2>2, HashesRead
    <3> QED BY <1>8, <2>2, <3>1 DEF Stream
  <2> QED BY <1>6, <1>8, <2>2, FailedAttempt DEF Stream
<1>9. CASE Verify(j) BY <1>6, <1>9, FailedAttempt DEF Verify
<1>10. CASE Lock(j) BY <1>10 DEF Lock
<1>11. CASE PickFreeName(j) BY <1>6, <1>11, FailedAttempt DEF PickFreeName, renameFails
<1>12. CASE Rename(j) BY <1>6, <1>12, FailedAttempt DEF Rename, renameFails
<1>13. CASE Insert(j) BY <1>13 DEF Insert
<1>14. CASE Eject(j) BY <1>14 DEF Eject
<1> QED
  BY <1>1, <1>2, <1>3, <1>4, <1>5, <1>7, <1>8, <1>9, <1>10, <1>11, <1>12, <1>13, <1>14 DEF Runner

\* The places at which a failed attempt, or the end of an entry, leaves a job.
LEMMA AttemptLeaves ==
  ASSUME TypeOK, NEW j \in Jobs, AttemptEnds(j)
  PROVE  pc'[j] \in {"copy", "wait"}
  BY DEF AttemptEnds, TypeOK

\* Steps from outside an attempt lead to its beginning at most.
Outside == {"plan", "hash", "ready", "parked", "copy", "begin", "wait", "eject", "done", "failed"}

LEMMA StaysOutside ==
  ASSUME TypeOK, NEW j \in Jobs,
         \/ PlanEntry(j) \/ ConfirmEntry(j) \/ CheckDest(j) \/ NextEntry(j) \/ Wait(j)
         \/ Insert(j) \/ Eject(j) \/ AttemptEnds(j)
  PROVE  pc'[j] \in Outside
<1> USE DEF TypeOK, Outside
<1>1. CASE PlanEntry(j) BY <1>1 DEF PlanEntry
<1>2. CASE ConfirmEntry(j) BY <1>2 DEF ConfirmEntry
<1>3. CASE CheckDest(j) \/ NextEntry(j) BY <1>3 DEF CheckDest, NextEntry, EndOfLoop
<1>4. CASE Wait(j) \/ Insert(j) \/ Eject(j) BY <1>4 DEF Wait, Insert, Eject
<1> QED BY <1>1, <1>2, <1>3, <1>4, AttemptLeaves

\* Every step of a job is one of these.
LEMMA RunnerSteps ==
  ASSUME TypeOK, NEW j \in Jobs, Runner(j)
  PROVE  \/ pc'[j] \in Outside
         \/ BeginAttempt(j) /\ pc'[j] = "stream"
         \/ Stream(j) /\ pc'[j] = "verify"
         \/ Verify(j) /\ pc'[j] = "lock"
         \/ Lock(j)
         \/ PickFreeName(j) /\ pc'[j] = "rename"
         \/ Rename(j) /\ pc'[j] = "insert"
<1>1. CASE BeginAttempt(j) BY <1>1, FailedAttempt, StaysOutside DEF BeginAttempt, TypeOK
<1>2. CASE Stream(j) BY <1>2, FailedAttempt, StaysOutside DEF Stream, TypeOK
<1>3. CASE Verify(j) BY <1>3, FailedAttempt, StaysOutside DEF Verify, TypeOK
<1>4. CASE PickFreeName(j)
  BY <1>4, FailedAttempt, StaysOutside DEF PickFreeName, renameFails, TypeOK
<1>5. CASE Rename(j) BY <1>5, FailedAttempt, StaysOutside DEF Rename, renameFails, TypeOK
<1> QED BY <1>1, <1>2, <1>3, <1>4, <1>5, StaysOutside DEF Runner

LEMMA OwnTmpFits ==
  ASSUME TypeOK, NEW j \in Jobs, FitsPlace(j), TmpFits(j), Runner(j)
  PROVE  TmpFits(j)'
<1> USE DEF TypeOK, TmpFits, Streamed, InCopyOnce
<1>1. CASE pc'[j] \in Outside BY <1>1 DEF Outside
<1>2. CASE BeginAttempt(j) /\ pc'[j] = "stream"
  <2>1. /\ tmps' = Extend(tmps, TmpPath(j), None) /\ todo' = todo
    BY <1>2, FailedAttempt, AttemptLeaves DEF BeginAttempt
  <2>2. TmpPath(j) \in DOMAIN tmps' BY <2>1 DEF Extend
  <2>3. TmpPath(j)' = TmpPath(j) BY <2>1 DEF TmpPath, File, Entry
  <2> QED BY <1>2, <2>2, <2>3
<1>3. CASE Stream(j) /\ pc'[j] = "verify"
  <2>1. File(j) \in Files BY <1>3, CurrentEntry DEF Stream, FitsPlace, AtEntry
  <2>2. PICK h \in Reads(File(j)) : /\ sum' = [sum EXCEPT ![j] = h]
                                    /\ \E w \in Writes(h) : tmps' = Extend(tmps, TmpPath(j), w)
    BY <1>3, FailedAttempt, AttemptLeaves DEF Stream
  <2>3. PICK w \in Writes(h) : tmps' = Extend(tmps, TmpPath(j), w) BY <2>2
  <2>4. todo' = todo BY <1>3, FailedAttempt, AttemptLeaves DEF Stream
  <2>5. TmpPath(j)' = TmpPath(j) BY <2>4 DEF TmpPath, File, Entry
  <2>6. sum'[j] = h /\ w \in Hashes /\ (~MayMiswrite => w = h) BY <2>1, <2>2, HashesRead
  <2>7. TmpPath(j) \in DOMAIN tmps' /\ tmps'[TmpPath(j)] = w BY <2>3 DEF Extend
  <2> QED BY <1>3, <2>5, <2>6, <2>7
<1>4. CASE Verify(j) /\ pc'[j] = "lock"
  <2>1. reread(j) /\ UNCHANGED <<todo, tmps, sum>>
    BY <1>4, FailedAttempt, AttemptLeaves DEF Verify
  <2> QED BY <1>4, <2>1 DEF Verify, reread, WritesChecked, TmpPath, File, Entry
<1>5. CASE Lock(j) BY <1>5 DEF Lock, TmpPath, File, Entry
<1>6. CASE PickFreeName(j) /\ pc'[j] = "rename"
  <2>1. UNCHANGED <<todo, tmps, sum>>
    BY <1>6, FailedAttempt, AttemptLeaves DEF PickFreeName, renameFails
  <2> QED BY <1>6, <2>1 DEF PickFreeName, TmpPath, File, Entry
<1> QED BY <1>1, <1>2, <1>3, <1>4, <1>5, <1>6, RunnerSteps

LEMMA OwnNameFits ==
  ASSUME TypeOK, NEW j \in Jobs, NameFits(j), Runner(j)
  PROVE  NameFits(j)'
<1> USE DEF TypeOK, NameFits
<1>1. CASE pc'[j] \in Outside BY <1>1 DEF Outside
<1>2. CASE pc'[j] \in {"stream", "verify", "lock", "insert"} BY <1>2
<1>3. CASE Lock(j) BY <1>3 DEF Lock
<1>4. CASE PickFreeName(j) /\ pc'[j] = "rename"
  <2>1. /\ \E i \in 0..Cardinality(DOMAIN dst) :
             isFree(NameOf[File(j)], i) /\ target' = [target EXCEPT ![j] = i]
        /\ UNCHANGED <<todo, renameMu, dst>>
    BY <1>4, FailedAttempt, AttemptLeaves DEF PickFreeName, renameFails
  <2>2. <<NameOf[File(j)], target'[j]>> \notin DOMAIN dst BY <2>1 DEF isFree
  <2> QED BY <1>4, <2>1, <2>2 DEF PickFreeName, FinalPath, File, Entry
<1> QED BY <1>1, <1>2, <1>3, <1>4, RunnerSteps

LEMMA OwnRowFits ==
  ASSUME TypeOK, NEW j \in Jobs, TmpFits(j), Runner(j)
  PROVE  RowFits(j)'
<1>1. CASE pc'[j] # "insert" BY <1>1 DEF RowFits
<1>2. CASE Rename(j) /\ pc'[j] = "insert"
  <2>1. dst' = Extend(dst, FinalPath(j), tmps[TmpPath(j)]) /\ UNCHANGED <<todo, target, sum>>
    BY <1>2, FailedAttempt, AttemptLeaves DEF Rename, renameFails
  <2>2. FinalPath(j)' = FinalPath(j) BY <2>1 DEF FinalPath, File, Entry
  <2>3. FinalPath(j) \in DOMAIN dst' /\ dst'[FinalPath(j)] = tmps[TmpPath(j)]
    BY <2>1 DEF Extend
  <2>4. WritesChecked => tmps[TmpPath(j)] = sum[j] BY <1>2 DEF Rename, TmpFits, Streamed
  <2> QED BY <2>1, <2>2, <2>3, <2>4 DEF RowFits
<1>3. pc'[j] = "insert" => Rename(j) BY RunnerSteps DEF Outside, Lock, TypeOK
<1> QED BY <1>1, <1>2, <1>3

LEMMA OwnSumFits ==
  ASSUME TypeOK, NEW j \in Jobs, FitsPlace(j), SumFits(j), Runner(j)
  PROVE  SumFits(j)'
<1> USE DEF TypeOK, SumFits, Streamed, File, Entry
<1>1. CASE pc'[j] \in Outside \cup {"stream"} BY <1>1 DEF Outside
<1>2. CASE Stream(j) /\ pc'[j] = "verify"
  <2>1. File(j) \in Files BY <1>2, CurrentEntry DEF Stream, FitsPlace, AtEntry
  <2>2. PICK h \in Reads(File(j)) : sum' = [sum EXCEPT ![j] = h] /\ todo' = todo
    BY <1>2, FailedAttempt, AttemptLeaves DEF Stream
  <2> QED BY <2>1, <2>2, HashesRead
<1>3. CASE Verify(j) /\ pc'[j] = "lock"
  BY <1>3, FailedAttempt, AttemptLeaves DEF Verify
<1>4. CASE Lock(j) BY <1>4 DEF Lock
<1>5. CASE PickFreeName(j) /\ pc'[j] = "rename"
  BY <1>5, FailedAttempt, AttemptLeaves DEF PickFreeName, renameFails
<1>6. CASE Rename(j) /\ pc'[j] = "insert"
  BY <1>6, FailedAttempt, AttemptLeaves DEF Rename, renameFails
<1> QED BY <1>1, <1>2, <1>3, <1>4, <1>5, <1>6, RunnerSteps

-----------------------------------------------------------------------------
(* Every file on a card is accounted for.                                   *)

\* What a step may do with the plan and the entries of the job.
LEMMA AccountKept ==
  ASSUME NEW j \in Jobs, Accounted(j), DstKept, failed[j] => failed'[j],
         pc'[j] \in Ingesting => pc[j] \in Ingesting,
         ~MayMisread /\ WritesChecked /\ pc[j] \in Ingesting =>
           /\ \A f \in Range(plan[j]) :
                \/ f \in Range(plan'[j])
                \/ \E i \in DOMAIN todo'[j] : todo'[j][i][1] = f
                \/ ContentOf[f] \in Range(dst')
           /\ \A i \in DOMAIN todo[j] :
                \/ \E k \in DOMAIN todo'[j] : todo'[j][k] = todo[j][i]
                \/ failed'[j]
                \/ ContentOf[todo[j][i][1]] \in Range(dst')
  PROVE  Accounted(j)'
<1>1. \A x \in Range(dst) : x \in Range(dst') BY DEF DstKept, Range
<1> SUFFICES ASSUME ~MayMisread, WritesChecked, pc'[j] \in Ingesting, NEW f \in Range(Card[j])
             PROVE  \/ f \in Range(plan'[j])
                    \/ \E i \in DOMAIN todo'[j] : todo'[j][i][1] = f
                    \/ failed'[j]
                    \/ ContentOf[f] \in Range(dst')
  BY DEF Accounted, WritesChecked
<1>2. \/ f \in Range(plan[j])
      \/ \E i \in DOMAIN todo[j] : todo[j][i][1] = f
      \/ failed[j]
      \/ ContentOf[f] \in Range(dst)
  BY DEF Accounted
<1> QED BY <1>1, <1>2

\* The head of the plan is the one that leaves it.
LEMMA PlanHeadOrTail ==
  ASSUME TypeOK, NEW j \in Jobs, plan[j] # <<>>, NEW f \in Range(plan[j])
  PROVE  f = Head(plan[j]) \/ f \in Range(Tail(plan[j]))
<1>1. plan[j] \in Seq(Files) BY DEF TypeOK
<1>2. PICK i \in DOMAIN plan[j] : plan[j][i] = f BY DEF Range
<1> QED BY <1>1, <1>2, HeadOrTail DEF Range

LEMMA TodoHeadOrTail ==
  ASSUME TypeOK, NEW j \in Jobs, todo[j] # <<>>, NEW i \in DOMAIN todo[j]
  PROVE  todo[j][i] = Entry(j) \/ \E k \in DOMAIN Tail(todo[j]) : Tail(todo[j])[k] = todo[j][i]
<1>1. todo[j] \in Seq(Entries) BY DEF TypeOK, Entries
<1> QED BY <1>1, HeadOrTail DEF Entry

LEMMA PlannedAccounted ==
  ASSUME TypeOK, NEW j \in Jobs, plan[j] # <<>>, NEW known \in Hashes \cup {None},
         Planned(j, known)
  PROVE  /\ \A f \in Range(plan[j]) :
              f \in Range(plan'[j]) \/ \E i \in DOMAIN todo'[j] : todo'[j][i][1] = f
         /\ \A i \in DOMAIN todo[j] : \E k \in DOMAIN todo'[j] : todo'[j][k] = todo[j][i]
<1> DEFINE e == <<Head(plan[j]), known>>
<1>1. plan'[j] = Tail(plan[j]) /\ todo'[j] = Append(todo[j], e)
  BY DEF Planned, TypeOK
<1>2. todo[j] \in Seq(Entries) /\ e \in Entries
  BY PlannedEntry DEF TypeOK, Entries
<1>3. /\ \A i \in DOMAIN todo[j] :
           i \in DOMAIN Append(todo[j], e) /\ Append(todo[j], e)[i] = todo[j][i]
      /\ \E i \in DOMAIN Append(todo[j], e) : Append(todo[j], e)[i] = e
  <2> HIDE DEF e
  <2> QED BY <1>2, AppendHas
<1>4. /\ \A i \in DOMAIN todo[j] : i \in DOMAIN todo'[j] /\ todo'[j][i] = todo[j][i]
      /\ \E i \in DOMAIN todo'[j] : todo'[j][i] = e
  BY <1>1, <1>3
<1>5. \E i \in DOMAIN todo'[j] : todo'[j][i][1] = Head(plan[j]) BY <1>4
<1> QED BY <1>1, <1>4, <1>5, PlanHeadOrTail

LEMMA OwnAccounted ==
  ASSUME TypeOK, NEW j \in Jobs, FitsPlace(j), NameFits(j), RowFits(j), SumFits(j),
         Accounted(j), WritesChecked => IndexSound, Runner(j)
  PROVE  Accounted(j)'
<1>1. DstKept BY RunnerDstKept
<1>2. CASE UNCHANGED <<plan, todo, failed>> /\ (pc'[j] \in Ingesting => pc[j] \in Ingesting)
  BY <1>1, <1>2, AccountKept
<1>3. CASE /\ AttemptEnds(j) /\ pc[j] \in AtEntry
           /\ plan' = plan
  <2>1. todo[j] # <<>> BY <1>3 DEF FitsPlace
  <2>2. \/ todo'[j] = todo[j] /\ failed'[j] = failed[j]
        \/ failed'[j] = TRUE
    BY <1>3 DEF AttemptEnds, TypeOK
  <2> QED BY <1>1, <1>3, <2>2, AccountKept DEF Ingesting, PlanMade
<1>4. CASE PlanEntry(j) /\ plan[j] # <<>> /\ Planned(j, None) /\ pc' = pc
  BY <1>1, <1>4, PlannedAccounted, AccountKept DEF PlanEntry
<1>5. CASE ConfirmEntry(j) /\ \E h \in Reads(Head(plan[j])) :
             IF inIndex(KeyOf[Head(plan[j])], h)
             THEN plan' = [plan EXCEPT ![j] = Tail(@)] /\ todo' = todo
             ELSE Planned(j, h)
  <2>1. plan[j] # <<>> BY <1>5 DEF ConfirmEntry, FitsPlace
  <2>2. PICK h \in Reads(Head(plan[j])) :
             IF inIndex(KeyOf[Head(plan[j])], h)
             THEN plan' = [plan EXCEPT ![j] = Tail(@)] /\ todo' = todo
             ELSE Planned(j, h)
    BY <1>5
  <2>3. h \in Hashes /\ (~MayMisread => h = ContentOf[Head(plan[j])])
    BY <2>1, PlannedEntry, HashesRead
  <2>4. CASE Planned(j, h)
    <3>1. /\ \A f \in Range(plan[j]) :
               f \in Range(plan'[j]) \/ \E i \in DOMAIN todo'[j] : todo'[j][i][1] = f
          /\ \A i \in DOMAIN todo[j] : \E k \in DOMAIN todo'[j] : todo'[j][k] = todo[j][i]
      BY <2>1, <2>3, <2>4, PlannedAccounted
    <3>2. failed' = failed /\ pc[j] \in Ingesting BY <1>5 DEF ConfirmEntry, Ingesting
    <3> QED BY <1>1, <3>1, <3>2, AccountKept
  <2>5. CASE inIndex(KeyOf[Head(plan[j])], h) /\ plan' = [plan EXCEPT ![j] = Tail(@)] /\ todo' = todo
    <3>1. ~MayMisread /\ WritesChecked => ContentOf[Head(plan[j])] \in Range(dst)
      BY <2>3, <2>5 DEF inIndex, IndexSound, Range
    <3>2. dst' = dst /\ failed' = failed BY <1>5 DEF ConfirmEntry
    <3>3. plan'[j] = Tail(plan[j]) BY <2>5 DEF TypeOK
    <3>4. \A f \in Range(plan[j]) : f = Head(plan[j]) \/ f \in Range(plan'[j])
      BY <2>1, <3>3, PlanHeadOrTail
    <3>5. pc[j] \in Ingesting BY <1>5 DEF ConfirmEntry, Ingesting
    <3> QED BY <1>1, <2>5, <3>1, <3>2, <3>4, <3>5, AccountKept
  <2> QED BY <2>2, <2>4, <2>5
<1>6. CASE Insert(j)
  <2>1. todo[j] # <<>> BY <1>6 DEF Insert, FitsPlace, AtEntry
  <2>2. ~MayMisread /\ WritesChecked => ContentOf[File(j)] \in Range(dst)
    BY <1>6 DEF Insert, RowFits, SumFits, Range
  <2>3. todo'[j] = Tail(todo[j]) /\ plan' = plan /\ failed' = failed /\ dst' = dst
    BY <1>6 DEF Insert, TypeOK
  <2>4. \A i \in DOMAIN todo[j] :
          todo[j][i] = Entry(j) \/ \E k \in DOMAIN todo'[j] : todo'[j][k] = todo[j][i]
    BY <2>1, <2>3, TodoHeadOrTail
  <2>5. pc[j] \in Ingesting BY <1>6 DEF Insert, Ingesting, PlanMade, AtEntry
  <2> QED BY <1>1, <2>2, <2>3, <2>4, <2>5, AccountKept DEF File
<1>7. CASE PlanEntry(j)
  BY <1>2, <1>4, <1>7 DEF PlanEntry, Ingesting
<1>8. CASE ConfirmEntry(j) BY <1>2, <1>5, <1>8 DEF ConfirmEntry, Ingesting
<1>9. CASE CheckDest(j) \/ NextEntry(j) \/ Wait(j) \/ Lock(j) \/ Eject(j)
  BY <1>2, <1>9 DEF CheckDest, NextEntry, Wait, Lock, Eject, Ingesting, PlanMade, AtEntry, Streamed
<1> USE DEF Ingesting, PlanMade, AtEntry, Streamed
<1>10. CASE BeginAttempt(j) BY <1>2, <1>3, <1>10, FailedAttempt DEF BeginAttempt
<1>11. CASE Stream(j) BY <1>2, <1>3, <1>11, FailedAttempt DEF Stream
<1>12. CASE Verify(j) BY <1>2, <1>3, <1>12, FailedAttempt DEF Verify
<1>13. CASE PickFreeName(j) BY <1>2, <1>3, <1>13, FailedAttempt DEF PickFreeName, renameFails
<1>14. CASE Rename(j) BY <1>2, <1>3, <1>14, FailedAttempt DEF Rename, renameFails
<1> QED BY <1>6, <1>7, <1>8, <1>9, <1>10, <1>11, <1>12, <1>13, <1>14 DEF Runner

-----------------------------------------------------------------------------
(* What a job's step keeps of the other jobs, of the index and of the       *)
(* temporary files.                                                         *)

LocalInv(j) ==
  FitsPlace(j) /\ TmpFits(j) /\ NameFits(j) /\ RowFits(j) /\ SumFits(j) /\ Accounted(j)

LEMMA OwnLocalInv ==
  ASSUME TypeOK, NEW j \in Jobs, LocalInv(j), WritesChecked => IndexSound, Runner(j)
  PROVE  LocalInv(j)'
  BY OwnFitsPlace, OwnTmpFits, OwnNameFits, OwnRowFits, OwnSumFits, OwnAccounted DEF LocalInv

\* Only the holder of renameMu gives it up.
LEMMA MutexKept ==
  ASSUME TypeOK, NEW j \in Jobs, NameFits(j), Runner(j), NEW k \in Jobs, k # j, renameMu = k
  PROVE  renameMu' = k
<1>1. CASE renameMu' = renameMu BY <1>1
<1>2. CASE Lock(j) BY <1>2, NoneAssumption DEF Lock, mutexFree
<1>3. CASE PickFreeName(j) \/ Rename(j) BY <1>3 DEF PickFreeName, Rename, NameFits
<1> QED
  BY <1>1, <1>2, <1>3
  DEF Runner, PlanEntry, ConfirmEntry, CheckDest, NextEntry, Wait, BeginAttempt, Stream, Verify,
      Insert, Eject

\* While one job is about to rename, no other renames.
LEMMA NameStaysFree ==
  ASSUME TypeOK, NEW j \in Jobs, NameFits(j), Runner(j),
         NEW k \in Jobs, k # j, NameFits(k), pc[k] = "rename"
  PROVE  dst' = dst
<1>1. pc[j] # "rename" BY DEF NameFits
<1> QED
  BY <1>1
  DEF Runner, PlanEntry, ConfirmEntry, CheckDest, NextEntry, Wait, BeginAttempt, Stream, Verify,
      Lock, PickFreeName, Rename, Insert, Eject

LEMMA OtherLocalInv ==
  ASSUME TypeOK, NEW j \in Jobs, NameFits(j), Runner(j), NEW k \in Jobs, k # j, LocalInv(k)
  PROVE  LocalInv(k)'
<1> USE DEF LocalInv
<1>1. /\ pc'[k] = pc[k] /\ plan'[k] = plan[k] /\ todo'[k] = todo[k]
      /\ sum'[k] = sum[k] /\ target'[k] = target[k] /\ failed'[k] = failed[k]
  BY RunnerOthersKept DEF OthersKept
<1>2. TmpPath(k)' = TmpPath(k) /\ FinalPath(k)' = FinalPath(k) /\ File(k)' = File(k)
  BY <1>1 DEF TmpPath, FinalPath, File, Entry
<1>3. DstKept BY RunnerDstKept
<1>4. FitsPlace(k)' BY <1>1 DEF FitsPlace
<1>5. TmpFits(k)'
  <2>1. TmpPath(k) # TmpPath(j) BY TmpPathsDiffer
  <2>2. TmpPath(k) \in DOMAIN tmps =>
          TmpPath(k) \in DOMAIN tmps' /\ tmps'[TmpPath(k)] = tmps[TmpPath(k)]
    BY <2>1, RunnerTmpsKept DEF TmpsKept
  <2>3. pc[k] \in Streamed => pc[k] \in InCopyOnce BY DEF Streamed, InCopyOnce
  <2> QED BY <1>1, <1>2, <2>2, <2>3 DEF TmpFits, WritesChecked
<1>6. NameFits(k)'
  <2>1. CASE pc[k] = "pick" BY <1>1, <2>1, MutexKept DEF NameFits
  <2>2. CASE pc[k] = "rename" BY <1>1, <1>2, <2>2, MutexKept, NameStaysFree DEF NameFits
  <2> QED BY <1>1, <2>1, <2>2 DEF NameFits
<1>7. RowFits(k)' BY <1>1, <1>2, <1>3 DEF RowFits, DstKept, WritesChecked
<1>8. SumFits(k)' BY <1>1, <1>2 DEF SumFits
<1>9. Accounted(k)' BY <1>1, <1>3, AccountKept
<1> QED BY <1>4, <1>5, <1>6, <1>7, <1>8, <1>9

LEMMA RunnerIndexSound ==
  ASSUME NEW j \in Jobs, NameFits(j), RowFits(j), WritesChecked, IndexSound, Runner(j)
  PROVE  IndexSound'
<1>1. DstKept BY RunnerDstKept
<1>2. CASE rows' = rows BY <1>1, <1>2 DEF IndexSound, DstKept
<1>3. CASE Insert(j) BY <1>2, <1>3 DEF Insert, RowFits, IndexSound
<1> QED
  BY <1>2, <1>3
  DEF Runner, PlanEntry, ConfirmEntry, CheckDest, NextEntry, Wait, BeginAttempt, Stream, Verify,
      Lock, PickFreeName, Rename, Eject

\* After a step of j its temporary file is that of an attempt still going on.
LEMMA OwnTmp ==
  ASSUME TypeOK, NEW j \in Jobs, Runner(j), mounted,
         TmpPath(j) \in DOMAIN tmps => pc[j] \in InCopyOnce,
         TmpPath(j) \in DOMAIN tmps'
  PROVE  pc'[j] \in InCopyOnce /\ todo'[j] = todo[j]
<1> USE DEF InCopyOnce
<1>1. CASE PlanEntry(j) \/ ConfirmEntry(j) \/ CheckDest(j) \/ NextEntry(j) \/ Wait(j)
           \/ Insert(j) \/ Eject(j)
  BY <1>1 DEF PlanEntry, ConfirmEntry, CheckDest, NextEntry, Wait, Insert, Eject
<1>2. CASE BeginAttempt(j) BY <1>2 DEF BeginAttempt, TypeOK
<1>3. CASE Stream(j) BY <1>3, CleanupKeeps DEF Stream, TypeOK
<1>4. CASE Verify(j) BY <1>4, CleanupKeeps DEF Verify, TypeOK
<1>5. CASE Lock(j) BY <1>5 DEF Lock, TypeOK
<1>6. CASE PickFreeName(j) BY <1>6, CleanupKeeps DEF PickFreeName, renameFails, TypeOK
<1>7. CASE Rename(j) BY <1>7, CleanupKeeps DEF Rename, renameFails, Remove, Restrict
<1> QED BY <1>1, <1>2, <1>3, <1>4, <1>5, <1>6, <1>7 DEF Runner

LEMMA RunnerNoOrphans ==
  ASSUME TypeOK, NEW j \in Jobs, Runner(j), NoOrphans, UnmountedIsAway
  PROVE  NoOrphans'
<1>1. UNCHANGED <<up, away, mounted>>
  BY DEF Runner, PlanEntry, ConfirmEntry, CheckDest, NextEntry, Wait, BeginAttempt, Stream, Verify,
         Lock, PickFreeName, Rename, Insert, Eject
<1> SUFFICES ASSUME up, ~away, NEW p \in DOMAIN tmps'
             PROVE  \E k \in Jobs : pc'[k] \in InCopyOnce /\ TmpPath(k)' = p
  BY <1>1 DEF NoOrphans
<1>2. mounted BY DEF UnmountedIsAway
<1>3. ASSUME NEW q \in DOMAIN tmps PROVE \E k \in Jobs : pc[k] \in InCopyOnce /\ TmpPath(k) = q
  BY <1>3 DEF NoOrphans
<1>4. CASE p = TmpPath(j)
  <2>1. TmpPath(j) \in DOMAIN tmps => pc[j] \in InCopyOnce BY <1>3, TmpPathsDiffer
  <2>2. pc'[j] \in InCopyOnce /\ todo'[j] = todo[j] BY <1>2, <1>4, <2>1, OwnTmp
  <2> QED BY <1>4, <2>2 DEF TmpPath, File, Entry
<1>5. CASE p # TmpPath(j)
  <2>1. p \in DOMAIN tmps BY <1>5, RunnerTmpsKept DEF TmpsKept
  <2>2. PICK k \in Jobs : pc[k] \in InCopyOnce /\ TmpPath(k) = p BY <1>3, <2>1
  <2>3. pc'[k] = pc[k] /\ todo'[k] = todo[k] BY <1>5, <2>2, RunnerOthersKept DEF OthersKept
  <2> QED BY <2>2, <2>3 DEF TmpPath, File, Entry
<1> QED BY <1>4, <1>5

-----------------------------------------------------------------------------
(* The invariant.                                                           *)

LEMMA IInvParts == IInv <=>
  /\ TypeOK /\ IsFiniteSet(DOMAIN dst) /\ (\A j \in Jobs : LocalInv(j))
  /\ (WritesChecked => IndexSound) /\ NoOrphans /\ DownIsIdle /\ UnmountedIsAway
  BY DEF IInv, LocalInv

LEMMA EmptyDomain == DOMAIN <<>> = {}
<1>1. <<>> \in Seq({}) /\ Len(<<>>) = 0 BY EmptySeq
<1> QED BY <1>1, LenProperties

LEMMA InitIInv == Init => IInv
<1> SUFFICES ASSUME Init PROVE IInv OBVIOUS
<1>1. TypeOK BY InitTypeOK
<1>2. IsFiniteSet(DOMAIN dst) BY EmptyDomain, FS_EmptySet DEF Init
<1>3. \A j \in Jobs : LocalInv(j)
  BY DEF Init, LocalInv, FitsPlace, TmpFits, NameFits, RowFits, SumFits, Accounted,
         Ingesting, PlanMade, AtEntry, Streamed, InCopyOnce
<1>4. IndexSound BY DEF Init, IndexSound
<1>5. NoOrphans BY EmptyDomain DEF Init, NoOrphans
<1>6. DownIsIdle /\ UnmountedIsAway BY DEF Init, DownIsIdle, UnmountedIsAway
<1> QED BY <1>1, <1>2, <1>3, <1>4, <1>5, <1>6, IInvParts

LEMMA RunnerIInv ==
  ASSUME IInv, NEW j \in Jobs, Runner(j)
  PROVE  IInv'
<1> USE IInvParts
<1>1. TypeOK' BY RunnerTypeOK DEF LocalInv
<1>2. IsFiniteSet(DOMAIN dst') BY RunnerDstOK DEF LocalInv
<1>3. \A k \in Jobs : LocalInv(k)' BY OwnLocalInv, OtherLocalInv DEF LocalInv
<1>4. (WritesChecked => IndexSound)' BY RunnerIndexSound DEF LocalInv, WritesChecked
<1>5. NoOrphans' BY RunnerNoOrphans
<1>6. UnmountedIsAway' /\ up' = up /\ (up \/ DownIsIdle')
  BY DEF UnmountedIsAway, DownIsIdle, Runner, PlanEntry, ConfirmEntry, CheckDest, NextEntry, Wait,
         BeginAttempt, Stream, Verify, Lock, PickFreeName, Rename, Insert, Eject
<1>7. DownIsIdle' BY <1>6 DEF DownIsIdle
<1> QED BY <1>1, <1>2, <1>3, <1>4, <1>5, <1>6, <1>7 DEF IInv, LocalInv

\* A job that is not in the middle of anything promises nothing.
LEMMA IdleLocalInv ==
  ASSUME NEW j \in Jobs, pc'[j] \in {"new", "done", "failed"}
  PROVE  LocalInv(j)'
  BY DEF LocalInv, FitsPlace, TmpFits, NameFits, RowFits, SumFits, Accounted,
         Ingesting, PlanMade, AtEntry, Streamed, InCopyOnce

LEMMA SameLocalInv ==
  ASSUME NEW j \in Jobs, LocalInv(j),
         pc'[j] = pc[j], plan'[j] = plan[j], todo'[j] = todo[j], sum'[j] = sum[j],
         target'[j] = target[j], failed'[j] = failed[j], UNCHANGED <<renameMu, tmps, dst>>
  PROVE  LocalInv(j)'
  BY DEF LocalInv, FitsPlace, TmpFits, NameFits, RowFits, SumFits, Accounted, WritesChecked,
         TmpPath, FinalPath, File, Entry

LEMMA SameNoOrphans ==
  ASSUME NoOrphans, UNCHANGED <<pc, todo, tmps>>, up' /\ ~away' => up /\ ~away
  PROVE  NoOrphans'
  BY DEF NoOrphans, TmpPath, File, Entry

LEMMA StartIInv ==
  ASSUME IInv, NEW j \in Jobs, Start(j)
  PROVE  IInv'
<1> USE IInvParts
<1>1. TypeOK'
  <2>1. <<>> \in Seq(Files \X (Hashes \cup {None})) BY EmptySeq
  <2>2. Card[j] \in Seq(Files) BY CardAssumption
  <2>3. plan' \in [Jobs -> Seq(Files)] /\ todo' \in [Jobs -> Seq(Files \X (Hashes \cup {None}))]
    BY <2>1, <2>2 DEF Start, TypeOK
  <2> QED BY <2>3 DEF Start, TypeOK, PCs
<1>2. LocalInv(j)'
  <2>1. pc'[j] = "plan" /\ plan'[j] = Card[j] BY DEF Start, TypeOK
  <2> QED
    BY <2>1
    DEF LocalInv, FitsPlace, TmpFits, NameFits, RowFits, SumFits, Accounted, PlanMade, AtEntry,
        Streamed, InCopyOnce
<1>3. ASSUME NEW k \in Jobs, k # j PROVE LocalInv(k)'
  BY <1>3, SameLocalInv DEF Start, TypeOK
<1>4. UNCHANGED <<dst, tmps, rows, up, away, mounted>> BY DEF Start
<1>5. IndexSound => IndexSound' BY <1>4 DEF IndexSound
<1>6. NoOrphans'
  <2>1. ASSUME NEW k \in Jobs, pc[k] \in InCopyOnce
        PROVE  pc'[k] = pc[k] /\ TmpPath(k)' = TmpPath(k)
    <3>1. k # j BY <2>1 DEF Start, InCopyOnce
    <3> QED BY <2>1, <3>1 DEF Start, TypeOK, TmpPath, File, Entry
  <2> QED BY <1>4, <2>1 DEF NoOrphans
<1>7. DownIsIdle' /\ UnmountedIsAway' BY <1>4 DEF Start, DownIsIdle, UnmountedIsAway
<1> QED BY <1>1, <1>2, <1>3, <1>4, <1>5, <1>6, <1>7 DEF IInv, LocalInv, WritesChecked

\* Steps that leave the jobs and the destination's files alone.
LEMMA QuietIInv ==
  ASSUME IInv, TypeOK', UnmountedIsAway', up' = up,
         UNCHANGED <<pc, plan, todo, sum, target, failed, renameMu, rows, dst, tmps>>,
         away => away'
  PROVE  IInv'
<1> USE IInvParts
<1>1. \A j \in Jobs : LocalInv(j)' BY SameLocalInv
<1>2. NoOrphans' BY SameNoOrphans
<1>3. IndexSound => IndexSound' BY DEF IndexSound
<1>4. DownIsIdle' BY DEF DownIsIdle
<1> QED BY <1>1, <1>2, <1>3, <1>4 DEF IInv, LocalInv, WritesChecked

LEMMA CrashIInv ==
  ASSUME IInv, Crash
  PROVE  IInv'
<1> USE IInvParts
<1>1. TypeOK' BY DEF Crash, TypeOK, PCs
<1>2. \A j \in Jobs : pc'[j] \in {"new", "done", "failed"} BY DEF Crash
<1>3. \A j \in Jobs : LocalInv(j)' BY <1>2, IdleLocalInv
<1>4. IndexSound => IndexSound' BY DEF Crash, IndexSound
<1>5. NoOrphans' /\ DownIsIdle' /\ UnmountedIsAway'
  BY <1>2 DEF Crash, NoOrphans, DownIsIdle, UnmountedIsAway
<1> QED BY <1>1, <1>3, <1>4, <1>5 DEF Crash, IInv, LocalInv, WritesChecked

LEMMA BootIInv ==
  ASSUME IInv, Boot
  PROVE  IInv'
<1> USE IInvParts
<1>1. TypeOK' BY EmptyDomain DEF Boot, sweep, TypeOK
<1>2. \A j \in Jobs : pc'[j] \in {"new", "done", "failed"} BY DEF Boot, DownIsIdle
<1>3. \A j \in Jobs : LocalInv(j)' BY <1>2, IdleLocalInv
<1>4. IndexSound => IndexSound' BY DEF Boot, IndexSound
<1>5. NoOrphans' BY EmptyDomain DEF Boot, sweep, NoOrphans, UnmountedIsAway
<1>6. DownIsIdle' /\ UnmountedIsAway' BY DEF Boot, sweep, DownIsIdle, UnmountedIsAway
<1> QED BY <1>1, <1>3, <1>4, <1>5, <1>6 DEF Boot, IInv, LocalInv, WritesChecked

LEMMA NextIInv == IInv /\ [Next]_vars => IInv'
<1> SUFFICES ASSUME IInv, [Next]_vars PROVE IInv' OBVIOUS
<1> USE IInvParts
<1>1. ASSUME NEW j \in Jobs, Runner(j) PROVE IInv' BY <1>1, RunnerIInv
<1>2. ASSUME NEW j \in Jobs, Start(j) PROVE IInv' BY <1>2, StartIInv
<1>3. ASSUME NEW j \in Jobs, Cancel(j) PROVE IInv'
  <2>1. TypeOK' BY <1>3 DEF Cancel, TypeOK
  <2> QED BY <1>3, <2>1, QuietIInv DEF Cancel, UnmountedIsAway
<1>4. CASE Unmount \/ Mount \/ UNCHANGED vars
  <2>1. TypeOK' BY <1>4 DEF Unmount, Mount, TypeOK
  <2> QED BY <1>4, <2>1, QuietIInv DEF Unmount, Mount, UnmountedIsAway
<1>5. CASE Crash BY <1>5, CrashIInv
<1>6. CASE Boot BY <1>6, BootIInv
<1> QED BY <1>1, <1>2, <1>3, <1>4, <1>5, <1>6 DEF Next, Environment

LEMMA Invariance == Spec => []IInv
  BY InitIInv, NextIInv, PTL DEF Spec

-----------------------------------------------------------------------------
(* The theorems.                                                            *)

\* Type correctness.
THEOREM TypeCorrect == Spec => []TypeOK
<1>1. IInv => TypeOK BY DEF IInv
<1> QED BY <1>1, Invariance, PTL

\* While the process runs and the destination stays mounted, every temporary
\* file belongs to an attempt in progress, whatever fails or is cancelled.
THEOREM NoDebris == Spec => []NoOrphans
<1>1. IInv => NoOrphans BY DEF IInv
<1> QED BY <1>1, Invariance, PTL

\* If files are read again before the rename (paranoid mode), or the disk never
\* writes anything else than it is given, every row of the index names a final
\* file of the recorded hash.
THEOREM IndexIsSound == WritesChecked => (Spec => []IndexSound)
<1> SUFFICES ASSUME WritesChecked PROVE Spec => []IndexSound OBVIOUS
<1>1. IInv => IndexSound BY DEF IInv
<1> QED BY <1>1, Invariance, PTL

\* What README and PRD say holds in paranoid mode: a file gets its final name
\* only with the content whose hash is recorded.
THEOREM ParanoidRenames == WritesChecked => (Spec => RenamedOnlyIfHashMatches)
<1> SUFFICES ASSUME WritesChecked PROVE Spec => RenamedOnlyIfHashMatches OBVIOUS
<1> DEFINE Act == \A j \in Jobs :
                    pc[j] = "rename" /\ pc'[j] = "insert" => dst'[FinalPath(j)] = sum[j]
<1>1. IInv /\ [Next]_vars => [Act]_vars
  <2> SUFFICES ASSUME IInv, Next, NEW j \in Jobs, pc[j] = "rename", pc'[j] = "insert"
               PROVE  dst'[FinalPath(j)] = sum[j]
    OBVIOUS
  <2> USE IInvParts
  <2>1. ASSUME NEW k \in Jobs, Runner(k) PROVE dst'[FinalPath(j)] = sum[j]
    <3>1. k = j BY <2>1, RunnerOthersKept DEF OthersKept
    <3>2. Rename(j) BY <2>1, <3>1, RunnerSteps DEF Outside, Lock, TypeOK
    <3>3. dst' = Extend(dst, FinalPath(j), tmps[TmpPath(j)])
      BY <3>2, FailedAttempt, AttemptLeaves DEF Rename, renameFails
    <3>4. tmps[TmpPath(j)] = sum[j] BY DEF LocalInv, TmpFits, Streamed
    <3> QED BY <3>3, <3>4 DEF Extend
  <2>2. CASE Environment
    BY <2>2 DEF Environment, Start, Cancel, Unmount, Mount, Crash, Boot, TypeOK
  <2> QED BY <2>1, <2>2 DEF Next
<1> QED BY <1>1, Invariance, PTL DEF Spec, RenamedOnlyIfHashMatches

-----------------------------------------------------------------------------
(* The copy engine implements Archive.                                      *)

\* What a job's step may do to what the archive shows.
LEMMA RunnerPromise ==
  ASSUME IInv, WritesChecked, ~MayMisread, NEW j \in Jobs, Runner(j)
  PROVE  TheArchive!Next \/ UNCHANGED TheArchive!vars
<1> USE IInvParts
<1>1. CASE UNCHANGED <<rows, dst, released>> BY <1>1 DEF TheArchive!vars
<1>2. CASE Rename(j) /\ dst' = Extend(dst, FinalPath(j), tmps[TmpPath(j)])
  <2>1. FinalPath(j) \notin DOMAIN dst BY <1>2 DEF Rename, LocalInv, NameFits
  <2>2. DOMAIN dst' = DOMAIN dst \cup {FinalPath(j)} BY <1>2 DEF Extend
  <2>3. DstKept BY <1>2, RunnerDstKept DEF LocalInv
  <2>4. UNCHANGED <<rows, released>> BY <1>2 DEF Rename
  <2> QED BY <2>1, <2>2, <2>3, <2>4 DEF TheArchive!Next, TheArchive!Store, DstKept
<1>3. CASE Insert(j)
  <2>1. sum[j] \in Range(dst) BY <1>3 DEF Insert, LocalInv, RowFits, Range
  <2>2. \A r \in rows' : r \in rows \/ r.hash = sum[j] BY <1>3 DEF Insert
  <2>3. rows \subseteq rows' BY <1>3 DEF Insert
  <2>4. \A e \in {<<r.key, r.hash>> : r \in rows'} \ {<<r.key, r.hash>> : r \in rows} :
          e[2] \in Range(dst)
    BY <2>1, <2>2
  <2>5. {<<r.key, r.hash>> : r \in rows} \subseteq {<<r.key, r.hash>> : r \in rows'} BY <2>3
  <2>6. UNCHANGED <<dst, released>> BY <1>3 DEF Insert
  <2> QED BY <2>4, <2>5, <2>6 DEF TheArchive!Next, TheArchive!Catalogue, TheArchive!Range, Range
<1>4. CASE Eject(j)
  <2>1. \A f \in Range(Card[j]) : ContentOf[f] \in Range(dst)
    <3>1. plan[j] = <<>> /\ todo[j] = <<>> /\ ~failed[j] /\ pc[j] \in Ingesting
      BY <1>4 DEF Eject, LocalInv, FitsPlace, PlanMade, Ingesting
    <3>2. Range(plan[j]) = {} /\ DOMAIN todo[j] = {} BY <3>1, EmptyDomain DEF Range
    <3> QED BY <3>1, <3>2 DEF LocalInv, Accounted
  <2>2. UNCHANGED <<rows, dst>> /\ released' \in {released, released \cup {j}} BY <1>4 DEF Eject
  <2>3. CASE released' = released BY <2>2, <2>3 DEF TheArchive!vars
  <2>4. CASE released' = released \cup {j}
    <3>1. TheArchive!Release(j) BY <2>1, <2>2, <2>4 DEF TheArchive!Release, TheArchive!OnCard, TheArchive!Range, Range
    <3> QED BY <3>1 DEF TheArchive!Next
  <2> QED BY <2>2, <2>3, <2>4
<1> QED
  BY <1>1, <1>2, <1>3, <1>4
  DEF Runner, PlanEntry, ConfirmEntry, CheckDest, NextEntry, Wait, BeginAttempt, Stream, Verify,
      Lock, PickFreeName, Rename

\* If cards read true and every write is checked, the engine keeps the promise
\* of module Archive: final files are never replaced, what the index lists is
\* stored, and a card is ejected only when everything found on it is stored.
THEOREM Promise == ~MayMisread /\ WritesChecked => (Spec => KeepsThePromise)
<1> SUFFICES ASSUME ~MayMisread, WritesChecked PROVE Spec => KeepsThePromise OBVIOUS
<1>1. Init => TheArchive!Init BY DEF Init, TheArchive!Init
<1>2. IInv /\ [Next]_vars => [TheArchive!Next]_(TheArchive!vars)
  <2> SUFFICES ASSUME IInv, [Next]_vars PROVE TheArchive!Next \/ UNCHANGED TheArchive!vars
    OBVIOUS
  <2>1. ASSUME NEW j \in Jobs, Runner(j) PROVE TheArchive!Next \/ UNCHANGED TheArchive!vars
    BY <2>1, RunnerPromise
  <2>2. CASE Environment \/ UNCHANGED vars
    BY <2>2 DEF Environment, Start, Cancel, Unmount, Mount, Crash, Boot, TheArchive!vars
  <2> QED BY <2>1, <2>2 DEF Next
<1> QED BY <1>1, <1>2, Invariance, PTL DEF Spec, KeepsThePromise, TheArchive!Spec


=============================================================================
