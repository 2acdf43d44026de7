-------------------------------- MODULE Copier --------------------------------
(***************************************************************************)
(* The copy phase of cardpit: copier (copier.go), the dedup plan and the   *)
(* copy loop of jobRunner.run (job.go), the dedup index (store/files.go)   *)
(* and the boot sweep of Manager.Recover (manager.go).                     *)
(*                                                                         *)
(* Jobs run concurrently against one destination volume and one index.     *)
(* The destination may be pulled out, a job may be cancelled and the       *)
(* process may stop at any step. Slots, waiting for the destination and    *)
(* questions about cards are module Manager.                               *)
(*                                                                         *)
(* A hash is represented by the content it is the hash of (no collisions). *)
(***************************************************************************)
EXTENDS Naturals, FiniteSets, Functions, Sequences

CONSTANTS
  Jobs,         \* copy jobs
  Files,        \* source files on the cards
  Card,         \* the files scanSource finds for each job, in order
  Contents,     \* what a file can contain
  ContentOf,    \* what each source file contains
  KeyOf,        \* (size, mtime) of each source file: the cheap dedup key
  NameOf,       \* folder and base name each source file gets
  Retries,      \* len(retryDelays): attempts after the first
  Paranoid,     \* verify_mode = "paranoid"
  MayMisread,   \* reading a card may silently return something else
  MayMiswrite,  \* a written file may silently differ from what was written
  MayCrash,     \* the process stops and restarts
  Damaged,      \* the content of a misread or miswritten file
  None

ASSUME RetriesAssumption == Retries \in Nat
ASSUME CardAssumption == Card \in [Jobs -> Seq(Files)]
ASSUME ContentAssumption ==
  ContentOf \in [Files -> Contents] /\ Damaged \notin Contents /\ None \notin Contents
ASSUME FlagsAssumption ==
  {Paranoid, MayMisread, MayMiswrite, MayCrash} \subseteq BOOLEAN
ASSUME NoneAssumption == None \notin Jobs /\ None # Damaged

VARIABLES
  pc,         \* where the job is
  plan,       \* entries planDedup has not looked at yet
  todo,       \* entries still to copy, each with its knownHash (or None)
  attempt,    \* retries made for the current entry
  sum,        \* hash of the bytes the current attempt read
  target,     \* number in the final name picked: "name (N).ext", 0 for "name"
  failed,     \* filesFailed > 0
  cancelled,  \* the job's context is cancelled
  renameMu,   \* the job holding copier.renameMu, or None
  rows,       \* ingested_files: records [key, hash, path]
  dst,        \* final files on the destination: path -> content
  tmps,       \* .cardpit-tmp files on the destination: path -> content
  mounted,    \* the destination is mounted
  up,         \* the process is running
  released,   \* jobs whose card was ejected
  away        \* history: the destination was away since it was last swept

jobVars == <<pc, plan, todo, attempt, sum, target, failed, cancelled>>
vars == <<jobVars, renameMu, rows, dst, tmps, mounted, up, released, away>>

-----------------------------------------------------------------------------
InCopyOnce == {"stream", "verify", "lock", "pick", "rename"}
PCs == InCopyOnce \cup {"new", "plan", "hash", "ready", "parked", "copy", "begin",
                        "insert", "wait", "eject", "done", "failed"}
Ended == {"done", "failed"}
Live(j) == pc[j] \notin Ended \cup {"new", "parked"}

Hashes == Contents \cup {Damaged}
Entry(j) == Head(todo[j])           \* <<file, knownHash>>
File(j) == Entry(j)[1]
Extend(f, k, x) == [i \in DOMAIN f \cup {k} |-> IF i = k THEN x ELSE f[i]]
Remove(f, k) == Restrict(f, DOMAIN f \ {k})

\* What hashing or copying a file may see, and what may end up written.
Reads(f) == {ContentOf[f]} \cup (IF MayMisread THEN {Damaged} ELSE {})
Writes(h) == {h} \cup (IF MayMiswrite THEN {Damaged} ELSE {})

\* Mutant: the names carry no sequence number.
TmpPath_shared(j) == <<NameOf[File(j)], None>>

\* name.SEQ.cardpit-tmp: tmpSeq is different for every attempt of the process.
\* A job makes one attempt at a time, so the job stands for the number.
TmpPath(j) == <<NameOf[File(j)], j>>

Goto(j, l) == pc' = [pc EXCEPT ![j] = l]

Init ==
  /\ pc = [j \in Jobs |-> "new"]
  /\ plan = [j \in Jobs |-> <<>>]
  /\ todo = [j \in Jobs |-> <<>>]
  /\ attempt = [j \in Jobs |-> 0]
  /\ sum = [j \in Jobs |-> None]
  /\ target = [j \in Jobs |-> 0]
  /\ failed = [j \in Jobs |-> FALSE]
  /\ cancelled = [j \in Jobs |-> FALSE]
  /\ renameMu = None
  /\ rows = {}
  /\ dst = <<>>
  /\ tmps = <<>>
  /\ mounted = TRUE
  /\ up = TRUE
  /\ released = {}
  /\ away = FALSE

TypeOK ==
  /\ pc \in [Jobs -> PCs]
  /\ plan \in [Jobs -> Seq(Files)]
  /\ todo \in [Jobs -> Seq(Files \X (Hashes \cup {None}))]
  /\ attempt \in [Jobs -> 0..Retries]
  /\ sum \in [Jobs -> Hashes \cup {None}]
  /\ target \in [Jobs -> Nat]
  /\ failed \in [Jobs -> BOOLEAN]
  /\ cancelled \in [Jobs -> BOOLEAN]
  /\ renameMu \in Jobs \cup {None}
  /\ \A r \in rows : r.hash \in Hashes
  /\ \A p \in DOMAIN dst : dst[p] \in Hashes
  /\ \A p \in DOMAIN tmps : tmps[p] \in Hashes \cup {None}
  /\ released \subseteq Jobs
  /\ {mounted, up, away} \subseteq BOOLEAN

-----------------------------------------------------------------------------
(* jobRunner.run up to the copy.                                            *)

\* scanSource; a parked job scans and plans afresh.
Start(j) ==
  /\ up
  /\ pc[j] = "new" \/ (pc[j] = "parked" /\ mounted)
  /\ plan' = [plan EXCEPT ![j] = Card[j]]
  /\ todo' = [todo EXCEPT ![j] = <<>>]
  /\ cancelled' = [cancelled EXCEPT ![j] = FALSE]
  /\ Goto(j, "plan")
  /\ UNCHANGED <<attempt, sum, target, failed, renameMu, rows, dst, tmps, mounted, up, released, away>>

Planned(j, known) ==
  /\ plan' = [plan EXCEPT ![j] = Tail(@)]
  /\ todo' = [todo EXCEPT ![j] = Append(@, <<Head(plan[j]), known>>)]

\* planDedup, first stage: HasSizeMtime. Seen keys go on to be hashed.
PlanEntry(j) ==
  /\ pc[j] = "plan"
  /\ \/ plan[j] = <<>> /\ Goto(j, "ready") /\ UNCHANGED <<plan, todo>>
     \/ plan[j] # <<>> /\ cancelled[j] /\ Goto(j, "failed") /\ UNCHANGED <<plan, todo>>
     \/ /\ plan[j] # <<>> /\ ~cancelled[j]
        /\ \E r \in rows : r.key = KeyOf[Head(plan[j])]
        /\ Goto(j, "hash") /\ UNCHANGED <<plan, todo>>
     \/ /\ plan[j] # <<>> /\ ~cancelled[j]
        /\ \A r \in rows : r.key # KeyOf[Head(plan[j])]
        /\ Planned(j, None)
        /\ pc' = pc
  /\ UNCHANGED <<attempt, sum, target, failed, cancelled, renameMu, rows, dst, tmps,
                 mounted, up, released, away>>

\* Mutant: the hash is not looked at.
inIndex_keyOnly(key, h) == \E r \in rows : r.key = key

inIndex(key, h) == \E r \in rows : r.key = key /\ r.hash = h   \* ExistsHash

\* planDedup, second stage: the source is hashed and compared with the index.
ConfirmEntry(j) ==
  /\ pc[j] = "hash"
  /\ \/ Goto(j, "failed") /\ UNCHANGED <<plan, todo>>       \* unreadable or cancelled
     \/ /\ ~cancelled[j]
        /\ Goto(j, "plan")
        /\ \E h \in Reads(Head(plan[j])) :
             IF inIndex(KeyOf[Head(plan[j])], h)
             THEN plan' = [plan EXCEPT ![j] = Tail(@)] /\ todo' = todo
             ELSE Planned(j, h)
  /\ UNCHANGED <<attempt, sum, target, failed, cancelled, renameMu, rows, dst, tmps,
                 mounted, up, released, away>>

\* resolveDest and the space check.
CheckDest(j) ==
  /\ pc[j] = "ready"
  /\ \/ (~mounted \/ cancelled[j]) /\ Goto(j, "parked")
     \/ mounted /\ ~cancelled[j] /\ (Goto(j, "copy") \/ Goto(j, "failed"))
  /\ UNCHANGED <<plan, todo, attempt, sum, target, failed, cancelled, renameMu, rows, dst,
                 tmps, mounted, up, released, away>>

-----------------------------------------------------------------------------
(* The copy loop and copyOne.                                               *)

\* Mutant: the card is handed back although files failed.
EndOfLoop_ejects(j) == IF cancelled[j] THEN "failed" ELSE "eject"

\* The terminal state of run, once every entry was tried or the job cancelled.
EndOfLoop(j) == CASE cancelled[j] -> "failed"
                  [] ~cancelled[j] /\ failed[j] -> "done"
                  [] OTHER -> "eject"

\* The head of the loop over toCopy.
NextEntry(j) ==
  /\ pc[j] = "copy"
  /\ IF cancelled[j] \/ todo[j] = <<>>
     THEN Goto(j, EndOfLoop(j)) /\ UNCHANGED attempt
     ELSE Goto(j, "begin") /\ attempt' = [attempt EXCEPT ![j] = 0]
  /\ UNCHANGED <<plan, todo, sum, target, failed, cancelled, renameMu, rows, dst, tmps,
                 mounted, up, released, away>>

\* What copyOne makes of a failed attempt: stop when cancelled, out of disk
\* space or out of attempts; wait and try again otherwise.
giveUp(j) ==
  IF cancelled[j]
  THEN Goto(j, "copy") /\ UNCHANGED <<todo, failed, attempt>>
  ELSE /\ Goto(j, "copy")
       /\ todo' = [todo EXCEPT ![j] = Tail(@)]
       /\ failed' = [failed EXCEPT ![j] = TRUE]
       /\ UNCHANGED attempt

\* Mutant: one attempt too many.
attemptFails_oneMore(j) ==
  \/ giveUp(j)
  \/ /\ ~cancelled[j] /\ attempt[j] <= Retries
     /\ Goto(j, "wait")
     /\ attempt' = [attempt EXCEPT ![j] = @ + 1]
     /\ UNCHANGED <<todo, failed>>

attemptFails(j) ==
  \/ giveUp(j)                                        \* also isDiskFull
  \/ /\ ~cancelled[j] /\ attempt[j] < Retries
     /\ Goto(j, "wait")
     /\ attempt' = [attempt EXCEPT ![j] = @ + 1]
     /\ UNCHANGED <<todo, failed>>

\* time.After(retryDelays[attempt]) or ctx.Done().
Wait(j) ==
  /\ pc[j] = "wait"
  /\ \/ Goto(j, "begin")
     \/ cancelled[j] /\ Goto(j, "copy")
  /\ UNCHANGED <<plan, todo, attempt, sum, target, failed, cancelled, renameMu, rows, dst,
                 tmps, mounted, up, released, away>>

\* copyOnce: MkdirAll, Open, OpenFile(tmpPath, O_CREATE|O_TRUNC).
BeginAttempt(j) ==
  /\ pc[j] = "begin"
  /\ \/ attemptFails(j) /\ tmps' = tmps
     \/ /\ mounted
        /\ tmps' = Extend(tmps, TmpPath(j), None)
        /\ Goto(j, "stream")
        /\ UNCHANGED <<todo, failed, attempt>>
  /\ UNCHANGED <<plan, sum, target, cancelled, renameMu, rows, dst, mounted, up, released, away>>

\* Mutant: the temporary file of a failed attempt is left behind.
cleanup_forgets(j) == tmps' = tmps

\* os.Remove(tmpPath), which fails when the volume is gone.
cleanup(j) == tmps' = IF mounted THEN Remove(tmps, TmpPath(j)) ELSE tmps

\* Copy through the TeeReader, fsync, close.
Stream(j) ==
  /\ pc[j] = "stream"
  /\ \/ attemptFails(j) /\ cleanup(j) /\ UNCHANGED sum
     \/ /\ mounted /\ ~cancelled[j]
        /\ \E h \in Reads(File(j)) :
             /\ sum' = [sum EXCEPT ![j] = h]
             /\ \E w \in Writes(h) : tmps' = Extend(tmps, TmpPath(j), w)
        /\ Goto(j, "verify")
        /\ UNCHANGED <<todo, failed, attempt>>
  /\ UNCHANGED <<plan, target, cancelled, renameMu, rows, dst, mounted, up, released, away>>

matchesPlan(j) == Entry(j)[2] \in {None, sum[j]}

\* Mutant: the re-read of paranoid mode is not compared.
reread_ignored(j) == ~Paranoid \/ mounted

\* The re-read of paranoid mode gives the hash of the stream.
reread(j) ==
  Paranoid =>
    /\ mounted /\ ~cancelled[j]
    /\ TmpPath(j) \in DOMAIN tmps /\ tmps[TmpPath(j)] = sum[j]

\* The comparison with the planning read, and the paranoid re-read.
Verify(j) ==
  /\ pc[j] = "verify"
  /\ \/ matchesPlan(j) /\ reread(j) /\ Goto(j, "lock") /\ UNCHANGED <<todo, failed, attempt, tmps>>
     \/ ~(matchesPlan(j) /\ reread(j)) /\ attemptFails(j) /\ cleanup(j)
     \/ Paranoid /\ attemptFails(j) /\ cleanup(j)          \* the re-read fails
  /\ UNCHANGED <<plan, sum, target, cancelled, renameMu, rows, dst, mounted, up, released, away>>

\* Mutant: no mutual exclusion around name selection and rename.
mutexFree_always == TRUE

mutexFree == renameMu = None

\* c.renameMu.Lock()
Lock(j) ==
  /\ pc[j] = "lock"
  /\ mutexFree
  /\ renameMu' = j
  /\ Goto(j, "pick")
  /\ UNCHANGED <<plan, todo, attempt, sum, target, failed, cancelled, rows, dst, tmps,
                 mounted, up, released, away>>

\* Mutant: only the plain name is tried.
isFree_plain(name, i) == i = 0

\* The first of name, "name (1)", "name (2)", ... that is not taken.
isFree(name, i) ==
  /\ <<name, i>> \notin DOMAIN dst
  /\ \A k \in 0..(i - 1) : <<name, k>> \in DOMAIN dst

\* Mutant: the error path of the rename leaves the mutex locked.
renameFails_locked(j) ==
  /\ attemptFails(j) /\ cleanup(j)
  /\ UNCHANGED renameMu

renameFails(j) ==
  /\ attemptFails(j) /\ cleanup(j)
  /\ renameMu' = None

\* pickFreeName. Without its volume either every Lstat reports a file that
\* does not exist, and the rename fails, or another error: then the loop goes
\* on for ever, holding the mutex. (The volume does not come back between that
\* Lstat and the rename.)
PickFreeName(j) ==
  /\ pc[j] = "pick"
  /\ \/ /\ mounted
        /\ \E i \in 0..Cardinality(DOMAIN dst) :
             isFree(NameOf[File(j)], i) /\ target' = [target EXCEPT ![j] = i]
        /\ Goto(j, "rename")
        /\ UNCHANGED <<todo, failed, attempt, tmps, renameMu>>
     \/ ~mounted /\ renameFails(j) /\ UNCHANGED target
  /\ UNCHANGED <<plan, sum, cancelled, rows, dst, mounted, up, released, away>>

FinalPath(j) == <<NameOf[File(j)], target[j]>>

\* os.Rename, which replaces an existing file, and the deferred unlock.
Rename(j) ==
  /\ pc[j] = "rename"
  /\ \/ /\ mounted /\ TmpPath(j) \in DOMAIN tmps
        /\ dst' = Extend(dst, FinalPath(j), tmps[TmpPath(j)])
        /\ tmps' = Remove(tmps, TmpPath(j))
        /\ renameMu' = None
        /\ Goto(j, "insert")
        /\ UNCHANGED <<todo, failed, attempt>>
     \/ renameFails(j) /\ dst' = dst
  /\ UNCHANGED <<plan, sum, target, cancelled, rows, mounted, up, released, away>>

\* Files.Insert; an error is only logged.
Insert(j) ==
  /\ pc[j] = "insert"
  /\ LET r == [key |-> KeyOf[File(j)], hash |-> sum[j], path |-> FinalPath(j)]
     IN  rows' \in {rows, rows \cup {r}}
  /\ todo' = [todo EXCEPT ![j] = Tail(@)]
  /\ Goto(j, "copy")
  /\ UNCHANGED <<plan, attempt, sum, target, failed, cancelled, renameMu, dst, tmps,
                 mounted, up, released, away>>

\* Eject, which may be switched off or fail.
Eject(j) ==
  /\ pc[j] = "eject"
  /\ released' \in {released, released \cup {j}}
  /\ Goto(j, "done")
  /\ UNCHANGED <<plan, todo, attempt, sum, target, failed, cancelled, renameMu, rows, dst,
                 tmps, mounted, up, away>>

Runner(j) ==
  \/ PlanEntry(j) \/ ConfirmEntry(j) \/ CheckDest(j)
  \/ NextEntry(j) \/ Wait(j) \/ BeginAttempt(j) \/ Stream(j) \/ Verify(j)
  \/ Lock(j) \/ PickFreeName(j) \/ Rename(j) \/ Insert(j) \/ Eject(j)

-----------------------------------------------------------------------------
(* Cancellation, the destination and the process.                           *)

\* A detach, the user or the end of the service cancels the job's context.
Cancel(j) ==
  /\ Live(j) /\ ~cancelled[j]
  /\ cancelled' = [cancelled EXCEPT ![j] = TRUE]
  /\ UNCHANGED <<pc, plan, todo, attempt, sum, target, failed, renameMu, rows, dst, tmps,
                 mounted, up, released, away>>

\* The destination is pulled out or mounted again.
Unmount ==
  /\ mounted
  /\ mounted' = FALSE
  /\ away' = TRUE
  /\ UNCHANGED <<jobVars, renameMu, rows, dst, tmps, up, released>>

Mount ==
  /\ ~mounted
  /\ mounted' = TRUE
  /\ UNCHANGED <<jobVars, renameMu, rows, dst, tmps, up, released, away>>

\* The process ends. What was queued, parked or running is not taken up again.
Crash ==
  /\ MayCrash /\ up
  /\ up' = FALSE
  /\ pc' = [j \in Jobs |-> IF pc[j] \in {"new", "done"} THEN pc[j] ELSE "failed"]
  /\ renameMu' = None
  /\ UNCHANGED <<plan, todo, attempt, sum, target, failed, cancelled, rows, dst, tmps,
                 mounted, released, away>>

\* Mutant: nothing is swept.
sweep_none == UNCHANGED <<tmps, away>>

\* Recover: a mounted destination is swept of temporary files.
sweep ==
  /\ tmps' = IF mounted THEN <<>> ELSE tmps
  /\ away' = IF mounted THEN FALSE ELSE away

Boot ==
  /\ ~up
  /\ up' = TRUE
  /\ sweep
  /\ UNCHANGED <<jobVars, renameMu, rows, dst, mounted, released>>

Environment ==
  \/ \E j \in Jobs : Start(j) \/ Cancel(j)
  \/ Unmount \/ Mount \/ Crash \/ Boot

Next == (\E j \in Jobs : Runner(j)) \/ Environment

Spec == Init /\ [][Next]_vars

\* A goroutine that can take a step takes one; a Go mutex does not starve its
\* waiters; the manager takes parked jobs up while the destination is mounted.
\* (Nothing is asked of the search for a free name while the volume is away.)
Fairness ==
  /\ WF_vars(Boot)
  /\ \A j \in Jobs :
    /\ WF_vars((pc[j] = "pick" => mounted) /\ Runner(j))
    /\ SF_vars(Lock(j))
    /\ WF_vars(pc[j] = "parked" /\ Start(j))

FairSpec == Spec /\ Fairness

-----------------------------------------------------------------------------
(* Properties.                                                              *)

\* The dedup index tells the truth: every row names a final file whose content
\* has the recorded hash, whatever jobs run side by side, retry, are cancelled
\* or die with the process. A row that lies makes planDedup skip a file that
\* was never stored. (In fast mode it holds only if no write goes wrong.)
IndexSound ==
  \A r \in rows : r.path \in DOMAIN dst /\ dst[r.path] = r.hash

\* While the process runs, a temporary file on the destination belongs to an
\* attempt in progress, unless the destination was away since it was last
\* swept: no failed, cancelled or interrupted copy leaves debris behind.
NoOrphans ==
  up /\ ~away =>
    \A p \in DOMAIN tmps :
      \E j \in Jobs : pc[j] \in InCopyOnce /\ TmpPath(j) = p

\* The engine implements the archive the photographer relies on: final files
\* are never replaced, the index lists only what is stored, and a card is
\* ejected only when everything found on it is stored. Cards must read true.
TheArchive == INSTANCE Archive WITH
  archive   <- dst,
  catalogue <- {<<r.key, r.hash>> : r \in rows}

KeepsThePromise == TheArchive!Spec

\* Once the destination stays mounted, every job that starts comes to an end:
\* retries are bounded and nobody waits for the rename mutex for ever. (Unless
\* it is cancelled again and again just when its destination is looked up: such
\* a cancellation sends the job back to wait for the destination.)
JobsEnd ==
  <>[]mounted =>
    \A j \in Jobs :
      \/ pc[j] = "plan" ~> pc[j] \in Ended
      \/ []<>(pc[j] = "parked" /\ cancelled[j])

-----------------------------------------------------------------------------
(* What the documentation says and the code keeps in paranoid mode only.    *)

\* README: a file is written as *.cardpit-tmp, synced, "hash conferido, só
\* então renomeado"; PRD RF-03.3: renamed only after the hash was checked. In
\* fast mode the hash of the stream is compared with nothing; otherwise it holds,
\* as no other attempt touches the temporary file in between.
RenamedOnlyIfHashMatches ==
  [][\A j \in Jobs :
       pc[j] = "rename" /\ pc'[j] = "insert" => dst'[FinalPath(j)] = sum[j]]_vars

=============================================================================
