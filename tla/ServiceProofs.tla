--------------------------- MODULE ServiceProofs ---------------------------
(* Theorems about Service, for any processes, releases and scenarios.      *)
EXTENDS Service, TLAPS

(***************************************************************************)
(* Versions.                                                               *)
(***************************************************************************)
\* No version is newer than one that is newer than it, nor than itself.
LEMMA NewerIsAsymmetric ==
  ASSUME NEW v \in Versions, NEW o \in Versions
  PROVE  /\ newerThan(v, o) => ~newerThan(o, v)
         /\ ~newerThan(v, v)
<1>1. v \in Nat \X Nat \X Nat /\ o \in Nat \X Nat \X Nat
  BY ReleasesAssumption DEF Versions
<1>2. \A i \in 1..3 : v[i] \in Nat /\ o[i] \in Nat
  BY <1>1
<1> QED
  BY <1>2 DEF newerThan

\* rank orders the versions as newerThan does.
LEMMA RankFollowsVersions ==
  ASSUME NEW v \in Versions, NEW o \in Versions, ~newerThan(o, v)
  PROVE  rank(v) >= rank(o)
<1> DEFINE R == DOMAIN Releases
<1>1. R \subseteq Nat
  BY ReleasesAssumption
<1>2. PICK i \in R : i = rank(v) /\ Releases[i] = v
  <2>1. \E k \in R : Releases[k] = v
    BY DEF Versions
  <2> QED  BY <2>1 DEF rank
<1>3. PICK j \in R : j = rank(o) /\ Releases[j] = o
  <2>1. \E k \in R : Releases[k] = o
    BY DEF Versions
  <2> QED  BY <2>1 DEF rank
<1>4. i < j => newerThan(o, v)
  <2>1. v \in Nat \X Nat \X Nat /\ o \in Nat \X Nat \X Nat
    BY ReleasesAssumption DEF Versions
  <2>2. \A k \in 1..3 : v[k] \in Nat /\ o[k] \in Nat
    BY <2>1
  <2> QED  BY <1>2, <1>3, <2>2, OldestFirstAssumption DEF newerThan
<1>5. i \in Nat /\ j \in Nat
  BY <1>1
<1> QED
  BY <1>2, <1>3, <1>4, <1>5

(***************************************************************************)
(* The inductive invariant.                                                *)
(***************************************************************************)
\* ServiceTypeOK without the bounds of the scenario, on which nothing else
\* depends.
StateOK ==
  /\ proc \in [Procs -> Processes]
  /\ disk \in [exe : Files, old : Files, new : Files]
  /\ latest \in Versions
  /\ token \in {"env", "user", Missing}
  /\ source \in {"env", "ui", Missing}
  /\ saved \in BOOLEAN /\ outrun \in BOOLEAN
  /\ rows \in [CopyJobs -> JobRows \cup {Missing}]

\* One process serves at a time, only it updates, and what it is about to put
\* in place is the newer version it has checked.
ProcInv ==
  /\ \A p \in Procs :
       /\ proc[p].pc = "down" <=> proc[p].at = "none"
       /\ proc[p].upd # "idle" \/ proc[p].put => proc[p].pc = "serve"
       /\ proc[p].upd # "idle" => /\ proc[p].ver \in Versions /\ proc[p].img \in Versions
                                  /\ newerThan(proc[p].ver, proc[p].img) \/ proc[p].upd = "exit"
       /\ proc[p].upd \in {"wait", "swap", "place"} => disk.new = proc[p].ver
       /\ proc[p].upd = "place" => disk.exe = Missing
  /\ \A p, q \in Procs : proc[p].pc = "serve" /\ proc[q].pc = "serve" => p = q

\* Who runs from a file runs the version in it; while nothing stands under the
\* program's name, everybody runs from the file kept aside.
FilesInv ==
  /\ disk.exe \in Versions \cup {Missing} /\ disk.old \in Versions \cup {Missing}
  /\ disk.exe = Missing => disk.old # Missing
  /\ \A p \in Procs :
       /\ proc[p].at = "exe" => disk.exe # Missing /\ proc[p].img = disk.exe
       /\ proc[p].at = "old" => disk.old # Missing /\ proc[p].img = disk.old
       /\ proc[p].at = "old" /\ disk.exe # Missing => ~newerThan(disk.old, disk.exe)

\* A copy goes on in the process that serves; the rows an earlier run left
\* active are swept before their process binds the port.
RowsInv ==
  \A j \in CopyJobs : rows[j] # Missing =>
    /\ rows[j].alive => /\ proc[rows[j].owner].pc = "serve" /\ rows[j].status # "ended"
                        /\ rows[j].status = "interrupted" => rows[j].foreign
    /\ rows[j].status = "active" /\ ~rows[j].alive =>
         proc[rows[j].owner].pc \notin {"bind", "serve"}

\* A saved token has its source beside it and no boot on the way to replace
\* it; one that is being saved was not overtaken.
TokenInv ==
  ~outrun =>
    /\ saved => /\ token = "user" /\ source = "ui"
                /\ \A q \in Procs : proc[q].pc \notin {"seedToken", "seedSource"}
    /\ (\E p \in Procs : proc[p].put) => token = "user"

IInv == StateOK /\ ProcInv /\ FilesInv /\ RowsInv /\ UpdateSparesCountedJobs /\ TokenInv


(***************************************************************************)
(* What the operators that change several processes or rows at once do.    *)
(***************************************************************************)
\* A process that is down is a process.
LEMMA DownIsProcess == Down \in Processes
  BY DEF Down, Processes

\* Steps of a process change its counter and its updater to values they have.
LEMMA ChangedProcess ==
  ASSUME NEW r \in Processes,
         NEW pc \in Boot \cup {"down", "serve", "zombie"}, NEW put \in BOOLEAN,
         NEW upd \in {"idle", "fetch", "verify", "wait"} \cup Updating,
         NEW ver \in Versions \cup {Missing}, NEW img \in Versions \cup {Missing},
         NEW place \in {"exe", "old", "none"}
  PROVE  /\ [r EXCEPT !.pc = pc] \in Processes
         /\ [r EXCEPT !.upd = upd] \in Processes
         /\ [r EXCEPT !.upd = upd, !.ver = ver] \in Processes
         /\ [r EXCEPT !.put = put] \in Processes
         /\ [r EXCEPT !.pc = pc, !.img = img, !.at = place] \in Processes
<1>1. [r EXCEPT !.pc = pc] \in Processes
  BY DEF Processes
<1>2. [r EXCEPT !.upd = upd] \in Processes
  BY DEF Processes
<1>3. [r EXCEPT !.upd = upd, !.ver = ver] \in Processes
  BY DEF Processes
<1>4. [r EXCEPT !.put = put] \in Processes
  BY DEF Processes
<1>5. [r EXCEPT !.pc = pc, !.img = img, !.at = place] \in Processes
  BY DEF Processes
<1> QED
  BY <1>1, <1>2, <1>3, <1>4, <1>5

\* Setting the updater's state leaves the rest of a process alone.
LEMMA UpdSet ==
  ASSUME NEW r \in Processes, NEW u
  PROVE  LET s == [r EXCEPT !.upd = u] IN
           /\ s.upd = u /\ s.pc = r.pc /\ s.img = r.img
           /\ s.ver = r.ver /\ s.put = r.put /\ s.at = r.at
  BY DEF Processes

\* abandoned ends the copies of one process, and leaves the others alone.
LEMMA AbandonedEffect ==
  ASSUME StateOK, NEW p \in Procs, NEW orderly \in SUBSET CopyJobs, NEW r,
         r = abandoned(p, orderly)
  PROVE  /\ r \in [CopyJobs -> JobRows \cup {Missing}]
         /\ \A j \in CopyJobs : r[j] # Missing =>
              /\ rows[j] # Missing
              /\ r[j].owner = rows[j].owner /\ r[j].owner \in Procs
              /\ r[j].alive => rows[j].alive /\ rows[j].owner # p /\ r[j] = rows[j]
              /\ rows[j].alive /\ ~r[j].alive => rows[j].owner = p
              /\ r[j].status = "active" => rows[j].status = "active"
<1>1. \A j \in CopyJobs : r[j] = IF alive(j) /\ rows[j].owner = p
        THEN [rows[j] EXCEPT !.alive = FALSE, !.status = IF j \in orderly THEN "ended" ELSE @]
        ELSE rows[j]
  BY DEF abandoned
<1>2. r = [j \in CopyJobs |-> r[j]]
  BY DEF abandoned
<1>3. ASSUME NEW j \in CopyJobs, alive(j), rows[j].owner = p
      PROVE  /\ r[j] \in JobRows
             /\ r[j].owner = rows[j].owner /\ ~r[j].alive /\ r[j].status \in {"ended", rows[j].status}
  <2>1. rows[j] \in JobRows
    BY <1>3 DEF StateOK, alive
  <2> DEFINE s == IF j \in orderly THEN "ended" ELSE rows[j].status
  <2>2. r[j] = [rows[j] EXCEPT !.alive = FALSE, !.status = s]
    BY <1>1, <1>3
  <2>3. s \in {"active", "ended", "interrupted"}
    BY <2>1 DEF JobRows
  <2> HIDE DEF s
  <2>4. r[j] \in JobRows /\ r[j].owner = rows[j].owner /\ r[j].alive = FALSE /\ r[j].status = s
    BY <2>1, <2>2, <2>3 DEF JobRows
  <2> QED
    BY <2>4 DEF s
<1>4. ASSUME NEW j \in CopyJobs, ~(alive(j) /\ rows[j].owner = p)
      PROVE  r[j] = rows[j]
  BY <1>1, <1>4
<1>5. r \in [CopyJobs -> JobRows \cup {Missing}]
  BY <1>2, <1>3, <1>4 DEF StateOK
<1>6. ASSUME NEW j \in CopyJobs, r[j] # Missing, ~(alive(j) /\ rows[j].owner = p)
      PROVE  r[j] = rows[j] /\ rows[j] # Missing /\ rows[j] \in JobRows
  BY <1>4, <1>6 DEF StateOK
<1> QED
  BY <1>3, <1>5, <1>6 DEF alive, JobRows

\* Renaming a file changes where processes run from and nothing else.
LEMMA MovedEffect ==
  ASSUME StateOK, NEW from \in {"exe", "old"}, NEW to \in {"exe", "old"},
         NEW m, m = moved(from, to)
  PROVE  /\ m \in [Procs -> Processes]
         /\ \A q \in Procs :
              /\ m[q].pc = proc[q].pc /\ m[q].img = proc[q].img /\ m[q].upd = proc[q].upd
              /\ m[q].ver = proc[q].ver /\ m[q].put = proc[q].put
              /\ m[q].at = IF proc[q].at = from THEN to ELSE proc[q].at
<1>1. ASSUME NEW q \in Procs
      PROVE  m[q] \in Processes /\ m[q].pc = proc[q].pc /\ m[q].img = proc[q].img
             /\ m[q].upd = proc[q].upd /\ m[q].ver = proc[q].ver /\ m[q].put = proc[q].put
             /\ m[q].at = IF proc[q].at = from THEN to ELSE proc[q].at
  <2>1. proc[q] \in Processes
    BY DEF StateOK
  <2>2. m[q] = IF proc[q].at = from THEN [proc[q] EXCEPT !.at = to] ELSE proc[q]
    BY DEF moved
  <2> QED
    BY <2>1, <2>2 DEF Processes
<1> QED
  BY <1>1 DEF moved


\* What MoveAside does to each process and file.
LEMMA MoveAsideEffect ==
  ASSUME StateOK, NEW p \in Procs, MoveAside(p)
  PROVE  /\ proc[p].pc = "serve" /\ proc[p].upd = "swap"
         /\ \A q \in Procs : /\ proc'[q].pc = proc[q].pc /\ proc'[q].img = proc[q].img
                             /\ proc'[q].ver = proc[q].ver /\ proc'[q].put = proc[q].put
                             /\ q # p => proc'[q].upd = proc[q].upd
         /\ \/ /\ proc'[p].upd = "place"
               /\ \A q \in Procs : proc'[q].at = IF proc[q].at = "exe" THEN "old" ELSE proc[q].at
               /\ disk.exe # Missing /\ (inUse("old") => disk.old = Missing)
               /\ disk'.exe = Missing /\ disk'.old = disk.exe /\ disk'.new = disk.new
            \/ /\ proc'[p].upd = "idle"
               /\ \A q \in Procs : proc'[q].at = proc[q].at
               /\ disk'.exe = disk.exe /\ disk'.new = Missing
               /\ disk'.old = IF inUse("old") THEN disk.old ELSE Missing
               /\ disk.exe = Missing \/ inUse("old")
<1> DEFINE m == moved("exe", "old")
<1>1. /\ m \in [Procs -> Processes]
      /\ \A q \in Procs : /\ m[q].pc = proc[q].pc /\ m[q].img = proc[q].img /\ m[q].upd = proc[q].upd
                          /\ m[q].ver = proc[q].ver /\ m[q].put = proc[q].put
                          /\ m[q].at = IF proc[q].at = "exe" THEN "old" ELSE proc[q].at
  BY MovedEffect
<1> HIDE DEF m
<1>2. proc[p].pc = "serve" /\ proc[p].upd = "swap"
  BY DEF MoveAside, updating, at
<1>3. CASE /\ disk.exe # Missing /\ (inUse("old") => disk.old = Missing)
           /\ disk' = [disk EXCEPT !.old = disk.exe, !.exe = Missing]
           /\ proc' = [m EXCEPT ![p].upd = "place"]
  <2>1. \A q \in Procs : proc'[q] = IF q = p THEN [m[q] EXCEPT !.upd = "place"] ELSE m[q]
    BY <1>1, <1>3
  <2>2. /\ proc'[p].upd = "place"
        /\ \A q \in Procs : /\ proc'[q].pc = m[q].pc /\ proc'[q].img = m[q].img
                            /\ proc'[q].ver = m[q].ver /\ proc'[q].put = m[q].put
                            /\ proc'[q].at = m[q].at /\ (q # p => proc'[q].upd = m[q].upd)
    <3>1. m[p] \in Processes /\ proc'[p] = [m[p] EXCEPT !.upd = "place"]
      BY <1>1, <2>1
    <3>2. /\ proc'[p].upd = "place" /\ proc'[p].pc = m[p].pc /\ proc'[p].img = m[p].img
          /\ proc'[p].ver = m[p].ver /\ proc'[p].put = m[p].put /\ proc'[p].at = m[p].at
      BY <3>1, UpdSet
    <3>3. \A q \in Procs : q # p => proc'[q] = m[q]
      BY <2>1
    <3> QED
      BY <3>2, <3>3
  <2>3. disk'.exe = Missing /\ disk'.old = disk.exe /\ disk'.new = disk.new
    BY <1>3 DEF StateOK
  <2> QED
    BY <1>1, <1>2, <1>3, <2>2, <2>3
<1>4. CASE /\ disk.exe = Missing \/ (inUse("old") /\ disk.old # Missing)
           /\ disk' = [disk EXCEPT !.old = IF inUse("old") THEN disk.old ELSE Missing, !.new = Missing]
           /\ proc' = [proc EXCEPT ![p].upd = "idle"]
  <2>1. /\ proc'[p].upd = "idle"
        /\ \A q \in Procs : /\ proc'[q].pc = proc[q].pc /\ proc'[q].img = proc[q].img
                            /\ proc'[q].ver = proc[q].ver /\ proc'[q].put = proc[q].put
                            /\ proc'[q].at = proc[q].at /\ (q # p => proc'[q].upd = proc[q].upd)
    BY <1>4 DEF StateOK, Processes
  <2> DEFINE kept == IF inUse("old") THEN disk.old ELSE Missing
  <2>2. disk' = [disk EXCEPT !.old = kept, !.new = Missing]
    BY <1>4
  <2> HIDE DEF kept
  <2>3. disk'.exe = disk.exe /\ disk'.new = Missing /\ disk'.old = kept
    BY <2>2 DEF StateOK
  <2> QED
    BY <1>2, <1>4, <2>1, <2>3 DEF kept
<1> QED
  BY <1>3, <1>4 DEF MoveAside, step, m

\* What Place does to each process and file: it succeeds, rolls back, or fails
\* altogether.
LEMMA PlaceEffect ==
  ASSUME StateOK, NEW p \in Procs, Place(p)
  PROVE  /\ proc[p].pc = "serve" /\ proc[p].upd = "place" /\ proc'[p].upd \in {"idle", "exit"}
         /\ \A q \in Procs : /\ proc'[q].pc = proc[q].pc /\ proc'[q].img = proc[q].img
                             /\ proc'[q].ver = proc[q].ver /\ proc'[q].put = proc[q].put
                             /\ q # p => proc'[q].upd = proc[q].upd
         /\ \/ /\ \A q \in Procs : proc'[q].at = proc[q].at
               /\ disk'.exe = disk.new /\ disk'.old = disk.old
            \/ /\ \A q \in Procs : proc'[q].at = IF proc[q].at = "old" THEN "exe" ELSE proc[q].at
               /\ disk'.exe = disk.old /\ disk'.old = Missing /\ proc'[p].upd = "idle"
            \/ /\ \A q \in Procs : proc'[q].at = proc[q].at
               /\ disk'.exe = disk.exe /\ disk'.old = disk.old /\ proc'[p].upd = "idle"
<1> DEFINE m == moved("old", "exe")
<1>1. /\ m \in [Procs -> Processes]
      /\ \A q \in Procs : /\ m[q].pc = proc[q].pc /\ m[q].img = proc[q].img /\ m[q].upd = proc[q].upd
                          /\ m[q].ver = proc[q].ver /\ m[q].put = proc[q].put
                          /\ m[q].at = IF proc[q].at = "old" THEN "exe" ELSE proc[q].at
  BY MovedEffect
<1> HIDE DEF m
<1>2. proc[p].pc = "serve" /\ proc[p].upd = "place"
  BY DEF Place, updating, at
<1>3. CASE \E u \in {"idle", "exit"} : /\ proc' = [proc EXCEPT ![p].upd = u]
                                      /\ disk' = [disk EXCEPT !.exe = disk.new, !.new = Missing]
  <2>1. /\ proc'[p].upd \in {"idle", "exit"}
        /\ \A q \in Procs : /\ proc'[q].pc = proc[q].pc /\ proc'[q].img = proc[q].img
                            /\ proc'[q].ver = proc[q].ver /\ proc'[q].put = proc[q].put
                            /\ proc'[q].at = proc[q].at /\ (q # p => proc'[q].upd = proc[q].upd)
    BY <1>3 DEF StateOK, Processes
  <2>2. disk'.exe = disk.new /\ disk'.old = disk.old
    BY <1>3 DEF StateOK
  <2> QED
    BY <1>2, <2>1, <2>2
<1>4. CASE /\ disk' = [exe |-> disk.old, old |-> Missing, new |-> Missing]
           /\ proc' = [m EXCEPT ![p].upd = "idle"]
  <2>1. \A q \in Procs : proc'[q] = IF q = p THEN [m[q] EXCEPT !.upd = "idle"] ELSE m[q]
    BY <1>1, <1>4
  <2>2. /\ proc'[p].upd = "idle"
        /\ \A q \in Procs : /\ proc'[q].pc = m[q].pc /\ proc'[q].img = m[q].img
                            /\ proc'[q].ver = m[q].ver /\ proc'[q].put = m[q].put
                            /\ proc'[q].at = m[q].at /\ (q # p => proc'[q].upd = m[q].upd)
    <3>1. m[p] \in Processes /\ proc'[p] = [m[p] EXCEPT !.upd = "idle"]
      BY <1>1, <2>1
    <3>2. /\ proc'[p].upd = "idle" /\ proc'[p].pc = m[p].pc /\ proc'[p].img = m[p].img
          /\ proc'[p].ver = m[p].ver /\ proc'[p].put = m[p].put /\ proc'[p].at = m[p].at
      BY <3>1, UpdSet
    <3>3. \A q \in Procs : q # p => proc'[q] = m[q]
      BY <2>1
    <3> QED
      BY <3>2, <3>3
  <2>3. disk'.exe = disk.old /\ disk'.old = Missing
    BY <1>4
  <2> QED
    BY <1>1, <1>2, <2>2, <2>3
<1>5. CASE proc' = [proc EXCEPT ![p].upd = "idle"] /\ disk' = [disk EXCEPT !.new = Missing]
  <2>1. /\ proc'[p].upd = "idle"
        /\ \A q \in Procs : /\ proc'[q].pc = proc[q].pc /\ proc'[q].img = proc[q].img
                            /\ proc'[q].ver = proc[q].ver /\ proc'[q].put = proc[q].put
                            /\ proc'[q].at = proc[q].at /\ (q # p => proc'[q].upd = proc[q].upd)
    BY <1>5 DEF StateOK, Processes
  <2>2. disk'.exe = disk.exe /\ disk'.old = disk.old
    BY <1>5 DEF StateOK
  <2> QED
    BY <1>2, <2>1, <2>2
<1> QED
  BY <1>3, <1>4, <1>5 DEF Place, step, giveUp, m

\* A process that dies, gives up or exits for the update leaves the others and
\* the two executables alone, and takes its copies with it.
LEMMA GoneEffect ==
  ASSUME StateOK, NEW p \in Procs, Die(p) \/ Fail(p) \/ Exit(p)
  PROVE  /\ \A q \in Procs : q # p => proc'[q] = proc[q]
         /\ proc'[p].upd = "idle" /\ ~proc'[p].put
         /\ \/ proc'[p].pc = "down" /\ proc'[p].at = "none"
            \/ /\ proc'[p].pc = "zombie" /\ proc[p].pc # "down"
               /\ proc'[p].at = proc[p].at /\ proc'[p].img = proc[p].img
         /\ disk'.exe = disk.exe /\ disk'.old = disk.old
         /\ disk'.new = disk.new \/ proc[p].upd # "idle"
         /\ \A j \in CopyJobs : rows'[j] # Missing =>
              /\ rows[j] # Missing
              /\ rows'[j].owner = rows[j].owner /\ rows'[j].owner \in Procs
              /\ rows'[j].alive => rows[j].alive /\ rows[j].owner # p /\ rows'[j] = rows[j]
              /\ rows[j].alive /\ ~rows'[j].alive => rows[j].owner = p
              /\ rows'[j].status = "active" => rows[j].status = "active"
         /\ UNCHANGED settingVars
<1>1. PICK r \in {Down, ended(p)} : /\ proc' = [proc EXCEPT ![p] = r]
                                    /\ r = ended(p) => r = Down \/ proc[p].pc # "down"
  BY DEF Die, Fail, Exit, Boot
<1>2. proc'[p] = r /\ \A q \in Procs : q # p => proc'[q] = proc[q]
  BY <1>1 DEF StateOK
<1>3. /\ r.upd = "idle" /\ ~r.put
      /\ \/ r.pc = "down" /\ r.at = "none"
         \/ /\ r.pc = "zombie" /\ proc[p].pc # "down"
            /\ r.at = proc[p].at /\ r.img = proc[p].img
  <2>1. CASE r = Down
    BY <2>1 DEF Down
  <2>2. CASE r = [Down EXCEPT !.pc = "zombie", !.img = proc[p].img, !.at = proc[p].at] /\ proc[p].pc # "down"
    BY <2>2 DEF Down
  <2> QED
    BY <1>1, <2>1, <2>2 DEF ended
<1>4. PICK orderly \in SUBSET CopyJobs : rows' = abandoned(p, orderly)
  BY DEF Die, Fail, Exit
<1>5. /\ disk'.exe = disk.exe /\ disk'.old = disk.old
      /\ disk'.new = disk.new \/ proc[p].upd # "idle"
  BY DEF Die, Fail, Exit, StateOK
<1>6. UNCHANGED settingVars
  BY DEF Die, Fail, Exit, settingVars
<1>7. \A j \in CopyJobs : rows'[j] # Missing =>
        /\ rows[j] # Missing
        /\ rows'[j].owner = rows[j].owner /\ rows'[j].owner \in Procs
        /\ rows'[j].alive => rows[j].alive /\ rows[j].owner # p /\ rows'[j] = rows[j]
        /\ rows[j].alive /\ ~rows'[j].alive => rows[j].owner = p
        /\ rows'[j].status = "active" => rows[j].status = "active"
  BY <1>4, AbandonedEffect
<1> QED
  BY <1>2, <1>3, <1>5, <1>6, <1>7

\* Sweep moves one process on, and no row stays active.
LEMMA SweepEffect ==
  ASSUME StateOK, NEW p \in Procs, Sweep(p)
  PROVE  /\ proc[p].pc = "sweep" /\ proc'[p].pc = "bind"
         /\ proc'[p].at = proc[p].at /\ proc'[p].img = proc[p].img /\ proc'[p].upd = proc[p].upd
         /\ proc'[p].ver = proc[p].ver /\ proc'[p].put = proc[p].put
         /\ \A q \in Procs : q # p => proc'[q] = proc[q]
         /\ UNCHANGED <<disk, settingVars>>
         /\ \A j \in CopyJobs : rows'[j] # Missing =>
              /\ rows[j] # Missing
              /\ rows'[j].owner = rows[j].owner /\ rows'[j].alive = rows[j].alive
              /\ rows'[j].late = rows[j].late
              /\ \/ rows'[j] = rows[j] /\ rows[j].status # "active"
                 \/ /\ rows[j].status = "active" /\ rows'[j].status = "interrupted"
                    /\ rows'[j].foreign = (rows[j].owner # p)
<1>1. /\ proc[p].pc = "sweep" /\ proc'[p].pc = "bind"
      /\ proc'[p].at = proc[p].at /\ proc'[p].img = proc[p].img /\ proc'[p].upd = proc[p].upd
      /\ proc'[p].ver = proc[p].ver /\ proc'[p].put = proc[p].put
      /\ \A q \in Procs : q # p => proc'[q] = proc[q]
  BY DEF Sweep, at, goto, StateOK, Processes
<1>2. ASSUME NEW j \in CopyJobs, rows'[j] # Missing
      PROVE  /\ rows[j] # Missing
             /\ rows'[j].owner = rows[j].owner /\ rows'[j].alive = rows[j].alive
             /\ rows'[j].late = rows[j].late
             /\ \/ rows'[j] = rows[j] /\ rows[j].status # "active"
                \/ /\ rows[j].status = "active" /\ rows'[j].status = "interrupted"
                   /\ rows'[j].foreign = (rows[j].owner # p)
  <2>1. rows'[j] = IF active(j)
          THEN [rows[j] EXCEPT !.status = "interrupted", !.foreign = rows[j].owner # p]
          ELSE rows[j]
    BY DEF Sweep
  <2>2. CASE active(j)
    <3>1. rows[j] \in JobRows
      BY <2>2 DEF active, StateOK
    <3> QED
      BY <2>1, <2>2, <3>1 DEF active, JobRows
  <2>3. CASE ~active(j)
    BY <1>2, <2>1, <2>3 DEF active
  <2> QED
    BY <2>2, <2>3
<1>3. UNCHANGED <<disk, settingVars>>
  BY DEF Sweep
<1> QED
  BY <1>1, <1>2, <1>3

\* Admit adds one row, of the process that serves.
LEMMA AdmitEffect ==
  ASSUME StateOK, NEW p \in Procs, Admit(p)
  PROVE  /\ proc[p].pc = "serve"
         /\ \A j \in CopyJobs : \/ rows'[j] = rows[j]
                                \/ /\ rows[j] = Missing /\ rows'[j].status = "active"
                                   /\ rows'[j].owner = p /\ rows'[j].alive /\ ~rows'[j].foreign
                                   /\ proc[p].upd \in Updating => rows'[j].late
<1> DEFINE later == proc[p].upd \in Updating
<1>1. PICK k \in CopyJobs :
        /\ rows[k] = Missing
        /\ rows' = [rows EXCEPT ![k] = [status |-> "active", owner |-> p, alive |-> TRUE,
                                        late |-> later, foreign |-> FALSE]]
  BY DEF Admit
<1>2. \A j \in CopyJobs : j # k => rows'[j] = rows[j]
  BY <1>1 DEF StateOK
<1> HIDE DEF later
<1>3. rows'[k] = [status |-> "active", owner |-> p, alive |-> TRUE,
                  late |-> later, foreign |-> FALSE]
  BY <1>1 DEF StateOK
<1>4. /\ rows'[k].status = "active" /\ rows'[k].owner = p /\ rows'[k].alive /\ ~rows'[k].foreign
      /\ proc[p].upd \in Updating => rows'[k].late
  <2>1. rows'[k].late = later
    BY <1>3
  <2>2. proc[p].upd \in Updating => later
    BY DEF later
  <2>3. rows'[k].status = "active" /\ rows'[k].owner = p /\ rows'[k].alive /\ ~rows'[k].foreign
    BY <1>3
  <2> QED
    BY <2>1, <2>2, <2>3, Zenon
<1>5. proc[p].pc = "serve"
  BY DEF Admit, at
<1> QED
  BY <1>1, <1>2, <1>4, <1>5

\* The initial state satisfies the invariant.
LEMMA InitHolds == ServiceInit => IInv
<1> SUFFICES ASSUME ServiceInit PROVE IInv
  OBVIOUS
<1>1. Releases[1] \in Versions /\ Missing \notin Versions
  BY ReleasesAssumption DEF Versions
<1>2. StateOK
  BY <1>1 DEF ServiceInit, StateOK, Down, Processes, Boot, Files, JobRows, Updating
<1>3. ProcInv /\ FilesInv /\ RowsInv /\ UpdateSparesCountedJobs /\ TokenInv
  BY <1>1 DEF ServiceInit, ProcInv, FilesInv, RowsInv, UpdateSparesCountedJobs, TokenInv, Down, alive
<1> QED
  BY <1>2, <1>3 DEF IInv

\* Every step keeps the type invariant.
LEMMA TypeStep == IInv /\ [ServiceNext]_serviceVars => StateOK'
<1> SUFFICES ASSUME IInv, [ServiceNext]_serviceVars PROVE StateOK'
  OBVIOUS
<1> USE DEF IInv
<1>1. ASSUME NEW p \in Procs, Start(p) PROVE StateOK'
  <2>1. proc' \in [Procs -> Processes]
    BY <1>1, DownIsProcess, ChangedProcess DEF Start, Boot, FilesInv, StateOK, IInv
  <2> QED
    BY <1>1, <2>1 DEF Start, settingVars, StateOK, IInv
<1>2. ASSUME NEW p \in Procs, Die(p) PROVE StateOK'
  <2>1. proc' \in [Procs -> Processes]
    BY <1>2, DownIsProcess, ChangedProcess DEF Die, StateOK, IInv
  <2>2. rows' \in [CopyJobs -> JobRows \cup {Missing}]
    BY <1>2, AbandonedEffect DEF Die, IInv
  <2> QED
    BY <1>2, <2>1, <2>2 DEF Die, settingVars, StateOK, IInv
<1>3. ASSUME NEW p \in Procs, Fail(p) PROVE StateOK'
  <2>1. ended(p) \in Processes
    BY DownIsProcess DEF ended, Down, Processes, StateOK, IInv
  <2>2. proc' \in [Procs -> Processes]
    BY <1>3, <2>1 DEF Fail, StateOK, IInv
  <2>3. rows' \in [CopyJobs -> JobRows \cup {Missing}]
    BY <1>3, AbandonedEffect DEF Fail, IInv
  <2> QED
    BY <1>3, <2>2, <2>3 DEF Fail, Files, settingVars, StateOK, IInv
<1>4. ASSUME NEW p \in Procs, Recover(p) PROVE StateOK'
  <2>1. proc' \in [Procs -> Processes]
    BY <1>4, DownIsProcess, ChangedProcess DEF Recover, goto, Boot, StateOK, IInv
  <2> QED
    BY <1>4, <2>1 DEF Recover, inUse, Files, settingVars, StateOK, IInv
<1>5. ASSUME NEW p \in Procs, SeedRead(p) PROVE StateOK'
  <2>1. proc' \in [Procs -> Processes]
    BY <1>5, DownIsProcess, ChangedProcess DEF SeedRead, goto, Boot, StateOK, IInv
  <2> QED
    BY <1>5, <2>1 DEF SeedRead, settingVars, StateOK, IInv
<1>6. ASSUME NEW p \in Procs, SeedToken(p) PROVE StateOK'
  BY <1>6 DEF SeedToken, at, goto, settingVars, StateOK, Processes, Boot, Updating, Files, JobRows, IInv, FilesInv
<1>7. ASSUME NEW p \in Procs, SeedSource(p) PROVE StateOK'
  BY <1>7 DEF SeedSource, at, goto, settingVars, StateOK, Processes, Boot, Updating, Files, JobRows, IInv, FilesInv
<1>8. ASSUME NEW p \in Procs, Sweep(p) PROVE StateOK'
  <2>1. proc' \in [Procs -> Processes]
    BY <1>8, DownIsProcess, ChangedProcess DEF Sweep, goto, Boot, StateOK, IInv
  <2>2. ASSUME NEW j \in CopyJobs, active(j)
        PROVE  [rows[j] EXCEPT !.status = "interrupted", !.foreign = rows[j].owner # p] \in JobRows
    BY <2>2 DEF active, JobRows, StateOK, IInv
  <2>3. rows' \in [CopyJobs -> JobRows \cup {Missing}]
    BY <1>8, <2>2 DEF Sweep, StateOK, IInv
  <2> QED
    BY <1>8, <2>1, <2>3 DEF Sweep, settingVars, StateOK, IInv
<1>9. ASSUME NEW p \in Procs, Bind(p) PROVE StateOK'
  <2>1. ended(p) \in Processes
    BY DownIsProcess DEF ended, Down, Processes, StateOK, IInv
  <2>2. proc' \in [Procs -> Processes]
    BY <1>9, <2>1, ChangedProcess DEF Bind, StateOK, IInv
  <2> QED
    BY <1>9, <2>2 DEF Bind, settingVars, StateOK, IInv
<1>10. ASSUME NEW p \in Procs, Admit(p) PROVE StateOK'
  BY <1>10 DEF Admit, at, Updating, settingVars, StateOK, Processes, Boot, Files, JobRows, IInv, FilesInv
<1>11. ASSUME NEW p \in Procs, PutToken(p) PROVE StateOK'
  <2>1. proc' \in [Procs -> Processes]
    BY <1>11, DownIsProcess, ChangedProcess DEF PutToken, StateOK, IInv
  <2> QED
    BY <1>11, <2>1 DEF PutToken, settingVars, StateOK, IInv
<1>12. ASSUME NEW p \in Procs, PutSource(p) PROVE StateOK'
  <2>1. proc' \in [Procs -> Processes]
    BY <1>12, DownIsProcess, ChangedProcess DEF PutSource, StateOK, IInv
  <2> QED
    BY <1>12, <2>1 DEF PutSource, settingVars, StateOK, IInv
<1>13. ASSUME NEW p \in Procs, TryUpdate(p) PROVE StateOK'
  <2>1. proc' \in [Procs -> Processes]
    BY <1>13, DownIsProcess, ChangedProcess DEF TryUpdate, StateOK, IInv
  <2> QED
    BY <1>13, <2>1 DEF TryUpdate, settingVars, StateOK, IInv
<1>14. ASSUME NEW p \in Procs, DownloadFile(p) PROVE StateOK'
  BY <1>14 DEF DownloadFile, updating, at, step, giveUp, settingVars, StateOK, Processes, Boot, Updating, Files, JobRows, IInv, FilesInv
<1>15. ASSUME NEW p \in Procs, VerifyChecksum(p) PROVE StateOK'
  BY <1>15 DEF VerifyChecksum, updating, at, step, giveUp, settingVars, StateOK, Processes, Boot, Updating, Files, JobRows, IInv, FilesInv
<1>16. ASSUME NEW p \in Procs, NoJobs(p) PROVE StateOK'
  BY <1>16 DEF NoJobs, updating, at, step, active, settingVars, StateOK, Processes, Boot, Updating, Files, JobRows, IInv, FilesInv
<1>17. ASSUME NEW p \in Procs, MoveAside(p) PROVE StateOK'
  <2> DEFINE m == moved("exe", "old")
  <2>1. m \in [Procs -> Processes]
    BY MovedEffect DEF IInv
  <2> HIDE DEF m
  <2>2. \A q \in {m, proc}, u \in {"idle"} \cup Updating : [q[p] EXCEPT !.upd = u] \in Processes
    BY <2>1, ChangedProcess DEF Updating, StateOK, IInv
  <2>3. \E q \in {m, proc}, u \in {"idle"} \cup Updating : proc' = [q EXCEPT ![p].upd = u]
    BY <1>17 DEF MoveAside, step, Updating, m
  <2>4. proc' \in [Procs -> Processes]
    BY <2>1, <2>2, <2>3 DEF StateOK, IInv
  <2>5. disk' \in [exe : Files, old : Files, new : Files]
    BY <1>17 DEF MoveAside, Files, StateOK, IInv
  <2> QED
    BY <1>17, <2>4, <2>5 DEF MoveAside, settingVars, StateOK, IInv
<1>18. ASSUME NEW p \in Procs, Place(p) PROVE StateOK'
  <2> DEFINE m == moved("old", "exe")
  <2>1. m \in [Procs -> Processes]
    BY MovedEffect DEF IInv
  <2> HIDE DEF m
  <2>2. \A q \in {m, proc}, u \in {"idle"} \cup Updating : [q[p] EXCEPT !.upd = u] \in Processes
    BY <2>1, ChangedProcess DEF Updating, StateOK, IInv
  <2>3. \E q \in {m, proc}, u \in {"idle"} \cup Updating : proc' = [q EXCEPT ![p].upd = u]
    BY <1>18 DEF Place, step, giveUp, Updating, m
  <2>4. proc' \in [Procs -> Processes]
    BY <2>1, <2>2, <2>3 DEF StateOK, IInv
  <2>5. disk' \in [exe : Files, old : Files, new : Files]
    <3>1. disk \in [exe : Files, old : Files, new : Files] /\ Missing \in Files
      BY DEF Files, StateOK, IInv
    <3>2. /\ [disk EXCEPT !.exe = disk.new, !.new = Missing] \in [exe : Files, old : Files, new : Files]
          /\ [disk EXCEPT !.new = Missing] \in [exe : Files, old : Files, new : Files]
          /\ [exe |-> disk.old, old |-> Missing, new |-> Missing] \in [exe : Files, old : Files, new : Files]
      BY <3>1
    <3> QED
      BY <1>18, <3>2 DEF Place, giveUp
  <2> QED
    BY <1>18, <2>4, <2>5 DEF Place, settingVars, StateOK, IInv
<1>19. ASSUME NEW p \in Procs, Exit(p) PROVE StateOK'
  <2>1. proc' \in [Procs -> Processes]
    BY <1>19, DownIsProcess, ChangedProcess DEF Exit, StateOK, IInv
  <2>2. rows' \in [CopyJobs -> JobRows \cup {Missing}]
    BY <1>19, AbandonedEffect DEF Exit, IInv
  <2> QED
    BY <1>19, <2>1, <2>2 DEF Exit, settingVars, StateOK, IInv
<1>20. ASSUME NEW j \in CopyJobs, FinishJob(j) PROVE StateOK'
  BY <1>20 DEF FinishJob, alive, settingVars, StateOK, Processes, Boot, Updating, Files, JobRows, IInv, FilesInv
<1>21. ASSUME Release PROVE StateOK'
  BY <1>21 DEF Release, spend, settingVars, StateOK, Processes, Boot, Updating, Files, JobRows, IInv, FilesInv
<1>22. CASE UNCHANGED serviceVars
  BY <1>22 DEF serviceVars, StateOK, Processes, Boot, Updating, Files, JobRows, IInv, FilesInv
<1> QED
  BY <1>1, <1>2, <1>3, <1>4, <1>5, <1>6, <1>7, <1>8, <1>9, <1>10, <1>11, <1>12, <1>13, <1>14, <1>15, <1>16, <1>17, <1>18, <1>19, <1>20, <1>21, <1>22 DEF ServiceNext, BootStep, UpdateStep

\* Every step keeps the processes in order.
LEMMA ProcStep == IInv /\ [ServiceNext]_serviceVars => ProcInv'
<1> SUFFICES ASSUME IInv, [ServiceNext]_serviceVars PROVE ProcInv'
  OBVIOUS
<1>1. ASSUME NEW p \in Procs, Start(p) PROVE ProcInv'
  BY <1>1 DEF Start, Down, spend, settingVars, ProcInv, FilesInv, StateOK, Processes, Boot, IInv, Updating, Files
<1>2. ASSUME NEW p \in Procs, Die(p) PROVE ProcInv'
  BY <1>2, GoneEffect DEF ProcInv, IInv
<1>3. ASSUME NEW p \in Procs, Fail(p) PROVE ProcInv'
  BY <1>3, GoneEffect DEF ProcInv, IInv
<1>4. ASSUME NEW p \in Procs, Recover(p) PROVE ProcInv'
  BY <1>4 DEF Recover, at, goto, inUse, settingVars, ProcInv, FilesInv, StateOK, Processes, Boot, IInv, Updating, Files
<1>5. ASSUME NEW p \in Procs, SeedRead(p) PROVE ProcInv'
  BY <1>5 DEF SeedRead, at, goto, settingVars, ProcInv, FilesInv, StateOK, Processes, Boot, IInv, Updating, Files
<1>6. ASSUME NEW p \in Procs, SeedToken(p) PROVE ProcInv'
  BY <1>6 DEF SeedToken, at, goto, settingVars, ProcInv, FilesInv, StateOK, Processes, Boot, IInv, Updating, Files
<1>7. ASSUME NEW p \in Procs, SeedSource(p) PROVE ProcInv'
  BY <1>7 DEF SeedSource, at, goto, settingVars, ProcInv, FilesInv, StateOK, Processes, Boot, IInv, Updating, Files
<1>8. ASSUME NEW p \in Procs, Sweep(p) PROVE ProcInv'
  BY <1>8, SweepEffect DEF ProcInv, IInv
<1>9. ASSUME NEW p \in Procs, Bind(p) PROVE ProcInv'
  BY <1>9 DEF Bind, at, ended, Down, settingVars, ProcInv, FilesInv, StateOK, Processes, Boot, IInv, Updating, Files
<1>10. ASSUME NEW p \in Procs, Admit(p) PROVE ProcInv'
  BY <1>10 DEF Admit, at, Updating, settingVars, ProcInv, FilesInv, StateOK, Processes, Boot, IInv, Files
<1>11. ASSUME NEW p \in Procs, PutToken(p) PROVE ProcInv'
  BY <1>11 DEF PutToken, at, spend, settingVars, ProcInv, FilesInv, StateOK, Processes, Boot, IInv, Updating, Files
<1>12. ASSUME NEW p \in Procs, PutSource(p) PROVE ProcInv'
  BY <1>12 DEF PutSource, at, settingVars, ProcInv, FilesInv, StateOK, Processes, Boot, IInv, Updating, Files
<1>13. ASSUME NEW p \in Procs, TryUpdate(p) PROVE ProcInv'
  BY <1>13 DEF TryUpdate, updating, at, settingVars, ProcInv, FilesInv, StateOK, Processes, Boot, IInv, Updating, Files
<1>14. ASSUME NEW p \in Procs, DownloadFile(p) PROVE ProcInv'
  BY <1>14 DEF DownloadFile, updating, at, step, giveUp, settingVars, ProcInv, FilesInv, StateOK, Processes, Boot, IInv, Updating, Files
<1>15. ASSUME NEW p \in Procs, VerifyChecksum(p) PROVE ProcInv'
  BY <1>15 DEF VerifyChecksum, updating, at, step, giveUp, settingVars, ProcInv, FilesInv, StateOK, Processes, Boot, IInv, Updating, Files
<1>16. ASSUME NEW p \in Procs, NoJobs(p) PROVE ProcInv'
  BY <1>16 DEF NoJobs, updating, at, step, active, settingVars, ProcInv, FilesInv, StateOK, Processes, Boot, IInv, Updating, Files
<1>17. ASSUME NEW p \in Procs, MoveAside(p) PROVE ProcInv'
  BY <1>17, MoveAsideEffect DEF ProcInv, FilesInv, IInv
<1>18. ASSUME NEW p \in Procs, Place(p) PROVE ProcInv'
  BY <1>18, PlaceEffect DEF ProcInv, FilesInv, IInv
<1>19. ASSUME NEW p \in Procs, Exit(p) PROVE ProcInv'
  BY <1>19, GoneEffect DEF ProcInv, IInv
<1>20. ASSUME NEW j \in CopyJobs, FinishJob(j) PROVE ProcInv'
  BY <1>20 DEF FinishJob, alive, settingVars, ProcInv, FilesInv, StateOK, Processes, Boot, IInv, Updating, Files
<1>21. ASSUME Release PROVE ProcInv'
  BY <1>21 DEF Release, spend, settingVars, ProcInv, FilesInv, StateOK, Processes, Boot, IInv, Updating, Files
<1>22. CASE UNCHANGED serviceVars
  BY <1>22 DEF serviceVars, ProcInv, FilesInv, StateOK, Processes, Boot, IInv, Updating, Files
<1> QED
  BY <1>1, <1>2, <1>3, <1>4, <1>5, <1>6, <1>7, <1>8, <1>9, <1>10, <1>11, <1>12, <1>13, <1>14, <1>15, <1>16, <1>17, <1>18, <1>19, <1>20, <1>21, <1>22 DEF ServiceNext, BootStep, UpdateStep

\* Every step keeps the files in order.
LEMMA FilesStep == IInv /\ [ServiceNext]_serviceVars => FilesInv'
<1> SUFFICES ASSUME IInv, [ServiceNext]_serviceVars PROVE FilesInv'
  OBVIOUS
<1>1. ASSUME NEW p \in Procs, Start(p) PROVE FilesInv'
  BY <1>1, NewerIsAsymmetric DEF Start, Down, spend, settingVars, ProcInv, FilesInv, StateOK, Processes, IInv, Files
<1>2. ASSUME NEW p \in Procs, Die(p) PROVE FilesInv'
  BY <1>2, GoneEffect DEF FilesInv, IInv
<1>3. ASSUME NEW p \in Procs, Fail(p) PROVE FilesInv'
  BY <1>3, GoneEffect DEF FilesInv, IInv
<1>4. ASSUME NEW p \in Procs, Recover(p) PROVE FilesInv'
  BY <1>4, NewerIsAsymmetric DEF Recover, at, goto, inUse, settingVars, ProcInv, FilesInv, StateOK, Processes, IInv, Files
<1>5. ASSUME NEW p \in Procs, SeedRead(p) PROVE FilesInv'
  BY <1>5, NewerIsAsymmetric DEF SeedRead, at, goto, settingVars, ProcInv, FilesInv, StateOK, Processes, IInv, Files
<1>6. ASSUME NEW p \in Procs, SeedToken(p) PROVE FilesInv'
  BY <1>6, NewerIsAsymmetric DEF SeedToken, at, goto, settingVars, ProcInv, FilesInv, StateOK, Processes, IInv, Files
<1>7. ASSUME NEW p \in Procs, SeedSource(p) PROVE FilesInv'
  BY <1>7, NewerIsAsymmetric DEF SeedSource, at, goto, settingVars, ProcInv, FilesInv, StateOK, Processes, IInv, Files
<1>8. ASSUME NEW p \in Procs, Sweep(p) PROVE FilesInv'
  BY <1>8, SweepEffect DEF FilesInv, IInv
<1>9. ASSUME NEW p \in Procs, Bind(p) PROVE FilesInv'
  BY <1>9, NewerIsAsymmetric DEF Bind, at, ended, Down, settingVars, ProcInv, FilesInv, StateOK, Processes, IInv, Files
<1>10. ASSUME NEW p \in Procs, Admit(p) PROVE FilesInv'
  BY <1>10, NewerIsAsymmetric DEF Admit, at, Updating, settingVars, ProcInv, FilesInv, StateOK, Processes, IInv, Files
<1>11. ASSUME NEW p \in Procs, PutToken(p) PROVE FilesInv'
  BY <1>11, NewerIsAsymmetric DEF PutToken, at, spend, settingVars, ProcInv, FilesInv, StateOK, Processes, IInv, Files
<1>12. ASSUME NEW p \in Procs, PutSource(p) PROVE FilesInv'
  BY <1>12, NewerIsAsymmetric DEF PutSource, at, settingVars, ProcInv, FilesInv, StateOK, Processes, IInv, Files
<1>13. ASSUME NEW p \in Procs, TryUpdate(p) PROVE FilesInv'
  BY <1>13, NewerIsAsymmetric DEF TryUpdate, updating, at, settingVars, ProcInv, FilesInv, StateOK, Processes, IInv, Files
<1>14. ASSUME NEW p \in Procs, DownloadFile(p) PROVE FilesInv'
  BY <1>14, NewerIsAsymmetric DEF DownloadFile, updating, at, step, giveUp, settingVars, ProcInv, FilesInv, StateOK, Processes, IInv, Files
<1>15. ASSUME NEW p \in Procs, VerifyChecksum(p) PROVE FilesInv'
  BY <1>15, NewerIsAsymmetric DEF VerifyChecksum, updating, at, step, giveUp, settingVars, ProcInv, FilesInv, StateOK, Processes, IInv, Files
<1>16. ASSUME NEW p \in Procs, NoJobs(p) PROVE FilesInv'
  BY <1>16, NewerIsAsymmetric DEF NoJobs, updating, at, step, active, settingVars, ProcInv, FilesInv, StateOK, Processes, IInv, Files
<1>17. ASSUME NEW p \in Procs, MoveAside(p) PROVE FilesInv'
  <2>1. proc[p].at \in {"exe", "old"}
    BY <1>17, MoveAsideEffect DEF ProcInv, StateOK, Processes, IInv
  <2>2. CASE /\ \A q \in Procs : proc'[q].at = IF proc[q].at = "exe" THEN "old" ELSE proc[q].at
             /\ disk.exe # Missing /\ (inUse("old") => disk.old = Missing)
             /\ disk'.exe = Missing /\ disk'.old = disk.exe
    <3>1. \A q \in Procs : proc[q].at # "old"
      BY <2>2 DEF FilesInv, IInv, inUse
    <3>2. \A q \in Procs : proc'[q].img = proc[q].img
      BY <1>17, MoveAsideEffect DEF IInv
    <3> QED
      BY <2>2, <3>1, <3>2 DEF FilesInv, IInv
  <2>3. CASE /\ \A q \in Procs : proc'[q].at = proc[q].at
             /\ disk'.exe = disk.exe
             /\ disk'.old = IF inUse("old") THEN disk.old ELSE Missing
             /\ disk.exe = Missing \/ inUse("old")
    <3>1. inUse("old")
      BY <2>1, <2>3 DEF FilesInv, IInv, inUse
    <3>2. \A q \in Procs : proc'[q].img = proc[q].img
      BY <1>17, MoveAsideEffect DEF IInv
    <3> QED
      BY <2>3, <3>1, <3>2 DEF FilesInv, IInv
  <2> QED
    BY <1>17, <2>2, <2>3, MoveAsideEffect DEF IInv
<1>18. ASSUME NEW p \in Procs, Place(p) PROVE FilesInv'
  <2>1. /\ proc[p].at = "old" /\ disk.exe = Missing /\ disk.old \in Versions
        /\ disk.new \in Versions /\ ~newerThan(disk.old, disk.new)
    <3>1. proc[p].upd = "place" /\ proc[p].pc = "serve" /\ proc[p].at \in {"exe", "old", "none"}
      BY <1>18, PlaceEffect DEF StateOK, Processes, IInv
    <3>2. /\ disk.exe = Missing /\ disk.new = proc[p].ver /\ proc[p].ver \in Versions
          /\ newerThan(proc[p].ver, proc[p].img) /\ proc[p].img \in Versions /\ proc[p].at # "none"
      BY <3>1 DEF ProcInv, IInv
    <3>3. proc[p].at = "old" /\ disk.old = proc[p].img
      BY <3>1, <3>2 DEF FilesInv, IInv
    <3> QED
      BY <3>2, <3>3, NewerIsAsymmetric
  <2>2. Missing \notin Versions
    BY ReleasesAssumption DEF Versions
  <2>3. \A q \in Procs : proc'[q].img = proc[q].img
    BY <1>18, PlaceEffect DEF IInv
  <2>4. \A q \in Procs : proc[q].at # "exe"
    BY <2>1 DEF FilesInv, IInv
  <2>5. CASE /\ \A q \in Procs : proc'[q].at = proc[q].at
             /\ disk'.exe = disk.new /\ disk'.old = disk.old
    BY <2>1, <2>2, <2>3, <2>4, <2>5 DEF FilesInv, IInv
  <2>6. CASE /\ \A q \in Procs : proc'[q].at = IF proc[q].at = "old" THEN "exe" ELSE proc[q].at
             /\ disk'.exe = disk.old /\ disk'.old = Missing
    BY <2>1, <2>2, <2>3, <2>4, <2>6 DEF FilesInv, IInv
  <2>7. CASE /\ \A q \in Procs : proc'[q].at = proc[q].at
             /\ disk'.exe = disk.exe /\ disk'.old = disk.old
    BY <2>1, <2>3, <2>4, <2>7 DEF FilesInv, IInv
  <2> QED
    BY <1>18, <2>5, <2>6, <2>7, PlaceEffect DEF IInv
<1>19. ASSUME NEW p \in Procs, Exit(p) PROVE FilesInv'
  BY <1>19, GoneEffect DEF FilesInv, IInv
<1>20. ASSUME NEW j \in CopyJobs, FinishJob(j) PROVE FilesInv'
  BY <1>20, NewerIsAsymmetric DEF FinishJob, alive, settingVars, ProcInv, FilesInv, StateOK, Processes, IInv, Files
<1>21. ASSUME Release PROVE FilesInv'
  BY <1>21, NewerIsAsymmetric DEF Release, spend, settingVars, ProcInv, FilesInv, StateOK, Processes, IInv, Files
<1>22. CASE UNCHANGED serviceVars
  BY <1>22, NewerIsAsymmetric DEF serviceVars, ProcInv, FilesInv, StateOK, Processes, IInv, Files
<1> QED
  BY <1>1, <1>2, <1>3, <1>4, <1>5, <1>6, <1>7, <1>8, <1>9, <1>10, <1>11, <1>12, <1>13, <1>14, <1>15, <1>16, <1>17, <1>18, <1>19, <1>20, <1>21, <1>22 DEF ServiceNext, BootStep, UpdateStep

\* Every step keeps rows and copies in order.
LEMMA RowsStep == IInv /\ [ServiceNext]_serviceVars => RowsInv'
<1> SUFFICES ASSUME IInv, [ServiceNext]_serviceVars PROVE RowsInv'
  OBVIOUS
<1>1. ASSUME NEW p \in Procs, Start(p) PROVE RowsInv'
  <2>1. /\ proc[p].pc = "down" /\ proc'[p].pc = "recover"
        /\ \A q \in Procs : q # p => proc'[q] = proc[q]
        /\ rows' = rows
    BY <1>1 DEF Start, Down, at, StateOK, IInv
  <2> QED
    BY <2>1 DEF RowsInv, StateOK, JobRows, IInv
<1>2. ASSUME NEW p \in Procs, Die(p) PROVE RowsInv'
  BY <1>2, GoneEffect DEF RowsInv, ProcInv, IInv
<1>3. ASSUME NEW p \in Procs, Fail(p) PROVE RowsInv'
  BY <1>3, GoneEffect DEF RowsInv, ProcInv, IInv
<1>4. ASSUME NEW p \in Procs, Recover(p) PROVE RowsInv'
  BY <1>4 DEF Recover, at, goto, inUse, settingVars, RowsInv, ProcInv, StateOK, Processes, JobRows, IInv, Boot
<1>5. ASSUME NEW p \in Procs, SeedRead(p) PROVE RowsInv'
  BY <1>5 DEF SeedRead, at, goto, settingVars, RowsInv, ProcInv, StateOK, Processes, JobRows, IInv, Boot
<1>6. ASSUME NEW p \in Procs, SeedToken(p) PROVE RowsInv'
  BY <1>6 DEF SeedToken, at, goto, settingVars, RowsInv, ProcInv, StateOK, Processes, JobRows, IInv, Boot
<1>7. ASSUME NEW p \in Procs, SeedSource(p) PROVE RowsInv'
  BY <1>7 DEF SeedSource, at, goto, settingVars, RowsInv, ProcInv, StateOK, Processes, JobRows, IInv, Boot
<1>8. ASSUME NEW p \in Procs, Sweep(p) PROVE RowsInv'
  BY <1>8, SweepEffect DEF RowsInv, ProcInv, StateOK, JobRows, IInv
<1>9. ASSUME NEW p \in Procs, Bind(p) PROVE RowsInv'
  BY <1>9 DEF Bind, at, ended, Down, settingVars, RowsInv, ProcInv, StateOK, Processes, JobRows, IInv, Boot
<1>10. ASSUME NEW p \in Procs, Admit(p) PROVE RowsInv'
  BY <1>10 DEF Admit, at, Updating, settingVars, RowsInv, ProcInv, StateOK, Processes, JobRows, IInv, Boot
<1>11. ASSUME NEW p \in Procs, PutToken(p) PROVE RowsInv'
  BY <1>11 DEF PutToken, at, spend, settingVars, RowsInv, ProcInv, StateOK, Processes, JobRows, IInv, Boot
<1>12. ASSUME NEW p \in Procs, PutSource(p) PROVE RowsInv'
  BY <1>12 DEF PutSource, at, settingVars, RowsInv, ProcInv, StateOK, Processes, JobRows, IInv, Boot
<1>13. ASSUME NEW p \in Procs, TryUpdate(p) PROVE RowsInv'
  BY <1>13 DEF TryUpdate, updating, at, settingVars, RowsInv, ProcInv, StateOK, Processes, JobRows, IInv, Boot
<1>14. ASSUME NEW p \in Procs, DownloadFile(p) PROVE RowsInv'
  BY <1>14 DEF DownloadFile, updating, at, step, giveUp, settingVars, RowsInv, ProcInv, StateOK, Processes, JobRows, IInv, Boot
<1>15. ASSUME NEW p \in Procs, VerifyChecksum(p) PROVE RowsInv'
  BY <1>15 DEF VerifyChecksum, updating, at, step, giveUp, settingVars, RowsInv, ProcInv, StateOK, Processes, JobRows, IInv, Boot
<1>16. ASSUME NEW p \in Procs, NoJobs(p) PROVE RowsInv'
  BY <1>16 DEF NoJobs, updating, at, step, active, settingVars, RowsInv, ProcInv, StateOK, Processes, JobRows, IInv, Boot
<1>17. ASSUME NEW p \in Procs, MoveAside(p) PROVE RowsInv'
  BY <1>17, MoveAsideEffect DEF MoveAside, RowsInv, StateOK, JobRows, IInv
<1>18. ASSUME NEW p \in Procs, Place(p) PROVE RowsInv'
  BY <1>18, PlaceEffect DEF Place, RowsInv, StateOK, JobRows, IInv
<1>19. ASSUME NEW p \in Procs, Exit(p) PROVE RowsInv'
  BY <1>19, GoneEffect DEF RowsInv, ProcInv, IInv
<1>20. ASSUME NEW j \in CopyJobs, FinishJob(j) PROVE RowsInv'
  BY <1>20 DEF FinishJob, alive, settingVars, RowsInv, ProcInv, StateOK, Processes, JobRows, IInv, Boot
<1>21. ASSUME Release PROVE RowsInv'
  BY <1>21 DEF Release, spend, settingVars, RowsInv, ProcInv, StateOK, Processes, JobRows, IInv, Boot
<1>22. CASE UNCHANGED serviceVars
  BY <1>22 DEF serviceVars, RowsInv, ProcInv, StateOK, Processes, JobRows, IInv, Boot
<1> QED
  BY <1>1, <1>2, <1>3, <1>4, <1>5, <1>6, <1>7, <1>8, <1>9, <1>10, <1>11, <1>12, <1>13, <1>14, <1>15, <1>16, <1>17, <1>18, <1>19, <1>20, <1>21, <1>22 DEF ServiceNext, BootStep, UpdateStep

\* No step kills a copy the updater counted.
LEMMA SparesStep == IInv /\ [ServiceNext]_serviceVars => UpdateSparesCountedJobs'
<1> SUFFICES ASSUME IInv, [ServiceNext]_serviceVars PROVE UpdateSparesCountedJobs'
  OBVIOUS
<1>1. ASSUME NEW p \in Procs, Start(p) PROVE UpdateSparesCountedJobs'
  BY <1>1 DEF Start, Down, spend, settingVars, UpdateSparesCountedJobs, RowsInv, ProcInv, StateOK, Processes, JobRows, IInv, Updating, alive
<1>2. ASSUME NEW p \in Procs, Die(p) PROVE UpdateSparesCountedJobs'
  BY <1>2, GoneEffect DEF UpdateSparesCountedJobs, Updating, alive, IInv
<1>3. ASSUME NEW p \in Procs, Fail(p) PROVE UpdateSparesCountedJobs'
  BY <1>3, GoneEffect DEF UpdateSparesCountedJobs, Updating, alive, IInv
<1>4. ASSUME NEW p \in Procs, Recover(p) PROVE UpdateSparesCountedJobs'
  BY <1>4 DEF Recover, at, goto, inUse, settingVars, UpdateSparesCountedJobs, RowsInv, ProcInv, StateOK, Processes, JobRows, IInv, Updating, alive
<1>5. ASSUME NEW p \in Procs, SeedRead(p) PROVE UpdateSparesCountedJobs'
  BY <1>5 DEF SeedRead, at, goto, settingVars, UpdateSparesCountedJobs, RowsInv, ProcInv, StateOK, Processes, JobRows, IInv, Updating, alive
<1>6. ASSUME NEW p \in Procs, SeedToken(p) PROVE UpdateSparesCountedJobs'
  BY <1>6 DEF SeedToken, at, goto, settingVars, UpdateSparesCountedJobs, RowsInv, ProcInv, StateOK, Processes, JobRows, IInv, Updating, alive
<1>7. ASSUME NEW p \in Procs, SeedSource(p) PROVE UpdateSparesCountedJobs'
  BY <1>7 DEF SeedSource, at, goto, settingVars, UpdateSparesCountedJobs, RowsInv, ProcInv, StateOK, Processes, JobRows, IInv, Updating, alive
<1>8. ASSUME NEW p \in Procs, Sweep(p) PROVE UpdateSparesCountedJobs'
  BY <1>8, SweepEffect DEF UpdateSparesCountedJobs, RowsInv, ProcInv, StateOK, JobRows, Updating, alive, IInv
<1>9. ASSUME NEW p \in Procs, Bind(p) PROVE UpdateSparesCountedJobs'
  BY <1>9 DEF Bind, at, ended, Down, settingVars, UpdateSparesCountedJobs, RowsInv, ProcInv, StateOK, Processes, JobRows, IInv, Updating, alive
<1>10. ASSUME NEW p \in Procs, Admit(p) PROVE UpdateSparesCountedJobs'
  <2>1. proc' = proc
    BY <1>10 DEF Admit
  <2> QED
    BY <1>10, <2>1, AdmitEffect DEF UpdateSparesCountedJobs, alive, IInv
<1>11. ASSUME NEW p \in Procs, PutToken(p) PROVE UpdateSparesCountedJobs'
  BY <1>11 DEF PutToken, at, spend, settingVars, UpdateSparesCountedJobs, RowsInv, ProcInv, StateOK, Processes, JobRows, IInv, Updating, alive
<1>12. ASSUME NEW p \in Procs, PutSource(p) PROVE UpdateSparesCountedJobs'
  BY <1>12 DEF PutSource, at, settingVars, UpdateSparesCountedJobs, RowsInv, ProcInv, StateOK, Processes, JobRows, IInv, Updating, alive
<1>13. ASSUME NEW p \in Procs, TryUpdate(p) PROVE UpdateSparesCountedJobs'
  BY <1>13 DEF TryUpdate, updating, at, settingVars, UpdateSparesCountedJobs, RowsInv, ProcInv, StateOK, Processes, JobRows, IInv, Updating, alive
<1>14. ASSUME NEW p \in Procs, DownloadFile(p) PROVE UpdateSparesCountedJobs'
  BY <1>14 DEF DownloadFile, updating, at, step, giveUp, settingVars, UpdateSparesCountedJobs, RowsInv, ProcInv, StateOK, Processes, JobRows, IInv, Updating, alive
<1>15. ASSUME NEW p \in Procs, VerifyChecksum(p) PROVE UpdateSparesCountedJobs'
  BY <1>15 DEF VerifyChecksum, updating, at, step, giveUp, settingVars, UpdateSparesCountedJobs, RowsInv, ProcInv, StateOK, Processes, JobRows, IInv, Updating, alive
<1>16. ASSUME NEW p \in Procs, NoJobs(p) PROVE UpdateSparesCountedJobs'
  BY <1>16 DEF NoJobs, updating, at, step, active, settingVars, UpdateSparesCountedJobs, RowsInv, ProcInv, StateOK, Processes, JobRows, IInv, Updating, alive
<1>17. ASSUME NEW p \in Procs, MoveAside(p) PROVE UpdateSparesCountedJobs'
  BY <1>17, MoveAsideEffect DEF MoveAside, UpdateSparesCountedJobs, Updating, alive, IInv
<1>18. ASSUME NEW p \in Procs, Place(p) PROVE UpdateSparesCountedJobs'
  BY <1>18, PlaceEffect DEF Place, UpdateSparesCountedJobs, Updating, alive, IInv
<1>19. ASSUME NEW p \in Procs, Exit(p) PROVE UpdateSparesCountedJobs'
  BY <1>19, GoneEffect DEF UpdateSparesCountedJobs, Updating, alive, IInv
<1>20. ASSUME NEW j \in CopyJobs, FinishJob(j) PROVE UpdateSparesCountedJobs'
  BY <1>20 DEF FinishJob, alive, settingVars, UpdateSparesCountedJobs, RowsInv, ProcInv, StateOK, Processes, JobRows, IInv, Updating
<1>21. ASSUME Release PROVE UpdateSparesCountedJobs'
  BY <1>21 DEF Release, spend, settingVars, UpdateSparesCountedJobs, RowsInv, ProcInv, StateOK, Processes, JobRows, IInv, Updating, alive
<1>22. CASE UNCHANGED serviceVars
  BY <1>22 DEF serviceVars, UpdateSparesCountedJobs, RowsInv, ProcInv, StateOK, Processes, JobRows, IInv, Updating, alive
<1> QED
  BY <1>1, <1>2, <1>3, <1>4, <1>5, <1>6, <1>7, <1>8, <1>9, <1>10, <1>11, <1>12, <1>13, <1>14, <1>15, <1>16, <1>17, <1>18, <1>19, <1>20, <1>21, <1>22 DEF ServiceNext, BootStep, UpdateStep

\* No step loses a saved token.
LEMMA TokenStep == IInv /\ [ServiceNext]_serviceVars => TokenInv'
<1> SUFFICES ASSUME IInv, [ServiceNext]_serviceVars PROVE TokenInv'
  OBVIOUS
<1>1. ASSUME NEW p \in Procs, Start(p) PROVE TokenInv'
  BY <1>1 DEF Start, Down, spend, settingVars, TokenInv, ProcInv, StateOK, Processes, IInv
<1>2. ASSUME NEW p \in Procs, Die(p) PROVE TokenInv'
  BY <1>2, GoneEffect DEF settingVars, TokenInv, IInv
<1>3. ASSUME NEW p \in Procs, Fail(p) PROVE TokenInv'
  BY <1>3, GoneEffect DEF settingVars, TokenInv, IInv
<1>4. ASSUME NEW p \in Procs, Recover(p) PROVE TokenInv'
  BY <1>4 DEF Recover, at, goto, inUse, settingVars, TokenInv, ProcInv, StateOK, Processes, IInv
<1>5. ASSUME NEW p \in Procs, SeedRead(p) PROVE TokenInv'
  BY <1>5 DEF SeedRead, at, goto, settingVars, TokenInv, ProcInv, StateOK, Processes, IInv
<1>6. ASSUME NEW p \in Procs, SeedToken(p) PROVE TokenInv'
  <2>1. /\ proc[p].pc = "seedToken" /\ UNCHANGED saved
        /\ outrun' = (outrun \/ \E q \in Procs : proc[q].put)
    BY <1>6 DEF SeedToken, at
  <2>2. \A q \in Procs : proc'[q].put = proc[q].put
    BY <1>6 DEF SeedToken, goto, StateOK, Processes, IInv
  <2>3. CASE outrun'
    BY <2>3 DEF TokenInv
  <2>4. CASE ~outrun'
    <3>1. ~outrun /\ \A q \in Procs : ~proc[q].put
      BY <2>1, <2>4
    <3>2. ~saved
      BY <2>1, <3>1 DEF TokenInv, IInv
    <3> QED
      BY <2>1, <2>2, <3>1, <3>2 DEF TokenInv
  <2> QED
    BY <2>3, <2>4
<1>7. ASSUME NEW p \in Procs, SeedSource(p) PROVE TokenInv'
  BY <1>7 DEF SeedSource, at, goto, settingVars, TokenInv, ProcInv, StateOK, Processes, IInv
<1>8. ASSUME NEW p \in Procs, Sweep(p) PROVE TokenInv'
  BY <1>8, SweepEffect DEF settingVars, TokenInv, IInv
<1>9. ASSUME NEW p \in Procs, Bind(p) PROVE TokenInv'
  BY <1>9 DEF Bind, at, ended, Down, settingVars, TokenInv, ProcInv, StateOK, Processes, IInv
<1>10. ASSUME NEW p \in Procs, Admit(p) PROVE TokenInv'
  BY <1>10 DEF Admit, at, Updating, settingVars, TokenInv, ProcInv, StateOK, Processes, IInv
<1>11. ASSUME NEW p \in Procs, PutToken(p) PROVE TokenInv'
  BY <1>11 DEF PutToken, at, spend, settingVars, TokenInv, ProcInv, StateOK, Processes, IInv
<1>12. ASSUME NEW p \in Procs, PutSource(p) PROVE TokenInv'
  BY <1>12 DEF PutSource, at, settingVars, TokenInv, ProcInv, StateOK, Processes, IInv
<1>13. ASSUME NEW p \in Procs, TryUpdate(p) PROVE TokenInv'
  BY <1>13 DEF TryUpdate, updating, at, settingVars, TokenInv, ProcInv, StateOK, Processes, IInv
<1>14. ASSUME NEW p \in Procs, DownloadFile(p) PROVE TokenInv'
  BY <1>14 DEF DownloadFile, updating, at, step, giveUp, settingVars, TokenInv, ProcInv, StateOK, Processes, IInv
<1>15. ASSUME NEW p \in Procs, VerifyChecksum(p) PROVE TokenInv'
  BY <1>15 DEF VerifyChecksum, updating, at, step, giveUp, settingVars, TokenInv, ProcInv, StateOK, Processes, IInv
<1>16. ASSUME NEW p \in Procs, NoJobs(p) PROVE TokenInv'
  BY <1>16 DEF NoJobs, updating, at, step, active, settingVars, TokenInv, ProcInv, StateOK, Processes, IInv
<1>17. ASSUME NEW p \in Procs, MoveAside(p) PROVE TokenInv'
  BY <1>17, MoveAsideEffect DEF MoveAside, settingVars, TokenInv, IInv
<1>18. ASSUME NEW p \in Procs, Place(p) PROVE TokenInv'
  BY <1>18, PlaceEffect DEF Place, settingVars, TokenInv, IInv
<1>19. ASSUME NEW p \in Procs, Exit(p) PROVE TokenInv'
  BY <1>19, GoneEffect DEF settingVars, TokenInv, IInv
<1>20. ASSUME NEW j \in CopyJobs, FinishJob(j) PROVE TokenInv'
  BY <1>20 DEF FinishJob, alive, settingVars, TokenInv, ProcInv, StateOK, Processes, IInv
<1>21. ASSUME Release PROVE TokenInv'
  BY <1>21 DEF Release, spend, settingVars, TokenInv, ProcInv, StateOK, Processes, IInv
<1>22. CASE UNCHANGED serviceVars
  BY <1>22 DEF serviceVars, TokenInv, ProcInv, StateOK, Processes, IInv
<1> QED
  BY <1>1, <1>2, <1>3, <1>4, <1>5, <1>6, <1>7, <1>8, <1>9, <1>10, <1>11, <1>12, <1>13, <1>14, <1>15, <1>16, <1>17, <1>18, <1>19, <1>20, <1>21, <1>22 DEF ServiceNext, BootStep, UpdateStep

\* What is spent of the scenario stays a scenario.
LEMMA Spent ==
  ASSUME ServiceTypeOK, NEW what \in {"releases", "launches", "deaths", "saves"}, spend(what)
  PROVE  left' \in [env : BOOLEAN, releases : Nat, launches : Nat, deaths : Nat, saves : Nat]
<1>1. left[what] \in Nat /\ left[what] > 0
  BY DEF spend, ServiceTypeOK
<1>2. left[what] - 1 \in Nat
  BY <1>1
<1> DEFINE n == left[what] - 1
<1>3. left' = [left EXCEPT ![what] = n]
  BY DEF spend
<1> HIDE DEF n
<1>4. n \in Nat
  BY <1>2 DEF n
<1> QED
  BY <1>3, <1>4 DEF ServiceTypeOK

\* No step asks for what the scenario has not left.
LEMMA ScenarioStep == ServiceTypeOK /\ StateOK' /\ [ServiceNext]_serviceVars => ServiceTypeOK'
<1> SUFFICES ASSUME ServiceTypeOK, StateOK', [ServiceNext]_serviceVars PROVE ServiceTypeOK'
  OBVIOUS
<1>1. left' = left \/ \E what \in {"releases", "launches", "deaths", "saves"} : spend(what)
  <2>1. CASE Release
    BY <2>1 DEF Release
  <2>2. ASSUME NEW p \in Procs, Start(p) \/ Die(p) \/ Fail(p) \/ PutToken(p)
        PROVE  left' = left \/ \E what \in {"releases", "launches", "deaths", "saves"} : spend(what)
    BY <2>2 DEF Start, Die, Fail, PutToken
  <2>3. ASSUME NEW p \in Procs, BootStep(p) PROVE left' = left
    <3>1. CASE Recover(p) \/ SeedRead(p) \/ SeedToken(p) \/ SeedSource(p)
      BY <3>1 DEF Recover, SeedRead, SeedToken, SeedSource
    <3>2. CASE Sweep(p)
      BY <3>2, Zenon DEF Sweep
    <3>3. CASE Bind(p)
      BY <3>3, Zenon DEF Bind
    <3> QED
      BY <2>3, <3>1, <3>2, <3>3 DEF BootStep
  <2>4. ASSUME NEW p \in Procs, UpdateStep(p) PROVE left' = left
    BY <2>4 DEF UpdateStep, TryUpdate, DownloadFile, VerifyChecksum, NoJobs, MoveAside, Place, Exit
  <2>5. ASSUME NEW p \in Procs, Admit(p) \/ PutSource(p) PROVE left' = left
    BY <2>5 DEF Admit, PutSource
  <2>6. ASSUME NEW j \in CopyJobs, FinishJob(j) PROVE left' = left
    BY <2>6 DEF FinishJob
  <2>7. CASE UNCHANGED serviceVars
    BY <2>7 DEF serviceVars
  <2> QED
    BY <2>1, <2>2, <2>3, <2>4, <2>5, <2>6, <2>7 DEF ServiceNext
<1>2. left' \in [env : BOOLEAN, releases : Nat, launches : Nat, deaths : Nat, saves : Nat]
  BY <1>1, Spent DEF ServiceTypeOK
<1> QED
  BY <1>2 DEF StateOK, ServiceTypeOK

(***************************************************************************)
(* The theorems.                                                           *)
(***************************************************************************)
\* IInv holds in every reachable state.
THEOREM Inductive == ServiceSpec => []IInv
<1>1. IInv /\ [ServiceNext]_serviceVars => IInv'
  BY TypeStep, ProcStep, FilesStep, RowsStep, SparesStep, TokenStep DEF IInv
<1> QED
  BY <1>1, InitHolds, PTL DEF ServiceSpec

\* The processes, files, settings and rows have the values they may have, and
\* no bound of the scenario is overdrawn.
THEOREM ServiceTyped == ServiceSpec => []ServiceTypeOK
<1>1. ServiceInit => ServiceTypeOK
  BY InitHolds, ScenariosAssumption DEF IInv, StateOK, ServiceInit, ServiceTypeOK
<1>2. IInv => StateOK
  BY DEF IInv
<1> QED
  BY <1>1, <1>2, Inductive, ScenarioStep, PTL DEF ServiceSpec

\* However processes die, swap and boot, there is an executable under its name
\* or beside it.
THEOREM BinaryNeverLost == ServiceSpec => []NoBinaryLost
<1>1. IInv => NoBinaryLost
  BY DEF IInv, FilesInv, NoBinaryLost
<1> QED
  BY <1>1, Inductive, PTL

\* What stands under the program's name is a published version, no older than
\* any that runs, whatever is published, withdrawn or damaged on the way.
THEOREM NoDowngrade == ServiceSpec => []NeverDowngrades
<1>1. ASSUME IInv, disk.exe # Missing
      PROVE  disk.exe \in Versions
  BY <1>1 DEF IInv, FilesInv
<1>2. ASSUME IInv, disk.exe # Missing, NEW p \in Procs, ~at(p, "down")
      PROVE  rank(disk.exe) >= rank(proc[p].img)
  <2>1. proc[p].at \in {"exe", "old"}
    BY <1>2 DEF IInv, StateOK, Processes, ProcInv, at
  <2>2. CASE proc[p].at = "exe"
    <3>1. proc[p].img = disk.exe /\ disk.exe \in Versions
      BY <1>2, <2>2 DEF IInv, FilesInv
    <3> QED
      BY <3>1, NewerIsAsymmetric, RankFollowsVersions
  <2>3. CASE proc[p].at = "old"
    <3>1. /\ proc[p].img = disk.old /\ disk.old \in Versions /\ disk.exe \in Versions
          /\ ~newerThan(disk.old, disk.exe)
      BY <1>2, <2>3 DEF IInv, FilesInv
    <3> QED
      BY <3>1, RankFollowsVersions
  <2> QED
    BY <2>1, <2>2, <2>3
<1>3. IInv => NeverDowngrades
  BY <1>1, <1>2 DEF NeverDowngrades
<1> QED
  BY <1>3, Inductive, PTL

\* The restart for an update ends no copy that was there when the updater
\* counted, unless a second instance had declared it interrupted.
THEOREM CountedJobsSpared == ServiceSpec => []UpdateSparesCountedJobs
<1>1. IInv => UpdateSparesCountedJobs
  BY DEF IInv
<1> QED
  BY <1>1, Inductive, PTL

\* The environment's token never replaces one the user saved while no process
\* was seeding.
THEOREM UserTokenStays == ServiceSpec => []SavedTokenStays
<1>1. IInv => SavedTokenStays
  BY DEF IInv, TokenInv, SavedTokenStays
<1> QED
  BY <1>1, Inductive, PTL

\* A row says interrupted only of a copy that has ended, or that a second
\* instance found going on.
THEOREM InterruptedHasEnded == ServiceSpec => []InterruptedIsDead
<1>1. IInv => InterruptedIsDead
  BY DEF IInv, RowsInv, InterruptedIsDead, active, at
<1> QED
  BY <1>1, Inductive, PTL
=============================================================================
