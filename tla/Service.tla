------------------------------ MODULE Service ------------------------------
(***************************************************************************)
(* The life of cardpit's processes: boot (service.go, app.go), the port    *)
(* that only one of them can have (server.go), the seeding of the Telegram *)
(* token (seed.go, handlers.go) and the self-update (update.go, semver.go).*)
(*                                                                         *)
(* The program may run as a Windows service, which the service manager     *)
(* restarts when its process dies, and as a process a user started. All    *)
(* share the database, the port and the executable file. A process may die *)
(* between any two statements.                                             *)
(***************************************************************************)
EXTENDS Naturals, Sequences, FiniteSets

CONSTANTS
  Procs,        \* instances of the program
  Services,     \* those under the service manager
  CopyJobs,     \* rows of the table jobs
  Releases,     \* the published versions, oldest first: <<major, minor, patch>>
  Scenarios,    \* whether TELEGRAM_KEY is set, and the bounds: how often the
                \* latest release changes, the user starts the program, a
                \* process stops or dies, and a token is entered
  Missing       \* no file, no value, no version

ASSUME ProcsAssumption == Services \subseteq Procs
ASSUME ReleasesAssumption ==
  /\ Releases # <<>>
  /\ Releases \in Seq(Nat \X Nat \X Nat)
  /\ Missing \notin {Releases[i] : i \in DOMAIN Releases}
ASSUME OldestFirstAssumption ==
  \A i, j \in DOMAIN Releases : i < j =>
    LET v == Releases[i]  w == Releases[j] IN
      \/ v[1] < w[1]
      \/ v[1] = w[1] /\ v[2] < w[2]
      \/ v[1] = w[1] /\ v[2] = w[2] /\ v[3] < w[3]
ASSUME ScenariosAssumption ==
  Scenarios \subseteq [env : BOOLEAN, releases : Nat, launches : Nat, deaths : Nat, saves : Nat]

VARIABLES
  proc,      \* the processes
  disk,      \* the files cardpit.exe, cardpit.exe.old, cardpit.exe.new
  latest,    \* the version of the latest release
  token,     \* setting telegram_token: from the environment or the user
  source,    \* setting telegram_token_source
  saved,     \* history: the user's token was saved and the API said so
  outrun,    \* history: a save and the seeding of another process overlapped
  rows,      \* table jobs, with the copies behind its rows
  left       \* the scenario, with what is left of its bounds

serviceVars == <<proc, disk, latest, token, source, saved, outrun, rows, left>>

Versions == {Releases[i] : i \in DOMAIN Releases}
Junk == <<>>                       \* a download that is not what was published
Files == Versions \cup {Junk, Missing}
Boot == {"recover", "seed", "seedToken", "seedSource", "sweep", "bind"}
Updating == {"swap", "place", "exit"}

\* at: the file the process runs from; img: the version it runs.
Processes ==
  [pc : Boot \cup {"down", "serve", "zombie"}, img : Versions \cup {Missing},
   at : {"exe", "old", "none"}, upd : {"idle", "fetch", "verify", "wait"} \cup Updating,
   ver : Versions \cup {Missing}, put : BOOLEAN]
\* alive: the goroutine that copies; late: admitted after the updater counted;
\* foreign: ended by the boot of another process.
JobRows == [status : {"active", "ended", "interrupted"}, owner : Procs,
            alive : BOOLEAN, late : BOOLEAN, foreign : BOOLEAN]

ServiceTypeOK ==
  /\ proc \in [Procs -> Processes]
  /\ disk \in [exe : Files, old : Files, new : Files]
  /\ latest \in Versions
  /\ token \in {"env", "user", Missing}
  /\ source \in {"env", "ui", Missing}
  /\ saved \in BOOLEAN /\ outrun \in BOOLEAN
  /\ rows \in [CopyJobs -> JobRows \cup {Missing}]
  /\ left \in [env : BOOLEAN, releases : Nat, launches : Nat, deaths : Nat, saves : Nat]

Down == [pc |-> "down", img |-> Missing, at |-> "none", upd |-> "idle", ver |-> Missing,
         put |-> FALSE]

ServiceInit ==
  /\ proc = [p \in Procs |-> Down]
  /\ disk = [exe |-> Releases[1], old |-> Missing, new |-> Missing]
  /\ latest = Releases[1]
  /\ token = Missing /\ source = Missing
  /\ saved = FALSE /\ outrun = FALSE
  /\ rows = [j \in CopyJobs |-> Missing]
  /\ left \in Scenarios

settingVars == <<token, source, saved, outrun>>
spend(what) == left[what] > 0 /\ left' = [left EXCEPT ![what] = @ - 1]

at(p, pc) == proc[p].pc = pc
goto(p, pc) == proc' = [proc EXCEPT ![p].pc = pc]
active(j) == rows[j] # Missing /\ rows[j].status = "active"
alive(j) == rows[j] # Missing /\ rows[j].alive

\* Windows renames a file a process runs from, and does not delete it.
inUse(f) == \E p \in Procs : proc[p].at = f
moved(from, to) == [p \in Procs |-> IF proc[p].at = from THEN [proc[p] EXCEPT !.at = to] ELSE proc[p]]

(***************************************************************************)
(* Processes come and go.                                                  *)
(***************************************************************************)
\* The service manager starts the service, at boot and whenever its process
\* has died; the user starts the program (cardpit run, cardpit open).
Start(p) ==
  /\ at(p, "down") /\ disk.exe # Missing
  /\ proc' = [proc EXCEPT ![p] = [Down EXCEPT !.pc = "recover", !.img = disk.exe, !.at = "exe"]]
  /\ IF p \in Services THEN UNCHANGED left ELSE spend("launches")
  /\ UNCHANGED <<disk, latest, settingVars, rows>>

\* The copies of a process end with it; the rows they leave are active, or
\* ended if the process stopped in an orderly way.
abandoned(p, orderly) ==
  [j \in CopyJobs |-> IF alive(j) /\ rows[j].owner = p
     THEN [rows[j] EXCEPT !.alive = FALSE,
                          !.status = IF j \in orderly THEN "ended" ELSE @]
     ELSE rows[j]]

\* The process is killed, crashes, or is stopped.
Die(p) ==
  /\ ~at(p, "down") /\ spend("deaths")
  /\ proc' = [proc EXCEPT ![p] = Down]
  /\ \E orderly \in SUBSET CopyJobs : rows' = abandoned(p, orderly)
  /\ UNCHANGED <<disk, latest, settingVars>>

\* What is left of p when runApp returns an error: program.Start only logs
\* it, so the process of a service lives on; an interactive one ends.
ended(p) == IF p \in Services THEN [Down EXCEPT !.pc = "zombie", !.img = proc[p].img, !.at = proc[p].at]
            ELSE Down

\* A component's Run returns an error, or the database cannot be opened:
\* app.Run cancels the others, New and Run return it.
Fail(p) ==
  /\ proc[p].pc \in Boot \cup {"serve"} /\ proc[p].upd \notin Updating /\ spend("deaths")
  /\ proc' = [proc EXCEPT ![p] = ended(p)]
  /\ \E orderly \in SUBSET CopyJobs : rows' = abandoned(p, orderly)
  /\ disk' = IF proc[p].upd = "idle" THEN disk ELSE [disk EXCEPT !.new = Missing]
  /\ UNCHANGED <<latest, settingVars>>

(***************************************************************************)
(* Boot: runApp.                                                           *)
(***************************************************************************)
\* update.Recover
Recover(p) ==
  /\ at(p, "recover")
  /\ disk' = [disk EXCEPT !.old = IF inUse("old") THEN @ ELSE Missing]
  /\ goto(p, "seed")
  /\ UNCHANGED <<latest, settingVars, rows, left>>

\* Mutant: the source "ui" is not looked at.
SeedRead_ignoresUI(p) ==
  /\ at(p, "seed")
  /\ LET byHand == token # Missing /\ source = Missing
         unchanged == token = "env" /\ source = "env"
     IN goto(p, IF ~left.env \/ byHand \/ unchanged THEN "sweep" ELSE "seedToken")
  /\ UNCHANGED <<disk, latest, settingVars, rows, left>>

\* seedTelegramToken, with the token of the environment: the settings are
\* read and the decision is taken...
SeedRead(p) ==
  /\ at(p, "seed")
  /\ LET byHand == source = "ui" \/ (token # Missing /\ source = Missing)
         unchanged == token = "env" /\ source = "env"
     IN goto(p, IF ~left.env \/ byHand \/ unchanged THEN "sweep" ELSE "seedToken")
  /\ UNCHANGED <<disk, latest, settingVars, rows, left>>

\* ...then the token is written, then its source. Either may fail.
SeedToken(p) ==
  /\ at(p, "seedToken")
  /\ \/ token' = "env" /\ goto(p, "seedSource")
     \/ UNCHANGED token /\ goto(p, "sweep")
  /\ outrun' = (outrun \/ \E q \in Procs : proc[q].put)
  /\ UNCHANGED <<disk, latest, source, saved, rows, left>>

SeedSource(p) ==
  /\ at(p, "seedSource")
  /\ source' \in {"env", source}
  /\ goto(p, "sweep")
  /\ UNCHANGED <<disk, latest, token, saved, outrun, rows, left>>

\* Mutant: the rows of the last run are left as they are.
Sweep_nothing(p) == at(p, "sweep") /\ goto(p, "bind") /\ UNCHANGED <<disk, latest, settingVars, rows, left>>

\* Manager.Recover, FailInterrupted: every active row, whoever it belongs to.
Sweep(p) ==
  /\ at(p, "sweep")
  /\ rows' = [j \in CopyJobs |-> IF active(j)
                THEN [rows[j] EXCEPT !.status = "interrupted", !.foreign = rows[j].owner # p]
                ELSE rows[j]]
  /\ goto(p, "bind")
  /\ UNCHANGED <<disk, latest, settingVars, left>>

\* Server.Run: ErrAddrInUse ends the instance that comes second.
Bind(p) ==
  /\ at(p, "bind")
  /\ proc' = [proc EXCEPT ![p] = IF \E q \in Procs : at(q, "serve") THEN ended(p)
                                 ELSE [@ EXCEPT !.pc = "serve"]]
  /\ UNCHANGED <<disk, latest, settingVars, rows, left>>

(***************************************************************************)
(* While it serves: jobs and the user's token.                             *)
(***************************************************************************)
Admit(p) ==
  /\ at(p, "serve")
  /\ \E j \in CopyJobs :
       /\ rows[j] = Missing
       /\ rows' = [rows EXCEPT ![j] = [status |-> "active", owner |-> p, alive |-> TRUE,
                                       late |-> proc[p].upd \in Updating, foreign |-> FALSE]]
  /\ UNCHANGED <<proc, disk, latest, settingVars, left>>

\* The copy ends; its row gets its final status, whatever stands there.
FinishJob(j) ==
  /\ alive(j)
  /\ rows' = [rows EXCEPT ![j].status = "ended", ![j].alive = FALSE]
  /\ UNCHANGED <<proc, disk, latest, settingVars, left>>

\* handlePutSettings with a token: the token, then its source. Without the
\* second write there is no answer 200.
PutToken(p) ==
  /\ at(p, "serve") /\ ~saved /\ ~proc[p].put /\ spend("saves")
  /\ token' = "user"
  /\ outrun' = (outrun \/ \E q \in Procs : proc[q].pc \in {"seedToken", "seedSource"})
  /\ proc' = [proc EXCEPT ![p].put = TRUE]
  /\ UNCHANGED <<disk, latest, source, saved, rows>>

PutSource(p) ==
  /\ at(p, "serve") /\ proc[p].put
  /\ \/ source' = "ui" /\ saved' = TRUE
     \/ UNCHANGED <<source, saved>>
  /\ outrun' = (outrun \/ \E q \in Procs : proc[q].pc \in {"seedToken", "seedSource"})
  /\ proc' = [proc EXCEPT ![p].put = FALSE]
  /\ UNCHANGED <<disk, latest, token, rows, left>>

(***************************************************************************)
(* The updater of a process that serves: tryUpdate, download.              *)
(***************************************************************************)
\* Mutant: a larger part anywhere counts.
newerThan_anyPart(v, o) == v[1] > o[1] \/ v[2] > o[2] \/ v[3] > o[3]

newerThan(v, o) ==
  \/ v[1] > o[1]
  \/ v[1] = o[1] /\ v[2] > o[2]
  \/ v[1] = o[1] /\ v[2] = o[2] /\ v[3] > o[3]

\* A release is published, or withdrawn.
Release ==
  /\ spend("releases")
  /\ latest' \in Versions \ {latest}
  /\ UNCHANGED <<proc, disk, settingVars, rows>>

updating(p, step) == at(p, "serve") /\ proc[p].upd = step
step(p, next) == proc' = [proc EXCEPT ![p].upd = next]
\* download returns; its defer removes cardpit.exe.new.
giveUp(p) ==
  /\ step(p, "idle")
  /\ disk' = [disk EXCEPT !.new = Missing]

\* A check, by hand or once a day (checks that fail or find nothing newer
\* change nothing).
TryUpdate(p) ==
  /\ updating(p, "idle")
  /\ newerThan(latest, proc[p].img)
  /\ proc' = [proc EXCEPT ![p].upd = "fetch", ![p].ver = latest]
  /\ UNCHANGED <<disk, latest, settingVars, rows, left>>

DownloadFile(p) ==
  /\ updating(p, "fetch")
  /\ \/ \E got \in {proc[p].ver, Junk} : disk' = [disk EXCEPT !.new = got] /\ step(p, "verify")
     \/ giveUp(p)
  /\ UNCHANGED <<latest, settingVars, rows, left>>

\* Mutant: the sums never compare equal (upper and lower case).
VerifyChecksum_exact(p) ==
  /\ updating(p, "verify") /\ giveUp(p)
  /\ UNCHANGED <<latest, settingVars, rows, left>>

VerifyChecksum(p) ==
  /\ updating(p, "verify")
  /\ IF disk.new = proc[p].ver THEN step(p, "wait") /\ UNCHANGED disk ELSE giveUp(p)
  /\ UNCHANGED <<latest, settingVars, rows, left>>

\* Mutant: the updater does not wait.
NoJobs_unasked(p) ==
  /\ updating(p, "wait") /\ step(p, "swap")
  /\ UNCHANGED <<disk, latest, settingVars, rows, left>>

NoJobs(p) ==
  /\ updating(p, "wait")
  /\ \A j \in CopyJobs : ~active(j)
  /\ step(p, "swap")
  /\ UNCHANGED <<disk, latest, settingVars, rows, left>>

\* Mutant: the old executable is deleted instead of kept aside.
MoveAside_deletes(p) ==
  /\ updating(p, "swap")
  /\ disk' = [disk EXCEPT !.old = Missing, !.exe = Missing]
  /\ proc' = [moved("exe", "old") EXCEPT ![p].upd = "place"]
  /\ UNCHANGED <<latest, settingVars, rows, left>>

\* os.Remove(.old), os.Rename(exe, .old)
MoveAside(p) ==
  /\ updating(p, "swap")
  /\ LET kept == IF inUse("old") THEN disk.old ELSE Missing
     IN IF disk.exe # Missing /\ kept = Missing
          THEN /\ disk' = [disk EXCEPT !.old = disk.exe, !.exe = Missing]
               /\ proc' = [moved("exe", "old") EXCEPT ![p].upd = "place"]
          ELSE /\ disk' = [disk EXCEPT !.old = kept, !.new = Missing]
               /\ step(p, "idle")
  /\ UNCHANGED <<latest, settingVars, rows, left>>

\* os.Rename(.new, exe), rolled back if it fails; the rollback may fail too.
Place(p) ==
  /\ updating(p, "place")
  /\ \/ /\ disk' = [disk EXCEPT !.exe = disk.new, !.new = Missing]
        /\ step(p, IF p \in Services THEN "exit" ELSE "idle")
     \/ /\ disk' = [exe |-> disk.old, old |-> Missing, new |-> Missing]
        /\ proc' = [moved("old", "exe") EXCEPT ![p].upd = "idle"]
     \/ giveUp(p)
  /\ UNCHANGED <<latest, settingVars, rows, left>>

\* os.Exit(3): the service manager starts the new executable.
Exit(p) ==
  /\ updating(p, "exit")
  /\ proc' = [proc EXCEPT ![p] = Down]
  /\ rows' = abandoned(p, {})
  /\ UNCHANGED <<disk, latest, settingVars, left>>

BootStep(p) == Recover(p) \/ SeedRead(p) \/ SeedToken(p) \/ SeedSource(p) \/ Sweep(p) \/ Bind(p)
UpdateStep(p) ==
  TryUpdate(p) \/ DownloadFile(p) \/ VerifyChecksum(p) \/ NoJobs(p) \/ MoveAside(p) \/ Place(p) \/ Exit(p)

ServiceNext ==
  \/ Release
  \/ \E j \in CopyJobs : FinishJob(j)
  \/ \E p \in Procs : \/ Start(p) \/ Die(p) \/ Fail(p) \/ BootStep(p)
                      \/ Admit(p) \/ PutToken(p) \/ PutSource(p) \/ UpdateStep(p)

ServiceSpec == ServiceInit /\ [][ServiceNext]_serviceVars

\* The service manager restarts the service; no process stands still; a copy
\* ends; checks go on, and not every download or rename fails.
Downloads(p) == DownloadFile(p) /\ disk'.new = proc[p].ver
Places(p) == Place(p) /\ disk'.exe = disk.new
ServiceFairness ==
  /\ \A j \in CopyJobs : WF_serviceVars(FinishJob(j))
  /\ \A p \in Procs : /\ WF_serviceVars(BootStep(p))
                      /\ WF_serviceVars(UpdateStep(p))
                      /\ SF_serviceVars(Downloads(p)) /\ SF_serviceVars(Places(p))
  /\ \A p \in Services : WF_serviceVars(Start(p))
ServiceFairSpec == ServiceSpec /\ ServiceFairness

(***************************************************************************)
(* Properties.                                                             *)
(***************************************************************************)
rank(v) == CHOOSE i \in DOMAIN Releases : Releases[i] = v

\* There is always an executable, under its name or as cardpit.exe.old: a
\* crash between the two renames, a rollback that fails, another instance
\* that boots in between (Recover) never leave neither.
NoBinaryLost == disk.exe # Missing \/ disk.old # Missing

\* What stands under the name of the program is a published version, and not
\* older than one that runs: whatever release comes to be the latest, with an
\* old instance still running or a damaged download (tryUpdate, newerThan).
NeverDowngrades ==
  disk.exe # Missing =>
    /\ disk.exe \in Versions
    /\ \A p \in Procs : ~at(p, "down") => rank(disk.exe) >= rank(proc[p].img)

\* The restart for an update kills no copy but those admitted after the last
\* count found none, and those a second instance declared interrupted while
\* they were going on (download, os.Exit, FailInterrupted).
UpdateSparesCountedJobs ==
  \A p \in Procs, j \in CopyJobs :
    proc[p].upd \in Updating /\ alive(j) /\ rows[j].owner = p =>
      rows[j].late \/ rows[j].foreign

\* A token the user saved is not replaced by that of the environment, on any
\* later boot and whatever was interrupted before, unless another process was
\* seeding at the time (seedTelegramToken).
SavedTokenStays == saved /\ ~outrun => token = "user"

\* A copy that is still going on is not recorded as interrupted, except by
\* the boot of a second instance; and a process that serves finds no row left
\* active by an earlier run of its own (Manager.Recover before everything
\* that runs).
InterruptedIsDead ==
  \A j \in CopyJobs : rows[j] # Missing =>
    /\ rows[j].status = "interrupted" /\ rows[j].alive => rows[j].foreign
    /\ active(j) /\ ~rows[j].alive => ~at(rows[j].owner, "serve")

\* A service that is up again and again installs the latest release, when no
\* row stays active for ever and it runs from the executable in place (a
\* process whose file became .old cannot swap a second time; download's wait,
\* the swap, the restart).
UpdatesArrive ==
  \A p \in Services, v \in Versions :
    /\ <>[](latest = v)
    /\ \A j \in CopyJobs : []<>(~active(j))
    /\ []<>(disk.exe # Missing)
    /\ []<>(at(p, "serve") /\ proc[p].at = "exe")
    => <>(at(p, "serve") /\ rank(proc[p].img) >= rank(v))
=============================================================================
