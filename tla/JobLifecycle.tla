---------------------------- MODULE JobLifecycle ----------------------------
(***************************************************************************)
(* What the ingest engine of cardpit promises about a row of the jobs      *)
(* table (store/jobs.go) and the work done for it: at most MaxConcurrent   *)
(* jobs are worked on, only those start to copy or end done, a job that    *)
(* waits can be given up but not done, and what has ended stays so, except *)
(* for a cancellation that overtakes the job or is overtaken by it.        *)
(***************************************************************************)
EXTENDS Naturals, FiniteSets

CONSTANTS
  Jobs,          \* job ids
  MaxConcurrent  \* jobs worked on at the same time

VARIABLES
  status,     \* jobs.status
  slots,      \* jobs worked on: they hold a slot of the semaphore
  taken,      \* jobs a cancel request took from where they waited, their row unwritten
  cancelled,  \* jobs whose cancel request was accepted
  up          \* the process runs

vars == <<status, slots, taken, cancelled, up>>

Ended == {"done", "failed", "cancelled"}
Statuses == {"unused", "awaiting_decision", "pending", "copying"} \cup Ended

Init ==
  /\ status = [j \in Jobs |-> "unused"]
  /\ slots = {} /\ taken = {} /\ cancelled = {}
  /\ up = FALSE

\* A pending job waits. So may a cancelled one: retryBlocked had copied the
\* blocked jobs before the request took it from them.
waits(j) == status[j] = "pending" \/ (status[j] = "cancelled" /\ j \in cancelled)

Move(j, st) == status' = [status EXCEPT ![j] = st] /\ UNCHANGED <<slots, taken, cancelled, up>>

\* A card is attached: a job, or a question first.
Open(j) ==
  /\ up /\ status[j] = "unused"
  /\ \E st \in {"pending", "awaiting_decision"} : Move(j, st)

Answer(j) ==
  /\ up /\ status[j] = "awaiting_decision"
  /\ \E st \in {"pending", "cancelled"} : Move(j, st)

\* Cards are gone before anybody worked on their jobs.
Detach ==
  /\ up
  /\ \E W, Q \in SUBSET (Jobs \ slots) :
       /\ \A j \in W : waits(j)
       /\ \A j \in Q : status[j] = "awaiting_decision"
       /\ status' = [j \in Jobs |-> CASE j \in W -> "failed"
                                      [] j \in Q -> "cancelled"
                                      [] OTHER -> status[j]]
  /\ UNCHANGED <<slots, taken, cancelled, up>>

TakeSlot(j) ==
  /\ up /\ j \notin slots /\ waits(j)
  /\ Cardinality(slots) < MaxConcurrent
  /\ slots' = slots \cup {j}
  /\ UNCHANGED <<status, taken, cancelled, up>>

\* A job that ends cancelled was asked to; one that finds no destination
\* waits again.
Work(j) ==
  /\ up /\ j \in slots
  /\ \/ waits(j) /\ \E st \in {"pending", "copying", "failed"} : Move(j, st)
     \/ status[j] = "copying" /\ \E st \in {"done", "failed"} : Move(j, st)
     \/ status[j] = "cancelled" /\ j \in cancelled /\ Move(j, "done")
     \/ status[j] \in {"pending", "copying"} /\ j \in cancelled /\ Move(j, "cancelled")

\* Nobody stops working on a job that still copies.
GiveSlot(j) ==
  /\ j \in slots /\ status[j] \in Ended \cup {"pending"}
  /\ slots' = slots \ {j}
  /\ UNCHANGED <<status, taken, cancelled, up>>

\* A cancel request reaches a job worked on, or takes one that waits ...
Cancel(j) ==
  /\ up /\ j \notin taken \cup cancelled
  /\ \/ j \in slots /\ cancelled' = cancelled \cup {j} /\ UNCHANGED taken
     \/ /\ j \notin slots /\ status[j] \in {"pending", "awaiting_decision"}
        /\ taken' = taken \cup {j} /\ UNCHANGED cancelled
  /\ UNCHANGED <<status, slots, up>>

\* ... and writes the row, whatever became of the job meanwhile, or fails to.
WriteCancelled(j) ==
  /\ up /\ j \in taken
  /\ taken' = taken \ {j}
  /\ \/ cancelled' = cancelled \cup {j} /\ status' = [status EXCEPT ![j] = "cancelled"]
     \/ UNCHANGED <<cancelled, status>>
  /\ UNCHANGED <<slots, up>>

Stop ==
  /\ up /\ ~up'
  /\ slots' = {} /\ taken' = {}
  /\ UNCHANGED <<status, cancelled>>

\* After a start no job of the process before is active.
Start ==
  /\ ~up /\ up'
  /\ status' = [j \in Jobs |-> CASE status[j] = "copying" -> "failed"
                                 [] status[j] \in {"awaiting_decision", "pending"} -> "cancelled"
                                 [] OTHER -> status[j]]
  /\ UNCHANGED <<slots, taken, cancelled>>

Next ==
  \/ Start \/ Stop \/ Detach
  \/ \E j \in Jobs : \/ Open(j) \/ Answer(j) \/ TakeSlot(j) \/ Work(j) \/ GiveSlot(j)
                     \/ Cancel(j) \/ WriteCancelled(j)

Spec == Init /\ [][Next]_vars
=============================================================================
