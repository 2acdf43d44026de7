------------------------------ MODULE LogRing ------------------------------
(***************************************************************************)
(* The ring of recent log lines (logging.go) behind GET /api/logs, and the *)
(* level set by POST /api/logs/level (diag.go).                            *)
(*                                                                         *)
(* Goroutines log at the same time. A line goes to the file first, if its  *)
(* level is enabled, and then under the mutex of the ring into the ring; a *)
(* line whose writing fails does not get there.                            *)
(***************************************************************************)
EXTENDS Naturals, Sequences

CONSTANTS
  Writers,   \* goroutines that log
  Lines,     \* the lines they log, each once
  LevelOf,   \* the level of each line
  Levels,    \* the levels of the file that may be set
  Limits,    \* limits of a query; 0 is no limit
  Capacity,  \* NewRing's capacity
  Blank      \* an unused place of the buffer; no line under way

ASSUME CapacityAssumption == Capacity \in Nat
ASSUME LinesAssumption ==
  /\ LevelOf \in [Lines -> Nat] /\ Levels \subseteq Nat /\ Limits \subseteq Nat
  /\ Blank \notin Lines

VARIABLES
  buf, next, full,  \* r.buf, r.next, r.full
  level,            \* the level of the file
  pending,          \* per goroutine, a line that is past the file
  logged,           \* lines logged so far
  shown             \* the last answer of GET /api/logs

ringVars == <<buf, next, full, level, pending, logged, shown>>

\* NewRing: at least one place.
Size == IF Capacity < 1 THEN 1 ELSE Capacity

RingTypeOK ==
  /\ buf \in [0..Size - 1 -> Lines \cup {Blank}]
  /\ next \in 0..Size - 1
  /\ full \in BOOLEAN
  /\ level \in Levels
  /\ pending \in [Writers -> Lines \cup {Blank}]
  /\ logged \subseteq Lines
  /\ shown \in Seq(Lines)

RingInit ==
  /\ buf = [i \in 0..Size - 1 |-> Blank]
  /\ next = 0 /\ full = FALSE
  /\ level \in Levels
  /\ pending = [w \in Writers |-> Blank]
  /\ logged = {} /\ shown = <<>>

\* teeHandler.Handle: the JSON handler, if enabled; when it fails Handle
\* returns.
Handle(w) ==
  /\ pending[w] = Blank
  /\ \E r \in Lines \ logged :
       /\ logged' = logged \cup {r}
       /\ \/ pending' = [pending EXCEPT ![w] = r]
          \/ LevelOf[r] >= level /\ UNCHANGED pending
  /\ UNCHANGED <<buf, next, full, level, shown>>

\* Mutant: the index does not wrap.
append_noWrap(w) ==
  /\ pending[w] # Blank
  /\ buf' = [buf EXCEPT ![next] = pending[w]]
  /\ next' = next + 1
  /\ full' = (full \/ next' = Size)
  /\ pending' = [pending EXCEPT ![w] = Blank]
  /\ UNCHANGED <<level, logged, shown>>

\* Ring.append
append(w) ==
  /\ pending[w] # Blank
  /\ buf' = [buf EXCEPT ![next] = pending[w]]
  /\ next' = (next + 1) % Size
  /\ full' = (full \/ next' = 0)
  /\ pending' = [pending EXCEPT ![w] = Blank]
  /\ UNCHANGED <<level, logged, shown>>

handleSetLevel ==
  /\ level' \in Levels
  /\ UNCHANGED <<buf, next, full, pending, logged, shown>>

\* Mutant: the walk starts one place too late.
chronological_shifted ==
  [i \in 1..(IF full THEN Size ELSE next) |->
     buf[IF full THEN (next + i) % Size ELSE i - 1]]

\* The places of the buffer in the order their lines came in.
chronological ==
  [i \in 1..(IF full THEN Size ELSE next) |->
     buf[IF full THEN (next + i - 1) % Size ELSE i - 1]]

\* The loop over them: out after each place.
selected(s, min) ==
  LET out[i \in 0..Len(s)] ==
        IF i = 0 THEN <<>>
        ELSE IF LevelOf[s[i]] < min THEN out[i - 1] ELSE Append(out[i - 1], s[i])
  IN out[Len(s)]

Snapshot(limit, min) ==
  LET out == selected(chronological, min)
  IN IF limit > 0 /\ Len(out) > limit THEN SubSeq(out, Len(out) - limit + 1, Len(out)) ELSE out

handleLogs ==
  /\ \E limit \in Limits, r \in Lines : shown' = Snapshot(limit, LevelOf[r])
  /\ UNCHANGED <<buf, next, full, level, pending, logged>>

RingNext == handleSetLevel \/ handleLogs \/ \E w \in Writers : Handle(w) \/ append(w)
RingSpec == RingInit /\ [][RingNext]_ringVars

(***************************************************************************)
(* Properties.                                                             *)
(***************************************************************************)
\* The ring keeps the latest lines in order whatever the indices have wrapped
\* to, and every answer is the latest matching lines of these.
Ideal == INSTANCE LatestLines WITH kept <- chronological, Capacity <- Size
KeepsLatestLines == Ideal!LinesSpec
=============================================================================
