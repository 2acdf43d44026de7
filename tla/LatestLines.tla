---------------------------- MODULE LatestLines ----------------------------
(***************************************************************************)
(* What the diagnostics page is promised (logging.go): the latest Capacity *)
(* log lines, oldest first, and of these any number of the latest ones at  *)
(* or above a level.                                                       *)
(***************************************************************************)
EXTENDS Naturals, Sequences

CONSTANTS
  Capacity,  \* lines kept
  Lines,     \* log lines
  LevelOf,   \* their levels
  Limits     \* numbers of lines asked for; 0 is no limit

VARIABLES
  kept,      \* the lines kept, oldest first
  shown      \* the last answer

\* The last n of a sequence.
Latest(s, n) == IF Len(s) > n THEN SubSeq(s, Len(s) - n + 1, Len(s)) ELSE s

LinesInit == kept = <<>> /\ shown = <<>>

Keep(r) ==
  /\ kept' = Latest(Append(kept, r), Capacity)
  /\ UNCHANGED shown

\* The lines that match are picked upward from the places of those kept.
Show(limit, min) ==
  /\ \E picks \in UNION {[1..m -> DOMAIN kept] : m \in 0..Len(kept)} :
       /\ \A i, k \in DOMAIN picks : i < k => picks[i] < picks[k]
       /\ {picks[i] : i \in DOMAIN picks} = {k \in DOMAIN kept : LevelOf[kept[k]] >= min}
       /\ LET matching == [i \in DOMAIN picks |-> kept[picks[i]]]
          IN shown' = IF limit > 0 THEN Latest(matching, limit) ELSE matching
  /\ UNCHANGED kept

LinesNext ==
  \/ \E r \in Lines : Keep(r)
  \/ \E limit \in Limits, r \in Lines : Show(limit, LevelOf[r])

LinesSpec == LinesInit /\ [][LinesNext]_<<kept, shown>>
=============================================================================
