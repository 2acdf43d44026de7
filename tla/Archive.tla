------------------------------- MODULE Archive -------------------------------
(* What the copy engine of cardpit promises to the photographer: a file that *)
(* reached the archive stays there as it is, the dedup catalogue only lists  *)
(* what the archive holds, and a card is handed back ("you may remove it")   *)
(* only when everything found on it is in the archive.                       *)
EXTENDS Functions, Sequences

CONSTANTS
  Jobs,       \* ingests
  Card,       \* the files each ingest finds on its card, in the order scanned
  ContentOf   \* what each file contains

VARIABLES
  archive,    \* the final files: a partial function from paths to contents
  catalogue,  \* the <<key, content>> pairs the dedup index knows
  released    \* ingests whose card was ejected

vars == <<archive, catalogue, released>>

OnCard(j) == Range(Card[j])

Init == archive = <<>> /\ catalogue = {} /\ released = {}

\* A new file appears; every other one is as before.
Store ==
  /\ DOMAIN archive \subseteq DOMAIN archive'
  /\ \A p \in DOMAIN archive : archive'[p] = archive[p]
  /\ \E p \in DOMAIN archive' :
       p \notin DOMAIN archive /\ DOMAIN archive' = DOMAIN archive \cup {p}
  /\ UNCHANGED <<catalogue, released>>

Catalogue ==
  /\ catalogue \subseteq catalogue'
  /\ \A e \in catalogue' \ catalogue : e[2] \in Range(archive)
  /\ UNCHANGED <<archive, released>>

Release(j) ==
  /\ \A f \in OnCard(j) : ContentOf[f] \in Range(archive)
  /\ released' = released \cup {j}
  /\ UNCHANGED <<archive, catalogue>>

Next == Store \/ Catalogue \/ \E j \in Jobs : Release(j)

Spec == Init /\ [][Next]_vars
=============================================================================
