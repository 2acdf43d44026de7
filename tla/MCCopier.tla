------------------------------ MODULE MCCopier ------------------------------
(* Instances of Copier for TLC.                                             *)
EXTENDS Copier, TLC

CONSTANTS j1, j2, a, b

\* Two files of one name, folder, size and mtime, but of different content: the
\* first is on the card of both jobs, the second on the other's card only (Cards), or each card has
\* one of them (Singles).
Cards    == j1 :> <<a>> @@ j2 :> <<a, b>>
Singles  == j1 :> <<a>> @@ j2 :> <<b>>
OneName  == [f \in Files |-> "n"]
OneKey   == [f \in Files |-> "k"]
Itself   == [f \in Files |-> f]
=============================================================================
