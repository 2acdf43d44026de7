------------------------------ MODULE MCSlots ------------------------------
(* Instances of Slots for TLC. *)
EXTENDS Slots

\* v1 and v2 are two cards; every card has a slot of its own, or all share one.
OwnSlot == [v \in Volumes |-> v]
TwoNames == <<"Davi", "Elias">>
OneName == <<"Davi">>
Fallbacks == <<"Leitor 1", "Leitor 2", "Leitor 3", "Leitor 4", "Leitor 5">>
Both == {"manager", "wizard"}
Wizard == {"wizard"}
==============================================================================
