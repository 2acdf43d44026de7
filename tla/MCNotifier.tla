---------------------------- MODULE MCNotifier ----------------------------
(* Instances of Notifier for TLC. *)
EXTENDS Notifier

CONSTANTS c1, c2

NotConfigured == [token |-> FALSE, chats |-> <<>>]
OneChat == [token |-> TRUE, chats |-> <<c1>>]
BothChats == [token |-> TRUE, chats |-> <<c1, c2>>]
NoChat == [token |-> TRUE, chats |-> <<>>]
AllConfigs == {NotConfigured, NoChat, BothChats}
==============================================================================
