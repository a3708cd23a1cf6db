---------------------------- MODULE MCPubSubTree ----------------------------
(* The instance of PubSubTree that TLC checks. *)
EXTENDS PubSubTree

CONSTANTS root, n1, n2, c1, c2, c3

MCTenants == {"public", "ta"}
MCLabels == {"public", "ta", "x", "y", "1", "c1", "c2", "c3", "*", "noscope"}
MCStartsWith == {<<l, l>> : l \in MCLabels}
MCScope == <<"1">>
Chain == [b \in Lower |-> IF b = n1 THEN root ELSE n1]
MCHome == [c \in Clients |-> IF c = c3 THEN root ELSE n2]
MCNameOf == [c \in Clients |->
               <<"ta", CASE c = c1 -> "c1" [] c = c2 -> "c2" [] c = c3 -> "c3">>]
MCTopicsOf == [c \in Clients |-> IF c = c2 THEN {<<"x">>, <<"y">>} ELSE {<<"x">>}]
MCPubTopics == {<<"x">>}
MCScopes == {<<"noscope">>}
Twice == [b \in Lower |-> IF b = n1 THEN 2 ELSE 1]
=============================================================================
