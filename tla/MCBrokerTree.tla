---------------------------- MODULE MCBrokerTree ----------------------------
(* The instances of BrokerTree that TLC checks. *)
EXTENDS BrokerTree

CONSTANTS root, n1, n2, c1, c2, c3

MCTenants == {"public", "ta"}
MCLabels == {"public", "ta", "x", "y"}
MCStartsWith == {<<l, l>> : l \in MCLabels}

\* root with two brokers below it, or a chain of three
Star == [b \in Lower |-> root]
Chain == [b \in Lower |-> IF b = n1 THEN root ELSE n1]

HomeStar == [c \in Clients |-> CASE c = c1 -> n1 [] c = c2 -> n2 [] c = c3 -> root]
HomeBoth == [c \in Clients |-> IF c = c1 THEN n1 ELSE n2]
HomeChain == [c \in Clients |-> IF c = c1 THEN n2 ELSE root]
SameName == [c \in Clients |-> IF c = c3 THEN <<"ta", "y">> ELSE <<"ta", "x">>]
OwnName == [c \in Clients |-> IF c = c1 THEN <<"ta", "x">> ELSE <<"ta", "y">>]
OneConn == [b \in Lower |-> 1]
TwoConn == [b \in Lower |-> 2]
Reconnect == [b \in Lower |-> 3]
ToC3 == {<<c1, c3>>}
FromC3 == {<<c3, c2>>}
MCSockids == Conns \cup Clients
NoScope == <<>>
=============================================================================
