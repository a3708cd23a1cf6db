------------------------------ MODULE MCBroker ------------------------------
(* The instances of Broker that TLC checks. *)
EXTENDS Broker

CONSTANTS s1, s2, s3, low1, low2, i1, i2

MCTenants == {"public", "ta"}
MCTenants3 == {"public", "ta", "tb"}
MCLabels == {"public", "ta", "tb", "x", "y", "1", "*", "noscope"}
MCStartsWith == {<<l, l>> : l \in MCLabels}
MCScope == <<"1">>

OneEach == [s \in ClientSocks |->
              CASE s = s1 -> "public" [] s = s2 -> "ta" [] s = s3 -> "tb"]
OnePublic == [s \in ClientSocks |-> IF s = s1 THEN "public" ELSE "ta"]

MCNames1 == {<<"x">>}
MCDests == {<<"x">>} \cup {<<t, "x">> : t \in Tenants}
MCTopics == {<<"x">>, <<"public">>}
MCPubTopics == {<<"x">>, <<"public", "x">>, <<"ta", "x">>}
MCScopes == {<<"noscope">>, <<"*">>}
ScopedPubs == {[topic |-> <<t, "x", "/", "1">>, name |-> <<"z">>, pathv |-> id] :
                 t \in Tenants, id \in Ids \cup {NoId}}
UnscopedPubs == {[topic |-> <<t, "x">>, name |-> <<"z">>, pathv |-> NoId] : t \in Tenants}
AllPubs == ScopedPubs \cup UnscopedPubs
None == {}

\* Every instance satisfies what the theorems about replies and keys suppose.
ASSUME NamesArePlain == PlainNames

\* Clients of one tenant are alike, and so are brokers below.
TenantSymmetry == Permutations(ClientSocks \ {s1}) \cup Permutations(BrokerSocks)
=============================================================================
