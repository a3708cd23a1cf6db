---------------------------- MODULE MCBrokerActor ---------------------------
(* The instance of BrokerActor that TLC checks. *)
EXTENDS BrokerActor

\* A lone port, its neighbour, the last ports, a file, and something else.
MCAddresses == {Tcp(1), Tcp(2), Tcp(MaxPort - 1), Ipc("f"), Other}
MCTables == <<"local", "subs">>
=============================================================================
