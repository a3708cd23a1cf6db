----------------------------- MODULE Endpoints ------------------------------
(***************************************************************************)
(* The addresses of a broker.  From every address of its ROUTER socket it  *)
(* derives the addresses of its pub/sub sockets (start_pubsub), and from   *)
(* the address of its DEALER socket those of the broker above it           *)
(* (connect_pubsubN).  An address is <<transport, port or file, suffix>>.  *)
(***************************************************************************)
EXTENDS Naturals, Sequences, FiniteSetsExt

CONSTANT MaxPort    \* the largest port there is

Tcp(port) == <<"tcp", port, "">>
Ipc(file) == <<"ipc", file, "">>

\* Anything TCP_REGEX and IPC_REGEX do not match.
Other == <<"inproc", "x", "">>

Derivable(e) == e[1] \in {"tcp", "ipc"}

\* Where start_pubsub binds pubS and subS for the router address e.
pub_string(e) == IF e[1] = "tcp" THEN Tcp(e[2] + 1) ELSE <<"ipc", e[2], ".pub">>
sub_string(e) == IF e[1] = "tcp" THEN Tcp(e[2] + 2) ELSE <<"ipc", e[2], ".sub">>

\* Where connect_pubsubN connects subN and pubN for the dealer address e.
sub_connect(e) == IF e[1] = "tcp" THEN Tcp(e[2] + 1) ELSE <<"ipc", e[2], ".pub">>
pub_connect(e) == IF e[1] = "tcp" THEN Tcp(e[2] + 2) ELSE <<"ipc", e[2], ".sub">>

Mapped(F(_), rstrings) == [i \in DOMAIN rstrings |-> F(rstrings[i])]

\* zsock_attach binds a list of addresses; it fails on one that is taken or no
\* valid port.
CanBind(list, taken) ==
  \A i \in DOMAIN list :
    /\ list[i] \notin taken
    /\ \A j \in 1 .. (i - 1) : list[j] # list[i]
    /\ list[i][1] = "tcp" => list[i][2] <= MaxPort

\* The addresses it has bound when it gives up.
BoundBefore(list, taken) ==
  SubSeq(list, 1, Max({n \in 0 .. Len(list) : CanBind(SubSeq(list, 1, n), taken)}))

IpcFiles(list) == {list[i] : i \in {j \in DOMAIN list : list[j][1] = "ipc"}}
=============================================================================
