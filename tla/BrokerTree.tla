----------------------------- MODULE BrokerTree -----------------------------
(***************************************************************************)
(* A tree of brokers with their clients.  Every broker runs the handlers   *)
(* of BrokerHandlers; a broker below another one talks to it over the      *)
(* dealer socket it opened last.  A dealer socket <<b, i>> is the i-th one *)
(* broker b has opened (0 is the one dd_broker_set_dealer opens), and the  *)
(* higher broker's ROUTER knows it by that identity.  Each socket is a     *)
(* reliable FIFO channel in both directions; closing it (s_register, with  *)
(* linger 0) loses what has not arrived.  Brokers may crash and come back  *)
(* with empty tables.                                                      *)
(*                                                                         *)
(* Clients are modelled by what their broker sees: a registration, an      *)
(* orderly UNREG, and messages.  The handshake that precedes a client's    *)
(* CHALLOK changes nothing in the broker.                                  *)
(***************************************************************************)
EXTENDS BrokerHandlers, SequencesExt

CONSTANTS
  Brokers, Root,
  Parent,        \* the higher broker of every broker but Root
  Clients,
  Home,          \* the broker a client connects to
  NameOf,        \* <<tenant, name>>
  Timely,        \* TRUE: an answer arrives before the tick that would give up
  MayLeave,      \* clients that unregister
  Traffic,       \* <<c, d>> : client c sends messages to client d
  MayCrash,      \* brokers that crash
  MaxConn,       \* bound: dealer sockets each lower broker opens
  MaxQueue,      \* bound: nothing is added to a broker's queue that is as long
  MaxCrash       \* bound: crashes

Lower == Brokers \ {Root}
Conns == UNION {{b} \X (0 .. MaxConn[b]) : b \in Lower}

ASSUME TreeAssumption ==
  /\ Root \in Brokers
  /\ Parent \in [Lower -> Brokers]
  /\ Home \in [Clients -> Brokers]
  /\ NameOf \in [Clients -> Tenants \X Labels]
  /\ Timely \in BOOLEAN
  /\ MayLeave \subseteq Clients /\ Traffic \subseteq Clients \X Clients /\ MayCrash \subseteq Brokers
  /\ MaxConn \in [Lower -> Nat] /\ MaxQueue \in Nat /\ MaxCrash \in Nat
  /\ Sockids = Conns \cup Clients /\ Clients \cap Conns = {}

VARIABLES
  br,      \* the state of every broker
  conn,    \* the number of the dealer socket a broker has open
  up,      \* messages on their way from a dealer socket to the higher broker
  down,    \* and back
  joined,  \* clients that believe they are registered
  crashes  \* history: the brokers that have crashed

vars == <<br, conn, up, down, joined, crashes>>

Init ==
  /\ br = [b \in Brokers |-> NewBroker(IF b = Root THEN ROOT ELSE UNREG)]
  /\ conn = [b \in Lower |-> 0]
  /\ up = [k \in Conns |-> <<>>]
  /\ down = [k \in Conns |-> <<>>]
  /\ joined = {}
  /\ crashes = <<>>

Dealer(b) == <<b, conn[b]>>
Known(b) == DOMAIN br[b].rev_lcl_cli \cup DOMAIN br[b].dist_cli
Key(c) == <<c, NameOf[c][1]>>

\* The two sides agree that b is registered with its higher broker.
Linked(b) == br[b].state = REGISTERED /\ Dealer(b) \in DOMAIN br[Parent[b]].lcl_br
Idle(b) == up[Dealer(b)] = <<>> /\ down[Dealer(b)] = <<>>

\* What is written to a router socket for a peer that has gone is discarded.
Sent(rout, k) ==
  IF k = Dealer(k[1]) /\ \E o \in rout : o.to = k
  THEN <<(CHOOSE o \in rout : o.to = k).m>> ELSE <<>>

Room(b) == IF b = Root THEN TRUE ELSE Len(up[Dealer(b)]) < MaxQueue

\* Broker b finishes a callback with result r; up0 and down0 are the channels
\* without the message it consumed.
Finish(b, r, up0, down0) ==
  /\ br[b].state # CRASHED
  /\ br' = [br EXCEPT ![b] = r.b]
  /\ up' = IF b = Root THEN up0 ELSE [up0 EXCEPT ![Dealer(b)] = @ \o r.up]
  /\ down' = [k \in Conns |-> down0[k] \o Sent(r.rout, k)]

(***************************************************************************)
(* Clients.                                                                *)
(***************************************************************************)
Join(c) ==
  LET h == Home[c]
      r == s_cb_challok_client(br[h], c, NameOf[c][1], Tail(NameOf[c]))
  IN /\ c \notin joined /\ Room(h)
     /\ Finish(h, r, up, down)
     /\ joined' = IF [to |-> c, m |-> Simple("REGOK")] \in r.rout
                  THEN joined \cup {c} ELSE joined
     /\ UNCHANGED <<conn, crashes>>

Leave(c) ==
  /\ c \in joined \cap MayLeave /\ Room(Home[c])
  /\ Finish(Home[c], s_cb_unreg_cli(br[Home[c]], c, NameOf[c][1]), up, down)
  /\ joined' = joined \ {c}
  /\ UNCHANGED <<conn, crashes>>

\* A client whose PINGs are no longer answered (its broker has forgotten it)
\* gives up after its own heartbeat limit and will register again.
Forgotten(c) ==
  /\ c \in joined /\ ~HasLocal(br[Home[c]], Key(c))
  /\ joined' = joined \ {c}
  /\ UNCHANGED <<br, conn, up, down, crashes>>

\* One message between clients at a time is enough for what is asked here.
IsData(m) == m.cmd \in {"FORWARD", "NODST"}
DataInFlight == \E k \in Conns : \E m \in ToSet(up[k]) \cup ToSet(down[k]) : IsData(m)

Notify(c, d) ==
  /\ <<c, d>> \in Traffic /\ c \in joined /\ ~DataInFlight
  /\ Finish(Home[c], s_cb_send(br[Home[c]], c, NameOf[c][1], Tail(NameOf[d])), up, down)
  /\ UNCHANGED <<conn, joined, crashes>>

(***************************************************************************)
(* Messages between brokers.                                               *)
(***************************************************************************)
RouterMsg(b, k, m) ==
  CASE m.cmd = "ADDBR" -> s_cb_addbr(b, k, TRUE)
    [] m.cmd = "CHALLOK" -> s_cb_challok_broker(b, k)
    [] m.cmd = "PING" -> s_cb_ping(b, k, BrokerCookie)
    [] m.cmd = "ADDDCL" -> s_cb_adddcl(b, k, BrokerCookie, m.name)
    [] m.cmd = "UNREGDCLI" -> s_cb_unreg_dist_cli(b, k, BrokerCookie, m.name)
    [] m.cmd = "FORWARD" -> s_cb_forward_rsock(b, k, BrokerCookie, m.src, m.dst)
    [] OTHER -> Nothing(b)

\* s_on_router_msg at the higher broker of k's owner.
ReceiveUp(k) ==
  /\ up[k] # <<>> /\ Room(Parent[k[1]])
  /\ LET p == Parent[k[1]]
     IN Finish(p, RouterMsg(br[p], k, Head(up[k])), [up EXCEPT ![k] = Tail(@)], down)
  /\ UNCHANGED <<conn, joined, crashes>>

DealerMsg(b, m, order) ==
  CASE m.cmd = "CHALL" -> s_cb_chall(b, m.id)
    [] m.cmd = "REGOK" -> s_cb_regok(b, order)
    [] m.cmd = "FORWARD" -> s_cb_forward_dsock(b, m.src, m.dst)
    [] m.cmd = "NODST" -> s_cb_high_error_nodst(b, m.dst, m.src)
    [] m.cmd = "REGFAIL" -> s_cb_high_error_regfail(b, m.name)
    [] OTHER -> Nothing(Heard(b))    \* PONG among them

\* s_on_dealer_msg at b.
ReceiveDown(b) ==
  /\ down[Dealer(b)] # <<>>
  /\ \E l \in SetToSeqs(DOMAIN br[b].rev_lcl_cli), d \in SetToSeqs(DOMAIN br[b].dist_cli) :
       Finish(b, DealerMsg(br[b], Head(down[Dealer(b)]), l \o d),
              up, [down EXCEPT ![Dealer(b)] = Tail(@)])
  /\ UNCHANGED <<conn, joined, crashes>>

(***************************************************************************)
(* Timers.  When Timely, a round trip takes less than a tick and a live    *)
(* broker is heard within the limit.                                       *)
(***************************************************************************)
Register(b) ==
  /\ br[b].reg_loop > 0 /\ Unregistered(br[b])
  /\ conn[b] < MaxConn[b]
  /\ Timely => Idle(b) /\ \A k \in Conns : k[1] = b => up[k] = <<>>
  /\ conn' = [conn EXCEPT ![b] = @ + 1]
  /\ \E n \in 0 .. Len(up[Dealer(b)]) :
       up' = [up EXCEPT ![Dealer(b)] = SubSeq(@, 1, n),
                        ![<<b, conn[b] + 1>>] = s_register(br[b]).up]
  /\ down' = [down EXCEPT ![Dealer(b)] = <<>>]
  /\ UNCHANGED <<br, joined, crashes>>

Heartbeat(b) ==
  /\ br[b].heartbeat_loop > 0
  /\ up[Dealer(b)] = <<>>
  /\ Timely => Idle(b) /\ (br[b].timeout >= Limit => ~Linked(b))
  /\ Finish(b, s_heartbeat(br[b]), up, down)
  /\ UNCHANGED <<conn, joined, crashes>>

CheckBrTimeout(b) ==
  /\ DOMAIN br[b].lcl_br # {}
  /\ Timely => \A k \in SilentBrokers(br[b]) :
                 k = Dealer(k[1]) => ~Linked(k[1]) /\ Idle(k[1])
  /\ \E order \in SetToSeqs(Behind(br[b], SilentBrokers(br[b]))) :
       Finish(b, s_check_br_timeout(br[b], order), up, down)
  /\ UNCHANGED <<conn, joined, crashes>>

(***************************************************************************)
(* A broker process dies and is started again.  Its tables are empty; what *)
(* was on its way to it is lost, or (keep) still waits in the sender's     *)
(* socket and is delivered to the new process.                             *)
(***************************************************************************)
Crash(b) ==
  /\ Len(crashes) < MaxCrash /\ crashes' = Append(crashes, b)
  /\ IF b = Root THEN TRUE ELSE conn[b] < MaxConn[b]
  /\ br' = [br EXCEPT ![b] = NewBroker(IF b = Root THEN ROOT ELSE UNREG)]
  /\ conn' = IF b = Root THEN conn ELSE [conn EXCEPT ![b] = @ + 1]
  /\ \E keep \in BOOLEAN :
       up' = [k \in Conns |-> IF Parent[k[1]] = b /\ ~keep THEN <<>> ELSE up[k]]
  /\ down' = [k \in Conns |-> IF k[1] = b THEN <<>> ELSE down[k]]
  /\ UNCHANGED joined

Next ==
  \/ \E c \in Clients : Join(c) \/ Leave(c) \/ Forgotten(c)
  \/ \E c, d \in Clients : Notify(c, d)
  \/ \E k \in Conns : ReceiveUp(k)
  \/ \E b \in Lower : ReceiveDown(b) \/ Register(b) \/ Heartbeat(b)
  \/ \E b \in Brokers : CheckBrTimeout(b)
  \/ \E b \in MayCrash : Crash(b)

Spec == Init /\ [][Next]_vars

\* Messages on open sockets arrive, and a client that does not leave for good
\* keeps trying to register.  A timer fires every second, however busy the
\* sockets are: strong fairness, because the guards above keep it from firing
\* at certain moments.
Fairness ==
  /\ \A c \in Clients \ MayLeave : WF_vars(Join(c)) /\ WF_vars(Forgotten(c))
  /\ \A k \in Conns : WF_vars(ReceiveUp(k))
  /\ \A b \in Lower : WF_vars(ReceiveDown(b)) /\ WF_vars(Register(b)) /\ SF_vars(Heartbeat(b))
  /\ \A b \in Brokers : SF_vars(CheckBrTimeout(b))

LSpec == Spec /\ Fairness

(***************************************************************************)
(* Properties.                                                             *)
(***************************************************************************)
\* Every variable has its type, and no message makes a broker's process die: while
\* messages arrive in time, one for a client that is gone never comes down to a
\* broker that has given up the one above it.
TypeOK ==
  /\ \A b \in Brokers : br[b].state \in {UNREG, ROOT, REGISTERED}
  /\ \A b \in Lower : conn[b] \in 0 .. MaxConn[b]
  /\ DOMAIN up = Conns /\ DOMAIN down = Conns
  /\ joined \subseteq Clients
  /\ crashes \in BoundedSeq(MayCrash, MaxCrash)

Quiet(b) == Linked(b) /\ Idle(b)
Through(b) == {n \in DOMAIN br[Parent[b]].dist_cli : br[Parent[b]].dist_cli[n] = Dealer(b)}

\* Once nothing is on its way between a broker and the one above it, the higher
\* broker routes to it exactly the clients it has: every client below is
\* reachable from above, and nothing is sent down for a client that is not there.
Synced == \A b \in Lower : Quiet(b) => Through(b) = Known(b)

\* Once nothing is on its way anywhere, no two brokers of the tree hold a local
\* client of the same name.
UniqueNames ==
  (\A b \in Lower : Quiet(b)) =>
    \A b1, b2 \in Brokers :
      b1 # b2 => DOMAIN br[b1].rev_lcl_cli \cap DOMAIN br[b2].rev_lcl_cli = {}

\* A broker below another one always either waits for its next heartbeat or for
\* its next attempt to register: one timer runs, whatever the order of
\* time-outs, answers and crashes.
OneTimer ==
  \A b \in Brokers : br[b].state # CRASHED => TimersMatch(br[b], b # Root)

\* A name is turned down only when another client has it, or when a broker below
\* the root has crashed and the route through its former socket has not timed out
\* yet: the only client of a name is never thrown out by its own broker's
\* re-registration after the root was lost.
NoFalseRefusal ==
  \A k \in Conns : \A i \in DOMAIN down[k] :
    down[k][i].cmd = "REGFAIL" =>
      \/ \E c, d \in Clients : c # d /\ NameOf[c] = down[k][i].name /\ NameOf[d] = NameOf[c]
      \/ ToSet(crashes) \ {Root} # {}

\* After the last crash, every client that stays is registered again, every
\* broker is registered with the one above it, and what a broker knows the one
\* above it routes to it: every client can be reached from everywhere.
AllReachable ==
  /\ Clients \ MayLeave \subseteq joined
  /\ \A c \in Clients \ MayLeave : HasLocal(br[Home[c]], Key(c))
  /\ \A b \in Lower : Linked(b) /\ Known(b) \subseteq Through(b)
Recovers == <>[]AllReachable

\* A message between clients is delivered, answered or dropped: it does not go
\* round between brokers.
ForwardEnds == []<>~DataInFlight
=============================================================================
