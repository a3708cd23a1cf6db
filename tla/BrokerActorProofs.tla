------------------------- MODULE BrokerActorProofs --------------------------
(***************************************************************************)
(* Proofs about the life of a broker process, for any addresses, any       *)
(* tables and any entries in them.                                         *)
(*                                                                         *)
(*   Order     what the program counters of the three threads say of each  *)
(*             other.  DestroyedLast follows.                              *)
(*   Sockets   a broker past start_pubsub has bound all its addresses.     *)
(*             PubSubWhereExpected follows.                                *)
(*   Walking   where the iterator of json_get_stats is, and what it has    *)
(*             listed.  StatsRight follows.                                *)
(***************************************************************************)
EXTENDS BrokerActor, TLAPS, WellFoundedInduction

(***************************************************************************)
(* The invariants.                                                         *)
(***************************************************************************)
\* The broker's thread has left s_self_destroy behind.
Gone == {"destroyed", "signalled", "closed"}

\* The threads follow each other: the REST thread exists from Spawn on and has
\* sent its signal before the broker destroys itself, and the application knows
\* that the broker has ended.
Order ==
  /\ broker \in {"none", "bind", "spawn"} => rest = "none"
  /\ toAct # <<>> => rest \in {"signalled", "closed"}
  /\ broker \in {"destroy"} \cup Gone => rest \in {"none", "signalled", "closed"}
  /\ ~alive => broker \in Gone
  /\ main = "options" => broker = "none"
  /\ toMain # <<>> => broker \in {"signalled", "closed"}
  /\ main = "ended" => broker \in {"signalled", "closed"}

pubs == Mapped(pub_string, conf.rstrings)
subs == Mapped(sub_string, conf.rstrings)
routers == {conf.rstrings[i] : i \in DOMAIN conf.rstrings}

Confs == [rstrings : Seq(Addresses), keys : BOOLEAN, scope : BOOLEAN, reststr : BOOLEAN]

\* What is known of the addresses.
Sockets ==
  /\ conf \in Confs
  /\ broker \in {"linger", "lingering", "loop"} =>
       (\A e \in routers : Derivable(e)) /\ CanBind(pubs \o subs, routers)

TableNames == {Tables[i] : i \in DOMAIN Tables}

Walks == [at : Nat, node : Nat, next : Nat, listed : SUBSET Nodes,
          always : SUBSET Nodes, ever : SUBSET Nodes,
          inside : BOOLEAN, dangling : BOOLEAN, torn : BOOLEAN]

\* A walk w over the nodes tab of a table: everything that has been there all
\* the time is listed if the iterator has passed it, and the iterator will come
\* to it otherwise.
WalkOf(w, tab) ==
  /\ w \in Walks /\ w.at \in DOMAIN Tables
  /\ w.always \subseteq tab /\ tab \subseteq w.ever /\ w.listed \subseteq w.ever
  /\ w.node \in w.ever \cup {0} /\ w.next \in w.ever \cup {0}
  /\ w.node = 0 => w.always \subseteq w.listed
  /\ w.node > 0 => \A x \in w.always : /\ x < w.node => x \in w.listed
                                       /\ x > w.node => w.next > 0 /\ x >= w.next

Walking ==
  /\ table \in [TableNames -> SUBSET Nodes]
  /\ IF rest = "walk" THEN WalkOf(walk, table[Tables[walk.at]]) ELSE walk = NoWalk

ActorInv == Order /\ Sockets /\ Walking

\* The least element of a set of numbers.
LEMMA MinIsLeast ==
  ASSUME NEW S, S \subseteq Nat, S # {}
  PROVE  Min(S) \in S /\ \A y \in S : Min(S) <= y
<1>1. \A x, y \in Nat : <<x, y>> \in OpToRel(<, Nat) <=> x < y
  BY DEF OpToRel
<1>2. PICK R : IsWellFoundedOn(R, Nat) /\ \A x, y \in Nat : <<x, y>> \in R <=> x < y
  BY <1>1, NatLessThanWellFounded, Zenon
<1>3. PICK x \in S : \A y \in S : ~(<<y, x>> \in R)
  <2>1. IsWellFoundedOn(R, Nat)
    BY <1>2
  <2> QED
    BY <2>1, WFMin, Zenon
<1>4. ASSUME NEW y \in S PROVE x <= y
  <2>1. x \in Nat /\ y \in Nat
    OBVIOUS
  <2>2. <<y, x>> \in R <=> y < x
    BY <1>2, <2>1, Zenon
  <2>3. ~(y < x)
    BY <1>3, <2>2, Zenon
  <2> QED
    BY <2>1, <2>3
<1> QED
  BY <1>4 DEF Min

(***************************************************************************)
(* The order of the threads.                                               *)
(***************************************************************************)
\* Every step of a thread, the operator and the signal keep Order.
LEMMA NextOrder == Order /\ [Next]_vars => Order'
<1> SUFFICES ASSUME Order, [Next]_vars PROVE Order'
  OBVIOUS
<1>1. CASE Option
  BY <1>1
     DEF Option, dd_broker_add_router, dd_broker_set_keyfile, dd_broker_set_scope, dd_broker_set_rest, Configure, threads, pipes, shared, Order, Gone
<1>2. CASE dd_broker_actor
  BY <1>2
     DEF dd_broker_actor, Exit, ExitLeaving, threads, pipes, shared, Order, Gone
<1>3. CASE Interrupt
  BY <1>3 DEF Interrupt, threads, pipes, shared, Order, Gone
<1>4. CASE Destroy
  BY <1>4 DEF Destroy, threads, pipes, shared, Order, Gone
<1>5. CASE Collected
  BY <1>5 DEF Collected, threads, pipes, shared, Order, Gone
<1>6. CASE Return
  BY <1>6 DEF Return, Exit, ExitLeaving, threads, pipes, shared, Order, Gone
<1>7. CASE bind_router
  BY <1>7
     DEF bind_router, BrokerAt, Exit, ExitLeaving, threads, pipes, shared, Order, Gone
<1>8. CASE Spawn
  BY <1>8 DEF Spawn, BrokerAt, threads, pipes, shared, Order, Gone
<1>9. CASE start_pubsub
  BY <1>9
     DEF start_pubsub, BrokerAt, Exit, ExitLeaving, threads, pipes, shared, Order, Gone
<1>10. CASE ReadHttp
  BY <1>10 DEF ReadHttp, BrokerAt, threads, pipes, shared, Order, Gone
<1>11. CASE SetLinger
  BY <1>11
     DEF SetLinger, BrokerAt, Exit, ExitLeaving, threads, pipes, shared, Order, Gone
<1>12. CASE s_on_pipe_msg
  BY <1>12 DEF s_on_pipe_msg, BrokerAt, threads, pipes, shared, Order, Gone
<1>13. CASE ActSignal
  BY <1>13 DEF ActSignal, BrokerAt, threads, pipes, shared, Order, Gone
<1>14. CASE LoopEnds
  BY <1>14 DEF LoopEnds, BrokerAt, threads, pipes, shared, Order, Gone
<1>15. CASE Reap
  BY <1>15 DEF Reap, BrokerAt, threads, pipes, shared, Order, Gone
<1>16. CASE Reaped
  BY <1>16 DEF Reaped, BrokerAt, threads, pipes, shared, Order, Gone
<1>17. CASE s_self_destroy
  BY <1>17 DEF s_self_destroy, BrokerAt, threads, pipes, shared, Order, Gone
<1>18. CASE BrokerReturns
  BY <1>18 DEF BrokerReturns, BrokerAt, threads, pipes, shared, Order, Gone
<1>19. CASE \E i \in DOMAIN Tables, n \in Nodes : Insert(Tables[i], n)
  BY <1>19 DEF Insert, BrokerAt, threads, pipes, shared, Order, Gone
<1>20. CASE \E i \in DOMAIN Tables, n \in Nodes : Remove(Tables[i], n)
  BY <1>20 DEF Remove, BrokerAt, Exit, ExitLeaving, threads, pipes, shared, Order, Gone
<1>21. CASE OpenHttp
  BY <1>21 DEF OpenHttp, RestAt, threads, pipes, shared, Order, Gone
<1>22. CASE BindHttp
  BY <1>22 DEF BindHttp, RestAt, threads, pipes, shared, Order, Gone
<1>23. CASE Visit
  BY <1>23 DEF Visit, RestAt, Exit, ExitLeaving, threads, pipes, shared, Order, Gone
<1>24. CASE NextTable
  BY <1>24 DEF NextTable, RestAt, threads, pipes, shared, Order, Gone
<1>25. CASE s_gc_pipe_msg
  BY <1>25 DEF s_gc_pipe_msg, RestAt, threads, pipes, shared, Order, Gone
<1>26. CASE RestLoopEnds
  BY <1>26 DEF RestLoopEnds, RestAt, threads, pipes, shared, Order, Gone
<1>27. CASE RestReturns
  BY <1>27 DEF RestReturns, RestAt, threads, pipes, shared, Order, Gone
<1>28. CASE \E route \in Routes : s_on_http(route)
  BY <1>28 DEF s_on_http, RestAt, threads, pipes, shared, Order, Gone
<1>29. CASE Kill
  BY <1>29 DEF Kill, Exit, ExitLeaving, threads, pipes, shared, Order, Gone
<1>30. CASE Restart
  BY <1>30 DEF Restart, threads, pipes, shared, Order, Gone
<1>31. CASE UNCHANGED vars
  BY <1>31 DEF vars, threads, pipes, shared, Order, Gone
<1>32. CASE \E i \in DOMAIN Tables, n \in Nodes : Change(Tables[i], n)
  BY <1>32 DEF Change, BrokerAt, Exit, ExitLeaving, threads, pipes, shared, Order, Gone
<1>33. CASE Enter
  BY <1>33 DEF Enter, RestAt, Exit, ExitLeaving, threads, pipes, shared, Order, Gone
<1> QED
  BY <1>1, <1>2, <1>3, <1>4, <1>5, <1>6, <1>7, <1>8, <1>9, <1>10, <1>11, <1>12, <1>13, <1>14, <1>15, <1>16, <1>17, <1>18, <1>19, <1>20, <1>21, <1>22, <1>23, <1>24, <1>25, <1>26, <1>27, <1>28, <1>29, <1>30, <1>31, <1>32, <1>33
  DEF Next, MainSteps, BrokerSteps, RestSteps

\* s_self_destroy runs when the REST thread has ended: Order is inductive and
\* says so.
THEOREM RestEndsFirst == Spec => []DestroyedLast
<1>1. Init => Order
  BY DEF Init, Fresh, Order, Gone
<1>2. Order => DestroyedLast
  BY DEF Order, Gone, DestroyedLast
<1> QED
  BY <1>1, <1>2, NextOrder, PTL DEF Spec

(***************************************************************************)
(* The addresses.                                                          *)
(***************************************************************************)
\* The derived addresses are sequences as long as the list they come from.
LEMMA DerivedLists ==
  ASSUME conf \in Confs
  PROVE  /\ conf.rstrings \in Seq(Addresses)
         /\ pubs \in Seq({pub_string(e) : e \in Addresses}) /\ Len(pubs) = Len(conf.rstrings)
         /\ subs \in Seq({sub_string(e) : e \in Addresses}) /\ Len(subs) = Len(conf.rstrings)
         /\ \A i \in DOMAIN conf.rstrings : /\ pubs[i] = pub_string(conf.rstrings[i])
                                            /\ subs[i] = sub_string(conf.rstrings[i])
<1>1. conf.rstrings \in Seq(Addresses)
  BY DEF Confs
<1> QED
  BY <1>1 DEF pubs, subs, Mapped

\* Every step keeps Sockets.
LEMMA NextSockets == Order /\ Sockets /\ [Next]_vars => Sockets'
<1> SUFFICES ASSUME Order, Sockets, [Next]_vars PROVE Sockets'
  OBVIOUS
<1>a. conf' = conf => pubs' = pubs /\ subs' = subs /\ routers' = routers
  BY DEF pubs, subs, routers
<1>1. CASE Option
  <2>1. conf' \in Confs /\ main = "options" /\ broker' = broker
    <3>1. conf \in Confs
      BY DEF Sockets
    <3>2. CASE dd_broker_add_router
      <4>1. PICK e \in Addresses : /\ conf' = [conf EXCEPT !.rstrings = Append(@, e)]
                                   /\ main = "options"
                                   /\ UNCHANGED threads
        BY <3>2 DEF dd_broker_add_router, Configure
      <4>2. Append(conf.rstrings, e) \in Seq(Addresses)
        BY <3>1 DEF Confs
      <4> QED
        BY <3>1, <4>1, <4>2 DEF threads, Confs
    <3>3. CASE dd_broker_set_keyfile
      BY <3>1, <3>3 DEF dd_broker_set_keyfile, Configure, threads, Confs
    <3>4. CASE dd_broker_set_scope
      BY <3>1, <3>4 DEF dd_broker_set_scope, Configure, threads, Confs
    <3>5. CASE dd_broker_set_rest
      BY <3>1, <3>5 DEF dd_broker_set_rest, Configure, threads, Confs
    <3> QED
      BY <1>1, <3>2, <3>3, <3>4, <3>5 DEF Option
  <2>2. broker = "none"
    BY <2>1 DEF Order
  <2> QED
    BY <2>1, <2>2 DEF Sockets, Gone
<1>2. CASE dd_broker_actor
  BY <1>a, <1>2
     DEF dd_broker_actor, Exit, ExitLeaving, threads, pipes, shared, Order, Sockets, Gone
<1>3. CASE Interrupt
  BY <1>a, <1>3
     DEF Interrupt, threads, pipes, shared, Order, Sockets, Gone
<1>4. CASE Destroy
  BY <1>a, <1>4
     DEF Destroy, threads, pipes, shared, Order, Sockets, Gone
<1>5. CASE Collected
  BY <1>a, <1>5
     DEF Collected, threads, pipes, shared, Order, Sockets, Gone
<1>6. CASE Return
  <2>1. broker \in Gone
    BY <1>6 DEF Return, Order, Gone
  <2> QED
    BY <1>6, <1>a, <2>1 DEF Return, Exit, ExitLeaving, threads, Sockets
<1>7. CASE bind_router
  <2>1. CASE IpcFiles(conf.rstrings) \cap files # {}
    BY <1>7, <1>a, <2>1 DEF bind_router, BrokerAt, Exit, ExitLeaving, threads,
       Sockets, Gone
  <2>2. CASE ~(IpcFiles(conf.rstrings) \cap files # {})
    BY <1>7, <1>a, <2>2 DEF bind_router, BrokerAt, Exit, ExitLeaving, threads,
       Sockets, Gone
  <2> QED
    BY <2>1, <2>2
<1>8. CASE Spawn
  BY <1>a, <1>8
     DEF Spawn, BrokerAt, threads, pipes, shared, Order, Sockets, Gone
<1>9. CASE start_pubsub
  <2>1. CASE broker' = "linger"
    <3>1. /\ \A e \in routers : Derivable(e)
          /\ CanBind(pubs \o subs, routers)
          /\ broker = "pubsub" /\ conf' = conf
      BY <1>9, <2>1 DEF start_pubsub, BrokerAt, Exit, ExitLeaving, threads, pubs, subs, routers
    <3> QED
      BY <3>1, <1>a, <2>1 DEF Sockets, Gone
  <2>2. CASE broker' # "linger"
    <3>1. broker = "pubsub" /\ broker' = broker /\ conf' = conf
      BY <1>9, <2>2 DEF start_pubsub, BrokerAt, Exit, ExitLeaving, threads
    <3> QED
      BY <3>1, <1>a DEF Sockets
  <2> QED
    BY <2>1, <2>2
<1>10. CASE ReadHttp
  BY <1>a, <1>10
     DEF ReadHttp, BrokerAt, threads, pipes, shared, Order, Sockets, Gone
<1>11. CASE SetLinger
  BY <1>a, <1>11
     DEF SetLinger, BrokerAt, Exit, ExitLeaving, threads, pipes, shared, Order, Sockets, Gone
<1>12. CASE s_on_pipe_msg
  BY <1>a, <1>12
     DEF s_on_pipe_msg, BrokerAt, threads, pipes, shared, Order, Sockets, Gone
<1>13. CASE ActSignal
  BY <1>a, <1>13
     DEF ActSignal, BrokerAt, threads, pipes, shared, Order, Sockets, Gone
<1>14. CASE LoopEnds
  BY <1>a, <1>14
     DEF LoopEnds, BrokerAt, threads, pipes, shared, Order, Sockets, Gone
<1>15. CASE Reap
  BY <1>a, <1>15
     DEF Reap, BrokerAt, threads, pipes, shared, Order, Sockets, Gone
<1>16. CASE Reaped
  BY <1>a, <1>16
     DEF Reaped, BrokerAt, threads, pipes, shared, Order, Sockets, Gone
<1>17. CASE s_self_destroy
  BY <1>17, <1>a DEF s_self_destroy, BrokerAt, Sockets
<1>18. CASE BrokerReturns
  BY <1>a, <1>18
     DEF BrokerReturns, BrokerAt, threads, pipes, shared, Order, Sockets, Gone
<1>19. CASE \E i \in DOMAIN Tables, n \in Nodes : Insert(Tables[i], n)
  BY <1>a, <1>19
     DEF Insert, BrokerAt, threads, pipes, shared, Order, Sockets, Gone
<1>20. CASE \E i \in DOMAIN Tables, n \in Nodes : Remove(Tables[i], n)
  BY <1>a, <1>20
     DEF Remove, BrokerAt, Exit, ExitLeaving, threads, pipes, shared, Order, Sockets, Gone
<1>21. CASE OpenHttp
  BY <1>a, <1>21
     DEF OpenHttp, RestAt, threads, pipes, shared, Order, Sockets, Gone
<1>22. CASE BindHttp
  BY <1>a, <1>22
     DEF BindHttp, RestAt, threads, pipes, shared, Order, Sockets, Gone
<1>23. CASE Visit
  <2>1. CASE Exit("walk")
    BY <1>a, <2>1 DEF Exit, ExitLeaving, threads, Sockets
  <2>2. CASE UNCHANGED <<conf, threads, files, outcome>>
    BY <1>a, <2>2 DEF threads, Sockets
  <2> QED
    BY <1>23, <2>1, <2>2 DEF Visit
<1>24. CASE NextTable
  BY <1>a, <1>24
     DEF NextTable, RestAt, threads, pipes, shared, Order, Sockets, Gone
<1>25. CASE s_gc_pipe_msg
  BY <1>a, <1>25
     DEF s_gc_pipe_msg, RestAt, threads, pipes, shared, Order, Sockets, Gone
<1>26. CASE RestLoopEnds
  BY <1>a, <1>26
     DEF RestLoopEnds, RestAt, threads, pipes, shared, Order, Sockets, Gone
<1>27. CASE RestReturns
  BY <1>a, <1>27
     DEF RestReturns, RestAt, threads, pipes, shared, Order, Sockets, Gone
<1>28. CASE \E route \in Routes : s_on_http(route)
  BY <1>a, <1>28
     DEF s_on_http, RestAt, threads, pipes, shared, Order, Sockets, Gone
<1>29. CASE Kill
  BY <1>a, <1>29
     DEF Kill, Exit, ExitLeaving, threads, pipes, shared, Order, Sockets, Gone
<1>30. CASE Restart
  BY <1>30 DEF Restart, Sockets, Gone, NoConf, Confs
<1>31. CASE UNCHANGED vars
  BY <1>a, <1>31
     DEF vars, threads, pipes, shared, Order, Sockets, Gone
<1>32. CASE \E i \in DOMAIN Tables, n \in Nodes : Change(Tables[i], n)
  BY <1>a, <1>32 DEF Change, BrokerAt, Exit, ExitLeaving, threads, Sockets
<1>33. CASE Enter
  BY <1>a, <1>33 DEF Enter, RestAt, Exit, ExitLeaving, threads, Sockets
<1> QED
  BY <1>1, <1>2, <1>3, <1>4, <1>5, <1>6, <1>7, <1>8, <1>9, <1>10, <1>11, <1>12, <1>13, <1>14, <1>15, <1>16, <1>17, <1>18, <1>19, <1>20, <1>21, <1>22, <1>23, <1>24, <1>25, <1>26, <1>27, <1>28, <1>29, <1>30, <1>31, <1>32, <1>33
  DEF Next, MainSteps, BrokerSteps, RestSteps

\* Order and Sockets hold always.
LEMMA SocketsAlways == Spec => [](Order /\ Sockets)
<1>1. Init => Order /\ Sockets
  BY DEF Init, Fresh, Order, Gone, Sockets, NoConf, Confs
<1> QED
  BY <1>1, NextOrder, NextSockets, PTL DEF Spec

\* A running broker has its pub/sub addresses where the brokers below look for
\* them.
THEOREM AddressesAgree == Spec => []PubSubWhereExpected
<1>1. Sockets => PubSubWhereExpected
  <2> SUFFICES ASSUME Sockets, broker = "loop",
                      NEW i \in DOMAIN conf.rstrings, NEW j \in DOMAIN conf.rstrings
               PROVE  LET e == conf.rstrings[i] f == conf.rstrings[j] IN
                      /\ sub_connect(e) = pub_string(e) /\ pub_connect(e) = sub_string(e)
                      /\ sub_connect(e)[1] = "tcp" =>
                           sub_connect(e)[2] <= MaxPort /\ pub_connect(e)[2] <= MaxPort
                      /\ pub_string(e) # sub_string(f) /\ f \notin {pub_string(e), sub_string(e)}
    BY DEF PubSubWhereExpected
  <2> DEFINE e == conf.rstrings[i]
             f == conf.rstrings[j]
             n == Len(conf.rstrings)
             list == pubs \o subs
  <2>1. /\ conf.rstrings \in Seq(Addresses) /\ Len(pubs) = n /\ Len(subs) = n
        /\ pubs[i] = pub_string(e) /\ subs[i] = sub_string(e) /\ subs[j] = sub_string(f)
        /\ pubs \in Seq({pub_string(a) : a \in Addresses})
        /\ subs \in Seq({sub_string(a) : a \in Addresses})
    BY DerivedLists DEF Sockets
  <2>2. /\ i \in DOMAIN list /\ list[i] = pub_string(e)
        /\ i + n \in DOMAIN list /\ list[i + n] = sub_string(e)
        /\ j + n \in DOMAIN list /\ list[j + n] = sub_string(f)
        /\ i \in 1 .. (j + n - 1) /\ i \in Nat /\ j \in Nat /\ n \in Nat
    BY <2>1
  <2>3. CanBind(list, routers) /\ Derivable(e) /\ e \in routers /\ f \in routers
    BY <2>1 DEF Sockets, routers
  <2> HIDE DEF list, n
  <2>4. /\ pub_string(e) \notin routers /\ sub_string(e) \notin routers
        /\ pub_string(e) # sub_string(f)
        /\ pub_string(e)[1] = "tcp" => pub_string(e)[2] <= MaxPort
        /\ sub_string(e)[1] = "tcp" => sub_string(e)[2] <= MaxPort
    <3> USE DEF CanBind
    <3>1. list[i] \notin routers /\ (list[i][1] = "tcp" => list[i][2] <= MaxPort)
      BY <2>2, <2>3
    <3>2. list[i + n] \notin routers /\ (list[i + n][1] = "tcp" => list[i + n][2] <= MaxPort)
      BY <2>2, <2>3
    <3>3. list[i] # list[j + n]
      <4> DEFINE q == j + n
      <4>1. q \in DOMAIN list /\ i \in 1 .. (q - 1)
        BY <2>2
      <4> HIDE DEF q
      <4>2. list[i] # list[q]
        BY <2>3, <4>1
      <4> QED
        BY <4>2 DEF q
    <3> QED
      BY <2>2, <3>1, <3>2, <3>3
  <2>5. sub_connect(e) = pub_string(e) /\ pub_connect(e) = sub_string(e)
    BY DEF sub_connect, pub_connect, pub_string, sub_string
  <2>6. pub_string(e)[1] = "tcp" => sub_string(e)[1] = "tcp"
    BY DEF pub_string, sub_string, Tcp
  <2> QED
    BY <2>3, <2>4, <2>5, <2>6
<1> QED
  BY <1>1, SocketsAlways, PTL

(***************************************************************************)
(* The walk of json_get_stats.                                             *)
(***************************************************************************)
\* cds_lfht_next goes to the next node there is.
LEMMA AfterIsNext ==
  ASSUME NEW t, table[t] \subseteq Nodes, NEW n \in Nat
  PROVE  /\ After(t, n) \in table[t] \cup {0} /\ After(t, n) \in Nat
         /\ \A x \in table[t] : x > n => After(t, n) > 0 /\ x >= After(t, n)
         /\ After(t, n) > 0 => After(t, n) > n
<1> DEFINE later == {x \in table[t] : x > n}
<1>1. table[t] \subseteq Nat \ {0}
  BY ActorAssumption
<1>2. After(t, n) = IF later = {} THEN 0 ELSE Min(later)
  BY DEF After
<1>3. later # {} => Min(later) \in later /\ \A y \in later : Min(later) <= y
  BY <1>1, MinIsLeast
<1> QED
  BY <1>1, <1>2, <1>3

\* The iterator that moves to n, or on to the first node after n if n has been
\* removed, has everything before it listed if everything before n was.
LEMMA AtKeepsWalk ==
  ASSUME NEW w \in Walks, w.at \in DOMAIN Tables,
         NEW t, t = Tables[w.at], table[t] \subseteq Nodes, NEW n \in w.ever \cup {0},
         w.always \subseteq table[t], table[t] \subseteq w.ever, w.listed \subseteq w.ever,
         \A x \in w.always : x < n \/ n = 0 => x \in w.listed
  PROVE  WalkOf(At(w, t, n), table[t])
<1> DEFINE m == IF n \in table[t] \cup {0} THEN n ELSE After(t, n)
           k == IF m = 0 THEN 0 ELSE After(t, m)
           v == At(w, t, n)
<1>1. Nodes \subseteq Nat \ {0} /\ w.ever \subseteq Nodes
  BY ActorAssumption DEF Walks
<1>a. n \in Nat
  <2>1. \A j \in w.ever : j \in Nat
    BY <1>1
  <2> QED
    BY <2>1
<1>b. /\ After(t, n) \in table[t] \cup {0} /\ After(t, n) \in Nat
      /\ \A x \in table[t] : x > n => After(t, n) > 0 /\ x >= After(t, n)
  BY <1>a, AfterIsNext
<1>2. n \in Nat /\ m \in table[t] \cup {0} /\ m \in Nat
  BY <1>a, <1>b
<1>3. k \in table[t] \cup {0} /\ k \in Nat
  BY <1>2, AfterIsNext
<1>4. /\ v \in Walks /\ v.node = m /\ v.next = k /\ v.at = w.at /\ v.listed = w.listed
      /\ v.always = w.always /\ v.ever = w.ever
  BY <1>2, <1>3 DEF At, Walks
<1>5. \A x \in w.always : x < m \/ m = 0 => x \in w.listed
  <2> SUFFICES ASSUME NEW x \in w.always, x < m \/ m = 0 PROVE x \in w.listed
    OBVIOUS
  <2>1. CASE n \in table[t] \cup {0}
    BY <2>1
  <2>2. CASE n \notin table[t] \cup {0}
    <3>1. m = After(t, n)
      BY <2>2
    <3>2. x \in table[t] /\ x \in Nat /\ x # n
      BY <1>1, <2>2
    <3>3. ~(x > n)
      BY <1>b, <3>1, <3>2
    <3> QED
      BY <1>a, <3>2, <3>3
  <2> QED
    BY <2>1, <2>2
<1>6. m > 0 => \A x \in w.always : x > m => k > 0 /\ x >= k
  BY <1>1, <1>2, AfterIsNext
<1> HIDE DEF m, k, v
<1>7. WalkOf(v, table[t])
  BY <1>1, <1>2, <1>3, <1>4, <1>5, <1>6 DEF WalkOf
<1> QED
  BY <1>7 DEF v

\* cds_lfht_first starts a walk.
LEMMA FirstIsWalk ==
  ASSUME NEW i \in DOMAIN Tables, table \in [TableNames -> SUBSET Nodes]
  PROVE  WalkOf(First(i), table[Tables[i]]) /\ First(i).at = i
<1> DEFINE t == Tables[i]
           w == [NoWalk EXCEPT !.at = i, !.always = table[t], !.ever = table[t]]
           n == After(t, 0)
<1>1. t \in TableNames /\ table[t] \subseteq Nodes /\ Nodes \subseteq Nat \ {0} /\ i \in Nat
  BY ActorAssumption DEF TableNames
<1>2. /\ w \in Walks /\ w.at = i /\ w.always = table[t] /\ w.ever = table[t]
      /\ w.listed = {}
  BY <1>1 DEF NoWalk, Walks
<1>3. /\ n \in table[t] \cup {0} /\ n \in Nat
      /\ \A x \in table[t] : x > 0 => n > 0 /\ x >= n
  BY <1>1, AfterIsNext
<1>4. \A x \in table[t] : ~(x < n \/ n = 0)
  BY <1>1, <1>3
<1>5. First(i) = At(w, t, n)
  BY DEF First
<1>6. First(i).at = i
  BY <1>2, <1>5 DEF At, Walks
<1> HIDE DEF w, n
<1>7. WalkOf(At(w, t, n), table[t])
  BY <1>1, <1>2, <1>3, <1>4, AtKeepsWalk
<1> QED
  BY <1>5, <1>6, <1>7

\* Every step keeps Walking: entries come and go between any two turns of the
\* walk.
LEMMA NextWalking == Order /\ Walking /\ [Next]_vars => Walking'
<1> SUFFICES ASSUME Order, Walking, [Next]_vars PROVE Walking'
  OBVIOUS
<1>1. CASE Option
  BY <1>1
     DEF Option, dd_broker_add_router, dd_broker_set_keyfile, dd_broker_set_scope, dd_broker_set_rest, Configure, threads, pipes, shared, Order, Gone, Walking
<1>2. CASE dd_broker_actor
  BY <1>2
     DEF dd_broker_actor, Exit, ExitLeaving, threads, pipes, shared, Order, Gone, Walking
<1>3. CASE Interrupt
  BY <1>3 DEF Interrupt, threads, pipes, shared, Order, Gone, Walking
<1>4. CASE Destroy
  BY <1>4 DEF Destroy, threads, pipes, shared, Order, Gone, Walking
<1>5. CASE Collected
  BY <1>5 DEF Collected, threads, pipes, shared, Order, Gone, Walking
<1>6. CASE Return
  BY <1>6
     DEF Return, Exit, ExitLeaving, threads, pipes, shared, Order, Gone, Walking
<1>7. CASE bind_router
  BY <1>7
     DEF bind_router, BrokerAt, Exit, ExitLeaving, threads, pipes, shared, Order, Gone, Walking
<1>8. CASE Spawn
  BY <1>8 DEF Spawn, BrokerAt, threads, pipes, shared, Order, Gone, Walking
<1>9. CASE start_pubsub
  BY <1>9
     DEF start_pubsub, BrokerAt, Exit, ExitLeaving, threads, pipes, shared, Order, Gone, Walking
<1>10. CASE ReadHttp
  BY <1>10 DEF ReadHttp, BrokerAt, threads, pipes, shared, Order, Gone, Walking
<1>11. CASE SetLinger
  BY <1>11
     DEF SetLinger, BrokerAt, Exit, ExitLeaving, threads, pipes, shared, Order, Gone, Walking
<1>12. CASE s_on_pipe_msg
  BY <1>12 DEF s_on_pipe_msg, BrokerAt, threads, pipes, shared, Order, Gone, Walking
<1>13. CASE ActSignal
  BY <1>13 DEF ActSignal, BrokerAt, threads, pipes, shared, Order, Gone, Walking
<1>14. CASE LoopEnds
  BY <1>14 DEF LoopEnds, BrokerAt, threads, pipes, shared, Order, Gone, Walking
<1>15. CASE Reap
  BY <1>15 DEF Reap, BrokerAt, threads, pipes, shared, Order, Gone, Walking
<1>16. CASE Reaped
  BY <1>16 DEF Reaped, BrokerAt, threads, pipes, shared, Order, Gone, Walking
<1>17. CASE s_self_destroy
  <2>1. rest # "walk" /\ walk = NoWalk
    BY <1>17 DEF s_self_destroy, BrokerAt, Order, Walking
  <2>2. table' \in [TableNames -> SUBSET Nodes]
    BY <1>17 DEF s_self_destroy, EmptyTables, TableNames
  <2> QED
    BY <1>17, <2>1, <2>2 DEF s_self_destroy, BrokerAt, Walking
<1>18. CASE BrokerReturns
  BY <1>18 DEF BrokerReturns, BrokerAt, threads, pipes, shared, Order, Gone, Walking
<1>19. CASE \E i \in DOMAIN Tables, n \in Nodes : Insert(Tables[i], n)
  <2>1. PICK i \in DOMAIN Tables, n \in Nodes : Insert(Tables[i], n)
    BY <1>19
  <2> DEFINE t == Tables[i]
  <2>2. t \in TableNames /\ rest' = rest
    BY <2>1 DEF Insert, BrokerAt, TableNames, threads
  <2>3. table' \in [TableNames -> SUBSET Nodes]
    BY <2>1, <2>2 DEF Insert, Walking
  <2>4. CASE rest # "walk"
    <3>1. walk = NoWalk /\ walk.at = 0
      BY <2>4 DEF Walking, NoWalk
    <3>2. walk' = walk
      BY <2>1, <3>1 DEF Insert
    <3> QED
      BY <2>2, <2>3, <2>4, <3>1, <3>2 DEF Walking
  <2>5. CASE rest = "walk"
    <3> DEFINE tab == table[Tables[walk.at]]
               tabN == table'[Tables[walk.at]]
    <3>1. WalkOf(walk, tab) /\ Tables[walk.at] \in TableNames /\ walk.at > 0
      BY <2>5, ActorAssumption DEF Walking, WalkOf, TableNames
    <3>2. CASE Tables[walk.at] # t
      <4>1. walk' = walk /\ tabN = tab
        BY <2>1, <2>2, <3>1, <3>2 DEF Insert, Walking
      <4> QED
        BY <2>2, <2>3, <2>5, <3>1, <4>1 DEF Walking
    <3>3. CASE Tables[walk.at] = t
      <4>1. tabN = tab \cup {n} /\ walk' = [walk EXCEPT !.ever = @ \cup {n}]
        BY <2>1, <2>2, <3>1, <3>3 DEF Insert, Walking
      <4> HIDE DEF tab, tabN
      <4>2. WalkOf(walk', tabN) /\ walk'.at = walk.at
        BY <3>1, <3>3, <4>1 DEF WalkOf, Walks
      <4> QED
        BY <2>2, <2>3, <2>5, <4>2 DEF Walking, tabN
    <3> QED
      BY <3>2, <3>3
  <2> QED
    BY <2>4, <2>5
<1>20. CASE \E i \in DOMAIN Tables, n \in Nodes : Remove(Tables[i], n)
  <2>1. PICK i \in DOMAIN Tables, n \in Nodes : Remove(Tables[i], n)
    BY <1>20
  <2> SUFFICES ASSUME ~Exit("list") PROVE Walking'
    BY DEF Exit, ExitLeaving, threads, shared, Walking
  <2> DEFINE t == Tables[i]
  <2>2. t \in TableNames /\ rest' = rest
    BY <2>1 DEF Remove, BrokerAt, TableNames, threads
  <2>3. table' \in [TableNames -> SUBSET Nodes]
    BY <2>1, <2>2 DEF Remove, Walking
  <2>4. CASE rest # "walk"
    <3>1. walk = NoWalk /\ walk.at = 0
      BY <2>4 DEF Walking, NoWalk
    <3>2. walk' = walk
      BY <2>1, <3>1 DEF Remove
    <3> QED
      BY <2>2, <2>3, <2>4, <3>1, <3>2 DEF Walking
  <2>5. CASE rest = "walk"
    <3> DEFINE tab == table[Tables[walk.at]]
               tabN == table'[Tables[walk.at]]
    <3>1. WalkOf(walk, tab) /\ Tables[walk.at] \in TableNames /\ walk.at > 0
      BY <2>5, ActorAssumption DEF Walking, WalkOf, TableNames
    <3>2. CASE Tables[walk.at] # t
      <4>1. walk' = walk /\ tabN = tab
        BY <2>1, <2>2, <3>1, <3>2 DEF Remove, Walking
      <4> QED
        BY <2>2, <2>3, <2>5, <3>1, <4>1 DEF Walking
    <3>3. CASE Tables[walk.at] = t
      <4>1. /\ n \in tab /\ tabN = tab \ {n}
            /\ walk' = [walk EXCEPT !.always = @ \ {n},
                          !.dangling = @ \/ (t \in Freed /\ n \in {walk.node, walk.next})]
        BY <2>1, <2>2, <3>1, <3>3 DEF Remove, Walking
      <4> HIDE DEF tab, tabN
      <4>2. WalkOf(walk', tabN) /\ walk'.at = walk.at
        BY <3>1, <3>3, <4>1 DEF WalkOf, Walks
      <4> QED
        BY <2>2, <2>3, <2>5, <4>2 DEF Walking, tabN
    <3> QED
      BY <3>2, <3>3
  <2> QED
    BY <2>4, <2>5
<1>21. CASE OpenHttp
  BY <1>21 DEF OpenHttp, RestAt, threads, pipes, shared, Order, Gone, Walking
<1>22. CASE BindHttp
  BY <1>22 DEF BindHttp, RestAt, threads, pipes, shared, Order, Gone, Walking
<1>23. CASE Visit
  <2>1. CASE Exit("walk")
    BY <2>1 DEF Exit, ExitLeaving, threads, shared, Walking
  <2>2. CASE ~Exit("walk")
    <3> DEFINE t == Tables[walk.at]
               w == [walk EXCEPT !.listed = @ \cup {walk.node}, !.inside = FALSE, !.torn = FALSE]
    <3>1. /\ rest = "walk" /\ rest' = "walk" /\ table' = table
          /\ walk.node > 0 /\ walk' = At(w, t, walk.next) /\ WalkOf(walk, table[t])
      BY <1>23, <2>2 DEF Visit, RestAt, threads, Walking
    <3>2. /\ w \in Walks /\ w.at = walk.at /\ w.node = walk.node /\ w.next = walk.next
          /\ w.always = walk.always /\ w.ever = walk.ever
          /\ w.listed = walk.listed \cup {walk.node} /\ walk.node \in walk.ever
          /\ walk.ever \subseteq Nat /\ walk.next \in Nat /\ walk.node \in Nat
      <4>1. walk \in Walks /\ walk.node \in Nodes /\ walk.node \in walk.ever
        BY <3>1, ActorAssumption DEF WalkOf, Walks
      <4>2. walk.ever \subseteq Nat /\ walk.next \in Nat /\ walk.node \in Nat
        BY <4>1, ActorAssumption DEF Walks
      <4>3. walk.listed \cup {walk.node} \in SUBSET Nodes
        BY <4>1 DEF Walks
      <4>4. /\ w \in Walks /\ w.at = walk.at /\ w.node = walk.node /\ w.next = walk.next
            /\ w.always = walk.always /\ w.ever = walk.ever
            /\ w.listed = walk.listed \cup {walk.node}
        BY <4>1, <4>3 DEF Walks
      <4> QED
        BY <4>1, <4>2, <4>4
    <3>3. t \in TableNames /\ table[t] \subseteq Nodes /\ walk.at \in DOMAIN Tables
      BY <3>1, ActorAssumption DEF WalkOf, TableNames, Walking
    <3>4. \A x \in w.always : x < w.next \/ w.next = 0 => x \in w.listed
      <4> SUFFICES ASSUME NEW x \in walk.always, x < walk.next \/ walk.next = 0
                   PROVE  x \in walk.listed \cup {walk.node}
        BY <3>2
      <4>1. x \in Nat
        BY <3>1, <3>2 DEF WalkOf
      <4>2. /\ x < walk.node => x \in walk.listed
            /\ x > walk.node => walk.next > 0 /\ x >= walk.next
        BY <3>1 DEF WalkOf
      <4> QED
        BY <3>2, <4>1, <4>2
    <3>5. /\ w.always \subseteq table[t] /\ table[t] \subseteq w.ever /\ w.listed \subseteq w.ever
          /\ w.next \in w.ever \cup {0}
      BY <3>1, <3>2 DEF WalkOf
    <3>6. w.at \in DOMAIN Tables /\ t = Tables[w.at] /\ walk' = At(w, t, w.next)
      BY <3>1, <3>2, <3>3
    <3> HIDE DEF w
    <3>7. WalkOf(At(w, t, w.next), table[t])
      BY <3>2, <3>3, <3>4, <3>5, <3>6, AtKeepsWalk
    <3>8. At(w, t, w.next).at = walk.at
      BY <3>2 DEF At, Walks
    <3> QED
      BY <3>1, <3>6, <3>7, <3>8 DEF Walking
  <2> QED
    BY <2>1, <2>2
<1>24. CASE NextTable
  <2>1. /\ rest = "walk" /\ table' = table
        /\ table \in [TableNames -> SUBSET Nodes] /\ walk.at \in DOMAIN Tables
    BY <1>24 DEF NextTable, RestAt, Walking, WalkOf
  <2>2. CASE walk.at < Len(Tables)
    <3>1. walk.at + 1 \in DOMAIN Tables
      BY <2>1, <2>2, ActorAssumption
    <3>2. walk' = First(walk.at + 1) /\ rest' = "walk"
      BY <1>24, <2>1, <2>2 DEF NextTable
    <3> QED
      BY <2>1, <3>1, <3>2, FirstIsWalk DEF Walking
  <2>3. CASE ~(walk.at < Len(Tables))
    BY <1>24, <2>1, <2>3 DEF NextTable, Walking
  <2> QED
    BY <2>2, <2>3
<1>25. CASE s_gc_pipe_msg
  BY <1>25 DEF s_gc_pipe_msg, RestAt, threads, pipes, shared, Order, Gone, Walking
<1>26. CASE RestLoopEnds
  BY <1>26 DEF RestLoopEnds, RestAt, threads, pipes, shared, Order, Gone, Walking
<1>27. CASE RestReturns
  BY <1>27 DEF RestReturns, RestAt, threads, pipes, shared, Order, Gone, Walking
<1>28. CASE \E route \in Routes : s_on_http(route)
  <2>1. PICK route \in Routes : s_on_http(route)
    BY <1>28
  <2>2. /\ rest = "loop" /\ table' = table /\ walk = NoWalk
        /\ table \in [TableNames -> SUBSET Nodes]
    BY <2>1 DEF s_on_http, RestAt, Walking
  <2>3. CASE route = "/stats"
    <3>1. walk' = First(1) /\ rest' = "walk" /\ 1 \in DOMAIN Tables
      BY <2>1, <2>3, ActorAssumption DEF s_on_http
    <3> QED
      BY <2>2, <3>1, FirstIsWalk DEF Walking
  <2>4. CASE route # "/stats"
    <3>1. walk' = NoWalk /\ rest' # "walk"
      BY <2>1, <2>2, <2>4 DEF s_on_http
    <3> QED
      BY <2>2, <3>1 DEF Walking
  <2> QED
    BY <2>3, <2>4
<1>29. CASE Kill
  BY <1>29 DEF Kill, Exit, ExitLeaving, threads, pipes, shared, Order, Gone, Walking
<1>30. CASE Restart
  BY <1>30 DEF Restart, Walking, EmptyTables, TableNames
<1>31. CASE UNCHANGED vars
  BY <1>31 DEF vars, threads, pipes, shared, Order, Gone, Walking
<1>32. CASE \E i \in DOMAIN Tables, n \in Nodes : Change(Tables[i], n)
  <2>1. CASE UNCHANGED <<rest, table, walk>>
    BY <2>1 DEF Walking
  <2>2. CASE ~UNCHANGED <<rest, table, walk>>
    <3>1. /\ walk' = [walk EXCEPT !.torn = TRUE] /\ UNCHANGED <<rest, table>> /\ walk.inside
      BY <1>32, <2>2 DEF Change, Exit, ExitLeaving, threads, shared
    <3>2. rest = "walk"
      BY <3>1 DEF Walking, NoWalk
    <3>3. WalkOf(walk, table[Tables[walk.at]])
      BY <3>2 DEF Walking
    <3>4. walk'.at = walk.at /\ WalkOf(walk', table[Tables[walk.at]])
      BY <3>1, <3>3 DEF WalkOf, Walks
    <3> QED
      BY <3>1, <3>2, <3>4 DEF Walking
  <2> QED
    BY <2>1, <2>2
<1>33. CASE Enter
  <2>1. CASE Exit("walk")
    BY <2>1 DEF Exit, ExitLeaving, threads, shared, Walking
  <2>2. CASE ~Exit("walk")
    <3>1. /\ walk' = [walk EXCEPT !.inside = TRUE] /\ UNCHANGED <<rest, table>> /\ rest = "walk"
      BY <1>33, <2>2 DEF Enter, RestAt, threads
    <3>2. WalkOf(walk, table[Tables[walk.at]])
      BY <3>1 DEF Walking
    <3>3. walk'.at = walk.at /\ WalkOf(walk', table[Tables[walk.at]])
      BY <3>1, <3>2 DEF WalkOf, Walks
    <3> QED
      BY <3>1, <3>3 DEF Walking
  <2> QED
    BY <2>1, <2>2
<1> QED
  BY <1>1, <1>2, <1>3, <1>4, <1>5, <1>6, <1>7, <1>8, <1>9, <1>10, <1>11, <1>12, <1>13, <1>14, <1>15, <1>16, <1>17, <1>18, <1>19, <1>20, <1>21, <1>22, <1>23, <1>24, <1>25, <1>26, <1>27, <1>28, <1>29, <1>30, <1>31, <1>32, <1>33
  DEF Next, MainSteps, BrokerSteps, RestSteps

\* The whole invariant.
THEOREM ActorInvariant == Spec => []ActorInv
<1>1. Init => ActorInv
  <2> SUFFICES ASSUME Init PROVE ActorInv
    OBVIOUS
  <2>1. Order
    BY DEF Init, Fresh, Order, Gone
  <2>2. Sockets
    BY DEF Init, Fresh, Gone, Sockets, NoConf, Confs
  <2>3. Walking
    BY DEF Init, Fresh, Walking, EmptyTables, TableNames
  <2> QED
    BY <2>1, <2>2, <2>3 DEF ActorInv
<1>2. ActorInv /\ [Next]_vars => ActorInv'
  BY NextOrder, NextSockets, NextWalking DEF ActorInv
<1> QED
  BY <1>1, <1>2, PTL DEF Spec

\* GET /stats lists what was there, whatever the broker's thread does to its
\* tables meanwhile.
THEOREM StatsListed == Spec => []StatsRight
<1>1. ActorInv => StatsRight
  BY DEF ActorInv, Walking, WalkOf, StatsRight
<1> QED
  BY <1>1, ActorInvariant, PTL

=============================================================================
