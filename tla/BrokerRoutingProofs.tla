------------------------ MODULE BrokerRoutingProofs -------------------------
(***************************************************************************)
(* Proofs about where Broker sends what clients send each other and what   *)
(* they publish, and about what it has told the broker above it of them,   *)
(* for every set of tenants, names, destinations and topics.               *)
(*                                                                         *)
(* The tables of BrokerProofs say that a client is found; OwnNames says    *)
(* whose it is: a registration stands under the tenant of the socket's own *)
(* key file, and its name begins with that tenant.  With it, the first     *)
(* label of a name decides which keys the client at the other end has.     *)
(***************************************************************************)
EXTENDS BrokerProofs, FiniteSetTheorems

\* Every local client is registered with the cookie of its own tenant, and
\* its name begins with that tenant.
OwnNamesIn(b) ==
  \A k \in DOMAIN b.lcl_cli :
    /\ k[1] \in ClientSocks
    /\ k = <<k[1], TenantOf[k[1]]>>
    /\ b.lcl_cli[k].name[1] = k[2]

OwnNames == OwnNamesIn(broker)

\* No client is added and none is given another name.
NamesKept(b, c) ==
  /\ DOMAIN c.lcl_cli \subseteq DOMAIN b.lcl_cli
  /\ \A k \in DOMAIN c.lcl_cli : c.lcl_cli[k].name = b.lcl_cli[k].name

(***************************************************************************)
(* Names.                                                                  *)
(***************************************************************************)
\* A prefixed name is a tenant's label and a client's name, never one alone.
LEMMA NameParts ==
  ASSUME NEW x \in Names
  PROVE  /\ x \in Seq(Labels) /\ Len(x) > 1
         /\ x[1] \in Tenants /\ Tail(x) \in ClientNames
         /\ x = PrefixName(x[1], Tail(x))
<1>0. PICK t \in Tenants, n \in ClientNames : x = PrefixName(t, n)
  BY DEF Names
<1>1. x = <<t>> \o n
  BY <1>0 DEF PrefixName
<1>2. t \in Labels /\ n \in Seq(Labels) /\ n # <<>>
  BY NamingAssumption, EnvironmentAssumption
<1>3. Len(n) > 0
  BY <1>2
<1>4. x \in Seq(Labels) /\ Len(x) > 1 /\ x[1] = t /\ Tail(x) = n
  BY <1>1, <1>2, <1>3
<1> QED
  BY <1>1, <1>4 DEF PrefixName

\* PrefixName can be undone.
LEMMA PrefixTail ==
  ASSUME NEW t \in Tenants, NEW n \in Seq(Labels)
  PROVE  /\ PrefixName(t, n) \in Seq(Labels)
         /\ PrefixName(t, n)[1] = t /\ Tail(PrefixName(t, n)) = n
BY NamingAssumption DEF PrefixName

(***************************************************************************)
(* OwnNames is an invariant.                                               *)
(***************************************************************************)
\* The table operations other than a registration.
LEMMA TablesKeepNames ==
  ASSUME NEW b, Shape(b), Sound(b)
  PROVE  /\ NamesKept(b, b)
         /\ \A c : SameTables(b, c) => NamesKept(b, c)
         /\ \A k \in DOMAIN b.lcl_cli : NamesKept(b, TouchClient(b, k))
         /\ \A K : NamesKept(b, UnlinkLocal(b, K))
<1>1. \A c : SameTables(b, c) => NamesKept(b, c)
  BY DEF SameTables, NamesKept
<1>2. ASSUME NEW k \in DOMAIN b.lcl_cli
      PROVE  NamesKept(b, TouchClient(b, k))
  <2>1. TouchClient(b, k).lcl_cli = [b.lcl_cli EXCEPT ![k].timeout = 0]
    BY DEF Shape, BrokerFields, TouchClient
  <2>2. \A x \in DOMAIN b.lcl_cli : b.lcl_cli[x] \in [name : Names, timeout : 0 .. Limit]
    BY DEF Sound, TablesOK
  <2> QED
    BY <2>1, <2>2 DEF NamesKept
<1>3. ASSUME NEW K
      PROVE  NamesKept(b, UnlinkLocal(b, K))
  <2>1. UnlinkLocal(b, K).lcl_cli = Without(b.lcl_cli, K)
    BY DEF Shape, BrokerFields, UnlinkLocal
  <2> QED
    BY <2>1 DEF NamesKept, Without, Restrict
<1> QED
  BY <1>1, <1>2, <1>3 DEF NamesKept

\* The operations that only concern brokers, distant clients or subscriptions.
LEMMA OthersKeepNames ==
  ASSUME NEW b, Shape(b)
  PROVE  /\ \A n, s : NamesKept(b, InsertDist(b, n, s))
         /\ \A N : NamesKept(b, RemoveDist(b, N))
         /\ \A s : NamesKept(b, InsertBroker(b, s))
         /\ \A s : NamesKept(b, TouchBroker(b, s))
         /\ \A S : NamesKept(b, remove_subscriptions(b, S))
         /\ \A s, x : NamesKept(b, remove_subscription(b, s, x))
         /\ \A s, x : NamesKept(b, insert_subscription(b, s, x))
         /\ \A s, x : NamesKept(b, nn_trie_subscribe(b, s, x))
<1>1. \A c : c.lcl_cli = b.lcl_cli => NamesKept(b, c)
  BY DEF NamesKept
<1>2. /\ \A n, s : InsertDist(b, n, s).lcl_cli = b.lcl_cli
      /\ \A N : RemoveDist(b, N).lcl_cli = b.lcl_cli
      /\ \A s : InsertBroker(b, s).lcl_cli = b.lcl_cli
      /\ \A s : TouchBroker(b, s).lcl_cli = b.lcl_cli
  BY DEF Shape, BrokerFields, InsertDist, RemoveDist, InsertBroker, TouchBroker
<1>3. /\ \A S : remove_subscriptions(b, S).lcl_cli = b.lcl_cli
      /\ \A s, x : remove_subscription(b, s, x).lcl_cli = b.lcl_cli
      /\ \A s, x : insert_subscription(b, s, x).lcl_cli = b.lcl_cli
      /\ \A s, x : nn_trie_subscribe(b, s, x).lcl_cli = b.lcl_cli
  BY DEF Shape, BrokerFields, remove_subscriptions, remove_subscription,
         insert_subscription, nn_trie_subscribe
<1> QED
  BY <1>1, <1>2, <1>3

\* Operations that keep the names compose.
LEMMA NamesKeptTrans ==
  ASSUME NEW b, NEW c, NEW d, NamesKept(b, c), NamesKept(c, d)
  PROVE  NamesKept(b, d)
BY DEF NamesKept

\* What a handler leaves of the local clients, registrations aside.
LEMMA RouterHandlersKeepNames ==
  ASSUME NEW b, Shape(b), Sound(b), NEW s, NEW t
  PROVE  /\ NamesKept(b, s_cb_unreg_cli(b, s, t).b)
         /\ NamesKept(b, s_cb_ping(b, s, t).b)
         /\ \A dest : NamesKept(b, s_cb_send(b, s, t, dest).b)
         /\ \A topic, scope : /\ NamesKept(b, s_cb_sub(b, s, t, topic, scope).b)
                              /\ NamesKept(b, s_cb_unsub(b, s, t, topic, scope).b)
         /\ \A topic, unscoped : NamesKept(b, s_cb_pub(b, s, t, topic, unscoped).b)
<1> DEFINE k == <<s, t>>
           c == TouchClient(b, k)
<1>1. NamesKept(b, b)
  BY TablesKeepNames
<1>2. HasLocal(b, k) => NamesKept(b, c) /\ Shape(c) /\ Sound(c)
  BY TablesKeepNames, TouchClientSound DEF HasLocal, Keeps
<1>3. NamesKept(b, s_cb_unreg_cli(b, s, t).b)
  <2> DEFINE d == remove_subscriptions(b, {s})
  <2>1. NamesKept(b, d) /\ Shape(d) /\ Sound(d)
    BY OthersKeepNames, SubscriptionSound DEF Keeps
  <2>2. s_cb_unreg_cli(b, s, t).b \in {b, UnlinkLocal(d, {k})}
    BY DEF s_cb_unreg_cli, Nothing, Result
  <2> HIDE DEF d
  <2>3. NamesKept(d, UnlinkLocal(d, {k}))
    BY <2>1, TablesKeepNames
  <2> QED
    BY <1>1, <2>1, <2>2, <2>3, NamesKeptTrans
<1>4. NamesKept(b, s_cb_ping(b, s, t).b)
  BY <1>1, <1>2, OthersKeepNames DEF s_cb_ping, Nothing, Result
<1>5. ASSUME NEW dest PROVE NamesKept(b, s_cb_send(b, s, t, dest).b)
  <2>1. s_cb_send(b, s, t, dest).b = IF HasLocal(b, k) THEN c ELSE b
    BY RouteState DEF s_cb_send, Nothing, Result
  <2> QED
    BY <1>1, <1>2, <2>1
<1>6. ASSUME NEW topic, NEW scope
      PROVE  /\ NamesKept(b, s_cb_sub(b, s, t, topic, scope).b)
             /\ NamesKept(b, s_cb_unsub(b, s, t, topic, scope).b)
  <2> DEFINE x == SubTopic(t, topic, scope, Scope)
             d == insert_subscription(c, s, x)
             e == nn_trie_subscribe(d, s, x)
             u == remove_subscription(c, s, x)
  <2>1. CASE ~HasLocal(b, k)
    BY <1>1, <2>1 DEF s_cb_sub, s_cb_unsub, Nothing, Result
  <2>2. CASE HasLocal(b, k)
    <3>1. /\ s_cb_sub(b, s, t, topic, scope).b \in {c, e}
          /\ s_cb_unsub(b, s, t, topic, scope).b \in {c, u}
      BY <2>2 DEF s_cb_sub, s_cb_unsub, Nothing, Result, WithPs
    <3>2. NamesKept(c, d) /\ Shape(d) /\ NamesKept(c, u)
      BY <1>2, <2>2, OthersKeepNames, SubscriptionSound DEF Keeps
    <3> HIDE DEF c, d, u
    <3>3. NamesKept(d, e)
      BY <3>2, OthersKeepNames
    <3> QED
      BY <1>2, <2>2, <3>1, <3>2, <3>3, NamesKeptTrans
  <2> QED
    BY <2>1, <2>2
<1>7. ASSUME NEW topic, NEW unscoped PROVE NamesKept(b, s_cb_pub(b, s, t, topic, unscoped).b)
  <2>1. s_cb_pub(b, s, t, topic, unscoped).b = IF HasLocal(b, k) THEN c ELSE b
    BY DEF s_cb_pub, Nothing, Result, WithPs
  <2> QED
    BY <1>1, <1>2, <2>1
<1> QED
  BY <1>3, <1>4, <1>5, <1>6, <1>7

\* The handlers for lower brokers, for the higher one, and the timers.
LEMMA OtherHandlersKeepNames ==
  ASSUME NEW b, Shape(b), Sound(b)
  PROVE  /\ \A s : NamesKept(b, s_cb_challok_broker(b, s).b)
         /\ \A s, t, n : /\ NamesKept(b, s_cb_adddcl(b, s, t, n).b)
                         /\ NamesKept(b, s_cb_unreg_dist_cli(b, s, t, n).b)
         /\ \A s, t, x, y : NamesKept(b, s_cb_forward_rsock(b, s, t, x, y).b)
         /\ NamesKept(b, Heard(b))
         /\ \A n : NamesKept(b, s_cb_high_error_regfail(b, n).b)
         /\ \A order : /\ NamesKept(b, s_check_cli_timeout(b, order).b)
                       /\ NamesKept(b, s_check_br_timeout(b, order).b)
<1>1. NamesKept(b, b)
  BY TablesKeepNames
<1>2. \A s : NamesKept(b, s_cb_challok_broker(b, s).b)
  BY <1>1, OthersKeepNames DEF s_cb_challok_broker, Nothing, Result
<1>3. \A s, t, n : /\ NamesKept(b, s_cb_adddcl(b, s, t, n).b)
                   /\ NamesKept(b, s_cb_unreg_dist_cli(b, s, t, n).b)
  BY <1>1, OthersKeepNames DEF s_cb_adddcl, s_cb_unreg_dist_cli, Nothing, Result
<1>4. ASSUME NEW s, NEW t, NEW x, NEW y
      PROVE  NamesKept(b, s_cb_forward_rsock(b, s, t, x, y).b)
  <2>1. s_cb_forward_rsock(b, s, t, x, y).b \in {b, TouchBroker(b, s)}
    BY RouteState DEF s_cb_forward_rsock, Nothing, Result
  <2> QED
    BY <1>1, <2>1, OthersKeepNames
<1> DEFINE h == Heard(b)
<1>5. NamesKept(b, h) /\ Shape(h) /\ Sound(h)
  BY HeardSound, TablesKeepNames
<1>6. ASSUME NEW n PROVE NamesKept(b, s_cb_high_error_regfail(b, n).b)
  <2> DEFINE k == b.rev_lcl_cli[n]
             d == remove_subscriptions(h, {k[1]})
  <2>1. s_cb_high_error_regfail(b, n).b \in {h, UnlinkLocal(d, {k}), RemoveDist(h, {n})}
    BY DEF s_cb_high_error_regfail, Nothing, Result
  <2> HIDE DEF h
  <2>2. NamesKept(h, d) /\ Shape(d) /\ Sound(d)
    BY <1>5, OthersKeepNames, SubscriptionSound DEF Keeps
  <2>3. NamesKept(h, RemoveDist(h, {n}))
    BY <1>5, OthersKeepNames
  <2> HIDE DEF d
  <2>4. NamesKept(d, UnlinkLocal(d, {k}))
    BY <2>2, TablesKeepNames
  <2> QED
    BY <1>5, <2>1, <2>2, <2>3, <2>4, NamesKeptTrans
<1>7. ASSUME NEW order PROVE NamesKept(b, s_check_cli_timeout(b, order).b)
  <2> DEFINE K == SilentClients(b)
             d == remove_subscriptions(b, {k[1] : k \in K})
             e == UnlinkLocal(d, K)
             L == [k \in DOMAIN e.lcl_cli |-> [e.lcl_cli[k] EXCEPT !.timeout = @ + 1]]
             f == [e EXCEPT !.lcl_cli = L]
  <2>1. s_check_cli_timeout(b, order).b = f
    BY DEF s_check_cli_timeout, Result
  <2>2. NamesKept(b, d) /\ Shape(d) /\ Sound(d) /\ SameTables(b, d)
    BY OthersKeepNames, SubscriptionSound DEF Keeps
  <2>3. K \in SUBSET DOMAIN d.lcl_cli
    BY <2>2 DEF SilentClients, SameTables
  <2> HIDE DEF d
  <2>4. NamesKept(d, e) /\ Shape(e) /\ Sound(e)
    BY <2>2, <2>3, TablesKeepNames, UnlinkLocalSound DEF Keeps
  <2>5. \A k \in DOMAIN e.lcl_cli : e.lcl_cli[k] \in [name : Names, timeout : 0 .. Limit]
    BY <2>4 DEF Sound, TablesOK
  <2> HIDE DEF e
  <2>6. f.lcl_cli = L
    <3> HIDE DEF L
    <3> QED
      BY <2>4 DEF Shape, BrokerFields
  <2>7. NamesKept(e, f)
    BY <2>5, <2>6 DEF NamesKept
  <2> QED
    BY <2>1, <2>2, <2>4, <2>7, NamesKeptTrans
<1>8. ASSUME NEW order PROVE NamesKept(b, s_check_br_timeout(b, order).b)
  <2>1. s_check_br_timeout(b, order).b.lcl_cli = b.lcl_cli
    BY DEF s_check_br_timeout, Result, RemoveDist, Shape, BrokerFields
  <2> QED
    BY <2>1 DEF NamesKept
<1> QED
  BY <1>2, <1>3, <1>4, <1>5, <1>6, <1>7, <1>8

\* A registration adds one client, under the tenant whose cookie it showed.
LEMMA ChallokNames ==
  ASSUME NEW b, Shape(b), OwnNamesIn(b), NEW s \in ClientSocks, NEW n \in ClientNames
  PROVE  OwnNamesIn(s_cb_challok_client(b, s, TenantOf[s], n).b)
<1> DEFINE k == <<s, TenantOf[s]>>
           p == PrefixName(TenantOf[s], n)
           c == InsertLocal(b, s, TenantOf[s], n)
<1>1. s_cb_challok_client(b, s, TenantOf[s], n).b \in {b, c}
  BY DEF s_cb_challok_client, Nothing, Result
<1>2. p[1] = TenantOf[s]
  BY EnvironmentAssumption, PrefixTail
<1>3. c.lcl_cli = Put(b.lcl_cli, k, [name |-> p, timeout |-> 0])
  BY DEF Shape, BrokerFields, InsertLocal
<1> HIDE DEF c, p
<1>4. /\ DOMAIN c.lcl_cli = DOMAIN b.lcl_cli \cup {k}
      /\ c.lcl_cli[k] = [name |-> p, timeout |-> 0]
      /\ \A x \in DOMAIN b.lcl_cli : x # k => c.lcl_cli[x] = b.lcl_cli[x]
  BY <1>3 DEF Put
<1>5. OwnNamesIn(c)
  <2> SUFFICES ASSUME NEW x \in DOMAIN c.lcl_cli
               PROVE  /\ x[1] \in ClientSocks /\ x = <<x[1], TenantOf[x[1]]>>
                      /\ c.lcl_cli[x].name[1] = x[2]
    BY DEF OwnNamesIn
  <2>1. CASE x = k
    BY <1>2, <1>4, <2>1
  <2>2. CASE x # k
    BY <1>4, <2>2 DEF OwnNamesIn
  <2> QED
    BY <2>1, <2>2
<1> QED
  BY <1>1, <1>5

\* What keeps the names keeps OwnNames.
LEMMA NamesKeptOwn ==
  ASSUME NEW b, NEW c, OwnNamesIn(b), NamesKept(b, c)
  PROVE  OwnNamesIn(c)
BY DEF OwnNamesIn, NamesKept

\* A publication from another broker leaves the clients alone.
LEMMA RemotePubNames ==
  ASSUME NEW b, Shape(b), OwnNamesIn(b), NEW topic, NEW name, NEW pathv
  PROVE  /\ OwnNamesIn(s_on_subN_msg(b, topic, name, pathv).b)
         /\ OwnNamesIn(s_on_subS_msg(b, topic, name, pathv).b)
<1>1. \A c \in {b, [b EXCEPT !.state = CRASHED]} : OwnNamesIn(c)
  BY DEF Shape, BrokerFields, OwnNamesIn
<1>2. \A ps : DeliverRemote(b, topic, name, ps).b \in {b, [b EXCEPT !.state = CRASHED]}
  BY DEF DeliverRemote, WithPs, Result
<1> QED
  BY <1>1, <1>2 DEF s_on_subN_msg, s_on_subS_msg, Nothing, Result

\* Every callback, every timer and a restart keep OwnNames.
LEMMA NextOwnNames == IInv /\ OwnNames /\ [Next]_vars => OwnNames'
<1> SUFFICES ASSUME IInv, OwnNames, [Next]_vars PROVE OwnNamesIn(broker')
  BY DEF OwnNames
<1>0. Shape(broker) /\ Sound(broker) /\ OwnNamesIn(broker)
  BY IInvParts DEF OwnNames
<1>1. CASE ChallokClient
  BY <1>0, <1>1, DoStep, ChallokNames DEF ChallokClient
<1>2. CASE Unreg
  BY <1>0, <1>2, DoStep, RouterHandlersKeepNames, NamesKeptOwn DEF Unreg
<1>3. CASE PingClient
  BY <1>0, <1>3, DoStep, RouterHandlersKeepNames, NamesKeptOwn DEF PingClient
<1>4. CASE Send
  <2>1. PICK s \in ClientSocks, dest \in Dests :
          broker' = s_cb_send(broker, s, TenantOf[s], dest).b
    BY <1>4, DoStep DEF Send
  <2>2. NamesKept(broker, broker')
    BY <1>0, <2>1, RouterHandlersKeepNames
  <2> QED
    BY <1>0, <2>2, NamesKeptOwn
<1>5. CASE Sub
  <2>1. PICK s \in ClientSocks, n \in ClientTopics, sc \in ClientScopes :
          broker' = s_cb_sub(broker, s, TenantOf[s], n, sc).b
    BY <1>5, DoStep DEF Sub
  <2>2. NamesKept(broker, broker')
    BY <1>0, <2>1, RouterHandlersKeepNames
  <2> QED
    BY <1>0, <2>2, NamesKeptOwn
<1>6. CASE Unsub
  <2>1. PICK s \in ClientSocks, n \in ClientTopics, sc \in ClientScopes :
          broker' = s_cb_unsub(broker, s, TenantOf[s], n, sc).b
    BY <1>6, DoStep DEF Unsub
  <2>2. NamesKept(broker, broker')
    BY <1>0, <2>1, RouterHandlersKeepNames
  <2> QED
    BY <1>0, <2>2, NamesKeptOwn
<1>7. CASE Publish
  <2>1. PICK s \in ClientSocks, n \in PubTopics, unscoped \in BOOLEAN :
          broker' = s_cb_pub(broker, s, TenantOf[s], n, unscoped).b
    BY <1>7, DoStep DEF Publish
  <2>2. NamesKept(broker, broker')
    BY <1>0, <2>1, RouterHandlersKeepNames
  <2> QED
    BY <1>0, <2>2, NamesKeptOwn
<1>8. CASE ChallokBroker
  BY <1>0, <1>8, DoStep, OtherHandlersKeepNames, NamesKeptOwn DEF ChallokBroker
<1>9. CASE PingBroker
  BY <1>0, <1>9, DoStep, RouterHandlersKeepNames, NamesKeptOwn DEF PingBroker
<1>10. CASE AddDistant
  BY <1>0, <1>10, DoStep, OtherHandlersKeepNames, NamesKeptOwn DEF AddDistant
<1>11. CASE UnregDistant
  BY <1>0, <1>11, DoStep, OtherHandlersKeepNames, NamesKeptOwn DEF UnregDistant
<1>12. CASE ForwardRsock
  BY <1>0, <1>12, DoStep, OtherHandlersKeepNames, NamesKeptOwn DEF ForwardRsock
<1>13. CASE ChallMsg
  <2>1. broker'.lcl_cli = broker.lcl_cli
    BY <1>0, <1>13 DEF ChallMsg, Step, s_cb_chall, Heard, Result, Shape, BrokerFields
  <2> QED
    BY <1>0, <2>1, NamesKeptOwn DEF NamesKept
<1>14. CASE Regok
  <2>1. broker'.lcl_cli = broker.lcl_cli
    BY <1>0, <1>14 DEF Regok, Step, s_cb_regok, Heard, Result, Shape, BrokerFields
  <2> QED
    BY <1>0, <2>1, NamesKeptOwn DEF NamesKept
<1>15. CASE PongMsg
  <2>1. broker' = Heard(broker)
    BY <1>15, DoStep DEF PongMsg, Nothing, Result
  <2> QED
    BY <1>0, <2>1, OtherHandlersKeepNames, NamesKeptOwn
<1>16. CASE ForwardDsock
  <2>1. PICK p \in Pairs : broker' = s_cb_forward_dsock(broker, p[1], p[2]).b
    BY <1>16, DoStep DEF ForwardDsock
  <2> DEFINE h == Heard(broker)
             dead == [h EXCEPT !.state = CRASHED]
             inv == Nothing(dead)
  <2>2. inv.b = dead
    BY DEF Nothing, Result
  <2>3. broker' = Route(h, p[1], p[2], inv).b
    BY <2>1 DEF s_cb_forward_dsock
  <2>4. NamesKept(broker, h) /\ dead.lcl_cli = broker.lcl_cli
    BY <1>0, OtherHandlersKeepNames DEF Heard, Shape, BrokerFields
  <2> HIDE DEF inv
  <2>5. broker' \in {h, dead}
    BY <2>2, <2>3, RouteState
  <2>6. NamesKept(broker, broker')
    BY <2>4, <2>5 DEF NamesKept
  <2> QED
    BY <1>0, <2>6, NamesKeptOwn
<1>17. CASE NodstMsg
  <2>1. PICK p \in Pairs : broker' = s_cb_high_error_nodst(broker, p[2], p[1]).b
    BY <1>17, DoStep DEF NodstMsg
  <2>2. broker' = Heard(broker)
    BY <2>1 DEF s_cb_high_error_nodst, Result
  <2> QED
    BY <1>0, <2>2, OtherHandlersKeepNames, NamesKeptOwn
<1>18. CASE RegfailMsg
  BY <1>0, <1>18, OtherHandlersKeepNames, NamesKeptOwn DEF RegfailMsg, Step
<1>19. CASE Register
  <2>1. broker' = broker
    BY <1>19 DEF Register, Step, s_register, Result
  <2> QED
    BY <1>0, <2>1
<1>20. CASE Heartbeat
  <2>1. broker' = s_heartbeat(broker).b
    BY <1>20, DoStep DEF Heartbeat
  <2>2. broker'.lcl_cli = broker.lcl_cli
    BY <1>0, <2>1 DEF s_heartbeat, Result, Shape, BrokerFields
  <2> QED
    BY <1>0, <2>2, NamesKeptOwn DEF NamesKept
<1>21. CASE CheckCliTimeout
  BY <1>0, <1>21, DoStep, OtherHandlersKeepNames, NamesKeptOwn DEF CheckCliTimeout
<1>22. CASE CheckBrTimeout
  BY <1>0, <1>22, DoStep, OtherHandlersKeepNames, NamesKeptOwn DEF CheckBrTimeout
<1>23. CASE SubNMsg
  BY <1>0, <1>23, DoStep, RemotePubNames DEF SubNMsg
<1>24. CASE SubSMsg
  BY <1>0, <1>24, DoStep, RemotePubNames DEF SubSMsg
<1>25. CASE Restart
  <2>1. broker'.lcl_cli = <<>>
    BY <1>25 DEF Restart, NewBroker
  <2> QED
    BY <2>1 DEF OwnNamesIn
<1>26. CASE UNCHANGED vars
  BY <1>0, <1>26 DEF vars
<1>27. CASE ProtectedDies
  <2>1. broker' = [broker EXCEPT !.state = CRASHED]
    BY <1>27, DoStep DEF ProtectedDies, Nothing, Result
  <2>2. NamesKept(broker, broker')
    BY <1>0, <2>1 DEF NamesKept, Shape, BrokerFields
  <2> QED
    BY <1>0, <2>2, NamesKeptOwn
<1> QED
  BY <1>1, <1>2, <1>3, <1>4, <1>5, <1>6, <1>7, <1>8, <1>9, <1>10, <1>11, <1>12, <1>13,
     <1>14, <1>15, <1>16, <1>17, <1>18, <1>19, <1>20, <1>21, <1>22, <1>23, <1>24, <1>25,
     <1>26, <1>27
  DEF Next

\* In every reachable state a client's name tells the tenant its socket is of.
THEOREM ClientsOwnTheirNames == Spec => []OwnNames
<1>1. Init => OwnNames
  BY DEF Init, NewBroker, OwnNames, OwnNamesIn
<1> QED
  BY <1>1, NextOwnNames, IInvInvariant, PTL DEF Spec

(***************************************************************************)
(* What a routed message carries.                                          *)
(***************************************************************************)
\* The result r moves nothing but the message of src to dst, and as data only
\* to the socket that is registered under dst.
Carries(r, src, dst) ==
  /\ \A o \in r.rout :
       /\ o.m.cmd \in {"DATA", "FORWARD"} => o.m.src = src /\ o.m.dst = dst
       /\ o.m.cmd = "DATA" => /\ o.m.shown = Shown(src, dst)
                              /\ HasRevLocal(broker, dst)
                              /\ o.to = broker.rev_lcl_cli[dst][1]
  /\ \A i \in DOMAIN r.up : r.up[i].cmd = "FORWARD" => r.up[i].src = src /\ r.up[i].dst = dst

\* A result that moves no message.
Idle(r) ==
  /\ \A o \in r.rout : o.m.cmd \notin {"DATA", "FORWARD"}
  /\ r.up = <<>>

\* The lookup chain of SEND and FORWARD, in a broker that has the tables by name
\* of the present one.
LEMMA RouteCarries ==
  ASSUME NEW b, b.rev_lcl_cli = broker.rev_lcl_cli, NEW src, NEW dst, NEW invalid,
         Idle(invalid)
  PROVE  Carries(Route(b, src, dst, invalid), src, dst)
<1> DEFINE r == Route(b, src, dst, invalid)
<1> SUFFICES Carries(r, src, dst)
  OBVIOUS
<1>1. CASE HasRevLocal(b, dst)
  <2>1. r = Result(b, <<>>, To(b.rev_lcl_cli[dst][1], Data(src, dst)))
    BY <1>1 DEF Route
  <2>2. r.up = <<>> /\ r.rout = {[to |-> b.rev_lcl_cli[dst][1], m |-> Data(src, dst)]}
    BY <2>1 DEF Result, To
  <2> HIDE DEF r
  <2> QED
    BY <1>1, <2>2 DEF Carries, Data, HasRevLocal
<1>2. CASE ~HasRevLocal(b, dst) /\ HasDist(b, dst)
  <2>1. r = Result(b, <<>>, To(b.dist_cli[dst], Forward(src, dst)))
    BY <1>2 DEF Route
  <2>2. r.up = <<>> /\ r.rout = {[to |-> b.dist_cli[dst], m |-> Forward(src, dst)]}
    BY <2>1 DEF Result, To
  <2> HIDE DEF r
  <2> QED
    BY <2>2 DEF Carries, Forward
<1>3. CASE ~HasRevLocal(b, dst) /\ ~HasDist(b, dst) /\ b.state = ROOT
  <2>1. r = invalid
    BY <1>3 DEF Route
  <2> QED
    BY <2>1 DEF Carries, Idle
<1>4. CASE ~HasRevLocal(b, dst) /\ ~HasDist(b, dst) /\ b.state # ROOT
  <2>1. r = Result(b, forward_up(b, src, dst), {})
    BY <1>4 DEF Route
  <2>2. r.rout = {} /\ (r.up = <<>> \/ r.up = <<Forward(src, dst)>>)
    BY <2>1 DEF Result, forward_up
  <2> HIDE DEF r
  <2> QED
    BY <2>2 DEF Carries, Forward
<1> QED
  BY <1>1, <1>2, <1>3, <1>4

\* A destination is resolved within the sender's tenant, to the public one, or
\* by a public client.
LEMMA ResolveStaysInWorld ==
  ASSUME NEW t \in Tenants, NEW src, src[1] = t, NEW dest \in Seq(Labels)
  PROVE  SameWorld(src, Resolve(t, dest))
<1>1. CASE IsPublic(dest)
  BY <1>1 DEF Resolve, IsPublic, SameWorld
<1>2. CASE ~IsPublic(dest) /\ t = "public"
  BY <1>2 DEF SameWorld
<1>3. CASE ~IsPublic(dest) /\ t # "public"
  BY <1>3, PrefixTail DEF Resolve, SameWorld
<1> QED
  BY <1>1, <1>2, <1>3

\* Every message that SEND or FORWARD moves is from a client's name to a name
\* of its world.
LEMMA RoutingsCarry ==
  ASSUME IInv, OwnNames, NEW r \in Routings
  PROVE  Idle(r) \/ \E src \in Names : \E dst : SameWorld(src, dst) /\ Carries(r, src, dst)
<1>0. Shape(broker) /\ Sound(broker) /\ OwnNamesIn(broker)
  BY IInvParts DEF OwnNames
<1>1. CASE \E s \in ClientSocks, dest \in Dests : r = s_cb_send(broker, s, TenantOf[s], dest)
  <2>1. PICK s \in ClientSocks, dest \in Dests : r = s_cb_send(broker, s, TenantOf[s], dest)
    BY <1>1
  <2> DEFINE k == <<s, TenantOf[s]>>
             src == broker.lcl_cli[k].name
             dst == Resolve(TenantOf[s], dest)
             c == TouchClient(broker, k)
             nodst == IF IsPublic(src) = IsPublic(dst) THEN Nodst(Tail(dst), Tail(src))
                                                        ELSE Nodst(dst, src)
             invalid == Result(c, <<>>, To(s, nodst))
  <2>2. CASE ~HasLocal(broker, k)
    BY <2>1, <2>2 DEF s_cb_send, Nothing, Result, Idle
  <2>3. CASE HasLocal(broker, k)
    <3>1. r = Route(c, src, dst, invalid)
      BY <2>1, <2>3 DEF s_cb_send
    <3>2. c.rev_lcl_cli = broker.rev_lcl_cli
      BY <1>0 DEF TouchClient, Shape, BrokerFields
    <3>3. Idle(invalid)
      <4>1. nodst.cmd = "NODST"
        BY DEF Nodst
      <4>2. invalid.up = <<>> /\ invalid.rout = {[to |-> s, m |-> nodst]}
        BY DEF Result, To
      <4> HIDE DEF nodst, invalid
      <4> QED
        BY <4>1, <4>2 DEF Idle
    <3>4. src \in Names /\ src[1] = TenantOf[s]
      BY <1>0, <2>3 DEF HasLocal, Sound, TablesOK, OwnNamesIn
    <3>5. TenantOf[s] \in Tenants /\ dest \in Seq(Labels)
      BY EnvironmentAssumption
    <3> HIDE DEF src, dst, c, invalid
    <3>6. Carries(r, src, dst)
      BY <3>1, <3>2, <3>3, RouteCarries
    <3>7. SameWorld(src, dst)
      BY <3>4, <3>5, ResolveStaysInWorld DEF dst
    <3> QED
      BY <3>4, <3>6, <3>7
  <2> QED
    BY <2>2, <2>3
<1>2. CASE \E s \in BrokerSocks, p \in Pairs :
             r = s_cb_forward_rsock(broker, s, BrokerCookie, p[1], p[2])
  <2>1. PICK s \in BrokerSocks, p \in Pairs :
          r = s_cb_forward_rsock(broker, s, BrokerCookie, p[1], p[2])
    BY <1>2
  <2> DEFINE c == TouchBroker(broker, s)
             invalid == Result(c, <<>>, To(s, Nodst(p[2], p[1])))
  <2>2. p[1] \in Names /\ SameWorld(p[1], p[2])
    BY DEF Pairs
  <2>3. CASE ~HasBroker(broker, s, BrokerCookie)
    BY <2>1, <2>3 DEF s_cb_forward_rsock, Nothing, Result, Idle
  <2>4. CASE HasBroker(broker, s, BrokerCookie)
    <3>1. r = Route(c, p[1], p[2], invalid)
      BY <2>1, <2>4 DEF s_cb_forward_rsock
    <3>2. c.rev_lcl_cli = broker.rev_lcl_cli
      BY <1>0 DEF TouchBroker, Shape, BrokerFields
    <3>3. Idle(invalid)
      <4>1. invalid.up = <<>> /\ invalid.rout = {[to |-> s, m |-> Nodst(p[2], p[1])]}
        BY DEF Result, To
      <4> HIDE DEF invalid
      <4> QED
        BY <4>1 DEF Idle, Nodst
    <3> HIDE DEF c, invalid
    <3>4. Carries(r, p[1], p[2])
      BY <3>1, <3>2, <3>3, RouteCarries
    <3> QED
      BY <2>2, <3>4
  <2> QED
    BY <2>3, <2>4
<1>3. CASE \E p \in Pairs : r = s_cb_forward_dsock(broker, p[1], p[2])
  <2>1. PICK p \in Pairs : r = s_cb_forward_dsock(broker, p[1], p[2])
    BY <1>3
  <2> DEFINE h == Heard(broker)
             invalid == Nothing([h EXCEPT !.state = CRASHED])
  <2>2. p[1] \in Names /\ SameWorld(p[1], p[2])
    BY DEF Pairs
  <2>3. r = Route(h, p[1], p[2], invalid)
    BY <2>1 DEF s_cb_forward_dsock
  <2>4. h.rev_lcl_cli = broker.rev_lcl_cli
    BY <1>0 DEF Heard, Shape, BrokerFields
  <2>5. Idle(invalid)
    BY DEF Idle, Nothing, Result
  <2> HIDE DEF h, invalid
  <2>6. Carries(r, p[1], p[2])
    BY <2>3, <2>4, <2>5, RouteCarries
  <2> QED
    BY <2>2, <2>6
<1> QED
  BY <1>1, <1>2, <1>3 DEF Routings

\* Data goes to a client whose tenant the destination names.
LEMMA DataReachesOwner ==
  ASSUME IInv, OwnNames, NEW r \in Routings, NEW o \in r.rout, o.m.cmd = "DATA"
  PROVE  /\ o.m.src \in Names /\ o.m.dst \in Names /\ SameWorld(o.m.src, o.m.dst)
         /\ o.m.shown = Shown(o.m.src, o.m.dst)
         /\ <<o.to, o.m.dst[1]>> \in DOMAIN broker.lcl_cli
         /\ o.to \in ClientSocks /\ TenantOf[o.to] = o.m.dst[1]
<1>1. Sound(broker) /\ OwnNamesIn(broker)
  BY IInvParts DEF OwnNames
<1>2. PICK src, dst : src \in Names /\ SameWorld(src, dst) /\ Carries(r, src, dst)
  BY RoutingsCarry DEF Idle
<1>3. /\ o.m.src = src /\ o.m.dst = dst /\ o.m.shown = Shown(src, dst)
      /\ dst \in DOMAIN broker.rev_lcl_cli /\ o.to = broker.rev_lcl_cli[dst][1]
  BY <1>2 DEF Carries, HasRevLocal
<1> DEFINE k == broker.rev_lcl_cli[dst]
<1>4. dst \in Names /\ k \in DOMAIN broker.lcl_cli /\ broker.lcl_cli[k].name = dst
  BY <1>1, <1>3 DEF Sound, TablesOK, TablesAgree
<1>5. k[1] \in ClientSocks /\ k = <<k[1], TenantOf[k[1]]>> /\ dst[1] = k[2]
  BY <1>1, <1>4 DEF OwnNamesIn
<1> QED
  BY <1>2, <1>3, <1>4, <1>5

\* Nothing that SEND or FORWARD moves crosses from one tenant to another unless
\* one end is public, and data only reaches a client of the tenant addressed.
THEOREM TenantsStayApart == Spec => []Isolation
<1>1. IInv /\ OwnNames => Isolation
  <2> SUFFICES ASSUME IInv, OwnNames, NEW r \in Routings
               PROVE  /\ \A o \in r.rout :
                           /\ o.m.cmd \in {"DATA", "FORWARD"} => SameWorld(o.m.src, o.m.dst)
                           /\ o.m.cmd = "DATA" => <<o.to, o.m.dst[1]>> \in DOMAIN broker.lcl_cli
                      /\ \A i \in DOMAIN r.up :
                           r.up[i].cmd = "FORWARD" => SameWorld(r.up[i].src, r.up[i].dst)
    BY DEF Isolation
  <2>1. CASE Idle(r)
    BY <2>1 DEF Idle
  <2>2. CASE \E src \in Names : \E dst : SameWorld(src, dst) /\ Carries(r, src, dst)
    BY <2>2, DataReachesOwner DEF Carries
  <2> QED
    BY <2>1, <2>2, RoutingsCarry
<1> QED
  BY <1>1, IInvInvariant, ClientsOwnTheirNames, PTL

(***************************************************************************)
(* Replies.                                                                *)
(***************************************************************************)
\* The two tests on a prefixed name only ask for its tenant.
LEMMA NameTests ==
  ASSUME NEW x \in Names
  PROVE  (IsPublic(x) <=> x[1] = "public") /\ NamesATenant(x)
<1>1. Len(x) > 1 /\ x[1] \in Tenants
  BY NameParts
<1>2. <<x[1], x[1]>> \in StartsWith
  BY <1>1, NamingAssumption
<1> QED
  BY <1>1, <1>2 DEF IsPublic, NamesATenant

\* A plain name is not taken for a public one either.
LEMMA PlainName ==
  ASSUME PlainNames, NEW n \in ClientNames
  PROVE  ~NamesATenant(n) /\ ~IsPublic(n)
<1>1. ~NamesATenant(n)
  BY DEF PlainNames
<1>2. <<"public", "public">> \in StartsWith /\ "public" \in Tenants
  BY NamingAssumption
<1> QED
  BY <1>1, <1>2 DEF NamesATenant, IsPublic

\* The name shown of a source, typed as a destination, is the source again.
LEMMA ShownResolves ==
  ASSUME PlainNames, NEW src \in Names, NEW dst \in Names, SameWorld(src, dst)
  PROVE  Resolve(dst[1], Shown(src, dst)) = src
<1>1. /\ Tail(src) \in ClientNames /\ src = PrefixName(src[1], Tail(src))
      /\ IsPublic(src) <=> src[1] = "public"
      /\ IsPublic(dst) <=> dst[1] = "public"
      /\ NamesATenant(src)
  BY NameParts, NameTests
<1>2. ~NamesATenant(Tail(src)) /\ ~IsPublic(Tail(src))
  BY <1>1, PlainName
<1>3. CASE IsPublic(src) = IsPublic(dst)
  <2>1. src[1] = dst[1]
    BY <1>1, <1>3 DEF SameWorld
  <2>2. Shown(src, dst) = Tail(src)
    BY <1>3 DEF Shown
  <2> QED
    BY <1>1, <1>2, <2>1, <2>2 DEF Resolve
<1>4. CASE IsPublic(src) # IsPublic(dst)
  <2>1. Shown(src, dst) = src
    BY <1>4 DEF Shown
  <2>2. IsPublic(src) \/ dst[1] = "public"
    BY <1>1, <1>4 DEF IsPublic
  <2> QED
    BY <1>1, <2>1, <2>2 DEF Resolve
<1> QED
  BY <1>3, <1>4

\* With plain names, whoever answers to the source it was shown answers the sender.
THEOREM RepliesReachSenders ==
  ASSUME PlainNames
  PROVE  Spec => []ReplyReachesSender
<1>1. IInv /\ OwnNames => ReplyReachesSender
  BY DataReachesOwner, ShownResolves DEF ReplyReachesSender
<1> QED
  BY <1>1, IInvInvariant, ClientsOwnTheirNames, PTL

(***************************************************************************)
(* Keys.                                                                   *)
(***************************************************************************)
\* What a client of a tenant other than public has loaded.
LEMMA TenantKeysOf ==
  ASSUME NEW t \in Tenants, t # "public"
  PROVE  /\ KeysOf[t].ispublic = FALSE /\ KeysOf[t].hash = t
         /\ DOMAIN KeysOf[t].clientkeys = {}
         /\ KeysOf[t].custboxk = {t} /\ KeysOf[t].pubboxk = {"public", t}
         /\ KeysOf[t].ddboxk = {"dd", t}
<1> DEFINE file == generate_client_key(t)
<1>1. /\ DOMAIN file = {"hash", "privkey", "pubkey", "publicpubkey", "ddpubkey"}
      /\ file.hash = t /\ file.privkey = t /\ file.pubkey = t
      /\ file.publicpubkey = "public" /\ file.ddpubkey = "dd"
  BY DEF generate_client_key
<1> HIDE DEF file
<1>2. KeysOf[t] = TenantKeys(file)
  BY <1>1 DEF KeysOf, KeyFile, dd_keys_new, file
<1>3. DOMAIN <<>> = {}
  OBVIOUS
<1> QED
  BY <1>1, <1>2, <1>3 DEF TenantKeys, BoxKeys, crypto_box_beforenm

\* What a public client has loaded: a key with every other tenant besides its own.
LEMMA PublicKeysOf ==
  LET keys == KeysOf["public"] IN
  /\ keys.ispublic = TRUE /\ keys.hash = "public"
  /\ DOMAIN keys.clientkeys = Tenants \ {"public"}
  /\ \A t \in Tenants \ {"public"} : keys.clientkeys[t] = {t, "public"}
  /\ keys.custboxk = {"public"} /\ keys.pubboxk = {"public"}
  /\ keys.ddboxk = {"dd", "public"}
<1> DEFINE own == generate_client_key("public")
           keys == KeysOf["public"]
<1>0. "public" \in Tenants
  BY NamingAssumption
<1>1. /\ DOMAIN public_keys = Tenants /\ public_keys["public"] = own
      /\ \A t \in Tenants \ {"public"} : public_keys[t].r = t /\ public_keys[t].pubkey = t
  BY <1>0 DEF public_keys, Entry
<1>2. /\ own.hash = "public" /\ own.privkey = "public" /\ own.pubkey = "public"
      /\ own.publicpubkey = "public" /\ own.ddpubkey = "dd"
  BY DEF generate_client_key
<1> HIDE DEF own
<1>3. keys = BoxKeys(own, TRUE, ClientKeys(public_keys))
  BY <1>0, <1>1 DEF KeysOf, KeyFile, dd_keys_new, PublicKeys
<1>4. DOMAIN ClientKeys(public_keys) = Tenants \ {"public"}
  BY <1>1 DEF ClientKeys
<1>5. ASSUME NEW t \in Tenants \ {"public"}
      PROVE  ClientKeys(public_keys)[t] = {t, "public"}
  <2> DEFINE k == CHOOSE x \in DOMAIN public_keys \ {"public"} : public_keys[x].r = t
  <2>1. k = t
    BY <1>1
  <2>2. ClientKeys(public_keys)[t]
          = crypto_box_beforenm(public_keys[k].pubkey, public_keys["public"].privkey)
    BY <1>4 DEF ClientKeys
  <2> HIDE DEF k
  <2> QED
    BY <1>1, <1>2, <2>1, <2>2 DEF crypto_box_beforenm
<1>6. /\ keys.ispublic = TRUE /\ keys.hash = "public"
      /\ keys.clientkeys = ClientKeys(public_keys)
      /\ keys.custboxk = {"public"} /\ keys.pubboxk = {"public"}
      /\ keys.ddboxk = {"dd", "public"}
  BY <1>2, <1>3 DEF BoxKeys, crypto_box_beforenm
<1> HIDE DEF keys
<1> QED
  BY <1>4, <1>5, <1>6 DEF keys

\* The challenge of a tenant's client is made with the key the client has.
LEMMA ChallengesOpen ==
  ASSUME NEW t \in Tenants
  PROVE  ChallengeOpens(KeysOf[t])
<1> DEFINE dd == broker_keys["dd"]
           kk == read_ddbrokerkeys(broker_keys)
<1>1. KeysOf[t].hash = t /\ KeysOf[t].ddboxk = {"dd", t}
  BY TenantKeysOf, PublicKeysOf
<1>2. t # "dd"
  BY KeysAssumption
<1>3. /\ DOMAIN broker_keys = Tenants \cup {"dd"}
      /\ broker_keys["dd"] = [privkey |-> "dd", pubkey |-> "dd"]
      /\ broker_keys[t] = Entry(t)
  BY <1>2 DEF broker_keys
<1>4. dd.privkey = "dd" /\ broker_keys[t].pubkey = t
  BY <1>3 DEF Entry
<1>5. kk.tenantkeys = [h \in DOMAIN broker_keys \ {"dd"} |->
                         [name |-> broker_keys[h].r,
                          boxk |-> crypto_box_beforenm(broker_keys[h].pubkey, dd.privkey)]]
  BY DEF read_ddbrokerkeys
<1> HIDE DEF kk, dd
<1>6. t \in DOMAIN kk.tenantkeys /\ kk.tenantkeys[t].boxk = {t, "dd"}
  BY <1>2, <1>3, <1>4, <1>5 DEF crypto_box_beforenm
<1> QED
  BY <1>1, <1>6 DEF ChallengeOpens, kk

\* The key that goes with a destination is the key that goes with the source
\* shown at the other end.
LEMMA KeysMeet ==
  ASSUME PlainNames, NEW src \in Names, NEW dst \in Names, SameWorld(src, dst),
         NEW dest \in Seq(Labels), Resolve(src[1], dest) = dst
  PROVE  dd_notify(KeysOf[src[1]], dest) = cb_data(KeysOf[dst[1]], Shown(src, dst))
<1> DEFINE t == src[1]
           u == dst[1]
           n == Tail(src)
           m == Tail(dst)
<1>1. /\ t \in Tenants /\ u \in Tenants /\ n \in ClientNames /\ m \in ClientNames
      /\ Len(src) > 1 /\ Len(dst) > 1
      /\ IsPublic(src) <=> t = "public"
      /\ IsPublic(dst) <=> u = "public"
  BY NameParts, NameTests
<1>2. \A x \in ClientNames : ~NamesATenant(x) /\ ~IsPublic(x)
  BY PlainName
<1>3. \A x \in ClientNames : ~HasClientKey(KeysOf["public"], x)
  <2>1. \A l \in Tenants : <<l, l>> \in StartsWith
    BY NamingAssumption
  <2> QED
    BY <1>2, <2>1, PublicKeysOf DEF HasClientKey, NamesATenant
<1>4. \/ dest = dst
      \/ ~IsPublic(dest) /\ dest = m /\ t = u
  <2>1. dst = dest \/ (~IsPublic(dest) /\ dst = PrefixName(t, dest))
    BY DEF Resolve
  <2>2. PrefixName(t, dest)[1] = t /\ Tail(PrefixName(t, dest)) = dest
    BY <1>1, PrefixTail
  <2> QED
    BY <2>1, <2>2
<1>5. t # "public" /\ dest = dst => IsPublic(dest)
  <2>1. PrefixName(t, dest) # dest
    BY <1>1, PrefixTail, NamingAssumption DEF PrefixName
  <2> QED
    BY <2>1 DEF Resolve
<1> HIDE DEF t, u, n, m
<1>6. CASE t # "public" /\ u # "public"
  <2>1. dest = m /\ t = u /\ ~IsPublic(dest)
    BY <1>1, <1>4, <1>5, <1>6
  <2>2. Shown(src, dst) = n
    BY <1>1, <1>6 DEF Shown, IsPublic, n
  <2>3. dd_notify(KeysOf[t], dest) = {t}
    BY <1>1, <1>6, <2>1, TenantKeysOf DEF dd_notify
  <2>4. cb_data(KeysOf[u], n) = {u}
    BY <1>1, <1>2, <1>6, TenantKeysOf DEF cb_data, HasClientKey
  <2> QED
    BY <2>1, <2>2, <2>3, <2>4 DEF t, u
<1>7. CASE t # "public" /\ u = "public"
  <2>1. dest = dst /\ IsPublic(dest)
    BY <1>1, <1>4, <1>5, <1>7
  <2>2. Shown(src, dst) = src
    BY <1>1, <1>7 DEF Shown
  <2>3. dd_notify(KeysOf[t], dest) = {"public", t}
    BY <1>1, <1>7, <2>1, TenantKeysOf DEF dd_notify
  <2>4. HasClientKey(KeysOf["public"], src)
    BY <1>1, <1>7, PublicKeysOf DEF HasClientKey, t
  <2>5. cb_data(KeysOf["public"], src) = {t, "public"}
    BY <1>1, <1>7, <2>4, PublicKeysOf DEF cb_data, t
  <2> QED
    BY <1>7, <2>2, <2>3, <2>5 DEF t, u
<1>8. CASE t = "public" /\ u # "public"
  <2>1. dest = dst /\ ~IsPublic(dest)
    BY <1>1, <1>4, <1>8
  <2>2. Shown(src, dst) = src
    BY <1>1, <1>8 DEF Shown
  <2>3. HasClientKey(KeysOf["public"], dst)
    BY <1>1, <1>8, PublicKeysOf DEF HasClientKey, u
  <2>4. dd_notify(KeysOf["public"], dest) = {u, "public"}
    BY <1>1, <1>8, <2>1, <2>3, PublicKeysOf DEF dd_notify, u
  <2>5. cb_data(KeysOf[u], src) = {"public", u}
    BY <1>1, <1>8, TenantKeysOf DEF cb_data, HasClientKey
  <2> QED
    BY <1>8, <2>2, <2>4, <2>5 DEF t, u
<1>9. CASE t = "public" /\ u = "public"
  <2>1. Shown(src, dst) = n
    BY <1>1, <1>9 DEF Shown, n
  <2>2. cb_data(KeysOf["public"], n) = {"public"}
    BY <1>1, <1>2, <1>3, PublicKeysOf DEF cb_data
  <2>3. dd_notify(KeysOf["public"], dest) = {"public"}
    BY <1>1, <1>2, <1>3, <1>4, <1>9, PublicKeysOf DEF dd_notify
  <2> QED
    BY <1>9, <2>1, <2>2, <2>3 DEF t, u
<1> QED
  BY <1>6, <1>7, <1>8, <1>9

\* With plain names, every client can open what it is sent, and its challenge.
THEOREM DataOpens ==
  ASSUME PlainNames
  PROVE  Spec => []Decryptable
<1>1. IInv /\ OwnNames => Decryptable
  <2> SUFFICES ASSUME IInv, OwnNames PROVE Decryptable
    OBVIOUS
  <2>1. ASSUME NEW r \in Routings, NEW o \in r.rout, o.m.cmd = "DATA",
               NEW dest \in Dests, Resolve(o.m.src[1], dest) = o.m.dst
        PROVE  dd_notify(KeysOf[o.m.src[1]], dest) = cb_data(KeysOf[TenantOf[o.to]], o.m.shown)
    <3>1. dest \in Seq(Labels)
      BY EnvironmentAssumption
    <3> QED
      BY <2>1, <3>1, DataReachesOwner, KeysMeet
  <2>2. \A s \in ClientSocks : ChallengeOpens(KeysOf[TenantOf[s]])
    BY ChallengesOpen, EnvironmentAssumption
  <2> QED
    BY <2>1, <2>2 DEF Decryptable
<1> QED
  BY <1>1, IInvInvariant, ClientsOwnTheirNames, PTL

(***************************************************************************)
(* What the higher broker has been told: a registered broker has announced *)
(* exactly the clients below it, but for those the higher one turned down  *)
(* (AnnouncedUpstream).                                                    *)
(*                                                                         *)
(* A handler adds one name or drops some and says so upstream, or leaves   *)
(* the names and says nothing.  UpInv adds what the REGOK of a new         *)
(* connection needs: nothing has been announced on it before, and the      *)
(* tables are finite, so that their traversals meet every entry.           *)
(***************************************************************************)
\* Every client below the broker, local or distant.
Known(b) == DOMAIN b.rev_lcl_cli \cup DOMAIN b.dist_cli

UpInv ==
  /\ FiniteTables(broker)
  /\ AnnouncedUpstream
  /\ dealer \in {"asked", "challenged"} => told = {}

(***************************************************************************)
(* Traversals and what they send.                                          *)
(***************************************************************************)
\* The names in a sequence of announcements and in one of retractions.
LEMMA NamesInMessages ==
  ASSUME NEW f, NEW S, \A x : x \in S <=> \E i \in DOMAIN f : f[i] = x
  PROVE  /\ NamesIn("ADDDCL", [i \in DOMAIN f |-> Adddcl(f[i])]) = S
         /\ NamesIn("UNREGDCLI", [i \in DOMAIN f |-> Adddcl(f[i])]) = {}
         /\ NamesIn("UNREGDCLI", [i \in DOMAIN f |-> Unregdcli(f[i])]) = S
         /\ NamesIn("ADDDCL", [i \in DOMAIN f |-> Unregdcli(f[i])]) = {}
<1> DEFINE A == [i \in DOMAIN f |-> Adddcl(f[i])]
           U == [i \in DOMAIN f |-> Unregdcli(f[i])]
<1>1. /\ DOMAIN A = DOMAIN f /\ \A i \in DOMAIN f : A[i].cmd = "ADDDCL" /\ A[i].name = f[i]
      /\ DOMAIN U = DOMAIN f /\ \A i \in DOMAIN f : U[i].cmd = "UNREGDCLI" /\ U[i].name = f[i]
  BY DEF Adddcl, Unregdcli
<1> HIDE DEF A, U
<1>2. NamesIn("ADDDCL", A) = S /\ NamesIn("UNREGDCLI", A) = {}
  BY <1>1 DEF NamesIn
<1>3. NamesIn("UNREGDCLI", U) = S /\ NamesIn("ADDDCL", U) = {}
  BY <1>1 DEF NamesIn
<1> QED
  BY <1>2, <1>3 DEF A, U

(***************************************************************************)
(* The three kinds of callback.                                            *)
(***************************************************************************)
\* The result r of a callback in b leaves the clients, and says nothing of any.
Quiet(b, r) ==
  /\ FiniteTables(b) => FiniteTables(r.b)
  /\ Known(r.b) = Known(b)
  /\ r.b.state = REGISTERED => b.state = REGISTERED
  /\ \A i \in DOMAIN r.up : r.up[i].cmd \notin {"ADDDCL", "UNREGDCLI"}

\* It adds the client n and announces it if there is somebody to announce it to.
Adds(b, r, n) ==
  /\ FiniteTables(b) => FiniteTables(r.b)
  /\ Known(r.b) = Known(b) \cup {n}
  /\ r.b.state = b.state
  /\ r.up = add_cli_up(b, n)

\* It drops the clients N and retracts them.
Drops(b, r, N) ==
  /\ FiniteTables(b) => FiniteTables(r.b)
  /\ Known(r.b) = Known(b) \ N
  /\ r.b.state = b.state
  /\ \E order : /\ r.up = del_cli_up(b, order)
                /\ \A x : x \in N <=> \E i \in DOMAIN order : order[i] = x

\* No message of a quiet callback is counted.
LEMMA QuietUp ==
  ASSUME NEW b, NEW r, Quiet(b, r)
  PROVE  NamesIn("ADDDCL", r.up) = {} /\ NamesIn("UNREGDCLI", r.up) = {}
BY DEF Quiet, NamesIn

\* What an addition counts as.
LEMMA AddsUp ==
  ASSUME NEW b, NEW r, NEW n, Adds(b, r, n)
  PROVE  /\ NamesIn("ADDDCL", r.up) = IF b.state = REGISTERED THEN {n} ELSE {}
         /\ NamesIn("UNREGDCLI", r.up) = {}
<1>1. CASE b.state = REGISTERED
  <2>1. r.up = <<Adddcl(n)>>
    BY <1>1 DEF Adds, add_cli_up
  <2>2. DOMAIN r.up = {1} /\ r.up[1] = Adddcl(n)
    BY <2>1
  <2> QED
    BY <1>1, <2>2 DEF NamesIn, Adddcl
<1>2. CASE b.state # REGISTERED
  BY <1>2 DEF Adds, add_cli_up, NamesIn
<1> QED
  BY <1>1, <1>2

\* What a removal counts as.
LEMMA DropsUp ==
  ASSUME NEW b, NEW r, NEW N, Drops(b, r, N)
  PROVE  /\ NamesIn("ADDDCL", r.up) = {}
         /\ NamesIn("UNREGDCLI", r.up) = IF b.state # ROOT THEN N ELSE {}
<1>1. PICK order : /\ r.up = del_cli_up(b, order)
                   /\ \A x : x \in N <=> \E i \in DOMAIN order : order[i] = x
  BY DEF Drops
<1>2. CASE b.state # ROOT
  BY <1>1, <1>2, NamesInMessages DEF del_cli_up
<1>3. CASE b.state = ROOT
  BY <1>1, <1>3 DEF del_cli_up, NamesIn
<1> QED
  BY <1>2, <1>3

\* A quiet callback changes nothing that UpInv is about.
LEMMA QuietKeepsUp ==
  ASSUME UpInv, NEW r, Quiet(broker, r), Do(r)
  PROVE  UpInv'
<1>1. broker' = r.b /\ dealer' = dealer /\ told' = told /\ refused' = refused
  BY QuietUp DEF Do, Step
<1>2. FiniteTables(broker')
  BY <1>1 DEF UpInv, Quiet
<1>3. AnnouncedUpstream'
  BY <1>1 DEF UpInv, Quiet, AnnouncedUpstream, Known
<1> QED
  BY <1>1, <1>2, <1>3 DEF UpInv

\* A client that is added while registered is announced in the same callback.
LEMMA AddsKeepsUp ==
  ASSUME IInv, UpInv, NEW r, NEW n, Adds(broker, r, n), Do(r)
  PROVE  UpInv'
<1>1. /\ broker' = r.b /\ dealer' = dealer
      /\ told' = told \cup (IF broker.state = REGISTERED THEN {n} ELSE {})
      /\ refused' = refused \ (IF broker.state = REGISTERED THEN {n} ELSE {})
  BY AddsUp DEF Do, Step
<1>2. FiniteTables(broker')
  BY <1>1 DEF UpInv, Adds
<1>3. AnnouncedUpstream'
  BY <1>1 DEF UpInv, Adds, AnnouncedUpstream, Known
<1>4. dealer' \in {"asked", "challenged"} => told' = {}
  BY <1>1, DoStep DEF UpInv, IInv, TimersInStep, Unregistered, UNREG, ROOT, REGISTERED
<1> QED
  BY <1>2, <1>3, <1>4 DEF UpInv

\* Clients that are dropped while registered are retracted in the same callback.
LEMMA DropsKeepsUp ==
  ASSUME UpInv, NEW r, NEW N, Drops(broker, r, N), Do(r)
  PROVE  UpInv'
<1>1. /\ broker' = r.b /\ dealer' = dealer /\ refused' = refused
      /\ told' = told \ (IF broker.state # ROOT THEN N ELSE {})
  BY DropsUp DEF Do, Step
<1>2. FiniteTables(broker')
  BY <1>1 DEF UpInv, Drops
<1>3. AnnouncedUpstream'
  BY <1>1 DEF UpInv, Drops, AnnouncedUpstream, Known, REGISTERED, ROOT
<1>4. dealer' \in {"asked", "challenged"} => told' = {}
  BY <1>1 DEF UpInv
<1> QED
  BY <1>2, <1>3, <1>4 DEF UpInv

(***************************************************************************)
(* The table operations.                                                   *)
(***************************************************************************)
\* What the operations leave of the names.
LEMMA TablesByName ==
  ASSUME NEW b, Shape(b)
  PROVE  /\ \A s, t, n : LET c == InsertLocal(b, s, t, n)
                         IN /\ c.state = b.state /\ c.dist_cli = b.dist_cli
                            /\ DOMAIN c.rev_lcl_cli = DOMAIN b.rev_lcl_cli \cup {PrefixName(t, n)}
         /\ \A K : LET c == UnlinkLocal(b, K)
                   IN /\ c.state = b.state /\ c.dist_cli = b.dist_cli
                      /\ DOMAIN c.rev_lcl_cli =
                           DOMAIN b.rev_lcl_cli \ {b.lcl_cli[k].name : k \in K}
         /\ \A n, s : LET c == InsertDist(b, n, s)
                      IN /\ c.state = b.state /\ c.rev_lcl_cli = b.rev_lcl_cli
                         /\ DOMAIN c.dist_cli = DOMAIN b.dist_cli \cup {n}
         /\ \A N : LET c == RemoveDist(b, N)
                   IN /\ c.state = b.state /\ c.rev_lcl_cli = b.rev_lcl_cli
                      /\ DOMAIN c.dist_cli = DOMAIN b.dist_cli \ N
<1>1. ASSUME NEW s, NEW t, NEW n
      PROVE  LET c == InsertLocal(b, s, t, n)
             IN /\ c.state = b.state /\ c.dist_cli = b.dist_cli
                /\ DOMAIN c.rev_lcl_cli = DOMAIN b.rev_lcl_cli \cup {PrefixName(t, n)}
  <2> DEFINE c == InsertLocal(b, s, t, n)
  <2>1. /\ c.state = b.state /\ c.dist_cli = b.dist_cli
        /\ c.rev_lcl_cli = Put(b.rev_lcl_cli, PrefixName(t, n), <<s, t>>)
    BY DEF Shape, BrokerFields, InsertLocal
  <2> QED
    BY <2>1 DEF Put
<1>2. ASSUME NEW K
      PROVE  LET c == UnlinkLocal(b, K)
             IN /\ c.state = b.state /\ c.dist_cli = b.dist_cli
                /\ DOMAIN c.rev_lcl_cli = DOMAIN b.rev_lcl_cli \ {b.lcl_cli[k].name : k \in K}
  <2> DEFINE c == UnlinkLocal(b, K)
             N == {b.lcl_cli[k].name : k \in K}
  <2>1. /\ c.state = b.state /\ c.dist_cli = b.dist_cli
        /\ c.rev_lcl_cli = Without(b.rev_lcl_cli, N)
    BY DEF Shape, BrokerFields, UnlinkLocal
  <2> HIDE DEF c, N
  <2>2. DOMAIN c.rev_lcl_cli = DOMAIN b.rev_lcl_cli \ N
    BY <2>1 DEF Without, Restrict
  <2> QED
    BY <2>1, <2>2 DEF c, N
<1>3. ASSUME NEW n, NEW s
      PROVE  LET c == InsertDist(b, n, s)
             IN /\ c.state = b.state /\ c.rev_lcl_cli = b.rev_lcl_cli
                /\ DOMAIN c.dist_cli = DOMAIN b.dist_cli \cup {n}
  <2> DEFINE c == InsertDist(b, n, s)
  <2>1. /\ c.state = b.state /\ c.rev_lcl_cli = b.rev_lcl_cli
        /\ c.dist_cli = Put(b.dist_cli, n, s)
    BY DEF Shape, BrokerFields, InsertDist
  <2> QED
    BY <2>1 DEF Put
<1>4. ASSUME NEW N
      PROVE  LET c == RemoveDist(b, N)
             IN /\ c.state = b.state /\ c.rev_lcl_cli = b.rev_lcl_cli
                /\ DOMAIN c.dist_cli = DOMAIN b.dist_cli \ N
  <2> DEFINE c == RemoveDist(b, N)
  <2>1. /\ c.state = b.state /\ c.rev_lcl_cli = b.rev_lcl_cli
        /\ c.dist_cli = Without(b.dist_cli, N)
    BY DEF Shape, BrokerFields, RemoveDist
  <2> QED
    BY <2>1 DEF Without, Restrict
<1> QED
  BY <1>1, <1>2, <1>3, <1>4

\* A callback that leaves both tables by name alone is quiet if its messages are.
LEMMA SameNamesQuiet ==
  ASSUME NEW b, NEW r,
         DOMAIN r.b.rev_lcl_cli = DOMAIN b.rev_lcl_cli, r.b.dist_cli = b.dist_cli,
         r.b.state = REGISTERED => b.state = REGISTERED,
         \A i \in DOMAIN r.up : r.up[i].cmd \notin {"ADDDCL", "UNREGDCLI"}
  PROVE  Quiet(b, r)
BY DEF Quiet, FiniteTables, Known

(***************************************************************************)
(* The handlers.                                                           *)
(***************************************************************************)
\* s_cb_challok announces the client it has registered.
LEMMA ChallokUp ==
  ASSUME NEW b, Shape(b), NEW s, NEW t, NEW n
  PROVE  LET r == s_cb_challok_client(b, s, t, n)
         IN Quiet(b, r) \/ \E x : Adds(b, r, x)
<1> DEFINE r == s_cb_challok_client(b, s, t, n)
           c == InsertLocal(b, s, t, n)
           p == PrefixName(t, n)
<1>1. CASE n = <<"public">> \/ ~CanInsertLocal(b, s, t, n)
  <2>1. r.b = b /\ r.up = <<>>
    BY <1>1 DEF s_cb_challok_client, Nothing, Result
  <2> QED
    BY <2>1, SameNamesQuiet
<1>2. CASE n # <<"public">> /\ CanInsertLocal(b, s, t, n)
  <2>1. r.b = c /\ r.up = add_cli_up(b, p)
    BY <1>2 DEF s_cb_challok_client, Result
  <2>2. /\ c.state = b.state /\ c.dist_cli = b.dist_cli
        /\ DOMAIN c.rev_lcl_cli = DOMAIN b.rev_lcl_cli \cup {p}
    BY TablesByName
  <2> HIDE DEF r, c
  <2>3. Adds(b, r, p)
    BY <2>1, <2>2, StaysFinite DEF Adds, FiniteTables, Known
  <2> QED
    BY <2>3 DEF r
<1> QED
  BY <1>1, <1>2

\* The tables after a set of local clients has been unlinked.
LEMMA UnlinkDrops ==
  ASSUME NEW b, Shape(b), Sound(b), NEW K \in SUBSET DOMAIN b.lcl_cli, NEW S
  PROVE  LET c == UnlinkLocal(remove_subscriptions(b, S), K)
             N == {b.lcl_cli[k].name : k \in K}
         IN /\ FiniteTables(b) => FiniteTables(c)
            /\ Known(c) = Known(b) \ N
            /\ c.state = b.state /\ Shape(c)
            /\ N \subseteq DOMAIN b.rev_lcl_cli
<1> DEFINE d == remove_subscriptions(b, S)
           c == UnlinkLocal(d, K)
           N == {b.lcl_cli[k].name : k \in K}
<1>1. Shape(d) /\ SameTables(b, d) /\ d.state = b.state /\ Sound(d)
  BY SubscriptionSound DEF Keeps, SameScalars
<1>2. N \subseteq DOMAIN b.rev_lcl_cli
  BY DEF Sound, TablesAgree
<1>3. N \cap DOMAIN b.dist_cli = {}
  BY <1>2 DEF Sound, NamesDisjoint
<1> HIDE DEF d
<1>4. {d.lcl_cli[k].name : k \in K} = N
  BY <1>1 DEF SameTables
<1>5. /\ c.state = b.state /\ c.dist_cli = b.dist_cli
      /\ DOMAIN c.rev_lcl_cli = DOMAIN b.rev_lcl_cli \ N
  BY <1>1, <1>4, TablesByName DEF SameTables
<1>6. Shape(c)
  BY <1>1, UnlinkLocalSound DEF SameTables, Keeps
<1> HIDE DEF c, N
<1>7. FiniteTables(b) => FiniteTables(c)
  BY <1>5, StaysFinite DEF FiniteTables
<1>8. Known(c) = Known(b) \ N
  BY <1>3, <1>5 DEF Known
<1> QED
  BY <1>2, <1>5, <1>6, <1>7, <1>8 DEF c, N, d

\* s_cb_unreg_cli retracts the client it has unlinked.
LEMMA UnregUp ==
  ASSUME NEW b, Shape(b), Sound(b), NEW s, NEW t
  PROVE  LET r == s_cb_unreg_cli(b, s, t)
         IN Quiet(b, r) \/ \E N : Drops(b, r, N)
<1> DEFINE r == s_cb_unreg_cli(b, s, t)
           k == <<s, t>>
           x == b.lcl_cli[k].name
           c == UnlinkLocal(remove_subscriptions(b, {s}), {k})
<1>1. CASE ~HasLocal(b, k)
  <2>1. r.b = b /\ r.up = <<>>
    BY <1>1 DEF s_cb_unreg_cli, Nothing, Result
  <2> QED
    BY <2>1, SameNamesQuiet
<1>2. CASE HasLocal(b, k)
  <2>1. r.b = c /\ r.up = del_cli_up(b, <<x>>)
    BY <1>2 DEF s_cb_unreg_cli, Result
  <2>2. {k} \in SUBSET DOMAIN b.lcl_cli
    BY <1>2 DEF HasLocal
  <2>3. {b.lcl_cli[j].name : j \in {k}} = {x}
    OBVIOUS
  <2>4. /\ FiniteTables(b) => FiniteTables(c)
        /\ Known(c) = Known(b) \ {b.lcl_cli[j].name : j \in {k}}
        /\ c.state = b.state
    BY <2>2, UnlinkDrops
  <2>5. \A y : y \in {x} <=> \E i \in DOMAIN <<x>> : <<x>>[i] = y
    OBVIOUS
  <2> HIDE DEF r, c
  <2>6. Drops(b, r, {x})
    BY <2>1, <2>3, <2>4, <2>5 DEF Drops
  <2> QED
    BY <2>6 DEF r
<1> QED
  BY <1>1, <1>2

\* s_cb_adddcl announces the distant client it takes, s_cb_unreg_dist_cli
\* retracts the one it drops.
LEMMA DistantUp ==
  ASSUME NEW b, Shape(b), Sound(b), NEW s, NEW n
  PROVE  /\ LET r == s_cb_adddcl(b, s, BrokerCookie, n)
            IN Quiet(b, r) \/ \E x : Adds(b, r, x)
         /\ LET r == s_cb_unreg_dist_cli(b, s, BrokerCookie, n)
            IN Quiet(b, r) \/ \E N : Drops(b, r, N)
<1>1. LET r == s_cb_adddcl(b, s, BrokerCookie, n)
      IN Quiet(b, r) \/ \E x : Adds(b, r, x)
  <2> DEFINE r == s_cb_adddcl(b, s, BrokerCookie, n)
             c == InsertDist(b, n, s)
  <2>1. CASE ~HasBroker(b, s, BrokerCookie) \/ HasRevLocal(b, n) \/ HasDist(b, n)
    <3>1. r.b = b /\ r.up = <<>>
      BY <2>1 DEF s_cb_adddcl, Nothing, Result
    <3> QED
      BY <3>1, SameNamesQuiet
  <2>2. CASE HasBroker(b, s, BrokerCookie) /\ ~HasRevLocal(b, n) /\ ~HasDist(b, n)
    <3>1. r.b = c /\ r.up = add_cli_up(b, n)
      BY <2>2 DEF s_cb_adddcl, Result
    <3>2. /\ c.state = b.state /\ c.rev_lcl_cli = b.rev_lcl_cli
          /\ DOMAIN c.dist_cli = DOMAIN b.dist_cli \cup {n}
      BY TablesByName
    <3> HIDE DEF r, c
    <3>3. Adds(b, r, n)
      BY <3>1, <3>2, StaysFinite DEF Adds, FiniteTables, Known
    <3> QED
      BY <3>3 DEF r
  <2> QED
    BY <2>1, <2>2
<1>2. LET r == s_cb_unreg_dist_cli(b, s, BrokerCookie, n)
      IN Quiet(b, r) \/ \E N : Drops(b, r, N)
  <2> DEFINE r == s_cb_unreg_dist_cli(b, s, BrokerCookie, n)
             c == RemoveDist(b, {n})
  <2>1. CASE ~HasBroker(b, s, BrokerCookie) \/ ~HasDist(b, n)
    <3>1. r.b = b /\ r.up = <<>>
      BY <2>1 DEF s_cb_unreg_dist_cli, Nothing, Result
    <3> QED
      BY <3>1, SameNamesQuiet
  <2>2. CASE HasBroker(b, s, BrokerCookie) /\ HasDist(b, n)
    <3>1. r.b = c /\ r.up = del_cli_up(b, <<n>>)
      BY <2>2 DEF s_cb_unreg_dist_cli, Result
    <3>2. /\ c.state = b.state /\ c.rev_lcl_cli = b.rev_lcl_cli
          /\ DOMAIN c.dist_cli = DOMAIN b.dist_cli \ {n}
      BY TablesByName
    <3>3. n \notin DOMAIN b.rev_lcl_cli
      BY <2>2 DEF HasDist, Sound, NamesDisjoint
    <3>4. \A y : y \in {n} <=> \E i \in DOMAIN <<n>> : <<n>>[i] = y
      OBVIOUS
    <3> HIDE DEF r, c
    <3>5. /\ FiniteTables(b) => FiniteTables(c)
          /\ Known(c) = Known(b) \ {n}
      BY <3>2, <3>3, StaysFinite DEF FiniteTables, Known
    <3>6. Drops(b, r, {n})
      BY <3>1, <3>2, <3>4, <3>5 DEF Drops
    <3> QED
      BY <3>6 DEF r
  <2> QED
    BY <2>1, <2>2
<1> QED
  BY <1>1, <1>2

\* s_check_cli_timeout retracts every client it times out.
LEMMA CheckCliUp ==
  ASSUME NEW b, Shape(b), Sound(b), FiniteTables(b),
         NEW order \in SetToSeqs({b.lcl_cli[k].name : k \in SilentClients(b)})
  PROVE  \E N : Drops(b, s_check_cli_timeout(b, order), N)
<1> DEFINE r == s_check_cli_timeout(b, order)
           K == SilentClients(b)
           N == {b.lcl_cli[k].name : k \in K}
           c == UnlinkLocal(remove_subscriptions(b, {k[1] : k \in K}), K)
           L == [k \in DOMAIN c.lcl_cli |-> [c.lcl_cli[k] EXCEPT !.timeout = @ + 1]]
<1>1. r.b = [c EXCEPT !.lcl_cli = L] /\ r.up = del_cli_up(b, order)
  BY DEF s_check_cli_timeout, Result
<1>2. K \in SUBSET DOMAIN b.lcl_cli
  BY DEF SilentClients
<1>3. /\ FiniteTables(c) /\ Known(c) = Known(b) \ N /\ c.state = b.state
      /\ Shape(c) /\ N \subseteq DOMAIN b.rev_lcl_cli
  BY <1>2, UnlinkDrops
<1>4. IsFiniteSet(N)
  BY <1>3, FS_Subset DEF FiniteTables
<1>5. \A x : x \in N <=> \E i \in DOMAIN order : order[i] = x
  BY <1>4, TraversalMeetsAll
<1> HIDE DEF c, L, N, r
<1>6. r.b.rev_lcl_cli = c.rev_lcl_cli /\ r.b.dist_cli = c.dist_cli /\ r.b.state = c.state
  BY <1>1, <1>3 DEF Shape, BrokerFields
<1>7. Drops(b, r, N)
  BY <1>1, <1>3, <1>5, <1>6 DEF Drops, FiniteTables, Known
<1> QED
  BY <1>7 DEF r

\* s_check_br_timeout retracts every client behind the brokers it times out.
LEMMA CheckBrUp ==
  ASSUME NEW b, Shape(b), Sound(b), FiniteTables(b),
         NEW order \in SetToSeqs(Behind(b, SilentBrokers(b)))
  PROVE  \E N : Drops(b, s_check_br_timeout(b, order), N)
<1> DEFINE r == s_check_br_timeout(b, order)
           S == SilentBrokers(b)
           N == Behind(b, S)
           c == RemoveDist(b, N)
           L == [s \in DOMAIN c.lcl_br \ S |-> c.lcl_br[s] + 1]
<1>1. r.b = [c EXCEPT !.lcl_br = L] /\ r.up = del_cli_up(b, order)
  <2>1. r.b = [c EXCEPT !.lcl_br = [s \in DOMAIN @ \ S |-> @[s] + 1]]
    BY DEF s_check_br_timeout, Result
  <2>2. r.up = del_cli_up(b, order)
    BY DEF s_check_br_timeout, Result
  <2> QED
    BY <2>1, <2>2
<1>2. /\ c.state = b.state /\ c.rev_lcl_cli = b.rev_lcl_cli
      /\ DOMAIN c.dist_cli = DOMAIN b.dist_cli \ N
      /\ Shape(c)
  BY TablesByName, RemoveDistSound DEF Keeps
<1>3. N \subseteq DOMAIN b.dist_cli
  BY DEF Behind
<1>4. IsFiniteSet(N)
  BY <1>3, FS_Subset DEF FiniteTables
<1>5. \A x : x \in N <=> \E i \in DOMAIN order : order[i] = x
  BY <1>4, TraversalMeetsAll
<1>6. N \cap DOMAIN b.rev_lcl_cli = {}
  BY <1>3 DEF Sound, NamesDisjoint
<1> HIDE DEF c, L, N, r
<1>7. r.b.rev_lcl_cli = c.rev_lcl_cli /\ r.b.dist_cli = c.dist_cli /\ r.b.state = c.state
  BY <1>1, <1>2 DEF Shape, BrokerFields
<1>8. FiniteTables(r.b)
  BY <1>2, <1>7, StaysFinite DEF FiniteTables
<1>9. Drops(b, r, N)
  BY <1>1, <1>2, <1>5, <1>6, <1>7, <1>8 DEF Drops, Known
<1> QED
  BY <1>9 DEF r

\* The operations that leave both tables by name and the state alone.
LEMMA OthersByName ==
  ASSUME NEW b, Shape(b)
  PROVE  /\ \A k : LET c == TouchClient(b, k)
                   IN c.rev_lcl_cli = b.rev_lcl_cli /\ c.dist_cli = b.dist_cli /\ c.state = b.state
         /\ \A s : LET c == TouchBroker(b, s)
                   IN c.rev_lcl_cli = b.rev_lcl_cli /\ c.dist_cli = b.dist_cli /\ c.state = b.state
         /\ \A s : LET c == InsertBroker(b, s)
                   IN c.rev_lcl_cli = b.rev_lcl_cli /\ c.dist_cli = b.dist_cli /\ c.state = b.state
         /\ LET c == Heard(b)
            IN c.rev_lcl_cli = b.rev_lcl_cli /\ c.dist_cli = b.dist_cli /\ c.state = b.state
         /\ \A s, x : LET c == remove_subscription(b, s, x)
                      IN c.rev_lcl_cli = b.rev_lcl_cli /\ c.dist_cli = b.dist_cli /\ c.state = b.state
         /\ \A s, x : LET c == nn_trie_subscribe(insert_subscription(b, s, x), s, x)
                      IN c.rev_lcl_cli = b.rev_lcl_cli /\ c.dist_cli = b.dist_cli /\ c.state = b.state
BY DEF Shape, BrokerFields, TouchClient, TouchBroker, InsertBroker, Heard,
       remove_subscription, insert_subscription, nn_trie_subscribe

\* Routing sends nothing up but the message itself.
LEMMA RouteUp ==
  ASSUME NEW b, NEW src, NEW dst, NEW invalid, invalid.up = <<>>
  PROVE  \A i \in DOMAIN Route(b, src, dst, invalid).up :
           Route(b, src, dst, invalid).up[i].cmd = "FORWARD"
<1>1. \/ Route(b, src, dst, invalid).up = <<>>
      \/ Route(b, src, dst, invalid).up = <<Forward(src, dst)>>
  BY DEF Route, Result, forward_up
<1> QED
  BY <1>1 DEF Forward

\* The handlers of the ROUTER socket that neither add nor drop a client.
LEMMA RouterQuiet ==
  ASSUME NEW b, Shape(b), NEW s, NEW t
  PROVE  /\ Quiet(b, s_cb_ping(b, s, t))
         /\ \A dest : Quiet(b, s_cb_send(b, s, t, dest))
         /\ \A topic, scope : /\ Quiet(b, s_cb_sub(b, s, t, topic, scope))
                              /\ Quiet(b, s_cb_unsub(b, s, t, topic, scope))
         /\ \A topic, unscoped : Quiet(b, s_cb_pub(b, s, t, topic, unscoped))
         /\ Quiet(b, s_cb_challok_broker(b, s))
         /\ \A src, dst : Quiet(b, s_cb_forward_rsock(b, s, t, src, dst))
<1> DEFINE k == <<s, t>>
           c == TouchClient(b, k)
           d == TouchBroker(b, s)
<1>1. /\ c.rev_lcl_cli = b.rev_lcl_cli /\ c.dist_cli = b.dist_cli /\ c.state = b.state
      /\ d.rev_lcl_cli = b.rev_lcl_cli /\ d.dist_cli = b.dist_cli /\ d.state = b.state
  BY OthersByName
<1>2. Quiet(b, s_cb_ping(b, s, t))
  <2> DEFINE r == s_cb_ping(b, s, t)
  <2>1. r.b \in {b, c, d} /\ r.up = <<>>
    BY DEF s_cb_ping, Nothing, Result
  <2> QED
    BY <1>1, <2>1, SameNamesQuiet
<1>3. ASSUME NEW dest PROVE Quiet(b, s_cb_send(b, s, t, dest))
  <2> DEFINE r == s_cb_send(b, s, t, dest)
             src == b.lcl_cli[k].name
             dst == Resolve(t, dest)
             nodst == IF IsPublic(src) = IsPublic(dst) THEN Nodst(Tail(dst), Tail(src))
                                                        ELSE Nodst(dst, src)
             invalid == Result(c, <<>>, To(s, nodst))
  <2>1. CASE ~HasLocal(b, k)
    <3>1. r.b = b /\ r.up = <<>>
      BY <2>1 DEF s_cb_send, Nothing, Result
    <3> QED
      BY <3>1, SameNamesQuiet
  <2>2. CASE HasLocal(b, k)
    <3>1. r = Route(c, src, dst, invalid)
      BY <2>2 DEF s_cb_send
    <3>2. invalid.b = c /\ invalid.up = <<>>
      BY DEF Result
    <3> HIDE DEF c, src, dst, invalid
    <3>3. r.b = c /\ \A i \in DOMAIN r.up : r.up[i].cmd = "FORWARD"
      BY <3>1, <3>2, RouteState, RouteUp
    <3> QED
      BY <1>1, <3>3, SameNamesQuiet
  <2> QED
    BY <2>1, <2>2
<1>4. ASSUME NEW topic, NEW scope
      PROVE  /\ Quiet(b, s_cb_sub(b, s, t, topic, scope))
             /\ Quiet(b, s_cb_unsub(b, s, t, topic, scope))
  <2> DEFINE x == SubTopic(t, topic, scope, Scope)
             e == nn_trie_subscribe(insert_subscription(c, s, x), s, x)
             u == remove_subscription(c, s, x)
             r == s_cb_sub(b, s, t, topic, scope)
             q == s_cb_unsub(b, s, t, topic, scope)
  <2>1. r.b \in {b, c, e} /\ r.up = <<>>
    BY DEF s_cb_sub, Nothing, Result, WithPs
  <2>2. q.b \in {b, c, u} /\ q.up = <<>>
    BY DEF s_cb_unsub, Nothing, Result, WithPs
  <2>3. Shape(c)
    BY DEF TouchClient, Shape, BrokerFields
  <2> HIDE DEF c, x
  <2>4. /\ e.rev_lcl_cli = b.rev_lcl_cli /\ e.dist_cli = b.dist_cli /\ e.state = b.state
        /\ u.rev_lcl_cli = b.rev_lcl_cli /\ u.dist_cli = b.dist_cli /\ u.state = b.state
    BY <1>1, <2>3, OthersByName
  <2> HIDE DEF e, u, r, q
  <2>5. Quiet(b, r) /\ Quiet(b, q)
    BY <1>1, <2>1, <2>2, <2>4, SameNamesQuiet
  <2> QED
    BY <2>5 DEF r, q
<1>5. ASSUME NEW topic, NEW unscoped PROVE Quiet(b, s_cb_pub(b, s, t, topic, unscoped))
  <2> DEFINE r == s_cb_pub(b, s, t, topic, unscoped)
  <2>1. r.b \in {b, c} /\ r.up = <<>>
    BY DEF s_cb_pub, Nothing, Result, WithPs
  <2> QED
    BY <1>1, <2>1, SameNamesQuiet
<1>6. Quiet(b, s_cb_challok_broker(b, s))
  <2> DEFINE r == s_cb_challok_broker(b, s)
  <2>1. r.b \in {b, InsertBroker(b, s)} /\ r.up = <<>>
    BY DEF s_cb_challok_broker, Nothing, Result
  <2> QED
    BY <2>1, OthersByName, SameNamesQuiet
<1>7. ASSUME NEW src, NEW dst PROVE Quiet(b, s_cb_forward_rsock(b, s, t, src, dst))
  <2> DEFINE r == s_cb_forward_rsock(b, s, t, src, dst)
             invalid == Result(d, <<>>, To(s, Nodst(dst, src)))
  <2>1. CASE ~HasBroker(b, s, t)
    <3>1. r.b = b /\ r.up = <<>>
      BY <2>1 DEF s_cb_forward_rsock, Nothing, Result
    <3> QED
      BY <3>1, SameNamesQuiet
  <2>2. CASE HasBroker(b, s, t)
    <3>1. r = Route(d, src, dst, invalid)
      BY <2>2 DEF s_cb_forward_rsock
    <3>2. invalid.b = d /\ invalid.up = <<>>
      BY DEF Result
    <3> HIDE DEF d, invalid
    <3>3. r.b = d /\ \A i \in DOMAIN r.up : r.up[i].cmd = "FORWARD"
      BY <3>1, <3>2, RouteState, RouteUp
    <3> QED
      BY <1>1, <3>3, SameNamesQuiet
  <2> QED
    BY <2>1, <2>2
<1> QED
  BY <1>2, <1>3, <1>4, <1>5, <1>6, <1>7

\* So are these of the other sockets, and the heartbeat: it may end the
\* registration, but never starts one.
LEMMA OthersQuiet ==
  ASSUME NEW b, Shape(b)
  PROVE  /\ Quiet(b, Nothing(Heard(b)))
         /\ \A src, dst : /\ Quiet(b, s_cb_forward_dsock(b, src, dst))
                          /\ Quiet(b, s_cb_high_error_nodst(b, dst, src))
         /\ Quiet(b, s_heartbeat(b))
         /\ \A topic, name, pathv : /\ Quiet(b, s_on_subN_msg(b, topic, name, pathv))
                                    /\ Quiet(b, s_on_subS_msg(b, topic, name, pathv))
<1> DEFINE h == Heard(b)
           dead == [h EXCEPT !.state = CRASHED]
<1>1. h.rev_lcl_cli = b.rev_lcl_cli /\ h.dist_cli = b.dist_cli /\ h.state = b.state
  BY OthersByName
<1>2. dead.rev_lcl_cli = b.rev_lcl_cli /\ dead.dist_cli = b.dist_cli /\ dead.state # REGISTERED
  BY DEF Heard, Shape, BrokerFields, CRASHED, REGISTERED
<1>3. Quiet(b, Nothing(h))
  <2>1. Nothing(h).b = h /\ Nothing(h).up = <<>>
    BY DEF Nothing, Result
  <2> QED
    BY <1>1, <2>1, SameNamesQuiet
<1>4. ASSUME NEW src, NEW dst
      PROVE  /\ Quiet(b, s_cb_forward_dsock(b, src, dst))
             /\ Quiet(b, s_cb_high_error_nodst(b, dst, src))
  <2> DEFINE r == s_cb_forward_dsock(b, src, dst)
             invalid == Nothing(dead)
             q == s_cb_high_error_nodst(b, dst, src)
  <2>1. r = Route(h, src, dst, invalid)
    BY DEF s_cb_forward_dsock
  <2>2. invalid.b = dead /\ invalid.up = <<>>
    BY DEF Nothing, Result
  <2>3. q.b = h /\ q.up = <<>>
    BY DEF s_cb_high_error_nodst, Result
  <2> HIDE DEF h, invalid
  <2>4. r.b \in {h, dead} /\ \A i \in DOMAIN r.up : r.up[i].cmd = "FORWARD"
    BY <2>1, <2>2, RouteState, RouteUp
  <2> HIDE DEF dead
  <2>5. Quiet(b, r)
    BY <1>1, <1>2, <2>4, SameNamesQuiet
  <2>6. Quiet(b, q)
    BY <1>1, <2>3, SameNamesQuiet
  <2> QED
    BY <2>5, <2>6
<1>5. Quiet(b, s_heartbeat(b))
  <2> DEFINE r == s_heartbeat(b)
  <2>1. /\ r.b.rev_lcl_cli = b.rev_lcl_cli /\ r.b.dist_cli = b.dist_cli
        /\ r.b.state = REGISTERED => b.state = REGISTERED
    BY DEF s_heartbeat, Result, Shape, BrokerFields, ROOT, REGISTERED
  <2>2. r.up = <<Simple("PING")>>
    BY DEF s_heartbeat, Result
  <2>3. \A i \in DOMAIN r.up : r.up[i].cmd = "PING"
    BY <2>2 DEF Simple
  <2> QED
    BY <2>1, <2>3, SameNamesQuiet
<1>6. ASSUME NEW topic, NEW name, NEW pathv
      PROVE  /\ Quiet(b, s_on_subN_msg(b, topic, name, pathv))
             /\ Quiet(b, s_on_subS_msg(b, topic, name, pathv))
  <2> DEFINE e == [b EXCEPT !.state = CRASHED]
  <2>1. ASSUME NEW ps PROVE Quiet(b, DeliverRemote(b, topic, name, ps))
    <3> DEFINE r == DeliverRemote(b, topic, name, ps)
    <3>1. (r.b = b \/ r.b = e) /\ r.up = <<>>
      BY DEF DeliverRemote, WithPs, Result
    <3>2. e.rev_lcl_cli = b.rev_lcl_cli /\ e.dist_cli = b.dist_cli /\ e.state # REGISTERED
      BY DEF Shape, BrokerFields, CRASHED, REGISTERED
    <3> HIDE DEF e, r
    <3>3. Quiet(b, r)
      BY <3>1, <3>2, SameNamesQuiet
    <3> QED
      BY <3>3 DEF r
  <2>2. Quiet(b, Nothing(b))
    BY SameNamesQuiet DEF Nothing, Result
  <2> QED
    BY <2>1, <2>2 DEF s_on_subN_msg, s_on_subS_msg
<1> QED
  BY <1>3, <1>4, <1>5, <1>6

(***************************************************************************)
(* The invariant.                                                          *)
(***************************************************************************)
\* s_cb_high_error with REGFAIL drops the client that was turned down.
LEMMA RegfailDrops ==
  ASSUME NEW b, Shape(b), Sound(b), NEW n
  PROVE  LET r == s_cb_high_error_regfail(b, n)
         IN /\ FiniteTables(b) => FiniteTables(r.b)
            /\ Known(r.b) = Known(b) \ {n}
            /\ r.b.state = b.state /\ r.up = <<>>
<1> DEFINE r == s_cb_high_error_regfail(b, n)
           h == Heard(b)
           k == b.rev_lcl_cli[n]
           c == UnlinkLocal(remove_subscriptions(h, {k[1]}), {k})
<1>1. Shape(h) /\ Sound(h) /\ SameTables(b, h) /\ h.state = b.state
  BY HeardSound
<1>2. CASE HasRevLocal(b, n)
  <2>1. r.b = c /\ r.up = <<>>
    BY <1>2 DEF s_cb_high_error_regfail, Result
  <2> HIDE DEF h
  <2>2. k \in DOMAIN h.lcl_cli /\ h.lcl_cli[k].name = n
    BY <1>1, <1>2 DEF HasRevLocal, SameTables, Sound, TablesAgree
  <2>3. {h.lcl_cli[j].name : j \in {k}} = {n}
    BY <2>2
  <2>4. {k} \in SUBSET DOMAIN h.lcl_cli
    BY <2>2
  <2>5. /\ FiniteTables(h) => FiniteTables(c)
        /\ Known(c) = Known(h) \ {h.lcl_cli[j].name : j \in {k}}
        /\ c.state = h.state
    BY <1>1, <2>4, UnlinkDrops
  <2> HIDE DEF c
  <2> QED
    BY <1>1, <2>1, <2>3, <2>5 DEF SameTables, FiniteTables, Known
<1>3. CASE ~HasRevLocal(b, n) /\ HasDist(b, n)
  <2> DEFINE d == RemoveDist(h, {n})
  <2>1. r.b = d /\ r.up = <<>>
    BY <1>3 DEF s_cb_high_error_regfail, Result
  <2> HIDE DEF h
  <2>2. /\ d.state = h.state /\ d.rev_lcl_cli = h.rev_lcl_cli
        /\ DOMAIN d.dist_cli = DOMAIN h.dist_cli \ {n}
    BY <1>1, TablesByName
  <2> HIDE DEF d
  <2>3. FiniteTables(b) => FiniteTables(d)
    BY <1>1, <2>2, StaysFinite DEF SameTables, FiniteTables
  <2>4. Known(d) = Known(b) \ {n}
    BY <1>1, <1>3, <2>2 DEF SameTables, Known, HasRevLocal
  <2> QED
    BY <1>1, <2>1, <2>2, <2>3, <2>4
<1>4. CASE ~HasRevLocal(b, n) /\ ~HasDist(b, n)
  <2>1. r.b = h /\ r.up = <<>>
    BY <1>4 DEF s_cb_high_error_regfail, Nothing, Result
  <2> HIDE DEF h
  <2> QED
    BY <1>1, <1>4, <2>1 DEF SameTables, FiniteTables, Known, HasRevLocal, HasDist
<1> QED
  BY <1>2, <1>3, <1>4

\* s_cb_regok announces every client the broker has.
LEMMA RegokAnnounces ==
  ASSUME NEW b, FiniteTables(b), NEW l \in SetToSeqs(DOMAIN b.rev_lcl_cli),
         NEW d \in SetToSeqs(DOMAIN b.dist_cli)
  PROVE  LET up == s_cb_regok(b, l \o d).up
         IN NamesIn("ADDDCL", up) = Known(b) /\ NamesIn("UNREGDCLI", up) = {}
<1> DEFINE order == l \o d
           S == DOMAIN b.rev_lcl_cli
           T == DOMAIN b.dist_cli
<1>1. l \in Seq(S) /\ \A x : x \in S <=> \E i \in DOMAIN l : l[i] = x
  BY TraversalMeetsAll DEF FiniteTables
<1>2. d \in Seq(T) /\ \A x : x \in T <=> \E i \in DOMAIN d : d[i] = x
  BY TraversalMeetsAll DEF FiniteTables
<1> HIDE DEF S, T
<1>3. \A x : x \in S \cup T <=> \E i \in DOMAIN order : order[i] = x
  <2>1. /\ Len(l) \in Nat /\ Len(d) \in Nat
        /\ DOMAIN l = 1 .. Len(l) /\ DOMAIN d = 1 .. Len(d)
        /\ DOMAIN order = 1 .. Len(l) + Len(d)
    BY <1>1, <1>2
  <2>2. /\ \A i \in DOMAIN l : i \in DOMAIN order /\ order[i] = l[i]
        /\ \A i \in DOMAIN d : Len(l) + i \in DOMAIN order /\ order[Len(l) + i] = d[i]
    BY <1>1, <1>2, <2>1
  <2>3. \A i \in DOMAIN order : \/ i \in DOMAIN l /\ order[i] = l[i]
                                \/ i - Len(l) \in DOMAIN d /\ order[i] = d[i - Len(l)]
    BY <1>1, <1>2, <2>1
  <2> HIDE DEF order
  <2> QED
    BY <1>1, <1>2, <2>2, <2>3
<1>4. s_cb_regok(b, order).up = [i \in DOMAIN order |-> Adddcl(order[i])]
  BY DEF s_cb_regok, Result
<1>5. Known(b) = S \cup T
  BY DEF Known, S, T
<1> HIDE DEF order
<1>6. /\ NamesIn("ADDDCL", [i \in DOMAIN order |-> Adddcl(order[i])]) = S \cup T
      /\ NamesIn("UNREGDCLI", [i \in DOMAIN order |-> Adddcl(order[i])]) = {}
  BY <1>3, NamesInMessages, Zenon
<1> QED
  BY <1>4, <1>5, <1>6 DEF order

\* After REGOK everything is announced, on a connection on which nothing was.
LEMMA RegokUp ==
  ASSUME IInv, UpInv, Regok
  PROVE  UpInv'
<1>1. PICK l \in SetToSeqs(DOMAIN broker.rev_lcl_cli), d \in SetToSeqs(DOMAIN broker.dist_cli) :
        /\ dealer = "challenged" /\ dealer' = "done"
        /\ Step(s_cb_regok(broker, l \o d), told, refused)
  BY DEF Regok
<1>2. /\ NamesIn("ADDDCL", s_cb_regok(broker, l \o d).up) = Known(broker)
      /\ NamesIn("UNREGDCLI", s_cb_regok(broker, l \o d).up) = {}
  BY RegokAnnounces DEF UpInv
<1>3. broker'.rev_lcl_cli = broker.rev_lcl_cli /\ broker'.dist_cli = broker.dist_cli
  BY <1>1, IInvParts DEF Step, s_cb_regok, Heard, Result, Shape, BrokerFields
<1>4. told = {}
  BY <1>1 DEF UpInv
<1>5. told' = Known(broker)
  BY <1>1, <1>2, <1>4 DEF Step
<1>6. Known(broker') = Known(broker) /\ FiniteTables(broker')
  BY <1>3 DEF Known, FiniteTables, UpInv
<1>7. AnnouncedUpstream'
  BY <1>5, <1>6 DEF AnnouncedUpstream, Known
<1> QED
  BY <1>1, <1>6, <1>7 DEF UpInv

\* A broker starts with finite tables and nothing announced.
LEMMA StartUp ==
  ASSUME NEW b, b = NewBroker(StartState)
  PROVE  FiniteTables(b) /\ b.state # REGISTERED
<1>1. b.rev_lcl_cli = <<>> /\ b.dist_cli = <<>> /\ b.state = StartState
  BY DEF NewBroker
<1>2. DOMAIN <<>> = {}
  OBVIOUS
<1> QED
  BY <1>1, <1>2, FS_EmptySet, EnvironmentAssumption
  DEF FiniteTables, UNREG, ROOT, REGISTERED

\* Every callback, every timer and a restart keep UpInv.
LEMMA NextUp == IInv /\ UpInv /\ [Next]_vars => UpInv'
<1> SUFFICES ASSUME IInv, UpInv, [Next]_vars PROVE UpInv'
  OBVIOUS
<1>0. Shape(broker) /\ Sound(broker) /\ FiniteTables(broker)
  BY IInvParts DEF UpInv
<1>1. CASE ChallokClient
  BY <1>0, <1>1, ChallokUp, QuietKeepsUp, AddsKeepsUp DEF ChallokClient
<1>2. CASE Unreg
  BY <1>0, <1>2, UnregUp, QuietKeepsUp, DropsKeepsUp DEF Unreg
<1>3. CASE PingClient
  BY <1>0, <1>3, RouterQuiet, QuietKeepsUp DEF PingClient
<1>4. CASE Send
  <2>1. PICK s \in ClientSocks, dest \in Dests : Do(s_cb_send(broker, s, TenantOf[s], dest))
    BY <1>4 DEF Send
  <2> QED
    BY <1>0, <2>1, RouterQuiet, QuietKeepsUp
<1>5. CASE Sub
  <2>1. PICK s \in ClientSocks, n \in ClientTopics, sc \in ClientScopes :
          Do(s_cb_sub(broker, s, TenantOf[s], n, sc))
    BY <1>5 DEF Sub
  <2> QED
    BY <1>0, <2>1, RouterQuiet, QuietKeepsUp
<1>6. CASE Unsub
  <2>1. PICK s \in ClientSocks, n \in ClientTopics, sc \in ClientScopes :
          Do(s_cb_unsub(broker, s, TenantOf[s], n, sc))
    BY <1>6 DEF Unsub
  <2> QED
    BY <1>0, <2>1, RouterQuiet, QuietKeepsUp
<1>7. CASE Publish
  <2>1. PICK s \in ClientSocks, n \in PubTopics, unscoped \in BOOLEAN :
          Do(s_cb_pub(broker, s, TenantOf[s], n, unscoped))
    BY <1>7 DEF Publish
  <2> QED
    BY <1>0, <2>1, RouterQuiet, QuietKeepsUp
<1>8. CASE ChallokBroker
  BY <1>0, <1>8, RouterQuiet, QuietKeepsUp DEF ChallokBroker
<1>9. CASE PingBroker
  BY <1>0, <1>9, RouterQuiet, QuietKeepsUp DEF PingBroker
<1>10. CASE AddDistant
  BY <1>0, <1>10, DistantUp, QuietKeepsUp, AddsKeepsUp DEF AddDistant
<1>11. CASE UnregDistant
  BY <1>0, <1>11, DistantUp, QuietKeepsUp, DropsKeepsUp DEF UnregDistant
<1>12. CASE ForwardRsock
  <2>1. PICK s \in BrokerSocks, p \in Pairs :
          Do(s_cb_forward_rsock(broker, s, BrokerCookie, p[1], p[2]))
    BY <1>12 DEF ForwardRsock
  <2> QED
    BY <1>0, <2>1, RouterQuiet, QuietKeepsUp
<1>13. CASE ChallMsg
  <2>1. PICK id \in Ids : /\ dealer = "asked" /\ dealer' = "challenged"
                          /\ Step(s_cb_chall(broker, id), told, refused)
    BY <1>13 DEF ChallMsg
  <2>2. /\ broker'.rev_lcl_cli = broker.rev_lcl_cli /\ broker'.dist_cli = broker.dist_cli
        /\ broker'.state = broker.state
    BY <1>0, <2>1 DEF Step, s_cb_chall, Heard, Result, Shape, BrokerFields
  <2>3. told = {} /\ broker.state # REGISTERED
    BY <2>1 DEF UpInv, IInv, TimersInStep, Step, Unregistered, UNREG, ROOT, REGISTERED
  <2>4. NamesIn("ADDDCL", s_cb_chall(broker, id).up) = {}
    <3>1. s_cb_chall(broker, id).up = <<Simple("CHALLOK")>>
      BY DEF s_cb_chall, Result
    <3>2. \A i \in DOMAIN s_cb_chall(broker, id).up : s_cb_chall(broker, id).up[i].cmd = "CHALLOK"
      BY <3>1 DEF Simple
    <3> QED
      BY <3>2 DEF NamesIn
  <2>5. told' = {}
    BY <2>1, <2>3, <2>4 DEF Step
  <2> QED
    BY <1>0, <2>2, <2>3, <2>5 DEF UpInv, FiniteTables, AnnouncedUpstream
<1>14. CASE Regok
  BY <1>14, RegokUp
<1>15. CASE PongMsg
  BY <1>0, <1>15, OthersQuiet, QuietKeepsUp DEF PongMsg
<1>16. CASE ForwardDsock
  <2>1. PICK p \in Pairs : Do(s_cb_forward_dsock(broker, p[1], p[2]))
    BY <1>16 DEF ForwardDsock
  <2> QED
    BY <1>0, <2>1, OthersQuiet, QuietKeepsUp
<1>17. CASE NodstMsg
  <2>1. PICK p \in Pairs : Do(s_cb_high_error_nodst(broker, p[2], p[1]))
    BY <1>17 DEF NodstMsg
  <2> QED
    BY <1>0, <2>1, OthersQuiet, QuietKeepsUp
<1>18. CASE RegfailMsg
  <2>1. PICK n \in Names : /\ dealer = "done" /\ UNCHANGED dealer
                           /\ Step(s_cb_high_error_regfail(broker, n), told, refused \cup {n})
    BY <1>18 DEF RegfailMsg
  <2> DEFINE r == s_cb_high_error_regfail(broker, n)
  <2>2. /\ FiniteTables(r.b) /\ Known(r.b) = Known(broker) \ {n}
        /\ r.b.state = broker.state /\ r.up = <<>>
    BY <1>0, RegfailDrops
  <2>3. NamesIn("ADDDCL", r.up) = {} /\ NamesIn("UNREGDCLI", r.up) = {}
    BY <2>2 DEF NamesIn
  <2>4. broker' = r.b /\ told' = told /\ refused' = refused \cup {n} /\ dealer' = "done"
    BY <2>1, <2>3 DEF Step
  <2> HIDE DEF r
  <2>5. AnnouncedUpstream'
    BY <2>2, <2>4 DEF UpInv, AnnouncedUpstream, Known
  <2> QED
    BY <2>2, <2>4, <2>5 DEF UpInv
<1>19. CASE Register
  <2>1. /\ broker' = broker /\ broker.state # REGISTERED
        /\ Step(s_register(broker), {}, {})
    BY <1>19 DEF Register, Step, s_register, Result, Unregistered, UNREG, ROOT, REGISTERED
  <2>2. NamesIn("ADDDCL", s_register(broker).up) = {}
    <3>1. s_register(broker).up = <<Simple("ADDBR")>>
      BY <1>19 DEF Register, s_register, Result
    <3>2. \A i \in DOMAIN s_register(broker).up : s_register(broker).up[i].cmd = "ADDBR"
      BY <3>1 DEF Simple
    <3> QED
      BY <3>2 DEF NamesIn
  <2>3. told' = {}
    BY <2>1, <2>2 DEF Step
  <2> QED
    BY <1>0, <2>1, <2>3 DEF UpInv, AnnouncedUpstream
<1>20. CASE Heartbeat
  BY <1>0, <1>20, OthersQuiet, QuietKeepsUp DEF Heartbeat
<1>21. CASE CheckCliTimeout
  BY <1>0, <1>21, CheckCliUp, DropsKeepsUp DEF CheckCliTimeout
<1>22. CASE CheckBrTimeout
  BY <1>0, <1>22, CheckBrUp, DropsKeepsUp DEF CheckBrTimeout
<1>23. CASE SubNMsg
  <2>1. PICK p \in RemotePubs : Do(s_on_subN_msg(broker, p.topic, p.name, p.pathv))
    BY <1>23 DEF SubNMsg
  <2> QED
    BY <1>0, <2>1, OthersQuiet, QuietKeepsUp
<1>24. CASE SubSMsg
  <2>1. PICK p \in RemotePubs : Do(s_on_subS_msg(broker, p.topic, p.name, p.pathv))
    BY <1>24 DEF SubSMsg
  <2> QED
    BY <1>0, <2>1, OthersQuiet, QuietKeepsUp
<1>25. CASE Restart
  BY <1>25, StartUp DEF Restart, UpInv, AnnouncedUpstream
<1>26. CASE UNCHANGED vars
  BY <1>26 DEF vars, UpInv, AnnouncedUpstream
<1>27. CASE ProtectedDies
  <2> DEFINE e == [broker EXCEPT !.state = CRASHED]
             r == Nothing(e)
  <2>1. Do(r)
    BY <1>27 DEF ProtectedDies
  <2>2. e.rev_lcl_cli = broker.rev_lcl_cli /\ e.dist_cli = broker.dist_cli /\ e.state # REGISTERED
    BY <1>0 DEF Shape, BrokerFields, CRASHED, REGISTERED
  <2>3. r.b = e /\ r.up = <<>>
    BY DEF Nothing, Result
  <2> HIDE DEF e, r
  <2>4. Quiet(broker, r)
    BY <2>2, <2>3, SameNamesQuiet
  <2> QED
    BY <1>0, <2>1, <2>4, QuietKeepsUp
<1> QED
  BY <1>1, <1>2, <1>3, <1>4, <1>5, <1>6, <1>7, <1>8, <1>9, <1>10, <1>11, <1>12, <1>13,
     <1>14, <1>15, <1>16, <1>17, <1>18, <1>19, <1>20, <1>21, <1>22, <1>23, <1>24, <1>25,
     <1>26, <1>27
  DEF Next

\* A registered broker has announced every client below it on the present
\* connection, and what it announced and no longer has was turned down.
THEOREM UpstreamKnows == Spec => []AnnouncedUpstream
<1>1. Init => UpInv
  BY StartUp DEF Init, UpInv, AnnouncedUpstream
<1>2. UpInv => AnnouncedUpstream
  BY DEF UpInv
<1> QED
  BY <1>1, <1>2, NextUp, IInvInvariant, PTL DEF Spec

(***************************************************************************)
(* Subscriptions and publications.                                         *)
(*                                                                         *)
(* The subscription table and the trie are kept in step by hand: a node's  *)
(* reference count is a number, its sockets are a set, and removals take   *)
(* several sockets off at once.  HandlerProofs shows that the count stays  *)
(* right, because every removal is of a socket the node has; TrieSound     *)
(* adds that a node only has sockets of the tenant its topic begins with.  *)
(***************************************************************************)
\* Who is in the trie on a topic is of the topic's tenant.
OwnSockets(b) ==
  \A r, x : On(b, r, x) => Len(x) > 1 /\ r \in ClientSocks /\ TenantOf[r] = x[1]

TrieSound(b) == TrieCounts(b) /\ OwnSockets(b)

TopicInv == TrieSound(broker)

(***************************************************************************)
(* Topics.                                                                 *)
(***************************************************************************)
\* A subscription's topic begins with the tenant and goes on.
LEMMA SubTopicParts ==
  ASSUME NEW t \in Tenants, NEW topic \in ClientTopics, NEW scope \in ClientScopes
  PROVE  LET x == SubTopic(t, topic, scope, Scope) IN Len(x) > 1 /\ x[1] = t
<1> DEFINE L == Labels \cup {"/"}
           p == PrefixName(t, topic)
           sc == ScopeOf(scope, Scope)
<1>1. p \in Seq(L) /\ Len(p) > 1 /\ p[1] = t
  <2>1. t \in L /\ topic \in Seq(Labels) /\ Len(topic) > 0
    BY NamingAssumption, EnvironmentAssumption
  <2> QED
    BY <2>1 DEF PrefixName
<1>2. sc \in Seq(L)
  <2>1. CASE scope = <<"noscope">>
    BY <2>1 DEF ScopeOf
  <2>2. CASE scope # <<"noscope">>
    <3> DEFINE f == [j \in DOMAIN scope |-> IF scope[j] = "*" THEN Scope[j] ELSE scope[j]]
    <3>1. scope \in Seq(Labels) /\ Len(scope) <= Len(Scope) /\ Scope \in Seq(Labels)
      BY <2>2, EnvironmentAssumption, BrokerAssumption
    <3>2. f \in [1 .. Len(scope) -> L]
      BY <3>1
    <3>3. f \in Seq(L)
      BY <3>1, <3>2
    <3>4. sc = <<"/">> \o f
      BY <2>2 DEF ScopeOf
    <3> HIDE DEF f
    <3> QED
      BY <3>3, <3>4
  <2> QED
    BY <2>1, <2>2
<1>3. SubTopic(t, topic, scope, Scope) = p \o sc
  BY DEF SubTopic
<1> HIDE DEF p, sc
<1> QED
  BY <1>1, <1>2, <1>3

\* A publication's topic begins with the publisher's tenant, or with public.
LEMMA PubTopicTenant ==
  ASSUME NEW t \in Tenants, NEW topic \in PubTopics, NEW unscoped \in BOOLEAN
  PROVE  PubTopic(t, topic, unscoped, Scope)[1] = IF IsPublic(topic) THEN "public" ELSE t
<1> DEFINE L == Labels \cup {"/"}
           p == IF IsPublic(topic) THEN topic ELSE PrefixName(t, topic)
           sc == IF unscoped THEN <<>> ELSE <<"/">> \o Scope
<1>1. t \in L /\ topic \in Seq(Labels) /\ Len(topic) > 0 /\ Scope \in Seq(Labels)
  BY NamingAssumption, EnvironmentAssumption, BrokerAssumption
<1>2. p \in Seq(L) /\ Len(p) > 0 /\ p[1] = IF IsPublic(topic) THEN "public" ELSE t
  <2>1. CASE IsPublic(topic)
    BY <1>1, <2>1 DEF IsPublic
  <2>2. CASE ~IsPublic(topic)
    BY <1>1, <2>2 DEF PrefixName
  <2> QED
    BY <2>1, <2>2
<1>3. sc \in Seq(L)
  <2>1. <<"/">> \o Scope \in Seq(L) /\ <<>> \in Seq(L)
    BY <1>1
  <2> QED
    BY <2>1
<1>4. PubTopic(t, topic, unscoped, Scope) = p \o sc
  BY DEF PubTopic
<1> HIDE DEF p, sc
<1> QED
  BY <1>2, <1>3, <1>4

(***************************************************************************)
(* The trie.                                                               *)
(***************************************************************************)
\* The trie's soundness only depends on the two tables of subscriptions.
LEMMA SameSubsSound ==
  ASSUME NEW b, NEW c, TrieSound(b), SameSubs(b, c)
  PROVE  TrieSound(c)
BY SameSubsCounts DEF TrieSound, OwnSockets

\* remove_subscriptions keeps the trie sound.
LEMMA RemoveAllSound ==
  ASSUME NEW b, Shape(b), TrieSound(b), NEW S
  PROVE  TrieSound(remove_subscriptions(b, S))
BY RemoveAllCounts DEF TrieSound, OwnSockets

\* So does remove_subscription.
LEMMA RemoveOneSound ==
  ASSUME NEW b, Shape(b), TrieSound(b), NEW s, NEW topic
  PROVE  TrieSound(remove_subscription(b, s, topic))
BY RemoveOneCounts DEF TrieSound, OwnSockets

\* So does a subscription to a topic of the subscriber's tenant.
LEMMA SubscribeSound ==
  ASSUME NEW b, Shape(b), TrieSound(b), NEW s \in ClientSocks, NEW topic,
         Len(topic) > 1, topic[1] = TenantOf[s]
  PROVE  TrieSound(nn_trie_subscribe(insert_subscription(b, s, topic), s, topic))
BY SubscribeCounts DEF TrieSound, OwnSockets

(***************************************************************************)
(* The handlers.                                                           *)
(***************************************************************************)
\* The handlers for lower brokers and for the higher one that leave the
\* subscriptions alone.
LEMMA BrokerSubs ==
  ASSUME NEW b, Shape(b)
  PROVE  /\ \A s : SameSubs(b, s_cb_challok_broker(b, s).b)
         /\ \A s, t, n : /\ SameSubs(b, s_cb_adddcl(b, s, t, n).b)
                         /\ SameSubs(b, s_cb_unreg_dist_cli(b, s, t, n).b)
         /\ \A s, t, x, y : SameSubs(b, s_cb_forward_rsock(b, s, t, x, y).b)
         /\ \A id : SameSubs(b, s_cb_chall(b, id).b)
         /\ \A order : SameSubs(b, s_cb_regok(b, order).b)
         /\ \A x, y : /\ SameSubs(b, s_cb_forward_dsock(b, x, y).b)
                      /\ SameSubs(b, s_cb_high_error_nodst(b, x, y).b)
<1>1. \A s : SameSubs(b, s_cb_challok_broker(b, s).b)
  BY OthersSameSubs DEF s_cb_challok_broker, Nothing, Result
<1>2. \A s, t, n : /\ SameSubs(b, s_cb_adddcl(b, s, t, n).b)
                   /\ SameSubs(b, s_cb_unreg_dist_cli(b, s, t, n).b)
  BY OthersSameSubs DEF s_cb_adddcl, s_cb_unreg_dist_cli, Nothing, Result
<1>3. ASSUME NEW s, NEW t, NEW x, NEW y
      PROVE  SameSubs(b, s_cb_forward_rsock(b, s, t, x, y).b)
  <2>1. s_cb_forward_rsock(b, s, t, x, y).b \in {b, TouchBroker(b, s)}
    BY RouteState DEF s_cb_forward_rsock, Nothing, Result
  <2> QED
    BY <2>1, OthersSameSubs
<1>4. \A id : SameSubs(b, s_cb_chall(b, id).b)
  BY DEF SameSubs, s_cb_chall, Heard, Result, Shape, BrokerFields
<1>5. \A order : SameSubs(b, s_cb_regok(b, order).b)
  BY DEF SameSubs, s_cb_regok, Heard, Result, Shape, BrokerFields
<1>6. ASSUME NEW x, NEW y PROVE SameSubs(b, s_cb_forward_dsock(b, x, y).b)
  <2> DEFINE h == Heard(b)
             dead == [h EXCEPT !.state = CRASHED]
             inv == Nothing(dead)
  <2>1. inv.b = dead
    BY DEF Nothing, Result
  <2>2. s_cb_forward_dsock(b, x, y).b = Route(h, x, y, inv).b
    BY DEF s_cb_forward_dsock
  <2>3. SameSubs(b, h) /\ SameSubs(b, dead)
    BY OthersSameSubs DEF SameSubs, Heard, Shape, BrokerFields
  <2> HIDE DEF inv, dead, h
  <2>4. s_cb_forward_dsock(b, x, y).b \in {h, dead}
    BY <2>1, <2>2, RouteState
  <2> QED
    BY <2>3, <2>4
<1>7. \A x, y : SameSubs(b, s_cb_high_error_nodst(b, x, y).b)
  BY OthersSameSubs DEF s_cb_high_error_nodst, Result
<1> QED
  BY <1>1, <1>2, <1>3, <1>4, <1>5, <1>6, <1>7

\* The heartbeat, the check on lower brokers, and publications from elsewhere.
LEMMA TimerSubs ==
  ASSUME NEW b, Shape(b)
  PROVE  /\ SameSubs(b, s_heartbeat(b).b)
         /\ \A order : SameSubs(b, s_check_br_timeout(b, order).b)
         /\ \A topic, name, pathv : /\ SameSubs(b, s_on_subN_msg(b, topic, name, pathv).b)
                                    /\ SameSubs(b, s_on_subS_msg(b, topic, name, pathv).b)
<1>1. SameSubs(b, s_heartbeat(b).b)
  BY DEF SameSubs, s_heartbeat, Result, Shape, BrokerFields
<1>2. \A order : SameSubs(b, s_check_br_timeout(b, order).b)
  BY DEF SameSubs, s_check_br_timeout, RemoveDist, Result, Shape, BrokerFields
<1>3. \A c : c = b \/ c = [b EXCEPT !.state = CRASHED] => SameSubs(b, c)
  BY DEF SameSubs, Shape, BrokerFields
<1>4. \A topic, name, ps : LET c == DeliverRemote(b, topic, name, ps).b
                           IN c = b \/ c = [b EXCEPT !.state = CRASHED]
  BY DEF DeliverRemote, WithPs, Result
<1>5. \A topic, name, pathv : /\ SameSubs(b, s_on_subN_msg(b, topic, name, pathv).b)
                              /\ SameSubs(b, s_on_subS_msg(b, topic, name, pathv).b)
  BY <1>3, <1>4 DEF s_on_subN_msg, s_on_subS_msg, Nothing, Result
<1> QED
  BY <1>1, <1>2, <1>5

\* s_cb_sub and s_cb_unsub of a client, with the cookie of its tenant.
LEMMA SubUnsubSound ==
  ASSUME NEW b, Shape(b), TrieSound(b), NEW s \in ClientSocks,
         NEW topic \in ClientTopics, NEW scope \in ClientScopes
  PROVE  /\ TrieSound(s_cb_sub(b, s, TenantOf[s], topic, scope).b)
         /\ TrieSound(s_cb_unsub(b, s, TenantOf[s], topic, scope).b)
<1> DEFINE t == TenantOf[s]
           x == SubTopic(t, topic, scope, Scope)
           c == TouchClient(b, <<s, t>>)
           e == nn_trie_subscribe(insert_subscription(c, s, x), s, x)
           u == remove_subscription(c, s, x)
<1>1. /\ s_cb_sub(b, s, t, topic, scope).b \in {b, c, e}
      /\ s_cb_unsub(b, s, t, topic, scope).b \in {b, c, u}
  BY DEF s_cb_sub, s_cb_unsub, Nothing, Result, WithPs
<1>2. Shape(c) /\ TrieSound(c)
  <2>1. Shape(c)
    BY DEF TouchClient, Shape, BrokerFields
  <2> QED
    BY <2>1, OthersSameSubs, SameSubsSound
<1>3. Len(x) > 1 /\ x[1] = TenantOf[s]
  BY SubTopicParts, EnvironmentAssumption
<1> HIDE DEF c, x
<1>4. TrieSound(e) /\ TrieSound(u)
  BY <1>2, <1>3, SubscribeSound, RemoveOneSound
<1> QED
  BY <1>1, <1>2, <1>4

\* The client is gone, and its subscriptions with it: after UNREG, a refusal from
\* above, or too many silent ticks.
LEMMA GoneSound ==
  ASSUME NEW b, Shape(b), Sound(b), TrieSound(b)
  PROVE  /\ \A s, t : TrieSound(s_cb_unreg_cli(b, s, t).b)
         /\ \A n : TrieSound(s_cb_high_error_regfail(b, n).b)
         /\ \A order : TrieSound(s_check_cli_timeout(b, order).b)
<1>1. ASSUME NEW c, Shape(c), Sound(c), TrieSound(c), NEW S, NEW K
      PROVE  LET d == UnlinkLocal(remove_subscriptions(c, S), K) IN TrieSound(d) /\ Shape(d)
  <2> DEFINE r == remove_subscriptions(c, S)
             d == UnlinkLocal(r, K)
  <2>1. Shape(r) /\ TrieSound(r)
    BY <1>1, SubscriptionSound, RemoveAllSound DEF Keeps
  <2> HIDE DEF r
  <2>2. Shape(d)
    BY <2>1 DEF UnlinkLocal, Shape, BrokerFields
  <2>3. TrieSound(d)
    BY <2>1, OthersSameSubs, SameSubsSound
  <2> QED
    BY <2>2, <2>3 DEF r
<1>2. \A s, t : TrieSound(s_cb_unreg_cli(b, s, t).b)
  BY <1>1 DEF s_cb_unreg_cli, Nothing, Result
<1>3. ASSUME NEW n PROVE TrieSound(s_cb_high_error_regfail(b, n).b)
  <2> DEFINE h == Heard(b)
             k == b.rev_lcl_cli[n]
             d == UnlinkLocal(remove_subscriptions(h, {k[1]}), {k})
  <2>1. s_cb_high_error_regfail(b, n).b \in {h, d, RemoveDist(h, {n})}
    BY DEF s_cb_high_error_regfail, Nothing, Result
  <2>2. Shape(h) /\ Sound(h) /\ TrieSound(h)
    BY HeardSound, OthersSameSubs, SameSubsSound
  <2> HIDE DEF h
  <2>3. TrieSound(d)
    BY <1>1, <2>2
  <2>4. TrieSound(RemoveDist(h, {n}))
    BY <2>2, OthersSameSubs, SameSubsSound
  <2> QED
    BY <2>1, <2>2, <2>3, <2>4
<1>4. ASSUME NEW order PROVE TrieSound(s_check_cli_timeout(b, order).b)
  <2> DEFINE K == SilentClients(b)
             d == UnlinkLocal(remove_subscriptions(b, {k[1] : k \in K}), K)
             L == [k \in DOMAIN d.lcl_cli |-> [d.lcl_cli[k] EXCEPT !.timeout = @ + 1]]
             e == [d EXCEPT !.lcl_cli = L]
  <2>1. s_check_cli_timeout(b, order).b = e
    BY DEF s_check_cli_timeout, Result
  <2>2. TrieSound(d) /\ Shape(d)
    BY <1>1
  <2> HIDE DEF d, L
  <2>3. SameSubs(d, e)
    BY <2>2 DEF SameSubs, Shape, BrokerFields
  <2> QED
    BY <2>1, <2>2, <2>3, SameSubsSound
<1> QED
  BY <1>2, <1>3, <1>4

(***************************************************************************)
(* The invariant.                                                          *)
(***************************************************************************)
\* Every callback, every timer and a restart keep TopicInv.
LEMMA NextTopic == IInv /\ TopicInv /\ [Next]_vars => TopicInv'
<1> SUFFICES ASSUME IInv, TopicInv, [Next]_vars PROVE TrieSound(broker')
  BY DEF TopicInv
<1>0. Shape(broker) /\ Sound(broker) /\ TrieSound(broker)
  BY IInvParts DEF TopicInv
<1>1. CASE ChallokClient
  <2>1. PICK s \in ClientSocks, n \in ClientNames :
          broker' = s_cb_challok_client(broker, s, TenantOf[s], n).b
    BY <1>1, DoStep DEF ChallokClient
  <2>2. SameSubs(broker, broker')
    BY <1>0, <2>1, ClientSubs
  <2> QED
    BY <1>0, <2>2, SameSubsSound
<1>2. CASE Unreg
  BY <1>0, <1>2, DoStep, GoneSound DEF Unreg
<1>3. CASE PingClient
  BY <1>0, <1>3, DoStep, ClientSubs, SameSubsSound DEF PingClient
<1>4. CASE Send
  <2>1. PICK s \in ClientSocks, dest \in Dests :
          broker' = s_cb_send(broker, s, TenantOf[s], dest).b
    BY <1>4, DoStep DEF Send
  <2>2. SameSubs(broker, broker')
    BY <1>0, <2>1, ClientSubs
  <2> QED
    BY <1>0, <2>2, SameSubsSound
<1>5. CASE Sub
  <2>1. PICK s \in ClientSocks, n \in ClientTopics, sc \in ClientScopes :
          broker' = s_cb_sub(broker, s, TenantOf[s], n, sc).b
    BY <1>5, DoStep DEF Sub
  <2> QED
    BY <1>0, <2>1, SubUnsubSound
<1>6. CASE Unsub
  <2>1. PICK s \in ClientSocks, n \in ClientTopics, sc \in ClientScopes :
          broker' = s_cb_unsub(broker, s, TenantOf[s], n, sc).b
    BY <1>6, DoStep DEF Unsub
  <2> QED
    BY <1>0, <2>1, SubUnsubSound
<1>7. CASE Publish
  <2>1. PICK s \in ClientSocks, n \in PubTopics, unscoped \in BOOLEAN :
          broker' = s_cb_pub(broker, s, TenantOf[s], n, unscoped).b
    BY <1>7, DoStep DEF Publish
  <2>2. SameSubs(broker, broker')
    BY <1>0, <2>1, ClientSubs
  <2> QED
    BY <1>0, <2>2, SameSubsSound
<1>8. CASE ChallokBroker
  BY <1>0, <1>8, DoStep, BrokerSubs, SameSubsSound DEF ChallokBroker
<1>9. CASE PingBroker
  BY <1>0, <1>9, DoStep, ClientSubs, SameSubsSound DEF PingBroker
<1>10. CASE AddDistant
  <2>1. PICK s \in BrokerSocks, n \in Names :
          broker' = s_cb_adddcl(broker, s, BrokerCookie, n).b
    BY <1>10, DoStep DEF AddDistant
  <2> QED
    BY <1>0, <2>1, BrokerSubs, SameSubsSound
<1>11. CASE UnregDistant
  <2>1. PICK s \in BrokerSocks, n \in Names :
          broker' = s_cb_unreg_dist_cli(broker, s, BrokerCookie, n).b
    BY <1>11, DoStep DEF UnregDistant
  <2> QED
    BY <1>0, <2>1, BrokerSubs, SameSubsSound
<1>12. CASE ForwardRsock
  <2>1. PICK s \in BrokerSocks, p \in Pairs :
          broker' = s_cb_forward_rsock(broker, s, BrokerCookie, p[1], p[2]).b
    BY <1>12, DoStep DEF ForwardRsock
  <2> QED
    BY <1>0, <2>1, BrokerSubs, SameSubsSound
<1>13. CASE ChallMsg
  BY <1>0, <1>13, BrokerSubs, SameSubsSound DEF ChallMsg, Step
<1>14. CASE Regok
  BY <1>0, <1>14, BrokerSubs, SameSubsSound DEF Regok, Step
<1>15. CASE PongMsg
  <2>1. broker' = Heard(broker)
    BY <1>15, DoStep DEF PongMsg, Nothing, Result
  <2> QED
    BY <1>0, <2>1, OthersSameSubs, SameSubsSound
<1>16. CASE ForwardDsock
  <2>1. PICK p \in Pairs : broker' = s_cb_forward_dsock(broker, p[1], p[2]).b
    BY <1>16, DoStep DEF ForwardDsock
  <2> QED
    BY <1>0, <2>1, BrokerSubs, SameSubsSound
<1>17. CASE NodstMsg
  <2>1. PICK p \in Pairs : broker' = s_cb_high_error_nodst(broker, p[2], p[1]).b
    BY <1>17, DoStep DEF NodstMsg
  <2> QED
    BY <1>0, <2>1, BrokerSubs, SameSubsSound
<1>18. CASE RegfailMsg
  BY <1>0, <1>18, GoneSound DEF RegfailMsg, Step
<1>19. CASE Register
  <2>1. broker' = broker
    BY <1>19 DEF Register, Step, s_register, Result
  <2> QED
    BY <1>0, <2>1
<1>20. CASE Heartbeat
  BY <1>0, <1>20, DoStep, TimerSubs, SameSubsSound DEF Heartbeat
<1>21. CASE CheckCliTimeout
  BY <1>0, <1>21, DoStep, GoneSound DEF CheckCliTimeout
<1>22. CASE CheckBrTimeout
  BY <1>0, <1>22, DoStep, TimerSubs, SameSubsSound DEF CheckBrTimeout
<1>23. CASE SubNMsg
  <2>1. PICK p \in RemotePubs : broker' = s_on_subN_msg(broker, p.topic, p.name, p.pathv).b
    BY <1>23, DoStep DEF SubNMsg
  <2>2. SameSubs(broker, broker')
    BY <1>0, <2>1, TimerSubs
  <2> QED
    BY <1>0, <2>2, SameSubsSound
<1>24. CASE SubSMsg
  <2>1. PICK p \in RemotePubs : broker' = s_on_subS_msg(broker, p.topic, p.name, p.pathv).b
    BY <1>24, DoStep DEF SubSMsg
  <2>2. SameSubs(broker, broker')
    BY <1>0, <2>1, TimerSubs
  <2> QED
    BY <1>0, <2>2, SameSubsSound
<1>25. CASE Restart
  <2>1. broker'.subscribe = <<>> /\ broker'.topics_trie = <<>>
    BY <1>25 DEF Restart, NewBroker
  <2> QED
    BY <2>1 DEF TrieSound, TrieCounts, OwnSockets, On
<1>26. CASE UNCHANGED vars
  BY <1>0, <1>26 DEF vars
<1>27. CASE ProtectedDies
  <2>1. broker' = [broker EXCEPT !.state = CRASHED]
    BY <1>27, DoStep DEF ProtectedDies, Nothing, Result
  <2>2. SameSubs(broker, broker')
    BY <1>0, <2>1 DEF SameSubs, Shape, BrokerFields
  <2> QED
    BY <1>0, <2>2, SameSubsSound
<1> QED
  BY <1>1, <1>2, <1>3, <1>4, <1>5, <1>6, <1>7, <1>8, <1>9, <1>10, <1>11, <1>12, <1>13,
     <1>14, <1>15, <1>16, <1>17, <1>18, <1>19, <1>20, <1>21, <1>22, <1>23, <1>24, <1>25,
     <1>26, <1>27
  DEF Next

\* TopicInv holds in every reachable state.
THEOREM TopicInvariant == Spec => []TopicInv
<1>1. Init => TopicInv
  BY DEF Init, NewBroker, TopicInv, TrieSound, TrieCounts, OwnSockets, On
<1> QED
  BY <1>1, NextTopic, IInvInvariant, PTL DEF Spec

\* Every subscription a socket has is in the trie, and a node of the trie counts
\* exactly its sockets.
THEOREM TrieKeepsStep == Spec => []SubscribersInTrie
<1>1. TopicInv => SubscribersInTrie
  BY DEF TopicInv, TrieSound, TrieCounts, NodeCounts, On, InTrie, SubscribersInTrie
<1> QED
  BY <1>1, TopicInvariant, PTL

(***************************************************************************)
(* Publications.                                                           *)
(***************************************************************************)
\* The trie finds only subscribers of the publication's tenant.
LEMMA SubscribersOwn ==
  ASSUME TopicInv, NEW pubtopic, NEW s \in Subscribers(broker, pubtopic)
  PROVE  s \in ClientSocks /\ TenantOf[s] = pubtopic[1]
<1>1. PICK x \in DOMAIN broker.topics_trie :
        Matches(x, pubtopic) /\ s \in broker.topics_trie[x].sockids
  BY DEF Subscribers
<1>2. Len(x) > 1 /\ s \in ClientSocks /\ TenantOf[s] = x[1]
  BY <1>1 DEF TopicInv, TrieSound, OwnSockets, On
<1>3. x[1] = pubtopic[1]
  BY <1>1, <1>2 DEF Matches
<1> QED
  BY <1>2, <1>3

\* So a delivery stays within it.
LEMMA DeliverOwn ==
  ASSUME TopicInv, NEW pubtopic, NEW name, NEW topic,
         NEW o \in Deliver(broker, pubtopic, name, topic)
  PROVE  o.to \in ClientSocks /\ TenantOf[o.to] = pubtopic[1] /\ o.m.name = name
<1>1. PICK s \in Subscribers(broker, pubtopic) : o = [to |-> s, m |-> Pub(name, topic)]
  BY DEF Deliver
<1>2. o.to = s /\ o.m.name = name
  BY <1>1 DEF Pub
<1> QED
  BY <1>2, SubscribersOwn

\* What s_cb_pub delivers.
LEMMA PubDelivers ==
  ASSUME NEW s, NEW t, NEW topic, NEW unscoped,
         NEW o \in s_cb_pub(broker, s, t, topic, unscoped).rout
  PROVE  LET full == broker.lcl_cli[<<s, t>>].name
         IN /\ HasLocal(broker, <<s, t>>)
            /\ o \in Deliver(broker, PubTopic(t, topic, unscoped, Scope),
                             IF IsPublic(topic) THEN full ELSE Tail(full), topic)
<1>1. HasLocal(broker, <<s, t>>)
  BY DEF s_cb_pub, Nothing, Result
<1> QED
  BY <1>1 DEF s_cb_pub, Result, WithPs

\* A publication never leaves the tenant whose topic it is.
THEOREM PublicationsKeepTenant == Spec => []PublicationsStayInTenant
<1>1. TopicInv => PublicationsStayInTenant
  <2> SUFFICES ASSUME TopicInv PROVE PublicationsStayInTenant
    OBVIOUS
  <2>1. ASSUME NEW s \in ClientSocks, NEW topic \in PubTopics, NEW unscoped \in BOOLEAN,
               NEW o \in s_cb_pub(broker, s, TenantOf[s], topic, unscoped).rout
        PROVE  TenantOf[o.to] = IF IsPublic(topic) THEN "public" ELSE TenantOf[s]
    <3> DEFINE pt == PubTopic(TenantOf[s], topic, unscoped, Scope)
               full == broker.lcl_cli[<<s, TenantOf[s]>>].name
               nm == IF IsPublic(topic) THEN full ELSE Tail(full)
    <3>1. o \in Deliver(broker, pt, nm, topic)
      BY <2>1, PubDelivers
    <3>2. pt[1] = IF IsPublic(topic) THEN "public" ELSE TenantOf[s]
      BY PubTopicTenant, EnvironmentAssumption
    <3> HIDE DEF pt, nm
    <3>3. TenantOf[o.to] = pt[1]
      BY <3>1, DeliverOwn
    <3> QED
      BY <3>2, <3>3
  <2>2. ASSUME NEW p \in RemotePubs, NEW ps,
               NEW o \in DeliverRemote(broker, p.topic, p.name, ps).rout
        PROVE  TenantOf[o.to] = p.topic[1]
    <3>1. o \in Deliver(broker, p.topic, p.name, BareTopic(p.topic))
      BY <2>2 DEF DeliverRemote, WithPs, Result
    <3> QED
      BY <3>1, DeliverOwn
  <2>3. ASSUME NEW p \in RemotePubs,
               NEW o \in s_on_subN_msg(broker, p.topic, p.name, p.pathv).rout
        PROVE  TenantOf[o.to] = p.topic[1]
    <3>1. p.pathv # broker.broker_id
      BY <2>3 DEF s_on_subN_msg, Nothing, Result
    <3> QED
      BY <2>2, <2>3, <3>1 DEF s_on_subN_msg
  <2>4. ASSUME NEW p \in RemotePubs,
               NEW o \in s_on_subS_msg(broker, p.topic, p.name, p.pathv).rout
        PROVE  TenantOf[o.to] = p.topic[1]
    BY <2>2, <2>4 DEF s_on_subS_msg
  <2> QED
    BY <2>1, <2>3, <2>4 DEF PublicationsStayInTenant
<1> QED
  BY <1>1, TopicInvariant, PTL

\* With plain names, whoever is sent a publication can open it.
THEOREM PublicationsOpen ==
  ASSUME PlainNames
  PROVE  Spec => []PubsDecryptable
<1>1. IInv /\ OwnNames /\ TopicInv => PubsDecryptable
  <2> SUFFICES ASSUME IInv, OwnNames, TopicInv,
                      NEW s \in ClientSocks, NEW topic \in PubTopics, NEW unscoped \in BOOLEAN,
                      NEW o \in s_cb_pub(broker, s, TenantOf[s], topic, unscoped).rout
               PROVE  dd_publish(KeysOf[TenantOf[s]], topic) \in
                        {NotAllowed, cb_pub(KeysOf[TenantOf[o.to]], o.m.name)}
    BY DEF PubsDecryptable
  <2> DEFINE t == TenantOf[s]
             full == broker.lcl_cli[<<s, t>>].name
             name == IF IsPublic(topic) THEN full ELSE Tail(full)
  <2>1. t \in Tenants /\ topic \in Seq(Labels)
    BY EnvironmentAssumption
  <2>2. HasLocal(broker, <<s, t>>) /\ o \in Deliver(broker, PubTopic(t, topic, unscoped, Scope), name, topic)
    BY PubDelivers
  <2>3. /\ o.m.name = name
        /\ TenantOf[o.to] = IF IsPublic(topic) THEN "public" ELSE t
    BY <2>1, <2>2, DeliverOwn, PubTopicTenant
  <2>4. full \in Names /\ full[1] = t
    BY <2>2, IInvParts DEF HasLocal, Sound, TablesOK, OwnNames, OwnNamesIn
  <2>5. Len(full) > 1 /\ Tail(full) \in ClientNames /\ (IsPublic(full) <=> t = "public")
    BY <2>4, NameParts, NameTests
  <2>6. ~NamesATenant(Tail(full)) /\ ~IsPublic(Tail(full))
    BY <2>5, PlainName
  <2>7. ~HasClientKey(KeysOf["public"], Tail(full))
    <3>1. \A l \in Tenants : <<l, l>> \in StartsWith
      BY NamingAssumption
    <3> QED
      BY <2>6, <3>1, PublicKeysOf DEF HasClientKey, NamesATenant
  <2> HIDE DEF t, full
  <2>8. CASE IsPublic(topic) /\ t = "public"
    <3>1. ~HasClientKey(KeysOf["public"], topic) /\ ~HasClientKey(KeysOf["public"], full)
      BY <2>4, <2>8, PublicKeysOf DEF HasClientKey, IsPublic
    <3>2. dd_publish(KeysOf["public"], topic) = {"public"}
      BY <2>8, <3>1, PublicKeysOf DEF dd_publish
    <3>3. cb_pub(KeysOf["public"], full) = {"public"}
      BY <2>5, <2>8, <3>1, PublicKeysOf DEF cb_pub
    <3> QED
      BY <2>3, <2>8, <3>2, <3>3 DEF t
  <2>9. CASE IsPublic(topic) /\ t # "public"
    <3>1. dd_publish(KeysOf[t], topic) = {"public", t}
      BY <2>1, <2>9, TenantKeysOf DEF dd_publish
    <3>2. HasClientKey(KeysOf["public"], full)
      BY <2>1, <2>4, <2>5, <2>9, PublicKeysOf DEF HasClientKey
    <3>3. cb_pub(KeysOf["public"], full) = {t, "public"}
      BY <2>1, <2>4, <2>9, <3>2, PublicKeysOf DEF cb_pub
    <3> QED
      BY <2>3, <2>9, <3>1, <3>3 DEF t
  <2>10. CASE ~IsPublic(topic) /\ t = "public"
    <3>1. dd_publish(KeysOf["public"], topic) \in {NotAllowed, {"public"}}
      BY <2>10, PublicKeysOf DEF dd_publish
    <3>2. cb_pub(KeysOf["public"], Tail(full)) = {"public"}
      BY <2>6, <2>7, PublicKeysOf DEF cb_pub
    <3> QED
      BY <2>3, <2>10, <3>1, <3>2 DEF t
  <2>11. CASE ~IsPublic(topic) /\ t # "public"
    <3>1. dd_publish(KeysOf[t], topic) = {t}
      BY <2>1, <2>11, TenantKeysOf DEF dd_publish
    <3>2. cb_pub(KeysOf[t], Tail(full)) = {t}
      BY <2>1, <2>6, <2>11, TenantKeysOf DEF cb_pub, HasClientKey
    <3> QED
      BY <2>3, <2>11, <3>1, <3>2 DEF t
  <2> QED
    BY <2>8, <2>9, <2>10, <2>11
<1> QED
  BY <1>1, IInvInvariant, ClientsOwnTheirNames, TopicInvariant, PTL
=============================================================================
