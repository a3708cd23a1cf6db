---------------------------- MODULE BrokerProofs ----------------------------
(***************************************************************************)
(* Proofs about Broker, for every number of clients and brokers, every     *)
(* limit and every set of names and messages.                              *)
(*                                                                         *)
(* Sound(b) is what holds of one broker's tables.  A lemma for every table *)
(* operation says that it keeps Sound, one for every handler follows from  *)
(* those, and the inductive invariant IInv adds how the dealer exchange,   *)
(* the state and the timers move together.                                 *)
(***************************************************************************)
EXTENDS Broker, HandlerProofs

Sound(b) == TablesOK(b) /\ TablesAgree(b) /\ NamesDisjoint(b) /\ RoutesLive(b)

IInv == TypeOK /\ LocalTablesAgree /\ OneOwner /\ DistRoutable /\ TimersInStep

\* c is b after an operation on its tables only.
Keeps(b, c) == Shape(c) /\ Sound(c) /\ SameScalars(b, c)

(***************************************************************************)
(* Table operations.                                                       *)
(***************************************************************************)
\* Soundness only depends on the four tables.
LEMMA SoundTables ==
  ASSUME NEW b, NEW c, Sound(b), SameTables(b, c)
  PROVE  Sound(c)
BY DEF Sound, SameTables, TablesOK, TablesAgree, NamesDisjoint, RoutesLive

\* insert_local_client keeps the tables sound when its checks have passed.
LEMMA InsertLocalSound ==
  ASSUME NEW b, Shape(b), Sound(b),
         NEW s \in Sockids, NEW t \in Tenants, NEW n \in ClientNames,
         CanInsertLocal(b, s, t, n)
  PROVE  Keeps(b, InsertLocal(b, s, t, n))
<1> DEFINE k == <<s, t>>
           p == PrefixName(t, n)
           c == InsertLocal(b, s, t, n)
<1>1. p \in Names /\ k \in Sockids \X Tenants
  BY DEF Names
<1>2. k \notin DOMAIN b.lcl_cli /\ p \notin DOMAIN b.rev_lcl_cli /\ p \notin DOMAIN b.dist_cli
  BY DEF CanInsertLocal, HasDist, HasLocal, HasRevLocal
<1>3. /\ Shape(c) /\ SameScalars(b, c)
      /\ c.dist_cli = b.dist_cli /\ c.lcl_br = b.lcl_br
      /\ c.lcl_cli = Put(b.lcl_cli, k, [name |-> p, timeout |-> 0])
      /\ c.rev_lcl_cli = Put(b.rev_lcl_cli, p, k)
  BY DEF Shape, BrokerFields, SameScalars, InsertLocal
<1> HIDE DEF c, p, k
<1>4. /\ DOMAIN c.lcl_cli = DOMAIN b.lcl_cli \cup {k}
      /\ c.lcl_cli[k] = [name |-> p, timeout |-> 0]
      /\ \A x \in DOMAIN b.lcl_cli : c.lcl_cli[x] = b.lcl_cli[x]
      /\ DOMAIN c.rev_lcl_cli = DOMAIN b.rev_lcl_cli \cup {p}
      /\ c.rev_lcl_cli[p] = k
      /\ \A x \in DOMAIN b.rev_lcl_cli : c.rev_lcl_cli[x] = b.rev_lcl_cli[x]
  BY <1>2, <1>3 DEF Put
<1>5. TablesOK(c)
  <2>1. \A x \in DOMAIN b.lcl_cli : b.lcl_cli[x] \in [name : Names, timeout : 0 .. Limit]
    BY DEF Sound, TablesOK
  <2>2. \A x \in DOMAIN c.lcl_cli : c.lcl_cli[x] \in [name : Names, timeout : 0 .. Limit]
    BY <1>1, <1>4, <2>1, BrokerAssumption
  <2> QED
    BY <1>1, <1>3, <1>4, <2>2 DEF Sound, TablesOK
<1>6. TablesAgree(c)
  BY <1>2, <1>4 DEF Sound, TablesAgree
<1>7. NamesDisjoint(c) /\ RoutesLive(c)
  BY <1>2, <1>3, <1>4 DEF Sound, NamesDisjoint, RoutesLive
<1> QED
  BY <1>3, <1>5, <1>6, <1>7 DEF Keeps, Sound, c

\* Unlinking registered clients takes each out of both tables.
LEMMA UnlinkLocalSound ==
  ASSUME NEW b, Shape(b), Sound(b), NEW K \in SUBSET DOMAIN b.lcl_cli
  PROVE  Keeps(b, UnlinkLocal(b, K))
<1> DEFINE c == UnlinkLocal(b, K)
           N == {b.lcl_cli[k].name : k \in K}
<1>1. /\ Shape(c) /\ SameScalars(b, c)
      /\ c.dist_cli = b.dist_cli /\ c.lcl_br = b.lcl_br
      /\ c.lcl_cli = Without(b.lcl_cli, K)
      /\ c.rev_lcl_cli = Without(b.rev_lcl_cli, N)
  BY DEF Shape, BrokerFields, SameScalars, UnlinkLocal
<1> HIDE DEF c
<1>2. /\ DOMAIN c.lcl_cli = DOMAIN b.lcl_cli \ K
      /\ \A x \in DOMAIN c.lcl_cli : c.lcl_cli[x] = b.lcl_cli[x]
      /\ DOMAIN c.rev_lcl_cli = DOMAIN b.rev_lcl_cli \ N
      /\ \A x \in DOMAIN c.rev_lcl_cli : c.rev_lcl_cli[x] = b.rev_lcl_cli[x]
  BY <1>1 DEF Without, Restrict
<1>3. TablesOK(c)
  BY <1>1, <1>2 DEF Sound, TablesOK
<1>4. TablesAgree(c)
  BY <1>2 DEF Sound, TablesAgree
<1>5. NamesDisjoint(c) /\ RoutesLive(c)
  BY <1>1, <1>2 DEF Sound, NamesDisjoint, RoutesLive
<1> QED
  BY <1>1, <1>3, <1>4, <1>5 DEF Keeps, Sound, c

\* A distant client is added behind a registered broker and under a free name.
LEMMA InsertDistSound ==
  ASSUME NEW b, Shape(b), Sound(b), NEW n \in Names, NEW s \in DOMAIN b.lcl_br,
         ~HasRevLocal(b, n)
  PROVE  Keeps(b, InsertDist(b, n, s))
<1> DEFINE c == InsertDist(b, n, s)
<1>1. /\ Shape(c) /\ SameScalars(b, c)
      /\ c.lcl_cli = b.lcl_cli /\ c.rev_lcl_cli = b.rev_lcl_cli /\ c.lcl_br = b.lcl_br
      /\ c.dist_cli = Put(b.dist_cli, n, s)
  BY DEF Shape, BrokerFields, SameScalars, InsertDist
<1> HIDE DEF c
<1>2. /\ DOMAIN c.dist_cli = DOMAIN b.dist_cli \cup {n}
      /\ \A x \in DOMAIN c.dist_cli : c.dist_cli[x] = IF x = n THEN s ELSE b.dist_cli[x]
  BY <1>1 DEF Put
<1>3. TablesOK(c) /\ TablesAgree(c)
  BY <1>1, <1>2 DEF Sound, TablesOK, TablesAgree
<1>4. NamesDisjoint(c) /\ RoutesLive(c)
  BY <1>1, <1>2 DEF Sound, NamesDisjoint, RoutesLive, HasRevLocal
<1> QED
  BY <1>1, <1>3, <1>4 DEF Keeps, Sound, c

\* Distant clients can always be dropped.
LEMMA RemoveDistSound ==
  ASSUME NEW b, Shape(b), Sound(b), NEW N
  PROVE  Keeps(b, RemoveDist(b, N))
<1> DEFINE c == RemoveDist(b, N)
<1>1. /\ Shape(c) /\ SameScalars(b, c)
      /\ c.lcl_cli = b.lcl_cli /\ c.rev_lcl_cli = b.rev_lcl_cli /\ c.lcl_br = b.lcl_br
      /\ c.dist_cli = Without(b.dist_cli, N)
  BY DEF Shape, BrokerFields, SameScalars, RemoveDist
<1> HIDE DEF c
<1>2. /\ DOMAIN c.dist_cli = DOMAIN b.dist_cli \ N
      /\ \A x \in DOMAIN c.dist_cli : c.dist_cli[x] = b.dist_cli[x]
  BY <1>1 DEF Without, Restrict
<1>3. TablesOK(c) /\ TablesAgree(c)
  BY <1>1, <1>2 DEF Sound, TablesOK, TablesAgree
<1>4. NamesDisjoint(c) /\ RoutesLive(c)
  BY <1>1, <1>2 DEF Sound, NamesDisjoint, RoutesLive
<1> QED
  BY <1>1, <1>3, <1>4 DEF Keeps, Sound, c

\* A lower broker is registered, or heard of.
LEMMA InsertBrokerSound ==
  ASSUME NEW b, Shape(b), Sound(b), NEW s \in Sockids
  PROVE  Keeps(b, InsertBroker(b, s))
<1> DEFINE c == InsertBroker(b, s)
<1>1. /\ Shape(c) /\ SameScalars(b, c)
      /\ c.lcl_cli = b.lcl_cli /\ c.rev_lcl_cli = b.rev_lcl_cli /\ c.dist_cli = b.dist_cli
      /\ c.lcl_br = Put(b.lcl_br, s, 0)
  BY DEF Shape, BrokerFields, SameScalars, InsertBroker
<1> HIDE DEF c
<1>2. /\ DOMAIN c.lcl_br = DOMAIN b.lcl_br \cup {s}
      /\ \A x \in DOMAIN c.lcl_br : c.lcl_br[x] = IF x = s THEN 0 ELSE b.lcl_br[x]
  BY <1>1 DEF Put
<1>3. TablesOK(c)
  BY <1>1, <1>2, BrokerAssumption DEF Sound, TablesOK
<1>4. TablesAgree(c) /\ NamesDisjoint(c) /\ RoutesLive(c)
  BY <1>1, <1>2 DEF Sound, TablesAgree, NamesDisjoint, RoutesLive
<1> QED
  BY <1>1, <1>3, <1>4 DEF Keeps, Sound, c

\* A lower broker has been heard of: s_cb_ping and s_cb_forward_rsock.
LEMMA TouchBrokerSound ==
  ASSUME NEW b, Shape(b), Sound(b), NEW s \in DOMAIN b.lcl_br
  PROVE  Keeps(b, TouchBroker(b, s))
<1> DEFINE c == TouchBroker(b, s)
<1>1. /\ Shape(c) /\ SameScalars(b, c)
      /\ c.lcl_cli = b.lcl_cli /\ c.rev_lcl_cli = b.rev_lcl_cli /\ c.dist_cli = b.dist_cli
      /\ c.lcl_br = [b.lcl_br EXCEPT ![s] = 0]
  BY DEF Shape, BrokerFields, SameScalars, TouchBroker
<1> HIDE DEF c
<1>2. /\ DOMAIN c.lcl_br = DOMAIN b.lcl_br
      /\ \A x \in DOMAIN c.lcl_br : c.lcl_br[x] = IF x = s THEN 0 ELSE b.lcl_br[x]
  BY <1>1
<1>3. TablesOK(c)
  BY <1>1, <1>2, BrokerAssumption DEF Sound, TablesOK
<1>4. TablesAgree(c) /\ NamesDisjoint(c) /\ RoutesLive(c)
  BY <1>1, <1>2 DEF Sound, TablesAgree, NamesDisjoint, RoutesLive
<1> QED
  BY <1>1, <1>3, <1>4 DEF Keeps, Sound, c

\* Hearing of a client resets its counter and keeps its name.
LEMMA TouchClientSound ==
  ASSUME NEW b, Shape(b), Sound(b), NEW k \in DOMAIN b.lcl_cli
  PROVE  Keeps(b, TouchClient(b, k))
<1> DEFINE c == TouchClient(b, k)
<1>1. /\ Shape(c) /\ SameScalars(b, c)
      /\ c.rev_lcl_cli = b.rev_lcl_cli /\ c.dist_cli = b.dist_cli /\ c.lcl_br = b.lcl_br
      /\ c.lcl_cli = [b.lcl_cli EXCEPT ![k].timeout = 0]
  BY DEF Shape, BrokerFields, SameScalars, TouchClient
<1> HIDE DEF c
<1>2. \A x \in DOMAIN b.lcl_cli : b.lcl_cli[x] \in [name : Names, timeout : 0 .. Limit]
  BY DEF Sound, TablesOK
<1>3. /\ DOMAIN c.lcl_cli = DOMAIN b.lcl_cli
      /\ \A x \in DOMAIN b.lcl_cli : /\ c.lcl_cli[x] \in [name : Names, timeout : 0 .. Limit]
                                    /\ c.lcl_cli[x].name = b.lcl_cli[x].name
  BY <1>1, <1>2, BrokerAssumption
<1>4. TablesOK(c)
  BY <1>1, <1>3 DEF Sound, TablesOK
<1>5. TablesAgree(c) /\ NamesDisjoint(c) /\ RoutesLive(c)
  BY <1>1, <1>3 DEF Sound, TablesAgree, NamesDisjoint, RoutesLive
<1> QED
  BY <1>1, <1>4, <1>5 DEF Keeps, Sound, c

\* Operations on subscriptions leave the tables of clients and brokers alone.
LEMMA SubscriptionSound ==
  ASSUME NEW b, Shape(b), Sound(b)
  PROVE  /\ \A S : LET c == remove_subscriptions(b, S)
                   IN Keeps(b, c) /\ SameTables(b, c)
         /\ \A s, topic : Keeps(b, remove_subscription(b, s, topic))
         /\ \A s, topic : Keeps(b, insert_subscription(b, s, topic))
         /\ \A s, topic : Keeps(b, nn_trie_subscribe(b, s, topic))
<1>1. ASSUME NEW c, Shape(c), SameScalars(b, c), SameTables(b, c)
      PROVE  Keeps(b, c)
  BY <1>1, SoundTables DEF Keeps
<1>2. ASSUME NEW S
      PROVE  LET c == remove_subscriptions(b, S) IN Keeps(b, c) /\ SameTables(b, c)
  <2> DEFINE c == remove_subscriptions(b, S)
  <2>1. Shape(c) /\ SameScalars(b, c) /\ SameTables(b, c)
    BY DEF Shape, BrokerFields, SameScalars, SameTables, remove_subscriptions
  <2> QED
    BY <1>1, <2>1
<1>3. ASSUME NEW s, NEW topic
      PROVE  Keeps(b, remove_subscription(b, s, topic))
  <2> DEFINE c == remove_subscription(b, s, topic)
  <2>1. Shape(c) /\ SameScalars(b, c) /\ SameTables(b, c)
    BY DEF Shape, BrokerFields, SameScalars, SameTables, remove_subscription
  <2> QED
    BY <1>1, <2>1
<1>4. ASSUME NEW s, NEW topic
      PROVE  Keeps(b, insert_subscription(b, s, topic))
  <2> DEFINE c == insert_subscription(b, s, topic)
  <2>1. Shape(c) /\ SameScalars(b, c) /\ SameTables(b, c)
    BY DEF Shape, BrokerFields, SameScalars, SameTables, insert_subscription
  <2> QED
    BY <1>1, <2>1
<1>5. ASSUME NEW s, NEW topic
      PROVE  Keeps(b, nn_trie_subscribe(b, s, topic))
  <2> DEFINE c == nn_trie_subscribe(b, s, topic)
  <2>1. CASE FreshInTrie(b, s, topic)
    <3>1. Shape(c) /\ SameScalars(b, c) /\ SameTables(b, c)
      BY <2>1 DEF Shape, BrokerFields, SameScalars, SameTables, nn_trie_subscribe
    <3> QED
      BY <1>1, <3>1
  <2>2. CASE ~FreshInTrie(b, s, topic)
    BY <2>2 DEF nn_trie_subscribe, Keeps, SameScalars
  <2> QED
    BY <2>1, <2>2
<1> QED
  BY <1>2, <1>3, <1>4, <1>5

\* Doing nothing keeps a sound broker.
LEMMA KeepsRefl ==
  ASSUME NEW b, Shape(b), Sound(b)
  PROVE  Keeps(b, b)
BY DEF Keeps, SameScalars

\* Operations on the tables compose.
LEMMA KeepsTrans ==
  ASSUME NEW b, NEW c, NEW d, Keeps(b, c), Keeps(c, d)
  PROVE  Keeps(b, d)
BY DEF Keeps, SameScalars

(***************************************************************************)
(* Handlers of the ROUTER socket: they only change tables.                 *)
(***************************************************************************)
\* s_cb_challok registers a client only after insert_local_client's three checks.
LEMMA ChallokClientKeeps ==
  ASSUME NEW b, Shape(b), Sound(b),
         NEW s \in Sockids, NEW t \in Tenants, NEW n \in ClientNames
  PROVE  Keeps(b, s_cb_challok_client(b, s, t, n).b)
<1>1. CASE n = <<"public">> \/ ~CanInsertLocal(b, s, t, n)
  BY <1>1, KeepsRefl DEF s_cb_challok_client, Nothing, Result
<1>2. CASE n # <<"public">> /\ CanInsertLocal(b, s, t, n)
  <2>1. s_cb_challok_client(b, s, t, n).b = InsertLocal(b, s, t, n)
    BY <1>2 DEF s_cb_challok_client, Result
  <2> QED
    BY <1>2, <2>1, InsertLocalSound
<1> QED
  BY <1>1, <1>2

\* s_cb_unreg_cli drops the subscriptions, then both entries of the client.
LEMMA UnregKeeps ==
  ASSUME NEW b, Shape(b), Sound(b), NEW s, NEW t
  PROVE  Keeps(b, s_cb_unreg_cli(b, s, t).b)
<1> DEFINE k == <<s, t>>
           c == remove_subscriptions(b, {s})
<1>1. CASE ~HasLocal(b, k)
  BY <1>1, KeepsRefl DEF s_cb_unreg_cli, Nothing, Result
<1>2. CASE HasLocal(b, k)
  <2>1. s_cb_unreg_cli(b, s, t).b = UnlinkLocal(c, {k})
    BY <1>2 DEF s_cb_unreg_cli, Result
  <2>2. Keeps(b, c) /\ SameTables(b, c)
    BY SubscriptionSound
  <2>3. {k} \in SUBSET DOMAIN c.lcl_cli
    BY <1>2, <2>2 DEF HasLocal, SameTables
  <2>4. Keeps(c, UnlinkLocal(c, {k}))
    BY <2>2, <2>3, UnlinkLocalSound DEF Keeps
  <2> QED
    BY <2>1, <2>2, <2>4, KeepsTrans
<1> QED
  BY <1>1, <1>2

\* s_cb_ping only resets a counter.
LEMMA PingKeeps ==
  ASSUME NEW b, Shape(b), Sound(b), NEW s, NEW t
  PROVE  Keeps(b, s_cb_ping(b, s, t).b)
<1>1. CASE HasLocal(b, <<s, t>>)
  <2>1. s_cb_ping(b, s, t).b = TouchClient(b, <<s, t>>)
    BY <1>1 DEF s_cb_ping, Result
  <2> QED
    BY <1>1, <2>1, TouchClientSound DEF HasLocal
<1>2. CASE ~HasLocal(b, <<s, t>>) /\ HasBroker(b, s, t)
  <2>1. s_cb_ping(b, s, t).b = TouchBroker(b, s)
    BY <1>2 DEF s_cb_ping, Result
  <2> QED
    BY <1>2, <2>1, TouchBrokerSound DEF HasBroker
<1>3. CASE ~HasLocal(b, <<s, t>>) /\ ~HasBroker(b, s, t)
  BY <1>3, KeepsRefl DEF s_cb_ping, Nothing, Result
<1> QED
  BY <1>1, <1>2, <1>3

\* s_cb_send only resets the sender's counter, wherever the message goes.
LEMMA SendKeeps ==
  ASSUME NEW b, Shape(b), Sound(b), NEW s, NEW t, NEW dest
  PROVE  Keeps(b, s_cb_send(b, s, t, dest).b)
<1> DEFINE k == <<s, t>>
<1>1. CASE ~HasLocal(b, k)
  BY <1>1, KeepsRefl DEF s_cb_send, Nothing, Result
<1>2. CASE HasLocal(b, k)
  <2>1. s_cb_send(b, s, t, dest).b = TouchClient(b, k)
    BY <1>2, RouteState DEF s_cb_send, Result
  <2> QED
    BY <1>2, <2>1, TouchClientSound DEF HasLocal
<1> QED
  BY <1>1, <1>2

\* s_cb_sub and s_cb_unsub touch the client and then only subscriptions.
LEMMA SubKeeps ==
  ASSUME NEW b, Shape(b), Sound(b), NEW s, NEW t, NEW topic, NEW scope
  PROVE  /\ Keeps(b, s_cb_sub(b, s, t, topic, scope).b)
         /\ Keeps(b, s_cb_unsub(b, s, t, topic, scope).b)
<1> DEFINE k == <<s, t>>
           c == TouchClient(b, k)
           x == SubTopic(t, topic, scope, Scope)
           d == insert_subscription(c, s, x)
<1>1. CASE ~HasLocal(b, k)
  BY <1>1, KeepsRefl DEF s_cb_sub, s_cb_unsub, Nothing, Result
<1>2. CASE HasLocal(b, k)
  <2>1. Keeps(b, c)
    BY <1>2, TouchClientSound DEF HasLocal
  <2>2. Keeps(c, d) /\ Keeps(c, remove_subscription(c, s, x))
    BY <2>1, SubscriptionSound DEF Keeps
  <2>3. Keeps(d, nn_trie_subscribe(d, s, x))
    BY <2>2, SubscriptionSound DEF Keeps
  <2>4. s_cb_sub(b, s, t, topic, scope).b \in {c, nn_trie_subscribe(d, s, x)}
    BY <1>2 DEF s_cb_sub, Result, WithPs
  <2>5. s_cb_unsub(b, s, t, topic, scope).b \in {c, remove_subscription(c, s, x)}
    BY <1>2 DEF s_cb_unsub, Result, Nothing, WithPs
  <2>6. Keeps(b, remove_subscription(c, s, x)) /\ Keeps(b, nn_trie_subscribe(d, s, x))
    BY <2>1, <2>2, <2>3, KeepsTrans
  <2> QED
    BY <2>1, <2>4, <2>5, <2>6
<1> QED
  BY <1>1, <1>2

\* s_cb_pub only resets the publisher's counter.
LEMMA PubKeeps ==
  ASSUME NEW b, Shape(b), Sound(b), NEW s, NEW t, NEW topic, NEW unscoped
  PROVE  Keeps(b, s_cb_pub(b, s, t, topic, unscoped).b)
<1> DEFINE k == <<s, t>>
<1>1. CASE ~HasLocal(b, k)
  BY <1>1, KeepsRefl DEF s_cb_pub, Nothing, Result
<1>2. CASE HasLocal(b, k)
  <2>1. s_cb_pub(b, s, t, topic, unscoped).b = TouchClient(b, k)
    BY <1>2 DEF s_cb_pub, Result, WithPs
  <2> QED
    BY <1>2, <2>1, TouchClientSound DEF HasLocal
<1> QED
  BY <1>1, <1>2

\* s_cb_challok for a broker: registered once.
LEMMA ChallokBrokerKeeps ==
  ASSUME NEW b, Shape(b), Sound(b), NEW s \in Sockids
  PROVE  Keeps(b, s_cb_challok_broker(b, s).b)
BY KeepsRefl, InsertBrokerSound DEF s_cb_challok_broker, Nothing, Result

\* s_cb_adddcl and s_cb_unreg_dist_cli: a distant client comes only through a
\* registered broker, under a name no client of this broker has.
LEMMA DistantKeeps ==
  ASSUME NEW b, Shape(b), Sound(b), NEW s, NEW n \in Names
  PROVE  /\ Keeps(b, s_cb_adddcl(b, s, BrokerCookie, n).b)
         /\ Keeps(b, s_cb_unreg_dist_cli(b, s, BrokerCookie, n).b)
<1>1. Keeps(b, s_cb_adddcl(b, s, BrokerCookie, n).b)
  <2>1. CASE ~HasBroker(b, s, BrokerCookie) \/ HasRevLocal(b, n) \/ HasDist(b, n)
    BY <2>1, KeepsRefl DEF s_cb_adddcl, Nothing, Result
  <2>2. CASE HasBroker(b, s, BrokerCookie) /\ ~HasRevLocal(b, n) /\ ~HasDist(b, n)
    <3>1. s_cb_adddcl(b, s, BrokerCookie, n).b = InsertDist(b, n, s)
      BY <2>2 DEF s_cb_adddcl, Result
    <3> QED
      BY <2>2, <3>1, InsertDistSound DEF HasBroker
  <2> QED
    BY <2>1, <2>2
<1>2. Keeps(b, s_cb_unreg_dist_cli(b, s, BrokerCookie, n).b)
  BY KeepsRefl, RemoveDistSound DEF s_cb_unreg_dist_cli, Nothing, Result
<1> QED
  BY <1>1, <1>2

\* s_cb_forward_rsock only resets the sending broker's counter.
LEMMA ForwardRsockKeeps ==
  ASSUME NEW b, Shape(b), Sound(b), NEW s, NEW src, NEW dst
  PROVE  Keeps(b, s_cb_forward_rsock(b, s, BrokerCookie, src, dst).b)
<1>1. CASE ~HasBroker(b, s, BrokerCookie)
  BY <1>1, KeepsRefl DEF s_cb_forward_rsock, Nothing, Result
<1>2. CASE HasBroker(b, s, BrokerCookie)
  <2>1. s_cb_forward_rsock(b, s, BrokerCookie, src, dst).b = TouchBroker(b, s)
    BY <1>2, RouteState DEF s_cb_forward_rsock, Result
  <2> QED
    BY <1>2, <2>1, TouchBrokerSound DEF HasBroker
<1> QED
  BY <1>1, <1>2

(***************************************************************************)
(* Handlers of the DEALER socket.                                          *)
(***************************************************************************)
\* s_on_dealer_msg resets the counter of missed heartbeats and nothing else.
LEMMA HeardSound ==
  ASSUME NEW b, Shape(b), Sound(b)
  PROVE  LET h == Heard(b)
         IN /\ Shape(h) /\ Sound(h) /\ SameTables(b, h)
            /\ h.timeout = 0
            /\ h.state = b.state /\ h.reg_loop = b.reg_loop
            /\ h.heartbeat_loop = b.heartbeat_loop /\ h.broker_id = b.broker_id
            /\ h.north = b.north
<1> DEFINE h == Heard(b)
<1>1. /\ Shape(h) /\ SameTables(b, h)
      /\ h.timeout = 0
      /\ h.state = b.state /\ h.reg_loop = b.reg_loop
      /\ h.heartbeat_loop = b.heartbeat_loop /\ h.broker_id = b.broker_id
      /\ h.north = b.north
  BY DEF Shape, BrokerFields, SameTables, Heard
<1> QED
  BY <1>1, SoundTables

\* s_cb_high_error with NODST changes nothing; with REGFAIL the offending local
\* client goes out of both tables, or the distant one out of its own.
LEMMA HighErrorKeeps ==
  ASSUME NEW b, Shape(b), Sound(b), NEW n, NEW m
  PROVE  /\ Keeps(Heard(b), s_cb_high_error_regfail(b, n).b)
         /\ Keeps(Heard(b), s_cb_high_error_nodst(b, m, n).b)
<1> DEFINE h == Heard(b)
           k == b.rev_lcl_cli[n]
           c == remove_subscriptions(h, {k[1]})
<1>1. Shape(h) /\ Sound(h) /\ SameTables(b, h)
  BY HeardSound
<1> HIDE DEF h
<1>2. Keeps(h, h)
  BY <1>1, KeepsRefl
<1>3. s_cb_high_error_nodst(b, m, n).b = h
  BY DEF s_cb_high_error_nodst, Result, h
<1>4. CASE HasRevLocal(b, n)
  <2>1. s_cb_high_error_regfail(b, n).b = UnlinkLocal(c, {k})
    BY <1>4 DEF s_cb_high_error_regfail, Result, h
  <2>2. Keeps(h, c) /\ SameTables(h, c)
    BY <1>1, SubscriptionSound
  <2>3. {k} \in SUBSET DOMAIN c.lcl_cli
    BY <1>1, <1>4, <2>2 DEF HasRevLocal, SameTables, Sound, TablesAgree
  <2>4. Keeps(c, UnlinkLocal(c, {k}))
    BY <2>2, <2>3, UnlinkLocalSound DEF Keeps
  <2> QED
    BY <1>2, <1>3, <2>1, <2>2, <2>4, KeepsTrans DEF h
<1>5. CASE ~HasRevLocal(b, n) /\ HasDist(b, n)
  <2>1. s_cb_high_error_regfail(b, n).b = RemoveDist(h, {n})
    BY <1>5 DEF s_cb_high_error_regfail, Result, h
  <2> QED
    BY <1>1, <1>2, <1>3, <2>1, RemoveDistSound DEF h
<1>6. CASE ~HasRevLocal(b, n) /\ ~HasDist(b, n)
  <2>1. s_cb_high_error_regfail(b, n).b = h
    BY <1>6 DEF s_cb_high_error_regfail, Result, Nothing, h
  <2> QED
    BY <1>2, <1>3, <2>1 DEF h
<1> QED
  BY <1>4, <1>5, <1>6

(***************************************************************************)
(* From one broker to the specification.                                   *)
(***************************************************************************)
\* The state and the timers of a broker that is not dead.
Timers(b, d) ==
  /\ b.state # CRASHED => TimersMatch(b, StartState = UNREG)
  /\ d \in {"asked", "challenged"} /\ b.state # CRASHED =>
       Unregistered(b) /\ StartState = UNREG

\* IInv in terms of the lemmas above.
LEMMA IInvParts ==
  /\ IInv <=> /\ Shape(broker) /\ Sound(broker) /\ ScalarsOK(broker)
              /\ dealer \in {"idle", "asked", "challenged", "done"}
              /\ Timers(broker, dealer)
  /\ IInv' <=> /\ Shape(broker') /\ Sound(broker') /\ ScalarsOK(broker')
               /\ dealer' \in {"idle", "asked", "challenged", "done"}
               /\ Timers(broker', dealer')
BY DEF IInv, TypeOK, LocalTablesAgree, OneOwner, DistRoutable, TimersInStep, Sound, Timers

\* A callback that only changes tables keeps IInv.
LEMMA TableStep ==
  ASSUME IInv, Keeps(broker, broker'), dealer' = dealer
  PROVE  IInv'
<1>1. ScalarsOK(broker') /\ Timers(broker', dealer')
  BY IInvParts DEF Keeps, SameScalars, ScalarsOK, Timers, TimersMatch, Unregistered
<1> QED
  BY <1>1, IInvParts DEF Keeps

\* So does one that the higher broker's message starts.
LEMMA HeardStep ==
  ASSUME IInv, Keeps(Heard(broker), broker'), dealer' = dealer
  PROVE  IInv'
<1> DEFINE h == Heard(broker)
<1>1. Shape(broker) /\ Sound(broker) /\ ScalarsOK(broker) /\ Timers(broker, dealer)
  BY IInvParts
<1>2. /\ h.timeout = 0
      /\ h.state = broker.state /\ h.reg_loop = broker.reg_loop
      /\ h.heartbeat_loop = broker.heartbeat_loop /\ h.broker_id = broker.broker_id
      /\ h.north = broker.north
  BY <1>1, HeardSound
<1>3. SameScalars(h, broker')
  BY DEF Keeps
<1> HIDE DEF h
<1>4. ScalarsOK(broker') /\ Timers(broker', dealer')
  BY <1>1, <1>2, <1>3, BrokerAssumption
  DEF SameScalars, ScalarsOK, Timers, TimersMatch, Unregistered
<1> QED
  BY <1>4, IInvParts DEF Keeps

\* A broker that dies leaves its tables as they were.
LEMMA CrashStep ==
  ASSUME IInv, NEW b, Shape(b), Sound(b), ScalarsOK(b),
         broker' = [b EXCEPT !.state = CRASHED], dealer' = dealer
  PROVE  IInv'
<1>1. /\ Shape(broker') /\ SameTables(b, broker')
      /\ broker'.state = CRASHED /\ broker'.timeout = b.timeout
      /\ broker'.reg_loop = b.reg_loop /\ broker'.heartbeat_loop = b.heartbeat_loop
      /\ broker'.broker_id = b.broker_id /\ broker'.north = b.north
  BY DEF Shape, BrokerFields, SameTables
<1>2. Sound(broker')
  BY <1>1, SoundTables
<1>3. ScalarsOK(broker') /\ Timers(broker', dealer')
  BY <1>1 DEF ScalarsOK, Timers, REGISTERED, CRASHED
<1> QED
  BY <1>1, <1>2, <1>3, IInvParts

\* A new broker has empty tables and, below another broker, one timer.
LEMMA NewBrokerIInv ==
  ASSUME NEW b, b = NewBroker(StartState)
  PROVE  Shape(b) /\ Sound(b) /\ ScalarsOK(b) /\ Timers(b, "idle")
<1>1. /\ Shape(b) /\ b.state = StartState /\ b.timeout = 0
      /\ b.reg_loop = (IF StartState = UNREG THEN 1 ELSE 0)
      /\ b.heartbeat_loop = 0 /\ b.broker_id = RootId /\ b.north = FALSE
      /\ b.lcl_cli = <<>> /\ b.rev_lcl_cli = <<>> /\ b.dist_cli = <<>> /\ b.lcl_br = <<>>
  BY DEF Shape, BrokerFields, NewBroker
<1>2. DOMAIN <<>> = {}
  OBVIOUS
<1>3. Sound(b)
  BY <1>1, <1>2 DEF Sound, TablesOK, TablesAgree, NamesDisjoint, RoutesLive
<1>4. StartState \in {UNREG, ROOT} /\ 0 \in 0 .. Limit + 1
  BY BrokerAssumption, EnvironmentAssumption
<1>5. ScalarsOK(b)
  <2>1. b.north \in BOOLEAN
    BY <1>1
  <2>2. b.state \in {UNREG, ROOT} /\ b.state # REGISTERED
    BY <1>1, <1>4 DEF UNREG, ROOT, REGISTERED
  <2>3. b.reg_loop \in 0 .. 1 /\ b.heartbeat_loop \in 0 .. 1
    BY <1>1
  <2> QED
    BY <1>1, <1>4, <2>1, <2>2, <2>3 DEF ScalarsOK
<1>6. Timers(b, "idle")
  BY <1>1, <1>4 DEF Timers, TimersMatch, UNREG, ROOT, REGISTERED, CRASHED
<1> QED
  BY <1>1, <1>3, <1>5, <1>6

\* s_cb_chall remembers the socket id and starts nothing.
LEMMA ChallStep ==
  ASSUME IInv, NEW id \in Ids, broker' = s_cb_chall(broker, id).b,
         dealer = "asked", dealer' = "challenged"
  PROVE  IInv'
<1>1. Shape(broker) /\ Sound(broker) /\ ScalarsOK(broker) /\ Timers(broker, dealer)
  BY IInvParts
<1>2. /\ Shape(broker') /\ SameTables(broker, broker')
      /\ broker'.timeout = 0 /\ broker'.state = broker.state
      /\ broker'.reg_loop = broker.reg_loop
      /\ broker'.heartbeat_loop = broker.heartbeat_loop
      /\ broker'.broker_id = id /\ broker'.north = broker.north
  BY <1>1 DEF Shape, BrokerFields, SameTables, s_cb_chall, Heard, Result
<1>3. Sound(broker')
  BY <1>1, <1>2, SoundTables
<1>4. ScalarsOK(broker') /\ Timers(broker', dealer')
  BY <1>1, <1>2, BrokerAssumption DEF ScalarsOK, Timers, TimersMatch, Unregistered
<1> QED
  BY <1>2, <1>3, <1>4, IInvParts

\* s_cb_regok ends the one registration timer and starts the one heartbeat:
\* a challenge was pending, so the broker was not registered.
LEMMA RegokStep ==
  ASSUME IInv, NEW order, broker' = s_cb_regok(broker, order).b,
         broker.state # CRASHED, dealer = "challenged", dealer' = "done"
  PROVE  IInv'
<1>1. Shape(broker) /\ Sound(broker) /\ ScalarsOK(broker) /\ Timers(broker, dealer)
  BY IInvParts
<1>2. /\ broker.state # REGISTERED /\ StartState = UNREG
      /\ broker.reg_loop = 1 /\ broker.heartbeat_loop = 0
  BY <1>1 DEF Timers, TimersMatch, Unregistered, UNREG, ROOT, REGISTERED
<1>3. /\ Shape(broker') /\ SameTables(broker, broker')
      /\ broker'.timeout = 0 /\ broker'.state = REGISTERED
      /\ broker'.reg_loop = 0 /\ broker'.heartbeat_loop = 1
      /\ broker'.broker_id = broker.broker_id
  <2> DEFINE h == Heard(broker)
  <2>1. /\ Shape(h) /\ SameTables(broker, h) /\ h.timeout = 0
        /\ h.reg_loop = 1 /\ h.heartbeat_loop = 0 /\ h.broker_id = broker.broker_id
    BY <1>1, <1>2, HeardSound
  <2>2. broker' = [h EXCEPT !.state = REGISTERED,
                            !.reg_loop = IF @ > 0 THEN @ - 1 ELSE 0,
                            !.heartbeat_loop = @ + 1, !.north = TRUE]
    BY DEF s_cb_regok, Result
  <2> HIDE DEF h
  <2>3. Shape(broker')
    BY <2>1, <2>2 DEF Shape, BrokerFields
  <2>4. SameTables(h, broker')
    BY <2>1, <2>2 DEF Shape, BrokerFields, SameTables
  <2>5. /\ broker'.timeout = h.timeout /\ broker'.state = REGISTERED
        /\ broker'.reg_loop = 0 /\ broker'.heartbeat_loop = 1
        /\ broker'.broker_id = h.broker_id
    BY <2>1, <2>2 DEF Shape, BrokerFields
  <2> QED
    BY <2>1, <2>3, <2>4, <2>5 DEF SameTables
<1>4. Sound(broker')
  BY <1>1, <1>3, SoundTables
<1>5. ScalarsOK(broker')
  <2>1. broker'.north \in BOOLEAN
    BY <1>1 DEF Shape, BrokerFields, s_cb_regok, Heard, Result
  <2> QED
    BY <1>1, <1>3, <2>1, BrokerAssumption DEF ScalarsOK, REGISTERED
<1>6. Timers(broker', dealer')
  BY <1>2, <1>3 DEF Timers, TimersMatch
<1> QED
  BY <1>3, <1>4, <1>5, <1>6, IInvParts

\* s_cb_forward_dsock changes no table; in a broker that has given its higher
\* broker up, a FORWARD to an unknown client ends the process.
LEMMA ForwardDsockStep ==
  ASSUME IInv, NEW src, NEW dst, broker' = s_cb_forward_dsock(broker, src, dst).b,
         dealer' = dealer
  PROVE  IInv'
<1> DEFINE h == Heard(broker)
           dead == [h EXCEPT !.state = CRASHED]
<1>1. Shape(broker) /\ Sound(broker) /\ ScalarsOK(broker)
  BY IInvParts
<1>2. Shape(h) /\ Sound(h) /\ ScalarsOK(h)
  <2>1. /\ Shape(h) /\ Sound(h) /\ h.timeout = 0
        /\ h.state = broker.state /\ h.reg_loop = broker.reg_loop
        /\ h.heartbeat_loop = broker.heartbeat_loop /\ h.broker_id = broker.broker_id
        /\ h.north = broker.north
    BY <1>1, HeardSound
  <2> HIDE DEF h
  <2> QED
    BY <1>1, <2>1, BrokerAssumption DEF ScalarsOK
<1>3. broker' = h \/ broker' = dead
  <2> DEFINE inv == Nothing(dead)
  <2>1. inv.b = dead
    BY DEF Nothing, Result
  <2>2. broker' = Route(h, src, dst, inv).b
    BY DEF s_cb_forward_dsock
  <2> HIDE DEF inv
  <2> QED
    BY <2>1, <2>2, RouteState
<1>4. CASE broker' = h
  BY <1>2, <1>4, KeepsRefl, HeardStep
<1>5. CASE broker' = dead
  BY <1>2, <1>5, CrashStep
<1> QED
  BY <1>3, <1>4, <1>5

\* A publication from another broker changes no table.
LEMMA DeliverRemoteStep ==
  ASSUME IInv, NEW topic, NEW name, NEW ps,
         broker' = DeliverRemote(broker, topic, name, ps).b, dealer' = dealer
  PROVE  IInv'
<1>1. Shape(broker) /\ Sound(broker) /\ ScalarsOK(broker)
  BY IInvParts
<1>2. broker' = broker \/ broker' = [broker EXCEPT !.state = CRASHED]
  BY DEF DeliverRemote, WithPs, Result
<1>3. CASE broker' = broker
  BY <1>1, <1>3, KeepsRefl, TableStep
<1>4. CASE broker' = [broker EXCEPT !.state = CRASHED]
  BY <1>1, <1>4, CrashStep
<1> QED
  BY <1>2, <1>3, <1>4

(***************************************************************************)
(* Timers.                                                                 *)
(***************************************************************************)
\* s_heartbeat counts a missed heartbeat, and after Limit of them goes back to
\* registering: one timer ends as the other starts.
LEMMA HeartbeatStep ==
  ASSUME IInv, broker' = s_heartbeat(broker).b, broker.state # CRASHED,
         broker.heartbeat_loop > 0, dealer' = dealer
  PROVE  IInv'
<1> DEFINE b1 == [broker EXCEPT !.timeout = @ + 1]
           b2 == [b1 EXCEPT !.state = ROOT, !.heartbeat_loop = @ - 1, !.reg_loop = @ + 1]
<1>1. Shape(broker) /\ Sound(broker) /\ ScalarsOK(broker) /\ Timers(broker, dealer)
  BY IInvParts
<1>2. /\ broker.state = REGISTERED /\ StartState = UNREG
      /\ broker.timeout \in Nat /\ broker.timeout <= Limit /\ Limit \in Nat
      /\ broker.reg_loop = 0 /\ broker.heartbeat_loop = 1
      /\ dealer \notin {"asked", "challenged"}
  BY <1>1, BrokerAssumption
  DEF Timers, TimersMatch, ScalarsOK, Unregistered, UNREG, ROOT, REGISTERED
<1>3. /\ Shape(b1) /\ SameTables(broker, b1)
      /\ b1.timeout = broker.timeout + 1 /\ b1.state = REGISTERED
      /\ b1.reg_loop = 0 /\ b1.heartbeat_loop = 1
      /\ b1.broker_id = broker.broker_id /\ b1.north = broker.north
  BY <1>1, <1>2 DEF Shape, BrokerFields, SameTables
<1>4. broker' = IF b1.timeout > Limit THEN b2 ELSE b1
  BY DEF s_heartbeat, Result
<1> HIDE DEF b1
<1>5. CASE b1.timeout > Limit
  <2>1. /\ Shape(broker') /\ SameTables(b1, broker')
        /\ broker'.timeout = b1.timeout /\ broker'.state = ROOT
        /\ broker'.reg_loop = 1 /\ broker'.heartbeat_loop = 0
        /\ broker'.broker_id = b1.broker_id /\ broker'.north = b1.north
    <3>1. broker' = b2
      BY <1>4, <1>5
    <3>2. Shape(broker')
      BY <1>3, <3>1 DEF Shape, BrokerFields
    <3>3. SameTables(b1, broker')
      BY <1>3, <3>1 DEF Shape, BrokerFields, SameTables
    <3>4. /\ broker'.timeout = b1.timeout /\ broker'.state = ROOT
          /\ broker'.reg_loop = 1 /\ broker'.heartbeat_loop = 0
      BY <1>3, <3>1 DEF Shape, BrokerFields
    <3>5. broker'.broker_id = b1.broker_id /\ broker'.north = b1.north
      BY <1>3, <3>1 DEF Shape, BrokerFields
    <3> QED
      BY <3>2, <3>3, <3>4, <3>5
  <2>2. Sound(broker')
    BY <1>1, <1>3, <2>1, SoundTables
  <2>3. ScalarsOK(broker')
    BY <1>1, <1>2, <1>3, <2>1 DEF ScalarsOK, ROOT, REGISTERED
  <2>4. Timers(broker', dealer')
    BY <1>2, <2>1 DEF Timers, TimersMatch, ROOT, REGISTERED
  <2> QED
    BY <2>1, <2>2, <2>3, <2>4, IInvParts
<1>6. CASE ~(b1.timeout > Limit)
  <2>1. Sound(broker') /\ Shape(broker')
    BY <1>1, <1>3, <1>4, <1>6, SoundTables
  <2>2. ScalarsOK(broker') /\ Timers(broker', dealer')
    BY <1>1, <1>2, <1>3, <1>4, <1>6 DEF ScalarsOK, Timers, TimersMatch
  <2> QED
    BY <2>1, <2>2, IInvParts
<1> QED
  BY <1>5, <1>6

\* s_check_cli_timeout: the clients that stay were below the limit.
LEMMA CheckCliKeeps ==
  ASSUME NEW b, Shape(b), Sound(b), NEW order
  PROVE  Keeps(b, s_check_cli_timeout(b, order).b)
<1> DEFINE K == SilentClients(b)
           c == remove_subscriptions(b, {k[1] : k \in K})
           d == UnlinkLocal(c, K)
           L == [k \in DOMAIN d.lcl_cli |-> [d.lcl_cli[k] EXCEPT !.timeout = @ + 1]]
           e == [d EXCEPT !.lcl_cli = L]
<1>1. s_check_cli_timeout(b, order).b = e
  BY DEF s_check_cli_timeout, Result
<1>2. Keeps(b, c) /\ SameTables(b, c)
  BY SubscriptionSound
<1>3. K \in SUBSET DOMAIN c.lcl_cli
  BY <1>2 DEF SilentClients, SameTables
<1> HIDE DEF c
<1>4. Keeps(c, d)
  BY <1>2, <1>3, UnlinkLocalSound DEF Keeps
<1>5. /\ DOMAIN d.lcl_cli = DOMAIN b.lcl_cli \ K
      /\ \A k \in DOMAIN d.lcl_cli : d.lcl_cli[k] = b.lcl_cli[k]
  BY <1>2 DEF UnlinkLocal, Without, Restrict, SameTables, Keeps, Shape, BrokerFields
<1> HIDE DEF d
<1>6. \A k \in DOMAIN d.lcl_cli :
        d.lcl_cli[k] \in [name : Names, timeout : 0 .. Limit] /\ d.lcl_cli[k].timeout < Limit
  <2>1. \A k \in DOMAIN d.lcl_cli : d.lcl_cli[k] \in [name : Names, timeout : 0 .. Limit]
    BY <1>4 DEF Keeps, Sound, TablesOK
  <2> QED
    BY <1>5, <2>1, BrokerAssumption DEF SilentClients
<1>7. /\ Shape(e) /\ SameScalars(d, e)
      /\ e.rev_lcl_cli = d.rev_lcl_cli /\ e.dist_cli = d.dist_cli /\ e.lcl_br = d.lcl_br
      /\ e.lcl_cli = L
  <2> HIDE DEF L
  <2> QED
    BY <1>4 DEF Keeps, Shape, BrokerFields, SameScalars
<1> HIDE DEF e
<1>8. /\ DOMAIN e.lcl_cli = DOMAIN d.lcl_cli
      /\ \A k \in DOMAIN d.lcl_cli : /\ e.lcl_cli[k] \in [name : Names, timeout : 0 .. Limit]
                                    /\ e.lcl_cli[k].name = d.lcl_cli[k].name
  BY <1>6, <1>7, BrokerAssumption
<1>9. TablesOK(e)
  BY <1>4, <1>7, <1>8 DEF Keeps, Sound, TablesOK
<1>10. TablesAgree(e) /\ NamesDisjoint(e) /\ RoutesLive(e)
  BY <1>4, <1>7, <1>8 DEF Keeps, Sound, TablesAgree, NamesDisjoint, RoutesLive
<1>11. Keeps(d, e)
  BY <1>7, <1>9, <1>10 DEF Keeps, Sound
<1> QED
  BY <1>1, <1>2, <1>4, <1>11, KeepsTrans

\* s_check_br_timeout: with a silent broker go all the clients behind it, so
\* every route left leads to a broker that stays.
LEMMA CheckBrKeeps ==
  ASSUME NEW b, Shape(b), Sound(b), NEW order
  PROVE  Keeps(b, s_check_br_timeout(b, order).b)
<1> DEFINE S == SilentBrokers(b)
           d == RemoveDist(b, Behind(b, S))
           e == [d EXCEPT !.lcl_br = [s \in DOMAIN @ \ S |-> @[s] + 1]]
<1>1. s_check_br_timeout(b, order).b = e
  BY DEF s_check_br_timeout, Result
<1>2. Keeps(b, d)
  BY RemoveDistSound
<1>3. /\ d.lcl_br = b.lcl_br
      /\ DOMAIN d.dist_cli = DOMAIN b.dist_cli \ Behind(b, S)
      /\ \A n \in DOMAIN d.dist_cli : d.dist_cli[n] = b.dist_cli[n]
  BY DEF RemoveDist, Without, Restrict, Shape, BrokerFields
<1> HIDE DEF d
<1>4. \A n \in DOMAIN d.dist_cli : d.dist_cli[n] \in DOMAIN d.lcl_br \ S
  BY <1>3 DEF Behind, Sound, RoutesLive
<1>5. \A s \in DOMAIN d.lcl_br \ S : d.lcl_br[s] \in 0 .. Limit /\ d.lcl_br[s] < Limit
  BY <1>3, BrokerAssumption DEF SilentBrokers, Sound, TablesOK
<1>6. /\ Shape(e) /\ SameScalars(d, e)
      /\ e.lcl_cli = d.lcl_cli /\ e.rev_lcl_cli = d.rev_lcl_cli /\ e.dist_cli = d.dist_cli
      /\ e.lcl_br = [s \in DOMAIN d.lcl_br \ S |-> d.lcl_br[s] + 1]
  BY <1>2 DEF Keeps, Shape, BrokerFields, SameScalars
<1> HIDE DEF e, S
<1>7. /\ DOMAIN e.lcl_br = DOMAIN d.lcl_br \ S
      /\ \A s \in DOMAIN e.lcl_br : e.lcl_br[s] \in 0 .. Limit
  BY <1>5, <1>6, BrokerAssumption
<1>8. TablesOK(e)
  BY <1>2, <1>6, <1>7 DEF Keeps, Sound, TablesOK
<1>9. TablesAgree(e) /\ NamesDisjoint(e) /\ RoutesLive(e)
  BY <1>2, <1>4, <1>6, <1>7 DEF Keeps, Sound, TablesAgree, NamesDisjoint, RoutesLive
<1>10. Keeps(d, e)
  BY <1>6, <1>8, <1>9 DEF Keeps, Sound
<1> QED
  BY <1>1, <1>2, <1>10, KeepsTrans

(***************************************************************************)
(* The invariant.                                                          *)
(***************************************************************************)
\* The broker starts, and starts again, in a state that satisfies IInv.
LEMMA InitIInv == Init => IInv
<1> SUFFICES ASSUME Init PROVE IInv
  OBVIOUS
<1>1. broker = NewBroker(StartState) /\ dealer = "idle"
  BY DEF Init
<1>2. Shape(broker) /\ Sound(broker) /\ ScalarsOK(broker) /\ Timers(broker, "idle")
  BY <1>1, NewBrokerIInv
<1> QED
  BY <1>1, <1>2, IInvParts

\* What Do and Step say of the broker.
LEMMA DoStep ==
  ASSUME NEW r, Do(r)
  PROVE  broker' = r.b /\ dealer' = dealer /\ broker.state # CRASHED
BY DEF Do, Step

\* Every callback, every timer and a restart keep IInv.
LEMMA NextIInv == IInv /\ [Next]_vars => IInv'
<1> SUFFICES ASSUME IInv, [Next]_vars PROVE IInv'
  OBVIOUS
<1>0. Shape(broker) /\ Sound(broker) /\ ScalarsOK(broker) /\ Timers(broker, dealer)
  BY IInvParts
<1>1. CASE ChallokClient
  <2>1. PICK s \in ClientSocks, n \in ClientNames :
          Do(s_cb_challok_client(broker, s, TenantOf[s], n))
    BY <1>1 DEF ChallokClient
  <2>2. s \in Sockids /\ TenantOf[s] \in Tenants
    BY EnvironmentAssumption
  <2> QED
    BY <1>0, <2>1, <2>2, DoStep, ChallokClientKeeps, TableStep
<1>2. CASE Unreg
  BY <1>0, <1>2, DoStep, UnregKeeps, TableStep DEF Unreg
<1>3. CASE PingClient
  BY <1>0, <1>3, DoStep, PingKeeps, TableStep DEF PingClient
<1>4. CASE Send
  BY <1>0, <1>4, DoStep, SendKeeps, TableStep DEF Send
<1>5. CASE Sub
  BY <1>0, <1>5, DoStep, SubKeeps, TableStep DEF Sub
<1>6. CASE Unsub
  BY <1>0, <1>6, DoStep, SubKeeps, TableStep DEF Unsub
<1>7. CASE Publish
  BY <1>0, <1>7, DoStep, PubKeeps, TableStep DEF Publish
<1>8. CASE ChallokBroker
  BY <1>0, <1>8, DoStep, ChallokBrokerKeeps, TableStep, EnvironmentAssumption
  DEF ChallokBroker
<1>9. CASE PingBroker
  BY <1>0, <1>9, DoStep, PingKeeps, TableStep DEF PingBroker
<1>10. CASE AddDistant
  BY <1>0, <1>10, DoStep, DistantKeeps, TableStep DEF AddDistant
<1>11. CASE UnregDistant
  BY <1>0, <1>11, DoStep, DistantKeeps, TableStep DEF UnregDistant
<1>12. CASE ForwardRsock
  BY <1>0, <1>12, DoStep, ForwardRsockKeeps, TableStep DEF ForwardRsock
<1>13. CASE ChallMsg
  BY <1>13, ChallStep DEF ChallMsg, Step
<1>14. CASE Regok
  BY <1>14, RegokStep DEF Regok, Step
<1>15. CASE PongMsg
  <2>1. broker' = Heard(broker) /\ dealer' = dealer
    BY <1>15, DoStep DEF PongMsg, Nothing, Result
  <2> QED
    BY <1>0, <2>1, HeardSound, KeepsRefl, HeardStep
<1>16. CASE ForwardDsock
  BY <1>16, DoStep, ForwardDsockStep DEF ForwardDsock
<1>17. CASE NodstMsg
  BY <1>0, <1>17, DoStep, HighErrorKeeps, HeardStep DEF NodstMsg
<1>18. CASE RegfailMsg
  BY <1>0, <1>18, HighErrorKeeps, HeardStep DEF RegfailMsg, Step
<1>19. CASE Register
  <2>1. broker' = broker /\ dealer' = "asked" /\ broker.state # CRASHED
        /\ broker.reg_loop > 0 /\ Unregistered(broker)
    BY <1>19 DEF Register, Step, s_register, Result
  <2>2. StartState = UNREG
    BY <1>0, <2>1 DEF Timers, TimersMatch
  <2>3. Timers(broker', dealer')
    BY <1>0, <2>1, <2>2 DEF Timers
  <2> QED
    BY <1>0, <2>1, <2>3, IInvParts
<1>20. CASE Heartbeat
  BY <1>20, DoStep, HeartbeatStep DEF Heartbeat
<1>21. CASE CheckCliTimeout
  BY <1>0, <1>21, DoStep, CheckCliKeeps, TableStep DEF CheckCliTimeout
<1>22. CASE CheckBrTimeout
  BY <1>0, <1>22, DoStep, CheckBrKeeps, TableStep DEF CheckBrTimeout
<1>23. CASE SubNMsg
  <2>1. PICK p \in RemotePubs : Do(s_on_subN_msg(broker, p.topic, p.name, p.pathv))
    BY <1>23 DEF SubNMsg
  <2>2. CASE p.pathv = broker.broker_id
    <3>1. broker' = broker /\ dealer' = dealer
      BY <2>1, <2>2, DoStep DEF s_on_subN_msg, Nothing, Result
    <3> QED
      BY <1>0, <3>1, KeepsRefl, TableStep
  <2>3. CASE p.pathv # broker.broker_id
    BY <2>1, <2>3, DoStep, DeliverRemoteStep DEF s_on_subN_msg
  <2> QED
    BY <2>2, <2>3
<1>24. CASE SubSMsg
  BY <1>24, DoStep, DeliverRemoteStep DEF SubSMsg, s_on_subS_msg
<1>25. CASE Restart
  <2>1. broker' = NewBroker(StartState) /\ dealer' = "idle"
    BY <1>25 DEF Restart
  <2>2. Shape(broker') /\ Sound(broker') /\ ScalarsOK(broker') /\ Timers(broker', "idle")
    BY <2>1, NewBrokerIInv
  <2> QED
    BY <2>1, <2>2, IInvParts
<1>26. CASE UNCHANGED vars
  BY <1>0, <1>26, KeepsRefl, TableStep DEF vars
<1>27. CASE ProtectedDies
  <2>1. broker' = [broker EXCEPT !.state = CRASHED] /\ dealer' = dealer
    BY <1>27, DoStep DEF ProtectedDies, Nothing, Result
  <2> QED
    BY <1>0, <2>1, CrashStep
<1> QED
  BY <1>1, <1>2, <1>3, <1>4, <1>5, <1>6, <1>7, <1>8, <1>9, <1>10, <1>11, <1>12, <1>13,
     <1>14, <1>15, <1>16, <1>17, <1>18, <1>19, <1>20, <1>21, <1>22, <1>23, <1>24, <1>25,
     <1>26, <1>27
  DEF Next

\* IInv holds in every reachable state of the broker.
THEOREM IInvInvariant == Spec => []IInv
BY InitIInv, NextIInv, PTL DEF Spec

\* The broker's fields have their types, and no counter of silent ticks passes
\* its limit by more than one.
THEOREM TypeCorrect == Spec => []TypeOK
<1>1. IInv => TypeOK
  BY DEF IInv
<1> QED
  BY <1>1, IInvInvariant, PTL

\* The tables by key and by name always index the same local clients.
THEOREM TablesAlwaysAgree == Spec => []LocalTablesAgree
<1>1. IInv => LocalTablesAgree
  BY DEF IInv
<1> QED
  BY <1>1, IInvInvariant, PTL

\* No name is ever both local and distant.
THEOREM NameHasOneOwner == Spec => []OneOwner
<1>1. IInv => OneOwner
  BY DEF IInv
<1> QED
  BY <1>1, IInvInvariant, PTL

\* Every distant client is always routed to a registered broker.
THEOREM RoutesStayLive == Spec => []DistRoutable
<1>1. IInv => DistRoutable
  BY DEF IInv
<1> QED
  BY <1>1, IInvInvariant, PTL

\* Exactly one of the two timers towards the higher broker runs at any time.
THEOREM OneTimerRuns == Spec => []TimersInStep
<1>1. IInv => TimersInStep
  BY DEF IInv
<1> QED
  BY <1>1, IInvInvariant, PTL
=============================================================================
