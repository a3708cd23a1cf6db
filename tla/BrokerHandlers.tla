--------------------------- MODULE BrokerHandlers ---------------------------
(***************************************************************************)
(* The callbacks of one broker (src/lib/broker.c) as functions of its      *)
(* state.  Every handler returns what one run of the callback does as a    *)
(* whole:                                                                  *)
(*   b    the new broker state                                             *)
(*   up   the messages written to dsock, in order (to the higher broker)   *)
(*   rout the messages written to rsock, each with the socket it goes to   *)
(*   ps   the messages written to the four pub/sub sockets                 *)
(* The parameter order is the order in which a hash table is traversed.    *)
(***************************************************************************)
EXTENDS BrokerTables

(***************************************************************************)
(* Messages.  The fields src and dst of DATA say whose message it is; on   *)
(* the wire there is only the name shown to the receiver.                  *)
(***************************************************************************)
Simple(cmd) == [cmd |-> cmd]
Adddcl(name) == [cmd |-> "ADDDCL", name |-> name]
Unregdcli(name) == [cmd |-> "UNREGDCLI", name |-> name]
Forward(src, dst) == [cmd |-> "FORWARD", src |-> src, dst |-> dst]
Nodst(dst, src) == [cmd |-> "NODST", dst |-> dst, src |-> src]
Regfail(name) == [cmd |-> "REGFAIL", name |-> name]
Data(src, dst) == [cmd |-> "DATA", shown |-> Shown(src, dst), src |-> src, dst |-> dst]
Chall(id) == [cmd |-> "CHALL", id |-> id]
Subok(topic, scope) == [cmd |-> "SUBOK", topic |-> topic, scope |-> scope]
Pub(name, topic) == [cmd |-> "PUB", name |-> name, topic |-> topic]

PubMsg(pubtopic, name, pathv) ==
  [cmd |-> "PUB", topic |-> pubtopic, name |-> name, pathv |-> pathv]

To(s, m) == {[to |-> s, m |-> m]}
Result(b, up, rout) == [b |-> b, up |-> up, rout |-> rout, ps |-> {}]
Nothing(b) == Result(b, <<>>, {})

PsNorth(b, sock, m) == IF b.north THEN {[sock |-> sock, m |-> m]} ELSE {}
PsSouth(sock, m) == {[sock |-> sock, m |-> m]}
WithPs(r, ps) == [r EXCEPT !.ps = ps]

(***************************************************************************)
(* Helpers.                                                                *)
(***************************************************************************)
add_cli_up(b, name) == IF b.state = REGISTERED THEN <<Adddcl(name)>> ELSE <<>>

\* del_cli_up for every name of the sequence order.
del_cli_up(b, order) ==
  IF b.state # ROOT THEN [i \in DOMAIN order |-> Unregdcli(order[i])] ELSE <<>>

forward_up(b, src, dst) ==
  IF b.state = REGISTERED THEN <<Forward(src, dst)>> ELSE <<>>

\* The lookup chain SEND and both FORWARD handlers share; invalid is what the
\* caller does when a root broker does not know the destination.
Route(b, src, dst, invalid) ==
  IF HasRevLocal(b, dst)
  THEN Result(b, <<>>, To(b.rev_lcl_cli[dst][1], Data(src, dst)))
  ELSE IF HasDist(b, dst)
  THEN Result(b, <<>>, To(b.dist_cli[dst], Forward(src, dst)))
  ELSE IF b.state = ROOT THEN invalid
  ELSE Result(b, forward_up(b, src, dst), {})

(***************************************************************************)
(* Messages from clients (s_on_router_msg).  A message with a cookie the   *)
(* table does not know is dropped.                                         *)
(***************************************************************************)
\* The challenge is answered with the tenant's cookie.
s_cb_challok_client(b, s, t, name) ==
  IF name = <<"public">> THEN Nothing(b)
  ELSE IF ~CanInsertLocal(b, s, t, name)
  THEN Result(b, <<>>, To(s, Regfail("local")))
  ELSE Result(InsertLocal(b, s, t, name), add_cli_up(b, PrefixName(t, name)),
              To(s, Simple("REGOK")))

\* Mutant of s_cb_unreg_cli: the higher broker is not told.
UnregSilently(b, s, cookie) ==
  IF ~HasLocal(b, <<s, cookie>>) THEN Nothing(b)
  ELSE Nothing(UnlinkLocal(remove_subscriptions(b, {s}), {<<s, cookie>>}))

s_cb_unreg_cli(b, s, cookie) ==
  LET k == <<s, cookie>> IN
  IF ~HasLocal(b, k) THEN Nothing(b)
  ELSE Result(UnlinkLocal(remove_subscriptions(b, {s}), {k}),
              del_cli_up(b, <<b.lcl_cli[k].name>>), {})

s_cb_ping(b, s, cookie) ==
  IF HasLocal(b, <<s, cookie>>)
  THEN Result(TouchClient(b, <<s, cookie>>), <<>>, To(s, Simple("PONG")))
  ELSE IF HasBroker(b, s, cookie)
  THEN Result(TouchBroker(b, s), <<>>, To(s, Simple("PONG")))
  ELSE Nothing(b)

s_cb_send(b, s, cookie, dest) ==
  LET k == <<s, cookie>>
      src == b.lcl_cli[k].name
      dst == Resolve(cookie, dest)
      strip == IsPublic(src) = IsPublic(dst)
  IN IF ~HasLocal(b, k) THEN Nothing(b)
     ELSE Route(TouchClient(b, k), src, dst,
                Result(TouchClient(b, k), <<>>,
                       To(s, IF strip THEN Nodst(Tail(dst), Tail(src))
                                      ELSE Nodst(dst, src))))

\* The protected topic is answered with a DATA message that shows an error as its
\* source.
s_cb_sub(b, s, cookie, topic, scope) ==
  LET b1 == TouchClient(b, <<s, cookie>>)
      t == SubTopic(cookie, topic, scope, Scope)
      b2 == nn_trie_subscribe(insert_subscription(b1, s, t), s, t)
      m == [cmd |-> "SUB", topic |-> t]
  IN IF ~HasLocal(b, <<s, cookie>>) THEN Nothing(b)
     ELSE IF topic = <<"public">> THEN Result(b1, <<>>, To(s, Simple("DATA")))
     ELSE WithPs(Result(b2, <<>>, To(s, Subok(topic, scope))),
                 IF FreshInTrie(b1, s, t)
                 THEN PsNorth(b, "subN", m) \cup PsSouth("subS", m) ELSE {})

\* Mutant of s_cb_unsub: the unsubscription is not sent south.
UnsubOnlyNorth(b, s, cookie, topic, scope) ==
  LET b1 == TouchClient(b, <<s, cookie>>)
      t == SubTopic(cookie, topic, scope, Scope)
  IN IF ~HasLocal(b, <<s, cookie>>) THEN Nothing(b)
     ELSE IF topic = <<"public">> THEN Result(b1, <<>>, To(s, Simple("DATA")))
     ELSE WithPs(Nothing(remove_subscription(b1, s, t)),
                 IF Topics(b, s) # {}
                 THEN PsNorth(b, "subN", [cmd |-> "UNSUB", topic |-> t]) ELSE {})

s_cb_unsub(b, s, cookie, topic, scope) ==
  LET b1 == TouchClient(b, <<s, cookie>>)
      t == SubTopic(cookie, topic, scope, Scope)
      m == [cmd |-> "UNSUB", topic |-> t]
  IN IF ~HasLocal(b, <<s, cookie>>) THEN Nothing(b)
     ELSE IF topic = <<"public">> THEN Result(b1, <<>>, To(s, Simple("DATA")))
     ELSE WithPs(Nothing(remove_subscription(b1, s, t)),
                 IF Topics(b, s) # {}
                 THEN PsNorth(b, "subN", m) \cup PsSouth("subS", m) ELSE {})

Deliver(b, pubtopic, name, topic) ==
  {[to |-> s, m |-> Pub(name, topic)] : s \in Subscribers(b, pubtopic)}

s_cb_pub(b, s, cookie, topic, unscoped) ==
  LET k == <<s, cookie>>
      name == IF IsPublic(topic) THEN b.lcl_cli[k].name ELSE Tail(b.lcl_cli[k].name)
      t == PubTopic(cookie, topic, unscoped, Scope)
  IN IF ~HasLocal(b, k) THEN Nothing(b)
     ELSE WithPs(Result(TouchClient(b, k), <<>>, Deliver(b, t, name, topic)),
                 PsNorth(b, "pubN", PubMsg(t, name, b.broker_id))
                   \cup PsSouth("pubS", PubMsg(t, name, NoId)))

(***************************************************************************)
(* Messages from lower brokers (s_on_router_msg).                          *)
(***************************************************************************)
\* A peer whose hash is not keys->hash is ignored (known = FALSE).
s_cb_addbr(b, s, known) ==
  IF known THEN Result(b, <<>>, To(s, Chall(s))) ELSE Nothing(b)

\* The challenge is answered with keys->cookie.
s_cb_challok_broker(b, s) ==
  IF HasBroker(b, s, BrokerCookie) THEN Nothing(b)
  ELSE Result(InsertBroker(b, s), <<>>, To(s, Simple("REGOK")))

\* Mutant of s_cb_adddcl: whether the broker is registered is not asked.
AdddclUnchecked(b, s, cookie, name) ==
  IF HasRevLocal(b, name) \/ HasDist(b, name)
  THEN Result(b, <<>>, To(s, Regfail(name)))
  ELSE Result(InsertDist(b, name, s), add_cli_up(b, name), {})

s_cb_adddcl(b, s, cookie, name) ==
  IF ~HasBroker(b, s, cookie) THEN Nothing(b)
  ELSE IF HasRevLocal(b, name) \/ HasDist(b, name)
  THEN Result(b, <<>>, To(s, Regfail(name)))
  ELSE Result(InsertDist(b, name, s), add_cli_up(b, name), {})

\* Mutant of s_cb_unreg_dist_cli: looks the name up in the wrong table.
UnregDistMissed(b, s, cookie, name) ==
  IF ~HasBroker(b, s, cookie) \/ ~HasRevLocal(b, name) THEN Nothing(b)
  ELSE Result(RemoveDist(b, {name}), del_cli_up(b, <<name>>), {})

s_cb_unreg_dist_cli(b, s, cookie, name) ==
  IF ~HasBroker(b, s, cookie) \/ ~HasDist(b, name) THEN Nothing(b)
  ELSE Result(RemoveDist(b, {name}), del_cli_up(b, <<name>>), {})

s_cb_forward_rsock(b, s, cookie, src, dst) ==
  IF ~HasBroker(b, s, cookie) THEN Nothing(b)
  ELSE Route(TouchBroker(b, s), src, dst,
             Result(TouchBroker(b, s), <<>>, To(s, Nodst(dst, src))))

(***************************************************************************)
(* Messages from the higher broker (s_on_dealer_msg): any of them shows    *)
(* that the higher broker is alive.                                        *)
(***************************************************************************)
Heard(b) == [b EXCEPT !.timeout = 0]

s_cb_chall(b, id) == Result([Heard(b) EXCEPT !.broker_id = id], <<Simple("CHALLOK")>>, {})

\* Mutant of s_cb_regok: the distant clients are not announced.
RegokLocalOnly(b, order) ==
  LET b1 == [Heard(b) EXCEPT !.state = REGISTERED,
                             !.reg_loop = IF @ > 0 THEN @ - 1 ELSE 0,
                             !.heartbeat_loop = @ + 1,
                             !.north = TRUE]
      mine == SelectSeq(order, LAMBDA n : HasRevLocal(b, n))
  IN Result(b1, [i \in DOMAIN mine |-> Adddcl(mine[i])], {})

\* order: every client of the broker, local ones first.  Timers are counted:
\* zloop_timer_end stops the one whose id the broker remembers.
s_cb_regok(b, order) ==
  LET b1 == [Heard(b) EXCEPT !.state = REGISTERED,
                             !.reg_loop = IF @ > 0 THEN @ - 1 ELSE 0,
                             !.heartbeat_loop = @ + 1,
                             !.north = TRUE]
  IN Result(b1, [i \in DOMAIN order |-> Adddcl(order[i])], {})

\* dest_invalid_dsock passes its arguments to a format with a field too few: a
\* length is taken for the address of a string, and the process dies.
s_cb_forward_dsock(b, src, dst) ==
  Route(Heard(b), src, dst, Nothing([Heard(b) EXCEPT !.state = CRASHED]))

s_cb_high_error_nodst(b, dst, src) ==
  Result(Heard(b), <<>>,
         IF HasRevLocal(b, src)
         THEN To(b.rev_lcl_cli[src][1], Nodst(Tail(dst), src))
         ELSE IF HasDist(b, src) THEN To(b.dist_cli[src], Nodst(dst, src))
         ELSE {})

\* Mutant of s_cb_high_error_regfail: tells the client and keeps it.
RegfailKept(b, name) ==
  Result(Heard(b), <<>>,
         IF HasRevLocal(b, name) THEN To(b.rev_lcl_cli[name][1], Regfail("remote"))
         ELSE IF HasDist(b, name) THEN To(b.dist_cli[name], Regfail(name)) ELSE {})

s_cb_high_error_regfail(b, name) ==
  LET k == b.rev_lcl_cli[name] IN
  IF HasRevLocal(b, name)
  THEN Result(UnlinkLocal(remove_subscriptions(Heard(b), {k[1]}), {k}), <<>>,
              To(k[1], Regfail("remote")))
  ELSE IF HasDist(b, name)
  THEN Result(RemoveDist(Heard(b), {name}), <<>>, To(b.dist_cli[name], Regfail(name)))
  ELSE Nothing(Heard(b))

(***************************************************************************)
(* Timers.                                                                 *)
(***************************************************************************)
\* A new dealer socket replaces the old one, so the higher broker will see a
\* new socket id.
Unregistered(b) == b.state \in {UNREG, ROOT}
s_register(b) == Result(b, IF Unregistered(b) THEN <<Simple("ADDBR")>> ELSE <<>>, {})

\* Mutant of s_heartbeat: the heartbeat timer is not ended.
HeartbeatGoesOn(b) ==
  LET b1 == [b EXCEPT !.timeout = @ + 1]
      b2 == IF b1.timeout > Limit
            THEN [b1 EXCEPT !.state = ROOT, !.reg_loop = @ + 1]
            ELSE b1
  IN Result(b2, <<Simple("PING")>>, {})

\* Mutant of s_heartbeat: gives the higher broker up a tick too early.
HeartbeatEarly(b) ==
  LET b1 == [b EXCEPT !.timeout = @ + 1]
      b2 == IF b1.timeout >= Limit
            THEN [b1 EXCEPT !.state = ROOT, !.heartbeat_loop = @ - 1,
                            !.reg_loop = @ + 1]
            ELSE b1
  IN Result(b2, <<Simple("PING")>>, {})

s_heartbeat(b) ==
  LET b1 == [b EXCEPT !.timeout = @ + 1]
      b2 == IF b1.timeout > Limit
            THEN [b1 EXCEPT !.state = ROOT, !.heartbeat_loop = @ - 1,
                            !.reg_loop = @ + 1]
            ELSE b1
  IN Result(b2, <<Simple("PING")>>, {})

\* Mutant of SilentClients: one tick late.
SilentClientsLate(b) == {k \in DOMAIN b.lcl_cli : b.lcl_cli[k].timeout > Limit}

SilentClients(b) == {k \in DOMAIN b.lcl_cli : b.lcl_cli[k].timeout >= Limit}

\* order: the names of the silent clients, as the table is traversed
s_check_cli_timeout(b, order) ==
  LET K == SilentClients(b)
      b1 == UnlinkLocal(remove_subscriptions(b, {k[1] : k \in K}), K)
      older == [k \in DOMAIN b1.lcl_cli |-> [b1.lcl_cli[k] EXCEPT !.timeout = @ + 1]]
  IN Result([b1 EXCEPT !.lcl_cli = older], del_cli_up(b, order), {})

SilentBrokers(b) == {s \in DOMAIN b.lcl_br : b.lcl_br[s] >= Limit}
Behind(b, S) == {name \in DOMAIN b.dist_cli : b.dist_cli[name] \in S}

\* Mutant of s_check_br_timeout: the clients behind the broker stay.
CheckBrKeepsClients(b, order) ==
  LET S == SilentBrokers(b)
  IN Nothing([b EXCEPT !.lcl_br = [s \in DOMAIN @ \ S |-> @[s] + 1]])

\* order: the names of the distant clients behind the silent brokers
s_check_br_timeout(b, order) ==
  LET S == SilentBrokers(b)
      b1 == RemoveDist(b, Behind(b, S))
  IN Result([b1 EXCEPT !.lcl_br = [s \in DOMAIN @ \ S |-> @[s] + 1]],
            del_cli_up(b, order), {})

(***************************************************************************)
(* The pub/sub sockets.                                                    *)
(***************************************************************************)
\* The topic between the first dot and the first '/'.
BareTopic(pubtopic) ==
  IF Scoped(pubtopic)
  THEN SubSeq(pubtopic, 2, (CHOOSE i \in DOMAIN pubtopic : pubtopic[i] = "/") - 1)
  ELSE Tail(pubtopic)

\* Delivery to the local subscribers of a publication from another broker, and
\* ps, what is sent on after that.  "*slash = '/'" is executed whether or not a
\* slash was found: without one the process dies at that line.
DeliverRemote(b, pubtopic, name, ps) ==
  LET out == Deliver(b, pubtopic, name, BareTopic(pubtopic))
  IN IF out # {} /\ ~Scoped(pubtopic)
     THEN Result([b EXCEPT !.state = CRASHED], <<>>, out)
     ELSE WithPs(Result(b, <<>>, out), ps)

\* Mutant of s_on_subN_msg: the broker does not recognise its own publications.
SubNTakesOwn(b, pubtopic, name, pathv) ==
  DeliverRemote(b, pubtopic, name, PsSouth("pubS", PubMsg(pubtopic, name, NoId)))

\* Mutant of s_on_subN_msg: sends on to both sides, as s_on_subS_msg does.
SubNBothWays(b, pubtopic, name, pathv) ==
  IF pathv = b.broker_id THEN Nothing(b)
  ELSE DeliverRemote(b, pubtopic, name, PsNorth(b, "pubN", PubMsg(pubtopic, name, NoId))
                                          \cup PsSouth("pubS", PubMsg(pubtopic, name, NoId)))

s_on_subN_msg(b, pubtopic, name, pathv) ==
  IF pathv = b.broker_id THEN Nothing(b)
  ELSE DeliverRemote(b, pubtopic, name, PsSouth("pubS", PubMsg(pubtopic, name, NoId)))

s_on_subS_msg(b, pubtopic, name, pathv) ==
  DeliverRemote(b, pubtopic, name,
                PsNorth(b, "pubN", PubMsg(pubtopic, name, b.broker_id))
                  \cup PsSouth("pubS", PubMsg(pubtopic, name, pathv)))

\* A subscription or its end m, passed on by an XPUB socket.  The trie functions
\* the two call (nn_trie_add_sub_north and so on) do nothing.
s_on_pubN_msg(b, m) == WithPs(Nothing(b), PsSouth("subS", m))

\* Mutant of s_on_pubS_msg: a subscription from below is not sent on north.
PubSOnlySouth(b, m) == WithPs(Nothing(b), PsSouth("subS", m))

s_on_pubS_msg(b, m) == WithPs(Nothing(b), PsNorth(b, "subN", m) \cup PsSouth("subS", m))
=============================================================================
