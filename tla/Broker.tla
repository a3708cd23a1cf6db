------------------------------- MODULE Broker -------------------------------
(***************************************************************************)
(* One broker in an environment that may send it anything the protocol     *)
(* allows: clients and lower brokers on the ROUTER socket, the higher      *)
(* broker on the DEALER socket, other brokers on the pub/sub sockets, and  *)
(* the four timers of the zloop.  The zloop runs one callback at a time,   *)
(* so a callback is one step.  What a callback sends does not come back as *)
(* state here: the properties about it quantify over every message the     *)
(* broker may receive next.  Callbacks that only answer (ADDLCL, ADDBR) or *)
(* pass on ((un)subscriptions on the XPUB sockets) leave the state as it   *)
(* is and have no action.                                                  *)
(***************************************************************************)
EXTENDS BrokerHandlers, Keys, SequencesExt

CONSTANTS
  StartState,    \* UNREG (a higher broker is configured) or ROOT
  ClientSocks,   \* the sockets of clients
  BrokerSocks,   \* the sockets of lower brokers
  TenantOf,      \* the tenant whose key file the client on a socket has loaded
  ClientNames,   \* names clients register, without the tenant
  Dests,         \* destinations clients type
  ClientTopics,  \* topics clients subscribe to
  PubTopics,     \* topics they publish on, without the trailing '$'
  ClientScopes,  \* scopes of their subscriptions
  Ids,           \* socket ids the higher broker may give this broker
  RemotePubs     \* publications arriving from other brokers

\* What arrives has its type, and no scope is longer than the broker's: on a longer
\* one s_cb_sub and s_cb_unsub free the strings they go on reading (and free them
\* again for the next number), and what follows is anything.
ASSUME EnvironmentAssumption ==
  /\ StartState \in {UNREG, ROOT}
  /\ ClientSocks \subseteq Sockids /\ BrokerSocks \subseteq Sockids
  /\ TenantOf \in [ClientSocks -> Tenants]
  /\ ClientNames \subseteq Seq(Labels) \ {<<>>}
  /\ Dests \subseteq Seq(Labels) \ {<<>>}
  /\ ClientTopics \subseteq Seq(Labels) \ {<<>>}
  /\ PubTopics \subseteq Seq(Labels) \ {<<>>}
  /\ \A sc \in ClientScopes : sc = <<"noscope">> \/
                              (sc \in Seq(Labels) /\ Len(sc) <= Len(Scope))

VARIABLES
  broker,        \* the broker's state, see NewBroker
  dealer,        \* how far the exchange on the present dealer socket has come
  told,          \* history: the names announced on the present dealer socket
  refused        \* history: announced names the higher broker turned down

vars == <<broker, dealer, told, refused>>

Names == {PrefixName(t, n) : t \in Tenants, n \in ClientNames}

\* Two names between which a broker may be asked to forward.
Pairs == {p \in Names \X Names : SameWorld(p[1], p[2])}

Init ==
  /\ broker = NewBroker(StartState)
  /\ dealer = "idle"
  /\ told = {} /\ refused = {}

NamesIn(cmd, msgs) == {msgs[i].name : i \in {j \in DOMAIN msgs : msgs[j].cmd = cmd}}

\* The callback with result r, after which base names would stand announced
\* and bad ones turned down if it sent nothing up.
Step(r, base, bad) ==
  /\ broker.state # CRASHED
  /\ broker' = r.b
  /\ told' = (base \cup NamesIn("ADDDCL", r.up)) \ NamesIn("UNREGDCLI", r.up)
  /\ refused' = bad \ NamesIn("ADDDCL", r.up)

Do(r) == Step(r, told, refused) /\ UNCHANGED dealer

(***************************************************************************)
(* ROUTER socket: clients.  A client sends the cookie of its own tenant.   *)
(***************************************************************************)
ChallokClient == \E s \in ClientSocks, n \in ClientNames :
  Do(s_cb_challok_client(broker, s, TenantOf[s], n))

Unreg == \E s \in ClientSocks : Do(s_cb_unreg_cli(broker, s, TenantOf[s]))

PingClient == \E s \in ClientSocks : Do(s_cb_ping(broker, s, TenantOf[s]))

Send == \E s \in ClientSocks, dest \in Dests : Do(s_cb_send(broker, s, TenantOf[s], dest))

Sub == \E s \in ClientSocks, n \in ClientTopics, sc \in ClientScopes :
  Do(s_cb_sub(broker, s, TenantOf[s], n, sc))

Unsub == \E s \in ClientSocks, n \in ClientTopics, sc \in ClientScopes :
  Do(s_cb_unsub(broker, s, TenantOf[s], n, sc))

\* The answer to a subscription of the protected topic, or its end, is written
\* with a format of two strings of which one is given: whatever lies on the stack
\* is taken for the address of the other.  The answer of s_cb_sub and s_cb_unsub
\* is sent, or the process dies.
ProtectedDies == \E s \in ClientSocks, n \in ClientTopics :
  /\ n = <<"public">> /\ HasLocal(broker, <<s, TenantOf[s]>>)
  /\ Do(Nothing([broker EXCEPT !.state = CRASHED]))

Publish == \E s \in ClientSocks, n \in PubTopics, unscoped \in BOOLEAN :
  Do(s_cb_pub(broker, s, TenantOf[s], n, unscoped))

(***************************************************************************)
(* ROUTER socket: lower brokers.  They forward what one of their clients   *)
(* sent, so the two ends belong to the same world.                         *)
(***************************************************************************)
ChallokBroker == \E s \in BrokerSocks : Do(s_cb_challok_broker(broker, s))

PingBroker == \E s \in BrokerSocks : Do(s_cb_ping(broker, s, BrokerCookie))

AddDistant == \E s \in BrokerSocks, n \in Names : Do(s_cb_adddcl(broker, s, BrokerCookie, n))

UnregDistant == \E s \in BrokerSocks, n \in Names :
  Do(s_cb_unreg_dist_cli(broker, s, BrokerCookie, n))

ForwardRsock == \E s \in BrokerSocks, p \in Pairs :
  Do(s_cb_forward_rsock(broker, s, BrokerCookie, p[1], p[2]))

(***************************************************************************)
(* DEALER socket.  The higher broker answers one ADDBR with one CHALL, and *)
(* one CHALLOK with one REGOK, on each socket the broker opens.            *)
(***************************************************************************)
ChallMsg == \E id \in Ids :
  /\ dealer = "asked" /\ dealer' = "challenged"
  /\ Step(s_cb_chall(broker, id), told, refused)

\* The local clients are announced first, then the distant ones.
Regok == \E l \in SetToSeqs(DOMAIN broker.rev_lcl_cli), d \in SetToSeqs(DOMAIN broker.dist_cli) :
  /\ dealer = "challenged" /\ dealer' = "done"
  /\ Step(s_cb_regok(broker, l \o d), told, refused)

PongMsg == dealer = "done" /\ Do(Nothing(Heard(broker)))

ForwardDsock == \E p \in Pairs :
  dealer = "done" /\ Do(s_cb_forward_dsock(broker, p[1], p[2]))

NodstMsg == \E p \in Pairs :
  dealer = "done" /\ Do(s_cb_high_error_nodst(broker, p[2], p[1]))

RegfailMsg == \E n \in Names :
  /\ dealer = "done" /\ UNCHANGED dealer
  /\ Step(s_cb_high_error_regfail(broker, n), told, refused \cup {n})

(***************************************************************************)
(* Timers.                                                                 *)
(***************************************************************************)
Register ==
  /\ broker.reg_loop > 0 /\ Unregistered(broker)
  /\ dealer' = "asked"
  /\ Step(s_register(broker), {}, {})

Heartbeat == broker.heartbeat_loop > 0 /\ Do(s_heartbeat(broker))

CheckCliTimeout ==
  \E order \in SetToSeqs({broker.lcl_cli[k].name : k \in SilentClients(broker)}) :
    Do(s_check_cli_timeout(broker, order))

CheckBrTimeout ==
  \E order \in SetToSeqs(Behind(broker, SilentBrokers(broker))) :
    Do(s_check_br_timeout(broker, order))

(***************************************************************************)
(* Pub/sub sockets.                                                        *)
(***************************************************************************)
SubNMsg == \E p \in RemotePubs :
  broker.north /\ Do(s_on_subN_msg(broker, p.topic, p.name, p.pathv))

SubSMsg == \E p \in RemotePubs : Do(s_on_subS_msg(broker, p.topic, p.name, p.pathv))

\* The operator starts a broker that has died again.
Restart ==
  /\ broker.state = CRASHED
  /\ broker' = NewBroker(StartState) /\ dealer' = "idle"
  /\ told' = {} /\ refused' = {}

Next ==
  \/ ChallokClient \/ Unreg \/ PingClient \/ Send \/ Sub \/ Unsub
  \/ ProtectedDies \/ Publish
  \/ ChallokBroker \/ PingBroker \/ AddDistant \/ UnregDistant \/ ForwardRsock
  \/ ChallMsg \/ Regok \/ PongMsg \/ ForwardDsock \/ NodstMsg \/ RegfailMsg
  \/ Register \/ Heartbeat \/ CheckCliTimeout \/ CheckBrTimeout
  \/ SubNMsg \/ SubSMsg \/ Restart

Spec == Init /\ [][Next]_vars

(***************************************************************************)
(* Properties.                                                             *)
(***************************************************************************)
ScalarsOK(b) ==
  /\ b.state \in {UNREG, ROOT, REGISTERED, CRASHED}
  /\ b.timeout \in 0 .. Limit + 1
  /\ b.state = REGISTERED => b.timeout <= Limit
  /\ b.reg_loop \in 0 .. 1 /\ b.heartbeat_loop \in 0 .. 1
  /\ b.broker_id \in Ids \cup {RootId}
  /\ b.north \in BOOLEAN

TablesOK(b) ==
  /\ DOMAIN b.lcl_cli \subseteq Sockids \X Tenants
  /\ \A k \in DOMAIN b.lcl_cli : b.lcl_cli[k] \in [name : Names, timeout : 0 .. Limit]
  /\ DOMAIN b.rev_lcl_cli \subseteq Names
  /\ \A n \in DOMAIN b.rev_lcl_cli : b.rev_lcl_cli[n] \in Sockids \X Tenants
  /\ DOMAIN b.dist_cli \subseteq Names
  /\ \A n \in DOMAIN b.dist_cli : b.dist_cli[n] \in Sockids
  /\ DOMAIN b.lcl_br \subseteq Sockids
  /\ \A s \in DOMAIN b.lcl_br : b.lcl_br[s] \in 0 .. Limit

\* Every field of the broker has its type, and no timeout counter passes its
\* limit by more than the one tick that acts on it.
TypeOK ==
  /\ Shape(broker) /\ ScalarsOK(broker) /\ TablesOK(broker)
  /\ dealer \in {"idle", "asked", "challenged", "done"}

\* A client found by its socket and cookie is found by its name, and the other
\* way round, through every registration, unregistration, time-out and refusal.
LocalTablesAgree == TablesAgree(broker)

\* A name is never both a local client's and a distant one's, so the order in
\* which the handlers look the two tables up never decides where a message goes.
OneOwner == NamesDisjoint(broker)

\* Every distant client is routed to a broker that is still registered:
\* s_check_br_timeout leaves nothing behind, and nothing arrives later.
DistRoutable == RoutesLive(broker)

\* Whatever the order of answers, late answers and time-outs, one timer runs in a
\* broker below another one: the heartbeat while registered, the attempts to
\* register otherwise.  A REGOK on a socket that is not registering would start
\* a second heartbeat.
TimersInStep ==
  /\ broker.state # CRASHED => TimersMatch(broker, StartState = UNREG)
  /\ dealer \in {"asked", "challenged"} /\ broker.state # CRASHED =>
       Unregistered(broker) /\ StartState = UNREG

\* While registered, the broker has announced every client below it on the
\* present connection, and whatever it announced and no longer has was turned
\* down from above.
AnnouncedUpstream ==
  LET known == DOMAIN broker.rev_lcl_cli \cup DOMAIN broker.dist_cli IN
  broker.state = REGISTERED =>
    known \subseteq told /\ told \ known \subseteq refused

\* The names under which replies and keys can be told apart: what a client
\* registers as does not itself read as a tenant's name, a dot and more.  The
\* code does not enforce it; a name without a dot always satisfies it.
PlainNames == \A n \in ClientNames : ~NamesATenant(n)

\* Every result of the next message that may carry one client's data to another.
Routings ==
  {s_cb_send(broker, s, TenantOf[s], dest) : s \in ClientSocks, dest \in Dests}
    \cup {s_cb_forward_rsock(broker, s, BrokerCookie, p[1], p[2]) : s \in BrokerSocks, p \in Pairs}
    \cup {s_cb_forward_dsock(broker, p[1], p[2]) : p \in Pairs}

\* What a client is sent, and what is forwarded between brokers, never crosses
\* from one tenant to another unless one end is public, and data reaches only a
\* socket registered under the destination's tenant.
Isolation ==
  \A r \in Routings :
    /\ \A o \in r.rout :
         /\ o.m.cmd \in {"DATA", "FORWARD"} => SameWorld(o.m.src, o.m.dst)
         /\ o.m.cmd = "DATA" => <<o.to, o.m.dst[1]>> \in DOMAIN broker.lcl_cli
    /\ \A i \in DOMAIN r.up : r.up[i].cmd = "FORWARD" => SameWorld(r.up[i].src, r.up[i].dst)

\* A receiver that answers to the source name it was shown reaches the sender.
ReplyReachesSender ==
  \A r \in Routings : \A o \in r.rout :
    o.m.cmd = "DATA" => Resolve(o.m.dst[1], o.m.shown) = o.m.src

\* Whoever is sent data can open it: the key that the sender chose from the name
\* it typed is the one the receiver chooses from the source name the broker shows
\* it, across tenants and public clients.  So can a client whose key file the
\* brokers know open the challenge of its registration.
Decryptable ==
  /\ \A r \in Routings : \A o \in r.rout : o.m.cmd = "DATA" =>
       \A dest \in Dests : Resolve(o.m.src[1], dest) = o.m.dst =>
         dd_notify(KeysOf[o.m.src[1]], dest) = cb_data(KeysOf[TenantOf[o.to]], o.m.shown)
  /\ \A s \in ClientSocks : ChallengeOpens(KeysOf[TenantOf[s]])

\* So it is with publications, for which the broker shows the whole source name
\* only if the topic is public.
PubsDecryptable ==
  \A s \in ClientSocks, topic \in PubTopics, unscoped \in BOOLEAN :
    \A o \in s_cb_pub(broker, s, TenantOf[s], topic, unscoped).rout :
      dd_publish(KeysOf[TenantOf[s]], topic) \in
        {NotAllowed, cb_pub(KeysOf[TenantOf[o.to]], o.m.name)}

\* A publication, of a client here or from another broker, is delivered only to
\* clients of the tenant whose topic it is: the publisher's own, or public when
\* the publisher says so.
PublicationsStayInTenant ==
  LET Within(tenant, r) == \A o \in r.rout : TenantOf[o.to] = tenant IN
  /\ \A s \in ClientSocks, topic \in PubTopics, unscoped \in BOOLEAN :
       Within(IF IsPublic(topic) THEN "public" ELSE TenantOf[s],
              s_cb_pub(broker, s, TenantOf[s], topic, unscoped))
  /\ \A p \in RemotePubs :
       /\ Within(p.topic[1], s_on_subN_msg(broker, p.topic, p.name, p.pathv))
       /\ Within(p.topic[1], s_on_subS_msg(broker, p.topic, p.name, p.pathv))

\* What the subscription table says a client subscribes to is in the trie, and
\* a node's reference count is the number of its sockets.
SubscribersInTrie ==
  /\ \A s \in DOMAIN broker.subscribe : \A topic \in broker.subscribe[s] :
       InTrie(broker, topic) /\ s \in broker.topics_trie[topic].sockids
  /\ \A topic \in DOMAIN broker.topics_trie :
       /\ broker.topics_trie[topic].refcount = Cardinality(broker.topics_trie[topic].sockids)
       /\ broker.topics_trie[topic].refcount > 0

\* After a client's unsubscription from a topic, the trie no longer delivers that
\* topic's publications to it.
UnsubscribeStops ==
  \A s \in ClientSocks, n \in ClientTopics \ {<<"public">>}, sc \in ClientScopes :
    LET b == s_cb_unsub(broker, s, TenantOf[s], n, sc).b
    IN HasLocal(broker, <<s, TenantOf[s]>>) =>
         FreshInTrie(b, s, SubTopic(TenantOf[s], n, sc, Scope))
=============================================================================
