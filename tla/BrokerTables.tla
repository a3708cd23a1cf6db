---------------------------- MODULE BrokerTables ----------------------------
(***************************************************************************)
(* The state of one broker (struct _broker_t) and the hash tables it keeps *)
(* (src/lib/htable.c), with the operations on them as functions of the     *)
(* broker's state.  A client key <<s, t>> is a ROUTER socket id with a     *)
(* cookie: every tenant has its own cookie, so the cookie is the tenant's  *)
(* name, and the cookie the brokers share is BrokerCookie.                 *)
(***************************************************************************)
EXTENDS Naming, FiniteSets, Functions

CONSTANTS
  Sockids,        \* identities the ROUTER socket gives its peers
  NoId,           \* the empty frame broker_id_null
  RootId,         \* the frame "root", the broker_id before the first challenge
  BrokerCookie,   \* keys->cookie
  Scope,          \* the broker's scope numbers, dd_broker_set_scope
  Limit           \* silent ticks tolerated: the literal 3 of the timeout checks

ASSUME BrokerAssumption ==
  /\ {NoId, RootId} \cap Sockids = {} /\ NoId # RootId
  /\ BrokerCookie \notin Tenants
  /\ Scope \in Seq(Labels)
  /\ Limit \in Nat \ {0}

UNREG == "UNREG"
ROOT == "ROOT"
REGISTERED == "REGISTERED"
CRASHED == "CRASHED"    \* the process is gone

(***************************************************************************)
(* The tables.                                                             *)
(***************************************************************************)
Put(f, k, v) == [x \in DOMAIN f \cup {k} |-> IF x = k THEN v ELSE f[x]]
Without(f, K) == Restrict(f, DOMAIN f \ K)

NewBroker(state) ==
  [state |-> state,
   timeout |-> 0,               \* missed heartbeats of the higher broker
   reg_loop |-> IF state = UNREG THEN 1 ELSE 0,   \* running timers
   heartbeat_loop |-> 0,
   broker_id |-> RootId,
   north |-> FALSE,             \* pubN and subN exist
   lcl_cli |-> <<>>,            \* key |-> [name, timeout]
   rev_lcl_cli |-> <<>>,        \* prefixed name |-> key
   dist_cli |-> <<>>,           \* prefixed name |-> socket id of the broker
   lcl_br |-> <<>>,             \* socket id |-> timeout
   subscribe |-> <<>>,          \* socket id |-> set of topics
   topics_trie |-> <<>>]        \* topic |-> [refcount, sockids]

HasLocal(b, k) == k \in DOMAIN b.lcl_cli
HasRevLocal(b, name) == name \in DOMAIN b.rev_lcl_cli
HasDist(b, name) == name \in DOMAIN b.dist_cli
HasBroker(b, s, cookie) == s \in DOMAIN b.lcl_br /\ cookie = BrokerCookie

\* The lookups with update = 1: the peer has been heard of.
TouchClient(b, k) == [b EXCEPT !.lcl_cli[k].timeout = 0]
TouchBroker(b, s) == [b EXCEPT !.lcl_br[s] = 0]

\* Mutant of CanInsertLocal: does not ask for a distant client of the name.
CanInsertLocalOnly(b, s, t, name) ==
  ~HasLocal(b, <<s, t>>) /\ ~HasRevLocal(b, PrefixName(t, name))

CanInsertLocal(b, s, t, name) ==
  /\ ~HasDist(b, PrefixName(t, name))
  /\ ~HasLocal(b, <<s, t>>)
  /\ ~HasRevLocal(b, PrefixName(t, name))

InsertLocal(b, s, t, name) ==
  [b EXCEPT !.lcl_cli = Put(@, <<s, t>>, [name |-> PrefixName(t, name), timeout |-> 0]),
            !.rev_lcl_cli = Put(@, PrefixName(t, name), <<s, t>>)]

\* Mutant of UnlinkLocal: forgets the table by name.
UnlinkLocalHalf(b, K) == [b EXCEPT !.lcl_cli = Without(@, K)]

UnlinkLocal(b, K) ==
  [b EXCEPT !.lcl_cli = Without(@, K),
            !.rev_lcl_cli = Without(@, {b.lcl_cli[k].name : k \in K})]

InsertDist(b, name, s) == [b EXCEPT !.dist_cli = Put(@, name, s)]
RemoveDist(b, N) == [b EXCEPT !.dist_cli = Without(@, N)]
InsertBroker(b, s) == [b EXCEPT !.lcl_br = Put(@, s, 0)]

(***************************************************************************)
(* Subscriptions: subscribe_ht (socket -> topics) and the trie (topic ->   *)
(* sockets), which the code keeps in step by hand.                         *)
(***************************************************************************)
Topics(b, s) == IF s \in DOMAIN b.subscribe THEN b.subscribe[s] ELSE {}
InTrie(b, topic) == topic \in DOMAIN b.topics_trie

insert_subscription(b, s, topic) ==
  [b EXCEPT !.subscribe = Put(@, s, Topics(b, s) \cup {topic})]

\* nn_trie_subscribe answers 2 when the socket is new on the topic.
FreshInTrie(b, s, topic) ==
  ~InTrie(b, topic) \/ s \notin b.topics_trie[topic].sockids

\* Mutant of nn_trie_subscribe: counts a socket again that is already there.
TrieSubscribeAgain(b, s, topic) ==
  LET node == IF InTrie(b, topic) THEN b.topics_trie[topic]
                                  ELSE [refcount |-> 0, sockids |-> {}]
  IN [b EXCEPT !.topics_trie = Put(@, topic, [refcount |-> node.refcount + 1,
                                              sockids |-> node.sockids \cup {s}])]

nn_trie_subscribe(b, s, topic) ==
  LET node == IF InTrie(b, topic) THEN b.topics_trie[topic]
                                  ELSE [refcount |-> 0, sockids |-> {}]
  IN IF FreshInTrie(b, s, topic)
     THEN [b EXCEPT !.topics_trie =
             Put(@, topic, [refcount |-> node.refcount + 1,
                            sockids |-> node.sockids \cup {s}])]
     ELSE b

\* nn_trie_unsubscribe for every (socket, topic) of gone: each one takes one
\* off the topic's refcount, and a topic without references is not found.
nn_trie_unsubscribe(trie, gone) ==
  LET Leaving(topic) == {s \in Sockids : <<s, topic>> \in gone}
      Left(topic) == trie[topic].refcount - Cardinality(Leaving(topic))
  IN [topic \in {x \in DOMAIN trie : Left(x) > 0} |->
        [refcount |-> Left(topic),
         sockids |-> trie[topic].sockids \ Leaving(topic)]]

remove_subscriptions(b, S) ==
  LET gone == {p \in S \X DOMAIN b.topics_trie : p[2] \in Topics(b, p[1])}
  IN [b EXCEPT !.topics_trie = nn_trie_unsubscribe(@, gone),
               !.subscribe = Without(@, S)]

\* One topic of one socket; the socket's whole node is deleted afterwards.
remove_subscription(b, s, topic) ==
  LET gone == {<<s, topic>>} \cap (Sockids \X Topics(b, s))
  IN [b EXCEPT !.topics_trie = nn_trie_unsubscribe(@, gone),
               !.subscribe = Without(@, {s})]

Subscribers(b, pubtopic) ==
  UNION {b.topics_trie[topic].sockids :
           topic \in {x \in DOMAIN b.topics_trie : Matches(x, pubtopic)}}

(***************************************************************************)
(* What the tables of one broker promise each other.                       *)
(***************************************************************************)
\* A broker has the fields NewBroker gives it.
BrokerFields ==
  {"state", "timeout", "reg_loop", "heartbeat_loop", "broker_id", "north", "lcl_cli",
   "rev_lcl_cli", "dist_cli", "lcl_br", "subscribe", "topics_trie"}

Shape(b) == b = [f \in BrokerFields |-> b[f]]

\* The two tables of local clients index the same clients.
TablesAgree(b) ==
  /\ \A k \in DOMAIN b.lcl_cli :
       LET n == b.lcl_cli[k].name IN n \in DOMAIN b.rev_lcl_cli /\ b.rev_lcl_cli[n] = k
  /\ \A n \in DOMAIN b.rev_lcl_cli :
       LET k == b.rev_lcl_cli[n] IN k \in DOMAIN b.lcl_cli /\ b.lcl_cli[k].name = n

\* No name is both a local and a distant client's.
NamesDisjoint(b) == DOMAIN b.rev_lcl_cli \cap DOMAIN b.dist_cli = {}

\* Every distant client is behind a registered broker.
RoutesLive(b) == \A n \in DOMAIN b.dist_cli : b.dist_cli[n] \in DOMAIN b.lcl_br

\* Heartbeats are sent exactly while registered, and an attempt to register is
\* pending exactly while a broker with a higher broker is not.
TimersMatch(b, hasHigher) ==
  /\ b.state = REGISTERED => hasHigher
  /\ b.heartbeat_loop = (IF b.state = REGISTERED THEN 1 ELSE 0)
  /\ b.reg_loop = (IF hasHigher /\ b.state # REGISTERED THEN 1 ELSE 0)
=============================================================================
