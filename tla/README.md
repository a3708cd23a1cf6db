# DoubleDecker in TLA+

TLA+ modules, TLC configurations and TLAPS proofs for the C version of
DoubleDecker (`src/`): a tree of message brokers on ZeroMQ, with clients of
several tenants that send each other notifications and publish on topics.
`PROJECT.json` maps every definition to the lines it models and lists the runs,
the mutants, the hazards and the theorems.

## 1. Inventory

### The parts of the system

| part | code | state it keeps | operations |
|---|---|---|---|
| broker handlers | `lib/broker.c` | `state` (UNREG, ROOT, REGISTERED), `timeout`, ids of the `reg_loop` and `heartbeat_loop` timers, `broker_id`, the sockets | one callback per command on the ROUTER (`s_on_router_msg`) and the DEALER socket (`s_on_dealer_msg`), four callbacks on the pub/sub sockets, four timers |
| broker tables | `lib/htable.c` | `lcl_cli_ht` and `rev_lcl_cli_ht` (local clients by socket+cookie and by name), `dist_cli_ht` (distant clients), `lcl_br_ht` (lower brokers), `subscribe_ht` (topics of a socket) | insert, look up (which also resets the time-out), unlink |
| topic trie | `lib/trie.c` | topic to reference count and list of sockets, as a prefix-compressed trie | subscribe, unsubscribe, collect the sockets of all prefixes |
| naming | `broker.c`, `htable.c` | none | prefixing a name or topic with the tenant, treating `public.` specially, stripping the prefix, building scopes |
| client library | `lib/client.c` | `state`, `timeout`, `sesskey`/cookie, timers, the list of subscriptions | register, heartbeat, notify, subscribe, publish; callbacks for the answers |
| subscription list | `lib/sublist.c` | (topic, scope, active) triples | add, delete, activate, deactivate all, resubscribe |
| pub/sub between brokers | `broker.c` | `pubS`, `subS` for the brokers below, `pubN`, `subN` to the broker above, one pair per REGOK | `start_pubsub`, `connect_pubsubN`, one callback per socket |
| broker life and addresses | `broker.c` (`dd_broker_actor`, `bind_router`, `start_pubsub`, ...) | the configured addresses, the pipes between threads, `self->http`, socket files | configure, bind, start the REST thread, loop, end by interrupt or `$TERM` |
| keys and encryption | `lib/keys.c`, `ddkeygen.c`, `client.c` | key pairs and cookies read from files, precomputed shared keys | write and read key files, choose the key of a message |
| REST statistics | `broker.c` (`s_on_http`, `json_get_stats`) | none | walks the tables from a thread of its own, formats JSON |
| programs | `ddbroker.c`, `ddclient.c`, `ddperf.c`, ... | none | command lines |
| vendored | `cli_parser/`, `hash/`, libb64 | | |

### How the parts interact

A broker is one `zloop`: callbacks run one at a time to their end. It owns a
ROUTER socket (`rsock`) to which clients and lower brokers connect, and, unless
it is the root, a DEALER socket (`dsock`) to the higher broker.

* A lower broker registers with ADDBR, CHALL, CHALLOK, REGOK, and then announces
  every client below it with ADDDCL. Later arrivals and departures go up as
  ADDDCL and UNREGDCLI. A name that is taken is answered with REGFAIL, which
  travels down to the client.
* A notification (SEND) is looked up among the local clients, then among the
  distant ones, and otherwise goes up as FORWARD. The root answers NODST.
* PING and PONG keep both sides of a link alive. A broker that has heard nothing
  for more than three ticks calls itself ROOT and tries to register again on a
  **new** socket; a peer that is silent for three ticks is removed from the tables.
* Subscriptions and publications travel on XPUB/XSUB sockets next to the tree. The
  addresses of these sockets are not configured: both ends derive them from the
  router's address (port + 1 and + 2, or `.pub` and `.sub` after the file's name).
* In `ddbroker` the broker is an actor: main waits in a loop of its own, the
  broker's thread runs the `zloop`, and a third thread serves the REST interface
  and reads the broker's tables while the loop changes them. They talk over
  pipes.
* Messages are encrypted from client to client. The sender picks the key from the
  name the application typed, the receiver from the source the broker shows.

### What is hard

Everything about the tree is distributed state without acknowledgements: a
broker's `dist_cli_ht` is a copy of what the brokers below it had when they last
said so. The hard cases are refusals that arrive late, time-outs of a link on one
side only, brokers that come back with empty tables while old messages are still
under way, several clients asking for one name at once, and the many small
pieces of naming code that must agree about tenants. Subscriptions are kept in
five places (the client's list, the broker's table, the trie, and the counts of
two ZeroMQ sockets on every broker on the way) which are brought in step by code
that never looks at more than two of them. The trie is hand-written pointer code
with four shapes of node. Three threads share one broker without a lock.
`PROJECT.json` lists these hazards at the lines where they bite.

### What would make each part correct

* Tables: the two indices of local clients agree; a name has one owner; every
  route leads to a broker that is registered.
* Handlers: exactly one of the two timers runs; what has been announced to the
  higher broker is what the broker has; tenants stay apart; a reply finds the
  sender.
* Tree: a quiet link is in step on both sides; names are unique; no message goes
  round; after crashes everything becomes reachable again.
* Trie and subscriptions: table and trie agree; the trie delivers what a plain map
  from topics to sockets would; an unsubscription stops delivery.
* Pub/sub between brokers: a publication reaches every subscriber, once, and ends;
  nothing that was taken back is still asked for.
* Keys: whoever receives a message opens it with the key it was closed with.
* Broker life: the broker is destroyed after its last user; an interrupt ends the
  process; the pub/sub sockets are where the brokers below look for them.
* Client: one of its two timers runs; the chain of pings is never lost; its list of
  subscriptions is what the broker has; it is registered again after any failure.

## 2. Modules

```
Naming          how names and topics are built, compared and stripped   (pure)
BrokerTables    the broker's record and the operations on its tables    (pure)
BrokerHandlers  one operator per callback: state -> state and messages  (pure)
Keys            key files, shared keys, which key a message is given    (pure)
Broker          one broker in an arbitrary environment                  (state machine)
BrokerTree      several brokers over FIFO channels, with clients        (state machine)
PubSubTree      the pub/sub sockets of a tree of brokers                (state machine)
Client          the client library and its list of subscriptions        (pure)
ClientLink      a client and its broker over FIFO channels              (state machine)
Trie            the trie's nodes and the operations of trie.c           (pure)
TopicMap        what the trie promises: a map from topics to sockets    (abstract)
TrieUse         the trie as the broker uses it, implements TopicMap     (state machine)
Endpoints       addresses and what can be bound                         (pure)
BrokerActor     ddbroker's threads, from the options to the end         (state machine)
MC...           values of the constants for TLC

HandlerProofs        lemmas about the handlers and the trie, wherever they run
BrokerProofs         Broker: tables, owners of names, routes, timers
BrokerRoutingProofs  Broker: tenants, replies, keys, what was told upwards,
                     table and trie of subscriptions, publications
BrokerTreeProofs     BrokerTree: timers of every broker, survival
BrokerNameProofs     BrokerTree: refusals, what higher brokers route
PubSubTreeProofs     PubSubTree: a publication reaches all, no one twice; no leftovers
BrokerActorProofs    BrokerActor: order of ends, bound addresses, REST walk
ClientLinkProofs     ClientLink: timers, the chain of PINGs, subscriptions
```

The handlers are functions of the broker's record, so that `Broker`,
`BrokerTree`, `PubSubTree` and `ClientLink` run exactly the same ones. A handler's result holds the new record,
the messages sent up (in order), those sent on the ROUTER (with their receiver)
and those sent on the pub/sub sockets. One callback is one step, because the
`zloop` runs it to its end.

**Data.** A dotted string is the sequence of its labels, so `strchr(s, '.') + 1`
is `Tail` and `"%s.%s"` is concatenation; `StartsWith` says which label begins
with which, for the prefix comparisons of `s_cb_send` and of the trie. Payloads
are left out. A tenant's cookie is the tenant's name, since each tenant has its
own. A key is the set of the owners of the two pairs it was computed from, so two
keys are equal exactly when the code's are; encryption itself (libsodium) and the
nonce are left out, as is the hash that ADDBR carries apart from whether it is
right. Hash tables are functions: two keys whose 32-bit
hashes collide, and `strncmp` comparisons that take a prefix for the whole, are
not modelled.

**Traversal.** Where the code walks a hash table and sends a message for each
entry, the order is a parameter `order`, and the actions choose any.

**Undefined behaviour.** Three places end the process and are modelled as the state
`CRASHED`: `dest_invalid_dsock` (five values for a format of four: a length is
read as a string's address); `*slash = '/'` in `s_on_subN_msg` and
`s_on_subS_msg` for a topic without a scope and with a local subscriber; and the
answer to a subscription of the protected topic `public`, whose format asks for
two strings and gets one, so that the answer is sent (`s_cb_sub`, `s_cb_unsub`) or
the process dies (`ProtectedDies`). Where threads race, a use of freed memory or of a
null pointer may end the process or go on (`BrokerActor`, below). A scope of more
numbers than the broker's own is left out altogether: `s_cb_sub` and `s_cb_unsub`
free the strings they go on reading, and nothing after that can be predicted.
`EnvironmentAssumption` says so, and nothing in the code keeps a client from it.

**Timers** are counted (`reg_loop`, `heartbeat_loop` are numbers of running
timers), so that a second one would show.

### Broker

The environment is as free as the protocol allows: any client may register under
any name of its tenant at any time and send any of its messages, registered or
not; lower brokers likewise; the higher broker answers each ADDBR once and each
CHALLOK once, on the socket it came from, and after that may send PONG, FORWARD,
NODST and REGFAIL about anything at any time. `dealer` records how far the
exchange on the present socket has come. `told` and `refused` are history:
the names announced on the present socket and those turned down. Callbacks that
change nothing (ADDLCL, ADDBR from an unknown peer, the two XPUB readers that
pass subscriptions on) have no action here.

### BrokerTree

`up[k]` and `down[k]` are the two directions of dealer socket `k = <<b, i>>`, the
`i`-th socket broker `b` has opened. ZeroMQ keeps order and loses nothing while
a socket is open; `Register` closes it with linger 0 and loses any suffix of what
has not arrived; what is written to a peer that has gone is discarded. A crash
empties the tables; messages on their way to the process are lost or, since
ZeroMQ reconnects, reach the new one. Clients are seen as their broker sees them:
a registration, an UNREG, a SEND; a client that has been forgotten notices after
its heartbeat limit and registers again.

`Timely` restricts time-outs to the ones a network without long delays produces:
a link gives up only after its peer is gone. Without it, every time-out may race
every answer; the invariants of one broker (`Broker`) are checked and proved
without any such assumption, since there any message may come at any time.

### ClientLink

One client (`Client`, instantiated as `C`) and one root broker. The client is an
actor (`ddactor_new`): API calls arrive on a pipe and run in its loop
(`s_on_pipe_msg`): subscribe, unsubscribe, publish and notify, the last two with
what the client does when its own message comes back. With
every attempt to register it closes its socket and opens another, which the
broker sees as a new peer; the model takes an identity that occurs nowhere any
more for it (`Unused`). `pings` counts the one-shot timers that `cb_pong` starts.
A tick (`AskRegistration`, `Heartbeat`, `CheckCliTimeout`) is expected only when the
answer it would overtake is not on its way; it may come earlier all the same, and
the broker or the client may be restarted, `MaxTrouble` times together. The client's
UNREG may be lost with its socket.

The list of subscriptions is czmq's, with a cursor (`cursor`). The library's loops
on it are `while (item = zlistx_next(list))` without a `zlistx_first`: they begin
behind the cursor and leave it before the first entry. Only `sublist_delete` leaves
it elsewhere, since `zlistx_find` moves it to the entry and `zlistx_delete` to the one
before. So the first loop after an unsubscription passes over every entry newer than
the one that was deleted: a REGOK does not ask for them, a SUBOK does not mark them
active, a subscription does not see that it is on the list already. `skipped` is a
history variable that says whether a loop has begun behind the first entry since a
REGOK last asked for the whole list (it stays set if an entry is then on it twice,
which is what a subscription that passed over its own entry leaves);
`SubscriptionsHeld` and `EventuallyServed` except that and nothing else, and
`client_skips` shows what happens. (The application's own loops over what
`dd_get_subscriptions` returns, as in `ddclient.c:41-44`, run to the end of the list
and leave the cursor before its first entry; they have no action.)

### PubSubTree

Every broker has `pubS` and `subS`; every REGOK gives a lower broker one more pair
`k = <<b, i>>` of `pubN` and `subN`, and only the last one is written to, but all
are read, as in the code. `wantUp`, `wantDown`, `pubUp` and `pubDown` are the pipes
between the sockets. The sockets are external and modelled as ZeroMQ documents
them: XSUB counts subscriptions and passes an unsubscription on when a count gets
to zero, XPUB hands over the first subscription and the last unsubscription and
filters publications, a new peer is sent everything that is held. What clients and
registrations do is reduced to what matters here; the callbacks are those of
`BrokerHandlers`. A client publishes when the last publication has gone everywhere and every
subscription has arrived. `got` and `due` record who received the present publication and who
has to; `late` and `stray` record the two cases in which the code does not pass on
what it should, so that the properties can except exactly them.

### Trie, TopicMap, TrieUse

`Trie` is `trie.c` node by node: prefixes that are split and merged, sparse nodes
that become dense and the reverse, arrays that grow and shrink at both ends. A
result says whether the call stayed within defined behaviour; `Junk` is the list
pointer that a conversion leaves unset, and what it happens to contain is chosen
freely. `TrieUse` calls it as the broker does. `TopicMap` is the abstract
specification, a set of (socket, topic) pairs with the return values the broker
acts on, and has the form in which `BrokerTables` uses the trie; `ImplementsMap`
is the refinement. `TopicMap` is what the code does, and not what the header says of
it. According to `trie.h:110-116` a new string returns 1, and one that exists has its
count incremented and returns 0; according to the comment at `trie.c:535` a fresh
subscription returns 1. In the code (`trie.c:515-537`) every socket that is new on a
string returns 2, the string's first one too, and a socket that is there already is
not counted again and returns 1 if it is the only one, 0 otherwise. `s_cb_sub` acts on
the 2. The loss of subscribers when a node is converted is not in this contract:
in the instance of `trie_nodes` nobody subscribes to the string of the node that is
converted, the trie of `BrokerTables` has no nodes, and `trie_convert` shows the loss.

### Endpoints, BrokerActor

`Endpoints` derives the addresses and says which lists of addresses can be bound
(`zsock_attach`, external). `BrokerActor` has three threads, each with a program
counter: main, broker, REST. `zactor` is modelled by its signals: a thread that ends
sends one and then closes its pipe, `zactor_destroy` waits for one if the pipe is
still open. The walk of `json_get_stats` takes one step per entry; the iterator
holds a node and the next one, as liburcu's does. What the handlers do is
reduced to entries that come and go: nodes of the `Freed` tables are freed at
once, those of the others are unlinked only. A node of the `Lists` tables, which is
`subscribe_ht`, has a list of topics that the REST thread walks (`Enter` to `Visit`)
and the broker's handlers change (`Change`) or free (`Remove`); both use the list's
one cursor. Whoever of the two is inside when the other comes may die or go on. A use
of freed memory, too, may end the process or go on. Races on plain words are steps of their own (`ReadHttp`,
`SetLinger`; `OpenHttp`, `BindHttp`). `$TERM` is compared without an end mark, so
that it may go unrecognised.

Closing a socket does not remove its file: a thread of the library does, and the
comments at `broker.c:2408-2413` and `2492-2497` say that after a SIGTERM some files
are left. `s_self_destroy` removes any of them. `Restart` keeps what files the dead
process has left, so a start may be refused after any end, orderly or not; and a start
that is refused because of a `.pub` or `.sub` file leaves the file of its own router
socket behind.

## 3. Runs

| run | instance | what it shows |
|---|---|---|
| `broker_tables` | a client of `public` and two of `ta`, two lower brokers, one name, typed in every form; limit 2; symmetry | `TypeOK`, `LocalTablesAgree`, `OneOwner`, `DistRoutable`, `AnnouncedUpstream`, `TimersInStep`, `Isolation`, `ReplyReachesSender`, `Decryptable` |
| `broker_pubsub` | a client each of `public` and `ta`; subscriptions with and without a scope; publications on own, public and foreign-looking topics, and from other brokers | `SubscribersInTrie`, `PublicationsStayInTenant`, `PubsDecryptable` |
| `tree_names` | a root that may crash once, with two brokers; two clients claim one name, a third one leaves and returns, with messages to it | `TypeOK` (no broker dies), `UniqueNames`, `Synced`; `ForwardEnds` under fairness |
| `tree_recovers` | a chain of three brokers, any one of which crashes | `Synced`, `OneTimer`, `NoFalseRefusal`; `Recovers` under fairness |
| `pubsub_tree` | a chain of three brokers, two clients at the lowest and one at the root; the middle broker registers twice, one client may leave, three operations and any number of publications | `ReachesSubscribers`, `AtMostOnce`, `NoLeftovers`; `PublicationsEnd` under fairness |
| `client_link` | one client, three calls about two topics, and one slow answer or restart of either side | `OneLoop`, `PingChain`, `SubscriptionsHeld`; `EventuallyServed` under fairness |
| `trie_nodes` | two sockets, seven topics of up to six characters that split, merge, convert and shrink nodes | `Delivers`, `NoWaste`, `OnlyConversionFaults`, `ImplementsMap` |
| `actor_life` | up to two router addresses of five, two tables of two entries, kills and restarts at any time | `DestroyedLast`, `StatsRight`, `PubSubWhereExpected`; `InterruptEnds` under fairness |
| `broker_unsub_stops` | violation | `UnsubscribeStops` |
| `tree_forward_loop` | violation | `ForwardEnds` under fairness |
| `client_skips` | violation: any three calls before the registration, no trouble | `SubscribedAsListed` |
| `trie_convert` | violation: a client subscribes to the string of the node that is converted | `Delivers` |

`pubsub_tree` and `actor_life` do not check for deadlock: the first stops when its
bounds are used up, and a process of the second may wait for ever after GET /stop
(see `InterruptEnds`).

### What the violations show

* `broker_unsub_stops`: `remove_subscription` takes one topic out of the trie and
  then deletes the client's whole node in `subscribe_ht`. The next UNSUB finds no
  node and returns, and the trie goes on delivering the topic.
* `tree_forward_loop`: a client leaves and another one joins under the name before
  the REGFAIL for the first arrives. The REGFAIL throws out the second without
  telling the higher broker, whose route now leads to a broker that sends the
  message back up, and so on for ever.
* `trie_convert`: the ninth child makes a sparse node dense, and the new node starts
  with no subscribers. Whoever subscribed to the string that ends there gets no
  more publications. (The instance has a limit of two children.)
* `client_skips`: a client subscribes to x and then to y and ends x, all before it is
  registered. The list's cursor is left at y, the REGOK's loop begins behind it, and
  nothing is asked for: y is on the list that `dd_get_subscriptions` documents as
  what "the client is subscribed to", and the broker does not have it.

### Limits of the code that the passing runs step around

These are known from the models; each is excepted in a property by name, or kept
out of an instance, and not elsewhere.

* An UNREGDCLI removes a route without asking whose it is (`s_cb_unreg_dist_cli`). A
  client about to be refused that leaves first removes the rightful owner's route,
  and the name is given out twice. In `tree_names` only the client with a name of
  its own leaves, and in `tree_recovers` every client has its own name.
* An unscoped publication from another broker, with a subscriber here, ends the
  process (`s_on_subN_msg`, `s_on_subS_msg`). It is a step of `broker_pubsub`, which goes
  on with a new process; `pubsub_tree` publishes with a scope.
* `sublist_delete` looks an entry up by topic alone. A client that subscribes to a
  topic with scope `region` and with scope `all`, and then ends the latter, sends the
  right UNSUB but deletes the entry for `region`: the list keeps the subscription that
  has ended, marked active, and asks for it again at the next REGOK. `client_link`
  subscribes with one scope for each topic, which is the hypothesis `OneScope` of the
  proof (with two scopes in its `Calls`, TLC finds this trace).
* A subscription made before the REGOK is never sent north (`late`). An UNSUB of a
  topic the client does not have is passed on and may cancel another client's
  (`stray`). Both are excepted in `ReachesSubscribers`.
* `connect_pubsubN` replaces `pubN` at once, and the new socket has no subscriptions until
  those of the higher broker have arrived. A publication from below that passes a
  broker which has just registered again is not sent up: excepted in
  `ReachesSubscribers` (`StillToPass`; without it TLC finds the trace in `pubsub_tree`).
* Unregistration sends no unsubscription, and a second REGOK leaves the sockets of
  the first one connected: excepted in `NoLeftovers`, and the latter in
  `AtMostOnce`.
* GET /stop ends the REST thread of an actor broker. Its last signal is read by
  the broker's loop and dropped, and `zactor_destroy` waits for it for ever:
  excepted in `InterruptEnds` (`stopped`).
* `$TERM` is compared without an end mark and may be missed; so `InterruptEnds` is
  about interrupts, not about `zactor_destroy` alone.
* The broker's thread and the REST thread race on `self->http`, on nodes that are
  freed and on the lists of topics. All three are steps of `actor_life`, in which the
  process may die; no property says that it survives, and none says that there is no
  other race: the model has the ones that were found by reading. What the lists hold is
  left out, so a topic a handler misses because the REST thread moved the cursor is not
  seen.
* A loop on the client's list may have passed over entries that no REGOK has asked for
  since (`skipped`, see section 2): excepted in `SubscriptionsHeld` and `EventuallyServed`.
* A dense node that becomes sparse is left without a list of sockets:
  `OnlyConversionFaults` says that nothing else in the trie goes wrong.

### Bounds

Two peers of each kind are what the interactions need: two clients competing for
a name, two brokers claiming a client. One name suffices there because every
table operation treats names independently; that one name exists in both tenants
of `broker_tables`, and is typed in every form. Two tenants of clients are enough
for what crosses between them; names of a third, `tb`, come from other brokers and
are typed as destinations, and `broker_pubsub` has clients of all three. `Limit` is 2
where counters matter (`broker_tables`), so that a counter has a value below the
limit, at it and past it, and 1 elsewhere, which only shortens the silence before a
time-out; the code's value is 3. `MaxConn` (dealer sockets a broker opens), `MaxQueue` (announcements
waiting on one link; a step that would add more waits) and `MaxCrash` bound the
tree; one client's message is under way at a time. `MaxConn` is 3 in `tree_recovers`,
enough to register, lose the link and register again. In `tree_names` the root may
crash once, so that brokers give it up with what it sent still under way; the lower
ones do not, because then `Synced` fails for the reason given above (a late REGFAIL).
In `client_link`
three identities are enough: the socket in use, one the broker still remembers,
and a new one. `MaxCalls` is 3 and `MaxTrouble` 1: two subscriptions and an
unsubscription are what a cursor behind the first entry and something to pass over
need, in every order, with one slow answer or restart anywhere. Unsubscribing from the
other topic is the same with the names exchanged. Publishing and notifying touch neither
the list nor a timer, and at the broker they only do what a PING does; they are among
the calls of `client_skips`.

`pubsub_tree` has a broker in the middle (both roles at once), two clients at one
broker (the counts differ from 0 and 1) and a pair of sockets that is left behind by
the broker whose registration matters most, the one that passes on both ways;
`MaxOps` = 3 allows subscribe, subscribe, take back, in every order. Publications
are not bounded but made one at a time. In `trie_nodes` a prefix has at most 2
characters and a sparse node 2 children instead of 5 and 8: with a third child a
node converts, and the topics give the node after the tenant's name up to four
children with gaps, on either side of the array. In `actor_life` the last port is
7; the addresses are two neighbouring ports, the last port but one, an ipc file
and a transport from which nothing can be derived. `subs` is a table
whose entries are freed and have a list, `local` one whose entries are only unlinked,
which is all that distinguishes the tables for the walk.

### Fairness

Messages on open sockets arrive (ZeroMQ) and a client that has not left for good
keeps asking to be registered (`s_ask_registration` runs every second): weak
fairness. `Heartbeat`, `CheckBrTimeout` and `CheckCliTimeout` are strongly fair: these
timers fire every one to three seconds whatever happens on the sockets, and their
guards in the model only say at which moments a tick may fall. A client leaving,
sending or subscribing, or a process being restarted, is never required.
In `PubSubTree` weak fairness says that while something is in a pipe, something is
received. In `BrokerActor` each of the three threads runs on (weak fairness of its
own steps); main ends only once it has been interrupted, and requests, interrupts,
kills and table changes are never required.

### Mutants

Each property of a passing run has a mutant, an operator written next to the
definition it would replace and named after what is wrong in it (`UnlinkLocalHalf`,
`AdddclUnchecked`, ...). With it in place the property fails.

## 4. Proofs

Every theorem is of the form `Spec => []P` and holds for every value of the
constants that satisfies the assumptions named below: any number of clients,
brokers, tenants, names, topics, addresses and tables, any limit, any tree.

| module | theorem | what is proved |
|---|---|---|
| `BrokerProofs` | `TypeCorrect` | `TypeOK`: among others, a counter of silent ticks never passes its limit by more than the tick that acts on it |
| | `TablesAlwaysAgree` | `LocalTablesAgree` |
| | `NameHasOneOwner` | `OneOwner` |
| | `RoutesStayLive` | `DistRoutable` |
| | `OneTimerRuns` | `TimersInStep` |
| `BrokerRoutingProofs` | `ClientsOwnTheirNames` | a client is registered with its own tenant's cookie, under a name that begins with that tenant |
| | `TenantsStayApart` | `Isolation` |
| | `RepliesReachSenders` | `ReplyReachesSender`, given `PlainNames` |
| | `DataOpens` | `Decryptable`, given `PlainNames` |
| | `UpstreamKnows` | `AnnouncedUpstream` |
| | `TrieKeepsStep` | `SubscribersInTrie` |
| | `PublicationsKeepTenant` | `PublicationsStayInTenant` |
| | `PublicationsOpen` | `PubsDecryptable`, given `PlainNames` |
| `BrokerTreeProofs` | `EveryBrokerKeepsOneTimer` | `OneTimer`, with and without timely answers |
| | `BrokersSurvive` | `TypeOK` (no broker's process dies of a message), given timely answers |
| `BrokerNameProofs` | `NamesInvariant` | the inductive invariant `NamesInv`, given timely answers and no circle |
| | `OnlyClientsAreNotRefused` | `NoFalseRefusal`, under the same hypotheses |
| | `HigherBrokersKnow` | `Synced`, if also no two clients share a name and only the root crashes |
| `PubSubTreeProofs` | `NoPublicationTwice` | `AtMostOnce`, given no circle |
| | `PublicationsReach` | `ReachesSubscribers` while no broker has registered twice, given no circle |
| | `NothingLeftOver` | `NoLeftovers`, given no circle and finitely many brokers |
| `BrokerActorProofs` | `RestEndsFirst` | `DestroyedLast` |
| | `AddressesAgree` | `PubSubWhereExpected` |
| | `StatsListed` | `StatsRight` |
| `ClientLinkProofs` | `ClientKeepsOneLoop` | `OneLoop` |
| | `PingChainHolds` | `PingChain` |
| | `SubsInvariant` | the inductive invariant `SubsInv`, given `OneScope` |
| | `SubscriptionsStayHeld` | `SubscriptionsHeld` (that is, unless a loop has passed over entries since the last full REGOK), given `OneScope` |
| | `KeptSubscriptionsAgree` | `SubscribedAsListed`, without that exception, given `OneScope` and `KeepsAll` |

### Assumptions

The named ones on the constants: `NamingAssumption` (public is a tenant, labels
have no slash), `BrokerAssumption` (the frames that are not socket ids are different
from them, the brokers' cookie is no tenant's, the limit is at least 1),
`EnvironmentAssumption` (types of the inputs, and that no client
asks for a scope of more numbers than the broker's, see section 2), `KeysAssumption` (no tenant is called
`dd`, the name under which key files hold the brokers' keys), `TreeAssumption`,
`PubSubAssumption` (and the frame that is no broker's id is not one), `LinkAssumption` and
`ActorAssumption` (types of the instance). TLC evaluates each of
them in the runs of its module.

Some hypotheses are more than that, and are written in the theorems:

* `PlainNames` (`RepliesReachSenders`, `DataOpens`, `PublicationsOpen`): no client's
  name reads as a tenant's name, a dot and more. A name without a dot satisfies it;
  the code does not enforce it. Without it, a public client called `ta.x` is shown to
  other public clients as `ta.x`, which they take for client `x` of tenant `ta`.
  The runs' instances satisfy it (`NamesArePlain` in `MCBroker`).
* `OneScope` (`SubscriptionsStayHeld`, `KeptSubscriptionsAgree`): the application uses each topic with one scope
  and does not subscribe to the protected topic `public`. Without the first,
  `sublist_delete` may delete another entry than the one whose UNSUB it sends (see
  section 3); the answer to a subscription of `public` is the one whose format
  lacks an argument, so its entry is never confirmed. Topics, labels, the number of
  calls and their order are free.
* `KeepsAll` (`KeptSubscriptionsAgree`): the application never unsubscribes, so that the
  list's cursor always stands before the first entry. With unsubscriptions the conclusion
  is false, by `client_skips`.
* `Timely = TRUE` (`BrokersSurvive` and all of `BrokerNameProofs`): an answer arrives before the tick that would
  give up. Without it a broker may give the higher one up while a FORWARD is on its
  way to it, and `dest_invalid_dsock` then ends the process.
* `Acyclic` (`BrokerNameProofs`, `PubSubTreeProofs`): going from a broker to the one above it
  comes to an end. The command lines say who is above whom; nothing in the code checks
  them. In a circle a subscription keeps itself alive, and so would its leftovers.
* `PairsOnce` (`PublicationsReach`, inside the formula: `[](PairsOnce => ReachesSubscribers)`):
  no broker has registered a second time so far. After a second REGOK what a
  broker sends up goes on its new pair of sockets only, what comes down arrives on both,
  and what it subscribed to before is held for its old socket above: the way is
  then open on some pair, not on every one, and what a broker is owed is the sum of
  the counts of its pairs. TLC checks `ReachesSubscribers` there too (the middle
  broker of `pubsub_tree` registers twice). Trying to prove that case is how the exception
  `StillToPass` was found to be needed.
* `IsFiniteSet(Brokers)` (`NothingLeftOver`): the argument starts from the lowest brokers.
* `MayCrash \subseteq {Root}` and `Sole(n)` for every name (`HigherBrokersKnow`): only
  the root crashes, and no two clients may use one name. Without the second, an UNREGDCLI
  from one side of the tree takes away the route to the other side's client of that
  name, because `s_cb_unreg_dcli` does not ask whose route it removes. Without the first,
  a broker that crashed leaves routes through its former socket until they time out, its
  own announcements are then refused, and its client is sent away though it stays.
  `OnlyClientsAreNotRefused` needs neither: both are its property's own exceptions.

### Arguments

**One broker.** The inductive invariant `IInv` is the conjunction of the five
properties of `BrokerProofs`; none is inductive alone. Unlinking keeps
`LocalTablesAgree` only because the entries have their types and are inverse to
each other; `OneOwner` needs `insert_local_client`'s look-up by name, which is only
as good as the agreement of the tables; `TimersInStep` needs to know that a REGOK can
arrive only while the broker is registering, which is its second conjunct about
`dealer`; and the bound on the broker's own `timeout` needs the heartbeat timer to
have stopped once the limit is passed, which is `TimersInStep` again. `Sound(b)` is
the part about one broker's tables. There is a lemma for each table operation (it
keeps `Sound`), one for each handler (from those), and one for each callback that
also moves the state or the timers; `NextIInv` has a step for each action.

**Routing.** `OwnNames` is inductive relative to `IInv`. Together they say that the
first label of a name decides whose client it is and which keys it has. The three
properties about the next message then follow without a further induction, from
lemmas about `Resolve`, `Shown` and the keys: `Resolve` puts a typed destination
under the sender's tenant or under public, and what `Shown` strips or leaves is what
`Resolve`, `dd_notify` and `cb_data` put back.

**Upstream.** `AnnouncedUpstream` says nothing while the broker is not registered, and
a REGOK makes it true at once because `s_cb_regok` walks both tables. The proof
sorts every callback into three kinds: quiet (no client comes or goes, nothing of
the kind is said), adding (one client, announced by `add_cli_up` if there is anybody
to tell) and dropping (a set of clients, retracted by `del_cli_up` in any order).
That the walk's order meets everything needs the tables to be finite, which is part
of the invariant `UpInv`.

**Topics.** `TopicInv` strengthens `SubscribersInTrie` by what a node of the trie
contains: finitely many sockets, as many as its count, at least one, all of them
of the tenant the topic begins with. The count is right because `zlist_append_unique`
and the test before every removal keep a socket from being counted twice; a time-out
removes several sockets at once, and the lemma about it is about cardinalities. What holds of
the count in any broker (`TrieCounts`) is in HandlerProofs, for `ClientLink` too.

**Tree.** `TreeInv` follows the registration on each broker's present socket: at
most one of ADDBR, CHALL, CHALLOK, REGOK is under way on it, in one direction, and
none once the broker is registered (`TokensOK`), because only the first message on a
new socket starts it and each is answered once. So a REGOK finds its broker
unregistered, and the swap of the timers is right. `TimelyInv` adds that routes lead
to sockets of registered brokers below (`RoutesOK`) and that a broker that has given
the higher one up has no route to its socket there, no ADDDCL on the way up that
would make one, and no FORWARD on the way down (`GivenUp`).

**Names.** `NamesInv` speaks of one name n at a time that only one client may use,
as long as no broker below the root has crashed. The way of n leads from that client's
broker up to the root. Only brokers on the way have n (`OnWay`) or send messages about
it (`Spoken`). Between a broker on the way and the one above it, the messages going up
announce and retract n in turn, and they lead from what the higher broker routes now
to what the lower one has now (`InStep`, `Orderly`); what is refused on the way down
would break that turn, so nothing is (`NotRefused`). A new registration starts the turn
afresh: `SocketsOK` says that a socket which was left carries nothing more and
is forgotten above, and that a broker which is not registered is known above only
while its REGOK is on its way down. Timely answers are what makes that so. `Above`
is defined by sets closed under `Parent`, since the prover has no induction over the
tree; `Acyclic` gives it the depth that keeps a broker from being above itself.

**Client.** `LinkInv` does the same for the one client, and carries the chain of
PINGs: a timer, a PING on its way up or a PONG on its way down. HandlerProofs has
what both need: which handlers may write messages of a registration, and to whom.

**Client's subscriptions.** `SubsInv` follows each entry of the list through the three
places it can be in. Either the last message about it on its way up is a SUB (`Asked`),
or the broker's trie has it and no message on its way up ends it; and it is marked
active, or asked for, or its SUBOK is on its way down. So when nothing is on its way,
only the trie and the mark are left, which is `SubscriptionsHeld`. The list has one entry
per topic (`ListOK`), which is where `OneScope` comes in: ending a topic cannot touch
another entry, and topics that differ still differ once tenant and scope are put
around them. A SUB that arrives is entered even if the table's node has been deleted by
an earlier UNSUB, because `insert_subscription` creates the node and the trie decides by
itself; `TrieCounts` keeps its counts right meanwhile. The invariant speaks only of a
client that both sides take for registered: `cb_regok` asks for the whole list again and
makes it true for the new socket, whatever happened before. A client that times out
must lose exactly its own subscriptions, for which `KeysOwn` says that a client's key
in the broker's table is that of its socket. All of this is claimed while `skipped` is
FALSE. Then the cursor stood before the first entry at every loop since the last REGOK that asked for
the whole list, so that a SUBOK marked its entry and a subscription found its entry. Once a loop has
begun further down, nothing is claimed until a REGOK finds the cursor before the list, and no entry
on it twice, and asks for all of it again.
`KeptSubscriptionsAgree` adds the invariant that the cursor is 0 and `skipped` FALSE where
`sublist_delete` is never called.

**Publications.** `PubInv` gives every broker a station in the course of the present
publication: it has not had it, it sent it on upwards ("up"), it is the next to
receive it from above ("coming") or did so ("down"). The brokers that are "up" form
one way, `top` is its end, and only there is something on its way further up
(`GoesUp`); nothing above `top` has had the publication. A broker is reached from below
or from above once, because it has one parent and, registered once, one pair of
sockets to it. What a broker sent up does come back: `s_on_subS_msg` sends it down with
the path it came with, on all of `subS`'s pipes, the one it came from included.
`s_on_subN_msg` drops it, because the path is the broker's own id; so `ComesDown` says that
everything on the way down to a broker that is "up" bears the id of that
registration. After a second REGOK the id has changed, which is the exception in
the property: the invariant speaks of the clients of a broker only while no broker
from it upwards has registered twice (`OncePath`), and of nothing it does elsewhere.
That a callback gives a publication to a client once, and to its own clients only,
follows from the trie (`DeliverSends`). The publications are the model's: the next
one is made when the last one has gone everywhere (section 2).

**Subscriptions between brokers.** `WantInv` has two halves. `Sockets` is about a pair of sockets and
the pipe between them (`Arrives`): an XSUB socket's count of a topic is above 0 just if
the last message about the topic on the pipe is a SUB, or there is none and the XPUB
socket at the other end has the topic. That is kept because a message is written when
the count leaves 0 or gets back to it, and at no other time, and because what a
new pair is sent at REGOK is what `subS` holds at that moment. `AtMost` and `AtLeast`
are about one broker: `subN` counts its clients with the topic, and one more when
`pubS` has it (`ForNorth`), `subS` one more still when `pubN` has it (`ForSouth`).
`s_cb_sub`, `s_cb_unsub`, `s_on_pubS_msg` and `s_on_pubN_msg` each change what is
wanted and what they send by the same one. The bounds are two because the code misses
one or the other in known cases: a client that unregisters is not
taken back (so `AtMost` asks that all are here), a subscription before the REGOK does
not go up and a stray unsubscription takes back another's (`late` and `stray` in
`AtLeast`), and after a second REGOK both sockets of the broker are counted in its
`subS` (so both ask for one registration). That each callback
moves the set of clients by no more than it says is a lemma about the trie
(`RemoveOneExact`, `SubTells`, `UnsubTells`). When all has arrived and no
client wants the topic, the lowest broker that still counts it upwards has nothing to
count (`NothingUp`), and then the highest that counts it downwards (`NothingDown`);
the first of these needs the brokers to be finitely many.

**The way of a publication.** `ReachInv` says that for one broker p, where the present publication
was made, each client that is due it has a topic that matches, and that the way of the topic from
p to the client's broker h is open (`Way`). On the brokers above h but not above p
that means `UpWay`: the XPUB socket of the one above has the topic for the broker's pair, and no UNSUB is on
its way there. On those above p but not above h it means `DownWay`, for what the broker sends up.
Either the client has the publication, or it is on a pipe of that way (`Coming`). That
nothing closes the way (`WayKeeps`) is where `WantInv` comes in. An UNSUB is written only when a
count gets to 0. The counts on the way are at least what is wanted (`AtLeast`, which
`late` and `stray` except), and something is wanted at every broker on it: at h by the client, further
up because the pipe below has the topic, and from where the two ways meet downwards because the
one above wants it. When the publication is made, all has arrived
(`Settled`), so that `AtLeast` and `Arrives` together open the way (`SettledWay`). What remains is
that a broker which receives the publication gives it to its own clients (`Serves`)
and passes it on (`GoesDown`, `GoesNorth`), which a pipe takes if its XPUB socket has a matching topic. A broker drops
only what bears its own id, and the path says who sent the publication up last: only brokers above
p did, so none on the way down to h drops it (`Comes`).

**Broker's life.** `Order` relates the program counters of the three threads;
`Sockets` says that the addresses of a broker past `start_pubsub` could all be bound; `Walking`
says where the iterator is, what it has passed and what it will still meet, although
entries come and go and the one it stands on may be gone.

### Only model-checked

* Liveness (`Recovers`, `ForwardEnds`, `PublicationsEnd`, `EventuallyServed`,
  `InterruptEnds`): out of the prover's reach, with ENABLED.
* `Trie`, `TrieUse` and the refinement of `TopicMap`: `Trie` recurses over the structure
  of nodes with RECURSIVE operators, which the prover cannot handle.
* `UniqueNames`, and `Synced` where clients share a name: they do not hold for every
  instance (an UNREGDCLI is not asked whose route it removes, see section 3), so that
  a theorem would need the instances' restriction on who leaves. Where no names are
  shared, `Synced` is proved and `UniqueNames` says nothing.
* `ReachesSubscribers` of `PubSubTree` after a broker has registered a second time (see
  `PairsOnce` above).

## 5. Not modelled

* Clients in the callback style (`dd_new`), whose API calls run on another thread
  than the loop; listed as a hazard.
* The text of the REST answers, and GET /keys, which reads constant data.
* The nonce and encryption itself. The instances have no client names with dots in
  them, which a public client would take for a tenant's; listed as a hazard, and
  excluded by name (`PlainNames`) in the theorems that need it.
* Hash collisions, names cut off by the fixed buffers, sockets that cannot be
  created for want of resources, messages with frames missing.
* The `distance` field, `s_cb_nodst_dsock` and `s_cb_unreg_br` (never used, or empty);
  `nn_trie_dump`, which prints.
* Scopes of more numbers than the broker's own (section 2), and what follows from them.
* What the lists of topics hold while two threads use them (`actor_life` has the deaths
  that may follow, not the topics that are missed).
* `ddclient` and `ddperf`, command lines around the client library.
* Vendored code: `cli_parser`, xxhash, libb64.

## 6. Plan

Done: all modules of section 2 and the proofs of section 4. In this order:

1. Proofs: `ReachesSubscribers` of `PubSubTree` after a second registration;
   `UniqueNames` for clients that stay.
2. An abstract specification of the tree (who holds which name, who can be
   reached) that `BrokerTree` implements while no name is contested.
3. The callback style of the client, once its calls are serialised.
