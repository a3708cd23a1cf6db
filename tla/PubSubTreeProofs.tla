------------------------- MODULE PubSubTreeProofs --------------------------
(***************************************************************************)
(* Proofs about publications and subscriptions in a tree of brokers whose  *)
(* higher brokers form no circle, for any clients, topics and number of    *)
(* registrations: no client receives a publication twice, a publication    *)
(* reaches all that hold a subscription to it, and no broker goes on       *)
(* asking for a topic that nobody wants any more.                          *)
(*                                                                         *)
(* A publication goes up from broker to broker and, from each it passes,   *)
(* down again.  Every broker has a station: it has not had the publication *)
(* ("none"), it passed it on upwards ("up"), it is the next to receive it  *)
(* from above ("coming") or it did so ("down").  The tree keeps a broker   *)
(* from being reached on two ways, but what a broker sent up comes back to *)
(* it, and only the id in the message tells it so.  The invariant says     *)
(* that all that comes down to a broker that is "up" bears its id, and     *)
(* that at most one message comes down to any other.                       *)
(*                                                                         *)
(* Of subscriptions it says two things.  The pipes between two sockets     *)
(* bring the receiver what the sender counts: the last message about a     *)
(* topic says whether the count is above 0, and with no message on its way *)
(* the receiver has the topic just if it is.  And a broker's sockets count *)
(* what is wanted of them: its clients with the topic, one more when any   *)
(* lower broker wants it, and, downwards, one more when the higher does.   *)
(*                                                                         *)
(* A topic's way from one broker to another is open while every XPUB       *)
(* socket on it has the topic and no unsubscription is on its way to one.  *)
(* It stays open while a client at its end has the topic, because the      *)
(* counts stay above 0; and the publication for a client that has not got  *)
(* it is on a pipe of that way.                                            *)
(***************************************************************************)
EXTENDS PubSubTree, HandlerProofs, WellFoundedInduction

(***************************************************************************)
(* The tree.                                                               *)
(***************************************************************************)
\* Parent leads to the root: no broker is above itself.
Acyclic == \E depth \in [Brokers -> Nat] : \A b \in Lower : depth[Parent[b]] < depth[b]

\* Ancestors holds, with every broker, the one above it.
LEMMA AncestorSteps ==
  ASSUME NEW b \in Brokers
  PROVE  /\ b \in Ancestors[b] /\ Ancestors[b] \subseteq Brokers
         /\ \A a \in Ancestors[b] \cap Lower : Parent[a] \in Ancestors[b]
         /\ \A a \in Ancestors[b] : Ancestors[a] \subseteq Ancestors[b]
<1>1. b \in Ancestors[b] /\ Ancestors[b] \subseteq Brokers
  BY DEF Ancestors
<1>2. ASSUME NEW a \in Ancestors[b] \cap Lower PROVE Parent[a] \in Ancestors[b]
  BY PubSubAssumption DEF Ancestors, Upward
<1>3. ASSUME NEW a \in Ancestors[b] PROVE Ancestors[a] \subseteq Ancestors[b]
  <2>1. Ancestors[b] \in SUBSET Brokers /\ Upward(Ancestors[b]) /\ a \in Brokers
    BY <1>1, <1>2 DEF Upward
  <2> QED
    BY <2>1 DEF Ancestors
<1> QED
  BY <1>1, <1>2, <1>3

\* A broker below another one and those above it: only these are its ancestors, and
\* it is not among the latter.
LEMMA AncestorSplits ==
  ASSUME NEW b \in Lower
  PROVE  /\ Parent[b] \in Brokers /\ Ancestors[Parent[b]] \subseteq Ancestors[b]
         /\ Ancestors[b] \subseteq {b} \cup Ancestors[Parent[b]]
<1> DEFINE p == Parent[b]
           S == {b} \cup Ancestors[p]
<1>1. p \in Brokers /\ b \in Brokers
  BY PubSubAssumption DEF Lower
<1>2. p \in Ancestors[b] /\ Ancestors[p] \subseteq Ancestors[b]
  BY <1>1, AncestorSteps
<1>3. ASSUME NEW a \in S \cap Lower PROVE Parent[a] \in S
  BY <1>1, AncestorSteps
<1>4. S \in SUBSET Brokers /\ b \in S /\ Upward(S)
  BY <1>1, <1>3, AncestorSteps DEF Upward
<1>5. ASSUME NEW a \in Ancestors[b] PROVE a \in S
  BY <1>1, <1>4 DEF Ancestors
<1> QED
  BY <1>1, <1>2, <1>5

\* No broker is above itself.
LEMMA NotAboveItself ==
  ASSUME Acyclic, NEW b \in Lower
  PROVE  b \notin Ancestors[Parent[b]]
<1>1. PICK depth \in [Brokers -> Nat] : \A x \in Lower : depth[Parent[x]] < depth[x]
  BY DEF Acyclic
<1> DEFINE p == Parent[b]
           S == {x \in Brokers : depth[x] <= depth[p]}
<1>2. p \in Brokers /\ b \in Brokers /\ depth[p] < depth[b]
  BY <1>1, PubSubAssumption DEF Lower
<1>3. ASSUME NEW x \in S \cap Lower PROVE Parent[x] \in S
  <2>1. Parent[x] \in Brokers /\ depth[Parent[x]] < depth[x] /\ depth[x] <= depth[p]
    BY <1>1, PubSubAssumption
  <2>2. depth[Parent[x]] \in Nat /\ depth[x] \in Nat /\ depth[p] \in Nat
    BY <1>2, <2>1
  <2>3. depth[Parent[x]] <= depth[p]
    BY <2>1, <2>2
  <2> QED
    BY <2>1, <2>3
<1>4. S \in SUBSET Brokers /\ p \in S /\ Upward(S)
  BY <1>2, <1>3 DEF Upward
<1>5. b \in Ancestors[p] => b \in S
  BY <1>2, <1>4 DEF Ancestors
<1>6. depth[p] \in Nat /\ depth[b] \in Nat
  BY <1>2
<1> QED
  BY <1>2, <1>5, <1>6

(***************************************************************************)
(* Publications on the sockets.                                            *)
(***************************************************************************)
\* A sequence of the members of a set with at most one.
LEMMA SeqOfOne ==
  ASSUME NEW m, NEW S, S \subseteq {m}
  PROVE  SetToSeq(S) = <<>> \/ SetToSeq(S) = <<m>>
<1>1. CASE S = {}
  <2>1. Cardinality(S) = 0
    BY <1>1, FS_EmptySet
  <2>2. <<>> \in [1 .. 0 -> S] /\ IsInjective(<<>>)
    BY DEF IsInjective
  <2>3. SetToSeq(S) \in [1 .. 0 -> S]
    BY <2>1, <2>2 DEF SetToSeq
  <2> QED
    BY <2>3
<1>2. CASE S = {m}
  <2>1. Cardinality(S) = 1
    BY <1>2, FS_Singleton
  <2> DEFINE f == [i \in 1 .. 1 |-> m]
  <2>2. f \in [1 .. 1 -> S] /\ IsInjective(f)
    BY <1>2 DEF IsInjective
  <2>3. SetToSeq(S) \in [1 .. 1 -> S]
    BY <2>1, <2>2 DEF SetToSeq
  <2>4. SetToSeq(S) = <<m>>
    BY <1>2, <2>3
  <2> QED
    BY <2>4
<1> QED
  BY <1>1, <1>2

\* A callback publishes nothing, or mn to the broker above and ms to those below.
Silent(r) == \A o \in r.ps : o.sock \notin {"pubN", "pubS"}
Speaks(r, mn, ms) ==
  \A o \in r.ps : (o.sock = "pubN" => o.m = mn) /\ (o.sock = "pubS" => o.m = ms)

\* Where publications are, with what is new.
Queues(pu, pd) == \A k \in Pairs : IsSeq(pu[k]) /\ IsSeq(pd[k])
More(b, pu, pd, mn, ms) ==
  /\ Queues(pubUp', pubDown')
  /\ \A k \in Pairs :
       pubUp'[k] = pu[k] \/ (k = Present(b) /\ pubUp'[k] = pu[k] \o <<mn>>)
  /\ \A k \in Pairs :
       pubDown'[k] = pd[k] \/ (Connected(k) /\ Above(k) = b /\ pubDown'[k] = pd[k] \o <<ms>>)

\* One message more at most is on each pipe.
LEMMA FinishSpeaks ==
  ASSUME NEW b, NEW r, NEW wu, NEW wd, NEW pu, NEW pd, NEW mn, NEW ms,
         Finish(b, r, wu, wd, pu, pd), Speaks(r, mn, ms), Queues(pu, pd)
  PROVE  More(b, pu, pd, mn, ms)
<1>1. ASSUME NEW k \in Pairs
      PROVE  pubUp'[k] = pu[k] \/ (k = Present(b) /\ pubUp'[k] = pu[k] \o <<mn>>)
  <2> DEFINE M == {m \in Wrote(r, "pubN") : Wanted(pubN'[k], m)}
  <2>1. pubUp'[k] = IF k[1] = b /\ k = Present(b) THEN pu[k] \o SetToSeq(M) ELSE pu[k]
    BY DEF Finish
  <2>2. M \subseteq {mn}
    BY DEF Wrote, Speaks
  <2> HIDE DEF M
  <2>3. SetToSeq(M) = <<>> \/ SetToSeq(M) = <<mn>>
    BY <2>2, SeqOfOne
  <2>4. pu[k] \o <<>> = pu[k]
    BY DEF Queues, IsSeq
  <2> QED
    BY <2>1, <2>3, <2>4
<1>2. ASSUME NEW k \in Pairs
      PROVE  \/ pubDown'[k] = pd[k]
             \/ Connected(k) /\ Above(k) = b /\ pubDown'[k] = pd[k] \o <<ms>>
  <2> DEFINE M == {m \in Wrote(r, "pubS") : Wanted({t \in SubTopics : k \in pubS'[b][t]}, m)}
  <2>1. pubDown'[k] = IF Connected(k) /\ Above(k) = b THEN pd[k] \o SetToSeq(M) ELSE pd[k]
    BY DEF Finish
  <2>2. M \subseteq {ms}
    BY DEF Wrote, Speaks
  <2> HIDE DEF M
  <2>3. SetToSeq(M) = <<>> \/ SetToSeq(M) = <<ms>>
    BY <2>2, SeqOfOne
  <2>4. pd[k] \o <<>> = pd[k]
    BY DEF Queues, IsSeq
  <2> QED
    BY <2>1, <2>3, <2>4
<1>3. \A q, m : IsSeq(q) => IsSeq(q \o <<m>>)
  BY Concat, ShortSeqs
<1>4. Queues(pubUp', pubDown')
  BY <1>1, <1>2, <1>3 DEF Queues
<1> QED
  BY <1>1, <1>2, <1>4 DEF More

\* Nothing more is on the pipes to a side the callback does not publish to.
LEMMA FinishSilent ==
  ASSUME NEW b, NEW r, NEW wu, NEW wd, NEW pu, NEW pd,
         Finish(b, r, wu, wd, pu, pd), Queues(pu, pd)
  PROVE  /\ (\A o \in r.ps : o.sock # "pubN") => \A k \in Pairs : pubUp'[k] = pu[k]
         /\ (\A o \in r.ps : o.sock # "pubS") => \A k \in Pairs : pubDown'[k] = pd[k]
<1>1. SetToSeq({}) = <<>>
  <2>1. Cardinality({}) = 0
    BY FS_EmptySet
  <2>2. <<>> \in [1 .. 0 -> {}] /\ IsInjective(<<>>)
    BY DEF IsInjective
  <2>3. SetToSeq({}) \in [1 .. 0 -> {}]
    BY <2>1, <2>2 DEF SetToSeq
  <2> QED
    BY <2>3
<1>2. \A k \in Pairs : pu[k] \o <<>> = pu[k] /\ pd[k] \o <<>> = pd[k]
  BY DEF Queues, IsSeq
<1>3. ASSUME \A o \in r.ps : o.sock # "pubN", NEW k \in Pairs PROVE pubUp'[k] = pu[k]
  <2>1. Wrote(r, "pubN") = {}
    BY <1>3 DEF Wrote
  <2>2. {m \in Wrote(r, "pubN") : Wanted(pubN'[k], m)} = {}
    BY <2>1
  <2> QED
    BY <1>1, <1>2, <2>2 DEF Finish
<1>4. ASSUME \A o \in r.ps : o.sock # "pubS", NEW k \in Pairs PROVE pubDown'[k] = pd[k]
  <2>1. Wrote(r, "pubS") = {}
    BY <1>4 DEF Wrote
  <2>2. {m \in Wrote(r, "pubS") : Wanted({t \in SubTopics : k \in pubS'[b][t]}, m)} = {}
    BY <2>1
  <2> QED
    BY <1>1, <1>2, <2>2 DEF Finish
<1> QED
  BY <1>3, <1>4

(***************************************************************************)
(* The handlers.                                                           *)
(***************************************************************************)
\* c is broker b after an operation by which only sockets of S subscribe.
Subscribing(b, c, S) ==
  /\ Shape(c) /\ TrieCounts(c) /\ c.broker_id = b.broker_id
  /\ \A s, x : On(c, s, x) => On(b, s, x) \/ s \in S

\* Operations on the other tables add no subscription.
LEMMA SameSubscribing ==
  ASSUME NEW b, NEW c, TrieCounts(b), NoneAdded(b, c), SameSubs(b, c)
  PROVE  \A S : Subscribing(b, c, S)
<1>1. TrieCounts(c) /\ \A s, x : On(c, s, x) => On(b, s, x)
  BY SameSubsCounts
<1> QED
  BY <1>1 DEF Subscribing, NoneAdded, SameScalars

\* s_cb_sub, s_cb_unsub and s_cb_unreg_cli publish nothing and subscribe at most
\* the client.
LEMMA ClientsSubscribe ==
  ASSUME NEW b, Shape(b), TrieCounts(b), NEW s, NEW t, NEW r,
         \/ \E n, sc : r = s_cb_sub(b, s, t, n, sc) \/ r = s_cb_unsub(b, s, t, n, sc)
         \/ r = s_cb_unreg_cli(b, s, t)
  PROVE  Subscribing(b, r.b, {s}) /\ Silent(r)
<1> DEFINE b1 == TouchClient(b, <<s, t>>)
<1>1. Subscribing(b, b, {s}) /\ Subscribing(b, b1, {s})
  BY SameSubscribing, OthersSameSubs, AddNone
<1>2. Shape(b1) /\ TrieCounts(b1) /\ \A z, x : On(b1, z, x) => On(b, z, x)
  <2>1. SameSubs(b, b1) /\ NoneAdded(b, b1)
    BY OthersSameSubs, AddNone
  <2> QED
    BY <2>1, SameSubsCounts DEF NoneAdded
<1>3. b1.broker_id = b.broker_id
  BY <1>1 DEF Subscribing
<1> HIDE DEF b1
<1>4. ASSUME NEW topic
      PROVE  /\ Subscribing(b, nn_trie_subscribe(insert_subscription(b1, s, topic), s, topic), {s})
             /\ Subscribing(b, remove_subscription(b1, s, topic), {s})
  <2> DEFINE c == nn_trie_subscribe(insert_subscription(b1, s, topic), s, topic)
             d == remove_subscription(b1, s, topic)
  <2>1. /\ Shape(c) /\ TrieCounts(c)
        /\ \A z, x : On(c, z, x) <=> On(b1, z, x) \/ (z = s /\ x = topic)
    BY <1>2, SubscribeCounts
  <2>2. Shape(d) /\ TrieCounts(d) /\ \A z, x : On(d, z, x) => On(b1, z, x)
    BY <1>2, RemoveOneCounts
  <2>3. d.broker_id = b1.broker_id
    BY <1>2, AddNone DEF NoneAdded, SameScalars
  <2>4. c.broker_id = b1.broker_id
    <3> DEFINE e == insert_subscription(b1, s, topic)
    <3>1. NoneAdded(b1, e)
      BY <1>2, AddNone
    <3> HIDE DEF e
    <3>2. NoneAdded(e, nn_trie_subscribe(e, s, topic))
      BY <3>1, AddNone DEF NoneAdded
    <3>3. nn_trie_subscribe(e, s, topic).broker_id = b1.broker_id
      BY <3>1, <3>2 DEF NoneAdded, SameScalars
    <3> QED
      BY <3>3 DEF e
  <2> HIDE DEF c, d
  <2>5. Subscribing(b, c, {s}) /\ Subscribing(b, d, {s})
    BY <1>2, <1>3, <2>1, <2>2, <2>3, <2>4 DEF Subscribing
  <2> QED
    BY <2>5 DEF c, d
<1>5. ASSUME NEW n, NEW sc, r = s_cb_sub(b, s, t, n, sc)
      PROVE  Subscribing(b, r.b, {s}) /\ Silent(r)
  <2> DEFINE topic == SubTopic(t, n, sc, Scope)
             c == nn_trie_subscribe(insert_subscription(b1, s, topic), s, topic)
  <2>1. r.b \in {b, b1, c}
    BY <1>5 DEF s_cb_sub, Nothing, Result, WithPs, b1
  <2>2. Silent(r)
    BY <1>5 DEF s_cb_sub, Nothing, Result, WithPs, Silent, PsNorth, PsSouth
  <2> QED
    BY <1>1, <1>4, <2>1, <2>2
<1>6. ASSUME NEW n, NEW sc, r = s_cb_unsub(b, s, t, n, sc)
      PROVE  Subscribing(b, r.b, {s}) /\ Silent(r)
  <2> DEFINE topic == SubTopic(t, n, sc, Scope)
  <2>1. r.b \in {b, b1, remove_subscription(b1, s, topic)}
    BY <1>6 DEF s_cb_unsub, Nothing, Result, WithPs, b1
  <2>2. Silent(r)
    BY <1>6 DEF s_cb_unsub, Nothing, Result, WithPs, Silent, PsNorth, PsSouth
  <2> QED
    BY <1>1, <1>4, <2>1, <2>2
<1>7. ASSUME r = s_cb_unreg_cli(b, s, t) PROVE Subscribing(b, r.b, {s}) /\ Silent(r)
  <2> DEFINE c == remove_subscriptions(b, {s})
             d == UnlinkLocal(c, {<<s, t>>})
  <2>1. r.b \in {b, d} /\ Silent(r)
    BY <1>7 DEF s_cb_unreg_cli, Nothing, Result, Silent
  <2>2. Shape(c) /\ TrieCounts(c) /\ \A z, x : On(c, z, x) => On(b, z, x)
    BY RemoveAllCounts
  <2>3. NoneAdded(b, c)
    BY AddNone
  <2> HIDE DEF c
  <2>4. SameSubs(c, d) /\ NoneAdded(c, d)
    BY <2>2, OthersSameSubs, AddNone
  <2> HIDE DEF d
  <2>5. TrieCounts(d) /\ \A z, x : On(d, z, x) <=> On(c, z, x)
    BY <2>2, <2>4, SameSubsCounts
  <2>6. Subscribing(b, d, {s})
    BY <2>2, <2>3, <2>4, <2>5 DEF Subscribing, NoneAdded, SameScalars
  <2> QED
    BY <1>1, <2>1, <2>6
<1> QED
  BY <1>5, <1>6, <1>7

\* A callback sends one message to clients that are in the trie.
Sends(b, r) ==
  \E m : \A o \in r.rout : \E s, x : o = [to |-> s, m |-> m] /\ On(b, s, x)

\* So a client is sent it once or, if it is not there, not at all.
LEMMA SentOnce ==
  ASSUME NEW b, NEW r, Sends(b, r), NEW c
  PROVE  /\ Cardinality({o \in r.rout : o.to = c}) \in {0, 1}
         /\ (\A x : ~On(b, c, x)) => Cardinality({o \in r.rout : o.to = c}) = 0
<1>1. PICK m : \A o \in r.rout : \E s, x : o = [to |-> s, m |-> m] /\ On(b, s, x)
  BY DEF Sends
<1> DEFINE S == {o \in r.rout : o.to = c}
<1>2. S = {} \/ S = {[to |-> c, m |-> m]}
  BY <1>1
<1>3. (\A x : ~On(b, c, x)) => S = {}
  BY <1>1
<1> HIDE DEF S
<1>4. Cardinality({}) = 0 /\ \A x : Cardinality({x}) = 1
  BY FS_EmptySet, FS_Singleton
<1>5. Cardinality(S) \in {0, 1} /\ ((\A x : ~On(b, c, x)) => Cardinality(S) = 0)
  BY <1>2, <1>3, <1>4
<1> QED
  BY <1>5 DEF S

\* Deliver sends to clients in the trie.
LEMMA DeliverSends ==
  ASSUME NEW b, NEW pubtopic, NEW name, NEW topic, NEW r,
         r.rout = Deliver(b, pubtopic, name, topic)
  PROVE  Sends(b, r)
<1>1. \A s \in Subscribers(b, pubtopic) : \E x : On(b, s, x)
  BY DEF Subscribers, On
<1>2. \A o \in r.rout : \E s, x : o = [to |-> s, m |-> Pub(name, topic)] /\ On(b, s, x)
  BY <1>1 DEF Deliver
<1> QED
  BY <1>2 DEF Sends

\* A publication that arrives with pathv goes on: to the broker above with this
\* broker's id, to those below with pathv or without.
LEMMA PublicationsGoOn ==
  ASSUME NEW b, Shape(b), TrieCounts(b)
  PROVE  /\ \A s, t, n, unscoped :
              LET r == s_cb_pub(b, s, t, n, unscoped)
              IN Subscribing(b, r.b, {}) /\ Sends(b, r)
                 /\ \E mn, ms : Speaks(r, mn, ms) /\ mn.pathv = b.broker_id
         /\ \A topic, name, pathv :
              LET r == s_on_subS_msg(b, topic, name, pathv)
              IN Subscribing(b, r.b, {}) /\ Sends(b, r)
                 /\ \E mn, ms : Speaks(r, mn, ms) /\ mn.pathv = b.broker_id /\ ms.pathv = pathv
         /\ \A topic, name, pathv :
              LET r == s_on_subN_msg(b, topic, name, pathv)
              IN Subscribing(b, r.b, {}) /\ Sends(b, r)
                 /\ (\A o \in r.ps : o.sock # "pubN")
                 /\ (pathv = b.broker_id => r = Nothing(b))
                 /\ \E mn, ms : Speaks(r, mn, ms)
<1>1. Subscribing(b, b, {})
  BY SameSubscribing, OthersSameSubs, AddNone
<1>2. \A k : Subscribing(b, TouchClient(b, k), {})
  BY SameSubscribing, OthersSameSubs, AddNone
<1>3. Subscribing(b, [b EXCEPT !.state = CRASHED], {})
  BY <1>1 DEF Subscribing, Shape, BrokerFields, TrieCounts, On
<1>4. Sends(b, Nothing(b))
  BY DEF Sends, Nothing, Result
<1>5. \A t, name, id : PubMsg(t, name, id).pathv = id
  BY DEF PubMsg
<1>6. ASSUME NEW topic, NEW name, NEW ps
      PROVE  LET r == DeliverRemote(b, topic, name, ps)
             IN Subscribing(b, r.b, {}) /\ Sends(b, r) /\ r.ps \in {{}, ps}
  <2> DEFINE r == DeliverRemote(b, topic, name, ps)
  <2>1. r.b \in {b, [b EXCEPT !.state = CRASHED]} /\ r.ps \in {{}, ps}
    BY DEF DeliverRemote, Result, WithPs
  <2>2. r.rout = Deliver(b, topic, name, BareTopic(topic))
    BY DEF DeliverRemote, Result, WithPs
  <2> HIDE DEF r
  <2>3. Subscribing(b, r.b, {}) /\ Sends(b, r) /\ r.ps \in {{}, ps}
    BY <1>1, <1>3, <2>1, <2>2, DeliverSends
  <2> QED
    BY <2>3 DEF r
<1>7. ASSUME NEW s, NEW t, NEW n, NEW unscoped
      PROVE  LET r == s_cb_pub(b, s, t, n, unscoped)
             IN Subscribing(b, r.b, {}) /\ Sends(b, r)
                /\ \E mn, ms : Speaks(r, mn, ms) /\ mn.pathv = b.broker_id
  <2> DEFINE k == <<s, t>>
             name == IF IsPublic(n) THEN b.lcl_cli[k].name ELSE Tail(b.lcl_cli[k].name)
             topic == PubTopic(t, n, unscoped, Scope)
             r == s_cb_pub(b, s, t, n, unscoped)
             mn == PubMsg(topic, name, b.broker_id)
             ms == PubMsg(topic, name, NoId)
  <2>1. CASE ~HasLocal(b, k)
    <3>1. r = Nothing(b)
      BY <2>1 DEF s_cb_pub
    <3>2. Speaks(r, mn, ms) /\ r.b = b
      BY <3>1 DEF Nothing, Result, Speaks
    <3> QED
      BY <1>1, <1>4, <1>5, <3>1, <3>2
  <2>2. CASE HasLocal(b, k)
    <3>1. r = WithPs(Result(TouchClient(b, k), <<>>, Deliver(b, topic, name, n)),
                     PsNorth(b, "pubN", mn) \cup PsSouth("pubS", ms))
      BY <2>2 DEF s_cb_pub
    <3> HIDE DEF r, mn, ms
    <3>2. Speaks(r, mn, ms) /\ r.b = TouchClient(b, k) /\ r.rout = Deliver(b, topic, name, n)
      BY <3>1 DEF Result, WithPs, Speaks, PsNorth, PsSouth
    <3>3. Sends(b, r)
      BY <3>2, DeliverSends
    <3>4. mn.pathv = b.broker_id
      BY <1>5 DEF mn
    <3>5. Subscribing(b, r.b, {})
      BY <1>2, <3>2
    <3> QED
      BY <3>2, <3>3, <3>4, <3>5 DEF r
  <2> QED
    BY <2>1, <2>2
<1>8. ASSUME NEW topic, NEW name, NEW pathv
      PROVE  LET r == s_on_subS_msg(b, topic, name, pathv)
             IN Subscribing(b, r.b, {}) /\ Sends(b, r)
                /\ \E mn, ms : Speaks(r, mn, ms) /\ mn.pathv = b.broker_id /\ ms.pathv = pathv
  <2> DEFINE r == s_on_subS_msg(b, topic, name, pathv)
             mn == PubMsg(topic, name, b.broker_id)
             ms == PubMsg(topic, name, pathv)
             ps == PsNorth(b, "pubN", mn) \cup PsSouth("pubS", ms)
  <2>1. r = DeliverRemote(b, topic, name, ps)
    BY DEF s_on_subS_msg
  <2> HIDE DEF r, ps
  <2>2. Subscribing(b, r.b, {}) /\ Sends(b, r) /\ r.ps \in {{}, ps}
    BY <1>6, <2>1
  <2>3. Speaks(r, mn, ms)
    BY <2>2 DEF ps, Speaks, PsNorth, PsSouth
  <2>4. mn.pathv = b.broker_id /\ ms.pathv = pathv
    BY <1>5
  <2> QED
    BY <2>2, <2>3, <2>4 DEF r
<1>9. ASSUME NEW topic, NEW name, NEW pathv
      PROVE  LET r == s_on_subN_msg(b, topic, name, pathv)
             IN Subscribing(b, r.b, {}) /\ Sends(b, r)
                /\ (\A o \in r.ps : o.sock # "pubN")
                /\ (pathv = b.broker_id => r = Nothing(b))
                /\ \E mn, ms : Speaks(r, mn, ms)
  <2> DEFINE r == s_on_subN_msg(b, topic, name, pathv)
             ms == PubMsg(topic, name, NoId)
             ps == PsSouth("pubS", ms)
  <2>1. r \in {Nothing(b), DeliverRemote(b, topic, name, ps)}
        /\ (pathv = b.broker_id => r = Nothing(b))
    BY DEF s_on_subN_msg
  <2> HIDE DEF r, ps
  <2>2. Nothing(b).b = b /\ Nothing(b).ps = {}
    BY DEF Nothing, Result
  <2>3. Subscribing(b, r.b, {}) /\ Sends(b, r) /\ r.ps \in {{}, ps}
    BY <1>1, <1>4, <1>6, <2>1, <2>2
  <2>4. Speaks(r, ms, ms) /\ \A o \in r.ps : o.sock # "pubN"
    BY <2>3 DEF ps, Speaks, PsSouth
  <2> QED
    BY <2>1, <2>3, <2>4 DEF r
<1> QED
  BY <1>7, <1>8, <1>9

(***************************************************************************)
(* The inductive invariant.                                                *)
(***************************************************************************)
\* Tables and counters: only a broker's own clients are in its trie, and a
\* registered broker's id is that of its present registration.
Places ==
  /\ DOMAIN br = Brokers /\ pairs \in [Lower -> Nat]
  /\ DOMAIN pubUp = Pairs /\ DOMAIN pubDown = Pairs
  /\ \A b \in Brokers : /\ Shape(br[b]) /\ TrieCounts(br[b])
                        /\ \A s, x : On(br[b], s, x) => s \in Clients /\ Home[s] = b
  /\ \A b \in Lower : pairs[b] > 0 => br[b].broker_id = Present(b)
  /\ Queues(pubUp, pubDown)
  /\ \A k \in Pairs : pubUp[k] # <<>> \/ pubDown[k] # <<>> => Connected(k)
  /\ got \in [Clients -> Nat]

\* No broker from b upwards has registered twice.
OncePath(b) == \A a \in Ancestors[b] \cap Lower : pairs[a] <= 1

\* Where the present publication is: it went up through the brokers that are "up",
\* of which top is the last; on the other ways it goes down, "coming" to the next
\* broker and "down" where it was.
Stations == {"none", "up", "coming", "down"}

GoesUp(st, top) ==
  /\ \A k \in Pairs : pubUp[k] # <<>> =>
       k[1] = top /\ st[top] = "up" /\ Len(pubUp[k]) = 1 /\ Head(pubUp[k]).pathv = k
  /\ \A k, j \in Pairs : pubUp[k] # <<>> /\ pubUp[j] # <<>> => k = j
  /\ \A b \in Brokers : st[b] = "up" /\ b # top => b \in Lower /\ st[Parent[b]] = "up"
  /\ \A a \in Ancestors[top] : a # top => st[a] = "none"

\* What the clients of b have received.
ReceivedAt(st, b) ==
  \A c \in Clients : Home[c] = b =>
    got[c] <= 1 /\ (st[b] \in {"none", "coming"} => got[c] = 0)

\* What is on its way down to b.
ComesDown(st, b) ==
  /\ st[b] \in {"coming", "down"} => st[Parent[b]] \in {"up", "down"}
  /\ \A k \in Pairs : k[1] = b =>
       /\ st[b] \in {"none", "down"} => pubDown[k] = <<>>
       /\ st[b] = "coming" => Len(pubDown[k]) <= 1
       /\ st[b] = "up" => \A i \in DOMAIN pubDown[k] : pubDown[k][i].pathv = k

Course(st, top) ==
  /\ st \in [Brokers -> Stations] /\ top \in Brokers
  /\ GoesUp(st, top)
  /\ \A b \in Brokers : OncePath(b) => ReceivedAt(st, b)
  /\ \A b \in Lower : OncePath(b) => ComesDown(st, b)

PubInv == Places /\ \E st, top : Course(st, top)

(***************************************************************************)
(* Steps.                                                                  *)
(***************************************************************************)
\* Initially no publication has been made.
LEMMA InitPub == PubSubAssumption /\ Init => PubInv
<1> SUFFICES ASSUME Init PROVE PubInv
  OBVIOUS
<1>1. ASSUME NEW b \in Brokers
      PROVE  /\ Shape(br[b]) /\ br[b].subscribe = <<>> /\ br[b].topics_trie = <<>>
  BY DEF Init, Start, NewBroker, Shape, BrokerFields
<1>2. DOMAIN <<>> = {} /\ IsSeq(<<>>)
  BY ShortSeqs
<1>3. \A b \in Brokers : TrieCounts(br[b]) /\ \A s, x : ~On(br[b], s, x)
  BY <1>1, <1>2 DEF TrieCounts, On
<1>4. DOMAIN br = Brokers /\ pairs \in [Lower -> Nat] /\ \A b \in Lower : pairs[b] = 0
  BY DEF Init
<1>5. /\ DOMAIN pubUp = Pairs /\ DOMAIN pubDown = Pairs
      /\ \A k \in Pairs : pubUp[k] = <<>> /\ pubDown[k] = <<>>
  BY DEF Init
<1>6. got \in [Clients -> Nat] /\ \A c \in Clients : got[c] = 0
  BY DEF Init
<1>7. Places
  BY <1>1, <1>2, <1>3, <1>4, <1>5, <1>6 DEF Places, Queues
<1> DEFINE st == [b \in Brokers |-> "none"]
<1>8. st \in [Brokers -> Stations] /\ \A b \in Brokers : st[b] = "none"
  BY DEF Stations
<1> HIDE DEF st
<1>9. Root \in Brokers /\ Lower \subseteq Brokers /\ Ancestors[Root] \subseteq Brokers
  BY PubSubAssumption, AncestorSteps DEF Lower
<1>10. GoesUp(st, Root)
  BY <1>5, <1>8, <1>9 DEF GoesUp
<1>11. \A b \in Brokers : ReceivedAt(st, b)
  BY <1>6 DEF ReceivedAt
<1>12. \A b \in Lower : ComesDown(st, b)
  BY <1>5, <1>8, <1>9, <1>2 DEF ComesDown
<1>13. Course(st, Root)
  BY <1>8, <1>9, <1>10, <1>11, <1>12 DEF Course
<1> QED
  BY <1>7, <1>13 DEF PubInv

\* A broker whose callback ends as r keeps the tables in order.
LEMMA PlacesStep ==
  ASSUME Places, NEW b \in Brokers, NEW r, NEW wu, NEW wd, NEW pu, NEW pd,
         Finish(b, r, wu, wd, pu, pd), UNCHANGED pairs,
         NEW S, Subscribing(br[b], r.b, S), \A s \in S : s \in Clients /\ Home[s] = b,
         Queues(pubUp', pubDown'),
         \A k \in Pairs : pubUp'[k] # <<>> \/ pubDown'[k] # <<>> => Connected(k),
         got' \in [Clients -> Nat]
  PROVE  Places'
<1>1. br' = [br EXCEPT ![b] = r.b]
  BY DEF Finish
<1>2. DOMAIN br' = Brokers /\ br'[b] = r.b /\ \A a \in Brokers : a # b => br'[a] = br[a]
  BY <1>1 DEF Places
<1>3. pairs' = pairs
  OBVIOUS
<1>4. ASSUME NEW a \in Brokers
      PROVE  /\ Shape(br'[a]) /\ TrieCounts(br'[a])
             /\ \A s, x : On(br'[a], s, x) => s \in Clients /\ Home[s] = a
             /\ br'[a].broker_id = br[a].broker_id
  <2>1. CASE a = b
    BY <1>2, <2>1 DEF Subscribing, Places
  <2>2. CASE a # b
    BY <1>2, <2>2 DEF Places
  <2> QED
    BY <2>1, <2>2
<1>5. \A a \in Lower : pairs'[a] > 0 => br'[a].broker_id = Present(a)'
  <2> SUFFICES ASSUME NEW a \in Lower, pairs'[a] > 0 PROVE br'[a].broker_id = Present(a)'
    OBVIOUS
  <2>1. a \in Brokers /\ br[a].broker_id = Present(a)
    BY <1>3 DEF Lower, Places
  <2> QED
    BY <1>3, <1>4, <2>1 DEF Present
<1>6. \A k \in Pairs : Connected(k)' <=> Connected(k)
  BY <1>3 DEF Connected
<1>7. DOMAIN pubUp' = Pairs /\ DOMAIN pubDown' = Pairs
  BY DEF Finish
<1> QED
  BY <1>2, <1>3, <1>4, <1>5, <1>6, <1>7 DEF Places

\* A step in which no publication moves, and no client is sent one, leaves the
\* course as it is, also if a broker registers.
LEMMA QuietCourse ==
  ASSUME NEW st, NEW top, Course(st, top), Places, Places',
         \A k \in Pairs : pubUp'[k] = pubUp[k] /\ pubDown'[k] = pubDown[k],
         \A a \in Lower : pairs[a] <= pairs'[a],
         \A c \in Clients : got'[c] = got[c] \/ got'[c] = 0
  PROVE  Course(st, top)'
<1>1. GoesUp(st, top)'
  BY DEF GoesUp, Course
<1>2. ASSUME NEW b, OncePath(b)' PROVE OncePath(b)
  <2> SUFFICES ASSUME NEW a \in Ancestors[b] \cap Lower PROVE pairs[a] <= 1
    BY DEF OncePath
  <2>1. pairs[a] \in Nat /\ pairs'[a] \in Nat /\ pairs[a] <= pairs'[a]
    BY DEF Places
  <2>2. pairs'[a] <= 1
    BY <1>2 DEF OncePath
  <2> QED
    BY <2>1, <2>2
<1>3. ASSUME NEW b \in Brokers, OncePath(b)' PROVE ReceivedAt(st, b)'
  <2>1. ReceivedAt(st, b)
    BY <1>2, <1>3 DEF Course
  <2>2. \A c \in Clients : got'[c] = got[c] \/ got'[c] = 0
    OBVIOUS
  <2> QED
    BY <2>1, <2>2 DEF ReceivedAt
<1>4. ASSUME NEW b \in Lower, OncePath(b)' PROVE ComesDown(st, b)'
  <2>1. ComesDown(st, b)
    BY <1>2, <1>4 DEF Course
  <2>2. \A k \in Pairs : pubDown'[k] = pubDown[k]
    OBVIOUS
  <2> QED
    BY <2>1, <2>2 DEF ComesDown
<1> QED
  BY <1>1, <1>3, <1>4 DEF Course

\* A callback that publishes nothing.
LEMMA QuietStep ==
  ASSUME PubInv, NEW b \in Brokers, NEW r, NEW wu, NEW wd,
         Finish(b, r, wu, wd, pubUp, pubDown), UNCHANGED pairs, Silent(r),
         NEW S, Subscribing(br[b], r.b, S), \A s \in S : s \in Clients /\ Home[s] = b,
         got' = got \/ got' = Receipts
  PROVE  PubInv'
<1>1. Places /\ Queues(pubUp, pubDown) /\ got \in [Clients -> Nat]
  BY DEF PubInv, Places
<1>2. \A k \in Pairs : pubUp'[k] = pubUp[k] /\ pubDown'[k] = pubDown[k]
  <2>1. (\A o \in r.ps : o.sock # "pubN") /\ (\A o \in r.ps : o.sock # "pubS")
    BY DEF Silent
  <2> QED
    BY <1>1, <2>1, FinishSilent
<1>3. got' \in [Clients -> Nat] /\ \A c \in Clients : got'[c] = got[c] \/ got'[c] = 0
  BY <1>1 DEF Receipts
<1>4. Queues(pubUp', pubDown')
  BY <1>1, <1>2 DEF Queues
<1>5. \A k \in Pairs : pubUp'[k] # <<>> \/ pubDown'[k] # <<>> => Connected(k)
  BY <1>1, <1>2 DEF Places
<1>6. Places'
  BY <1>1, <1>3, <1>4, <1>5, PlacesStep
<1>7. PICK st, top : Course(st, top)
  BY DEF PubInv
<1>8. \A a \in Lower : pairs[a] <= pairs'[a]
  BY <1>1 DEF Places
<1>9. Course(st, top)'
  BY <1>1, <1>2, <1>3, <1>6, <1>7, <1>8, QuietCourse
<1> QED
  BY <1>6, <1>9 DEF PubInv

\* What a client does other than publishing.
LEMMA ClientPub ==
  ASSUME PubInv, NEW c \in Clients, Sub(c) \/ Unsub(c) \/ Leave(c)
  PROVE  PubInv'
<1> DEFINE b == Home[c]
<1>1. b \in Brokers /\ Shape(br[b]) /\ TrieCounts(br[b])
  BY PubSubAssumption DEF PubInv, Places
<1>2. PICK r : /\ \/ \E n, sc : \/ r = s_cb_sub(br[b], c, Tenant(c), n, sc)
                                \/ r = s_cb_unsub(br[b], c, Tenant(c), n, sc)
                  \/ r = s_cb_unreg_cli(br[b], c, Tenant(c))
               /\ ClientDoes(c, r)
  BY DEF Sub, Unsub, Leave
<1>3. Subscribing(br[b], r.b, {c}) /\ Silent(r)
  BY <1>1, <1>2, ClientsSubscribe
<1>4. Finish(b, r, wantUp, wantDown, pubUp, pubDown) /\ UNCHANGED pairs /\ got' = Receipts
  BY <1>2 DEF ClientDoes
<1> HIDE DEF b
<1>5. \A s \in {c} : s \in Clients /\ Home[s] = b
  BY DEF b
<1> QED
  BY <1>1, <1>3, <1>4, <1>5, QuietStep

\* Subscriptions on their way.
LEMMA WantPub ==
  ASSUME PubInv, NEW k \in Pairs, ReceiveWantUp(k) \/ ReceiveWantDown(k)
  PROVE  PubInv'
<1>1. k[1] \in Brokers /\ Above(k) \in Brokers
  BY PubSubAssumption DEF Pairs, Lower, Above
<1>2. \A b \in Brokers : Shape(br[b]) /\ TrieCounts(br[b])
  BY DEF PubInv, Places
<1>3. ASSUME NEW b, NEW m
      PROVE  /\ s_on_pubS_msg(b, m).b = b /\ Silent(s_on_pubS_msg(b, m))
             /\ s_on_pubN_msg(b, m).b = b /\ Silent(s_on_pubN_msg(b, m))
             /\ Nothing(b).b = b /\ Silent(Nothing(b))
  BY DEF s_on_pubS_msg, s_on_pubN_msg, Nothing, Result, WithPs, Silent, PsNorth, PsSouth
<1>4. PICK b, r, wu, wd :
        /\ b \in Brokers
        /\ Finish(b, r, wu, wd, pubUp, pubDown) /\ UNCHANGED <<pairs, got>>
        /\ \E m : r \in {s_on_pubS_msg(br[b], m), s_on_pubN_msg(br[b], m), Nothing(br[b])}
  <2>1. CASE ReceiveWantUp(k)
    BY <1>1, <2>1 DEF ReceiveWantUp
  <2>2. CASE ReceiveWantDown(k)
    BY <1>1, <2>2 DEF ReceiveWantDown
  <2> QED
    BY <2>1, <2>2
<1>5. r.b = br[b] /\ Silent(r)
  <2> DEFINE x == br[b]
  <2>1. PICK m : r \in {s_on_pubS_msg(x, m), s_on_pubN_msg(x, m), Nothing(x)}
    BY <1>4
  <2> HIDE DEF x
  <2>2. r.b = x /\ Silent(r)
    BY <1>3, <2>1
  <2> QED
    BY <2>2 DEF x
<1>6. Subscribing(br[b], r.b, {})
  BY <1>2, <1>4, <1>5 DEF Subscribing
<1> QED
  BY <1>4, <1>5, <1>6, QuietStep

\* A broker registers, again or for the first time.
LEMMA RegokPub ==
  ASSUME PubInv, NEW b \in Lower, Regok(b)
  PROVE  PubInv'
<1> DEFINE gone == IF br[b].state = REGISTERED
                   THEN s_heartbeat([br[b] EXCEPT !.timeout = Limit]).b ELSE br[b]
           k == <<b, pairs[b] + 1>>
           new == s_cb_regok(s_cb_chall(gone, k).b, <<>>).b
<1>1. Places /\ b \in Brokers /\ DOMAIN br = Brokers /\ pairs \in [Lower -> Nat]
  BY DEF PubInv, Places, Lower
<1>2. br' = [br EXCEPT ![b] = new] /\ pairs' = [pairs EXCEPT ![b] = @ + 1]
  BY DEF Regok
<1>3. Shape(br[b]) /\ TrieCounts(br[b])
  BY <1>1 DEF Places
<1>4. Shape(gone) /\ SameSubs(br[b], gone)
  <2> DEFINE e == [br[b] EXCEPT !.timeout = Limit]
  <2>1. Shape(e) /\ SameSubs(br[b], e)
    BY <1>3 DEF Shape, BrokerFields, SameSubs
  <2> HIDE DEF e
  <2>2. Shape(s_heartbeat(e).b) /\ SameSubs(e, s_heartbeat(e).b)
    BY <2>1 DEF s_heartbeat, Result, Shape, BrokerFields, SameSubs
  <2>3. Shape(s_heartbeat(e).b) /\ SameSubs(br[b], s_heartbeat(e).b)
    BY <2>1, <2>2 DEF SameSubs
  <2> QED
    BY <1>3, <2>3 DEF e, SameSubs
<1> HIDE DEF gone
<1>5. Shape(new) /\ SameSubs(gone, new) /\ new.broker_id = k
  <2> DEFINE e == s_cb_chall(gone, k).b
  <2>1. Shape(e) /\ SameSubs(gone, e) /\ e.broker_id = k
    BY <1>4 DEF s_cb_chall, Heard, Result, Shape, BrokerFields, SameSubs
  <2> HIDE DEF e
  <2>2. LET f == s_cb_regok(e, <<>>).b
        IN Shape(f) /\ SameSubs(e, f) /\ f.broker_id = e.broker_id
    BY <2>1 DEF s_cb_regok, Heard, Result, Shape, BrokerFields, SameSubs
  <2>3. LET f == s_cb_regok(e, <<>>).b IN Shape(f) /\ SameSubs(gone, f) /\ f.broker_id = k
    BY <2>1, <2>2 DEF SameSubs
  <2> QED
    BY <2>3 DEF e
<1> HIDE DEF new
<1>6. TrieCounts(new) /\ \A s, x : On(new, s, x) => On(br[b], s, x)
  BY <1>3, <1>4, <1>5, SameSubsCounts
<1>7. DOMAIN br' = Brokers /\ br'[b] = new /\ \A a \in Brokers : a # b => br'[a] = br[a]
  BY <1>1, <1>2
<1>8. /\ pairs' \in [Lower -> Nat] /\ pairs'[b] = pairs[b] + 1
      /\ \A a \in Lower : a # b => pairs'[a] = pairs[a]
  BY <1>1, <1>2
<1>9. /\ \A j \in Pairs : pubUp'[j] = pubUp[j] /\ pubDown'[j] = pubDown[j]
      /\ got' = Receipts /\ DOMAIN pubUp' = DOMAIN pubUp /\ DOMAIN pubDown' = DOMAIN pubDown
  BY DEF Regok
<1>10. got' \in [Clients -> Nat] /\ \A c \in Clients : got'[c] = got[c] \/ got'[c] = 0
  BY <1>1, <1>9 DEF Receipts, Places
<1>11. \A a \in Lower : pairs[a] \in Nat /\ pairs[a] <= pairs'[a]
  BY <1>1, <1>8
<1>12. Places'
  <2>1. ASSUME NEW a \in Brokers
        PROVE  /\ Shape(br'[a]) /\ TrieCounts(br'[a])
               /\ \A s, x : On(br'[a], s, x) => s \in Clients /\ Home[s] = a
    <3>1. CASE a = b
      BY <1>1, <1>5, <1>6, <1>7, <3>1 DEF Places
    <3>2. CASE a # b
      BY <1>1, <1>7, <3>2 DEF Places
    <3> QED
      BY <3>1, <3>2
  <2>2. \A a \in Lower : pairs'[a] > 0 => br'[a].broker_id = Present(a)'
    <3> SUFFICES ASSUME NEW a \in Lower, pairs'[a] > 0 PROVE br'[a].broker_id = Present(a)'
      OBVIOUS
    <3>1. CASE a = b
      BY <1>5, <1>7, <1>8, <3>1 DEF Present
    <3>2. CASE a # b
      <4>1. a \in Brokers /\ pairs'[a] = pairs[a] /\ br'[a] = br[a]
        BY <1>7, <1>8, <3>2 DEF Lower
      <4>2. br[a].broker_id = Present(a)
        BY <1>1, <4>1 DEF Places
      <4> QED
        BY <4>1, <4>2 DEF Present
    <3> QED
      BY <3>1, <3>2
  <2>3. Queues(pubUp', pubDown')
    BY <1>1, <1>9 DEF Places, Queues
  <2>4. ASSUME NEW j \in Pairs, pubUp'[j] # <<>> \/ pubDown'[j] # <<>> PROVE Connected(j)'
    <3>1. Connected(j)
      BY <1>1, <1>9, <2>4 DEF Places
    <3>2. j[1] \in Lower /\ j[2] \in Nat
      BY PubSubAssumption DEF Pairs
    <3>3. pairs[j[1]] \in Nat /\ pairs'[j[1]] \in Nat /\ pairs[j[1]] <= pairs'[j[1]]
      BY <1>8, <1>11, <3>2
    <3> QED
      BY <3>1, <3>2, <3>3 DEF Connected
  <2> QED
    BY <1>1, <1>7, <1>8, <1>9, <1>10, <2>1, <2>2, <2>3, <2>4 DEF Places
<1>13. PICK st, top : Course(st, top)
  BY DEF PubInv
<1>14. Course(st, top)'
  BY <1>1, <1>9, <1>10, <1>11, <1>12, <1>13, QuietCourse
<1> QED
  BY <1>12, <1>14 DEF PubInv

\* No broker above another one is below it.
LEMMA NoWayBack ==
  ASSUME Acyclic, NEW b \in Brokers, NEW a \in Ancestors[b] \cap Lower
  PROVE  Parent[a] # b
<1> SUFFICES ASSUME Parent[a] = b PROVE FALSE
  OBVIOUS
<1>1. a \in Ancestors[Parent[a]]
  OBVIOUS
<1> QED
  BY <1>1, NotAboveItself

\* Where no broker has registered twice, this holds further up and there is at
\* most one pair of sockets.
LEMMA OnceUp ==
  ASSUME NEW b \in Lower, OncePath(b), Places
  PROVE  /\ OncePath(Parent[b])
         /\ \A k \in Pairs : k[1] = b /\ Connected(k) => k = <<b, 1>> /\ br[b].broker_id = k
<1>1. OncePath(Parent[b])
  BY AncestorSplits DEF OncePath
<1>2. b \in Ancestors[b]
  BY AncestorSteps DEF Lower
<1>3. pairs[b] <= 1 /\ pairs[b] \in Nat
  BY <1>2 DEF OncePath, Places
<1>4. ASSUME NEW k \in Pairs, k[1] = b, Connected(k)
      PROVE  k = <<b, 1>> /\ br[b].broker_id = k
  <2>1. k = <<b, k[2]>> /\ k[2] \in 1 .. MaxPairs[b]
    BY <1>4 DEF Pairs
  <2>2. MaxPairs[b] \in Nat
    BY PubSubAssumption
  <2>3. k[2] <= pairs[b]
    BY <1>4 DEF Connected
  <2>4. k[2] = 1 /\ pairs[b] = 1
    BY <1>3, <2>1, <2>2, <2>3
  <2>5. br[b].broker_id = <<b, 1>>
    BY <2>4 DEF Places, Present
  <2> QED
    BY <2>1, <2>4, <2>5
<1> QED
  BY <1>1, <1>4

\* What a callback of b delivers goes to clients of b, once each.
LEMMA DeliveredOnce ==
  ASSUME Places, NEW b \in Brokers, NEW r, Sends(br[b], r), NEW c \in Clients
  PROVE  /\ Cardinality({o \in r.rout : o.to = c}) \in {0, 1}
         /\ Home[c] # b => Cardinality({o \in r.rout : o.to = c}) = 0
<1>1. Home[c] # b => \A x : ~On(br[b], c, x)
  BY DEF Places
<1> QED
  BY <1>1, SentOnce

\* A client publishes.
LEMMA PublishPub ==
  ASSUME Acyclic, PubInv, NEW c \in Clients, Publish(c)
  PROVE  PubInv'
<1> DEFINE b == Home[c]
<1>1. Places /\ b \in Brokers /\ Shape(br[b]) /\ TrieCounts(br[b])
  BY PubSubAssumption DEF PubInv, Places
<1>2. PICK n, u : LET r == s_cb_pub(br[b], c, Tenant(c), n, u)
               IN /\ NoPublication /\ UNCHANGED pairs
                  /\ Finish(b, r, wantUp, wantDown, pubUp, pubDown)
                  /\ got' = [d \in Clients |-> Cardinality({o \in r.rout : o.to = d})]
  <2>1. PICK n \in PubTopics :
          LET r == s_cb_pub(br[b], c, Tenant(c), n, FALSE)
          IN /\ NoPublication /\ UNCHANGED pairs
             /\ Finish(b, r, wantUp, wantDown, pubUp, pubDown)
             /\ got' = [d \in Clients |-> Cardinality({o \in r.rout : o.to = d})]
    BY DEF Publish
  <2> WITNESS n, FALSE
  <2> QED
    BY <2>1
<1> DEFINE r == s_cb_pub(br[b], c, Tenant(c), n, u)
<1>3. /\ NoPublication /\ pairs' = pairs
      /\ Finish(b, r, wantUp, wantDown, pubUp, pubDown)
      /\ got' = [d \in Clients |-> Cardinality({o \in r.rout : o.to = d})]
  BY <1>2
<1>4. /\ Subscribing(br[b], r.b, {}) /\ Sends(br[b], r)
      /\ \E mn, ms : Speaks(r, mn, ms) /\ mn.pathv = br[b].broker_id
  <2> DEFINE x == br[b]
  <2> HIDE DEF x
  <2>1. Shape(x) /\ TrieCounts(x)
    BY <1>1 DEF x
  <2>2. LET q == s_cb_pub(x, c, Tenant(c), n, u)
        IN Subscribing(x, q.b, {}) /\ Sends(x, q)
           /\ \E mn, ms : Speaks(q, mn, ms) /\ mn.pathv = x.broker_id
    BY <2>1, PublicationsGoOn
  <2> QED
    BY <2>2 DEF x
<1> HIDE DEF b, r
<1>5. PICK mn, ms : Speaks(r, mn, ms) /\ mn.pathv = br[b].broker_id
  BY <1>4
<1>6. Queues(pubUp, pubDown) /\ \A k \in Pairs : pubUp[k] = <<>> /\ pubDown[k] = <<>>
  BY <1>1, <1>3 DEF NoPublication, Places
<1>7. More(b, pubUp, pubDown, mn, ms)
  BY <1>3, <1>5, <1>6, FinishSpeaks
<1>8. Queues(pubUp', pubDown') /\ \A m : <<>> \o <<m>> = <<m>> /\ <<m>> # <<>> /\ Len(<<m>>) = 1
  BY <1>7 DEF More
<1>9. ASSUME NEW k \in Pairs, pubUp'[k] # <<>>
      PROVE  k = Present(b) /\ k[1] = b /\ Len(pubUp'[k]) = 1 /\ Head(pubUp'[k]).pathv = k
  <2>1. k = Present(b) /\ pubUp'[k] = <<mn>>
    BY <1>6, <1>7, <1>8, <1>9 DEF More
  <2>2. k[1] = b /\ k[2] = pairs[b] /\ b \in Lower /\ k[2] \in 1 .. MaxPairs[b]
    BY <2>1 DEF Present, Pairs
  <2>3. MaxPairs[b] \in Nat /\ pairs[b] \in Nat
    BY <1>1, <2>2, PubSubAssumption DEF Places
  <2>4. br[b].broker_id = k
    BY <1>1, <2>1, <2>2, <2>3 DEF Places
  <2> QED
    BY <1>5, <2>1, <2>2, <2>4
<1>10. ASSUME NEW k \in Pairs, pubDown'[k] # <<>>
       PROVE  /\ Connected(k) /\ Above(k) = b /\ k[1] \in Lower /\ Parent[k[1]] = b
              /\ Len(pubDown'[k]) <= 1
  BY <1>6, <1>7, <1>8, <1>10 DEF More, Above, Pairs
<1>11. /\ got' \in [Clients -> Nat]
       /\ \A d \in Clients : got'[d] <= 1 /\ (Home[d] # b => got'[d] = 0)
  BY <1>1, <1>3, <1>4, DeliveredOnce
<1>12. Places'
  <2>1. ASSUME NEW k \in Pairs, pubUp'[k] # <<>> PROVE Connected(k)
    <3>1. k = Present(b) /\ k[1] = b /\ b \in Lower
      BY <1>9, <2>1 DEF Pairs
    <3> QED
      BY <1>1, <3>1 DEF Present, Connected, Places
  <2>2. \A k \in Pairs : pubUp'[k] # <<>> \/ pubDown'[k] # <<>> => Connected(k)
    BY <1>10, <2>1
  <2>3. UNCHANGED pairs /\ Queues(pubUp', pubDown') /\ got' \in [Clients -> Nat]
    BY <1>3, <1>8, <1>11
  <2>4. Finish(b, r, wantUp, wantDown, pubUp, pubDown) /\ Subscribing(br[b], r.b, {})
    BY <1>3, <1>4
  <2>5. PICK S : S = {}
    OBVIOUS
  <2>6. Subscribing(br[b], r.b, S) /\ \A s \in S : s \in Clients /\ Home[s] = b
    BY <2>4, <2>5
  <2> QED
    BY <1>1, <2>2, <2>3, <2>4, <2>6, PlacesStep
<1>13. PICK sent : sent = {x \in Lower : \E k \in Pairs : k[1] = x /\ pubDown'[k] # <<>>}
  OBVIOUS
<1>14. PICK st : st = [x \in Brokers |->
                       IF x = b THEN "up" ELSE IF x \in sent THEN "coming" ELSE "none"]
  OBVIOUS
<1>15. st \in [Brokers -> Stations] /\ \A x \in Brokers : st[x] = "up" <=> x = b
  BY <1>14 DEF Stations
<1>16. GoesUp(st, b)'
  <2>1. ASSUME NEW a \in Ancestors[b], a # b PROVE st[a] = "none"
    <3>1. a \in Brokers
      BY <1>1, AncestorSteps
    <3>2. a \notin sent
      BY <1>1, <1>10, <1>13, <3>1, NoWayBack
    <3> QED
      BY <1>14, <2>1, <3>1, <3>2
  <2> QED
    BY <1>1, <1>9, <1>15, <2>1 DEF GoesUp
<1>17. ASSUME NEW x \in Brokers PROVE ReceivedAt(st, x)'
  <2>1. \A d \in Clients : got'[d] <= 1 /\ (Home[d] # b => got'[d] = 0)
    BY <1>11
  <2> QED
    BY <1>15, <2>1 DEF ReceivedAt
<1>18. ASSUME NEW x \in Lower PROVE ComesDown(st, x)'
  <2>1. x \in Brokers /\ st[x] # "down"
    BY <1>14 DEF Lower
  <2>2. st[x] = "coming" => st[Parent[x]] = "up"
    <3>1. st[x] = "coming" => x \in sent
      BY <1>14, <2>1
    <3> QED
      BY <1>1, <1>10, <1>13, <1>15, <3>1
  <2>3. ASSUME NEW k \in Pairs, k[1] = x
        PROVE  /\ st[x] = "none" => pubDown'[k] = <<>>
               /\ Len(pubDown'[k]) <= 1
               /\ st[x] = "up" => pubDown'[k] = <<>>
    <3>1. st[x] = "none" => pubDown'[k] = <<>>
      BY <1>13, <1>14, <2>1, <2>3
    <3>2. Len(pubDown'[k]) <= 1
      <4>1. Len(<<>>) = 0
        OBVIOUS
      <4> QED
        BY <1>10, <4>1
    <3>3. x = b => pubDown'[k] = <<>>
      <4>1. x \in Ancestors[x] \cap Lower
        BY <2>1, AncestorSteps
      <4>2. Parent[x] # x
        BY <2>1, <4>1, NoWayBack
      <4> QED
        BY <1>10, <2>3, <4>2
    <3> QED
      BY <1>15, <2>1, <3>1, <3>2, <3>3
  <2>4. DOMAIN <<>> = {}
    OBVIOUS
  <2> QED
    BY <2>1, <2>2, <2>3, <2>4 DEF ComesDown
<1>19. Course(st, b)'
  BY <1>1, <1>15, <1>16, <1>17, <1>18 DEF Course
<1> QED
  BY <1>12, <1>19 DEF PubInv

\* b is now at station s, and the brokers it sent something to expect it, if they
\* have had nothing yet.
Onward(st, b, s, sent) ==
  [x \in Brokers |->
     IF x = b THEN s
     ELSE IF x \in sent /\ Parent[x] = b /\ st[x] = "none" THEN "coming" ELSE st[x]]

\* The lower brokers that a publication is on its way to.
Sent == {x \in Lower : \E k \in Pairs : k[1] = x /\ pubDown[k] # <<>>}

\* A broker that has not had the publication receives and delivers it, and sends it
\* down: what has become of the clients and of the brokers below.
LEMMA OnwardBelow ==
  ASSUME Acyclic, Places, UNCHANGED pairs,
         NEW st, NEW top, Course(st, top), NEW b \in Brokers, NEW s \in {"up", "down"},
         st[b] \in {"none", "coming"},
         NEW r, Sends(br[b], r), got' = Delivered(r),
         NEW pu, NEW pd, NEW mn, NEW ms, More(b, pu, pd, mn, ms),
         \A k \in Pairs : k[1] # b => pd[k] = pubDown[k],
         NEW sent, sent = Sent'
  PROVE  LET new == Onward(st, b, s, sent)
         IN /\ new \in [Brokers -> Stations] /\ new[b] = s
            /\ \A x \in Brokers : st[x] \in {"up", "down"} /\ x # b => new[x] = st[x]
            /\ \A x \in Brokers : x # b =>
                 \/ new[x] = st[x]
                 \/ new[x] = "coming" /\ st[x] = "none" /\ x \in Lower /\ Parent[x] = b
            /\ \A x \in Brokers : OncePath(x) => ReceivedAt(new, x)'
            /\ \A x \in Lower : OncePath(x) /\ x # b /\ (Parent[x] # b \/ st[x] # "up") =>
                 ComesDown(new, x)'
<1> DEFINE new == Onward(st, b, s, sent)
<1>1. st \in [Brokers -> Stations]
  BY DEF Course
<1>2. new \in [Brokers -> Stations] /\ new[b] = s
  BY <1>1 DEF Onward, Stations
<1>3. ASSUME NEW x \in Brokers, x # b
      PROVE  /\ st[x] \in {"up", "down"} => new[x] = st[x]
             /\ \/ new[x] = st[x]
                \/ new[x] = "coming" /\ st[x] = "none" /\ x \in Lower /\ Parent[x] = b /\ x \in sent
             /\ x \in sent /\ Parent[x] = b /\ st[x] = "none" => new[x] = "coming"
  BY <1>3 DEF Onward, Sent
<1> HIDE DEF new
<1>4. \A c \in Clients : /\ got[c] \in Nat /\ got'[c] \in {got[c], got[c] + 1}
                         /\ Home[c] # b => got'[c] = got[c]
  <2> SUFFICES ASSUME NEW c \in Clients
               PROVE  /\ got[c] \in Nat /\ got'[c] \in {got[c], got[c] + 1}
                      /\ Home[c] # b => got'[c] = got[c]
    OBVIOUS
  <2> DEFINE n == Cardinality({o \in r.rout : o.to = c})
  <2>1. n \in {0, 1} /\ (Home[c] # b => n = 0)
    BY DeliveredOnce
  <2>2. got'[c] = got[c] + n /\ got[c] \in Nat
    BY DEF Delivered, Places
  <2> HIDE DEF n
  <2> QED
    BY <2>1, <2>2
<1>5. ASSUME NEW x \in Brokers, OncePath(x) PROVE ReceivedAt(new, x)'
  <2>1. ReceivedAt(st, x)
    BY <1>5 DEF Course
  <2>2. CASE x = b
    <3>1. \A c \in Clients : Home[c] = b => got'[c] <= 1
      BY <1>4, <2>1, <2>2 DEF ReceivedAt
    <3> QED
      BY <1>2, <2>2, <3>1 DEF ReceivedAt
  <2>3. CASE x # b
    <3>1. new[x] \in {"none", "coming"} => st[x] \in {"none", "coming"}
      BY <1>3, <2>3
    <3>2. \A c \in Clients : Home[c] = x => got'[c] = got[c]
      BY <1>4, <2>3
    <3> QED
      BY <2>1, <3>1, <3>2 DEF ReceivedAt
  <2> QED
    BY <2>2, <2>3
<1>6. ASSUME NEW x \in Lower, OncePath(x), x # b, Parent[x] # b \/ st[x] # "up"
      PROVE  ComesDown(new, x)'
  <2>1. ComesDown(st, x) /\ x \in Brokers /\ Parent[x] \in Brokers
    BY <1>6, PubSubAssumption DEF Course, Lower
  <2>2. CASE Parent[x] # b
    <3>1. new[x] = st[x]
      BY <1>3, <1>6, <2>1, <2>2
    <3>2. st[Parent[x]] \in {"up", "down"} => new[Parent[x]] \in {"up", "down"}
      BY <1>3, <2>1, <2>2
    <3>3. ASSUME NEW k \in Pairs, k[1] = x PROVE pubDown'[k] = pubDown[k]
      BY <1>6, <2>2, <3>3 DEF More, Above
    <3> QED
      BY <2>1, <3>1, <3>2, <3>3 DEF ComesDown
  <2>3. CASE Parent[x] = b /\ st[x] # "up"
    <3>1. st[x] = "none"
      BY <1>1, <2>1, <2>3 DEF ComesDown, Stations
    <3>2. /\ new[x] \in {"none", "coming"} /\ (x \in sent => new[x] = "coming")
          /\ new[Parent[x]] \in {"up", "down"}
      BY <1>2, <1>3, <1>6, <2>1, <2>3, <3>1
    <3>3. ASSUME NEW k \in Pairs, k[1] = x
          PROVE  /\ Len(pubDown'[k]) <= 1
                 /\ new[x] = "none" => pubDown'[k] = <<>>
      <4>1. pd[k] = <<>>
        BY <1>6, <2>1, <3>1, <3>3 DEF ComesDown
      <4>2. pubDown'[k] = <<>> \/ pubDown'[k] = <<ms>>
        BY <4>1 DEF More
      <4>3. Len(<<>>) = 0 /\ Len(<<ms>>) = 1
        OBVIOUS
      <4>4. pubDown'[k] # <<>> => x \in sent
        BY <3>3 DEF Sent
      <4>5. Len(pubDown'[k]) <= 1
        <5>1. CASE pubDown'[k] = <<>>
          BY <4>3, <5>1
        <5>2. CASE pubDown'[k] = <<ms>>
          BY <4>3, <5>2
        <5> QED
          BY <4>2, <5>1, <5>2
      <4> QED
        BY <3>2, <4>4, <4>5
    <3> QED
      BY <3>2, <3>3 DEF ComesDown
  <2> QED
    BY <1>6, <2>2, <2>3
<1>7. /\ new \in [Brokers -> Stations] /\ new[b] = s
      /\ \A x \in Brokers : st[x] \in {"up", "down"} /\ x # b => new[x] = st[x]
      /\ \A x \in Brokers : x # b =>
           \/ new[x] = st[x]
           \/ new[x] = "coming" /\ st[x] = "none" /\ x \in Lower /\ Parent[x] = b
      /\ \A x \in Brokers : OncePath(x) => ReceivedAt(new, x)'
      /\ \A x \in Lower : OncePath(x) /\ x # b /\ (Parent[x] # b \/ st[x] # "up") =>
           ComesDown(new, x)'
  BY <1>2, <1>3, <1>5, <1>6
<1> QED
  BY <1>7 DEF new

\* A publication goes up.
LEMMA PubUpPub ==
  ASSUME Acyclic, PubInv, NEW k \in Pairs, ReceivePubUp(k)
  PROVE  PubInv'
<1> DEFINE b == Above(k)
           m == Head(pubUp[k])
           r == s_on_subS_msg(br[b], m.topic, m.name, m.pathv)
           pu == [pubUp EXCEPT ![k] = Tail(@)]
<1>1. Places /\ b \in Brokers /\ k[1] \in Lower /\ k[1] \in Brokers /\ Parent[k[1]] = b
  BY PubSubAssumption DEF PubInv, Pairs, Lower, Above
<1>2. /\ pubUp[k] # <<>> /\ UNCHANGED pairs /\ got' = Delivered(r)
      /\ Finish(b, r, wantUp, wantDown, pu, pubDown)
  BY DEF ReceivePubUp
<1>3. PICK st, top : Course(st, top)
  BY DEF PubInv
<1>4. GoesUp(st, top) /\ st \in [Brokers -> Stations] /\ top \in Brokers
  BY <1>3 DEF Course
<1>5. k[1] = top /\ st[top] = "up" /\ Len(pubUp[k]) = 1 /\ m.pathv = k
  BY <1>2, <1>4 DEF GoesUp
<1>6. \A j \in Pairs : pubUp[j] # <<>> => j = k
  BY <1>2, <1>4 DEF GoesUp
<1>7. b # top /\ b \in Ancestors[top] /\ st[b] = "none"
  <2>1. b \in Ancestors[top]
    BY <1>1, <1>5, AncestorSteps
  <2>2. b # top
    BY <1>1, <1>5, AncestorSteps, NoWayBack
  <2> QED
    BY <1>4, <2>1, <2>2 DEF GoesUp
<1>8. \A j \in Pairs : IsSeq(pubUp[j]) /\ IsSeq(pubDown[j])
  BY <1>1 DEF Places, Queues
<1>9. /\ DOMAIN pubUp = Pairs /\ DOMAIN pu = Pairs
      /\ \A j \in Pairs : pu[j] = IF j = k THEN Tail(pubUp[k]) ELSE pubUp[j]
  BY <1>1 DEF Places
<1>10. Tail(pubUp[k]) = <<>>
  <2>1. PICK q, S : q = pubUp[k] /\ q \in Seq(S) /\ Len(q) = 1
    BY <1>5, <1>8 DEF IsSeq
  <2>2. q = <<q[1]>>
    BY <2>1
  <2>3. \A x : Tail(<<x>>) = <<>>
    OBVIOUS
  <2> QED
    BY <2>1, <2>2, <2>3
<1>11. \A j \in Pairs : pu[j] = <<>>
  BY <1>6, <1>9, <1>10
<1>12. Queues(pu, pubDown)
  BY <1>8, <1>11, ShortSeqs DEF Queues
<1>13. /\ Subscribing(br[b], r.b, {}) /\ Sends(br[b], r)
       /\ \E mn, ms : Speaks(r, mn, ms) /\ mn.pathv = br[b].broker_id /\ ms.pathv = m.pathv
  <2> DEFINE x == br[b]
  <2>1. Shape(x) /\ TrieCounts(x)
    BY <1>1 DEF Places
  <2> HIDE DEF x
  <2>2. LET q == s_on_subS_msg(x, m.topic, m.name, m.pathv)
        IN Subscribing(x, q.b, {}) /\ Sends(x, q)
           /\ \E mn, ms : Speaks(q, mn, ms) /\ mn.pathv = x.broker_id /\ ms.pathv = m.pathv
    BY <2>1, PublicationsGoOn
  <2> QED
    BY <2>2 DEF x
<1> HIDE DEF b, r, pu
<1>14. PICK mn, ms : Speaks(r, mn, ms) /\ mn.pathv = br[b].broker_id /\ ms.pathv = m.pathv
  BY <1>13
<1>15. More(b, pu, pubDown, mn, ms)
  BY <1>2, <1>12, <1>14, FinishSpeaks
<1>16. \A x : <<>> \o <<x>> = <<x>> /\ <<x>> # <<>> /\ Len(<<x>>) = 1 /\ Head(<<x>>) = x
  OBVIOUS
<1>17. ASSUME NEW j \in Pairs, pubUp'[j] # <<>>
       PROVE  j = Present(b) /\ j[1] = b /\ b \in Lower /\ Connected(j)
              /\ Len(pubUp'[j]) = 1 /\ Head(pubUp'[j]).pathv = j
  <2>1. j = Present(b) /\ pubUp'[j] = <<mn>>
    BY <1>11, <1>15, <1>16, <1>17 DEF More
  <2>2. j[1] = b /\ j[2] = pairs[b] /\ b \in Lower /\ j[2] \in 1 .. MaxPairs[b]
    BY <2>1 DEF Present, Pairs
  <2>3. MaxPairs[b] \in Nat /\ pairs[b] \in Nat
    BY <1>1, <2>2, PubSubAssumption DEF Places
  <2>4. br[b].broker_id = j
    BY <1>1, <2>1, <2>2, <2>3 DEF Places
  <2>5. Connected(j)
    BY <2>2, <2>3 DEF Connected
  <2> QED
    BY <1>14, <1>16, <2>1, <2>2, <2>4, <2>5
<1>18. got' \in [Clients -> Nat]
  <2>1. ASSUME NEW d \in Clients PROVE Delivered(r)[d] \in Nat
    BY <1>1, <1>13, DeliveredOnce DEF Delivered, Places
  <2> QED
    BY <1>2, <2>1 DEF Delivered
<1>19. Places'
  <2>1. ASSUME NEW j \in Pairs, pubUp'[j] # <<>> \/ pubDown'[j] # <<>> PROVE Connected(j)
    BY <1>1, <1>15, <1>17, <2>1 DEF More, Places
  <2>2. Queues(pubUp', pubDown')
    BY <1>15 DEF More
  <2>3. PICK S : S = {}
    OBVIOUS
  <2>4. Subscribing(br[b], r.b, S) /\ \A s \in S : s \in Clients /\ Home[s] = b
    BY <1>13, <2>3
  <2> QED
    BY <1>1, <1>2, <1>18, <2>1, <2>2, <2>4, PlacesStep
<1>20. PICK sent : sent = Sent'
  OBVIOUS
<1>21. PICK new : new = Onward(st, b, "up", sent)
  OBVIOUS
<1>22. PICK s : s = "up"
  OBVIOUS
<1>23. /\ new \in [Brokers -> Stations] /\ new[b] = "up"
       /\ \A x \in Brokers : st[x] \in {"up", "down"} /\ x # b => new[x] = st[x]
       /\ \A x \in Brokers : x # b =>
            \/ new[x] = st[x]
            \/ new[x] = "coming" /\ st[x] = "none" /\ x \in Lower /\ Parent[x] = b
       /\ \A x \in Brokers : OncePath(x) => ReceivedAt(new, x)'
       /\ \A x \in Lower : OncePath(x) /\ x # b /\ (Parent[x] # b \/ st[x] # "up") =>
            ComesDown(new, x)'
  <2>1. s \in {"up", "down"} /\ st[b] \in {"none", "coming"} /\ new = Onward(st, b, s, sent)
    BY <1>7, <1>21, <1>22
  <2>2. PICK pd : pd = pubDown
    OBVIOUS
  <2>3. More(b, pu, pd, mn, ms) /\ \A j \in Pairs : j[1] # b => pd[j] = pubDown[j]
    BY <1>15, <2>2
  <2> QED
    BY <1>1, <1>2, <1>3, <1>13, <1>20, <1>22, <2>1, <2>3, OnwardBelow
<1>24. GoesUp(new, b)'
  <2>1. ASSUME NEW a \in Ancestors[b], a # b PROVE new[a] = "none"
    <3>1. a \in Brokers /\ a \in Ancestors[top]
      BY <1>1, <1>4, <1>7, AncestorSteps
    <3>2. a # top
      <4>1. Ancestors[Parent[top]] = Ancestors[b]
        BY <1>1, <1>5
      <4> QED
        BY <1>1, <1>5, <4>1, NotAboveItself
    <3>3. st[a] = "none"
      BY <1>4, <3>1, <3>2 DEF GoesUp
    <3>4. a \in Lower => Parent[a] # b
      BY <1>1, NoWayBack
    <3> QED
      BY <1>23, <2>1, <3>1, <3>3, <3>4
  <2>2. ASSUME NEW x \in Brokers, new[x] = "up", x # b
        PROVE  x \in Lower /\ new[Parent[x]] = "up"
    <3>1. st[x] = "up"
      BY <1>23, <2>2
    <3>2. CASE x = top
      BY <1>1, <1>5, <1>23, <3>2
    <3>3. CASE x # top
      <4>1. x \in Lower /\ st[Parent[x]] = "up" /\ Parent[x] \in Brokers
        BY <1>4, <3>1, <3>3, PubSubAssumption DEF GoesUp
      <4> QED
        BY <1>7, <1>23, <4>1
    <3> QED
      BY <3>2, <3>3
  <2>3. \A j, i \in Pairs : pubUp'[j] # <<>> /\ pubUp'[i] # <<>> => j = i
    BY <1>17
  <2> QED
    BY <1>17, <1>23, <2>1, <2>2, <2>3 DEF GoesUp
<1>25. ASSUME NEW x \in Lower, OncePath(x) PROVE ComesDown(new, x)'
  <2>1. ComesDown(st, x) /\ x \in Brokers
    BY <1>3, <1>25 DEF Course, Lower
  <2>2. CASE x = b
    <3>1. ASSUME NEW j \in Pairs, j[1] = x PROVE pubDown'[j] = <<>>
      <4>1. pubDown[j] = <<>>
        BY <1>7, <2>1, <2>2, <3>1 DEF ComesDown
      <4>2. Above(j) # b
        BY <2>1, <2>2, <3>1, AncestorSteps, NoWayBack DEF Above
      <4> QED
        BY <1>15, <4>1, <4>2 DEF More
    <3>2. DOMAIN <<>> = {}
      OBVIOUS
    <3>3. new[x] = "up"
      BY <1>23, <2>2
    <3> QED
      BY <3>1, <3>2, <3>3 DEF ComesDown
  <2>3. CASE x # b /\ Parent[x] = b /\ st[x] = "up"
    <3>1. x = top /\ new[x] = "up"
      BY <1>4, <1>7, <1>23, <2>1, <2>3 DEF GoesUp
    <3>2. ASSUME NEW j \in Pairs, j[1] = x, NEW i \in DOMAIN pubDown'[j]
          PROVE  pubDown'[j][i].pathv = j
      <4>1. CASE pubDown'[j] = pubDown[j]
        BY <2>1, <2>3, <3>2, <4>1 DEF ComesDown
      <4>2. CASE pubDown'[j] = pubDown[j] \o <<ms>> /\ Connected(j)
        <5>1. Connected(k)
          BY <1>1, <1>2 DEF Places
        <5>2. j = k
          BY <1>1, <1>5, <1>25, <3>1, <3>2, <4>2, <5>1, OnceUp
        <5>3. ms.pathv = j
          BY <1>5, <1>14, <5>2
        <5>4. IsSeq(pubDown[j])
          BY <1>8
        <5>5. \A n \in DOMAIN pubDown[j] : pubDown[j][n].pathv = j
          BY <2>1, <2>3, <3>2 DEF ComesDown
        <5>6. \/ (pubDown[j] \o <<ms>>)[i] = ms
              \/ i \in DOMAIN pubDown[j] /\ (pubDown[j] \o <<ms>>)[i] = pubDown[j][i]
          BY <3>2, <4>2, <5>4, Concat
        <5> QED
          BY <4>2, <5>3, <5>5, <5>6
      <4> QED
        BY <1>15, <4>1, <4>2 DEF More
    <3> QED
      BY <3>1, <3>2 DEF ComesDown
  <2>4. CASE x # b /\ (Parent[x] # b \/ st[x] # "up")
    BY <1>23, <1>25, <2>4
  <2> QED
    BY <2>2, <2>3, <2>4
<1>26. \A x : OncePath(x)' <=> OncePath(x)
  BY <1>2 DEF OncePath
<1>27. Course(new, b)'
  BY <1>1, <1>23, <1>24, <1>25, <1>26 DEF Course
<1> QED
  BY <1>19, <1>27 DEF PubInv

\* A publication goes down.
LEMMA PubDownPub ==
  ASSUME Acyclic, PubInv, NEW k \in Pairs, ReceivePubDown(k)
  PROVE  PubInv'
<1> DEFINE b == k[1]
           m == Head(pubDown[k])
           r == s_on_subN_msg(br[b], m.topic, m.name, m.pathv)
           pd == [pubDown EXCEPT ![k] = Tail(@)]
<1>1. /\ Places /\ b \in Brokers /\ b \in Lower /\ Connected(k)
      /\ Shape(br[b]) /\ TrieCounts(br[b])
  BY PubSubAssumption DEF PubInv, Pairs, Lower, Places, ReceivePubDown
<1>2. /\ pubDown[k] # <<>> /\ UNCHANGED pairs /\ got' = Delivered(r)
      /\ Finish(b, r, wantUp, wantDown, pubUp, pd)
  BY DEF ReceivePubDown
<1>3. PICK st, top : Course(st, top)
  BY DEF PubInv
<1>4. GoesUp(st, top) /\ st \in [Brokers -> Stations] /\ top \in Brokers
  BY <1>3 DEF Course
<1>5. \A j \in Pairs : IsSeq(pubUp[j]) /\ IsSeq(pubDown[j])
  BY <1>1 DEF Places, Queues
<1>6. \A j \in Pairs : pd[j] = IF j = k THEN Tail(pubDown[k]) ELSE pubDown[j]
  BY <1>1 DEF Places
<1>7. PICK q, T : q = pubDown[k] /\ q \in Seq(T) /\ q # <<>>
  BY <1>2, <1>5 DEF IsSeq
<1>8. /\ Tail(q) \in Seq(T)
      /\ \A i \in DOMAIN Tail(q) : i + 1 \in DOMAIN q /\ Tail(q)[i] = q[i + 1]
      /\ 1 \in DOMAIN q /\ Head(q) = q[1]
      /\ Len(q) <= 1 => Tail(q) = <<>>
  <2>1. Tail(q) \in Seq(T) /\ Len(Tail(q)) = Len(q) - 1 /\ Len(q) \in Nat /\ Len(q) # 0
    BY <1>7
  <2>2. \A i \in DOMAIN Tail(q) : i + 1 \in DOMAIN q /\ Tail(q)[i] = q[i + 1]
    BY <1>7
  <2>3. 1 \in DOMAIN q /\ Head(q) = q[1]
    BY <1>7, <2>1
  <2>4. Len(q) <= 1 => Tail(q) = <<>>
    <3>1. Len(q) <= 1 => q = <<q[1]>>
      BY <1>7, <2>1
    <3>2. \A x : Tail(<<x>>) = <<>>
      OBVIOUS
    <3> QED
      BY <3>1, <3>2
  <2> QED
    BY <2>1, <2>2, <2>3, <2>4
<1>9. Queues(pubUp, pd)
  BY <1>5, <1>6, <1>7, <1>8, SeqIsSeq DEF Queues
<1>10. /\ Subscribing(br[b], r.b, {}) /\ Sends(br[b], r)
       /\ \A o \in r.ps : o.sock # "pubN"
       /\ m.pathv = br[b].broker_id => r = Nothing(br[b])
       /\ \E mn, ms : Speaks(r, mn, ms)
  <2> DEFINE x == br[b]
  <2>1. Shape(x) /\ TrieCounts(x)
    BY <1>1
  <2> HIDE DEF x
  <2>2. LET p == s_on_subN_msg(x, m.topic, m.name, m.pathv)
        IN Subscribing(x, p.b, {}) /\ Sends(x, p)
           /\ (\A o \in p.ps : o.sock # "pubN")
           /\ (m.pathv = x.broker_id => p = Nothing(x))
           /\ \E mn, ms : Speaks(p, mn, ms)
    BY <2>1, PublicationsGoOn
  <2> QED
    BY <2>2 DEF x
<1>11. m = q[1]
  BY <1>7, <1>8
<1> HIDE DEF b, m, r, pd
<1>12. PICK mn, ms : Speaks(r, mn, ms)
  BY <1>10
<1>13. More(b, pubUp, pd, mn, ms)
  BY <1>2, <1>9, <1>12, FinishSpeaks
<1>14. \A j \in Pairs : pubUp'[j] = pubUp[j]
  BY <1>2, <1>9, <1>10, FinishSilent
<1>15. k[1] = b /\ \A j \in Pairs : j[1] # b => pd[j] = pubDown[j]
  BY <1>6 DEF b
<1>16. \A d \in Clients : /\ got'[d] \in {got[d], got[d] + 1} /\ got[d] \in Nat
                          /\ Home[d] # b => got'[d] = got[d]
  <2> SUFFICES ASSUME NEW d \in Clients
               PROVE  /\ got'[d] \in {got[d], got[d] + 1} /\ got[d] \in Nat
                      /\ Home[d] # b => got'[d] = got[d]
    OBVIOUS
  <2> DEFINE n == Cardinality({o \in r.rout : o.to = d})
  <2>1. n \in {0, 1} /\ (Home[d] # b => n = 0)
    BY <1>1, <1>10, DeliveredOnce
  <2>2. got'[d] = got[d] + n /\ got[d] \in Nat
    BY <1>1, <1>2 DEF Delivered, Places
  <2> HIDE DEF n
  <2> QED
    BY <2>1, <2>2
<1>17. Places'
  <2>1. \A j \in Pairs : pubUp'[j] # <<>> \/ pubDown'[j] # <<>> => Connected(j)
    BY <1>1, <1>6, <1>13, <1>14 DEF More, Places
  <2>2. Queues(pubUp', pubDown')
    BY <1>13 DEF More
  <2>3. got' \in [Clients -> Nat]
    <3>1. got' = [d \in Clients |-> got'[d]]
      BY <1>2 DEF Delivered
    <3>2. \A d \in Clients : got'[d] \in Nat
      BY <1>16
    <3> QED
      BY <3>1, <3>2
  <2>4. PICK S : S = {}
    OBVIOUS
  <2>5. Subscribing(br[b], r.b, S) /\ \A s \in S : s \in Clients /\ Home[s] = b
    BY <1>10, <2>4
  <2> QED
    BY <1>1, <1>2, <2>1, <2>2, <2>3, <2>5, PlacesStep
<1>18. \A x : OncePath(x)' <=> OncePath(x)
  BY <1>2 DEF OncePath
<1>19. Parent[b] # b /\ Parent[b] \in Brokers
  BY <1>1, AncestorSteps, NoWayBack, PubSubAssumption
<1>20. CASE ~OncePath(b)
  <2>1. ASSUME NEW x \in Lower, OncePath(x) PROVE x # b /\ Parent[x] # b /\ x \in Brokers
    BY <1>1, <1>20, <2>1, OnceUp DEF Lower
  <2>2. ASSUME NEW x \in Lower, OncePath(x) PROVE ComesDown(st, x)'
    <3>1. ComesDown(st, x)
      BY <1>3, <2>1, <2>2 DEF Course
    <3>2. \A j \in Pairs : j[1] = x => pubDown'[j] = pubDown[j]
      BY <1>13, <1>15, <2>1, <2>2 DEF More, Above
    <3> QED
      BY <3>1, <3>2 DEF ComesDown
  <2>3. ASSUME NEW x \in Brokers, OncePath(x) PROVE ReceivedAt(st, x)'
    <3>1. ReceivedAt(st, x)
      BY <1>3, <2>3 DEF Course
    <3>2. \A d \in Clients : Home[d] = x => got'[d] = got[d]
      BY <1>16, <1>20, <2>3
    <3> QED
      BY <3>1, <3>2 DEF ReceivedAt
  <2>4. GoesUp(st, top)'
    BY <1>4, <1>14 DEF GoesUp
  <2>5. Course(st, top)'
    BY <1>4, <1>18, <2>2, <2>3, <2>4 DEF Course
  <2> QED
    BY <1>17, <2>5 DEF PubInv
<1>21. ASSUME OncePath(b)
       PROVE  /\ k = <<b, 1>> /\ br[b].broker_id = k /\ ComesDown(st, b)
              /\ st[b] \in {"up", "coming"}
              /\ \A j \in Pairs : j[1] = b /\ pubDown[j] # <<>> => j = k
  <2>1. k = <<b, 1>> /\ br[b].broker_id = k
    BY <1>1, <1>15, <1>21, OnceUp
  <2>2. ComesDown(st, b)
    BY <1>1, <1>3, <1>21 DEF Course
  <2>3. st[b] \in {"up", "coming"}
    BY <1>1, <1>2, <1>4, <1>15, <2>2 DEF ComesDown, Stations
  <2>4. ASSUME NEW j \in Pairs, j[1] = b, pubDown[j] # <<>> PROVE j = k
    <3>1. Connected(j)
      BY <1>1, <2>4 DEF Places
    <3> QED
      BY <1>1, <1>21, <2>1, <2>4, <3>1, OnceUp
  <2> QED
    BY <2>1, <2>2, <2>3, <2>4
<1>22. CASE OncePath(b) /\ st[b] = "up"
  <2>1. \A j \in Pairs : j[1] = b => \A i \in DOMAIN pubDown[j] : pubDown[j][i].pathv = j
    BY <1>21, <1>22 DEF ComesDown
  <2>2. m.pathv = br[b].broker_id
    BY <1>7, <1>8, <1>11, <1>15, <1>21, <1>22, <2>1
  <2>3. r = Nothing(br[b])
    BY <1>10, <2>2
  <2>4. r.ps = {} /\ r.rout = {}
    BY <2>3 DEF Nothing, Result
  <2>5. \A j \in Pairs : pubDown'[j] = pd[j]
    BY <1>2, <1>9, <2>4, FinishSilent
  <2>6. \A d \in Clients : got'[d] = got[d]
    <3>1. \A d : {o \in r.rout : o.to = d} = {}
      BY <2>4
    <3>2. Cardinality({}) = 0
      BY FS_EmptySet
    <3> QED
      BY <1>2, <1>16, <3>1, <3>2 DEF Delivered
  <2>7. ASSUME NEW x \in Lower, OncePath(x) PROVE ComesDown(st, x)'
    <3>1. ComesDown(st, x)
      BY <1>3, <2>7 DEF Course
    <3>2. CASE x # b
      <4>1. \A j \in Pairs : j[1] = x => pubDown'[j] = pubDown[j]
        BY <1>15, <2>5, <3>2
      <4> QED
        BY <3>1, <4>1 DEF ComesDown
    <3>3. CASE x = b
      <4>1. ASSUME NEW j \in Pairs, j[1] = b, NEW i \in DOMAIN pubDown'[j]
            PROVE  pubDown'[j][i].pathv = j
        <5>1. CASE j = k
          <6>1. pubDown'[j] = Tail(q)
            BY <1>6, <1>7, <2>5, <5>1
          <6>2. i + 1 \in DOMAIN q /\ Tail(q)[i] = q[i + 1]
            BY <1>8, <4>1, <6>1
          <6> QED
            BY <1>7, <2>1, <4>1, <5>1, <6>1, <6>2
        <5>2. CASE j # k
          BY <1>6, <2>1, <2>5, <4>1, <5>2
        <5> QED
          BY <5>1, <5>2
      <4> QED
        BY <1>22, <3>3, <4>1 DEF ComesDown
    <3> QED
      BY <3>2, <3>3
  <2>8. \A x \in Brokers : OncePath(x) => ReceivedAt(st, x)'
    BY <1>3, <2>6 DEF Course, ReceivedAt
  <2>9. GoesUp(st, top)'
    BY <1>4, <1>14 DEF GoesUp
  <2>10. Course(st, top)'
    BY <1>4, <1>18, <2>7, <2>8, <2>9 DEF Course
  <2> QED
    BY <1>17, <2>10 DEF PubInv
<1>23. CASE OncePath(b) /\ st[b] = "coming"
  <2>1. PICK sent : sent = Sent'
    OBVIOUS
  <2>2. PICK s : s = "down"
    OBVIOUS
  <2>3. PICK new : new = Onward(st, b, s, sent)
    OBVIOUS
  <2>4. /\ new \in [Brokers -> Stations] /\ new[b] = "down"
        /\ \A x \in Brokers : st[x] \in {"up", "down"} /\ x # b => new[x] = st[x]
        /\ \A x \in Brokers : x # b =>
             \/ new[x] = st[x]
             \/ new[x] = "coming" /\ st[x] = "none" /\ x \in Lower /\ Parent[x] = b
        /\ \A x \in Brokers : OncePath(x) => ReceivedAt(new, x)'
        /\ \A x \in Lower : OncePath(x) /\ x # b /\ (Parent[x] # b \/ st[x] # "up") =>
             ComesDown(new, x)'
    <3>1. s \in {"up", "down"} /\ st[b] \in {"none", "coming"}
      BY <1>23, <2>2
    <3>2. PICK pu : pu = pubUp
      OBVIOUS
    <3>3. More(b, pu, pd, mn, ms)
      BY <1>13, <3>2
    <3> QED
      BY <1>1, <1>2, <1>3, <1>10, <1>15, <2>1, <2>2, <2>3, <3>1, <3>3, OnwardBelow
  <2>5. b # top => b \notin Ancestors[top]
    BY <1>4, <1>23 DEF GoesUp
  <2>6. GoesUp(new, top)'
    <3>1. ASSUME NEW a \in Ancestors[top], a # top PROVE new[a] = "none"
      <4>1. a \in Brokers /\ st[a] = "none" /\ Ancestors[a] \subseteq Ancestors[top]
        BY <1>4, <3>1, AncestorSteps DEF GoesUp
      <4>2. ASSUME a \in Lower, Parent[a] = b PROVE FALSE
        <5>1. b \in Ancestors[top]
          BY <1>4, <4>2, AncestorSteps
        <5>2. b = top
          BY <2>5, <5>1
        <5> QED
          BY <1>1, <4>2, <5>2, NoWayBack
      <4> QED
        BY <1>23, <2>4, <4>1, <4>2
    <3>2. ASSUME NEW x \in Brokers, new[x] = "up", x # top
          PROVE  x \in Lower /\ new[Parent[x]] = "up"
      <4>1. st[x] = "up"
        BY <2>4, <3>2
      <4>2. x \in Lower /\ st[Parent[x]] = "up" /\ Parent[x] \in Brokers
        BY <1>4, <3>2, <4>1, PubSubAssumption DEF GoesUp
      <4> QED
        BY <1>23, <2>4, <4>2
    <3>3. st[top] = "up" => new[top] = "up"
      BY <1>4, <1>23, <2>4
    <3> QED
      BY <1>4, <1>14, <3>1, <3>2, <3>3 DEF GoesUp
  <2>7. ASSUME NEW x \in Lower, OncePath(x) PROVE ComesDown(new, x)'
    <3>1. CASE x = b
      <4>1. ASSUME NEW j \in Pairs, j[1] = b PROVE pubDown'[j] = <<>>
        <5>1. pd[j] = <<>>
          <6>1. Len(pubDown[k]) <= 1
            BY <1>15, <1>21, <1>23 DEF ComesDown
          <6> QED
            BY <1>6, <1>7, <1>8, <1>21, <1>23, <4>1, <6>1
        <5>2. Above(j) # b
          BY <1>19, <4>1 DEF Above
        <5> QED
          BY <1>13, <5>1, <5>2 DEF More
      <4>2. new[Parent[b]] \in {"up", "down"}
        BY <1>19, <1>21, <1>23, <2>4 DEF ComesDown
      <4> QED
        BY <2>4, <3>1, <4>1, <4>2 DEF ComesDown
    <3>2. CASE x # b /\ Parent[x] = b /\ st[x] = "up"
      <4>1. x \in Brokers
        BY DEF Lower
      <4>2. x = top
        BY <1>4, <1>23, <3>2, <4>1 DEF GoesUp
      <4>3. b \in Ancestors[top] /\ b # top
        BY <3>2, <4>1, <4>2, AncestorSteps
      <4> QED
        BY <2>5, <4>3
    <3>3. CASE x # b /\ (Parent[x] # b \/ st[x] # "up")
      BY <2>4, <2>7, <3>3
    <3> QED
      BY <3>1, <3>2, <3>3
  <2>8. Course(new, top)'
    BY <1>4, <1>18, <2>4, <2>6, <2>7 DEF Course
  <2> QED
    BY <1>17, <2>8 DEF PubInv
<1> QED
  BY <1>20, <1>21, <1>22, <1>23

\* Every step keeps publications on course.
LEMMA NextPub == Acyclic /\ PubInv /\ [Next]_vars => PubInv'
<1> SUFFICES ASSUME Acyclic, PubInv, [Next]_vars PROVE PubInv'
  OBVIOUS
<1>1. ASSUME NEW c \in Clients, Sub(c) \/ Unsub(c) \/ Leave(c) PROVE PubInv'
  BY <1>1, ClientPub
<1>2. ASSUME NEW c \in Publishers, Publish(c) PROVE PubInv'
  BY <1>2, PublishPub, PubSubAssumption
<1>3. ASSUME NEW b \in Lower, Regok(b) PROVE PubInv'
  BY <1>3, RegokPub
<1>4. ASSUME NEW k \in Pairs, Receive(k) PROVE PubInv'
  BY <1>4, WantPub, PubUpPub, PubDownPub DEF Receive
<1>5. CASE UNCHANGED vars
  <2>1. /\ br' = br /\ pairs' = pairs /\ pubUp' = pubUp /\ pubDown' = pubDown /\ got' = got
    BY <1>5 DEF vars, links
  <2>2. Places'
    BY <2>1 DEF PubInv, Places, Present, Connected, Queues
  <2>3. PICK st, top : Course(st, top)
    BY DEF PubInv
  <2>4. Course(st, top)'
    BY <2>1, <2>3 DEF Course, GoesUp, ReceivedAt, ComesDown, OncePath
  <2> QED
    BY <2>2, <2>4 DEF PubInv
<1> QED
  BY <1>1, <1>2, <1>3, <1>4, <1>5 DEF Next

\* Where no broker has registered again, a client has a publication once at most.
LEMMA PubInvAtMostOnce == PubInv => AtMostOnce
<1> SUFFICES ASSUME PubInv, NEW c \in Clients, got[c] > 1
             PROVE  \E b \in Ancestors[Home[c]] \ {Root} : pairs[b] > 1
  BY DEF AtMostOnce
<1>1. PICK st, top : Course(st, top)
  BY DEF PubInv
<1>2. Home[c] \in Brokers /\ got[c] \in Nat /\ pairs \in [Lower -> Nat]
  BY PubSubAssumption DEF PubInv, Places
<1>3. ~OncePath(Home[c])
  BY <1>1, <1>2 DEF Course, ReceivedAt
<1>4. PICK a \in Ancestors[Home[c]] \cap Lower : ~(pairs[a] <= 1)
  BY <1>3 DEF OncePath
<1>5. a \in Ancestors[Home[c]] \ {Root} /\ pairs[a] \in Nat
  BY <1>2, <1>4 DEF Lower
<1> QED
  BY <1>4, <1>5

\* No client receives a publication twice, its own included (s_cb_pub,
\* s_on_subS_msg and s_on_subN_msg, each of which delivers and sends on, and the
\* test of the path that stops what comes back down), unless a broker above it has
\* registered again: for any tree, clients and topics, however often they
\* subscribe, take back, leave and publish.
THEOREM NoPublicationTwice == ASSUME Acyclic PROVE Spec => []AtMostOnce
<1>1. Init => PubInv
  BY InitPub, PubSubAssumption
<1>2. PubInv /\ [Next]_vars => PubInv'
  BY NextPub
<1>3. PubInv => AtMostOnce
  BY PubInvAtMostOnce
<1> QED
  BY <1>1, <1>2, <1>3, PTL DEF Spec

(***************************************************************************)
(* Subscriptions.                                                          *)
(***************************************************************************)
\* No broker has registered again; no client has left.
PairsOnce == \A b \in Lower : pairs[b] <= 1
AllHere == \A c \in Clients : HasLocal(br[Home[c]], Key(c))

\* Who of b's clients, and whether a lower broker and the higher one, want topic t.
Here(b, t) == {c \in Clients : On(br[b], c, t)}
Local(b, t) == Cardinality(Here(b, t))
Below(b, t) == IF pubS[b][t] = {} THEN 0 ELSE 1
FromAbove(b, t) == IF \E k \in Pairs : k[1] = b /\ t \in pubN[k] THEN 1 ELSE 0

\* How many that makes for the broker above b, and for those below it.
ForNorth(b, t) == Local(b, t) + Below(b, t)
ForSouth(b, t) == Local(b, t) + Below(b, t) + FromAbove(b, t)

\* The last that q says of topic t is cmd; q says nothing of t.
LastSays(q, t, cmd) ==
  \E i \in DOMAIN q : /\ q[i].topic = t /\ q[i].cmd = cmd
                      /\ \A j \in DOMAIN q : j > i => q[j].topic # t
NotOf(q, t) == \A i \in DOMAIN q : q[i].topic # t

\* The sender of q counts topic t n times; the receiver has it when x is in H.  When
\* q has arrived it will have it just if n is not 0.
Arrives(q, t, x, H, n) ==
  \/ LastSays(q, t, IF n > 0 THEN "SUB" ELSE "UNSUB")
  \/ NotOf(q, t) /\ (x \in H <=> n > 0)

Wants == [cmd : {"SUB", "UNSUB"}, topic : SubTopics]

\* The sockets' types, with the pipes wu and wd, the topics pS and pN of the XPUB
\* sockets and the counts sS and sN of the XSUB sockets.
Typed(wu, wd, pS, pN, sS, sN) ==
  /\ sS \in [Brokers -> [SubTopics -> Nat]] /\ sN \in [Pairs -> [SubTopics -> Nat]]
  /\ pS \in [Brokers -> [SubTopics -> SUBSET Pairs]] /\ pN \in [Pairs -> SUBSET SubTopics]
  /\ wu \in [Pairs -> Seq(Wants)] /\ wd \in [Pairs -> Seq(Wants)]
  /\ \A b \in Brokers : IsFiniteSet({t \in SubTopics : sS[b][t] > 0})
  /\ \A b \in Brokers, t \in SubTopics : \A k \in pS[b][t] : Above(k) = b

\* A pipe brings to its other end what this end counts.
InStep(wu, wd, pS, pN, sS, sN) ==
  \A k \in Pairs, t \in SubTopics :
    IF Connected(k)
    THEN /\ Arrives(wu[k], t, k, pS[Above(k)][t], sN[k][t])
         /\ Arrives(wd[k], t, t, pN[k], sS[Above(k)][t])
    ELSE /\ wu[k] = <<>> /\ sN[k][t] = 0 /\ k \notin pS[Above(k)][t]
         /\ wd[k] = <<>> /\ t \notin pN[k]

Sockets ==
  /\ Typed(wantUp, wantDown, pubS, pubN, subS, subN)
  /\ InStep(wantUp, wantDown, pubS, pubN, subS, subN)
  /\ \A b \in Brokers : br[b].north = (b # Root /\ pairs[b] > 0)

\* No socket counts more than is wanted, unless clients have left;
AtMost ==
  PairsOnce /\ AllHere =>
    \A b \in Brokers, t \in SubTopics :
      /\ subS[b][t] <= ForSouth(b, t)
      /\ \A k \in Pairs : k[1] = b => subN[k][t] <= ForNorth(b, t)

\* nor less, but for what a broker could not send on and what was taken back astray.
AtLeast ==
  PairsOnce =>
    \A b \in Brokers, t \in SubTopics : <<b, t>> \notin stray =>
      /\ subS[b][t] >= ForSouth(b, t)
      /\ b \in Lower /\ <<b, t>> \notin late =>
           /\ pairs[b] = 0 => ForNorth(b, t) = 0
           /\ \A k \in Pairs : k[1] = b /\ Connected(k) => subN[k][t] >= ForNorth(b, t)

WantInv == Sockets /\ AtMost /\ AtLeast
(***************************************************************************)
(* What pipes say of a topic.                                              *)
(***************************************************************************)
\* What is left when the first message is taken.
LEMMA SaysTail ==
  ASSUME NEW q, IsSeq(q), q # <<>>, NEW t
  PROVE  /\ NotOf(q, t) => Head(q).topic # t /\ NotOf(Tail(q), t)
         /\ \A cmd : LastSays(q, t, cmd) =>
              \/ LastSays(Tail(q), t, cmd)
              \/ Head(q).topic = t /\ Head(q).cmd = cmd /\ NotOf(Tail(q), t)
<1> DEFINE p == Tail(q)
<1>1. /\ 1 \in DOMAIN q /\ Head(q) = q[1]
      /\ \A i \in DOMAIN p : i + 1 \in DOMAIN q /\ p[i] = q[i + 1] /\ i + 1 # 1
      /\ \A i \in DOMAIN q : i = 1 \/ (i - 1 \in DOMAIN p /\ p[i - 1] = q[i])
  BY AfterHead
<1>2. DOMAIN q \subseteq Nat /\ DOMAIN p \subseteq Nat \ {0}
  BY DEF IsSeq
<1> HIDE DEF p
<1>3. NotOf(q, t) => Head(q).topic # t /\ NotOf(p, t)
  BY <1>1 DEF NotOf
<1>4. ASSUME NEW cmd, LastSays(q, t, cmd)
      PROVE  \/ LastSays(p, t, cmd)
             \/ Head(q).topic = t /\ Head(q).cmd = cmd /\ NotOf(p, t)
  <2>1. PICK i \in DOMAIN q : /\ q[i].topic = t /\ q[i].cmd = cmd
                              /\ \A j \in DOMAIN q : j > i => q[j].topic # t
    BY <1>4 DEF LastSays
  <2>2. CASE i = 1
    <3>1. \A j \in DOMAIN p : p[j].topic # t
      BY <1>1, <1>2, <2>1, <2>2
    <3> QED
      BY <1>1, <2>1, <2>2, <3>1 DEF NotOf
  <2>3. CASE i # 1
    <3>1. i - 1 \in DOMAIN p /\ p[i - 1] = q[i]
      BY <1>1, <2>3
    <3>2. \A j \in DOMAIN p : j > i - 1 => p[j].topic # t
      BY <1>1, <1>2, <2>1
    <3> QED
      BY <2>1, <3>1, <3>2 DEF LastSays
  <2> QED
    BY <2>2, <2>3
<1> QED
  BY <1>3, <1>4 DEF p

\* What is there when messages are added.
LEMMA SaysMore ==
  ASSUME NEW q, NEW p, IsSeq(q), IsSeq(p), NEW t
  PROVE  /\ NotOf(q, t) /\ NotOf(p, t) => NotOf(q \o p, t)
         /\ \A cmd : LastSays(q, t, cmd) /\ NotOf(p, t) => LastSays(q \o p, t, cmd)
         /\ \A cmd : LastSays(p, t, cmd) => LastSays(q \o p, t, cmd)
<1> DEFINE r == q \o p
           n == Len(q)
<1>1. /\ \A i \in DOMAIN q : i \in DOMAIN r /\ r[i] = q[i]
      /\ \A i \in DOMAIN p : n + i \in DOMAIN r /\ r[n + i] = p[i]
      /\ \A i \in DOMAIN r : \/ i \in DOMAIN q /\ r[i] = q[i]
                             \/ i - n \in DOMAIN p /\ r[i] = p[i - n]
  BY Concat
<1>2. n \in Nat /\ DOMAIN q = 1 .. n /\ DOMAIN p \subseteq Nat \ {0}
  BY DEF IsSeq
<1>3. DOMAIN r \subseteq Nat
  <2>1. IsSeq(r)
    BY Concat
  <2> QED
    BY <2>1 DEF IsSeq
<1> HIDE DEF r, n
<1>4. NotOf(q, t) /\ NotOf(p, t) => NotOf(r, t)
  BY <1>1 DEF NotOf
<1>5. ASSUME NEW cmd, LastSays(q, t, cmd), NotOf(p, t) PROVE LastSays(r, t, cmd)
  <2>1. PICK i \in DOMAIN q : /\ q[i].topic = t /\ q[i].cmd = cmd
                              /\ \A j \in DOMAIN q : j > i => q[j].topic # t
    BY <1>5 DEF LastSays
  <2>2. \A j \in DOMAIN r : j > i => r[j].topic # t
    BY <1>1, <1>5, <2>1 DEF NotOf
  <2> QED
    BY <1>1, <2>1, <2>2 DEF LastSays
<1>6. ASSUME NEW cmd, LastSays(p, t, cmd) PROVE LastSays(r, t, cmd)
  <2>1. PICK i \in DOMAIN p : /\ p[i].topic = t /\ p[i].cmd = cmd
                              /\ \A j \in DOMAIN p : j > i => p[j].topic # t
    BY <1>6 DEF LastSays
  <2>2. ASSUME NEW j \in DOMAIN r, j > n + i PROVE r[j].topic # t
    <3>1. j \notin DOMAIN q
      BY <1>2, <2>1, <2>2
    <3>2. j - n \in DOMAIN p /\ r[j] = p[j - n]
      BY <1>1, <3>1
    <3>3. j - n > i
      BY <1>2, <1>3, <2>1, <2>2
    <3> QED
      BY <2>1, <3>2, <3>3
  <2> QED
    BY <1>1, <2>1, <2>2 DEF LastSays
<1> QED
  BY <1>4, <1>5, <1>6 DEF r

\* A sequence of one, and of none.
LEMMA SaysShort ==
  ASSUME NEW m, NEW t
  PROVE  /\ NotOf(<<>>, t) /\ (m.topic # t => NotOf(<<m>>, t))
         /\ \A cmd : m.topic = t /\ m.cmd = cmd => LastSays(<<m>>, t, cmd)
<1>1. DOMAIN <<>> = {} /\ DOMAIN <<m>> = {1} /\ <<m>>[1] = m
  OBVIOUS
<1> QED
  BY <1>1 DEF NotOf, LastSays

\* SetToSeq lists a finite set, every member once.
LEMMA Listed ==
  ASSUME NEW S, IsFiniteSet(S)
  PROVE  LET q == SetToSeq(S)
         IN /\ q \in Seq(S) /\ \A x \in S : \E i \in DOMAIN q : q[i] = x
            /\ \A i, j \in DOMAIN q : q[i] = q[j] => i = j
<1> DEFINE n == Cardinality(S)
           q == SetToSeq(S)
<1>1. n \in Nat /\ ExistsBijection(1 .. n, S)
  BY FS_CardinalityType
<1>2. \E f \in [1 .. n -> S] : IsInjective(f)
  BY <1>1 DEF ExistsBijection, Bijection, Injection, IsInjective
<1>3. q \in [1 .. n -> S] /\ IsInjective(q)
  BY <1>2 DEF SetToSeq
<1>4. q \in Injection(1 .. n, S)
  BY <1>3 DEF Injection, IsInjective
<1>5. IsFiniteSet(1 .. n) /\ Cardinality(1 .. n) = n
  BY <1>1, FS_Interval
<1> HIDE DEF q
<1>6. q \in Surjection(1 .. n, S)
  BY <1>4, <1>5, FS_Injection
<1>7. \A x \in S : \E i \in 1 .. n : q[i] = x
  BY <1>6 DEF Surjection
<1>8. q \in Seq(S) /\ DOMAIN q = 1 .. n
  BY <1>1, <1>3
<1> QED
  BY <1>3, <1>7, <1>8 DEF q, IsInjective
\* Subscribing and unsubscribing on an XSUB socket: what is passed on says what is
\* counted afterwards.
LEMMA XsubStep ==
  ASSUME NEW cnt \in [SubTopics -> Nat], NEW M, M \subseteq Wants, NEW m, M \subseteq {m}
  PROVE  LET new == XsubCount(cnt, M)
             p == XsubPasses(cnt, M)
         IN /\ new \in [SubTopics -> Nat] /\ p \in Seq(Wants)
            /\ \A t \in SubTopics : \/ LastSays(p, t, IF new[t] > 0 THEN "SUB" ELSE "UNSUB")
                                    \/ NotOf(p, t) /\ (new[t] > 0 <=> cnt[t] > 0)
            /\ IsFiniteSet({t \in SubTopics : cnt[t] > 0})
                 => IsFiniteSet({t \in SubTopics : new[t] > 0})
<1> DEFINE new == XsubCount(cnt, M)
           P == {x \in M : x.cmd = "SUB" \/ cnt[x.topic] = 1}
           p == XsubPasses(cnt, M)
           SUB(t) == [cmd |-> "SUB", topic |-> t]
           UNSUB(t) == [cmd |-> "UNSUB", topic |-> t]
<1>1. \A t \in SubTopics :
        /\ SUB(t) \in M => new[t] = cnt[t] + 1
        /\ SUB(t) \notin M /\ UNSUB(t) \in M => new[t] = IF cnt[t] > 0 THEN cnt[t] - 1 ELSE cnt[t]
        /\ SUB(t) \notin M /\ UNSUB(t) \notin M => new[t] = cnt[t]
  BY DEF XsubCount
<1>2. new \in [SubTopics -> Nat]
  <2>1. ASSUME NEW t \in SubTopics PROVE new[t] \in Nat
    <3>1. PICK n \in Nat : n = cnt[t]
      OBVIOUS
    <3>2. n + 1 \in Nat /\ (n > 0 => n - 1 \in Nat)
      BY <3>1
    <3> HIDE DEF new
    <3>3. new[t] = n + 1 \/ new[t] = n \/ (n > 0 /\ new[t] = n - 1)
      <4> HIDE DEF SUB, UNSUB
      <4> QED
        BY <1>1, <3>1
    <3> QED
      BY <3>2, <3>3
  <2> QED
    BY <2>1 DEF XsubCount
<1>3. p = SetToSeq(P)
  BY DEF XsubPasses
<1>4. P \subseteq {m}
  OBVIOUS
<1>5. (P = {} /\ p = <<>>) \/ (P = {m} /\ p = <<m>>)
  <2>1. CASE P = {}
    <3>1. IsFiniteSet(P) /\ Cardinality(P) = 0
      BY <2>1, FS_EmptySet
    <3>2. p \in Seq(P)
      BY <1>3, <3>1, Listed
    <3> QED
      BY <2>1, <3>2
  <2>2. CASE P # {}
    <3>1. P = {m}
      BY <1>4, <2>2
    <3>2. IsFiniteSet(P)
      BY <3>1, FS_Singleton
    <3>3. \E i \in DOMAIN p : p[i] = m
      <4>1. \A x \in P : \E i \in DOMAIN SetToSeq(P) : SetToSeq(P)[i] = x
        BY <3>2, Listed
      <4> QED
        BY <1>3, <3>1, <4>1
    <3>4. p = <<>> \/ p = <<m>>
      BY <1>3, <1>4, SeqOfOne
    <3>5. p # <<>>
      BY <3>3
    <3> QED
      BY <3>1, <3>4, <3>5
  <2> QED
    BY <2>1, <2>2
<1> HIDE DEF new, p
<1>6. p \in Seq(Wants)
  <2>1. m \in Wants => <<m>> \in Seq(Wants)
    OBVIOUS
  <2>2. <<>> \in Seq(Wants)
    OBVIOUS
  <2>3. P = {m} => m \in Wants
    OBVIOUS
  <2> QED
    BY <1>5, <2>1, <2>2, <2>3
<1>7. ASSUME NEW t \in SubTopics
      PROVE  \/ LastSays(p, t, IF new[t] > 0 THEN "SUB" ELSE "UNSUB")
             \/ NotOf(p, t) /\ (new[t] > 0 <=> cnt[t] > 0)
  <2>1. cnt[t] \in Nat /\ new[t] \in Nat
    BY <1>2
  <2>2. CASE M = {m} /\ m.topic = t /\ m.cmd = "SUB"
    <3>1. m = SUB(t) /\ m \in P
      BY <2>2 DEF Wants
    <3>2. new[t] = cnt[t] + 1
      BY <1>1, <2>2, <3>1
    <3>4. new[t] > 0 /\ p = <<m>>
      BY <1>5, <2>1, <3>1, <3>2
    <3>3. LastSays(p, t, "SUB")
      BY <2>2, <3>4, SaysShort
    <3> QED
      BY <3>4, <3>3
  <2>3. CASE M = {m} /\ m.topic = t /\ m.cmd = "UNSUB"
    <3>1. m = UNSUB(t) /\ SUB(t) \notin M
      BY <2>3 DEF Wants
    <3>2. new[t] = IF cnt[t] > 0 THEN cnt[t] - 1 ELSE cnt[t]
      BY <1>1, <2>3, <3>1
    <3>3. CASE cnt[t] = 1
      <4>1. m \in P /\ new[t] = 0
        BY <2>3, <3>2, <3>3
      <4>2. p = <<m>>
        BY <1>5, <4>1
      <4>3. LastSays(p, t, "UNSUB")
        BY <2>3, <4>2, SaysShort
      <4> QED
        BY <4>1, <4>3
    <3>4. CASE cnt[t] # 1
      <4>1. P = {}
        BY <2>3, <3>4
      <4>2. p = <<>> /\ NotOf(p, t)
        BY <1>5, <4>1, SaysShort
      <4>3. new[t] > 0 <=> cnt[t] > 0
        BY <2>1, <3>2, <3>4
      <4> QED
        BY <4>2, <4>3
    <3> QED
      BY <3>3, <3>4
  <2>4. CASE M = {} \/ m.topic # t
    <3>1. SUB(t) \notin M /\ UNSUB(t) \notin M
      BY <2>4
    <3>2. new[t] = cnt[t]
      BY <1>1, <3>1
    <3>3. p = <<>> \/ (p = <<m>> /\ m.topic # t)
      BY <1>5, <2>4
    <3>4. NotOf(p, t)
      BY <3>3, SaysShort
    <3> QED
      BY <3>2, <3>4
  <2>5. M = {} \/ (M = {m} /\ m.cmd \in {"SUB", "UNSUB"})
    BY DEF Wants
  <2> QED
    BY <2>2, <2>3, <2>4, <2>5
<1>8. ASSUME IsFiniteSet({t \in SubTopics : cnt[t] > 0})
      PROVE  IsFiniteSet({t \in SubTopics : new[t] > 0})
  <2> DEFINE A == {t \in SubTopics : cnt[t] > 0}
             B == {t \in SubTopics : new[t] > 0}
  <2>1. ASSUME NEW t \in B, t \notin A PROVE t = m.topic
    <3>1. cnt[t] = 0 /\ new[t] > 0
      BY <2>1
    <3>2. SUB(t) \in M
      <4>1. t \in SubTopics
        BY <2>1
      <4> HIDE DEF SUB, UNSUB
      <4> QED
        BY <1>1, <3>1, <4>1
    <3>3. SUB(t) = m
      BY <3>2
    <3> QED
      BY <3>3
  <2>2. IsFiniteSet(A \cup {m.topic})
    BY <1>8, FS_AddElement
  <2>3. B \subseteq A \cup {m.topic}
    BY <2>1
  <2> QED
    BY <2>2, <2>3, FS_Subset
<1> QED
  BY <1>2, <1>6, <1>7, <1>8 DEF new, p

\* A pipe with what its XSUB socket passes on.
LEMMA ArrivesMore ==
  ASSUME NEW cnt \in [SubTopics -> Nat], NEW M, M \subseteq Wants, NEW m, M \subseteq {m},
         NEW q \in Seq(Wants), NEW t \in SubTopics, NEW x, NEW H,
         Arrives(q, t, x, H, cnt[t])
  PROVE  /\ q \o XsubPasses(cnt, M) \in Seq(Wants)
         /\ Arrives(q \o XsubPasses(cnt, M), t, x, H, XsubCount(cnt, M)[t])
<1> DEFINE p == XsubPasses(cnt, M)
           new == XsubCount(cnt, M)
<1>1. /\ new \in [SubTopics -> Nat] /\ p \in Seq(Wants)
      /\ \/ LastSays(p, t, IF new[t] > 0 THEN "SUB" ELSE "UNSUB")
         \/ NotOf(p, t) /\ (new[t] > 0 <=> cnt[t] > 0)
  BY XsubStep
<1> HIDE DEF p, new
<1>2. IsSeq(q) /\ IsSeq(p)
  BY <1>1, SeqIsSeq
<1>3. q \o p \in Seq(Wants)
  BY <1>1
<1>4. CASE LastSays(p, t, IF new[t] > 0 THEN "SUB" ELSE "UNSUB")
  <2>1. LastSays(q \o p, t, IF new[t] > 0 THEN "SUB" ELSE "UNSUB")
    BY <1>2, <1>4, SaysMore
  <2> QED
    BY <1>3, <2>1 DEF Arrives, p, new
<1>5. CASE NotOf(p, t) /\ (new[t] > 0 <=> cnt[t] > 0)
  <2>1. CASE LastSays(q, t, IF cnt[t] > 0 THEN "SUB" ELSE "UNSUB")
    <3>1. LastSays(q \o p, t, IF cnt[t] > 0 THEN "SUB" ELSE "UNSUB")
      BY <1>2, <1>5, <2>1, SaysMore
    <3>2. LastSays(q \o p, t, IF new[t] > 0 THEN "SUB" ELSE "UNSUB")
      BY <1>5, <3>1
    <3> QED
      BY <1>3, <3>2 DEF Arrives, p, new
  <2>2. CASE NotOf(q, t) /\ (x \in H <=> cnt[t] > 0)
    <3>1. NotOf(q \o p, t)
      BY <1>2, <1>5, <2>2, SaysMore
    <3>2. x \in H <=> new[t] > 0
      BY <1>5, <2>2
    <3> QED
      BY <1>3, <3>1, <3>2 DEF Arrives, p, new
  <2> QED
    BY <2>1, <2>2 DEF Arrives
<1> QED
  BY <1>1, <1>4, <1>5

\* A pipe after its receiver has taken a message.
LEMMA ArrivesTail ==
  ASSUME NEW q \in Seq(Wants), q # <<>>, NEW t, NEW x, NEW H, NEW G, NEW n,
         Arrives(q, t, x, H, n),
         Head(q).topic # t => (x \in G <=> x \in H),
         Head(q).topic = t => (x \in G <=> Head(q).cmd = "SUB")
  PROVE  Tail(q) \in Seq(Wants) /\ Arrives(Tail(q), t, x, G, n)
<1>1. IsSeq(q) /\ Tail(q) \in Seq(Wants)
  BY SeqIsSeq
<1>2. CASE NotOf(q, t) /\ (x \in H <=> n > 0)
  <2>1. Head(q).topic # t /\ NotOf(Tail(q), t)
    BY <1>1, <1>2, SaysTail
  <2> QED
    BY <1>1, <1>2, <2>1 DEF Arrives
<1>3. CASE LastSays(q, t, IF n > 0 THEN "SUB" ELSE "UNSUB")
  <2> DEFINE c == IF n > 0 THEN "SUB" ELSE "UNSUB"
  <2>1. LastSays(Tail(q), t, c) \/ (Head(q).topic = t /\ Head(q).cmd = c /\ NotOf(Tail(q), t))
    BY <1>1, <1>3, SaysTail
  <2>2. CASE LastSays(Tail(q), t, c)
    BY <1>1, <2>2 DEF Arrives
  <2>3. CASE Head(q).topic = t /\ Head(q).cmd = c /\ NotOf(Tail(q), t)
    <3>1. x \in G <=> n > 0
      BY <2>3
    <3> QED
      BY <1>1, <2>3, <3>1 DEF Arrives
  <2> QED
    BY <2>1, <2>2, <2>3
<1> QED
  BY <1>2, <1>3 DEF Arrives

\* A pipe that connects: it brings all that is held.
LEMMA ArrivesReplay ==
  ASSUME NEW cnt \in [SubTopics -> Nat], NEW held, held = {t \in SubTopics : cnt[t] > 0},
         IsFiniteSet(held)
  PROVE  LET q == SetToSeq({[cmd |-> "SUB", topic |-> t] : t \in held})
         IN /\ q \in Seq(Wants)
            /\ \A t \in SubTopics : \A x, H : x \notin H => Arrives(q, t, x, H, cnt[t])
<1> DEFINE S == {[cmd |-> "SUB", topic |-> t] : t \in held}
           q == SetToSeq(S)
<1>1. IsFiniteSet(S)
  <2> DEFINE f == [t \in held |-> [cmd |-> "SUB", topic |-> t]]
  <2>1. f \in Surjection(held, S)
    BY DEF Surjection
  <2> QED
    BY <2>1, FS_Surjection
<1>2. /\ q \in Seq(S) /\ \A m \in S : \E i \in DOMAIN q : q[i] = m
      /\ \A i, j \in DOMAIN q : q[i] = q[j] => i = j
  BY <1>1, Listed
<1>3. S \subseteq Wants
  BY DEF Wants
<1> HIDE DEF q
<1>4. q \in Seq(Wants)
  BY <1>2, <1>3
<1>5. \A i \in DOMAIN q : q[i] \in S
  BY <1>2
<1>6. DOMAIN q \subseteq Nat
  BY <1>2
<1>7. ASSUME NEW t \in SubTopics, cnt[t] > 0 PROVE LastSays(q, t, "SUB")
  <2>1. [cmd |-> "SUB", topic |-> t] \in S
    BY <1>7
  <2>2. PICK i \in DOMAIN q : q[i] = [cmd |-> "SUB", topic |-> t]
    BY <1>2, <2>1
  <2>3. ASSUME NEW j \in DOMAIN q, j > i PROVE q[j].topic # t
    <3>1. q[j] # q[i]
      BY <1>2, <1>6, <2>3
    <3>2. PICK u \in held : q[j] = [cmd |-> "SUB", topic |-> u]
      BY <1>5
    <3> QED
      BY <2>2, <3>1, <3>2
  <2> QED
    BY <2>2, <2>3 DEF LastSays
<1>8. ASSUME NEW t \in SubTopics, ~(cnt[t] > 0) PROVE NotOf(q, t)
  BY <1>5, <1>8 DEF NotOf
<1>9. ASSUME NEW t \in SubTopics, NEW x, NEW H, x \notin H
      PROVE  Arrives(q, t, x, H, cnt[t])
  BY <1>7, <1>8, <1>9 DEF Arrives
<1>10. \A t \in SubTopics : \A x, H : x \notin H => Arrives(q, t, x, H, cnt[t])
  BY <1>9
<1> QED
  BY <1>4, <1>10 DEF q
\* What the subscriptions M of a callback make of the number n that want topic t: it
\* gets to n2, or to more; to n2, or to less.
AddsEnough(M, t, n, n2) ==
  IF [cmd |-> "SUB", topic |-> t] \in M THEN n2 >= n + 1
  ELSE IF [cmd |-> "UNSUB", topic |-> t] \in M THEN n2 + 1 >= n ELSE n2 >= n
AddsNoMore(M, t, n, n2) ==
  IF [cmd |-> "SUB", topic |-> t] \in M THEN n2 <= n + 1
  ELSE IF [cmd |-> "UNSUB", topic |-> t] \in M THEN n2 + 1 <= n ELSE n2 <= n

\* Then a count that was no more, or no less, than n is no more, or no less, than n2.
LEMMA CountStep ==
  ASSUME NEW cnt \in [SubTopics -> Nat], NEW M, NEW t \in SubTopics,
         NEW n \in Nat, NEW n2 \in Nat
  PROVE  /\ AddsEnough(M, t, n, n2) /\ cnt[t] <= n => XsubCount(cnt, M)[t] <= n2
         /\ AddsNoMore(M, t, n, n2) /\ cnt[t] >= n => XsubCount(cnt, M)[t] >= n2
<1> DEFINE new == XsubCount(cnt, M)[t]
           s == [cmd |-> "SUB", topic |-> t]
           u == [cmd |-> "UNSUB", topic |-> t]
<1>1. /\ s \in M => new = cnt[t] + 1
      /\ s \notin M /\ u \in M => new = IF cnt[t] > 0 THEN cnt[t] - 1 ELSE cnt[t]
      /\ s \notin M /\ u \notin M => new = cnt[t]
  BY DEF XsubCount
<1>2. PICK c \in Nat : c = cnt[t]
  OBVIOUS
<1>3. /\ AddsEnough(M, t, n, n2) <=> IF s \in M THEN n2 >= n + 1
                                     ELSE IF u \in M THEN n2 + 1 >= n ELSE n2 >= n
      /\ AddsNoMore(M, t, n, n2) <=> IF s \in M THEN n2 <= n + 1
                                     ELSE IF u \in M THEN n2 + 1 <= n ELSE n2 <= n
  BY DEF AddsEnough, AddsNoMore
<1> HIDE DEF new, s, u
<1>4. CASE s \in M
  BY <1>1, <1>2, <1>3, <1>4 DEF new
<1>5. CASE s \notin M /\ u \in M
  BY <1>1, <1>2, <1>3, <1>5 DEF new
<1>6. CASE s \notin M /\ u \notin M
  BY <1>1, <1>2, <1>3, <1>6 DEF new
<1> QED
  BY <1>4, <1>5, <1>6

(***************************************************************************)
(* The handlers and the subscriptions they pass on.                        *)
(***************************************************************************)
\* A callback of broker b sends M to the brokers below, and up to the higher one
\* if there is a socket.
TellsAll(b, r, M) ==
  Wrote(r, "subS") = M /\ Wrote(r, "subN") = IF b.north THEN M ELSE {}

\* The clients stay the same, or are fewer, and so does the socket north.
Stays(b, c) == c.north = b.north /\ DOMAIN c.lcl_cli \subseteq DOMAIN b.lcl_cli

\* Nobody's subscriptions change.
SameOn(b, c) == \A s, x : On(c, s, x) <=> On(b, s, x)

\* What a callback writes to the two sockets, from its list of outputs.
LEMMA WroteOf ==
  ASSUME NEW b, NEW r, NEW m
  PROVE  /\ r.ps = {} => TellsAll(b, r, {})
         /\ r.ps = PsNorth(b, "subN", m) \cup PsSouth("subS", m) => TellsAll(b, r, {m})
         /\ r.ps = PsSouth("subS", m) => Wrote(r, "subS") = {m} /\ Wrote(r, "subN") = {}
         /\ (\A o \in r.ps : o.sock \in {"pubN", "pubS"}) => TellsAll(b, r, {})
<1>1. ASSUME r.ps = {} PROVE TellsAll(b, r, {})
  BY <1>1 DEF TellsAll, Wrote
<1>2. ASSUME r.ps = PsNorth(b, "subN", m) \cup PsSouth("subS", m) PROVE TellsAll(b, r, {m})
  <2> DEFINE n == [sock |-> "subN", m |-> m]
             s == [sock |-> "subS", m |-> m]
  <2>1. CASE b.north
    <3>1. r.ps = {n, s}
      BY <1>2, <2>1 DEF PsNorth, PsSouth
    <3>2. Wrote(r, "subS") \subseteq {m} /\ Wrote(r, "subN") \subseteq {m}
      BY <3>1 DEF Wrote
    <3>3. m \in Wrote(r, "subS") /\ m \in Wrote(r, "subN")
      <4>1. \A o \in r.ps : o.m \in Wrote(r, o.sock)
        BY DEF Wrote
      <4>2. n \in r.ps /\ n.sock = "subN" /\ n.m = m /\ s \in r.ps /\ s.sock = "subS" /\ s.m = m
        BY <3>1
      <4> QED
        BY <4>1, <4>2
    <3> QED
      BY <2>1, <3>2, <3>3 DEF TellsAll
  <2>2. CASE ~b.north
    <3>1. r.ps = {s}
      BY <1>2, <2>2 DEF PsNorth, PsSouth
    <3>2. Wrote(r, "subS") \subseteq {m} /\ Wrote(r, "subN") = {}
      BY <3>1 DEF Wrote
    <3>3. m \in Wrote(r, "subS")
      BY <3>1 DEF Wrote
    <3> QED
      BY <2>2, <3>2, <3>3 DEF TellsAll
  <2> QED
    BY <2>1, <2>2
<1>3. ASSUME r.ps = PsSouth("subS", m) PROVE Wrote(r, "subS") = {m} /\ Wrote(r, "subN") = {}
  <2> DEFINE s == [sock |-> "subS", m |-> m]
  <2>1. r.ps = {s}
    BY <1>3 DEF PsSouth
  <2>2. Wrote(r, "subS") \subseteq {m} /\ Wrote(r, "subN") = {}
    BY <2>1 DEF Wrote
  <2>3. m \in Wrote(r, "subS")
    BY <2>1 DEF Wrote
  <2> QED
    BY <2>2, <2>3
<1>4. ASSUME \A o \in r.ps : o.sock \in {"pubN", "pubS"} PROVE TellsAll(b, r, {})
  BY <1>4 DEF TellsAll, Wrote
<1> QED
  BY <1>1, <1>2, <1>3, <1>4

\* s_on_pubS_msg, s_on_pubN_msg, and nothing.
LEMMA RelayTells ==
  ASSUME NEW b, NEW m
  PROVE  /\ s_on_pubS_msg(b, m).b = b /\ TellsAll(b, s_on_pubS_msg(b, m), {m})
         /\ s_on_pubN_msg(b, m).b = b
         /\ Wrote(s_on_pubN_msg(b, m), "subS") = {m} /\ Wrote(s_on_pubN_msg(b, m), "subN") = {}
         /\ Nothing(b).b = b /\ TellsAll(b, Nothing(b), {})
<1>1. /\ s_on_pubS_msg(b, m).b = b
      /\ s_on_pubS_msg(b, m).ps = PsNorth(b, "subN", m) \cup PsSouth("subS", m)
  BY DEF s_on_pubS_msg, Nothing, Result, WithPs
<1>2. s_on_pubN_msg(b, m).b = b /\ s_on_pubN_msg(b, m).ps = PsSouth("subS", m)
  BY DEF s_on_pubN_msg, Nothing, Result, WithPs
<1>3. Nothing(b).b = b /\ Nothing(b).ps = {}
  BY DEF Nothing, Result
<1> QED
  BY <1>1, <1>2, <1>3, WroteOf

\* A publication.
LEMMA PublicationTells ==
  ASSUME NEW b, Shape(b), NEW r,
         \/ \E s, t, n, unscoped : r = s_cb_pub(b, s, t, n, unscoped)
         \/ \E topic, name, pathv : r = s_on_subS_msg(b, topic, name, pathv)
         \/ \E topic, name, pathv : r = s_on_subN_msg(b, topic, name, pathv)
  PROVE  TellsAll(b, r, {}) /\ Stays(b, r.b) /\ SameOn(b, r.b)
<1> DEFINE AsWas(c) == Stays(b, c) /\ SameOn(b, c)
           Pubs(ps) == \A o \in ps : o.sock \in {"pubN", "pubS"}
<1>1. AsWas(b)
  BY DEF Stays, SameOn
<1>2. \A k : AsWas(TouchClient(b, k))
  <2> SUFFICES ASSUME NEW k PROVE AsWas(TouchClient(b, k))
    OBVIOUS
  <2> DEFINE c == TouchClient(b, k)
  <2>1. NoneAdded(b, c) /\ SameSubs(b, c)
    BY AddNone, OthersSameSubs
  <2> HIDE DEF c
  <2>2. Stays(b, c) /\ SameOn(b, c)
    BY <2>1, SameSubsCounts DEF NoneAdded, SameScalars, Stays, SameOn
  <2> QED
    BY <2>2 DEF c
<1>3. AsWas([b EXCEPT !.state = CRASHED])
  BY DEF Shape, BrokerFields, Stays, SameOn, On
<1>4. \A m, n : Pubs({}) /\ Pubs(PsSouth("pubS", m))
                /\ Pubs(PsNorth(b, "pubN", n) \cup PsSouth("pubS", m))
  BY DEF PsNorth, PsSouth
<1>5. ASSUME NEW topic, NEW name, NEW ps, Pubs(ps)
      PROVE  AsWas(DeliverRemote(b, topic, name, ps).b) /\ Pubs(DeliverRemote(b, topic, name, ps).ps)
  <2> DEFINE d == DeliverRemote(b, topic, name, ps)
  <2>1. d.b \in {b, [b EXCEPT !.state = CRASHED]} /\ d.ps \in {{}, ps}
    BY DEF DeliverRemote, Result, WithPs
  <2> HIDE DEF d
  <2> QED
    BY <1>1, <1>3, <1>4, <1>5, <2>1 DEF d
<1>6. AsWas(Nothing(b).b) /\ Pubs(Nothing(b).ps)
  BY <1>1 DEF Nothing, Result
<1>7. AsWas(r.b) /\ Pubs(r.ps)
  <2>1. ASSUME NEW s, NEW t, NEW n, NEW unscoped, r = s_cb_pub(b, s, t, n, unscoped)
        PROVE  AsWas(r.b) /\ Pubs(r.ps)
    <3>1. \/ r = Nothing(b)
          \/ /\ r.b = TouchClient(b, <<s, t>>)
             /\ \E m, k : r.ps = PsNorth(b, "pubN", k) \cup PsSouth("pubS", m)
      BY <2>1 DEF s_cb_pub, Result, WithPs
    <3> QED
      BY <1>2, <1>4, <1>6, <3>1
  <2>2. ASSUME NEW topic, NEW name, NEW pathv, r = s_on_subS_msg(b, topic, name, pathv)
        PROVE  AsWas(r.b) /\ Pubs(r.ps)
    <3>1. \E m, k : r = DeliverRemote(b, topic, name, PsNorth(b, "pubN", k) \cup PsSouth("pubS", m))
      BY <2>2 DEF s_on_subS_msg
    <3> QED
      BY <1>4, <1>5, <3>1
  <2>3. ASSUME NEW topic, NEW name, NEW pathv, r = s_on_subN_msg(b, topic, name, pathv)
        PROVE  AsWas(r.b) /\ Pubs(r.ps)
    <3>1. r = Nothing(b) \/ \E m : r = DeliverRemote(b, topic, name, PsSouth("pubS", m))
      BY <2>3 DEF s_on_subN_msg
    <3> QED
      BY <1>4, <1>5, <1>6, <3>1
  <2> QED
    BY <2>1, <2>2, <2>3
<1>8. TellsAll(b, r, {})
  BY <1>7, WroteOf
<1> QED
  BY <1>7, <1>8

\* remove_subscription ends just the subscription the socket has.
LEMMA RemoveOneExact ==
  ASSUME NEW b, Shape(b), TrieCounts(b), NEW s \in Sockids, NEW topic
  PROVE  \A z, x : On(remove_subscription(b, s, topic), z, x) <=>
           On(b, z, x) /\ ~(z = s /\ x = topic /\ topic \in Topics(b, s))
<1> DEFINE gone == {<<s, topic>>} \cap (Sockids \X Topics(b, s))
           c == remove_subscription(b, s, topic)
           new == nn_trie_unsubscribe(b.topics_trie, gone)
<1>1. c.topics_trie = new
  BY DEF remove_subscription, Shape, BrokerFields
<1>2. \A z, x : <<z, x>> \in gone <=> z = s /\ x = topic /\ topic \in Topics(b, s)
  OBVIOUS
<1>3. \A z, x : On(c, z, x) => On(b, z, x)
  BY RemoveOneCounts
<1>4. ASSUME NEW z, NEW x, On(b, z, x), <<z, x>> \notin gone PROVE On(c, z, x)
  <2>1. \A u, v : <<u, v>> \in gone => v \in DOMAIN b.topics_trie /\ u \in b.topics_trie[v].sockids
    BY <1>2 DEF Topics, TrieCounts, On
  <2>2. \A v \in DOMAIN b.topics_trie : NodeCounts(b.topics_trie[v])
    BY DEF TrieCounts
  <2>3. x \in DOMAIN b.topics_trie /\ z \in b.topics_trie[x].sockids
    BY <1>4 DEF On
  <2> HIDE DEF gone
  <2>4. \A v \in DOMAIN b.topics_trie : \A u \in b.topics_trie[v].sockids :
          <<u, v>> \notin gone => v \in DOMAIN new /\ u \in new[v].sockids
    BY <2>1, <2>2, UnsubscribeCounts
  <2>5. x \in DOMAIN new /\ z \in new[x].sockids
    BY <1>4, <2>3, <2>4
  <2> QED
    BY <1>1, <2>5 DEF On
<1>5. ASSUME topic \in Topics(b, s) PROVE ~On(c, s, topic)
  <2> SUFFICES ASSUME topic \in DOMAIN new PROVE s \notin new[topic].sockids
    BY <1>1 DEF On
  <2>1. new[topic].sockids = b.topics_trie[topic].sockids \ {z \in Sockids : <<z, topic>> \in gone}
    BY DEF nn_trie_unsubscribe
  <2> QED
    BY <1>2, <1>5, <2>1
<1> HIDE DEF c, gone
<1>6. ASSUME NEW z, NEW x, On(c, z, x) PROVE ~(z = s /\ x = topic /\ topic \in Topics(b, s))
  BY <1>5, <1>6
<1>7. ASSUME NEW z, NEW x, On(b, z, x), ~(z = s /\ x = topic /\ topic \in Topics(b, s))
      PROVE  On(c, z, x)
  BY <1>2, <1>4, <1>7
<1> QED
  BY <1>3, <1>6, <1>7 DEF c

\* A client is heard of.
LEMMA TouchAsWas ==
  ASSUME NEW b, Shape(b), TrieCounts(b), NEW k
  PROVE  LET c == TouchClient(b, k)
         IN /\ Shape(c) /\ TrieCounts(c) /\ Stays(b, c) /\ SameOn(b, c)
            /\ \A s : Topics(c, s) = Topics(b, s)
<1> DEFINE c == TouchClient(b, k)
<1>1. NoneAdded(b, c) /\ SameSubs(b, c)
  BY AddNone, OthersSameSubs
<1> HIDE DEF c
<1>2. Shape(c) /\ Stays(b, c)
  BY <1>1 DEF NoneAdded, SameScalars, Stays
<1>3. TrieCounts(c) /\ SameOn(b, c)
  BY <1>1, SameSubsCounts DEF SameOn
<1>4. \A s : Topics(c, s) = Topics(b, s)
  BY <1>1 DEF SameSubs, Topics
<1> QED
  BY <1>2, <1>3, <1>4 DEF c

\* s_cb_sub: if the client is new on the topic, the broker passes the subscription on.
LEMMA SubTells ==
  ASSUME NEW b, Shape(b), TrieCounts(b), NEW s, NEW t, NEW n, NEW sc,
         HasLocal(b, <<s, t>>), NEW topic, topic = SubTopic(t, n, sc, Scope)
  PROVE  LET r == s_cb_sub(b, s, t, n, sc)
         IN /\ Stays(b, r.b)
            /\ \/ TellsAll(b, r, {}) /\ SameOn(b, r.b)
               \/ /\ TellsAll(b, r, {[cmd |-> "SUB", topic |-> topic]})
                  /\ ~On(b, s, topic)
                  /\ \A z, x : On(r.b, z, x) <=> On(b, z, x) \/ (z = s /\ x = topic)
<1> DEFINE r == s_cb_sub(b, s, t, n, sc)
           b1 == TouchClient(b, <<s, t>>)
           d == insert_subscription(b1, s, topic)
           c == nn_trie_subscribe(d, s, topic)
           m == [cmd |-> "SUB", topic |-> topic]
<1>1. Shape(b1) /\ TrieCounts(b1) /\ Stays(b, b1) /\ SameOn(b, b1)
  BY TouchAsWas
<1> HIDE DEF b1
<1>2. \A z, x : On(c, z, x) <=> On(b1, z, x) \/ (z = s /\ x = topic)
  BY <1>1, SubscribeCounts
<1>3. Stays(b1, c)
  <2>1. NoneAdded(b1, d)
    BY <1>1, AddNone
  <2> HIDE DEF d
  <2>2. NoneAdded(d, c)
    BY <2>1, AddNone DEF NoneAdded
  <2> HIDE DEF c
  <2> QED
    BY <2>1, <2>2 DEF NoneAdded, SameScalars, Stays
<1>4. FreshInTrie(b1, s, topic) <=> ~On(b1, s, topic)
  BY DEF FreshInTrie, On, InTrie
<1>5. CASE n = <<"public">>
  <2>1. r.b = b1 /\ r.ps = {}
    BY <1>5 DEF s_cb_sub, Result, b1
  <2> HIDE DEF r
  <2> QED
    BY <1>1, <2>1, WroteOf DEF r
<1>6. CASE n # <<"public">>
  <2>1. /\ r.b = c
        /\ r.ps = IF FreshInTrie(b1, s, topic)
                  THEN PsNorth(b, "subN", m) \cup PsSouth("subS", m) ELSE {}
    BY <1>6 DEF s_cb_sub, Result, WithPs, b1
  <2> HIDE DEF c, r, m
  <2>2. Stays(b, c)
    BY <1>1, <1>3 DEF Stays
  <2>3. CASE FreshInTrie(b1, s, topic)
    <3>1. TellsAll(b, r, {m})
      BY <2>1, <2>3, WroteOf
    <3>2. ~On(b, s, topic) /\ \A z, x : On(c, z, x) <=> On(b, z, x) \/ (z = s /\ x = topic)
      BY <1>1, <1>2, <1>4, <2>3 DEF SameOn
    <3> QED
      BY <2>1, <2>2, <3>1, <3>2 DEF r, m
  <2>4. CASE ~FreshInTrie(b1, s, topic)
    <3>1. TellsAll(b, r, {})
      BY <2>1, <2>4, WroteOf
    <3>2. SameOn(b, c)
      BY <1>1, <1>2, <1>4, <2>4 DEF SameOn
    <3> QED
      BY <2>1, <2>2, <3>1, <3>2 DEF r
  <2> QED
    BY <2>3, <2>4
<1> QED
  BY <1>5, <1>6

\* s_cb_unsub: if the client has any topic, the broker passes the unsubscription on,
\* whether or not it is one of them.
LEMMA UnsubTells ==
  ASSUME NEW b, Shape(b), TrieCounts(b), NEW s \in Sockids, NEW t, NEW n, NEW sc,
         HasLocal(b, <<s, t>>), NEW topic, topic = SubTopic(t, n, sc, Scope)
  PROVE  LET r == s_cb_unsub(b, s, t, n, sc)
         IN /\ Stays(b, r.b)
            /\ \/ r.ps = {} /\ TellsAll(b, r, {}) /\ SameOn(b, r.b)
               \/ /\ TellsAll(b, r, {[cmd |-> "UNSUB", topic |-> topic]}) /\ r.ps # {}
                  /\ topic \in Topics(b, s) => On(b, s, topic)
                  /\ \A z, x : On(r.b, z, x) <=>
                       On(b, z, x) /\ ~(z = s /\ x = topic /\ topic \in Topics(b, s))
<1> DEFINE r == s_cb_unsub(b, s, t, n, sc)
           b1 == TouchClient(b, <<s, t>>)
           c == remove_subscription(b1, s, topic)
           m == [cmd |-> "UNSUB", topic |-> topic]
<1>1. /\ Shape(b1) /\ TrieCounts(b1) /\ Stays(b, b1) /\ SameOn(b, b1)
      /\ Topics(b1, s) = Topics(b, s)
  BY TouchAsWas
<1> HIDE DEF b1
<1>2. \A z, x : On(c, z, x) <=> On(b, z, x) /\ ~(z = s /\ x = topic /\ topic \in Topics(b, s))
  BY <1>1, RemoveOneExact DEF SameOn
<1>3. Stays(b, c)
  <2>1. NoneAdded(b1, c)
    BY <1>1, AddNone
  <2> HIDE DEF c
  <2> QED
    BY <1>1, <2>1 DEF NoneAdded, SameScalars, Stays
<1>4. CASE n = <<"public">>
  <2>1. r.b = b1 /\ r.ps = {}
    BY <1>4 DEF s_cb_unsub, Result, b1
  <2> HIDE DEF r
  <2> QED
    BY <1>1, <2>1, WroteOf DEF r
<1>5. CASE n # <<"public">>
  <2>1. /\ r.b = c
        /\ r.ps = IF Topics(b, s) # {}
                  THEN PsNorth(b, "subN", m) \cup PsSouth("subS", m) ELSE {}
    BY <1>5 DEF s_cb_unsub, Result, WithPs, Nothing, b1
  <2> HIDE DEF c, r, m
  <2>2. CASE Topics(b, s) # {}
    <3>1. TellsAll(b, r, {m}) /\ r.ps # {}
      BY <2>1, <2>2, WroteOf DEF PsSouth
    <3>2. topic \in Topics(b, s) => On(b, s, topic)
      BY DEF Topics, TrieCounts
    <3> QED
      BY <1>2, <1>3, <2>1, <3>1, <3>2 DEF r, m
  <2>3. CASE Topics(b, s) = {}
    <3>1. r.ps = {} /\ TellsAll(b, r, {})
      BY <2>1, <2>3, WroteOf
    <3>2. SameOn(b, c)
      BY <1>2, <2>3 DEF SameOn
    <3> QED
      BY <1>3, <2>1, <3>1, <3>2 DEF r
  <2> QED
    BY <2>2, <2>3
<1> QED
  BY <1>4, <1>5

\* s_cb_unreg_cli: nothing is taken back from the other brokers.
LEMMA UnregTells ==
  ASSUME NEW b, Shape(b), TrieCounts(b), NEW s, NEW t, HasLocal(b, <<s, t>>)
  PROVE  LET r == s_cb_unreg_cli(b, s, t)
         IN /\ Stays(b, r.b) /\ TellsAll(b, r, {}) /\ ~HasLocal(r.b, <<s, t>>)
            /\ \A z, x : On(r.b, z, x) => On(b, z, x)
            /\ \A z, x : On(b, z, x) /\ z # s => On(r.b, z, x)
<1> DEFINE r == s_cb_unreg_cli(b, s, t)
           c == remove_subscriptions(b, {s})
           d == UnlinkLocal(c, {<<s, t>>})
<1>1. r.b = d /\ r.ps = {}
  BY DEF s_cb_unreg_cli, Result
<1>2. /\ Shape(c) /\ TrieCounts(c) /\ \A z, x : On(c, z, x) => On(b, z, x)
      /\ \A z, x : On(b, z, x) /\ z \notin {s} => On(c, z, x)
  BY RemoveAllCounts
<1>3. NoneAdded(b, c)
  BY AddNone
<1> HIDE DEF c
<1>4. NoneAdded(c, d) /\ SameSubs(c, d)
  BY <1>2, AddNone, OthersSameSubs
<1>5. <<s, t>> \notin DOMAIN d.lcl_cli
  BY <1>2 DEF UnlinkLocal, Shape, BrokerFields, Without, Restrict
<1> HIDE DEF d, r
<1>6. Stays(b, d)
  BY <1>3, <1>4 DEF NoneAdded, SameScalars, Stays
<1>7. \A z, x : On(d, z, x) <=> On(c, z, x)
  BY <1>4, SameSubsCounts
<1>8. TellsAll(b, r, {})
  BY <1>1, WroteOf
<1> QED
  BY <1>1, <1>2, <1>5, <1>6, <1>7, <1>8 DEF r, HasLocal

(***************************************************************************)
(* The sockets stay in step.                                               *)
(***************************************************************************)
\* A callback that subscribes to M, one topic at most, on its XSUB sockets.
LEMMA FinishSockets ==
  ASSUME NEW b \in Brokers, NEW r, NEW wu, NEW wd, NEW pu, NEW pd,
         Finish(b, r, wu, wd, pu, pd), UNCHANGED pairs, DOMAIN br = Brokers,
         NEW M, M \subseteq Wants, NEW m, M \subseteq {m},
         Wrote(r, "subS") \subseteq M, Wrote(r, "subN") \subseteq M, r.b.north = br[b].north,
         Typed(wu, wd, pubS', pubN', subS, subN), InStep(wu, wd, pubS', pubN', subS, subN),
         \A a \in Brokers : br[a].north = (a # Root /\ pairs[a] > 0)
  PROVE  Sockets'
<1> DEFINE MS == Wrote(r, "subS")
           MN == Wrote(r, "subN")
           toN(k) == k[1] = b /\ k = Present(b)
           toS(k) == Connected(k) /\ Above(k) = b
<1>1. MS \subseteq Wants /\ MS \subseteq {m} /\ MN \subseteq Wants /\ MN \subseteq {m}
  OBVIOUS
<1>2. /\ subS \in [Brokers -> [SubTopics -> Nat]] /\ subN \in [Pairs -> [SubTopics -> Nat]]
      /\ wu \in [Pairs -> Seq(Wants)] /\ wd \in [Pairs -> Seq(Wants)]
      /\ pubS' \in [Brokers -> [SubTopics -> SUBSET Pairs]] /\ pubN' \in [Pairs -> SUBSET SubTopics]
      /\ \A a \in Brokers : IsFiniteSet({t \in SubTopics : subS[a][t] > 0})
      /\ \A a \in Brokers, t \in SubTopics : \A k \in pubS'[a][t] : Above(k) = a
  BY DEF Typed
<1>3. /\ subS' = [subS EXCEPT ![b] = XsubCount(@, MS)]
      /\ subN' = [k \in Pairs |-> IF toN(k) THEN XsubCount(subN[k], MN) ELSE subN[k]]
      /\ wantUp' = [k \in Pairs |->
                      IF toN(k) THEN wu[k] \o XsubPasses(subN[k], MN) ELSE wu[k]]
      /\ wantDown' = [k \in Pairs |->
                        IF toS(k) THEN wd[k] \o XsubPasses(subS[b], MS) ELSE wd[k]]
  BY DEF Finish
<1>4. subS'[b] = XsubCount(subS[b], MS) /\ \A a \in Brokers : a # b => subS'[a] = subS[a]
  BY <1>2, <1>3
<1>5. \A k \in Pairs : k[1] \in Lower /\ Above(k) \in Brokers
  BY PubSubAssumption DEF Pairs, Above
<1> HIDE DEF MS, MN
<1>6. /\ subS'[b] \in [SubTopics -> Nat] /\ XsubPasses(subS[b], MS) \in Seq(Wants)
      /\ IsFiniteSet({t \in SubTopics : subS'[b][t] > 0})
  <2> DEFINE c == subS[b]
  <2>1. c \in [SubTopics -> Nat] /\ IsFiniteSet({t \in SubTopics : c[t] > 0})
    BY <1>2
  <2> HIDE DEF c
  <2>2. /\ XsubCount(c, MS) \in [SubTopics -> Nat] /\ XsubPasses(c, MS) \in Seq(Wants)
        /\ IsFiniteSet({t \in SubTopics : XsubCount(c, MS)[t] > 0})
    BY <1>1, <2>1, XsubStep
  <2> QED
    BY <1>4, <2>2 DEF c
<1>7. \A k \in Pairs : /\ XsubCount(subN[k], MN) \in [SubTopics -> Nat]
                       /\ XsubPasses(subN[k], MN) \in Seq(Wants)
  <2> SUFFICES ASSUME NEW k \in Pairs, NEW c, c = subN[k]
               PROVE  XsubCount(c, MN) \in [SubTopics -> Nat] /\ XsubPasses(c, MN) \in Seq(Wants)
    OBVIOUS
  <2>1. c \in [SubTopics -> Nat]
    BY <1>2
  <2> QED
    BY <1>1, <2>1, XsubStep
<1>8. ASSUME NEW k \in Pairs, NEW t \in SubTopics, Connected(k)
      PROVE  Arrives(wantUp'[k], t, k, pubS'[Above(k)][t], subN'[k][t])
  <2>1. Arrives(wu[k], t, k, pubS'[Above(k)][t], subN[k][t])
    BY <1>8 DEF InStep
  <2>2. CASE toN(k)
    <3>1. /\ wantUp'[k] = wu[k] \o XsubPasses(subN[k], MN)
          /\ subN'[k] = XsubCount(subN[k], MN)
      BY <1>3, <2>2
    <3>2. PICK c \in [SubTopics -> Nat], q \in Seq(Wants) : c = subN[k] /\ q = wu[k]
      BY <1>2
    <3>3. PICK H : H = pubS'[Above(k)][t]
      OBVIOUS
    <3>4. Arrives(q, t, k, H, c[t])
      BY <2>1, <3>2, <3>3
    <3>5. Arrives(q \o XsubPasses(c, MN), t, k, H, XsubCount(c, MN)[t])
      BY <1>1, <3>4, ArrivesMore
    <3> QED
      BY <3>1, <3>2, <3>3, <3>5
  <2>3. CASE ~toN(k)
    <3>1. wantUp'[k] = wu[k] /\ subN'[k] = subN[k]
      BY <1>3, <2>3
    <3> QED
      BY <2>1, <3>1
  <2> QED
    BY <2>2, <2>3
<1>9. ASSUME NEW k \in Pairs, NEW t \in SubTopics, Connected(k)
      PROVE  Arrives(wantDown'[k], t, t, pubN'[k], subS'[Above(k)][t])
  <2>1. Arrives(wd[k], t, t, pubN'[k], subS[Above(k)][t])
    BY <1>9 DEF InStep
  <2>2. CASE Above(k) = b
    <3>1. /\ wantDown'[k] = wd[k] \o XsubPasses(subS[b], MS)
          /\ subS'[Above(k)] = XsubCount(subS[b], MS)
      BY <1>3, <1>4, <1>9, <2>2
    <3>2. PICK c \in [SubTopics -> Nat], q \in Seq(Wants) : c = subS[b] /\ q = wd[k]
      BY <1>2
    <3>3. PICK H : H = pubN'[k]
      OBVIOUS
    <3>4. Arrives(q, t, t, H, c[t])
      BY <2>1, <2>2, <3>2, <3>3
    <3>5. Arrives(q \o XsubPasses(c, MS), t, t, H, XsubCount(c, MS)[t])
      BY <1>1, <3>4, ArrivesMore
    <3> QED
      BY <3>1, <3>2, <3>3, <3>5
  <2>3. CASE Above(k) # b
    <3>1. wantDown'[k] = wd[k] /\ subS'[Above(k)] = subS[Above(k)]
      BY <1>3, <1>4, <1>5, <2>3
    <3> QED
      BY <2>1, <3>1
  <2> QED
    BY <2>2, <2>3
<1>10. \A k \in Pairs : Connected(k)' <=> Connected(k)
  BY DEF Connected
<1>11. ASSUME NEW k \in Pairs, NEW t \in SubTopics, ~Connected(k)
       PROVE  /\ wantUp'[k] = <<>> /\ subN'[k][t] = 0 /\ k \notin pubS'[Above(k)][t]
              /\ wantDown'[k] = <<>> /\ t \notin pubN'[k]
  <2>1. k # Present(k[1]) \/ ~(pairs[k[1]] <= pairs[k[1]])
    BY <1>11 DEF Connected, Present
  <2>2. ~toN(k) /\ ~toS(k)
    <3>1. CASE toN(k)
      <4>1. k[2] = pairs[k[1]] /\ k[2] \in Nat
        <5>1. k[2] = pairs[b] /\ k[1] = b
          BY <3>1 DEF Present
        <5> QED
          BY <5>1 DEF Pairs
      <4> QED
        BY <1>11, <4>1 DEF Connected
    <3> QED
      BY <1>11, <3>1
  <2>3. wantUp'[k] = wu[k] /\ subN'[k] = subN[k] /\ wantDown'[k] = wd[k]
    BY <1>3, <2>2
  <2> QED
    BY <1>11, <2>3 DEF InStep
<1>12. InStep(wantUp, wantDown, pubS, pubN, subS, subN)'
  BY <1>8, <1>9, <1>10, <1>11 DEF InStep
<1>13. subS' \in [Brokers -> [SubTopics -> Nat]] /\ subN' \in [Pairs -> [SubTopics -> Nat]]
  <2>1. \A a \in Brokers : subS'[a] \in [SubTopics -> Nat]
    BY <1>2, <1>4, <1>6
  <2>2. DOMAIN subS' = Brokers
    BY <1>2, <1>3
  <2>3. subS' = [a \in Brokers |-> subS'[a]]
    BY <1>2, <1>3
  <2>4. \A k \in Pairs : subN'[k] \in [SubTopics -> Nat]
    BY <1>2, <1>3, <1>7
  <2>5. subN' = [k \in Pairs |-> subN'[k]]
    BY <1>3
  <2> QED
    BY <2>1, <2>3, <2>4, <2>5
<1>14. wantUp' \in [Pairs -> Seq(Wants)] /\ wantDown' \in [Pairs -> Seq(Wants)]
  <2>1. \A p, q \in Seq(Wants) : p \o q \in Seq(Wants)
    OBVIOUS
  <2>2. \A k \in Pairs : wantUp'[k] \in Seq(Wants) /\ wantDown'[k] \in Seq(Wants)
    BY <1>2, <1>3, <1>6, <1>7, <2>1
  <2>3. /\ wantUp' = [k \in Pairs |-> wantUp'[k]] /\ wantDown' = [k \in Pairs |-> wantDown'[k]]
    BY <1>3
  <2> QED
    BY <2>2, <2>3
<1>15. \A a \in Brokers : IsFiniteSet({t \in SubTopics : subS'[a][t] > 0})
  BY <1>2, <1>4, <1>6
<1>16. \A k : Above(k)' = Above(k)
  BY DEF Above
<1>17. Typed(wantUp, wantDown, pubS, pubN, subS, subN)'
  BY <1>2, <1>13, <1>14, <1>15, <1>16 DEF Typed
<1>18. \A a \in Brokers : br'[a].north = (a # Root /\ pairs'[a] > 0)
  <2>1. br' = [br EXCEPT ![b] = r.b]
    BY DEF Finish
  <2>2. br'[b] = r.b /\ \A a \in Brokers : a # b => br'[a] = br[a]
    BY <2>1
  <2> QED
    BY <2>2
<1> QED
  BY <1>12, <1>17, <1>18 DEF Sockets

(***************************************************************************)
(* The counts stay right.                                                  *)
(***************************************************************************)
\* The clients with a topic can be counted.
LEMMA HereCounts ==
  ASSUME NEW x, TrieCounts(x), NEW t
  PROVE  /\ IsFiniteSet({c \in Clients : On(x, c, t)})
         /\ Cardinality({c \in Clients : On(x, c, t)}) \in Nat
<1> DEFINE S == {c \in Clients : On(x, c, t)}
<1>1. IsFiniteSet(S)
  <2>1. CASE t \in DOMAIN x.topics_trie
    <3>1. IsFiniteSet(x.topics_trie[t].sockids) /\ S \subseteq x.topics_trie[t].sockids
      BY <2>1 DEF TrieCounts, NodeCounts, On
    <3> QED
      BY <3>1, FS_Subset
  <2>2. CASE t \notin DOMAIN x.topics_trie
    <3>1. S = {}
      BY <2>2 DEF On
    <3> QED
      BY <3>1, FS_EmptySet
  <2> QED
    BY <2>1, <2>2
<1> QED
  BY <1>1, FS_CardinalityType

\* The numbers are numbers, before a step and after it.
LEMMA WantedNumbers ==
  ASSUME NEW b \in Brokers, NEW t
  PROVE  /\ Places => ForNorth(b, t) \in Nat /\ ForSouth(b, t) \in Nat /\ Local(b, t) \in Nat
         /\ Places' => ForNorth(b, t)' \in Nat /\ ForSouth(b, t)' \in Nat /\ Local(b, t)' \in Nat
<1>1. Below(b, t) \in Nat /\ FromAbove(b, t) \in Nat
  BY DEF Below, FromAbove
<1>2. Below(b, t)' \in Nat /\ FromAbove(b, t)' \in Nat
  BY DEF Below, FromAbove
<1>3. ASSUME Places PROVE Local(b, t) \in Nat
  <2>1. TrieCounts(br[b])
    BY <1>3 DEF Places
  <2> QED
    BY <2>1, HereCounts DEF Local, Here
<1>4. ASSUME Places' PROVE Local(b, t)' \in Nat
  <2>1. TrieCounts(br'[b])
    BY <1>4 DEF Places
  <2>2. Cardinality({c \in Clients : On(br'[b], c, t)}) \in Nat
    BY <2>1, HereCounts
  <2> QED
    BY <2>2 DEF Local, Here
<1>5. \A i, j, k \in Nat : i + j \in Nat /\ i + j + k \in Nat
  OBVIOUS
<1>6. Places => ForNorth(b, t) \in Nat /\ ForSouth(b, t) \in Nat
  BY <1>1, <1>3, <1>5 DEF ForNorth, ForSouth
<1>7. Places' => ForNorth(b, t)' \in Nat /\ ForSouth(b, t)' \in Nat
  BY <1>2, <1>4, <1>5 DEF ForNorth, ForSouth
<1> QED
  BY <1>3, <1>4, <1>6, <1>7

\* A callback at broker b that subscribes no less, and no more, than the number of
\* those that want a topic changes by.
CountsAsAdded(b, MS, MN) ==
  /\ PairsOnce /\ AllHere' => \A t \in SubTopics :
       /\ AddsEnough(MS, t, ForSouth(b, t), ForSouth(b, t)')
       /\ br[b].north => AddsEnough(MN, t, ForNorth(b, t), ForNorth(b, t)')
  /\ PairsOnce => \A t \in SubTopics : <<b, t>> \notin stray' =>
       /\ AddsNoMore(MS, t, ForSouth(b, t), ForSouth(b, t)')
       /\ b \in Lower /\ <<b, t>> \notin late' =>
            AddsNoMore(MN, t, ForNorth(b, t), ForNorth(b, t)')

\* So a callback that adds to the counts what is wanted more keeps them right.
LEMMA CountsKeep ==
  ASSUME WantInv, Sockets', Places, Places', NEW b \in Brokers, NEW r,
         NEW wu, NEW wd, NEW pu, NEW pd, Finish(b, r, wu, wd, pu, pd), UNCHANGED pairs,
         ~br[b].north => Wrote(r, "subN") = {},
         late \subseteq late', stray \subseteq stray', AllHere' => AllHere,
         \A a \in Brokers : a # b => pubS'[a] = pubS[a],
         \A k \in Pairs : k[1] # b => pubN'[k] = pubN[k],
         CountsAsAdded(b, Wrote(r, "subS"), Wrote(r, "subN"))
  PROVE  WantInv'
<1> DEFINE MS == Wrote(r, "subS")
           MN == Wrote(r, "subN")
<1>1. /\ subS \in [Brokers -> [SubTopics -> Nat]] /\ subN \in [Pairs -> [SubTopics -> Nat]]
      /\ \A k \in Pairs, t \in SubTopics : ~Connected(k) => subN[k][t] = 0
      /\ \A a \in Brokers : br[a].north = (a # Root /\ pairs[a] > 0)
  BY DEF WantInv, Sockets, Typed, InStep
<1>2. \A k \in Pairs, t \in SubTopics : ~Connected(k) => subN'[k][t] = 0
  <2>1. \A k \in Pairs : Connected(k)' <=> Connected(k)
    BY DEF Connected
  <2> QED
    BY <2>1 DEF Sockets, InStep
<1>3. /\ subS'[b] = XsubCount(subS[b], MS)
      /\ \A a \in Brokers : a # b => subS'[a] = subS[a]
      /\ \A k \in Pairs : subN'[k] = IF k[1] = b /\ k = Present(b)
                                     THEN XsubCount(subN[k], MN) ELSE subN[k]
  BY <1>1 DEF Finish
<1>4. DOMAIN br = Brokers /\ br'[b] = r.b /\ \A a \in Brokers : a # b => br'[a] = br[a]
  BY DEF Finish, Places
<1>5. ASSUME NEW a \in Brokers, a # b, NEW t
      PROVE  ForNorth(a, t)' = ForNorth(a, t) /\ ForSouth(a, t)' = ForSouth(a, t)
  <2>1. Local(a, t)' = Local(a, t)
    BY <1>4, <1>5 DEF Local, Here
  <2>2. Below(a, t)' = Below(a, t)
    BY <1>5 DEF Below
  <2>3. FromAbove(a, t)' = FromAbove(a, t)
    BY <1>5 DEF FromAbove
  <2> QED
    BY <2>1, <2>2, <2>3 DEF ForNorth, ForSouth
<1>6. PairsOnce' <=> PairsOnce
  BY DEF PairsOnce
<1>7. ASSUME NEW k \in Pairs, Connected(k), PairsOnce PROVE k = Present(k[1])
  <2>1. /\ k[1] \in Lower /\ k[2] \in 1 .. MaxPairs[k[1]] /\ MaxPairs[k[1]] \in Nat
        /\ pairs[k[1]] \in Nat /\ k = <<k[1], k[2]>>
    BY PubSubAssumption DEF Pairs, Places
  <2>2. k[2] <= pairs[k[1]] /\ pairs[k[1]] <= 1
    BY <1>7, <2>1 DEF Connected, PairsOnce
  <2>3. k[2] = pairs[k[1]]
    BY <2>1, <2>2
  <2> QED
    BY <2>1, <2>3 DEF Present
<1>8. ASSUME NEW k \in Pairs, k[1] = b PROVE b \in Lower
  BY <1>8 DEF Pairs
<1>9. \A k \in Pairs : Connected(k) => pairs[k[1]] > 0
  <2> SUFFICES ASSUME NEW k \in Pairs, Connected(k) PROVE pairs[k[1]] > 0
    OBVIOUS
  <2>1. k[1] \in Lower /\ k[2] \in 1 .. MaxPairs[k[1]] /\ MaxPairs[k[1]] \in Nat
        /\ pairs[k[1]] \in Nat
    BY PubSubAssumption DEF Pairs, Places
  <2> QED
    BY <2>1 DEF Connected
<1> HIDE DEF MS, MN
<1>10. ASSUME PairsOnce, AllHere', NEW a \in Brokers, NEW t \in SubTopics
       PROVE  /\ subS'[a][t] <= ForSouth(a, t)'
              /\ \A k \in Pairs : k[1] = a => subN'[k][t] <= ForNorth(a, t)'
  <2>1. /\ subS[a][t] <= ForSouth(a, t)
        /\ \A k \in Pairs : k[1] = a => subN[k][t] <= ForNorth(a, t)
    BY <1>10 DEF WantInv, AtMost
  <2>2. CASE a # b
    BY <1>3, <1>5, <2>1, <2>2
  <2>3. CASE a = b
    <3>1. ForSouth(b, t) \in Nat /\ ForSouth(b, t)' \in Nat
      BY WantedNumbers
    <3>2. ForNorth(b, t) \in Nat /\ ForNorth(b, t)' \in Nat
      BY WantedNumbers
    <3>3. AddsEnough(MS, t, ForSouth(b, t), ForSouth(b, t)')
      BY <1>10 DEF CountsAsAdded, MS
    <3>4. subS'[b][t] <= ForSouth(b, t)'
      <4>1. PICK c \in [SubTopics -> Nat] : c = subS[b]
        BY <1>1
      <4>2. PICK n \in Nat, n2 \in Nat : n = ForSouth(b, t) /\ n2 = ForSouth(b, t)'
        BY <3>1
      <4>3. AddsEnough(MS, t, n, n2) /\ c[t] <= n
        BY <2>1, <2>3, <3>3, <4>1, <4>2
      <4>4. XsubCount(c, MS)[t] <= n2
        BY <4>3, CountStep
      <4> QED
        BY <1>3, <4>1, <4>2, <4>4
    <3>5. ASSUME NEW k \in Pairs, k[1] = b PROVE subN'[k][t] <= ForNorth(b, t)'
      <4>1. CASE ~Connected(k)
        <5>1. subN'[k][t] = 0
          BY <1>2, <4>1
        <5> QED
          BY <3>2, <5>1
      <4>2. CASE Connected(k)
        <5>1. k = Present(b) /\ br[b].north
          BY <1>1, <1>7, <1>8, <1>9, <1>10, <3>5, <4>2 DEF Lower
        <5>2. AddsEnough(MN, t, ForNorth(b, t), ForNorth(b, t)')
          BY <1>10, <5>1 DEF CountsAsAdded, MN
        <5>3. PICK c \in [SubTopics -> Nat] : c = subN[k]
          BY <1>1
        <5>4. PICK n \in Nat, n2 \in Nat : n = ForNorth(b, t) /\ n2 = ForNorth(b, t)'
          BY <3>2
        <5>5. AddsEnough(MN, t, n, n2) /\ c[t] <= n
          BY <2>1, <2>3, <3>5, <5>2, <5>3, <5>4
        <5>6. XsubCount(c, MN)[t] <= n2
          BY <5>5, CountStep
        <5> QED
          BY <1>3, <3>5, <5>1, <5>3, <5>4, <5>6
      <4> QED
        BY <4>1, <4>2
    <3> QED
      BY <2>3, <3>4, <3>5
  <2> QED
    BY <2>2, <2>3
<1>11. AtMost'
  BY <1>6, <1>10 DEF AtMost
<1>12. ASSUME PairsOnce, NEW a \in Brokers, NEW t \in SubTopics, <<a, t>> \notin stray'
       PROVE  /\ subS'[a][t] >= ForSouth(a, t)'
              /\ a \in Lower /\ <<a, t>> \notin late' =>
                   /\ pairs[a] = 0 => ForNorth(a, t)' = 0
                   /\ \A k \in Pairs : k[1] = a /\ Connected(k) => subN'[k][t] >= ForNorth(a, t)'
  <2>1. /\ subS[a][t] >= ForSouth(a, t)
        /\ a \in Lower /\ <<a, t>> \notin late' =>
             /\ pairs[a] = 0 => ForNorth(a, t) = 0
             /\ \A k \in Pairs : k[1] = a /\ Connected(k) => subN[k][t] >= ForNorth(a, t)
    BY <1>12 DEF WantInv, AtLeast
  <2>2. CASE a # b
    BY <1>3, <1>5, <2>1, <2>2
  <2>3. CASE a = b
    <3>1. ForSouth(b, t) \in Nat /\ ForSouth(b, t)' \in Nat
      BY WantedNumbers
    <3>2. ForNorth(b, t) \in Nat /\ ForNorth(b, t)' \in Nat
      BY WantedNumbers
    <3>3. AddsNoMore(MS, t, ForSouth(b, t), ForSouth(b, t)')
      BY <1>12, <2>3 DEF CountsAsAdded, MS
    <3>4. subS'[b][t] >= ForSouth(b, t)'
      <4>1. PICK c \in [SubTopics -> Nat] : c = subS[b]
        BY <1>1
      <4>2. PICK n \in Nat, n2 \in Nat : n = ForSouth(b, t) /\ n2 = ForSouth(b, t)'
        BY <3>1
      <4>3. AddsNoMore(MS, t, n, n2) /\ c[t] >= n
        BY <2>1, <2>3, <3>3, <4>1, <4>2
      <4>4. XsubCount(c, MS)[t] >= n2
        BY <4>3, CountStep
      <4> QED
        BY <1>3, <4>1, <4>2, <4>4
    <3>5. ASSUME b \in Lower, <<b, t>> \notin late'
          PROVE  AddsNoMore(MN, t, ForNorth(b, t), ForNorth(b, t)')
      BY <1>12, <2>3, <3>5 DEF CountsAsAdded, MN
    <3>6. ASSUME b \in Lower, <<b, t>> \notin late', pairs[b] = 0 PROVE ForNorth(b, t)' = 0
      <4>3. ~br[b].north
        <5>1. ~(pairs[b] > 0)
          BY <3>6
        <5>2. br[b].north = (b # Root /\ pairs[b] > 0)
          BY <1>1
        <5> QED
          BY <5>1, <5>2
      <4>1. MN = {}
        BY <4>3 DEF MN
      <4>2. ForNorth(b, t)' <= ForNorth(b, t)
        BY <3>5, <3>6, <4>1 DEF AddsNoMore
      <4> QED
        BY <2>1, <2>3, <3>2, <3>6, <4>2
    <3>7. ASSUME b \in Lower, <<b, t>> \notin late', NEW k \in Pairs, k[1] = b, Connected(k)
          PROVE  subN'[k][t] >= ForNorth(b, t)'
      <4>1. k = Present(b)
        BY <1>7, <1>12, <3>7
      <4>2. PICK c \in [SubTopics -> Nat] : c = subN[k]
        BY <1>1
      <4>3. PICK n \in Nat, n2 \in Nat : n = ForNorth(b, t) /\ n2 = ForNorth(b, t)'
        BY <3>2
      <4>4. AddsNoMore(MN, t, n, n2) /\ c[t] >= n
        BY <2>1, <2>3, <3>5, <3>7, <4>2, <4>3
      <4>5. XsubCount(c, MN)[t] >= n2
        BY <4>4, CountStep
      <4> QED
        BY <1>3, <3>7, <4>1, <4>2, <4>3, <4>5
    <3> QED
      BY <2>3, <3>4, <3>6, <3>7
  <2> QED
    BY <2>2, <2>3
<1>13. AtLeast'
  <2>1. \A k : Connected(k)' <=> Connected(k)
    BY DEF Connected
  <2> QED
    BY <1>6, <1>12, <2>1 DEF AtLeast
<1> QED
  BY <1>11, <1>13 DEF WantInv

\* What a callback that passes nothing on adds to numbers that stay the same.
LEMMA AddsNothing ==
  ASSUME NEW t, NEW n \in Nat
  PROVE  /\ AddsEnough({}, t, n, n) /\ AddsNoMore({}, t, n, n)
         /\ \A n2 \in Nat : n2 <= n => AddsNoMore({}, t, n, n2)
         /\ \A cmd, x : x # t => LET M == {[cmd |-> cmd, topic |-> x]}
                                 IN AddsEnough(M, t, n, n) /\ AddsNoMore(M, t, n, n)
<1>1. \A cmd, x, c : x # t => [cmd |-> c, topic |-> t] \notin {[cmd |-> cmd, topic |-> x]}
  OBVIOUS
<1> QED
  BY <1>1 DEF AddsEnough, AddsNoMore

\* A callback that passes one (un)subscription on, to both sides.
LEMMA ChangeCounts ==
  ASSUME Places, Places', NEW b \in Brokers, NEW cmd \in {"SUB", "UNSUB"},
         NEW topic \in SubTopics,
         \A t \in SubTopics : t # topic =>
           ForNorth(b, t)' = ForNorth(b, t) /\ ForSouth(b, t)' = ForSouth(b, t),
         IF cmd = "SUB"
         THEN /\ ForNorth(b, topic)' = ForNorth(b, topic) + 1
              /\ ForSouth(b, topic)' = ForSouth(b, topic) + 1
         ELSE /\ ForNorth(b, topic)' + 1 >= ForNorth(b, topic)
              /\ ForSouth(b, topic)' + 1 >= ForSouth(b, topic)
              /\ <<b, topic>> \notin stray' =>
                   /\ ForNorth(b, topic)' + 1 <= ForNorth(b, topic)
                   /\ ForSouth(b, topic)' + 1 <= ForSouth(b, topic),
         cmd = "SUB" /\ b \in Lower /\ ~br[b].north => <<b, topic>> \in late'
  PROVE  LET M == {[cmd |-> cmd, topic |-> topic]}
         IN CountsAsAdded(b, M, IF br[b].north THEN M ELSE {})
<1> DEFINE M == {[cmd |-> cmd, topic |-> topic]}
           MN == IF br[b].north THEN M ELSE {}
<1>1. \A t : /\ ForNorth(b, t) \in Nat /\ ForSouth(b, t) \in Nat
             /\ ForNorth(b, t)' \in Nat /\ ForSouth(b, t)' \in Nat
  BY WantedNumbers
<1>2. ASSUME NEW t \in SubTopics, t # topic
      PROVE  /\ AddsEnough(M, t, ForSouth(b, t), ForSouth(b, t)')
             /\ AddsEnough(MN, t, ForNorth(b, t), ForNorth(b, t)')
             /\ AddsNoMore(M, t, ForSouth(b, t), ForSouth(b, t)')
             /\ AddsNoMore(MN, t, ForNorth(b, t), ForNorth(b, t)')
  <2>1. PICK n \in Nat, k \in Nat : n = ForSouth(b, t) /\ k = ForNorth(b, t)
    BY <1>1
  <2>2. ForSouth(b, t)' = n /\ ForNorth(b, t)' = k
    BY <1>2, <2>1
  <2>3. /\ AddsEnough(M, t, n, n) /\ AddsNoMore(M, t, n, n)
        /\ AddsEnough(M, t, k, k) /\ AddsNoMore(M, t, k, k)
        /\ AddsEnough({}, t, k, k) /\ AddsNoMore({}, t, k, k)
    BY <1>2, AddsNothing
  <2> HIDE DEF M
  <2>4. AddsEnough(MN, t, k, k) /\ AddsNoMore(MN, t, k, k)
    BY <2>3
  <2> QED
    BY <2>1, <2>2, <2>3, <2>4
<1>3. PICK n \in Nat, n2 \in Nat, k \in Nat, k2 \in Nat :
        /\ n = ForSouth(b, topic) /\ n2 = ForSouth(b, topic)'
        /\ k = ForNorth(b, topic) /\ k2 = ForNorth(b, topic)'
  BY <1>1
<1>4. IF cmd = "SUB" THEN k2 = k + 1 /\ n2 = n + 1
      ELSE /\ k2 + 1 >= k /\ n2 + 1 >= n
           /\ <<b, topic>> \notin stray' => k2 + 1 <= k /\ n2 + 1 <= n
  BY <1>3
<1>5. /\ [cmd |-> "SUB", topic |-> topic] \in M <=> cmd = "SUB"
      /\ [cmd |-> "UNSUB", topic |-> topic] \in M <=> cmd = "UNSUB"
  OBVIOUS
<1> HIDE DEF M
<1>6. AddsEnough(M, topic, n, n2) /\ AddsEnough(M, topic, k, k2)
  BY <1>4, <1>5 DEF AddsEnough
<1>7. <<b, topic>> \notin stray' => AddsNoMore(M, topic, n, n2) /\ AddsNoMore(M, topic, k, k2)
  BY <1>4, <1>5 DEF AddsNoMore
<1>8. ASSUME <<b, topic>> \notin stray', b \in Lower, <<b, topic>> \notin late'
      PROVE  AddsNoMore(MN, topic, k, k2)
  <2>1. CASE br[b].north
    BY <1>7, <1>8, <2>1
  <2>2. CASE ~br[b].north
    <3>1. cmd = "UNSUB"
      BY <1>8, <2>2
    <3>2. k2 <= k
      BY <1>4, <1>8, <3>1
    <3> QED
      BY <2>2, <3>2 DEF AddsNoMore
  <2> QED
    BY <2>1, <2>2
<1>9. br[b].north => AddsEnough(MN, topic, k, k2)
  BY <1>6
<1>10. CountsAsAdded(b, M, MN)
  <2>1. \A t \in SubTopics :
          /\ AddsEnough(M, t, ForSouth(b, t), ForSouth(b, t)')
          /\ br[b].north => AddsEnough(MN, t, ForNorth(b, t), ForNorth(b, t)')
    BY <1>2, <1>3, <1>6, <1>9
  <2>2. \A t \in SubTopics : <<b, t>> \notin stray' =>
          /\ AddsNoMore(M, t, ForSouth(b, t), ForSouth(b, t)')
          /\ b \in Lower /\ <<b, t>> \notin late' =>
               AddsNoMore(MN, t, ForNorth(b, t), ForNorth(b, t)')
    BY <1>2, <1>3, <1>7, <1>8
  <2> QED
    BY <2>1, <2>2 DEF CountsAsAdded
<1> QED
  BY <1>10 DEF M

\* A callback that passes nothing on while the same are there, or fewer if a client left.
LEMMA QuietCounts ==
  ASSUME Places, Places', NEW b \in Brokers,
         \A t \in SubTopics :
           ForNorth(b, t)' <= ForNorth(b, t) /\ ForSouth(b, t)' <= ForSouth(b, t),
         \/ ~AllHere'
         \/ \A t \in SubTopics :
              ForNorth(b, t)' = ForNorth(b, t) /\ ForSouth(b, t)' = ForSouth(b, t)
  PROVE  CountsAsAdded(b, {}, {})
<1>1. \A t : /\ ForNorth(b, t) \in Nat /\ ForSouth(b, t) \in Nat
             /\ ForNorth(b, t)' \in Nat /\ ForSouth(b, t)' \in Nat
  BY WantedNumbers
<1>2. \A t \in SubTopics : /\ AddsNoMore({}, t, ForSouth(b, t), ForSouth(b, t)')
                           /\ AddsNoMore({}, t, ForNorth(b, t), ForNorth(b, t)')
  BY <1>1, AddsNothing
<1>3. ASSUME AllHere', NEW t \in SubTopics
      PROVE  /\ AddsEnough({}, t, ForSouth(b, t), ForSouth(b, t)')
             /\ AddsEnough({}, t, ForNorth(b, t), ForNorth(b, t)')
  BY <1>1, <1>3, AddsNothing
<1> QED
  BY <1>2, <1>3 DEF CountsAsAdded

\* How many of b's clients have a topic after a callback.
LEMMA LocalMoves ==
  ASSUME NEW b \in Brokers, NEW x, br'[b] = x, TrieCounts(br[b])
  PROVE  /\ SameOn(br[b], x) => \A t : Local(b, t)' = Local(b, t)
         /\ (\A s, t : On(x, s, t) => On(br[b], s, t)) => \A t : Local(b, t)' <= Local(b, t)
         /\ \A s \in Clients : \A topic :
              /\ ~On(br[b], s, topic)
              /\ \A z, t : On(x, z, t) <=> On(br[b], z, t) \/ (z = s /\ t = topic)
              => /\ Local(b, topic)' = Local(b, topic) + 1
                 /\ \A t : t # topic => Local(b, t)' = Local(b, t)
         /\ \A s \in Clients : \A topic :
              /\ On(br[b], s, topic)
              /\ \A z, t : On(x, z, t) <=> On(br[b], z, t) /\ ~(z = s /\ t = topic)
              => /\ Local(b, topic)' + 1 = Local(b, topic)
                 /\ \A t : t # topic => Local(b, t)' = Local(b, t)
<1> DEFINE old(t) == {c \in Clients : On(br[b], c, t)}
           new(t) == {c \in Clients : On(x, c, t)}
<1>1. \A t : /\ Local(b, t) = Cardinality(old(t)) /\ Local(b, t)' = Cardinality(new(t))
             /\ IsFiniteSet(old(t)) /\ Cardinality(old(t)) \in Nat
  BY HereCounts DEF Local, Here
<1>2. ASSUME SameOn(br[b], x) PROVE \A t : Local(b, t)' = Local(b, t)
  <2>1. \A t : new(t) = old(t)
    BY <1>2 DEF SameOn
  <2> QED
    BY <1>1, <2>1
<1>3. ASSUME \A s, t : On(x, s, t) => On(br[b], s, t), NEW t PROVE Local(b, t)' <= Local(b, t)
  <2>1. new(t) \subseteq old(t)
    BY <1>3
  <2> HIDE DEF new, old
  <2> QED
    BY <1>1, <2>1, FS_Subset
<1>4. ASSUME NEW s \in Clients, NEW topic, ~On(br[b], s, topic),
             \A z, t : On(x, z, t) <=> On(br[b], z, t) \/ (z = s /\ t = topic)
      PROVE  /\ Local(b, topic)' = Local(b, topic) + 1
             /\ \A t : t # topic => Local(b, t)' = Local(b, t)
  <2>1. new(topic) = old(topic) \cup {s} /\ s \notin old(topic)
    BY <1>4
  <2>2. \A t : t # topic => new(t) = old(t)
    BY <1>4
  <2> HIDE DEF new, old
  <2>3. Cardinality(new(topic)) = Cardinality(old(topic)) + 1
    BY <1>1, <2>1, FS_AddElement
  <2> QED
    BY <1>1, <2>2, <2>3
<1>5. ASSUME NEW s \in Clients, NEW topic, On(br[b], s, topic),
             \A z, t : On(x, z, t) <=> On(br[b], z, t) /\ ~(z = s /\ t = topic)
      PROVE  /\ Local(b, topic)' + 1 = Local(b, topic)
             /\ \A t : t # topic => Local(b, t)' = Local(b, t)
  <2>1. new(topic) = old(topic) \ {s} /\ s \in old(topic)
    BY <1>5
  <2>2. \A t : t # topic => new(t) = old(t)
    BY <1>5
  <2> HIDE DEF new, old
  <2>3. Cardinality(new(topic)) = Cardinality(old(topic)) - 1
    BY <1>1, <2>1, FS_RemoveElement
  <2>4. Local(b, topic) = Cardinality(old(topic)) /\ Local(b, topic)' = Cardinality(new(topic))
        /\ Cardinality(old(topic)) \in Nat
    BY <1>1
  <2>5. \A t : t # topic => Local(b, t)' = Local(b, t)
    BY <1>1, <2>2
  <2> QED
    BY <2>3, <2>4, <2>5
<1> QED
  BY <1>2, <1>3, <1>4, <1>5

\* A callback that consumes no subscription and passes on M, one topic at most.
LEMMA CallbackWants ==
  ASSUME WantInv, Places, Places', NEW b \in Brokers, NEW r, NEW pu, NEW pd,
         Finish(b, r, wantUp, wantDown, pu, pd), UNCHANGED <<pairs, pubS, pubN>>,
         Stays(br[b], r.b), NEW M, M \subseteq Wants, NEW m, M \subseteq {m},
         TellsAll(br[b], r, M), late \subseteq late', stray \subseteq stray',
         CountsAsAdded(b, M, IF br[b].north THEN M ELSE {})
  PROVE  WantInv'
<1>1. DOMAIN br = Brokers /\ pairs' = pairs /\ pubS' = pubS /\ pubN' = pubN
  BY DEF Places
<1>2. Wrote(r, "subS") = M /\ Wrote(r, "subN") = IF br[b].north THEN M ELSE {}
  BY DEF TellsAll
<1>3. r.b.north = br[b].north /\ DOMAIN r.b.lcl_cli \subseteq DOMAIN br[b].lcl_cli
  BY DEF Stays
<1>4. Sockets'
  <2>1. /\ Typed(wantUp, wantDown, pubS', pubN', subS, subN)
        /\ InStep(wantUp, wantDown, pubS', pubN', subS, subN)
        /\ \A a \in Brokers : br[a].north = (a # Root /\ pairs[a] > 0)
    BY <1>1 DEF WantInv, Sockets
  <2>2. Wrote(r, "subS") \subseteq M /\ Wrote(r, "subN") \subseteq M
    BY <1>2
  <2> QED
    BY <1>1, <1>3, <2>1, <2>2, FinishSockets
<1>5. AllHere' => AllHere
  <2>1. br'[b] = r.b /\ \A a \in Brokers : a # b => br'[a] = br[a]
    BY <1>1 DEF Finish
  <2>2. \A c \in Clients : Home[c] \in Brokers
    BY PubSubAssumption
  <2> QED
    BY <1>3, <2>1, <2>2 DEF AllHere, HasLocal
<1>6. CountsAsAdded(b, Wrote(r, "subS"), Wrote(r, "subN"))
  BY <1>2
<1>7. ~br[b].north => Wrote(r, "subN") = {}
  BY <1>2
<1> QED
  BY <1>1, <1>4, <1>5, <1>6, <1>7, CountsKeep

\* Nothing that is subscribed changes: a publication, a client that leaves.
LEMMA QuietWants ==
  ASSUME WantInv, Places, Places', NEW b \in Brokers, NEW r, NEW pu, NEW pd,
         Finish(b, r, wantUp, wantDown, pu, pd), UNCHANGED <<pairs, pubS, pubN, late, stray>>,
         Stays(br[b], r.b), TellsAll(br[b], r, {}),
         SameOn(br[b], r.b) \/ (~AllHere' /\ \A s, t : On(r.b, s, t) => On(br[b], s, t))
  PROVE  WantInv'
<1>1. br'[b] = r.b /\ TrieCounts(br[b])
  BY DEF Finish, Places
<1>2. \A t : Below(b, t)' = Below(b, t) /\ FromAbove(b, t)' = FromAbove(b, t)
  BY DEF Below, FromAbove
<1>3. \A t : Below(b, t) \in Nat /\ FromAbove(b, t) \in Nat
  BY DEF Below, FromAbove
<1>4. \A t : Local(b, t) \in Nat /\ Local(b, t)' \in Nat
  BY WantedNumbers
<1>5. \A t \in SubTopics : Local(b, t)' <= Local(b, t)
  <2>1. \A t : Local(b, t) <= Local(b, t)
    BY <1>4
  <2>2. SameOn(br[b], r.b) => \A t : Local(b, t)' = Local(b, t)
    BY <1>1, LocalMoves
  <2>3. (\A s, t : On(r.b, s, t) => On(br[b], s, t)) => \A t : Local(b, t)' <= Local(b, t)
    BY <1>1, LocalMoves
  <2> QED
    BY <2>1, <2>2, <2>3
<1>6. ~AllHere' \/ \A t \in SubTopics : Local(b, t)' = Local(b, t)
  BY <1>1, LocalMoves
<1>7. \A t \in SubTopics : /\ ForNorth(b, t)' <= ForNorth(b, t)
                           /\ ForSouth(b, t)' <= ForSouth(b, t)
  <2> SUFFICES ASSUME NEW t \in SubTopics PROVE /\ ForNorth(b, t)' <= ForNorth(b, t)
                                                /\ ForSouth(b, t)' <= ForSouth(b, t)
    OBVIOUS
  <2>1. PICK l \in Nat, n \in Nat, p \in Nat, q \in Nat :
          l = Local(b, t) /\ n = Local(b, t)' /\ p = Below(b, t) /\ q = FromAbove(b, t)
    BY <1>3, <1>4
  <2>2. n <= l
    BY <1>5, <2>1
  <2> QED
    BY <1>2, <2>1, <2>2 DEF ForNorth, ForSouth
<1>8. \/ ~AllHere'
      \/ \A t \in SubTopics : ForNorth(b, t)' = ForNorth(b, t) /\ ForSouth(b, t)' = ForSouth(b, t)
  BY <1>2, <1>6 DEF ForNorth, ForSouth
<1>9. CountsAsAdded(b, {}, {})
  BY <1>7, <1>8, QuietCounts
<1>10. CountsAsAdded(b, {}, IF br[b].north THEN {} ELSE {})
  BY <1>9
<1>11. PICK M, m : M = {} /\ m = "none"
  OBVIOUS
<1>12. M \subseteq Wants /\ M \subseteq {m} /\ TellsAll(br[b], r, M)
       /\ CountsAsAdded(b, M, IF br[b].north THEN M ELSE {})
  BY <1>10, <1>11
<1>13. late \subseteq late' /\ stray \subseteq stray' /\ UNCHANGED <<pairs, pubS, pubN>>
  OBVIOUS
<1> QED
  BY <1>12, <1>13, CallbackWants

\* A client subscribes.
LEMMA SubWants ==
  ASSUME WantInv, Places, Places', NEW c \in Clients, Sub(c)
  PROVE  WantInv'
<1> DEFINE b == Home[c]
<1>1. PICK n \in TopicsOf[c], sc \in ClientScopes :
        LET r == s_cb_sub(br[b], c, Tenant(c), n, sc) IN
        /\ HasLocal(br[b], Key(c))
        /\ ClientDoes(c, r)
        /\ late' = late \cup UNION {Unsent(b, x) : x \in Wrote(r, "subS")}
        /\ UNCHANGED stray
  BY DEF Sub
<1>2. PICK r, topic : /\ r = s_cb_sub(br[b], c, Tenant(c), n, sc)
                      /\ topic = SubTopic(Tenant(c), n, sc, Scope)
  OBVIOUS
<1>3. b \in Brokers /\ Shape(br[b]) /\ TrieCounts(br[b]) /\ topic \in SubTopics
  <2>1. n \in UNION Range(TopicsOf)
    BY PubSubAssumption DEF Range
  <2> QED
    BY <1>2, <2>1, PubSubAssumption DEF Places, SubTopics
<1>4. /\ Finish(b, r, wantUp, wantDown, pubUp, pubDown) /\ UNCHANGED <<pairs, pubS, pubN>>
      /\ late' = late \cup UNION {Unsent(b, x) : x \in Wrote(r, "subS")}
      /\ stray' = stray
  BY <1>1, <1>2 DEF ClientDoes
<1>5. /\ Stays(br[b], r.b)
      /\ \/ TellsAll(br[b], r, {}) /\ SameOn(br[b], r.b)
         \/ /\ TellsAll(br[b], r, {[cmd |-> "SUB", topic |-> topic]})
            /\ ~On(br[b], c, topic)
            /\ \A z, x : On(r.b, z, x) <=> On(br[b], z, x) \/ (z = c /\ x = topic)
  <2> DEFINE x == br[b]
  <2>1. Shape(x) /\ TrieCounts(x) /\ HasLocal(x, <<c, Tenant(c)>>)
    BY <1>1, <1>3 DEF Key
  <2>3. PICK t : t = Tenant(c) /\ topic = SubTopic(t, n, sc, Scope)
    BY <1>2
  <2> HIDE DEF x
  <2>2. LET p == s_cb_sub(x, c, Tenant(c), n, sc)
        IN /\ Stays(x, p.b)
           /\ \/ TellsAll(x, p, {}) /\ SameOn(x, p.b)
              \/ /\ TellsAll(x, p, {[cmd |-> "SUB", topic |-> topic]})
                 /\ ~On(x, c, topic)
                 /\ \A z, y : On(p.b, z, y) <=> On(x, z, y) \/ (z = c /\ y = topic)
    BY <2>1, <2>3, SubTells
  <2> QED
    BY <1>2, <2>2 DEF x
<1> HIDE DEF b
<1>6. CASE TellsAll(br[b], r, {}) /\ SameOn(br[b], r.b)
  <2>1. late' = late
    BY <1>4, <1>6 DEF TellsAll
  <2> QED
    BY <1>3, <1>4, <1>5, <1>6, <2>1, QuietWants
<1>7. CASE /\ TellsAll(br[b], r, {[cmd |-> "SUB", topic |-> topic]})
           /\ ~On(br[b], c, topic)
           /\ \A z, x : On(r.b, z, x) <=> On(br[b], z, x) \/ (z = c /\ x = topic)
  <2> DEFINE m == [cmd |-> "SUB", topic |-> topic]
             M == {m}
  <2>1. br'[b] = r.b
    BY <1>3, <1>4 DEF Finish, Places
  <2>2. /\ Local(b, topic)' = Local(b, topic) + 1
        /\ \A t : t # topic => Local(b, t)' = Local(b, t)
    BY <1>3, <1>7, <2>1, LocalMoves
  <2>3. \A t : Below(b, t)' = Below(b, t) /\ FromAbove(b, t)' = FromAbove(b, t)
    BY <1>4 DEF Below, FromAbove
  <2>4. /\ ForNorth(b, topic)' = ForNorth(b, topic) + 1
        /\ ForSouth(b, topic)' = ForSouth(b, topic) + 1
    <3>1. Local(b, topic) \in Nat /\ Below(b, topic) \in Nat /\ FromAbove(b, topic) \in Nat
      BY <1>3, WantedNumbers DEF Below, FromAbove
    <3> QED
      BY <2>2, <2>3, <3>1 DEF ForNorth, ForSouth
  <2>5. \A t \in SubTopics : t # topic =>
          ForNorth(b, t)' = ForNorth(b, t) /\ ForSouth(b, t)' = ForSouth(b, t)
    BY <2>2, <2>3 DEF ForNorth, ForSouth
  <2>6. b \in Lower /\ ~br[b].north => <<b, topic>> \in late'
    <3>1. m \in Wrote(r, "subS")
      BY <1>7 DEF TellsAll
    <3>2. b \in Lower /\ ~br[b].north => Unsent(b, m) = {<<b, topic>>}
      BY DEF Unsent, Lower
    <3> QED
      BY <1>4, <3>1, <3>2
  <2>7. PICK cmd : cmd = "SUB"
    OBVIOUS
  <2>8. CountsAsAdded(b, M, IF br[b].north THEN M ELSE {})
    <3>1. cmd \in {"SUB", "UNSUB"}
      BY <2>7
    <3>2. LET N == {[cmd |-> cmd, topic |-> topic]}
          IN CountsAsAdded(b, N, IF br[b].north THEN N ELSE {})
      BY <1>3, <2>4, <2>5, <2>6, <2>7, <3>1, ChangeCounts
    <3> QED
      BY <2>7, <3>2
  <2>9. M \subseteq Wants /\ M \subseteq {m} /\ TellsAll(br[b], r, M)
    BY <1>3, <1>7 DEF Wants
  <2>10. late \subseteq late' /\ stray \subseteq stray'
    BY <1>4
  <2> HIDE DEF M, m
  <2> QED
    BY <1>3, <1>4, <1>5, <2>8, <2>9, <2>10, CallbackWants
<1> QED
  BY <1>5, <1>6, <1>7

\* A client unsubscribes.
LEMMA UnsubWants ==
  ASSUME WantInv, Places, Places', NEW c \in Clients, Unsub(c)
  PROVE  WantInv'
<1> DEFINE b == Home[c]
<1>1. PICK n \in TopicsOf[c], sc \in ClientScopes :
        LET r == s_cb_unsub(br[b], c, Tenant(c), n, sc)
            t == SubTopic(Tenant(c), n, sc, Scope)
            others == r.ps # {} /\ t \notin Topics(br[b], c)
        IN /\ HasLocal(br[b], Key(c))
           /\ ClientDoes(c, r)
           /\ stray' = IF others THEN stray \cup {<<b, t>>} ELSE stray
           /\ UNCHANGED late
  BY DEF Unsub
<1>2. PICK r, topic : /\ r = s_cb_unsub(br[b], c, Tenant(c), n, sc)
                      /\ topic = SubTopic(Tenant(c), n, sc, Scope)
  OBVIOUS
<1>3. /\ b \in Brokers /\ Shape(br[b]) /\ TrieCounts(br[b]) /\ topic \in SubTopics
      /\ c \in Sockids
  <2>1. n \in UNION Range(TopicsOf)
    BY PubSubAssumption DEF Range
  <2> QED
    BY <1>2, <2>1, PubSubAssumption DEF Places, SubTopics
<1>4. /\ Finish(b, r, wantUp, wantDown, pubUp, pubDown) /\ UNCHANGED <<pairs, pubS, pubN>>
      /\ stray' = IF r.ps # {} /\ topic \notin Topics(br[b], c)
                  THEN stray \cup {<<b, topic>>} ELSE stray
      /\ late' = late
  BY <1>1, <1>2 DEF ClientDoes
<1>5. /\ Stays(br[b], r.b)
      /\ \/ r.ps = {} /\ TellsAll(br[b], r, {}) /\ SameOn(br[b], r.b)
         \/ /\ TellsAll(br[b], r, {[cmd |-> "UNSUB", topic |-> topic]}) /\ r.ps # {}
            /\ topic \in Topics(br[b], c) => On(br[b], c, topic)
            /\ \A z, x : On(r.b, z, x) <=>
                 On(br[b], z, x) /\ ~(z = c /\ x = topic /\ topic \in Topics(br[b], c))
  <2> DEFINE x == br[b]
  <2>1. Shape(x) /\ TrieCounts(x) /\ HasLocal(x, <<c, Tenant(c)>>)
    BY <1>1, <1>3 DEF Key
  <2> HIDE DEF x
  <2>2. LET p == s_cb_unsub(x, c, Tenant(c), n, sc)
        IN /\ Stays(x, p.b)
           /\ \/ p.ps = {} /\ TellsAll(x, p, {}) /\ SameOn(x, p.b)
              \/ /\ TellsAll(x, p, {[cmd |-> "UNSUB", topic |-> topic]}) /\ p.ps # {}
                 /\ topic \in Topics(x, c) => On(x, c, topic)
                 /\ \A z, y : On(p.b, z, y) <=>
                      On(x, z, y) /\ ~(z = c /\ y = topic /\ topic \in Topics(x, c))
    BY <1>2, <1>3, <2>1, UnsubTells
  <2> QED
    BY <1>2, <2>2 DEF x
<1> HIDE DEF b
<1>6. CASE r.ps = {} /\ TellsAll(br[b], r, {}) /\ SameOn(br[b], r.b)
  <2>1. late' = late /\ stray' = stray
    BY <1>4, <1>6
  <2> QED
    BY <1>3, <1>4, <1>5, <1>6, <2>1, QuietWants
<1>7. CASE /\ TellsAll(br[b], r, {[cmd |-> "UNSUB", topic |-> topic]}) /\ r.ps # {}
           /\ topic \in Topics(br[b], c) => On(br[b], c, topic)
           /\ \A z, x : On(r.b, z, x) <=>
                On(br[b], z, x) /\ ~(z = c /\ x = topic /\ topic \in Topics(br[b], c))
  <2> DEFINE m == [cmd |-> "UNSUB", topic |-> topic]
             M == {m}
  <2>1. br'[b] = r.b
    BY <1>3, <1>4 DEF Finish, Places
  <2>2. /\ topic \in Topics(br[b], c) => Local(b, topic)' + 1 = Local(b, topic)
        /\ topic \notin Topics(br[b], c) => Local(b, topic)' = Local(b, topic)
        /\ \A t : t # topic => Local(b, t)' = Local(b, t)
    <3>1. CASE topic \in Topics(br[b], c)
      <4>1. \A z, x : On(r.b, z, x) <=> On(br[b], z, x) /\ ~(z = c /\ x = topic)
        BY <1>7, <3>1
      <4> QED
        BY <1>3, <1>7, <2>1, <3>1, <4>1, LocalMoves
    <3>2. CASE topic \notin Topics(br[b], c)
      <4>1. SameOn(br[b], r.b)
        BY <1>7, <3>2 DEF SameOn
      <4> QED
        BY <1>3, <2>1, <3>2, <4>1, LocalMoves
    <3> QED
      BY <3>1, <3>2
  <2>3. \A t : Below(b, t)' = Below(b, t) /\ FromAbove(b, t)' = FromAbove(b, t)
    BY <1>4 DEF Below, FromAbove
  <2>4. topic \notin Topics(br[b], c) => <<b, topic>> \in stray'
    BY <1>4, <1>7
  <2>5. /\ ForNorth(b, topic)' + 1 >= ForNorth(b, topic)
        /\ ForSouth(b, topic)' + 1 >= ForSouth(b, topic)
        /\ <<b, topic>> \notin stray' =>
             /\ ForNorth(b, topic)' + 1 <= ForNorth(b, topic)
             /\ ForSouth(b, topic)' + 1 <= ForSouth(b, topic)
    <3>1. PICK l \in Nat, n2 \in Nat, p \in Nat, q \in Nat :
            /\ l = Local(b, topic) /\ n2 = Local(b, topic)'
            /\ p = Below(b, topic) /\ q = FromAbove(b, topic)
      <4>1. Local(b, topic) \in Nat /\ Local(b, topic)' \in Nat
        BY <1>3, WantedNumbers
      <4>2. Below(b, topic) \in Nat /\ FromAbove(b, topic) \in Nat
        BY DEF Below, FromAbove
      <4> QED
        BY <4>1, <4>2
    <3>2. /\ ForNorth(b, topic) = l + p /\ ForNorth(b, topic)' = n2 + p
          /\ ForSouth(b, topic) = l + p + q /\ ForSouth(b, topic)' = n2 + p + q
      BY <2>3, <3>1 DEF ForNorth, ForSouth
    <3>3. n2 + 1 >= l /\ (<<b, topic>> \notin stray' => n2 + 1 = l)
      BY <2>2, <2>4, <3>1
    <3> QED
      BY <3>2, <3>3
  <2>6. \A t \in SubTopics : t # topic =>
          ForNorth(b, t)' = ForNorth(b, t) /\ ForSouth(b, t)' = ForSouth(b, t)
    BY <2>2, <2>3 DEF ForNorth, ForSouth
  <2>7. PICK cmd : cmd = "UNSUB"
    OBVIOUS
  <2>8. CountsAsAdded(b, M, IF br[b].north THEN M ELSE {})
    <3>1. cmd \in {"SUB", "UNSUB"} /\ cmd # "SUB"
      BY <2>7
    <3>2. LET N == {[cmd |-> cmd, topic |-> topic]}
          IN CountsAsAdded(b, N, IF br[b].north THEN N ELSE {})
      BY <1>3, <2>5, <2>6, <3>1, ChangeCounts
    <3> QED
      BY <2>7, <3>2
  <2>9. M \subseteq Wants /\ M \subseteq {m} /\ TellsAll(br[b], r, M)
    BY <1>3, <1>7 DEF Wants
  <2>10. late \subseteq late' /\ stray \subseteq stray'
    BY <1>4
  <2> HIDE DEF M, m
  <2> QED
    BY <1>3, <1>4, <1>5, <2>8, <2>9, <2>10, CallbackWants
<1> QED
  BY <1>5, <1>6, <1>7

\* A client leaves.
LEMMA LeaveWants ==
  ASSUME WantInv, Places, Places', NEW c \in Clients, Leave(c)
  PROVE  WantInv'
<1> DEFINE b == Home[c]
           r == s_cb_unreg_cli(br[b], c, Tenant(c))
<1>1. /\ HasLocal(br[b], Key(c)) /\ UNCHANGED <<pairs, pubS, pubN, late, stray>>
      /\ Finish(b, r, wantUp, wantDown, pubUp, pubDown)
  BY DEF Leave, ClientDoes
<1>2. b \in Brokers /\ Shape(br[b]) /\ TrieCounts(br[b])
  BY PubSubAssumption DEF Places
<1>3. /\ Stays(br[b], r.b) /\ TellsAll(br[b], r, {}) /\ ~HasLocal(r.b, Key(c))
      /\ \A z, x : On(r.b, z, x) => On(br[b], z, x)
  <2> DEFINE x == br[b]
  <2>1. Shape(x) /\ TrieCounts(x) /\ HasLocal(x, <<c, Tenant(c)>>)
    BY <1>1, <1>2 DEF Key
  <2> HIDE DEF x
  <2>2. LET p == s_cb_unreg_cli(x, c, Tenant(c))
        IN /\ Stays(x, p.b) /\ TellsAll(x, p, {}) /\ ~HasLocal(p.b, <<c, Tenant(c)>>)
           /\ \A z, y : On(p.b, z, y) => On(x, z, y)
    BY <2>1, UnregTells
  <2> QED
    BY <2>2 DEF x, Key
<1> HIDE DEF r
<1>4. ~AllHere'
  <2>1. br'[b] = r.b
    BY <1>1, <1>2 DEF Finish, Places
  <2> QED
    BY <1>3, <2>1 DEF AllHere
<1> HIDE DEF b
<1> QED
  BY <1>1, <1>2, <1>3, <1>4, QuietWants

\* An XPUB socket takes an (un)subscription from below.
LEMMA WantUpSockets ==
  ASSUME Sockets, NEW k \in Pairs, ReceiveWantUp(k), NEW wu,
         wu = [wantUp EXCEPT ![k] = Tail(@)]
  PROVE  /\ Connected(k) /\ Head(wantUp[k]) \in Wants
         /\ Typed(wu, wantDown, pubS', pubN', subS, subN)
         /\ InStep(wu, wantDown, pubS', pubN', subS, subN)
<1> DEFINE b == Above(k)
           m == Head(wantUp[k])
           old == pubS[b][m.topic]
           new == IF m.cmd = "SUB" THEN old \cup {k} ELSE old \ {k}
<1>1. Typed(wantUp, wantDown, pubS, pubN, subS, subN)
      /\ InStep(wantUp, wantDown, pubS, pubN, subS, subN)
  BY DEF Sockets
<1>2. wantUp[k] # <<>> /\ pubS' = [pubS EXCEPT ![b][m.topic] = new] /\ pubN' = pubN
  BY DEF ReceiveWantUp
<1>3. PICK t0 \in SubTopics : TRUE
  <2>1. wantUp[k] \in Seq(Wants)
    BY <1>1 DEF Typed
  <2>2. Head(wantUp[k]) \in Wants
    BY <1>2, <2>1
  <2> QED
    BY <2>2 DEF Wants
<1>4. Connected(k)
  BY <1>1, <1>2, <1>3 DEF InStep
<1>5. PICK q \in Seq(Wants) : q = wantUp[k] /\ q # <<>>
  BY <1>1, <1>2 DEF Typed
<1>6. m \in Wants /\ m.topic \in SubTopics /\ Tail(q) \in Seq(Wants) /\ m = Head(q)
  <2>1. Head(q) \in Wants /\ Tail(q) \in Seq(Wants)
    BY <1>5
  <2> QED
    BY <1>5, <2>1 DEF Wants
<1>7. b \in Brokers
  BY PubSubAssumption DEF Pairs, Above
<1>8. pubS \in [Brokers -> [SubTopics -> SUBSET Pairs]]
  BY <1>1 DEF Typed
<1>9. /\ pubS' \in [Brokers -> [SubTopics -> SUBSET Pairs]]
      /\ \A a \in Brokers : a # b => pubS'[a] = pubS[a]
      /\ \A t \in SubTopics : pubS'[b][t] = IF t = m.topic THEN new ELSE pubS[b][t]
  <2>1. old \in SUBSET Pairs
    BY <1>6, <1>7, <1>8
  <2>2. new \in SUBSET Pairs
    BY <2>1
  <2> HIDE DEF new, m, b
  <2> QED
    BY <1>2, <1>6, <1>7, <1>8, <2>2
<1>10. \A a \in Brokers, t \in SubTopics : \A j \in Pairs :
         j # k => (j \in pubS'[a][t] <=> j \in pubS[a][t])
  <2> SUFFICES ASSUME NEW a \in Brokers, NEW t \in SubTopics, NEW j \in Pairs, j # k
               PROVE  j \in pubS'[a][t] <=> j \in pubS[a][t]
    OBVIOUS
  <2> HIDE DEF b, m
  <2> QED
    BY <1>9
<1>11. \A j \in Pairs : wu[j] = IF j = k THEN Tail(q) ELSE wantUp[j]
  BY <1>1, <1>5 DEF Typed
<1> HIDE DEF new
<1>12. ASSUME NEW t \in SubTopics
       PROVE  Arrives(wu[k], t, k, pubS'[b][t], subN[k][t])
  <2> DEFINE H == pubS[b][t]
             G == pubS'[b][t]
             n == subN[k][t]
  <2>1. Arrives(q, t, k, H, n)
    BY <1>1, <1>4, <1>5 DEF InStep
  <2>2. Head(q).topic # t => (k \in G <=> k \in H)
    BY <1>6, <1>9
  <2>3. Head(q).topic = t => (k \in G <=> Head(q).cmd = "SUB")
    BY <1>6, <1>9 DEF new
  <2> HIDE DEF H, G, n, b, m
  <2>4. Arrives(Tail(q), t, k, G, n)
    BY <1>5, <2>1, <2>2, <2>3, ArrivesTail
  <2> QED
    BY <1>11, <2>4 DEF G, n
<1>13. ASSUME NEW j \in Pairs, NEW t \in SubTopics
       PROVE  IF Connected(j)
              THEN /\ Arrives(wu[j], t, j, pubS'[Above(j)][t], subN[j][t])
                   /\ Arrives(wantDown[j], t, t, pubN'[j], subS[Above(j)][t])
              ELSE /\ wu[j] = <<>> /\ subN[j][t] = 0 /\ j \notin pubS'[Above(j)][t]
                   /\ wantDown[j] = <<>> /\ t \notin pubN'[j]
  <2>1. CASE j = k
    BY <1>1, <1>2, <1>4, <1>12, <2>1 DEF InStep
  <2>2. CASE j # k
    <3>1. wu[j] = wantUp[j] /\ Above(j) \in Brokers
      BY <1>11, <2>2, PubSubAssumption DEF Pairs, Above
    <3>2. j \in pubS'[Above(j)][t] <=> j \in pubS[Above(j)][t]
      BY <1>10, <2>2, <3>1
    <3> QED
      BY <1>1, <1>2, <3>1, <3>2 DEF InStep, Arrives
  <2> QED
    BY <2>1, <2>2
<1>14. InStep(wu, wantDown, pubS', pubN', subS, subN)
  BY <1>13 DEF InStep
<1>15. wu \in [Pairs -> Seq(Wants)]
  <2>1. wantUp \in [Pairs -> Seq(Wants)]
    BY <1>1 DEF Typed
  <2>2. wu = [wantUp EXCEPT ![k] = Tail(q)]
    BY <1>5
  <2> QED
    BY <1>6, <2>1, <2>2
<1>16. \A a \in Brokers, t \in SubTopics : \A j \in pubS'[a][t] : Above(j) = a
  <2> SUFFICES ASSUME NEW a \in Brokers, NEW t \in SubTopics, NEW j \in pubS'[a][t]
               PROVE  Above(j) = a
    OBVIOUS
  <2>1. j \in Pairs
    BY <1>9
  <2>2. CASE j # k
    BY <1>1, <1>10, <2>1, <2>2 DEF Typed
  <2>3. CASE j = k
    <3>1. a # b => j \in pubS[a][t]
      BY <1>9
    <3> QED
      BY <1>1, <2>3, <3>1 DEF Typed
  <2> QED
    BY <2>2, <2>3
<1>17. Typed(wu, wantDown, pubS', pubN', subS, subN)
  BY <1>1, <1>2, <1>9, <1>15, <1>16 DEF Typed
<1> QED
  BY <1>4, <1>6, <1>14, <1>17

\* pubS hands the broker the first subscription and the last unsubscription.
LEMMA WantUpWants ==
  ASSUME WantInv, Places, Places', NEW k \in Pairs, ReceiveWantUp(k)
  PROVE  WantInv'
<1> DEFINE b == Above(k)
           m == Head(wantUp[k])
           old == pubS[b][m.topic]
           new == IF m.cmd = "SUB" THEN old \cup {k} ELSE old \ {k}
           tell == old # new /\ (old = {} \/ new = {})
           r == IF tell THEN s_on_pubS_msg(br[b], m) ELSE Nothing(br[b])
           wu == [wantUp EXCEPT ![k] = Tail(@)]
<1>1. /\ wantUp[k] # <<>> /\ pubS' = [pubS EXCEPT ![b][m.topic] = new]
      /\ UNCHANGED <<pairs, pubN, stray>>
      /\ Finish(b, r, wu, wantDown, pubUp, pubDown)
      /\ late' = IF tell THEN late \cup Unsent(b, m) ELSE late
  BY DEF ReceiveWantUp
<1>2. /\ Sockets /\ b \in Brokers /\ Shape(br[b]) /\ TrieCounts(br[b]) /\ DOMAIN br = Brokers
  BY PubSubAssumption DEF WantInv, Places, Pairs, Above
<1>3. /\ m \in Wants /\ Typed(wu, wantDown, pubS', pubN', subS, subN)
      /\ InStep(wu, wantDown, pubS', pubN', subS, subN)
  BY <1>2, WantUpSockets
<1>4. PICK cmd \in {"SUB", "UNSUB"}, topic \in SubTopics : m = [cmd |-> cmd, topic |-> topic]
  BY <1>3 DEF Wants
<1>5. /\ pubS'[b][topic] = new /\ \A t \in SubTopics : t # topic => pubS'[b][t] = pubS[b][t]
      /\ \A a \in Brokers : a # b => pubS'[a] = pubS[a]
      /\ old = pubS[b][topic]
      /\ new = IF cmd = "SUB" THEN old \cup {k} ELSE old \ {k}
  <2>1. pubS \in [Brokers -> [SubTopics -> SUBSET Pairs]]
    BY <1>2 DEF Sockets, Typed
  <2>2. m.topic = topic /\ m.cmd = cmd
    BY <1>4
  <2>3. old = pubS[b][topic] /\ new = IF cmd = "SUB" THEN old \cup {k} ELSE old \ {k}
    BY <2>2
  <2> HIDE DEF new, old, m, b
  <2> QED
    BY <1>1, <1>2, <2>1, <2>2, <2>3
<1>6. PICK M : M = IF tell THEN {m} ELSE {}
  OBVIOUS
<1>7. /\ r.b = br[b] /\ TellsAll(br[b], r, M)
  <2> DEFINE x == br[b]
  <2> HIDE DEF x
  <2>1. /\ s_on_pubS_msg(x, m).b = x /\ TellsAll(x, s_on_pubS_msg(x, m), {m})
        /\ Nothing(x).b = x /\ TellsAll(x, Nothing(x), {})
    BY RelayTells
  <2> QED
    BY <1>6, <2>1 DEF x
<1> HIDE DEF r
<1>8. Sockets'
  <2>1. M \subseteq Wants /\ M \subseteq {m}
    BY <1>3, <1>6
  <2>2. Wrote(r, "subS") \subseteq M /\ Wrote(r, "subN") \subseteq M
    BY <1>7 DEF TellsAll
  <2>3. \A a \in Brokers : br[a].north = (a # Root /\ pairs[a] > 0)
    BY <1>2 DEF Sockets
  <2> HIDE DEF wu, m, b, tell, new, old
  <2> QED
    BY <1>1, <1>2, <1>3, <1>7, <2>1, <2>2, <2>3, FinishSockets
<1>9. /\ \A t : Local(b, t)' = Local(b, t) /\ FromAbove(b, t)' = FromAbove(b, t)
      /\ \A t \in SubTopics : t # topic => Below(b, t)' = Below(b, t)
      /\ ~tell => Below(b, topic)' = Below(b, topic)
      /\ tell => IF cmd = "SUB" THEN Below(b, topic) = 0 /\ Below(b, topic)' = 1
                                ELSE Below(b, topic) = 1 /\ Below(b, topic)' = 0
  <2>1. br'[b] = br[b]
    BY <1>1, <1>2, <1>7 DEF Finish
  <2>2. \A t : Local(b, t)' = Local(b, t)
    BY <2>1 DEF Local, Here
  <2>3. \A t : FromAbove(b, t)' = FromAbove(b, t)
    BY <1>1 DEF FromAbove
  <2>4. \A t \in SubTopics : t # topic => Below(b, t)' = Below(b, t)
    BY <1>5 DEF Below
  <2>5. /\ Below(b, topic) = IF old = {} THEN 0 ELSE 1
        /\ Below(b, topic)' = IF new = {} THEN 0 ELSE 1
    BY <1>5 DEF Below
  <2>6. CASE ~tell
    <3>1. old = new \/ (old # {} /\ new # {})
      BY <2>6
    <3> HIDE DEF old, new
    <3>2. Below(b, topic)' = Below(b, topic)
      BY <2>5, <3>1
    <3> QED
      BY <2>2, <2>3, <2>4, <2>6, <3>2
  <2>7. CASE tell
    <3>1. IF cmd = "SUB" THEN old = {} /\ new # {} ELSE old # {} /\ new = {}
      <4>1. old # new /\ (old = {} \/ new = {})
        BY <2>7
      <4>2. CASE cmd = "SUB"
        <5>1. new = old \cup {k}
          BY <1>5, <4>2
        <5> HIDE DEF old, new
        <5> QED
          BY <4>1, <4>2, <5>1
      <4>3. CASE cmd # "SUB"
        <5>1. new = old \ {k}
          BY <1>5, <4>3
        <5> HIDE DEF old, new
        <5> QED
          BY <4>1, <4>3, <5>1
      <4> QED
        BY <4>2, <4>3
    <3> HIDE DEF old, new
    <3> QED
      BY <2>2, <2>3, <2>4, <2>5, <2>7, <3>1
  <2> QED
    BY <2>6, <2>7
<1> HIDE DEF wu, b, tell, new, old
<1>10. CountsAsAdded(b, M, IF br[b].north THEN M ELSE {})
  <2>1. \A t \in SubTopics : t # topic =>
          ForNorth(b, t)' = ForNorth(b, t) /\ ForSouth(b, t)' = ForSouth(b, t)
    BY <1>9 DEF ForNorth, ForSouth
  <2>2. CASE ~tell
    <3>1. \A t \in SubTopics :
            ForNorth(b, t)' = ForNorth(b, t) /\ ForSouth(b, t)' = ForSouth(b, t)
      <4>1. ForNorth(b, topic)' = ForNorth(b, topic) /\ ForSouth(b, topic)' = ForSouth(b, topic)
        BY <1>9, <2>2 DEF ForNorth, ForSouth
      <4> QED
        BY <2>1, <4>1
    <3>2. \A t \in SubTopics :
            ForNorth(b, t)' <= ForNorth(b, t) /\ ForSouth(b, t)' <= ForSouth(b, t)
      <4>1. \A t : ForNorth(b, t) \in Nat /\ ForSouth(b, t) \in Nat
        BY <1>2, WantedNumbers
      <4> QED
        BY <3>1, <4>1
    <3>3. CountsAsAdded(b, {}, {})
      BY <1>2, <3>1, <3>2, QuietCounts
    <3>4. M = {}
      BY <1>6, <2>2
    <3> QED
      BY <3>3, <3>4
  <2>3. CASE tell
    <3>1. PICK l \in Nat, q \in Nat : l = Local(b, topic) /\ q = FromAbove(b, topic)
      <4>1. Local(b, topic) \in Nat /\ FromAbove(b, topic) \in Nat
        BY <1>2, WantedNumbers DEF FromAbove
      <4> QED
        BY <4>1
    <3>2. /\ cmd = "SUB" => /\ ForNorth(b, topic) = l + 0 /\ ForSouth(b, topic) = l + 0 + q
                            /\ ForNorth(b, topic)' = l + 1 /\ ForSouth(b, topic)' = l + 1 + q
          /\ cmd # "SUB" => /\ ForNorth(b, topic) = l + 1 /\ ForSouth(b, topic) = l + 1 + q
                            /\ ForNorth(b, topic)' = l + 0 /\ ForSouth(b, topic)' = l + 0 + q
      BY <1>9, <2>3, <3>1 DEF ForNorth, ForSouth
    <3>3. IF cmd = "SUB"
          THEN /\ ForNorth(b, topic)' = ForNorth(b, topic) + 1
               /\ ForSouth(b, topic)' = ForSouth(b, topic) + 1
          ELSE /\ ForNorth(b, topic)' + 1 >= ForNorth(b, topic)
               /\ ForSouth(b, topic)' + 1 >= ForSouth(b, topic)
               /\ <<b, topic>> \notin stray' =>
                    /\ ForNorth(b, topic)' + 1 <= ForNorth(b, topic)
                    /\ ForSouth(b, topic)' + 1 <= ForSouth(b, topic)
      BY <3>2
    <3>4. cmd = "SUB" /\ b \in Lower /\ ~br[b].north => <<b, topic>> \in late'
      <4>1. m.cmd = cmd /\ m.topic = topic
        BY <1>4
      <4>2. cmd = "SUB" /\ b \in Lower /\ ~br[b].north => Unsent(b, m) = {<<b, topic>>}
        BY <4>1 DEF Unsent, Lower
      <4> QED
        BY <1>1, <2>3, <4>2
    <3>5. LET N == {[cmd |-> cmd, topic |-> topic]}
          IN CountsAsAdded(b, N, IF br[b].north THEN N ELSE {})
      BY <1>2, <2>1, <3>3, <3>4, ChangeCounts
    <3>6. M = {[cmd |-> cmd, topic |-> topic]}
      BY <1>4, <1>6, <2>3
    <3> QED
      BY <3>5, <3>6
  <2> QED
    BY <2>2, <2>3
<1>11. AllHere' => AllHere
  <2>1. br' = [br EXCEPT ![b] = br[b]]
    BY <1>1, <1>7 DEF Finish
  <2>2. \A a \in Brokers : br'[a] = br[a]
    BY <1>2, <2>1
  <2> QED
    BY <2>2, PubSubAssumption DEF AllHere
<1>12. CountsAsAdded(b, Wrote(r, "subS"), Wrote(r, "subN"))
       /\ (~br[b].north => Wrote(r, "subN") = {})
  BY <1>7, <1>10 DEF TellsAll
<1>13. late \subseteq late' /\ stray \subseteq stray'
  BY <1>1
<1> QED
  BY <1>1, <1>2, <1>5, <1>8, <1>11, <1>12, <1>13, CountsKeep

\* An XPUB socket takes an (un)subscription from above.
LEMMA WantDownSockets ==
  ASSUME Sockets, NEW k \in Pairs, ReceiveWantDown(k), NEW wd,
         wd = [wantDown EXCEPT ![k] = Tail(@)]
  PROVE  /\ Connected(k) /\ Head(wantDown[k]) \in Wants
         /\ Typed(wantUp, wd, pubS', pubN', subS, subN)
         /\ InStep(wantUp, wd, pubS', pubN', subS, subN)
<1> DEFINE m == Head(wantDown[k])
           new == IF m.cmd = "SUB" THEN pubN[k] \cup {m.topic} ELSE pubN[k] \ {m.topic}
<1>1. Typed(wantUp, wantDown, pubS, pubN, subS, subN)
      /\ InStep(wantUp, wantDown, pubS, pubN, subS, subN)
  BY DEF Sockets
<1>2. wantDown[k] # <<>> /\ pubN' = [pubN EXCEPT ![k] = new] /\ pubS' = pubS
  BY DEF ReceiveWantDown
<1>3. PICK t0 \in SubTopics : TRUE
  <2>1. wantDown[k] \in Seq(Wants)
    BY <1>1 DEF Typed
  <2>2. Head(wantDown[k]) \in Wants
    BY <1>2, <2>1
  <2> QED
    BY <2>2 DEF Wants
<1>4. Connected(k)
  BY <1>1, <1>2, <1>3 DEF InStep
<1>5. PICK q \in Seq(Wants) : q = wantDown[k] /\ q # <<>>
  BY <1>1, <1>2 DEF Typed
<1>6. m \in Wants /\ m.topic \in SubTopics /\ Tail(q) \in Seq(Wants) /\ m = Head(q)
  <2>1. Head(q) \in Wants /\ Tail(q) \in Seq(Wants)
    BY <1>5
  <2> QED
    BY <1>5, <2>1 DEF Wants
<1>7. /\ pubN' \in [Pairs -> SUBSET SubTopics] /\ pubN'[k] = new
      /\ \A j \in Pairs : j # k => pubN'[j] = pubN[j]
  <2>1. pubN \in [Pairs -> SUBSET SubTopics]
    BY <1>1 DEF Typed
  <2>2. new \in SUBSET SubTopics
    BY <1>6, <2>1
  <2> HIDE DEF new
  <2> QED
    BY <1>2, <2>1, <2>2
<1>8. \A j \in Pairs : wd[j] = IF j = k THEN Tail(q) ELSE wantDown[j]
  BY <1>1, <1>5 DEF Typed
<1> HIDE DEF new
<1>9. ASSUME NEW t \in SubTopics
      PROVE  Arrives(wd[k], t, t, pubN'[k], subS[Above(k)][t])
  <2> DEFINE H == pubN[k]
             G == pubN'[k]
             n == subS[Above(k)][t]
  <2>1. Arrives(q, t, t, H, n)
    BY <1>1, <1>4, <1>5 DEF InStep
  <2>2. Head(q).topic # t => (t \in G <=> t \in H)
    BY <1>6, <1>7 DEF new
  <2>3. Head(q).topic = t => (t \in G <=> Head(q).cmd = "SUB")
    BY <1>6, <1>7 DEF new
  <2> HIDE DEF H, G, n, m
  <2>4. Arrives(Tail(q), t, t, G, n)
    BY <1>5, <2>1, <2>2, <2>3, ArrivesTail
  <2> QED
    BY <1>8, <2>4 DEF G, n
<1>10. ASSUME NEW j \in Pairs, NEW t \in SubTopics
       PROVE  IF Connected(j)
              THEN /\ Arrives(wantUp[j], t, j, pubS'[Above(j)][t], subN[j][t])
                   /\ Arrives(wd[j], t, t, pubN'[j], subS[Above(j)][t])
              ELSE /\ wantUp[j] = <<>> /\ subN[j][t] = 0 /\ j \notin pubS'[Above(j)][t]
                   /\ wd[j] = <<>> /\ t \notin pubN'[j]
  <2>1. CASE j = k
    BY <1>1, <1>2, <1>4, <1>9, <2>1 DEF InStep
  <2>2. CASE j # k
    <3>1. wd[j] = wantDown[j] /\ pubN'[j] = pubN[j]
      BY <1>7, <1>8, <2>2
    <3> QED
      BY <1>1, <1>2, <3>1 DEF InStep
  <2> QED
    BY <2>1, <2>2
<1>11. InStep(wantUp, wd, pubS', pubN', subS, subN)
  BY <1>10 DEF InStep
<1>12. wd \in [Pairs -> Seq(Wants)]
  <2>1. wantDown \in [Pairs -> Seq(Wants)]
    BY <1>1 DEF Typed
  <2>2. wd = [wantDown EXCEPT ![k] = Tail(q)]
    BY <1>5
  <2> QED
    BY <1>6, <2>1, <2>2
<1>13. Typed(wantUp, wd, pubS', pubN', subS, subN)
  BY <1>1, <1>2, <1>7, <1>12 DEF Typed
<1> QED
  BY <1>4, <1>6, <1>11, <1>13

\* pubN hands the broker every change.
LEMMA WantDownWants ==
  ASSUME WantInv, Places, Places', NEW k \in Pairs, ReceiveWantDown(k)
  PROVE  WantInv'
<1> DEFINE b == k[1]
           m == Head(wantDown[k])
           new == IF m.cmd = "SUB" THEN pubN[k] \cup {m.topic} ELSE pubN[k] \ {m.topic}
           r == IF new # pubN[k] THEN s_on_pubN_msg(br[b], m) ELSE Nothing(br[b])
           wd == [wantDown EXCEPT ![k] = Tail(@)]
<1>1. /\ wantDown[k] # <<>> /\ pubN' = [pubN EXCEPT ![k] = new]
      /\ UNCHANGED <<pairs, pubS, late, stray>>
      /\ Finish(b, r, wantUp, wd, pubUp, pubDown)
  BY DEF ReceiveWantDown
<1>2. /\ Sockets /\ b \in Brokers /\ b \in Lower /\ Shape(br[b]) /\ TrieCounts(br[b])
      /\ DOMAIN br = Brokers
  BY PubSubAssumption DEF WantInv, Places, Pairs, Lower
<1>3. /\ m \in Wants /\ Typed(wantUp, wd, pubS', pubN', subS, subN) /\ Connected(k)
      /\ InStep(wantUp, wd, pubS', pubN', subS, subN)
  BY <1>2, WantDownSockets
<1>4. PICK cmd \in {"SUB", "UNSUB"}, topic \in SubTopics : m = [cmd |-> cmd, topic |-> topic]
  BY <1>3 DEF Wants
<1>5. /\ pubN'[k] = new /\ \A j \in Pairs : j # k => pubN'[j] = pubN[j]
      /\ new = IF cmd = "SUB" THEN pubN[k] \cup {topic} ELSE pubN[k] \ {topic}
  <2>1. pubN \in [Pairs -> SUBSET SubTopics]
    BY <1>2 DEF Sockets, Typed
  <2>2. new = IF cmd = "SUB" THEN pubN[k] \cup {topic} ELSE pubN[k] \ {topic}
    BY <1>4
  <2> HIDE DEF new
  <2> QED
    BY <1>1, <2>1, <2>2
<1>6. PICK M : M = IF new # pubN[k] THEN {m} ELSE {}
  OBVIOUS
<1>7. r.b = br[b] /\ Wrote(r, "subS") = M /\ Wrote(r, "subN") = {}
  <2> DEFINE x == br[b]
  <2> HIDE DEF x
  <2>1. /\ s_on_pubN_msg(x, m).b = x /\ Nothing(x).b = x
        /\ Wrote(s_on_pubN_msg(x, m), "subS") = {m} /\ Wrote(s_on_pubN_msg(x, m), "subN") = {}
        /\ Wrote(Nothing(x), "subS") = {} /\ Wrote(Nothing(x), "subN") = {}
    BY RelayTells DEF TellsAll
  <2> QED
    BY <1>6, <2>1 DEF x
<1> HIDE DEF r
<1>8. Sockets'
  <2>1. M \subseteq Wants /\ M \subseteq {m}
    BY <1>3, <1>6
  <2>2. Wrote(r, "subS") \subseteq M /\ Wrote(r, "subN") \subseteq M
    BY <1>7
  <2>3. \A a \in Brokers : br[a].north = (a # Root /\ pairs[a] > 0)
    BY <1>2 DEF Sockets
  <2> HIDE DEF wd, m, b, new
  <2> QED
    BY <1>1, <1>2, <1>3, <1>7, <2>1, <2>2, <2>3, FinishSockets
<1> HIDE DEF new, wd
<1>9. /\ \A t : Local(b, t)' = Local(b, t) /\ Below(b, t)' = Below(b, t)
      /\ \A t \in SubTopics : t # topic => FromAbove(b, t)' = FromAbove(b, t)
  <2>1. br'[b] = br[b]
    BY <1>1, <1>2, <1>7 DEF Finish
  <2>2. \A t : Local(b, t)' = Local(b, t)
    BY <2>1 DEF Local, Here
  <2>3. \A t : Below(b, t)' = Below(b, t)
    BY <1>1 DEF Below
  <2>4. \A j \in Pairs, t \in SubTopics : t # topic => (t \in pubN'[j] <=> t \in pubN[j])
    BY <1>5
  <2>5. \A t \in SubTopics : t # topic => FromAbove(b, t)' = FromAbove(b, t)
    BY <2>4 DEF FromAbove
  <2> QED
    BY <2>2, <2>3, <2>5
<1>10. ASSUME PairsOnce
       PROVE  /\ FromAbove(b, topic) = IF topic \in pubN[k] THEN 1 ELSE 0
              /\ FromAbove(b, topic)' = IF topic \in pubN'[k] THEN 1 ELSE 0
  <2>1. ASSUME NEW j \in Pairs, j[1] = b, j # k PROVE topic \notin pubN[j] /\ topic \notin pubN'[j]
    <3>1. ~Connected(j)
      <4>1. /\ k[2] \in 1 .. MaxPairs[b] /\ j[2] \in 1 .. MaxPairs[b] /\ MaxPairs[b] \in Nat
            /\ pairs[b] \in Nat /\ k = <<b, k[2]>> /\ j = <<b, j[2]>>
        BY <1>2, <2>1, PubSubAssumption DEF Pairs, Places
      <4>2. k[2] <= pairs[b] /\ pairs[b] <= 1
        BY <1>2, <1>3, <1>10 DEF Connected, PairsOnce
      <4>3. SUFFICES ASSUME j[2] <= pairs[b] PROVE FALSE
        BY <2>1 DEF Connected
      <4>4. k[2] = 1 /\ j[2] = 1
        BY <4>1, <4>2, <4>3
      <4> QED
        BY <2>1, <4>1, <4>4
    <3>2. topic \notin pubN[j]
      BY <1>2, <3>1 DEF Sockets, InStep
    <3> QED
      BY <1>5, <2>1, <3>2
  <2>2. k[1] = b
    OBVIOUS
  <2> HIDE DEF b
  <2>3. (\E j \in Pairs : j[1] = b /\ topic \in pubN[j]) <=> topic \in pubN[k]
    BY <2>1, <2>2
  <2>4. (\E j \in Pairs : j[1] = b /\ topic \in pubN'[j]) <=> topic \in pubN'[k]
    BY <2>1, <2>2
  <2> QED
    BY <2>3, <2>4 DEF FromAbove
<1>11. CountsAsAdded(b, M, {})
  <2> HIDE DEF b, m
  <2>1. \A t : ForNorth(b, t)' = ForNorth(b, t) /\ ForNorth(b, t) \in Nat
               /\ ForSouth(b, t) \in Nat /\ ForSouth(b, t)' \in Nat
    BY <1>2, <1>9, WantedNumbers DEF ForNorth
  <2>2. \A t \in SubTopics : t # topic => ForSouth(b, t)' = ForSouth(b, t)
    BY <1>9 DEF ForSouth
  <2>3. \A t \in SubTopics : /\ AddsEnough({}, t, ForNorth(b, t), ForNorth(b, t)')
                             /\ AddsNoMore({}, t, ForNorth(b, t), ForNorth(b, t)')
    BY <2>1, AddsNothing
  <2>4. ASSUME PairsOnce, NEW t \in SubTopics
        PROVE  /\ AddsEnough(M, t, ForSouth(b, t), ForSouth(b, t)')
               /\ AddsNoMore(M, t, ForSouth(b, t), ForSouth(b, t)')
    <3>1. PICK n \in Nat, n2 \in Nat : n = ForSouth(b, t) /\ n2 = ForSouth(b, t)'
      BY <2>1
    <3>2. CASE new = pubN[k]
      <4>1. M = {} /\ n2 = n
        <5>1. t = topic => FromAbove(b, t)' = FromAbove(b, t)
          BY <1>5, <1>10, <2>4, <3>2
        <5> QED
          BY <1>6, <1>9, <2>2, <3>1, <3>2, <5>1 DEF ForSouth
      <4> QED
        BY <3>1, <4>1, AddsNothing
    <3>3. CASE new # pubN[k] /\ t # topic
      <4>1. M = {[cmd |-> cmd, topic |-> topic]} /\ n2 = n
        BY <1>4, <1>6, <2>2, <3>1, <3>3
      <4>2. /\ AddsEnough({[cmd |-> cmd, topic |-> topic]}, t, n, n)
            /\ AddsNoMore({[cmd |-> cmd, topic |-> topic]}, t, n, n)
        BY <3>3, AddsNothing
      <4> QED
        BY <3>1, <4>1, <4>2
    <3>4. CASE new # pubN[k] /\ t = topic
      <4>1. M = {[cmd |-> cmd, topic |-> topic]}
        BY <1>4, <1>6, <3>4
      <4>2. IF cmd = "SUB" THEN topic \notin pubN[k] /\ topic \in pubN'[k]
                           ELSE topic \in pubN[k] /\ topic \notin pubN'[k]
        BY <1>5, <3>4
      <4>3. PICK l \in Nat, p \in Nat : l = Local(b, t) /\ p = Below(b, t)
        <5>1. Local(b, t) \in Nat /\ Below(b, t) \in Nat
          BY <1>2, WantedNumbers DEF Below
        <5> QED
          BY <5>1
      <4>4. /\ cmd = "SUB" => n = l + p + 0 /\ n2 = l + p + 1
            /\ cmd # "SUB" => n = l + p + 1 /\ n2 = l + p + 0
        BY <1>9, <1>10, <2>4, <3>1, <3>4, <4>2, <4>3 DEF ForSouth
      <4>5. /\ [cmd |-> "SUB", topic |-> t] \in M <=> cmd = "SUB"
            /\ [cmd |-> "UNSUB", topic |-> t] \in M <=> cmd = "UNSUB"
        BY <3>4, <4>1
      <4>6. AddsEnough(M, t, n, n2) /\ AddsNoMore(M, t, n, n2)
        BY <4>4, <4>5 DEF AddsEnough, AddsNoMore
      <4> QED
        BY <3>1, <4>6
    <3> QED
      BY <3>2, <3>3, <3>4
  <2> QED
    BY <2>3, <2>4 DEF CountsAsAdded
<1>12. AllHere' => AllHere
  <2>1. br' = [br EXCEPT ![b] = br[b]]
    BY <1>1, <1>7 DEF Finish
  <2>2. \A a \in Brokers : br'[a] = br[a]
    BY <1>2, <2>1
  <2> QED
    BY <2>2, PubSubAssumption DEF AllHere
<1>13. CountsAsAdded(b, Wrote(r, "subS"), Wrote(r, "subN")) /\ Wrote(r, "subN") = {}
  BY <1>7, <1>11
<1>14. \A j \in Pairs : j[1] # b => pubN'[j] = pubN[j]
  BY <1>5
<1>15. late \subseteq late' /\ stray \subseteq stray' /\ \A a \in Brokers : pubS'[a] = pubS[a]
  BY <1>1
<1> HIDE DEF b, m
<1> QED
  BY <1>1, <1>2, <1>8, <1>12, <1>13, <1>14, <1>15, CountsKeep

\* The broker x becomes y: it has sockets to the higher broker, and all else is as
\* far as clients and topics go as it was.
Joins(x, y) == y.north = TRUE /\ y.lcl_cli = x.lcl_cli /\ SameSubs(x, y)
\* s_cb_chall and s_cb_regok do this, after a heartbeat or not.
LEMMA RegokBroker ==
  ASSUME NEW x, Shape(x), NEW k, NEW e,
         Shape(e), SameSubs(x, e), e.lcl_cli = x.lcl_cli,
         NEW gone, gone = x \/ gone = s_heartbeat(e).b,
         NEW f, f = s_cb_chall(gone, k).b, NEW o, NEW y, y = s_cb_regok(f, o).b
  PROVE  Joins(x, y)
<1> DEFINE Like(u, v) == Shape(v) /\ SameSubs(u, v) /\ v.lcl_cli = u.lcl_cli
<1>1. Like(x, gone)
  <2>1. Like(x, e) /\ Like(x, x)
    BY DEF Shape, BrokerFields, SameSubs
  <2>2. Like(e, s_heartbeat(e).b)
    BY <2>1 DEF s_heartbeat, Result, Shape, BrokerFields, SameSubs
  <2>3. Like(x, s_heartbeat(e).b)
    BY <2>1, <2>2 DEF SameSubs
  <2> QED
    BY <2>1, <2>3
<1>2. Like(gone, f)
  BY <1>1 DEF s_cb_chall, Heard, Result, Shape, BrokerFields, SameSubs
<1>3. Like(f, s_cb_regok(f, o).b) /\ s_cb_regok(f, o).b.north = TRUE
  BY <1>2 DEF s_cb_regok, Heard, Result, Shape, BrokerFields, SameSubs
<1>4. SameSubs(x, s_cb_regok(f, o).b) /\ s_cb_regok(f, o).b.lcl_cli = x.lcl_cli
  BY <1>1, <1>2, <1>3 DEF SameSubs
<1> QED
  BY <1>3, <1>4 DEF Joins

\* A broker that registers keeps its clients and their subscriptions.
LEMMA RegokJoins ==
  ASSUME Places, NEW b \in Lower, Regok(b)
  PROVE  Joins(br[b], br'[b]) /\ \A a \in Brokers : a # b => br'[a] = br[a]
<1> DEFINE gone == IF br[b].state = REGISTERED
                   THEN s_heartbeat([br[b] EXCEPT !.timeout = Limit]).b ELSE br[b]
<1>0. PICK k : k = <<b, pairs[b] + 1>>
  OBVIOUS
<1> DEFINE new == s_cb_regok(s_cb_chall(gone, k).b, <<>>).b
<1>1. br' = [br EXCEPT ![b] = new]
  BY <1>0 DEF Regok
<1>2. b \in Brokers /\ Shape(br[b]) /\ DOMAIN br = Brokers
  BY DEF Places, Lower
<1>3. Joins(br[b], new)
  <2> DEFINE x == br[b]
  <2>1. Shape(x) /\ gone = IF x.state = REGISTERED
                           THEN s_heartbeat([x EXCEPT !.timeout = Limit]).b ELSE x
    BY <1>2
  <2> HIDE DEF x, gone
  <2>2. PICK g, e : e = [x EXCEPT !.timeout = Limit] /\ g = gone /\ (g = x \/ g = s_heartbeat(e).b)
    BY <2>1
  <2>3. PICK f, o, y : f = s_cb_chall(g, k).b /\ o = <<>> /\ y = s_cb_regok(f, o).b
    OBVIOUS
  <2>4. Joins(x, y)
    <3> HIDE DEF new
    <3>1. Shape(x) /\ Shape(e) /\ SameSubs(x, e) /\ e.lcl_cli = x.lcl_cli
      BY <2>1, <2>2 DEF Shape, BrokerFields, SameSubs
    <3>2. g = x \/ g = s_heartbeat(e).b
      BY <2>2
    <3> QED
      BY <2>3, <3>1, <3>2, RegokBroker
  <2>5. y = new
    BY <2>2, <2>3
  <2>6. Joins(x, new)
    BY <2>4, <2>5
  <2> QED
    BY <2>6 DEF x
<1> HIDE DEF gone, new
<1>4. br'[b] = new /\ \A a \in Brokers : a # b => br'[a] = br[a]
  BY <1>1, <1>2
<1> QED
  BY <1>3, <1>4

\* A broker registers: the sockets that connect tell each other what is wanted.
LEMMA RegokWants ==
  ASSUME WantInv, Places, Places', NEW b \in Lower, Regok(b)
  PROVE  WantInv'
<1> DEFINE p == Parent[b]
           held == {t \in SubTopics : subS[p][t] > 0}
           replay == SetToSeq({[cmd |-> "SUB", topic |-> t] : t \in held})
<1>0. PICK k, new : k = <<b, pairs[b] + 1>> /\ new = br'[b]
  OBVIOUS
<1>1. /\ pairs[b] < MaxPairs[b] /\ pairs' = [pairs EXCEPT ![b] = @ + 1]
      /\ wantDown' = [wantDown EXCEPT ![k] = replay]
      /\ UNCHANGED <<subS, subN, pubS, pubN, wantUp, late, stray>>
  BY <1>0 DEF Regok
<1>2. /\ b \in Brokers /\ b # Root /\ p \in Brokers /\ Shape(br[b]) /\ TrieCounts(br[b])
      /\ DOMAIN br = Brokers /\ pairs \in [Lower -> Nat] /\ MaxPairs[b] \in Nat
  BY PubSubAssumption DEF Places, Lower
<1>3. new.north = TRUE /\ new.lcl_cli = br[b].lcl_cli /\ SameSubs(br[b], new)
  BY <1>0, RegokJoins DEF Joins
<1>4. br'[b] = new /\ \A a \in Brokers : a # b => br'[a] = br[a]
  BY <1>0, RegokJoins
<1>5. SameOn(br[b], new)
  BY <1>3, SameSubsCounts DEF SameOn
<1>6. /\ pairs'[b] = pairs[b] + 1 /\ pairs[b] \in Nat
      /\ \A a \in Lower : a # b => pairs'[a] = pairs[a]
  BY <1>1, <1>2
<1>7. /\ Typed(wantUp, wantDown, pubS, pubN, subS, subN)
      /\ InStep(wantUp, wantDown, pubS, pubN, subS, subN)
      /\ \A a \in Brokers : br[a].north = (a # Root /\ pairs[a] > 0)
  BY DEF WantInv, Sockets
<1>8. k \in Pairs /\ ~Connected(k) /\ Above(k) = p /\ k[1] = b
  <2>1. pairs[b] + 1 \in 1 .. MaxPairs[b]
    BY <1>1, <1>2, <1>6
  <2>2. k \in {b} \X (1 .. MaxPairs[b])
    BY <1>0, <2>1
  <2>3. ~(pairs[b] + 1 <= pairs[b]) /\ k[1] = b /\ k[2] = pairs[b] + 1
    BY <1>0, <1>6
  <2> QED
    BY <2>2, <2>3 DEF Pairs, Connected, Above
<1>9. ASSUME NEW j \in Pairs, j # k PROVE Connected(j)' <=> Connected(j)
  <2>1. j[1] \in Lower /\ j = <<j[1], j[2]>> /\ j[2] \in Nat
    BY PubSubAssumption DEF Pairs
  <2>2. CASE j[1] # b
    BY <1>6, <2>1, <2>2 DEF Connected
  <2>3. CASE j[1] = b
    <3>1. j[2] # pairs[b] + 1
      BY <1>0, <1>9, <2>1, <2>3
    <3>2. j[2] <= pairs[b] + 1 <=> j[2] <= pairs[b]
      BY <1>6, <2>1, <3>1
    <3> QED
      BY <1>6, <2>3, <3>2 DEF Connected
  <2> QED
    BY <2>2, <2>3
<1>10. Connected(k)'
  <2>1. pairs'[b] <= pairs'[b] /\ k[1] = b /\ k[2] = pairs'[b]
    BY <1>0, <1>6
  <2> QED
    BY <2>1 DEF Connected
<1>11. /\ replay \in Seq(Wants)
       /\ \A t \in SubTopics : \A x, H : x \notin H => Arrives(replay, t, x, H, subS[p][t])
  <2> DEFINE cnt == subS[p]
  <2>1. cnt \in [SubTopics -> Nat] /\ IsFiniteSet({t \in SubTopics : cnt[t] > 0})
    BY <1>2, <1>7 DEF Typed
  <2>2. held = {t \in SubTopics : cnt[t] > 0}
    OBVIOUS
  <2> HIDE DEF cnt, held
  <2>3. LET q == SetToSeq({[cmd |-> "SUB", topic |-> t] : t \in held})
        IN /\ q \in Seq(Wants)
           /\ \A t \in SubTopics : \A x, H : x \notin H => Arrives(q, t, x, H, cnt[t])
    BY <2>1, <2>2, ArrivesReplay
  <2> QED
    BY <2>3 DEF cnt
<1> HIDE DEF replay
<1>12. wantDown' \in [Pairs -> Seq(Wants)] /\ wantDown'[k] = replay
       /\ \A j \in Pairs : j # k => wantDown'[j] = wantDown[j]
  <2>1. wantDown \in [Pairs -> Seq(Wants)]
    BY <1>7 DEF Typed
  <2> QED
    BY <1>1, <1>8, <1>11, <2>1
<1>13. Sockets'
  <2>1. \A j : Above(j)' = Above(j)
    BY DEF Above
  <2>2. Typed(wantUp, wantDown, pubS, pubN, subS, subN)'
    BY <1>1, <1>7, <1>12, <2>1 DEF Typed
  <2>3. ASSUME NEW t \in SubTopics
        PROVE  /\ Arrives(wantUp'[k], t, k, pubS'[Above(k)][t], subN'[k][t])
               /\ Arrives(wantDown'[k], t, t, pubN'[k], subS'[Above(k)][t])
    <3>1. /\ wantUp[k] = <<>> /\ subN[k][t] = 0 /\ k \notin pubS[Above(k)][t]
          /\ t \notin pubN[k]
      BY <1>7, <1>8 DEF InStep
    <3>2. Arrives(replay, t, t, pubN[k], subS[p][t])
      BY <1>11, <3>1
    <3>3. NotOf(<<>>, t)
      BY SaysShort
    <3>4. Arrives(wantUp[k], t, k, pubS[Above(k)][t], subN[k][t])
      BY <3>1, <3>3 DEF Arrives
    <3> QED
      BY <1>1, <1>8, <1>12, <3>2, <3>4
  <2>4. ASSUME NEW j \in Pairs, NEW t \in SubTopics
        PROVE  IF Connected(j)'
               THEN /\ Arrives(wantUp'[j], t, j, pubS'[Above(j)][t], subN'[j][t])
                    /\ Arrives(wantDown'[j], t, t, pubN'[j], subS'[Above(j)][t])
               ELSE /\ wantUp'[j] = <<>> /\ subN'[j][t] = 0 /\ j \notin pubS'[Above(j)][t]
                    /\ wantDown'[j] = <<>> /\ t \notin pubN'[j]
    <3>1. CASE j = k
      BY <1>10, <2>3, <3>1
    <3>2. CASE j # k
      <4>1. wantDown'[j] = wantDown[j] /\ (Connected(j)' <=> Connected(j))
        BY <1>9, <1>12, <3>2
      <4> QED
        BY <1>1, <1>7, <4>1 DEF InStep
    <3> QED
      BY <3>1, <3>2
  <2>5. InStep(wantUp, wantDown, pubS, pubN, subS, subN)'
    BY <2>1, <2>4 DEF InStep
  <2>6. ASSUME NEW a \in Brokers PROVE br'[a].north = (a # Root /\ pairs'[a] > 0)
    <3>1. CASE a = b
      <4>1. pairs'[b] > 0
        BY <1>6
      <4> QED
        BY <1>2, <1>3, <1>4, <3>1, <4>1
    <3>2. CASE a # b /\ a # Root
      BY <1>4, <1>6, <1>7, <3>2 DEF Lower
    <3>3. CASE a # b /\ a = Root
      <4>1. br[a].north = FALSE
        BY <1>7, <3>3
      <4> QED
        BY <1>4, <3>3, <4>1
    <3> QED
      BY <3>1, <3>2, <3>3
  <2> QED
    BY <2>2, <2>5, <2>6 DEF Sockets
<1>14. ASSUME NEW a \in Brokers, NEW t
       PROVE  ForNorth(a, t)' = ForNorth(a, t) /\ ForSouth(a, t)' = ForSouth(a, t)
  <2>1. SameOn(br[a], br'[a])
    BY <1>4, <1>5 DEF SameOn
  <2>2. Here(a, t)' = Here(a, t)
    BY <2>1 DEF Here, SameOn
  <2>3. Below(a, t)' = Below(a, t) /\ FromAbove(a, t)' = FromAbove(a, t)
    BY <1>1 DEF Below, FromAbove
  <2> QED
    BY <2>2, <2>3 DEF ForNorth, ForSouth, Local
<1>15. PairsOnce' => PairsOnce /\ pairs[b] = 0
  <2> SUFFICES ASSUME PairsOnce' PROVE PairsOnce /\ pairs[b] = 0
    OBVIOUS
  <2>1. \A a \in Lower : pairs'[a] <= 1 /\ pairs[a] \in Nat
    BY <1>2 DEF PairsOnce
  <2>2. pairs[b] = 0
    BY <1>6, <2>1
  <2> QED
    BY <1>6, <2>1, <2>2 DEF PairsOnce
<1>16. AllHere' => AllHere
  <2>1. \A a \in Brokers : br'[a].lcl_cli = br[a].lcl_cli
    BY <1>3, <1>4
  <2> QED
    BY <2>1, PubSubAssumption DEF AllHere, HasLocal
<1>17. AtMost'
  <2>1. ASSUME PairsOnce', AllHere', NEW a \in Brokers, NEW t \in SubTopics
        PROVE  /\ subS'[a][t] <= ForSouth(a, t)'
               /\ \A j \in Pairs : j[1] = a => subN'[j][t] <= ForNorth(a, t)'
    <3>1. /\ subS[a][t] <= ForSouth(a, t)
          /\ \A j \in Pairs : j[1] = a => subN[j][t] <= ForNorth(a, t)
      BY <1>15, <1>16, <2>1 DEF WantInv, AtMost
    <3> QED
      BY <1>1, <1>14, <3>1
  <2> QED
    BY <2>1 DEF AtMost
<1>18. AtLeast'
  <2>1. ASSUME PairsOnce', NEW a \in Brokers, NEW t \in SubTopics, <<a, t>> \notin stray'
        PROVE  /\ subS'[a][t] >= ForSouth(a, t)'
               /\ a \in Lower /\ <<a, t>> \notin late' =>
                    /\ pairs'[a] = 0 => ForNorth(a, t)' = 0
                    /\ \A j \in Pairs : j[1] = a /\ Connected(j)' => subN'[j][t] >= ForNorth(a, t)'
    <3>1. /\ subS[a][t] >= ForSouth(a, t)
          /\ a \in Lower /\ <<a, t>> \notin late' =>
               /\ pairs[a] = 0 => ForNorth(a, t) = 0
               /\ \A j \in Pairs : j[1] = a /\ Connected(j) => subN[j][t] >= ForNorth(a, t)
      BY <1>1, <1>15, <2>1 DEF WantInv, AtLeast
    <3>2. CASE a = b
      <4>1. pairs'[a] # 0
        BY <1>6, <3>2
      <4>2. ASSUME a \in Lower, <<a, t>> \notin late', NEW j \in Pairs
            PROVE  subN'[j][t] >= ForNorth(a, t)'
        <5>1. ForNorth(a, t)' = 0
          BY <1>14, <1>15, <2>1, <3>1, <3>2, <4>2
        <5>2. subN'[j][t] \in Nat
          BY <1>13 DEF Sockets, Typed
        <5> QED
          BY <5>1, <5>2
      <4> QED
        BY <1>1, <1>14, <3>1, <4>1, <4>2
    <3>3. CASE a # b
      <4>1. \A j \in Pairs : j[1] = a => (Connected(j)' <=> Connected(j))
        BY <1>8, <1>9, <3>3
      <4>2. a \in Lower => pairs'[a] = pairs[a]
        BY <1>6, <3>3
      <4> QED
        BY <1>1, <1>14, <3>1, <4>1, <4>2
    <3> QED
      BY <3>2, <3>3
  <2> QED
    BY <2>1 DEF AtLeast
<1> QED
  BY <1>13, <1>17, <1>18 DEF WantInv

\* A publication, new or passed on, leaves the subscriptions as they are.
LEMMA PublicationWants ==
  ASSUME WantInv, Places, Places', NEW b \in Brokers, NEW r, NEW pu, NEW pd,
         Finish(b, r, wantUp, wantDown, pu, pd), UNCHANGED <<pairs, pubS, pubN, late, stray>>,
         \/ \E s, t, n, unscoped : r = s_cb_pub(br[b], s, t, n, unscoped)
         \/ \E topic, name, pathv : r = s_on_subS_msg(br[b], topic, name, pathv)
         \/ \E topic, name, pathv : r = s_on_subN_msg(br[b], topic, name, pathv)
  PROVE  WantInv'
<1>1. TellsAll(br[b], r, {}) /\ Stays(br[b], r.b) /\ SameOn(br[b], r.b)
  <2> DEFINE x == br[b]
  <2>1. Shape(x)
    BY DEF Places
  <2>2. \/ \E s, t, n, unscoped : r = s_cb_pub(x, s, t, n, unscoped)
        \/ \E topic, name, pathv : r = s_on_subS_msg(x, topic, name, pathv)
        \/ \E topic, name, pathv : r = s_on_subN_msg(x, topic, name, pathv)
    OBVIOUS
  <2> HIDE DEF x
  <2>3. TellsAll(x, r, {}) /\ Stays(x, r.b) /\ SameOn(x, r.b)
    BY <2>1, <2>2, PublicationTells
  <2> QED
    BY <2>3 DEF x
<1> QED
  BY <1>1, QuietWants

\* Every step keeps the subscriptions in step.
LEMMA NextWants == Acyclic /\ PubInv /\ WantInv /\ [Next]_vars => WantInv'
<1> SUFFICES ASSUME Acyclic, PubInv, WantInv, [Next]_vars PROVE WantInv'
  OBVIOUS
<1>1. Places /\ Places'
  BY NextPub DEF PubInv
<1>2. ASSUME NEW c \in Clients, Sub(c) \/ Unsub(c) \/ Leave(c) PROVE WantInv'
  BY <1>1, <1>2, SubWants, UnsubWants, LeaveWants
<1>3. ASSUME NEW c \in Publishers, Publish(c) PROVE WantInv'
  <2>1. PICK n \in PubTopics :
          LET r == s_cb_pub(br[Home[c]], c, Tenant(c), n, FALSE)
          IN /\ UNCHANGED <<pairs, pubS, pubN>>
             /\ Finish(Home[c], r, wantUp, wantDown, pubUp, pubDown)
             /\ UNCHANGED <<late, stray, ops>>
    BY <1>3 DEF Publish
  <2>2. PICK r, u : r = s_cb_pub(br[Home[c]], c, Tenant(c), n, u) /\ u = FALSE
    OBVIOUS
  <2>3. Home[c] \in Brokers
    BY PubSubAssumption
  <2>4. Finish(Home[c], r, wantUp, wantDown, pubUp, pubDown)
    BY <2>1, <2>2
  <2>5. \E s, t, m, unscoped : r = s_cb_pub(br[Home[c]], s, t, m, unscoped)
    BY <2>2
  <2> QED
    BY <1>1, <2>1, <2>3, <2>4, <2>5, PublicationWants
<1>4. ASSUME NEW b \in Lower, Regok(b) PROVE WantInv'
  BY <1>1, <1>4, RegokWants
<1>5. ASSUME NEW k \in Pairs, ReceiveWantUp(k) \/ ReceiveWantDown(k) PROVE WantInv'
  BY <1>1, <1>5, WantUpWants, WantDownWants
<1>6. ASSUME NEW k \in Pairs, ReceivePubUp(k) PROVE WantInv'
  <2> DEFINE b == Above(k)
             m == Head(pubUp[k])
  <2>1. PICK r : r = s_on_subS_msg(br[b], m.topic, m.name, m.pathv)
    OBVIOUS
  <2>2. /\ UNCHANGED <<pairs, pubS, pubN, late, stray>>
        /\ Finish(b, r, wantUp, wantDown, [pubUp EXCEPT ![k] = Tail(@)], pubDown)
    BY <1>6, <2>1 DEF ReceivePubUp
  <2>3. b \in Brokers
    BY PubSubAssumption DEF Pairs, Above
  <2>4. \E topic, name, pathv : r = s_on_subS_msg(br[b], topic, name, pathv)
    BY <2>1
  <2> HIDE DEF b
  <2> QED
    BY <1>1, <2>2, <2>3, <2>4, PublicationWants
<1>7. ASSUME NEW k \in Pairs, ReceivePubDown(k) PROVE WantInv'
  <2> DEFINE b == k[1]
             m == Head(pubDown[k])
  <2>1. PICK r : r = s_on_subN_msg(br[b], m.topic, m.name, m.pathv)
    OBVIOUS
  <2>2. /\ UNCHANGED <<pairs, pubS, pubN, late, stray>>
        /\ Finish(b, r, wantUp, wantDown, pubUp, [pubDown EXCEPT ![k] = Tail(@)])
    BY <1>7, <2>1 DEF ReceivePubDown
  <2>3. b \in Brokers
    BY DEF Pairs, Lower
  <2>4. \E topic, name, pathv : r = s_on_subN_msg(br[b], topic, name, pathv)
    BY <2>1
  <2> HIDE DEF b
  <2> QED
    BY <1>1, <2>2, <2>3, <2>4, PublicationWants
<1>8. CASE UNCHANGED vars
  <2>1. /\ br' = br /\ pairs' = pairs /\ subS' = subS /\ subN' = subN /\ pubS' = pubS
        /\ pubN' = pubN /\ wantUp' = wantUp /\ wantDown' = wantDown
        /\ late' = late /\ stray' = stray
    BY <1>8 DEF vars, links
  <2>2. \A k : Above(k)' = Above(k) /\ Connected(k)' = Connected(k)
    BY <2>1 DEF Above, Connected
  <2>3. Sockets'
    BY <2>1, <2>2 DEF WantInv, Sockets, Typed, InStep
  <2>4. \A b, t : Here(b, t)' = Here(b, t)
    BY <2>1 DEF Here, On
  <2>5. \A b, t : Below(b, t)' = Below(b, t) /\ FromAbove(b, t)' = FromAbove(b, t)
    BY <2>1 DEF Below, FromAbove
  <2>6. \A b, t : ForNorth(b, t)' = ForNorth(b, t) /\ ForSouth(b, t)' = ForSouth(b, t)
    BY <2>4, <2>5 DEF ForNorth, ForSouth, Local
  <2>7. PairsOnce' = PairsOnce /\ AllHere' = AllHere
    BY <2>1 DEF PairsOnce, AllHere
  <2>8. AtMost'
    BY <2>1, <2>2, <2>6, <2>7 DEF WantInv, AtMost
  <2>9. AtLeast'
    BY <2>1, <2>2, <2>6, <2>7 DEF WantInv, AtLeast
  <2> QED
    BY <2>3, <2>8, <2>9 DEF WantInv
<1> QED
  BY <1>2, <1>3, <1>4, <1>5, <1>6, <1>7, <1>8 DEF Next, Receive

\* Initially nothing is wanted.
LEMMA InitWants == Init => WantInv
<1> SUFFICES ASSUME Init PROVE WantInv
  OBVIOUS
<1>1. /\ subS = [b \in Brokers |-> [t \in SubTopics |-> 0]]
      /\ subN = [k \in Pairs |-> [t \in SubTopics |-> 0]]
      /\ pubS = [b \in Brokers |-> [t \in SubTopics |-> {}]] /\ pubN = [k \in Pairs |-> {}]
      /\ wantUp = [k \in Pairs |-> <<>>] /\ wantDown = [k \in Pairs |-> <<>>]
      /\ pairs = [b \in Lower |-> 0]
  BY DEF Init
<1>2. ASSUME NEW b \in Brokers PROVE ~br[b].north /\ br[b].topics_trie = <<>>
  BY DEF Init, Start, NewBroker
<1>3. ASSUME NEW b \in Brokers, NEW t \in SubTopics
      PROVE  ForNorth(b, t) = 0 /\ ForSouth(b, t) = 0 /\ subS[b][t] = 0
  <2>1. Here(b, t) = {}
    BY <1>2, ShortSeqs DEF Here, On
  <2>2. Local(b, t) = 0
    BY <2>1, FS_EmptySet DEF Local
  <2>3. Below(b, t) = 0 /\ FromAbove(b, t) = 0 /\ subS[b][t] = 0
    BY <1>1 DEF Below, FromAbove
  <2> QED
    BY <2>2, <2>3 DEF ForNorth, ForSouth
<1>4. ASSUME NEW k \in Pairs, NEW t \in SubTopics
      PROVE  /\ ~Connected(k) /\ subN[k][t] = 0 /\ Above(k) \in Brokers
             /\ pubS[Above(k)][t] = {} /\ pubN[k] = {}
  <2>1. k[1] \in Lower /\ k[2] \in 1 .. MaxPairs[k[1]] /\ Above(k) \in Brokers
    BY PubSubAssumption DEF Pairs, Above
  <2>2. MaxPairs[k[1]] \in Nat /\ pairs[k[1]] = 0
    BY <1>1, <2>1, PubSubAssumption
  <2>3. ~(k[2] <= pairs[k[1]])
    BY <2>1, <2>2
  <2> QED
    BY <1>1, <2>1, <2>3 DEF Connected
<1>5. Typed(wantUp, wantDown, pubS, pubN, subS, subN)
  <2>1. ASSUME NEW b \in Brokers PROVE IsFiniteSet({t \in SubTopics : subS[b][t] > 0})
    <3>1. {t \in SubTopics : subS[b][t] > 0} = {}
      BY <1>1
    <3> QED
      BY <3>1, FS_EmptySet
  <2>2. \A b \in Brokers, t \in SubTopics : pubS[b][t] = {}
    BY <1>1
  <2>3. /\ subS \in [Brokers -> [SubTopics -> Nat]] /\ subN \in [Pairs -> [SubTopics -> Nat]]
        /\ pubS \in [Brokers -> [SubTopics -> SUBSET Pairs]]
        /\ pubN \in [Pairs -> SUBSET SubTopics]
    BY <1>1
  <2>4. wantUp \in [Pairs -> Seq(Wants)] /\ wantDown \in [Pairs -> Seq(Wants)]
    BY <1>1
  <2> QED
    BY <2>1, <2>2, <2>3, <2>4 DEF Typed
<1>6. InStep(wantUp, wantDown, pubS, pubN, subS, subN)
  BY <1>1, <1>4 DEF InStep
<1>7. \A b \in Brokers : br[b].north = (b # Root /\ pairs[b] > 0)
  <2>1. ASSUME NEW b \in Brokers, b # Root PROVE ~(pairs[b] > 0)
    BY <1>1, <2>1 DEF Lower
  <2> QED
    BY <1>2, <2>1 DEF Init, Start, NewBroker
<1>8. AtMost
  BY <1>3, <1>4 DEF AtMost
<1>9. AtLeast
  BY <1>3, <1>4 DEF AtLeast
<1> QED
  BY <1>5, <1>6, <1>7, <1>8, <1>9 DEF WantInv, Sockets

(***************************************************************************)
(* What is left when all has arrived.                                      *)
(***************************************************************************)
\* Among brokers there is one that none of the others is right above,
LEMMA HighestOf ==
  ASSUME Acyclic, NEW V, V \subseteq Brokers, V # {}
  PROVE  \E v \in V : v \in Lower => Parent[v] \notin V
<1>1. PICK depth \in [Brokers -> Nat] : \A b \in Lower : depth[Parent[b]] < depth[b]
  BY DEF Acyclic
<1>2. \A x, y \in Nat : <<x, y>> \in OpToRel(<, Nat) <=> x < y
  BY DEF OpToRel
<1>3. PICK R : IsWellFoundedOn(R, Nat) /\ \A x, y \in Nat : <<x, y>> \in R <=> x < y
  BY <1>2, NatLessThanWellFounded, Zenon
<1> DEFINE T == {depth[v] : v \in V}
<1>4. T \subseteq Nat /\ T # {}
  BY <1>1
<1>5. PICK x \in T : \A y \in T : ~(<<y, x>> \in R)
  <2> HIDE DEF T
  <2>1. IsWellFoundedOn(R, Nat)
    BY <1>3
  <2>2. T \subseteq Nat /\ T # {}
    BY <1>4
  <2> QED
    BY <2>1, <2>2, WFMin, Zenon
<1>6. PICK v \in V : x = depth[v]
  BY <1>5
<1>7. ASSUME v \in Lower, Parent[v] \in V PROVE FALSE
  <2>1. depth[Parent[v]] \in T /\ depth[Parent[v]] \in Nat /\ x \in Nat
    BY <1>1, <1>4, <1>5, <1>7
  <2>2. ~(depth[Parent[v]] < x)
    <3> HIDE DEF T
    <3> QED
      BY <1>3, <1>5, <2>1
  <2> QED
    BY <1>1, <1>6, <1>7, <2>2
<1> QED
  BY <1>7

\* and, where there are finitely many, one that is right above none of them.
LEMMA LowestOf ==
  ASSUME Acyclic, IsFiniteSet(Brokers), NEW V, V \subseteq Brokers, V # {}
  PROVE  \E v \in V : \A w \in V : w \in Lower => Parent[w] # v
<1> DEFINE D(b) == {x \in Brokers : b \in Ancestors[x]}
           T == {D(b) : b \in V}
<1>1. T \subseteq SUBSET Brokers /\ T # {}
  OBVIOUS
<1>2. IsWellFoundedOn(StrictSubsetOrdering(Brokers), SUBSET Brokers)
  BY FS_StrictSubsetOrderingWellFounded, FS_FiniteSubsetsOfFinite
<1>3. PICK R : /\ IsWellFoundedOn(R, SUBSET Brokers)
               /\ \A x, y \in SUBSET Brokers : <<x, y>> \in R <=> x \subseteq y /\ x # y
  BY <1>2 DEF StrictSubsetOrdering
<1>4. PICK x \in T : \A y \in T : ~(<<y, x>> \in R)
  <2> HIDE DEF T
  <2>1. IsWellFoundedOn(R, SUBSET Brokers)
    BY <1>3
  <2>2. T \subseteq SUBSET Brokers /\ T # {}
    BY <1>1
  <2> QED
    BY <2>1, <2>2, WFMin, Zenon
<1>5. PICK v \in V : x = D(v)
  BY <1>4
<1>6. ASSUME NEW w \in V, w \in Lower, Parent[w] = v PROVE FALSE
  <2>1. D(w) \subseteq D(v)
    BY <1>6, AncestorSteps
  <2>2. v \in D(v) /\ v \notin D(w)
    BY <1>6, AncestorSteps, NoWayBack
  <2>3. <<D(w), x>> \in R
    BY <1>3, <1>5, <2>1, <2>2
  <2> QED
    BY <1>4, <1>6, <2>3
<1> QED
  BY <1>6

\* When everything has arrived and nobody wants topic t, no socket counts it: not
\* that to the higher broker, from the lowest brokers upwards,
LEMMA NothingUp ==
  ASSUME Acyclic, IsFiniteSet(Brokers), Places, WantInv, Settled, AllHere, PairsOnce,
         NEW t \in SubTopics, \A b \in Brokers : ~InTrie(br[b], t)
  PROVE  /\ \A k \in Pairs : subN[k][t] = 0
         /\ \A b \in Brokers : ForSouth(b, t) = FromAbove(b, t)
<1>1. /\ Typed(wantUp, wantDown, pubS, pubN, subS, subN)
      /\ InStep(wantUp, wantDown, pubS, pubN, subS, subN)
  BY DEF WantInv, Sockets
<1>2. ASSUME NEW b \in Brokers PROVE Local(b, t) = 0
  <2>1. Here(b, t) = {}
    BY DEF Here, On, InTrie
  <2> QED
    BY <2>1, FS_EmptySet DEF Local
<1>3. ASSUME NEW k \in Pairs
      PROVE  subN[k][t] \in Nat /\ k[1] \in Brokers /\ k[1] \in Lower /\ Above(k) = Parent[k[1]]
  BY <1>1 DEF Typed, Pairs, Lower, Above
<1> DEFINE Idle(b) == \A k \in Pairs : Above(k) = b => subN[k][t] = 0
<1>4. ASSUME NEW b \in Brokers, Idle(b) PROVE Below(b, t) = 0
  <2>1. ASSUME NEW k \in pubS[b][t] PROVE FALSE
    <3>1. k \in Pairs /\ Above(k) = b
      BY <1>1 DEF Typed
    <3>2. wantUp[k] = <<>> /\ subN[k][t] = 0
      BY <1>4, <3>1 DEF Settled
    <3>3. Connected(k) => Arrives(wantUp[k], t, k, pubS[b][t], subN[k][t])
      BY <1>1, <3>1 DEF InStep
    <3>4. ~LastSays(wantUp[k], t, "SUB") /\ ~LastSays(wantUp[k], t, "UNSUB")
      BY <3>2, ShortSeqs DEF LastSays
    <3>5. ~Connected(k) => k \notin pubS[b][t]
      BY <1>1, <3>1 DEF InStep
    <3> QED
      BY <2>1, <3>2, <3>3, <3>4, <3>5 DEF Arrives
  <2> QED
    BY <2>1 DEF Below
<1>5. ASSUME NEW k \in Pairs, Idle(k[1]) PROVE subN[k][t] = 0
  <2>1. subN[k][t] <= ForNorth(k[1], t)
    BY <1>3 DEF WantInv, AtMost
  <2>2. ForNorth(k[1], t) = 0
    BY <1>2, <1>3, <1>4, <1>5 DEF ForNorth
  <2> QED
    BY <1>3, <2>1, <2>2
<1>6. ASSUME NEW k \in Pairs PROVE subN[k][t] = 0
  <2> DEFINE V == {b \in Brokers : \E j \in Pairs : j[1] = b /\ subN[j][t] # 0}
  <2> SUFFICES ASSUME subN[k][t] # 0 PROVE FALSE
    OBVIOUS
  <2>1. V \subseteq Brokers /\ V # {}
    BY <1>3
  <2>2. PICK v \in V : \A w \in V : w \in Lower => Parent[w] # v
    <3> HIDE DEF V
    <3> QED
      BY <2>1, LowestOf
  <2>3. PICK j \in Pairs : j[1] = v /\ subN[j][t] # 0
    BY <2>2
  <2>4. Idle(v)
    <3>1. ASSUME NEW i \in Pairs, Above(i) = v, subN[i][t] # 0 PROVE FALSE
      <4>1. i[1] \in V /\ i[1] \in Lower /\ Parent[i[1]] = v
        BY <1>3, <3>1
      <4> QED
        BY <2>2, <4>1
    <3> QED
      BY <3>1
  <2> QED
    BY <1>5, <2>3, <2>4
<1>7. ASSUME NEW b \in Brokers PROVE ForSouth(b, t) = FromAbove(b, t)
  <2>1. Below(b, t) = 0 /\ Local(b, t) = 0 /\ FromAbove(b, t) \in Nat
    BY <1>2, <1>4, <1>6 DEF FromAbove
  <2> QED
    BY <2>1 DEF ForSouth
<1> QED
  BY <1>6, <1>7

\* nor that to the lower brokers, from the highest downwards.
LEMMA NothingDown ==
  ASSUME Acyclic, Places, WantInv, Settled, AllHere, PairsOnce, NEW t \in SubTopics,
         \A b \in Brokers : ForSouth(b, t) = FromAbove(b, t)
  PROVE  \A b \in Brokers : subS[b][t] = 0
<1>1. /\ Typed(wantUp, wantDown, pubS, pubN, subS, subN)
      /\ InStep(wantUp, wantDown, pubS, pubN, subS, subN)
  BY DEF WantInv, Sockets
<1> DEFINE V == {b \in Brokers : subS[b][t] # 0}
<1> SUFFICES ASSUME V # {} PROVE FALSE
  OBVIOUS
<1>2. PICK v \in V : v \in Lower => Parent[v] \notin V
  <2>1. V \subseteq Brokers
    OBVIOUS
  <2> HIDE DEF V
  <2> QED
    BY <2>1, HighestOf
<1>3. v \in Brokers /\ subS[v][t] \in Nat /\ subS[v][t] # 0
  BY <1>1, <1>2 DEF Typed
<1>4. subS[v][t] <= FromAbove(v, t)
  BY <1>3 DEF WantInv, AtMost
<1>5. PICK k \in Pairs : k[1] = v /\ t \in pubN[k]
  BY <1>3, <1>4 DEF FromAbove
<1>6. v \in Lower /\ Above(k) = Parent[v] /\ Parent[v] \in Brokers
  BY <1>5, PubSubAssumption DEF Pairs, Above
<1>7. Connected(k) /\ Arrives(wantDown[k], t, t, pubN[k], subS[Parent[v]][t])
  BY <1>1, <1>5, <1>6 DEF InStep
<1>8. wantDown[k] = <<>>
  BY DEF Settled
<1>9. ~LastSays(wantDown[k], t, "SUB") /\ ~LastSays(wantDown[k], t, "UNSUB")
  BY <1>8, ShortSeqs DEF LastSays
<1>10. subS[Parent[v]][t] > 0 /\ subS[Parent[v]][t] \in Nat
  <2>1. t \in pubN[k] <=> subS[Parent[v]][t] > 0
    BY <1>7, <1>9 DEF Arrives
  <2> QED
    BY <1>1, <1>5, <1>6, <2>1 DEF Typed
<1> QED
  BY <1>2, <1>6, <1>10

\* So nothing is wanted that no client wants.
LEMMA WantInvNoLeftovers ==
  ASSUME Acyclic, IsFiniteSet(Brokers), Places, WantInv
  PROVE  NoLeftovers
<1>1. ASSUME Settled, AllHere, PairsOnce, NEW t \in SubTopics,
             \A b \in Brokers : ~InTrie(br[b], t)
      PROVE  (\A b \in Brokers : subS[b][t] = 0) /\ (\A k \in Pairs : subN[k][t] = 0)
  BY <1>1, NothingUp, NothingDown
<1> QED
  BY <1>1 DEF NoLeftovers, AllHere, PairsOnce

\* Once the unsubscriptions have arrived no broker goes on asking for a topic that
\* the last client has taken back (s_cb_unsub, s_on_pubS_msg and s_on_pubN_msg, and
\* the counts of the sockets they write to): for any finite tree, clients and
\* topics, however the subscriptions and unsubscriptions of all clients cross.
THEOREM NothingLeftOver ==
  ASSUME Acyclic, IsFiniteSet(Brokers) PROVE Spec => []NoLeftovers
<1>1. Init => PubInv /\ WantInv
  BY InitPub, InitWants, PubSubAssumption
<1>2. PubInv /\ WantInv /\ [Next]_vars => PubInv' /\ WantInv'
  BY NextPub, NextWants
<1>3. PubInv /\ WantInv => NoLeftovers
  BY WantInvNoLeftovers DEF PubInv
<1> QED
  BY <1>1, <1>2, <1>3, PTL DEF Spec

(***************************************************************************)
(* The way of a publication.                                               *)
(***************************************************************************)
\* q ends topic t somewhere.
Ends(q, t) == \E i \in DOMAIN q : q[i].topic = t /\ q[i].cmd = "UNSUB"

\* The broker above b sends b publications for t, and will; b sends them up, and will.
UpWay(b, t) ==
  \A k \in Pairs : k[1] = b /\ Connected(k) => k \in pubS[Above(k)][t] /\ ~Ends(wantUp[k], t)
DownWay(b, t) ==
  \A k \in Pairs : k[1] = b /\ Connected(k) => t \in pubN[k] /\ ~Ends(wantDown[k], t)

\* The brokers that are only above h, or only above p.
OnlyAbove(h, p) == Ancestors[h] \ Ancestors[p]

\* A publication for t of broker p gets to broker h.
Way(h, p, t) ==
  /\ \A b \in OnlyAbove(h, p) : pairs[b] > 0 /\ <<b, t>> \notin late /\ UpWay(b, t)
  /\ \A b \in OnlyAbove(p, h) : pairs[b] > 0 /\ DownWay(b, t)
  /\ \A b \in Ancestors[h] \cup Ancestors[p] : <<b, t>> \notin stray

\* m is a publication of broker p, sent on up by none but those above p;
\* it is on its way to broker h.
Comes(m, p, topic) == m.topic = topic /\ (m.pathv \in Pairs => m.pathv[1] \in Ancestors[p])
Coming(h, p, topic) ==
  \/ \E k \in Pairs : /\ k[1] \in OnlyAbove(p, h)
                      /\ \E i \in DOMAIN pubUp[k] : Comes(pubUp[k][i], p, topic)
  \/ \E k \in Pairs : /\ k[1] \in OnlyAbove(h, p)
                      /\ \E i \in DOMAIN pubDown[k] : Comes(pubDown[k][i], p, topic)

\* All that have to receive the publication will, or have.
Reach(p, topic) ==
  \A d \in due : \E t \in SubTopics :
    /\ Matches(t, topic) /\ On(br[Home[d]], d, t) /\ Way(Home[d], p, t)
    /\ got[d] > 0 \/ Coming(Home[d], p, topic)

\* The topics of the publications.
PubOf(c, n) == PubTopic(Tenant(c), n, FALSE, Scope)
Publications == {PubOf(c, n) : c \in Publishers, n \in PubTopics}

\* What is due is on its way, while no broker has registered twice.
ReachInv ==
  /\ due \subseteq Clients /\ \A b \in Lower : pairs[b] <= MaxPairs[b]
  /\ \A b \in Brokers : \A s, t : On(br[b], s, t) => t \in SubTopics
  /\ PairsOnce /\ due # {} => \E p \in Brokers, topic \in Publications : Reach(p, topic)

\* The root is above all.
LEMMA RootAboveAll ==
  ASSUME Acyclic, NEW b \in Brokers
  PROVE  Root \in Ancestors[b]
<1>1. Ancestors[b] \subseteq Brokers /\ Ancestors[b] # {}
  BY AncestorSteps
<1>2. PICK v \in Ancestors[b] : v \in Lower => Parent[v] \notin Ancestors[b]
  BY <1>1, HighestOf
<1>3. v \notin Lower
  BY <1>2, AncestorSteps
<1> QED
  BY <1>1, <1>2, <1>3 DEF Lower

\* Of two brokers above a third one is above the other.
LEMMA InLine ==
  ASSUME NEW x \in Brokers, NEW a \in Ancestors[x], NEW b \in Ancestors[x]
  PROVE  a \in Ancestors[b] \/ b \in Ancestors[a]
<1> DEFINE S == {y \in Brokers : a \in Ancestors[y] \/ y \in Ancestors[a]}
<1>1. a \in Brokers /\ b \in Brokers
  BY AncestorSteps
<1>2. ASSUME NEW y \in S \cap Lower PROVE Parent[y] \in S
  <2>1. Parent[y] \in Brokers
    BY PubSubAssumption
  <2>2. CASE y \in Ancestors[a]
    BY <1>1, <2>1, <2>2, AncestorSteps
  <2>3. CASE a \in Ancestors[y]
    <3>1. a = y \/ a \in Ancestors[Parent[y]]
      BY <2>3, AncestorSplits
    <3>2. CASE a = y
      BY <1>1, <2>1, <3>2, AncestorSteps
    <3> QED
      BY <2>1, <3>1, <3>2
  <2> QED
    BY <2>2, <2>3
<1>3. S \in SUBSET Brokers /\ x \in S /\ Upward(S)
  BY <1>2 DEF Upward
<1>4. b \in S
  BY <1>1, <1>3 DEF Ancestors
<1> QED
  BY <1>4

\* A broker above h, and not h, has one of those from h upwards right below it.
LEMMA StepDown ==
  ASSUME NEW h \in Brokers, NEW b \in Ancestors[h], b # h
  PROVE  \E w \in Ancestors[h] \cap Lower : Parent[w] = b
<1> SUFFICES ASSUME \A w \in Ancestors[h] \cap Lower : Parent[w] # b PROVE FALSE
  OBVIOUS
<1> DEFINE S == Ancestors[h] \ {b}
<1>1. S \in SUBSET Brokers /\ h \in S /\ Upward(S)
  BY AncestorSteps DEF Upward
<1>2. b \in Brokers
  BY AncestorSteps
<1>3. b \in S
  BY <1>1, <1>2 DEF Ancestors
<1> QED
  BY <1>3

\* Brokers that are only above h have the next on the way to h right below them.
LEMMA StepDownOnly ==
  ASSUME NEW h \in Brokers, NEW p \in Brokers, NEW b \in OnlyAbove(h, p), b # h
  PROVE  \E w \in OnlyAbove(h, p) \cap Lower : Parent[w] = b
<1>1. b \in Ancestors[h] /\ b \notin Ancestors[p]
  BY DEF OnlyAbove
<1>2. PICK w \in Ancestors[h] \cap Lower : Parent[w] = b
  BY <1>1, StepDown
<1>3. w \notin Ancestors[p]
  BY <1>1, <1>2, AncestorSteps
<1> QED
  BY <1>2, <1>3 DEF OnlyAbove

\* A broker only above h is below another; that one is only above h too, or above both.
LEMMA OnlyAboveLower ==
  ASSUME Acyclic, NEW h \in Brokers, NEW p \in Brokers, NEW b \in OnlyAbove(h, p)
  PROVE  /\ b \in Lower /\ b \in Brokers /\ Parent[b] \in Brokers /\ Parent[b] \in Ancestors[h]
         /\ Parent[b] \notin Ancestors[p] => Parent[b] \in OnlyAbove(h, p)
<1>1. b \in Ancestors[h] /\ b \notin Ancestors[p] /\ b \in Brokers
  BY AncestorSteps DEF OnlyAbove
<1>2. b \in Lower
  BY <1>1, RootAboveAll DEF Lower
<1>3. Parent[b] \in Ancestors[h] /\ Parent[b] \in Brokers
  BY <1>1, <1>2, AncestorSteps, PubSubAssumption
<1> QED
  BY <1>1, <1>2, <1>3 DEF OnlyAbove

\* Where the ways up from h and p meet, the one is h's, or the next on the way to h is
\* only above h.
LEMMA MeetingPoint ==
  ASSUME Acyclic, NEW h \in Brokers, NEW p \in Brokers,
         NEW b \in Ancestors[h] \cap Ancestors[p], b # h,
         b = p \/ \E v \in OnlyAbove(p, h) \cap Lower : Parent[v] = b
  PROVE  \E w \in OnlyAbove(h, p) \cap Lower : Parent[w] = b
<1>1. PICK w \in Ancestors[h] \cap Lower : Parent[w] = b
  BY StepDown
<1>2. ASSUME w \in Ancestors[p] PROVE FALSE
  <2>1. CASE b = p
    BY <1>1, <1>2, <2>1, NoWayBack
  <2>2. CASE \E v \in OnlyAbove(p, h) \cap Lower : Parent[v] = b
    <3>1. PICK v \in OnlyAbove(p, h) \cap Lower : Parent[v] = b
      BY <2>2
    <3>2. v \in Ancestors[p] /\ v \notin Ancestors[h] /\ v \in Brokers /\ w \in Brokers /\ v # w
      BY <1>1, <1>2, <3>1, AncestorSteps DEF OnlyAbove
    <3>3. v \notin Ancestors[w]
      BY <1>1, <3>2, AncestorSteps
    <3>4. w \in Ancestors[v]
      BY <1>2, <3>2, <3>3, InLine
    <3>5. w \in Ancestors[b] /\ b \in Brokers
      BY <3>1, <3>2, <3>4, AncestorSplits
    <3> QED
      BY <1>1, <3>5, NoWayBack
  <2> QED
    BY <2>1, <2>2
<1> QED
  BY <1>1, <1>2 DEF OnlyAbove

\* A topic is wanted of a broker by a client of its, or a broker below or above it.
LEMMA SomeWant ==
  ASSUME NEW b \in Brokers, NEW t
  PROVE  /\ Places =>
              /\ (\E d \in Clients : On(br[b], d, t)) \/ pubS[b][t] # {} =>
                   ForNorth(b, t) > 0 /\ ForSouth(b, t) > 0
              /\ (\E k \in Pairs : k[1] = b /\ t \in pubN[k]) => ForSouth(b, t) > 0
         /\ Places' =>
              /\ (\E d \in Clients : On(br'[b], d, t)) \/ pubS'[b][t] # {} =>
                   ForNorth(b, t)' > 0 /\ ForSouth(b, t)' > 0
              /\ (\E k \in Pairs : k[1] = b /\ t \in pubN'[k]) => ForSouth(b, t)' > 0
<1>1. ASSUME NEW x, TrieCounts(x), NEW d \in Clients, On(x, d, t)
      PROVE  Cardinality({c \in Clients : On(x, c, t)}) > 0
  <2> DEFINE S == {c \in Clients : On(x, c, t)}
  <2>1. IsFiniteSet(S) /\ Cardinality(S) \in Nat /\ d \in S
    BY <1>1, HereCounts
  <2> HIDE DEF S
  <2>2. Cardinality(S) # 0
    BY <2>1, FS_EmptySet
  <2> QED
    BY <2>1, <2>2 DEF S
<1>2. ASSUME Places
      PROVE  /\ (\E d \in Clients : On(br[b], d, t)) \/ pubS[b][t] # {} =>
                  ForNorth(b, t) > 0 /\ ForSouth(b, t) > 0
             /\ (\E k \in Pairs : k[1] = b /\ t \in pubN[k]) => ForSouth(b, t) > 0
  <2>1. TrieCounts(br[b]) /\ Local(b, t) \in Nat
    BY <1>2, WantedNumbers DEF Places
  <2>2. (\E d \in Clients : On(br[b], d, t)) => Local(b, t) > 0
    <3> DEFINE x == br[b]
    <3>1. TrieCounts(x)
      BY <2>1
    <3> HIDE DEF x
    <3>2. ASSUME NEW d \in Clients, On(x, d, t)
          PROVE  Cardinality({c \in Clients : On(x, c, t)}) > 0
      BY <1>1, <3>1, <3>2
    <3> QED
      BY <3>2 DEF Local, Here, x
  <2>3. Below(b, t) \in Nat /\ (pubS[b][t] # {} => Below(b, t) = 1)
    BY DEF Below
  <2>4. FromAbove(b, t) \in Nat /\ ((\E k \in Pairs : k[1] = b /\ t \in pubN[k]) => FromAbove(b, t) = 1)
    BY DEF FromAbove
  <2> QED
    BY <2>1, <2>2, <2>3, <2>4 DEF ForNorth, ForSouth
<1>3. ASSUME Places'
      PROVE  /\ (\E d \in Clients : On(br'[b], d, t)) \/ pubS'[b][t] # {} =>
                  ForNorth(b, t)' > 0 /\ ForSouth(b, t)' > 0
             /\ (\E k \in Pairs : k[1] = b /\ t \in pubN'[k]) => ForSouth(b, t)' > 0
  <2>1. TrieCounts(br'[b]) /\ Local(b, t)' \in Nat
    BY <1>3, WantedNumbers DEF Places
  <2>2. (\E d \in Clients : On(br'[b], d, t)) => Local(b, t)' > 0
    <3> DEFINE x == br'[b]
    <3>1. TrieCounts(x)
      BY <2>1
    <3> HIDE DEF x
    <3>2. ASSUME NEW d \in Clients, On(x, d, t)
          PROVE  Cardinality({c \in Clients : On(x, c, t)}) > 0
      BY <1>1, <3>1, <3>2
    <3> QED
      BY <3>2 DEF Local, Here, x
  <2>3. Below(b, t)' \in Nat /\ (pubS'[b][t] # {} => Below(b, t)' = 1)
    BY DEF Below
  <2>4. /\ FromAbove(b, t)' \in Nat
        /\ (\E k \in Pairs : k[1] = b /\ t \in pubN'[k]) => FromAbove(b, t)' = 1
    BY DEF FromAbove
  <2> QED
    BY <2>1, <2>2, <2>3, <2>4 DEF ForNorth, ForSouth
<1> QED
  BY <1>2, <1>3

\* A callback (un)subscribes to one topic at most on each socket.
OneWant(r) == \E m \in Wants : Wrote(r, "subN") \subseteq {m} /\ Wrote(r, "subS") \subseteq {m}

\* An XSUB socket ends a topic only when its count gets to 0.
LEMMA XsubEnds ==
  ASSUME NEW cnt \in [SubTopics -> Nat], NEW M, NEW m \in Wants, M \subseteq {m},
         NEW t \in SubTopics, NEW q, IsSeq(q), Ends(q \o XsubPasses(cnt, M), t)
  PROVE  Ends(q, t) \/ XsubCount(cnt, M)[t] = 0
<1> DEFINE P == {x \in M : x.cmd = "SUB" \/ cnt[x.topic] = 1}
           p == XsubPasses(cnt, M)
<1>1. p = <<>> \/ p = <<m>>
  <2>1. P \subseteq {m} /\ p = SetToSeq(P)
    BY DEF XsubPasses
  <2> HIDE DEF P, p
  <2> QED
    BY <2>1, SeqOfOne
<1>2. CASE p = <<>>
  <2>1. q \o <<>> = q
    BY DEF IsSeq
  <2> QED
    BY <1>2, <2>1
<1>3. CASE p = <<m>> /\ ~(m \in P)
  <2>1. P = {} /\ p = SetToSeq(P)
    BY <1>3 DEF XsubPasses
  <2>2. \A x : SetToSeq({}) = <<>> \/ SetToSeq({}) = <<x>>
    BY SeqOfOne
  <2>3. SetToSeq({}) = <<>>
    <3>1. PICK x : x # m
      OBVIOUS
    <3>2. <<x>> # <<m>>
      BY <3>1
    <3> QED
      BY <2>2, <3>2
  <2> QED
    BY <1>2, <2>1, <2>3
<1>4. CASE p = <<m>> /\ m \in P
  <2> SUFFICES ASSUME ~Ends(q, t) PROVE XsubCount(cnt, M)[t] = 0
    OBVIOUS
  <2>1. PICK i \in DOMAIN (q \o p) : (q \o p)[i].topic = t /\ (q \o p)[i].cmd = "UNSUB"
    BY DEF Ends
  <2>2. IsSeq(<<m>>) /\ DOMAIN <<m>> = {1} /\ <<m>>[1] = m
    BY ShortSeqs
  <2>3. (q \o p)[i] = m
    <3>1. \/ i \in DOMAIN q /\ (q \o <<m>>)[i] = q[i]
          \/ i - Len(q) \in DOMAIN <<m>> /\ (q \o <<m>>)[i] = <<m>>[i - Len(q)]
      BY <1>4, <2>1, <2>2, Concat
    <3> QED
      BY <1>4, <2>1, <2>2, <3>1 DEF Ends
  <2>4. m.topic = t /\ m.cmd = "UNSUB" /\ cnt[t] = 1 /\ M = {m}
    BY <1>4, <2>1, <2>3
  <2>5. m = [cmd |-> "UNSUB", topic |-> t] /\ [cmd |-> "SUB", topic |-> t] # m
    BY <2>4 DEF Wants
  <2> QED
    BY <2>4, <2>5 DEF XsubCount
<1> QED
  BY <1>1, <1>2, <1>3, <1>4

\* A callback ends a topic on a pipe only when the sender no longer counts it.
LEMMA FinishEnds ==
  ASSUME Sockets, Places, NEW b \in Brokers, NEW r, OneWant(r), NEW wu, NEW wd, NEW pu, NEW pd,
         Finish(b, r, wu, wd, pu, pd), \A k \in Pairs : IsSeq(wu[k]) /\ IsSeq(wd[k]),
         pairs' = pairs
  PROVE  \A k \in Pairs, t \in SubTopics :
           /\ Ends(wantUp'[k], t) => Ends(wu[k], t) \/ subN'[k][t] = 0
           /\ Ends(wantDown'[k], t) => Ends(wd[k], t) \/ subS'[Above(k)][t] = 0
<1> SUFFICES ASSUME NEW k \in Pairs, NEW t \in SubTopics
             PROVE  /\ Ends(wantUp'[k], t) => Ends(wu[k], t) \/ subN'[k][t] = 0
                    /\ Ends(wantDown'[k], t) => Ends(wd[k], t) \/ subS'[Above(k)][t] = 0
  OBVIOUS
<1>1. PICK m \in Wants : Wrote(r, "subN") \subseteq {m} /\ Wrote(r, "subS") \subseteq {m}
  BY DEF OneWant
<1>2. subN[k] \in [SubTopics -> Nat] /\ subS[b] \in [SubTopics -> Nat] /\ DOMAIN subS = Brokers
  BY DEF Sockets, Typed
<1>3. PICK M, c, q : M = Wrote(r, "subN") /\ c = subN[k] /\ q = wu[k]
  OBVIOUS
<1>4. Ends(wantUp'[k], t) => Ends(wu[k], t) \/ subN'[k][t] = 0
  <2> SUFFICES ASSUME Ends(wantUp'[k], t), ~Ends(q, t) PROVE subN'[k][t] = 0
    BY <1>3
  <2>1. wantUp'[k] = q \o XsubPasses(c, M) /\ subN'[k] = XsubCount(c, M)
    BY <1>3 DEF Finish
  <2>2. Ends(q \o XsubPasses(c, M), t)
    BY <2>1
  <2>3. XsubCount(c, M)[t] = 0
    BY <1>1, <1>2, <1>3, <2>2, XsubEnds
  <2> QED
    BY <2>1, <2>3
<1>5. PICK N, e, u : N = Wrote(r, "subS") /\ e = subS[b] /\ u = wd[k]
  OBVIOUS
<1>6. Ends(wantDown'[k], t) => Ends(wd[k], t) \/ subS'[Above(k)][t] = 0
  <2> SUFFICES ASSUME Ends(wantDown'[k], t), ~Ends(u, t) PROVE subS'[Above(k)][t] = 0
    BY <1>5
  <2>1. wantDown'[k] = u \o XsubPasses(e, N) /\ Above(k) = b
    BY <1>5 DEF Finish
  <2>2. subS'[b] = XsubCount(e, N)
    BY <1>2, <1>5 DEF Finish
  <2>3. Ends(u \o XsubPasses(e, N), t)
    BY <2>1
  <2>4. XsubCount(e, N)[t] = 0
    BY <1>1, <1>2, <1>5, <2>3, XsubEnds
  <2> QED
    BY <2>1, <2>2, <2>4
<1> QED
  BY <1>4, <1>6

\* Brokers that are registered have their pair of sockets.
LEMMA PairOf ==
  ASSUME NEW b \in Lower, NEW n \in Nat, n > 0, n <= MaxPairs[b]
  PROVE  <<b, n>> \in Pairs
<1>1. MaxPairs[b] \in Nat
  BY PubSubAssumption
<1>2. n \in 1 .. MaxPairs[b]
  BY <1>1
<1> QED
  BY <1>2 DEF Pairs

\* A step takes nothing of the way of t: no broker that is registered fails to send a
\* subscription on, and t is ended on no pipe whose sender counts it.
LeavesWay(t) ==
  /\ \A b \in Brokers : /\ <<b, t>> \in late' => <<b, t>> \in late \/ ~(pairs[b] > 0)
                        /\ <<b, t>> \in stray' => <<b, t>> \in stray
  /\ \A k \in Pairs : pairs[k[1]] > 0 =>
       /\ Connected(k)' => Connected(k)
       /\ k \in pubS[Above(k)][t] /\ ~Ends(wantUp[k], t) => k \in pubS'[Above(k)][t]
       /\ t \in pubN[k] /\ ~Ends(wantDown[k], t) => t \in pubN'[k]
       /\ Ends(wantUp'[k], t) => Ends(wantUp[k], t) \/ subN'[k][t] = 0
       /\ Ends(wantDown'[k], t) => Ends(wantDown[k], t) \/ subS'[Above(k)][t] = 0

\* After a step that ends t on no pipe that counts it, and takes no socket off
\* that has t unless the pipe ended it, the way is as open as it was.
LEMMA WayKeeps ==
  ASSUME Acyclic, WantInv', Places, Places', PairsOnce',
         \A b \in Lower : pairs'[b] >= pairs[b] /\ pairs'[b] <= MaxPairs[b],
         NEW h \in Brokers, NEW p \in Brokers, NEW t \in SubTopics, Way(h, p, t),
         \E d \in Clients : On(br'[h], d, t),
         LeavesWay(t)
  PROVE  Way(h, p, t)'
<1>1. ASSUME NEW b \in OnlyAbove(h, p)
      PROVE  b \in Lower /\ b \in Brokers /\ Parent[b] \in Brokers /\ pairs[b] > 0 /\ pairs'[b] > 0
             /\ <<b, t>> \notin late' /\ UpWay(b, t)
  <2>1. b \in Lower /\ b \in Brokers /\ Parent[b] \in Brokers /\ pairs[b] \in Nat
        /\ pairs'[b] \in Nat
    BY OnlyAboveLower DEF Places
  <2> QED
    BY <2>1 DEF Way, LeavesWay
<1>2. ASSUME NEW b \in OnlyAbove(p, h)
      PROVE  b \in Lower /\ b \in Brokers /\ Parent[b] \in Brokers /\ pairs[b] > 0 /\ pairs'[b] > 0
             /\ DownWay(b, t)
  <2>1. b \in Lower /\ b \in Brokers /\ Parent[b] \in Brokers /\ pairs[b] \in Nat
        /\ pairs'[b] \in Nat
    BY OnlyAboveLower DEF Places
  <2> QED
    BY <2>1 DEF Way, LeavesWay
<1>3. \A b \in Ancestors[h] \cup Ancestors[p] : b \in Brokers /\ <<b, t>> \notin stray'
  BY AncestorSteps DEF Way, LeavesWay
<1>4. ASSUME NEW b \in OnlyAbove(h, p), NEW k \in Pairs, k[1] = b, Connected(k)'
      PROVE  k \in pubS'[Above(k)][t] /\ ~Ends(wantUp[k], t)
  BY <1>1, <1>4 DEF UpWay, LeavesWay
<1>5. ASSUME NEW b \in OnlyAbove(p, h), NEW k \in Pairs, k[1] = b, Connected(k)'
      PROVE  t \in pubN'[k] /\ ~Ends(wantDown[k], t)
  BY <1>2, <1>5 DEF DownWay, LeavesWay
<1>6. ASSUME NEW b \in Lower, pairs'[b] > 0
      PROVE  \E k \in Pairs : k[1] = b /\ Connected(k)'
  <2>1. PICK n : n = pairs'[b]
    OBVIOUS
  <2>2. n \in Nat /\ n > 0 /\ n <= MaxPairs[b]
    BY <1>6, <2>1 DEF Places
  <2>3. <<b, n>> \in Pairs
    BY <2>2, PairOf
  <2>4. <<b, n>>[1] = b /\ <<b, n>>[2] = n /\ n <= pairs'[b]
    BY <2>1, <2>2
  <2>5. Connected(<<b, n>>)'
    BY <2>4 DEF Connected
  <2> QED
    BY <2>3, <2>4, <2>5
<1>7. ASSUME NEW w \in OnlyAbove(h, p) PROVE pubS'[Parent[w]][t] # {}
  <2>1. PICK k \in Pairs : k[1] = w /\ Connected(k)'
    BY <1>1, <1>6
  <2> QED
    BY <1>4, <2>1 DEF Above
<1>8. ASSUME NEW b \in OnlyAbove(h, p) PROVE ForNorth(b, t)' > 0
  <2>1. CASE b = h
    BY <1>1, <2>1, SomeWant
  <2>2. CASE b # h
    <3>1. PICK w \in OnlyAbove(h, p) \cap Lower : Parent[w] = b
      BY <2>2, StepDownOnly
    <3> QED
      BY <1>1, <1>7, <3>1, SomeWant
  <2> QED
    BY <2>1, <2>2
<1>9. ASSUME NEW b \in OnlyAbove(p, h) PROVE ForSouth(Parent[b], t)' > 0
  <2>1. b \in Lower /\ Parent[b] \in Brokers /\ Parent[b] \in Ancestors[p]
        /\ (Parent[b] \notin Ancestors[h] => Parent[b] \in OnlyAbove(p, h))
    BY OnlyAboveLower
  <2>2. CASE Parent[b] \notin Ancestors[h]
    <3>1. PICK k \in Pairs : k[1] = Parent[b] /\ Connected(k)'
      BY <1>2, <1>6, <2>1, <2>2
    <3>2. t \in pubN'[k]
      BY <1>5, <2>1, <2>2, <3>1
    <3> QED
      BY <2>1, <3>1, <3>2, SomeWant
  <2>3. CASE Parent[b] = h
    BY <2>1, <2>3, SomeWant
  <2>4. CASE Parent[b] \in Ancestors[h] /\ Parent[b] # h
    <3>1. PICK m : m = Parent[b]
      OBVIOUS
    <3>2. m \in Ancestors[h] \cap Ancestors[p] /\ m # h
          /\ \E v \in OnlyAbove(p, h) \cap Lower : Parent[v] = m
      BY <2>1, <2>4, <3>1
    <3>3. PICK w \in OnlyAbove(h, p) \cap Lower : Parent[w] = m
      BY <3>2, MeetingPoint
    <3> QED
      BY <1>7, <2>1, <3>1, <3>3, SomeWant
  <2> QED
    BY <2>2, <2>3, <2>4
<1>10. /\ \A k \in Pairs : subN'[k][t] \in Nat
       /\ \A b \in Brokers : subS'[b][t] \in Nat
  BY DEF WantInv, Sockets, Typed
<1>11. ASSUME NEW b \in OnlyAbove(h, p) PROVE UpWay(b, t)'
  <2>1. ASSUME NEW k \in Pairs, k[1] = b, Connected(k)' PROVE ~Ends(wantUp'[k], t)
    <3>1. b \in Ancestors[h]
      BY DEF OnlyAbove
    <3>2. subN'[k][t] >= ForNorth(b, t)'
      BY <1>1, <1>3, <2>1, <3>1 DEF WantInv, AtLeast
    <3>3. ForNorth(b, t)' \in Nat
      BY <1>1, WantedNumbers
    <3>4. subN'[k][t] # 0
      BY <1>8, <1>10, <3>2, <3>3
    <3> QED
      BY <1>1, <1>4, <2>1, <3>4 DEF LeavesWay
  <2>2. \A k : Above(k)' = Above(k)
    BY DEF Above
  <2> QED
    BY <1>4, <2>1, <2>2 DEF UpWay
<1>12. ASSUME NEW b \in OnlyAbove(p, h) PROVE DownWay(b, t)'
  <2>1. ASSUME NEW k \in Pairs, k[1] = b, Connected(k)' PROVE ~Ends(wantDown'[k], t)
    <3>1. Above(k) = Parent[b] /\ Parent[b] \in Brokers /\ Parent[b] \in Ancestors[p]
      BY <1>2, <2>1, OnlyAboveLower DEF Above
    <3>2. subS'[Parent[b]][t] >= ForSouth(Parent[b], t)'
      BY <1>3, <3>1 DEF WantInv, AtLeast
    <3>3. ForSouth(Parent[b], t)' \in Nat
      BY <3>1, WantedNumbers
    <3>4. subS'[Above(k)][t] # 0
      BY <1>9, <1>10, <3>1, <3>2, <3>3
    <3> QED
      BY <1>2, <1>5, <2>1, <3>4 DEF LeavesWay
  <2> QED
    BY <1>5, <2>1 DEF DownWay
<1> QED
  BY <1>1, <1>2, <1>3, <1>11, <1>12 DEF Way

\* When all subscriptions have arrived, a pipe's receiver has what its sender counts.
LEMMA SettledPipes ==
  ASSUME WantInv, Settled, NEW k \in Pairs, NEW t \in SubTopics, Connected(k)
  PROVE  /\ k \in pubS[Above(k)][t] <=> subN[k][t] > 0
         /\ t \in pubN[k] <=> subS[Above(k)][t] > 0
         /\ ~Ends(wantUp[k], t) /\ ~Ends(wantDown[k], t)
<1>1. /\ Arrives(wantUp[k], t, k, pubS[Above(k)][t], subN[k][t])
      /\ Arrives(wantDown[k], t, t, pubN[k], subS[Above(k)][t])
  BY DEF WantInv, Sockets, InStep
<1>2. wantUp[k] = <<>> /\ wantDown[k] = <<>> /\ DOMAIN <<>> = {}
  BY DEF Settled
<1>3. \A cmd : ~LastSays(wantUp[k], t, cmd) /\ ~LastSays(wantDown[k], t, cmd)
  BY <1>2 DEF LastSays
<1> QED
  BY <1>1, <1>2, <1>3 DEF Arrives, Ends

\* When all subscriptions have arrived, the way is open to every broker with a
\* client that has the topic, unless it was lost before.
LEMMA SettledWay ==
  ASSUME Acyclic, WantInv, Places, PairsOnce, Settled,
         \A b \in Lower : pairs[b] <= MaxPairs[b],
         NEW h \in Brokers, NEW p \in Brokers, NEW t \in SubTopics,
         \E d \in Clients : On(br[h], d, t),
         \A b \in Ancestors[p] \ {Root} : pairs[b] > 0,
         \A b \in Ancestors[h] \ Ancestors[p] : <<b, t>> \notin late,
         \A b \in Ancestors[h] \cup Ancestors[p] : <<b, t>> \notin stray
  PROVE  Way(h, p, t)
<1>1. /\ \A k \in Pairs : subN[k][t] \in Nat
      /\ \A b \in Brokers : subS[b][t] \in Nat
      /\ \A b \in Lower : pairs[b] \in Nat
  BY DEF WantInv, Sockets, Typed, Places
<1>2. ASSUME NEW b \in Lower, pairs[b] > 0
      PROVE  \E k \in Pairs : k[1] = b /\ Connected(k)
  <2>1. PICK n : n = pairs[b]
    OBVIOUS
  <2>2. n \in Nat /\ n > 0 /\ n <= MaxPairs[b]
    BY <1>1, <1>2, <2>1
  <2>3. <<b, n>> \in Pairs
    BY <2>2, PairOf
  <2>4. <<b, n>>[1] = b /\ <<b, n>>[2] = n /\ n <= pairs[b]
    BY <2>1, <2>2
  <2> QED
    BY <2>3, <2>4 DEF Connected
<1>3. ASSUME NEW b \in OnlyAbove(h, p), ForNorth(b, t) > 0
      PROVE  pairs[b] > 0 /\ UpWay(b, t)
  <2>1. b \in Lower /\ b \in Brokers /\ b \in Ancestors[h] /\ b \notin Ancestors[p]
    BY OnlyAboveLower DEF OnlyAbove
  <2>2. ForNorth(b, t) \in Nat
    BY <2>1, WantedNumbers
  <2>3. /\ pairs[b] = 0 => ForNorth(b, t) = 0
        /\ \A k \in Pairs : k[1] = b /\ Connected(k) => subN[k][t] >= ForNorth(b, t)
    BY <2>1 DEF WantInv, AtLeast
  <2>4. pairs[b] > 0
    BY <1>1, <1>3, <2>1, <2>2, <2>3
  <2>5. ASSUME NEW k \in Pairs, k[1] = b, Connected(k) PROVE subN[k][t] > 0
    BY <1>1, <1>3, <2>2, <2>3, <2>5
  <2> QED
    BY <2>4, <2>5, SettledPipes DEF UpWay
<1>4. ASSUME NEW w \in OnlyAbove(h, p), ForNorth(w, t) > 0 PROVE pubS[Parent[w]][t] # {}
  <2>1. PICK k \in Pairs : k[1] = w /\ Connected(k)
    BY <1>2, <1>3, <1>4, OnlyAboveLower
  <2> QED
    BY <1>3, <1>4, <2>1 DEF UpWay, Above
<1>5. ASSUME NEW b \in OnlyAbove(h, p) PROVE ForNorth(b, t) > 0
  <2> DEFINE S == {a \in Ancestors[h] : a \in OnlyAbove(h, p) => ForNorth(a, t) > 0}
  <2>1. h \in S
    BY AncestorSteps, SomeWant
  <2>2. ASSUME NEW a \in S \cap Lower PROVE Parent[a] \in S
    <3>1. Parent[a] \in Ancestors[h] /\ Parent[a] \in Brokers
      BY AncestorSteps, PubSubAssumption
    <3>2. ASSUME Parent[a] \in OnlyAbove(h, p) PROVE ForNorth(Parent[a], t) > 0
      <4>1. a \in OnlyAbove(h, p)
        BY <3>2, AncestorSteps DEF OnlyAbove
      <4>2. pubS[Parent[a]][t] # {}
        BY <1>4, <4>1
      <4> QED
        BY <3>1, <4>2, SomeWant
    <3> QED
      BY <3>1, <3>2
  <2>3. S \in SUBSET Brokers /\ Upward(S)
    BY <2>2, AncestorSteps DEF Upward
  <2>4. b \in S
    BY <2>1, <2>3 DEF Ancestors, OnlyAbove
  <2> QED
    BY <2>4
<1> DEFINE V == {b \in OnlyAbove(p, h) : ~DownWay(b, t)}
<1>6. V = {}
  <2> SUFFICES ASSUME V # {} PROVE FALSE
    OBVIOUS
  <2>1. V \subseteq Brokers
    BY OnlyAboveLower
  <2>2. PICK v \in V : v \in Lower => Parent[v] \notin V
    <3> HIDE DEF V
    <3> QED
      BY <2>1, HighestOf
  <2>3. PICK m : m = Parent[v]
    OBVIOUS
  <2>4. /\ v \in OnlyAbove(p, h) /\ v \in Lower /\ m \in Brokers /\ m \in Ancestors[p]
        /\ m \notin Ancestors[h] => m \in OnlyAbove(p, h) /\ DownWay(m, t)
    BY <2>2, <2>3, OnlyAboveLower
  <2>5. ForSouth(m, t) > 0
    <3>1. CASE m \notin Ancestors[h]
      <4>1. m \in Lower /\ m # Root
        BY <2>4, <3>1, OnlyAboveLower DEF Lower
      <4>2. pairs[m] > 0
        BY <2>4, <4>1
      <4>3. PICK k \in Pairs : k[1] = m /\ Connected(k)
        BY <1>2, <4>1, <4>2
      <4>4. t \in pubN[k]
        BY <2>4, <3>1, <4>3 DEF DownWay
      <4> QED
        BY <2>4, <4>3, <4>4, SomeWant
    <3>2. CASE m = h
      BY <3>2, SomeWant
    <3>3. CASE m \in Ancestors[h] /\ m # h
      <4>1. PICK w \in OnlyAbove(h, p) \cap Lower : Parent[w] = m
        BY <2>3, <2>4, <3>3, MeetingPoint
      <4> QED
        BY <1>4, <1>5, <2>4, <4>1, SomeWant
    <3> QED
      BY <3>1, <3>2, <3>3
  <2>6. subS[m][t] > 0
    <3>1. subS[m][t] >= ForSouth(m, t) /\ ForSouth(m, t) \in Nat
      BY <2>4, WantedNumbers DEF WantInv, AtLeast
    <3> QED
      BY <1>1, <2>4, <2>5, <3>1
  <2>7. DownWay(v, t)
    BY <2>3, <2>6, SettledPipes DEF DownWay, Above
  <2> QED
    BY <2>2, <2>7
<1>7. \A b \in OnlyAbove(p, h) : pairs[b] > 0
  BY OnlyAboveLower DEF OnlyAbove, Lower
<1>8. \A b \in OnlyAbove(p, h) : DownWay(b, t)
  BY <1>6
<1>9. \A b \in OnlyAbove(h, p) : <<b, t>> \notin late
  BY DEF OnlyAbove
<1> QED
  BY <1>3, <1>5, <1>7, <1>8, <1>9 DEF Way

\* A message written after others.
LEMMA Appended ==
  ASSUME NEW q, NEW m, NEW new, IsSeq(q), new = q \o <<m>>
  PROVE  /\ \A i \in DOMAIN q : i \in DOMAIN new /\ new[i] = q[i]
         /\ \E i \in DOMAIN new : new[i] = m
<1>1. PICK p : p = <<m>>
  OBVIOUS
<1>2. IsSeq(p)
  BY <1>1, ShortSeqs
<1>3. 1 \in DOMAIN p /\ p[1] = m
  BY <1>1
<1>4. new = q \o p
  BY <1>1
<1>5. \A i \in DOMAIN q : i \in DOMAIN new /\ new[i] = q[i]
  BY <1>2, <1>4, Concat
<1>6. Len(q) + 1 \in DOMAIN new /\ new[Len(q) + 1] = p[1]
  BY <1>2, <1>3, <1>4, Concat
<1> QED
  BY <1>3, <1>5, <1>6

\* A sequence of the one member of a set.
LEMMA SeqOfIt ==
  ASSUME NEW x, NEW S, S = {x}
  PROVE  SetToSeq(S) = <<x>>
<1>1. SetToSeq(S) = <<>> \/ SetToSeq(S) = <<x>>
  BY SeqOfOne
<1>2. IsFiniteSet(S)
  BY FS_Singleton
<1>3. \E i \in DOMAIN SetToSeq(S) : SetToSeq(S)[i] = x
  BY <1>2, Listed
<1> QED
  BY <1>1, <1>3

\* What is on a pipe stays there, and what a callback publishes gets on the pipes to
\* those who want it.
LEMMA FinishSends ==
  ASSUME NEW b, NEW r, NEW wu, NEW wd, NEW pu, NEW pd, NEW mn, NEW ms,
         Finish(b, r, wu, wd, pu, pd), Speaks(r, mn, ms), Queues(pu, pd), NEW k \in Pairs
  PROVE  /\ \A i \in DOMAIN pu[k] : i \in DOMAIN pubUp'[k] /\ pubUp'[k][i] = pu[k][i]
         /\ \A i \in DOMAIN pd[k] : i \in DOMAIN pubDown'[k] /\ pubDown'[k][i] = pd[k][i]
         /\ \A t : mn \in Wrote(r, "pubN") /\ k = Present(b) /\ t \in pubN'[k] /\ Matches(t, mn.topic)
              => \E i \in DOMAIN pubUp'[k] : pubUp'[k][i] = mn
         /\ \A t \in SubTopics :
              /\ ms \in Wrote(r, "pubS") /\ Connected(k) /\ Above(k) = b
              /\ k \in pubS'[b][t] /\ Matches(t, ms.topic)
              => \E i \in DOMAIN pubDown'[k] : pubDown'[k][i] = ms
<1>1. More(b, pu, pd, mn, ms)
  BY FinishSpeaks
<1>2. PICK q, u, q1, u1 : q = pu[k] /\ u = pd[k] /\ q1 = pubUp'[k] /\ u1 = pubDown'[k]
  OBVIOUS
<1>3. IsSeq(q) /\ IsSeq(u)
  BY <1>2 DEF Queues
<1>4. (q1 = q \/ q1 = q \o <<mn>>) /\ (u1 = u \/ u1 = u \o <<ms>>)
  BY <1>1, <1>2 DEF More
<1>5. /\ \A i \in DOMAIN q : i \in DOMAIN q1 /\ q1[i] = q[i]
      /\ \A i \in DOMAIN u : i \in DOMAIN u1 /\ u1[i] = u[i]
  <2>1. q1 = q \o <<mn>> => \A i \in DOMAIN q : i \in DOMAIN q1 /\ q1[i] = q[i]
    BY <1>3, Appended
  <2>2. u1 = u \o <<ms>> => \A i \in DOMAIN u : i \in DOMAIN u1 /\ u1[i] = u[i]
    BY <1>3, Appended
  <2> QED
    BY <1>4, <2>1, <2>2
<1>6. ASSUME NEW t, mn \in Wrote(r, "pubN"), k = Present(b), t \in pubN'[k], Matches(t, mn.topic)
      PROVE  \E i \in DOMAIN q1 : q1[i] = mn
  <2>1. PICK M : M = {m \in Wrote(r, "pubN") : Wanted(pubN'[k], m)}
    OBVIOUS
  <2>2. k[1] = b
    BY <1>6 DEF Present
  <2>3. q1 = q \o SetToSeq(M)
    BY <1>2, <1>6, <2>1, <2>2 DEF Finish
  <2>4. M = {mn}
    <3>1. M \subseteq {mn}
      BY <2>1 DEF Wrote, Speaks
    <3>2. mn \in M
      BY <1>6, <2>1 DEF Wanted
    <3> QED
      BY <3>1, <3>2
  <2>5. SetToSeq(M) = <<mn>>
    BY <2>4, SeqOfIt
  <2>6. q1 = q \o <<mn>>
    BY <2>3, <2>5
  <2> QED
    BY <1>3, <2>6, Appended
<1>7. ASSUME NEW t \in SubTopics, ms \in Wrote(r, "pubS"), Connected(k), Above(k) = b,
             k \in pubS'[b][t], Matches(t, ms.topic)
      PROVE  \E i \in DOMAIN u1 : u1[i] = ms
  <2>1. PICK T, M : T = {x \in SubTopics : k \in pubS'[b][x]} /\ M = {m \in Wrote(r, "pubS") : Wanted(T, m)}
    OBVIOUS
  <2>2. u1 = u \o SetToSeq(M)
    BY <1>2, <1>7, <2>1 DEF Finish
  <2>3. M = {ms}
    <3>1. M \subseteq {ms}
      BY <2>1 DEF Wrote, Speaks
    <3>2. ms \in M
      BY <1>7, <2>1 DEF Wanted
    <3> QED
      BY <3>1, <3>2
  <2>4. SetToSeq(M) = <<ms>>
    BY <2>3, SeqOfIt
  <2>5. u1 = u \o <<ms>>
    BY <2>2, <2>4
  <2> QED
    BY <1>3, <2>5, Appended
<1> QED
  BY <1>2, <1>5, <1>6, <1>7

\* A broker that had a publication of p sends it on towards h: up, if it is only above
\* p; down, if it is above h and the publication came from elsewhere.
LEMMA GoesOn ==
  ASSUME Acyclic, Places', NEW b \in Brokers, NEW h \in Brokers, NEW p \in Brokers, b # h,
         \A a \in Lower : pairs'[a] <= MaxPairs[a], pairs' = pairs,
         NEW t \in SubTopics, NEW topic, Matches(t, topic), Way(h, p, t)',
         NEW r, NEW wu, NEW wd, NEW pu, NEW pd, NEW mn, NEW ms,
         Finish(b, r, wu, wd, pu, pd), Speaks(r, mn, ms), Queues(pu, pd),
         ms \in Wrote(r, "pubS"), Comes(ms, p, topic),
         \/ b \in OnlyAbove(h, p)
         \/ /\ b \in Ancestors[p]
            /\ b = p \/ \E v \in Ancestors[p] \cap Lower : Parent[v] = b /\ v \notin Ancestors[h]
            /\ b \in Lower /\ pairs[b] > 0 => mn \in Wrote(r, "pubN") /\ Comes(mn, p, topic)
  PROVE  Coming(h, p, topic)'
<1>1. ASSUME NEW a \in Lower, pairs[a] > 0
      PROVE  Present(a) \in Pairs /\ Connected(Present(a)) /\ Present(a)[1] = a /\ Present(a) = Present(a)'
  <2>1. PICK n : n = pairs[a]
    OBVIOUS
  <2>2. n \in Nat /\ n > 0 /\ n <= MaxPairs[a]
    BY <1>1, <2>1 DEF Places
  <2>3. <<a, n>> \in Pairs
    BY <2>2, PairOf
  <2>4. <<a, n>>[1] = a /\ <<a, n>>[2] = n /\ n <= pairs[a]
    BY <2>1, <2>2
  <2> QED
    BY <2>1, <2>3, <2>4 DEF Present, Connected
<1>2. \A k : Connected(k)' = Connected(k) /\ Above(k)' = Above(k)
  BY DEF Connected, Above
<1>3. CASE b \in OnlyAbove(p, h)
  <2>1. b \in Lower /\ b \in Ancestors[p] /\ b \notin Ancestors[h]
    BY <1>3, OnlyAboveLower DEF OnlyAbove
  <2>2. pairs[b] > 0 /\ DownWay(b, t)'
    BY <1>3 DEF Way
  <2>3. PICK k : k = Present(b)
    OBVIOUS
  <2>4. k \in Pairs /\ k[1] = b /\ Connected(k)
    BY <1>1, <2>1, <2>2, <2>3
  <2>5. t \in pubN'[k]
    BY <1>2, <2>2, <2>4 DEF DownWay
  <2>6. mn \in Wrote(r, "pubN") /\ Comes(mn, p, topic)
    BY <2>1, <2>2 DEF OnlyAbove
  <2>7. \E i \in DOMAIN pubUp'[k] : pubUp'[k][i] = mn
    BY <2>3, <2>4, <2>5, <2>6, FinishSends DEF Comes
  <2> QED
    BY <1>3, <2>4, <2>6, <2>7 DEF Coming
<1>4. CASE b \notin OnlyAbove(p, h)
  <2>1. PICK w \in OnlyAbove(h, p) \cap Lower : Parent[w] = b
    <3>1. CASE b \in OnlyAbove(h, p)
      BY <3>1, StepDownOnly
    <3>2. CASE b \notin OnlyAbove(h, p)
      <4>1. b \in Ancestors[h] \cap Ancestors[p]
        BY <1>4, <3>2 DEF OnlyAbove
      <4>2. b = p \/ \E v \in OnlyAbove(p, h) \cap Lower : Parent[v] = b
        BY <3>2 DEF OnlyAbove
      <4> QED
        BY <4>1, <4>2, MeetingPoint
    <3> QED
      BY <3>1, <3>2
  <2>2. pairs[w] > 0 /\ UpWay(w, t)'
    BY <2>1 DEF Way
  <2>3. PICK k : k = Present(w)
    OBVIOUS
  <2>4. k \in Pairs /\ k[1] = w /\ Connected(k) /\ Above(k) = b
    BY <1>1, <2>1, <2>2, <2>3 DEF Above
  <2>5. k \in pubS'[b][t]
    BY <1>2, <2>2, <2>4 DEF UpWay
  <2>6. \E i \in DOMAIN pubDown'[k] : pubDown'[k][i] = ms
    BY <2>4, <2>5, FinishSends DEF Comes
  <2> QED
    BY <2>1, <2>4, <2>6 DEF Coming
<1> QED
  BY <1>3, <1>4

\* Publications have a scope.
LEMMA PublicationsScoped ==
  ASSUME NEW topic \in Publications
  PROVE  Scoped(topic)
<1>1. PICK c \in Publishers, n \in PubTopics : topic = PubOf(c, n)
  BY DEF Publications
<1>2. n \in Seq(Labels) /\ Tenant(c) \in Labels /\ Scope \in Seq(Labels)
  BY PubSubAssumption, NamingAssumption, BrokerAssumption DEF Tenant
<1> DEFINE L == Labels \cup {"/"}
<1>3. PICK x : x = IF IsPublic(n) THEN n ELSE <<Tenant(c)>> \o n
  OBVIOUS
<1>4. x \in Seq(L)
  <2>1. n \in Seq(L) /\ Tenant(c) \in L
    BY <1>2
  <2> HIDE DEF L
  <2>2. <<Tenant(c)>> \in Seq(L)
    BY <2>1
  <2>3. <<Tenant(c)>> \o n \in Seq(L)
    BY <2>1, <2>2
  <2> QED
    BY <1>3, <2>1, <2>3
<1>5. PICK y : y = <<"/">> \o Scope
  OBVIOUS
<1>6. y \in Seq(L) /\ 1 \in DOMAIN y /\ y[1] = "/"
  BY <1>2, <1>5
<1> HIDE DEF L
<1>7. topic = x \o y
  BY <1>1, <1>3, <1>5 DEF PubOf, PubTopic, PrefixName
<1>8. Len(x) + 1 \in DOMAIN (x \o y) /\ (x \o y)[Len(x) + 1] = "/"
  BY <1>4, <1>6
<1> QED
  BY <1>7, <1>8 DEF Scoped

\* All with a matching topic are sent the publication.
Serves(b, r, topic) ==
  \A d \in Clients : \A t : On(b, d, t) /\ Matches(t, topic)
                               => Cardinality({o \in r.rout : o.to = d}) > 0

\* It goes on down as ms, with path, and up as mn with this broker's id.
GoesDown(r, topic, path, mn, ms) ==
  Speaks(r, mn, ms) /\ ms \in Wrote(r, "pubS") /\ ms.topic = topic /\ ms.pathv = path
\* The second half of it, when there is a higher broker.
GoesNorth(b, r, topic, mn) ==
  b.north => mn \in Wrote(r, "pubN") /\ mn.topic = topic /\ mn.pathv = b.broker_id

\* s_cb_pub and the other handlers look all of them up in the trie.
LEMMA DeliverServes ==
  ASSUME NEW b, TrieCounts(b), NEW topic, NEW name, NEW bare, NEW r,
         r.rout = Deliver(b, topic, name, bare)
  PROVE  Serves(b, r, topic)
<1> SUFFICES ASSUME NEW d \in Clients, NEW t, On(b, d, t), Matches(t, topic)
             PROVE  Cardinality({o \in r.rout : o.to = d}) > 0
  BY DEF Serves
<1>1. PICK S : S = {o \in r.rout : o.to = d}
  OBVIOUS
<1>2. PICK m : m = Pub(name, bare)
  OBVIOUS
<1>3. [to |-> d, m |-> m] \in S
  <2>1. d \in Subscribers(b, topic)
    BY DEF Subscribers, On
  <2> QED
    BY <1>1, <1>2, <2>1 DEF Deliver
<1>4. S \subseteq {[to |-> d, m |-> m]}
  BY <1>1, <1>2 DEF Deliver
<1>5. S = {[to |-> d, m |-> m]}
  BY <1>3, <1>4
<1>6. \A x : Cardinality({x}) = 1
  BY FS_Singleton
<1>7. Cardinality(S) = 1
  BY <1>5, <1>6
<1> QED
  BY <1>1, <1>7

\* A publication with a scope from another broker serves them too.
LEMMA RemoteServes ==
  ASSUME NEW b, TrieCounts(b), NEW topic, NEW name, NEW ps, Scoped(topic), NEW r,
         r = DeliverRemote(b, topic, name, ps)
  PROVE  Serves(b, r, topic) /\ r.ps = ps
<1>1. r.rout = Deliver(b, topic, name, BareTopic(topic)) /\ r.ps = ps
  BY DEF DeliverRemote, Result, WithPs
<1> QED
  BY <1>1, DeliverServes

\* What is written to pubN and pubS goes on both ways,
LEMMA BothWays ==
  ASSUME NEW b, NEW r, NEW topic, NEW name, NEW path, NEW mn, NEW ms,
         mn = PubMsg(topic, name, b.broker_id), ms = PubMsg(topic, name, path),
         r.ps = PsNorth(b, "pubN", mn) \cup PsSouth("pubS", ms)
  PROVE  GoesDown(r, topic, path, mn, ms) /\ GoesNorth(b, r, topic, mn)
<1>1. Speaks(r, mn, ms)
  BY DEF Speaks, PsNorth, PsSouth
<1>2. \A o \in r.ps : o.m \in Wrote(r, o.sock)
  BY DEF Wrote
<1>3. ms \in Wrote(r, "pubS")
  <2>1. [sock |-> "pubS", m |-> ms] \in r.ps
    BY DEF PsSouth
  <2>2. \A o : o = [sock |-> "pubS", m |-> ms] => o.m = ms /\ o.sock = "pubS"
    OBVIOUS
  <2> QED
    BY <1>2, <2>1, <2>2
<1>4. b.north => mn \in Wrote(r, "pubN")
  <2> SUFFICES ASSUME b.north PROVE mn \in Wrote(r, "pubN")
    OBVIOUS
  <2>1. [sock |-> "pubN", m |-> mn] \in r.ps
    BY DEF PsNorth
  <2>2. \A o : o = [sock |-> "pubN", m |-> mn] => o.m = mn /\ o.sock = "pubN"
    OBVIOUS
  <2> QED
    BY <1>2, <2>1, <2>2
<1>5. \A id : PubMsg(topic, name, id).topic = topic /\ PubMsg(topic, name, id).pathv = id
  BY DEF PubMsg
<1> QED
  BY <1>1, <1>3, <1>4, <1>5 DEF GoesDown, GoesNorth

\* and what is written to pubS alone goes on down.
LEMMA DownOnly ==
  ASSUME NEW r, NEW topic, NEW name, NEW path, NEW ms, ms = PubMsg(topic, name, path),
         r.ps = PsSouth("pubS", ms)
  PROVE  GoesDown(r, topic, path, ms, ms)
<1>1. r.ps = {[sock |-> "pubS", m |-> ms]}
  BY DEF PsSouth
<1>2. Speaks(r, ms, ms)
  BY <1>1 DEF Speaks
<1>3. \A o \in r.ps : o.m \in Wrote(r, o.sock)
  BY DEF Wrote
<1>4. ms \in Wrote(r, "pubS")
  <2>1. \A o : o = [sock |-> "pubS", m |-> ms] => o.m = ms /\ o.sock = "pubS"
    OBVIOUS
  <2> QED
    BY <1>1, <1>3, <2>1
<1>5. ms.topic = topic /\ ms.pathv = path
  BY DEF PubMsg
<1> QED
  BY <1>2, <1>4, <1>5 DEF GoesDown

\* What the three handlers do with a publication that has a scope.
LEMMA PublicationGoes ==
  ASSUME NEW b, TrieCounts(b), NEW topic
  PROVE  /\ \A s, t, n : HasLocal(b, <<s, t>>) /\ topic = PubTopic(t, n, FALSE, Scope) =>
              LET r == s_cb_pub(b, s, t, n, FALSE)
              IN Serves(b, r, topic)
                 /\ \E mn, ms : GoesDown(r, topic, NoId, mn, ms) /\ GoesNorth(b, r, topic, mn)
         /\ Scoped(topic) => \A name, pathv :
              LET r == s_on_subS_msg(b, topic, name, pathv)
              IN Serves(b, r, topic)
                 /\ \E mn, ms : GoesDown(r, topic, pathv, mn, ms) /\ GoesNorth(b, r, topic, mn)
         /\ Scoped(topic) => \A name, pathv : pathv # b.broker_id =>
              LET r == s_on_subN_msg(b, topic, name, pathv)
              IN Serves(b, r, topic) /\ \E mn, ms : GoesDown(r, topic, NoId, mn, ms)
<1>1. ASSUME NEW s, NEW t, NEW n, HasLocal(b, <<s, t>>), topic = PubTopic(t, n, FALSE, Scope)
      PROVE  LET r == s_cb_pub(b, s, t, n, FALSE)
             IN Serves(b, r, topic)
                /\ \E mn, ms : GoesDown(r, topic, NoId, mn, ms) /\ GoesNorth(b, r, topic, mn)
  <2>1. PICK r : r = s_cb_pub(b, s, t, n, FALSE)
    OBVIOUS
  <2>2. PICK name : name = IF IsPublic(n) THEN b.lcl_cli[<<s, t>>].name
                                          ELSE Tail(b.lcl_cli[<<s, t>>].name)
    OBVIOUS
  <2>3. PICK mn, ms : mn = PubMsg(topic, name, b.broker_id) /\ ms = PubMsg(topic, name, NoId)
    OBVIOUS
  <2>4. /\ r.rout = Deliver(b, topic, name, n)
        /\ r.ps = PsNorth(b, "pubN", mn) \cup PsSouth("pubS", ms)
    BY <1>1, <2>1, <2>2, <2>3 DEF s_cb_pub, WithPs, Result
  <2>5. Serves(b, r, topic) /\ GoesDown(r, topic, NoId, mn, ms) /\ GoesNorth(b, r, topic, mn)
    BY <2>3, <2>4, DeliverServes, BothWays
  <2> QED
    BY <2>1, <2>5
<1>2. ASSUME Scoped(topic), NEW name, NEW pathv
      PROVE  LET r == s_on_subS_msg(b, topic, name, pathv)
             IN Serves(b, r, topic)
                /\ \E mn, ms : GoesDown(r, topic, pathv, mn, ms) /\ GoesNorth(b, r, topic, mn)
  <2>1. PICK mn, ms, ps : /\ mn = PubMsg(topic, name, b.broker_id) /\ ms = PubMsg(topic, name, pathv)
                          /\ ps = PsNorth(b, "pubN", mn) \cup PsSouth("pubS", ms)
    OBVIOUS
  <2>2. PICK r : r = s_on_subS_msg(b, topic, name, pathv)
    OBVIOUS
  <2>3. r = DeliverRemote(b, topic, name, ps)
    BY <2>1, <2>2 DEF s_on_subS_msg
  <2>4. Serves(b, r, topic) /\ r.ps = ps
    BY <1>2, <2>3, RemoteServes
  <2>5. GoesDown(r, topic, pathv, mn, ms) /\ GoesNorth(b, r, topic, mn)
    BY <2>1, <2>4, BothWays
  <2> QED
    BY <2>2, <2>4, <2>5
<1>3. ASSUME Scoped(topic), NEW name, NEW pathv, pathv # b.broker_id
      PROVE  LET r == s_on_subN_msg(b, topic, name, pathv)
             IN Serves(b, r, topic) /\ \E mn, ms : GoesDown(r, topic, NoId, mn, ms)
  <2>1. PICK ms, ps : ms = PubMsg(topic, name, NoId) /\ ps = PsSouth("pubS", ms)
    OBVIOUS
  <2>2. PICK r : r = s_on_subN_msg(b, topic, name, pathv)
    OBVIOUS
  <2>3. r = DeliverRemote(b, topic, name, ps)
    BY <1>3, <2>1, <2>2 DEF s_on_subN_msg
  <2>4. Serves(b, r, topic) /\ r.ps = ps
    BY <1>3, <2>3, RemoteServes
  <2>5. GoesDown(r, topic, NoId, ms, ms)
    BY <2>1, <2>4, DownOnly
  <2> QED
    BY <2>2, <2>4, <2>5
<1> QED
  BY <1>1, <1>2, <1>3

\* What is due stays due and on its way through a step that leaves the ways open.
LEMMA ReachKeeps ==
  ASSUME Acyclic, WantInv', Places, Places', PairsOnce',
         \A b \in Lower : pairs'[b] >= pairs[b] /\ pairs'[b] <= MaxPairs[b],
         NEW p \in Brokers, NEW topic, Reach(p, topic), due' \subseteq due, due \subseteq Clients,
         \A t \in SubTopics : LeavesWay(t),
         \A d \in due' : \A t : On(br[Home[d]], d, t) => On(br'[Home[d]], d, t),
         \A d \in due' : got[d] > 0 => got'[d] > 0,
         \A d \in due', t \in SubTopics :
           /\ Matches(t, topic) /\ On(br[Home[d]], d, t)
           /\ Way(Home[d], p, t)' /\ Coming(Home[d], p, topic)
           => got'[d] > 0 \/ Coming(Home[d], p, topic)'
  PROVE  Reach(p, topic)'
<1>1. ASSUME NEW d \in due'
      PROVE  \E t \in SubTopics :
               /\ Matches(t, topic) /\ On(br'[Home[d]], d, t) /\ Way(Home[d], p, t)'
               /\ got'[d] > 0 \/ Coming(Home[d], p, topic)'
  <2>1. PICK t \in SubTopics : /\ Matches(t, topic) /\ On(br[Home[d]], d, t) /\ Way(Home[d], p, t)
                               /\ got[d] > 0 \/ Coming(Home[d], p, topic)
    BY DEF Reach
  <2>2. On(br'[Home[d]], d, t) /\ d \in Clients /\ Home[d] \in Brokers
    BY <2>1, PubSubAssumption
  <2>3. Way(Home[d], p, t)'
    <3>1. PICK h \in Brokers : h = Home[d]
      BY <2>2
    <3>2. Way(h, p, t) /\ \E x \in Clients : On(br'[h], x, t)
      BY <2>1, <2>2, <3>1
    <3>3. Way(h, p, t)'
      BY <3>2, WayKeeps
    <3> QED
      BY <3>1, <3>3
  <2>4. got'[d] > 0 \/ Coming(Home[d], p, topic)'
    BY <2>1, <2>3
  <2> QED
    BY <2>1, <2>2, <2>3, <2>4
<1> QED
  BY <1>1 DEF Reach

\* A broker that has no socket to send a subscription up on is not registered.
LEMMA UnsentLate ==
  ASSUME Sockets, NEW b \in Brokers, NEW m, NEW a, NEW t, <<a, t>> \in Unsent(b, m)
  PROVE  ~(pairs[a] > 0)
<1>1. a = b /\ b # Root /\ ~br[b].north
  BY DEF Unsent
<1>2. br[b].north = (b # Root /\ pairs[b] > 0)
  BY DEF Sockets
<1> QED
  BY <1>1, <1>2

\* A callback that takes nothing from a pipe leaves the ways open.
LEMMA CallbackLeavesWay ==
  ASSUME Sockets, Places, NEW b \in Brokers, NEW r, OneWant(r), NEW pu, NEW pd,
         Finish(b, r, wantUp, wantDown, pu, pd), UNCHANGED <<pairs, pubS, pubN, stray>>,
         NEW t \in SubTopics,
         \A a : <<a, t>> \in late' => <<a, t>> \in late \/ ~(pairs[a] > 0)
  PROVE  LeavesWay(t)
<1>1. \A k \in Pairs : IsSeq(wantUp[k]) /\ IsSeq(wantDown[k])
  BY SeqIsSeq DEF Sockets, Typed
<1>2. pairs' = pairs /\ pubS' = pubS /\ pubN' = pubN /\ stray' = stray
  OBVIOUS
<1>3. \A k \in Pairs : /\ Ends(wantUp'[k], t) => Ends(wantUp[k], t) \/ subN'[k][t] = 0
                       /\ Ends(wantDown'[k], t) => Ends(wantDown[k], t) \/ subS'[Above(k)][t] = 0
  BY <1>1, <1>2, FinishEnds
<1>4. \A k : Connected(k)' = Connected(k)
  BY <1>2 DEF Connected
<1> QED
  BY <1>2, <1>3, <1>4 DEF LeavesWay

\* One message to both sockets, or none.
LEMMA TellsOne ==
  ASSUME NEW b, NEW r, NEW t \in SubTopics, NEW M, M \subseteq Wants, NEW m, M \subseteq {m},
         Wrote(r, "subS") \subseteq M, Wrote(r, "subN") \subseteq M
  PROVE  OneWant(r)
<1>1. CASE M = {}
  <2>1. PICK x : x = [cmd |-> "SUB", topic |-> t]
    OBVIOUS
  <2>2. x \in Wants
    BY <2>1 DEF Wants
  <2> QED
    BY <1>1, <2>2 DEF OneWant
<1>2. CASE M # {}
  BY <1>2 DEF OneWant
<1> QED
  BY <1>1, <1>2

\* The result of what a client does other than publishing: the others keep their
\* subscriptions, and nothing goes astray unless the publication is forgotten.
Asks(c, r) ==
  /\ ClientDoes(c, r) /\ Silent(r) /\ (SubTopics # {} => OneWant(r))
  /\ \A s, t : On(r.b, s, t) => On(br[Home[c]], s, t) \/ t \in SubTopics
  /\ \A s, t : On(br[Home[c]], s, t) /\ s # c => On(r.b, s, t)
  /\ due' = {} \/ (due' = StillDue({c}) /\ stray' = stray)
  /\ \A a, t : <<a, t>> \in late' => <<a, t>> \in late \/ ~(pairs[a] > 0)

\* That is what s_cb_sub,
LEMMA SubAsks ==
  ASSUME Sockets, Places, NEW c \in Clients, Sub(c)
  PROVE  \E r : Asks(c, r)
<1>1. PICK b, x : b = Home[c] /\ x = br[b]
  OBVIOUS
<1>2. PICK n \in TopicsOf[c], sc \in ClientScopes :
        LET r == s_cb_sub(x, c, Tenant(c), n, sc) IN
        /\ HasLocal(x, Key(c)) /\ ClientDoes(c, r) /\ due' = StillDue({c})
        /\ late' = late \cup UNION {Unsent(b, y) : y \in Wrote(r, "subS")}
        /\ UNCHANGED stray
  BY <1>1 DEF Sub
<1>3. PICK r, topic, t : /\ r = s_cb_sub(x, c, t, n, sc) /\ t = Tenant(c)
                         /\ topic = SubTopic(t, n, sc, Scope)
  OBVIOUS
<1>4. b \in Brokers /\ Shape(x) /\ TrieCounts(x) /\ topic \in SubTopics
  <2>1. n \in UNION Range(TopicsOf)
    BY PubSubAssumption DEF Range
  <2> QED
    BY <1>1, <1>3, <2>1, PubSubAssumption DEF Places, SubTopics
<1>5. /\ ClientDoes(c, r) /\ due' = StillDue({c}) /\ stray' = stray
      /\ late' = late \cup UNION {Unsent(b, y) : y \in Wrote(r, "subS")}
  BY <1>2, <1>3
<1>6. PICK m : m = [cmd |-> "SUB", topic |-> topic]
  OBVIOUS
<1>7. \/ TellsAll(x, r, {}) /\ SameOn(x, r.b)
      \/ /\ TellsAll(x, r, {m})
         /\ \A z, y : On(r.b, z, y) <=> On(x, z, y) \/ (z = c /\ y = topic)
  <2>1. HasLocal(x, <<c, t>>)
    BY <1>2, <1>3 DEF Key
  <2>2. LET p == s_cb_sub(x, c, t, n, sc)
        IN /\ Stays(x, p.b)
           /\ \/ TellsAll(x, p, {}) /\ SameOn(x, p.b)
              \/ /\ TellsAll(x, p, {[cmd |-> "SUB", topic |-> topic]})
                 /\ ~On(x, c, topic)
                 /\ \A z, y : On(p.b, z, y) <=> On(x, z, y) \/ (z = c /\ y = topic)
    BY <1>3, <1>4, <2>1, SubTells
  <2> QED
    BY <1>3, <1>6, <2>2
<1>8. Silent(r)
  BY <1>3, <1>4, ClientsSubscribe
<1>9. OneWant(r)
  <2>1. m \in Wants
    BY <1>4, <1>6 DEF Wants
  <2>2. Wrote(r, "subS") \subseteq {m} /\ Wrote(r, "subN") \subseteq {m}
    BY <1>7 DEF TellsAll
  <2> QED
    BY <2>1, <2>2 DEF OneWant
<1>10. /\ \A s, y : On(r.b, s, y) => On(x, s, y) \/ y \in SubTopics
       /\ \A s, y : On(x, s, y) => On(r.b, s, y)
  BY <1>4, <1>7 DEF SameOn
<1>11. \A a, y : <<a, y>> \in late' => <<a, y>> \in late \/ ~(pairs[a] > 0)
  BY <1>4, <1>5, UnsentLate
<1> QED
  BY <1>1, <1>5, <1>8, <1>9, <1>10, <1>11 DEF Asks

\* s_cb_unsub
LEMMA UnsubAsks ==
  ASSUME Sockets, Places, NEW c \in Clients, Unsub(c)
  PROVE  \E r : Asks(c, r)
<1>1. PICK b, x : b = Home[c] /\ x = br[b]
  OBVIOUS
<1>2. PICK n \in TopicsOf[c], sc \in ClientScopes :
        LET r == s_cb_unsub(x, c, Tenant(c), n, sc)
            t == SubTopic(Tenant(c), n, sc, Scope)
            others == r.ps # {} /\ t \notin Topics(x, c)
        IN /\ HasLocal(x, Key(c)) /\ ClientDoes(c, r)
           /\ stray' = IF others THEN stray \cup {<<b, t>>} ELSE stray
           /\ due' = IF others THEN {} ELSE StillDue({c})
           /\ UNCHANGED late
  BY <1>1 DEF Unsub
<1>3. PICK r, topic, t : /\ r = s_cb_unsub(x, c, t, n, sc) /\ t = Tenant(c)
                         /\ topic = SubTopic(t, n, sc, Scope)
  OBVIOUS
<1>4. b \in Brokers /\ Shape(x) /\ TrieCounts(x) /\ topic \in SubTopics /\ c \in Sockids
  <2>1. n \in UNION Range(TopicsOf)
    BY PubSubAssumption DEF Range
  <2> QED
    BY <1>1, <1>3, <2>1, PubSubAssumption DEF Places, SubTopics
<1>5. ClientDoes(c, r) /\ (due' = {} \/ (due' = StillDue({c}) /\ stray' = stray)) /\ late' = late
  BY <1>2, <1>3
<1>6. PICK m : m = [cmd |-> "UNSUB", topic |-> topic]
  OBVIOUS
<1>7. \/ TellsAll(x, r, {}) /\ SameOn(x, r.b)
      \/ /\ TellsAll(x, r, {m})
         /\ \A z, y : On(r.b, z, y) <=> On(x, z, y) /\ ~(z = c /\ y = topic /\ topic \in Topics(x, c))
  <2>1. HasLocal(x, <<c, t>>)
    BY <1>2, <1>3 DEF Key
  <2>2. LET p == s_cb_unsub(x, c, t, n, sc)
        IN /\ Stays(x, p.b)
           /\ \/ p.ps = {} /\ TellsAll(x, p, {}) /\ SameOn(x, p.b)
              \/ /\ TellsAll(x, p, {[cmd |-> "UNSUB", topic |-> topic]}) /\ p.ps # {}
                 /\ topic \in Topics(x, c) => On(x, c, topic)
                 /\ \A z, y : On(p.b, z, y) <=>
                      On(x, z, y) /\ ~(z = c /\ y = topic /\ topic \in Topics(x, c))
    BY <1>3, <1>4, <2>1, UnsubTells
  <2> QED
    BY <1>3, <1>6, <2>2
<1>8. Silent(r)
  BY <1>3, <1>4, ClientsSubscribe
<1>9. OneWant(r)
  <2>1. m \in Wants
    BY <1>4, <1>6 DEF Wants
  <2>2. Wrote(r, "subS") \subseteq {m} /\ Wrote(r, "subN") \subseteq {m}
    BY <1>7 DEF TellsAll
  <2> QED
    BY <2>1, <2>2 DEF OneWant
<1>10. /\ \A s, y : On(r.b, s, y) => On(x, s, y)
       /\ \A s, y : On(x, s, y) /\ s # c => On(r.b, s, y)
  BY <1>7 DEF SameOn
<1> QED
  BY <1>1, <1>5, <1>8, <1>9, <1>10 DEF Asks

\* and s_cb_unreg_cli do.
LEMMA LeaveAsks ==
  ASSUME Sockets, Places, NEW c \in Clients, Leave(c)
  PROVE  \E r : Asks(c, r)
<1>1. PICK b, x, t, r : b = Home[c] /\ x = br[b] /\ t = Tenant(c) /\ r = s_cb_unreg_cli(x, c, t)
  OBVIOUS
<1>2. /\ HasLocal(x, <<c, t>>) /\ ClientDoes(c, r) /\ due' = StillDue({c})
      /\ UNCHANGED <<late, stray>>
  BY <1>1 DEF Leave, Key
<1>3. Shape(x) /\ TrieCounts(x)
  BY <1>1, PubSubAssumption DEF Places
<1>4. LET p == s_cb_unreg_cli(x, c, t)
      IN /\ Stays(x, p.b) /\ TellsAll(x, p, {}) /\ ~HasLocal(p.b, <<c, t>>)
         /\ \A z, y : On(p.b, z, y) => On(x, z, y)
         /\ \A z, y : On(x, z, y) /\ z # c => On(p.b, z, y)
  BY <1>2, <1>3, UnregTells
<1>5. Silent(r)
  BY <1>1, <1>3, ClientsSubscribe
<1>6. SubTopics # {} => OneWant(r)
  <2>1. PICK M, m : M = {} /\ m = "none"
    OBVIOUS
  <2>2. Wrote(r, "subS") = {} /\ Wrote(r, "subN") = {}
    BY <1>1, <1>4 DEF TellsAll
  <2>3. M \subseteq Wants /\ M \subseteq {m} /\ Wrote(r, "subS") \subseteq M /\ Wrote(r, "subN") \subseteq M
    BY <2>1, <2>2
  <2> QED
    BY <2>3, TellsOne
<1> QED
  BY <1>1, <1>2, <1>4, <1>5, <1>6 DEF Asks

\* What ReachInv says but of the publication.
Basics ==
  /\ due \subseteq Clients /\ \A b \in Lower : pairs[b] <= MaxPairs[b]
  /\ \A b \in Brokers : \A s, t : On(br[b], s, t) => t \in SubTopics

\* A callback keeps them.
LEMMA CallbackBasics ==
  ASSUME Basics, Places, NEW b \in Brokers, NEW r, NEW wu, NEW wd, NEW pu, NEW pd,
         Finish(b, r, wu, wd, pu, pd), UNCHANGED pairs, due' \subseteq Clients,
         \A s, t : On(r.b, s, t) => On(br[b], s, t) \/ t \in SubTopics
  PROVE  Basics' /\ br'[b] = r.b /\ \A a \in Brokers : a # b => br'[a] = br[a]
<1>1. br' = [br EXCEPT ![b] = r.b] /\ DOMAIN br = Brokers /\ pairs' = pairs
  BY DEF Finish, Places
<1>2. br'[b] = r.b /\ \A a \in Brokers : a # b => br'[a] = br[a]
  BY <1>1
<1>3. ASSUME NEW a \in Brokers, NEW s, NEW t, On(br'[a], s, t) PROVE t \in SubTopics
  <2>1. CASE a = b
    BY <1>2, <1>3, <2>1 DEF Basics
  <2>2. CASE a # b
    BY <1>2, <1>3, <2>2 DEF Basics
  <2> QED
    BY <2>1, <2>2
<1> QED
  BY <1>1, <1>2, <1>3 DEF Basics

\* A callback that takes nothing from a pipe and none of the subscriptions of those
\* that are due something, and brings the publication as near as it was.
LEMMA ReachCallback ==
  ASSUME Acyclic, WantInv, WantInv', Places, Places', ReachInv, NEW b \in Brokers, NEW r,
         NEW pu, NEW pd, Finish(b, r, wantUp, wantDown, pu, pd),
         UNCHANGED <<pairs, pubS, pubN, stray>>, SubTopics # {} => OneWant(r), due' \subseteq due,
         \A s, t : On(r.b, s, t) => On(br[b], s, t) \/ t \in SubTopics,
         \A d \in due' : \A t : On(br[b], d, t) => On(r.b, d, t),
         \A a, t : <<a, t>> \in late' => <<a, t>> \in late \/ ~(pairs[a] > 0),
         \A d \in due' : got[d] > 0 => got'[d] > 0,
         \A p \in Brokers, topic \in Publications, d \in due', t \in SubTopics :
           /\ Matches(t, topic) /\ On(br[Home[d]], d, t)
           /\ Way(Home[d], p, t)' /\ Coming(Home[d], p, topic)
           => got'[d] > 0 \/ Coming(Home[d], p, topic)'
  PROVE  ReachInv'
<1>1. Basics
  BY DEF ReachInv, Basics
<1>2. Basics' /\ br'[b] = r.b /\ \A a \in Brokers : a # b => br'[a] = br[a]
  <2>1. due' \subseteq Clients /\ pairs' = pairs
    BY <1>1 DEF Basics
  <2> QED
    BY <1>1, <2>1, CallbackBasics
<1>3. ASSUME PairsOnce', due' # {} PROVE \E p \in Brokers, topic \in Publications : Reach(p, topic)'
  <2>1. PairsOnce /\ due # {}
    BY <1>3 DEF PairsOnce
  <2>2. PICK p \in Brokers, topic \in Publications : Reach(p, topic)
    BY <2>1 DEF ReachInv
  <2>3. \A t \in SubTopics : LeavesWay(t)
    <3>1. Sockets
      BY DEF WantInv
    <3>2. ASSUME NEW t \in SubTopics PROVE LeavesWay(t)
      <4>1. OneWant(r) /\ UNCHANGED <<pairs, pubS, pubN, stray>>
        BY <3>2
      <4>2. \A a : <<a, t>> \in late' => <<a, t>> \in late \/ ~(pairs[a] > 0)
        OBVIOUS
      <4> QED
        BY <3>1, <4>1, <4>2, CallbackLeavesWay
    <3> QED
      BY <3>2
  <2>4. \A d \in due' : \A t : On(br[Home[d]], d, t) => On(br'[Home[d]], d, t)
    <3> SUFFICES ASSUME NEW d \in due', NEW t, On(br[Home[d]], d, t)
                 PROVE  On(br'[Home[d]], d, t)
      OBVIOUS
    <3>1. Home[d] \in Brokers
      BY <1>1, PubSubAssumption DEF Basics
    <3>2. CASE Home[d] = b
      BY <1>2, <3>2
    <3>3. CASE Home[d] # b
      BY <1>2, <3>1, <3>3
    <3> QED
      BY <3>2, <3>3
  <2>5. \A a \in Lower : pairs'[a] >= pairs[a] /\ pairs'[a] <= MaxPairs[a]
    BY <1>2 DEF Basics, Places
  <2>6. due \subseteq Clients
    BY <1>1 DEF Basics
  <2>7. Reach(p, topic)'
    BY <1>3, <2>2, <2>3, <2>4, <2>5, <2>6, ReachKeeps
  <2> QED
    BY <2>7
<1> QED
  BY <1>2, <1>3 DEF ReachInv, Basics

\* Publications that do not move are still coming.
LEMMA StillComing ==
  ASSUME \A k \in Pairs : pubUp'[k] = pubUp[k] /\ pubDown'[k] = pubDown[k],
         NEW h, NEW p, NEW topic, Coming(h, p, topic)
  PROVE  Coming(h, p, topic)'
BY DEF Coming

\* What clients do other than publishing.
LEMMA ClientReach ==
  ASSUME Acyclic, WantInv, WantInv', Places, Places', ReachInv, NEW c \in Clients,
         Sub(c) \/ Unsub(c) \/ Leave(c)
  PROVE  ReachInv'
<1>1. Sockets
  BY DEF WantInv
<1>2. PICK r : Asks(c, r)
  BY <1>1, SubAsks, UnsubAsks, LeaveAsks
<1>3. PICK b \in Brokers : b = Home[c]
  BY PubSubAssumption
<1>4. /\ Finish(b, r, wantUp, wantDown, pubUp, pubDown) /\ UNCHANGED <<pairs, pubS, pubN>>
      /\ got' = Receipts
  BY <1>2, <1>3 DEF Asks, ClientDoes
<1>5. \A s, t : On(r.b, s, t) => On(br[b], s, t) \/ t \in SubTopics
  BY <1>2, <1>3 DEF Asks
<1>6. Basics
  BY DEF ReachInv, Basics
<1>7. CASE due' = {}
  <2>1. Basics'
    BY <1>4, <1>5, <1>6, <1>7, CallbackBasics
  <2> QED
    BY <1>7, <2>1 DEF ReachInv, Basics
<1>8. CASE due' # {}
  <2>1. due' = due \ {c} /\ stray' = stray /\ got' = got
    BY <1>2, <1>4, <1>8 DEF Asks, StillDue, Receipts
  <2>2. \A k \in Pairs : pubUp'[k] = pubUp[k] /\ pubDown'[k] = pubDown[k]
    <3>1. Queues(pubUp, pubDown) /\ Silent(r)
      BY <1>2 DEF Places, Asks
    <3>2. (\A o \in r.ps : o.sock # "pubN") /\ (\A o \in r.ps : o.sock # "pubS")
      BY <3>1 DEF Silent
    <3> QED
      BY <1>4, <3>1, <3>2, FinishSilent
  <2>3. \A h, p, topic : Coming(h, p, topic) => Coming(h, p, topic)'
    BY <2>2, StillComing
  <2>4. \A d \in due' : \A t : On(br[b], d, t) => On(r.b, d, t)
    BY <1>2, <1>3, <2>1 DEF Asks
  <2>5. /\ \A a, t : <<a, t>> \in late' => <<a, t>> \in late \/ ~(pairs[a] > 0)
        /\ SubTopics # {} => OneWant(r)
    BY <1>2 DEF Asks
  <2>6. UNCHANGED <<pairs, pubS, pubN, stray>> /\ due' \subseteq due
        /\ \A d \in due' : got[d] > 0 => got'[d] > 0
    BY <1>4, <2>1
  <2> QED
    BY <1>4, <1>5, <2>3, <2>4, <2>5, <2>6, ReachCallback
<1> QED
  BY <1>7, <1>8

\* When a message is taken from a pipe up, the others are still there.
LEMMA UpStill ==
  ASSUME NEW b, NEW r, NEW wu, NEW wd, NEW pu, NEW pd, NEW mn, NEW ms, Places,
         NEW j \in Pairs, pubUp[j] # <<>>,
         pu[j] = Tail(pubUp[j]), \A k \in Pairs : (k # j => pu[k] = pubUp[k]) /\ pd[k] = pubDown[k],
         Finish(b, r, wu, wd, pu, pd), Speaks(r, mn, ms),
         NEW h, NEW p, NEW topic, Coming(h, p, topic)
  PROVE  /\ Queues(pu, pd)
         /\ Coming(h, p, topic)' \/ (j[1] \in OnlyAbove(p, h) /\ Comes(Head(pubUp[j]), p, topic))
<1>1. Queues(pubUp, pubDown) /\ DOMAIN pubUp = Pairs
  BY DEF Places
<1>2. PICK q : q = pubUp[j]
  OBVIOUS
<1>3. /\ IsSeq(Tail(q)) /\ Head(q) = q[1]
      /\ \A i \in DOMAIN q : i = 1 \/ (i - 1 \in DOMAIN Tail(q) /\ Tail(q)[i - 1] = q[i])
  BY <1>1, <1>2, AfterHead DEF Queues
<1>4. pu[j] = Tail(q) /\ \A k \in Pairs : (k # j => pu[k] = pubUp[k]) /\ pd[k] = pubDown[k]
  BY <1>2
<1>5. Queues(pu, pd)
  BY <1>1, <1>3, <1>4 DEF Queues
<1>6. \A k \in Pairs :
        /\ \A i \in DOMAIN pu[k] : i \in DOMAIN pubUp'[k] /\ pubUp'[k][i] = pu[k][i]
        /\ \A i \in DOMAIN pd[k] : i \in DOMAIN pubDown'[k] /\ pubDown'[k][i] = pd[k][i]
  BY <1>5, FinishSends
<1>7. ASSUME NEW k \in Pairs, k[1] \in OnlyAbove(h, p), NEW i \in DOMAIN pubDown[k],
             Comes(pubDown[k][i], p, topic)
      PROVE  Coming(h, p, topic)'
  <2>1. i \in DOMAIN pubDown'[k] /\ Comes(pubDown'[k][i], p, topic)
    BY <1>4, <1>6, <1>7
  <2> QED
    BY <1>7, <2>1 DEF Coming
<1>8. ASSUME NEW k \in Pairs, k[1] \in OnlyAbove(p, h), NEW i \in DOMAIN pubUp[k],
             Comes(pubUp[k][i], p, topic)
      PROVE  Coming(h, p, topic)' \/ (j[1] \in OnlyAbove(p, h) /\ Comes(Head(pubUp[j]), p, topic))
  <2>1. CASE k = j /\ i = 1
    BY <1>2, <1>3, <1>8, <2>1
  <2>2. CASE ~(k = j /\ i = 1)
    <3>1. \E n \in DOMAIN pu[k] : pu[k][n] = pubUp[k][i]
      <4>1. CASE k = j
        <5>1. i \in DOMAIN q /\ i # 1 /\ pubUp[k][i] = q[i] /\ pu[k] = Tail(q)
          BY <1>2, <1>4, <1>8, <2>2, <4>1
        <5>2. PICK u, n : u = Tail(q) /\ n = i - 1
          OBVIOUS
        <5>3. n \in DOMAIN u /\ u[n] = q[i]
          BY <1>3, <5>1, <5>2
        <5> QED
          BY <5>1, <5>2, <5>3
      <4>2. CASE k # j
        BY <1>4, <1>8, <4>2
      <4> QED
        BY <4>1, <4>2
    <3>2. PICK n \in DOMAIN pu[k] : pu[k][n] = pubUp[k][i]
      BY <3>1
    <3>3. n \in DOMAIN pubUp'[k] /\ Comes(pubUp'[k][n], p, topic)
      BY <1>6, <1>8, <3>2
    <3> QED
      BY <1>8, <3>3 DEF Coming
  <2> QED
    BY <2>1, <2>2
<1> QED
  BY <1>5, <1>7, <1>8 DEF Coming

\* Or from a pipe down.
LEMMA DownStill ==
  ASSUME NEW b, NEW r, NEW wu, NEW wd, NEW pu, NEW pd, NEW mn, NEW ms, Places,
         NEW j \in Pairs, pubDown[j] # <<>>,
         pd[j] = Tail(pubDown[j]), \A k \in Pairs : (k # j => pd[k] = pubDown[k]) /\ pu[k] = pubUp[k],
         Finish(b, r, wu, wd, pu, pd), Speaks(r, mn, ms),
         NEW h, NEW p, NEW topic, Coming(h, p, topic)
  PROVE  /\ Queues(pu, pd)
         /\ Coming(h, p, topic)' \/ (j[1] \in OnlyAbove(h, p) /\ Comes(Head(pubDown[j]), p, topic))
<1>1. Queues(pubUp, pubDown) /\ DOMAIN pubDown = Pairs
  BY DEF Places
<1>2. PICK q : q = pubDown[j]
  OBVIOUS
<1>3. /\ IsSeq(Tail(q)) /\ Head(q) = q[1]
      /\ \A i \in DOMAIN q : i = 1 \/ (i - 1 \in DOMAIN Tail(q) /\ Tail(q)[i - 1] = q[i])
  BY <1>1, <1>2, AfterHead DEF Queues
<1>4. pd[j] = Tail(q) /\ \A k \in Pairs : (k # j => pd[k] = pubDown[k]) /\ pu[k] = pubUp[k]
  BY <1>2
<1>5. Queues(pu, pd)
  BY <1>1, <1>3, <1>4 DEF Queues
<1>6. \A k \in Pairs :
        /\ \A i \in DOMAIN pu[k] : i \in DOMAIN pubUp'[k] /\ pubUp'[k][i] = pu[k][i]
        /\ \A i \in DOMAIN pd[k] : i \in DOMAIN pubDown'[k] /\ pubDown'[k][i] = pd[k][i]
  BY <1>5, FinishSends
<1>7. ASSUME NEW k \in Pairs, k[1] \in OnlyAbove(p, h), NEW i \in DOMAIN pubUp[k],
             Comes(pubUp[k][i], p, topic)
      PROVE  Coming(h, p, topic)'
  <2>1. i \in DOMAIN pubUp'[k] /\ Comes(pubUp'[k][i], p, topic)
    BY <1>4, <1>6, <1>7
  <2> QED
    BY <1>7, <2>1 DEF Coming
<1>8. ASSUME NEW k \in Pairs, k[1] \in OnlyAbove(h, p), NEW i \in DOMAIN pubDown[k],
             Comes(pubDown[k][i], p, topic)
      PROVE  Coming(h, p, topic)' \/ (j[1] \in OnlyAbove(h, p) /\ Comes(Head(pubDown[j]), p, topic))
  <2>1. CASE k = j /\ i = 1
    BY <1>2, <1>3, <1>8, <2>1
  <2>2. CASE ~(k = j /\ i = 1)
    <3>1. \E n \in DOMAIN pd[k] : pd[k][n] = pubDown[k][i]
      <4>1. CASE k = j
        <5>1. i \in DOMAIN q /\ i # 1 /\ pubDown[k][i] = q[i] /\ pd[k] = Tail(q)
          BY <1>2, <1>4, <1>8, <2>2, <4>1
        <5>2. PICK u, n : u = Tail(q) /\ n = i - 1
          OBVIOUS
        <5>3. n \in DOMAIN u /\ u[n] = q[i]
          BY <1>3, <5>1, <5>2
        <5> QED
          BY <5>1, <5>2, <5>3
      <4>2. CASE k # j
        BY <1>4, <1>8, <4>2
      <4> QED
        BY <4>1, <4>2
    <3>2. PICK n \in DOMAIN pd[k] : pd[k][n] = pubDown[k][i]
      BY <3>1
    <3>3. n \in DOMAIN pubDown'[k] /\ Comes(pubDown'[k][n], p, topic)
      BY <1>6, <1>8, <3>2
    <3> QED
      BY <1>8, <3>3 DEF Coming
  <2> QED
    BY <2>1, <2>2
<1> QED
  BY <1>5, <1>7, <1>8 DEF Coming

\* A publication leaves the tables but for the clients' timeouts.
LEMMA PublicationOneWant ==
  ASSUME NEW b, Shape(b), NEW r,
         \/ \E s, t, n, unscoped : r = s_cb_pub(b, s, t, n, unscoped)
         \/ \E topic, name, pathv : r = s_on_subS_msg(b, topic, name, pathv)
         \/ \E topic, name, pathv : r = s_on_subN_msg(b, topic, name, pathv)
  PROVE  SameOn(b, r.b) /\ (SubTopics # {} => OneWant(r))
<1>1. TellsAll(b, r, {}) /\ SameOn(b, r.b)
  BY PublicationTells
<1>2. PICK M, m : M = {} /\ m = "none"
  OBVIOUS
<1>3. M \subseteq Wants /\ M \subseteq {m} /\ Wrote(r, "subS") \subseteq M /\ Wrote(r, "subN") \subseteq M
  BY <1>1, <1>2 DEF TellsAll
<1> QED
  BY <1>1, <1>3, TellsOne

\* The ids of registered brokers are those of their pairs.
LEMMA IdOf ==
  ASSUME Places, Basics, NEW b \in Lower, pairs[b] > 0
  PROVE  br[b].broker_id \in Pairs /\ br[b].broker_id[1] = b
<1>1. PICK n : n = pairs[b]
  OBVIOUS
<1>2. n \in Nat /\ n > 0 /\ n <= MaxPairs[b]
  BY <1>1 DEF Places, Basics
<1>3. <<b, n>> \in Pairs
  BY <1>2, PairOf
<1>4. br[b].broker_id = <<b, n>>
  BY <1>1 DEF Places, Present
<1> QED
  BY <1>3, <1>4

\* A publication that arrives from below.
LEMMA PubUpReach ==
  ASSUME Acyclic, WantInv, WantInv', Places, Places', ReachInv,
         NEW j \in Pairs, ReceivePubUp(j)
  PROVE  ReachInv'
<1>1. PICK b, x, q, m : /\ b \in Brokers /\ b = Above(j) /\ x = br[b]
                        /\ q = pubUp[j] /\ m = Head(q)
  BY PubSubAssumption DEF Above, Pairs
<1>2. PICK r, pu : /\ r = s_on_subS_msg(x, m.topic, m.name, m.pathv)
                   /\ pu = [pubUp EXCEPT ![j] = Tail(@)]
  OBVIOUS
<1>3. /\ q # <<>> /\ Finish(b, r, wantUp, wantDown, pu, pubDown) /\ got' = Delivered(r)
      /\ UNCHANGED <<pairs, pubS, pubN, due, late, stray>>
  BY <1>1, <1>2 DEF ReceivePubUp
<1>4. Shape(x) /\ TrieCounts(x)
  BY <1>1 DEF Places
<1>5. SameOn(x, r.b) /\ (SubTopics # {} => OneWant(r))
  BY <1>2, <1>4, PublicationOneWant
<1>6. Basics
  BY DEF ReachInv, Basics
<1>7. /\ pu[j] = Tail(pubUp[j])
      /\ \A k \in Pairs : (k # j => pu[k] = pubUp[k]) /\ pubDown[k] = pubDown[k]
  BY <1>2 DEF Places
<1>8. Sends(x, r) /\ \E mn, ms : Speaks(r, mn, ms)
  <2>1. LET z == s_on_subS_msg(x, m.topic, m.name, m.pathv)
        IN Subscribing(x, z.b, {}) /\ Sends(x, z)
           /\ \E mn, ms : Speaks(z, mn, ms) /\ mn.pathv = x.broker_id /\ ms.pathv = m.pathv
    BY <1>4, PublicationsGoOn
  <2> QED
    BY <1>2, <2>1
<1>9. PICK mn1, ms1 : Speaks(r, mn1, ms1)
  BY <1>8
<1>10. \A d \in Clients : got[d] > 0 \/ Cardinality({o \in r.rout : o.to = d}) > 0 => got'[d] > 0
  <2> SUFFICES ASSUME NEW d \in Clients
               PROVE  got[d] > 0 \/ Cardinality({o \in r.rout : o.to = d}) > 0 => got'[d] > 0
    OBVIOUS
  <2>1. Cardinality({o \in r.rout : o.to = d}) \in {0, 1}
    BY <1>8, SentOnce
  <2>2. PICK n, i : n = got[d] /\ i = Cardinality({o \in r.rout : o.to = d})
    OBVIOUS
  <2>3. n \in Nat /\ i \in Nat /\ got'[d] = n + i
    BY <1>3, <2>1, <2>2 DEF Delivered, Places
  <2>4. n > 0 \/ i > 0 => n + i > 0
    BY <2>3
  <2> QED
    BY <2>2, <2>3, <2>4
<1>11. \A d \in due' : got[d] > 0 => got'[d] > 0
  BY <1>3, <1>6, <1>10 DEF Basics
<1>12. ASSUME NEW p \in Brokers, NEW topic \in Publications, NEW d \in due', NEW t \in SubTopics,
              Matches(t, topic), On(br[Home[d]], d, t),
              Way(Home[d], p, t)', Coming(Home[d], p, topic)
       PROVE  got'[d] > 0 \/ Coming(Home[d], p, topic)'
  <2>1. PICK h \in Brokers : h = Home[d] /\ d \in Clients
    BY <1>3, <1>6, PubSubAssumption DEF Basics
  <2>2. Coming(h, p, topic) /\ Way(h, p, t)' /\ On(br[h], d, t)
    BY <1>12, <2>1
  <2> SUFFICES ASSUME ~Coming(h, p, topic)' PROVE got'[d] > 0
    BY <2>1
  <2>3. j[1] \in OnlyAbove(p, h) /\ Comes(m, p, topic) /\ Queues(pu, pubDown)
    BY <1>1, <1>3, <1>7, <1>9, <2>2, UpStill
  <2>4. j[1] \in Lower /\ Parent[j[1]] = b /\ j[1] \in Ancestors[p] /\ j[1] \notin Ancestors[h]
        /\ b \in Ancestors[p]
    <3>1. j[1] \in Lower
      BY DEF Pairs
    <3> QED
      BY <1>1, <2>3, <3>1, AncestorSteps DEF OnlyAbove, Above
  <2>5. PICK path : path = m.pathv
    OBVIOUS
  <2>6. m.topic = topic /\ (path \in Pairs => path[1] \in Ancestors[p])
    BY <2>3, <2>5 DEF Comes
  <2>7. Serves(x, r, topic)
        /\ \E mn, ms : GoesDown(r, topic, path, mn, ms) /\ GoesNorth(x, r, topic, mn)
    <3>1. Scoped(topic) /\ r = s_on_subS_msg(x, topic, m.name, path)
      BY <1>2, <2>5, <2>6, PublicationsScoped
    <3>2. LET z == s_on_subS_msg(x, topic, m.name, path)
          IN Serves(x, z, topic)
             /\ \E mn, ms : GoesDown(z, topic, path, mn, ms) /\ GoesNorth(x, z, topic, mn)
      BY <1>4, <3>1, PublicationGoes
    <3> QED
      BY <3>1, <3>2
  <2>8. CASE b = h
    <3>1. Cardinality({o \in r.rout : o.to = d}) > 0
      BY <1>1, <1>12, <2>1, <2>2, <2>7, <2>8 DEF Serves
    <3> QED
      BY <1>10, <2>1, <3>1
  <2>9. CASE b # h
    <3>1. PICK mn, ms : GoesDown(r, topic, path, mn, ms) /\ GoesNorth(x, r, topic, mn)
      BY <2>7
    <3>2. Speaks(r, mn, ms) /\ ms \in Wrote(r, "pubS") /\ Comes(ms, p, topic)
      BY <2>6, <3>1 DEF GoesDown, Comes
    <3>3. b \in Lower /\ pairs[b] > 0 => mn \in Wrote(r, "pubN") /\ Comes(mn, p, topic)
      <4> SUFFICES ASSUME b \in Lower, pairs[b] > 0
                   PROVE  mn \in Wrote(r, "pubN") /\ Comes(mn, p, topic)
        OBVIOUS
      <4>1. x.north
        BY <1>1 DEF WantInv, Sockets, Lower
      <4>2. x.broker_id \in Pairs /\ x.broker_id[1] = b
        BY <1>1, <1>6, IdOf
      <4> QED
        BY <2>4, <3>1, <4>1, <4>2 DEF GoesNorth, Comes
    <3>4. \A a \in Lower : pairs'[a] <= MaxPairs[a]
      BY <1>3, <1>6 DEF Basics
    <3>5. b = p \/ \E v \in Ancestors[p] \cap Lower : Parent[v] = b /\ v \notin Ancestors[h]
      BY <2>4
    <3>6. Coming(h, p, topic)'
      <4>1. PICK wu, wd, pd : wu = wantUp /\ wd = wantDown /\ pd = pubDown
        OBVIOUS
      <4>2. Finish(b, r, wu, wd, pu, pd) /\ Queues(pu, pd) /\ pairs' = pairs
        BY <1>3, <2>3, <4>1
      <4>3. /\ b \in Brokers /\ b # h /\ Matches(t, topic) /\ Way(h, p, t)'
            /\ b \in Ancestors[p]
        BY <1>1, <1>12, <2>2, <2>4, <2>9
      <4> QED
        BY <3>2, <3>3, <3>4, <3>5, <4>2, <4>3, GoesOn
    <3> QED
      BY <3>6
  <2> QED
    BY <2>8, <2>9
<1>13. /\ \A s, t : On(r.b, s, t) => On(br[b], s, t) \/ t \in SubTopics
       /\ \A d \in due' : \A t : On(br[b], d, t) => On(r.b, d, t)
  BY <1>1, <1>5 DEF SameOn
<1>14. /\ UNCHANGED <<pairs, pubS, pubN, stray>> /\ due' \subseteq due
       /\ \A a, t : <<a, t>> \in late' => <<a, t>> \in late \/ ~(pairs[a] > 0)
  BY <1>3
<1>15. \A p \in Brokers, topic \in Publications, d \in due', t \in SubTopics :
          /\ Matches(t, topic) /\ On(br[Home[d]], d, t)
          /\ Way(Home[d], p, t)' /\ Coming(Home[d], p, topic)
          => got'[d] > 0 \/ Coming(Home[d], p, topic)'
  BY <1>12
<1>16. b \in Brokers /\ Finish(b, r, wantUp, wantDown, pu, pubDown) /\ (SubTopics # {} => OneWant(r))
  BY <1>1, <1>3, <1>5
<1> QED
  BY <1>11, <1>13, <1>14, <1>15, <1>16, ReachCallback

\* A publication that arrives from above.
LEMMA PubDownReach ==
  ASSUME Acyclic, WantInv, WantInv', Places, Places', ReachInv,
         NEW j \in Pairs, ReceivePubDown(j)
  PROVE  ReachInv'
<1>1. PICK b, x, q, m : /\ b \in Brokers /\ b = j[1] /\ x = br[b]
                        /\ q = pubDown[j] /\ m = Head(q)
  BY PubSubAssumption DEF Pairs, Lower
<1>2. PICK r, pd : /\ r = s_on_subN_msg(x, m.topic, m.name, m.pathv)
                   /\ pd = [pubDown EXCEPT ![j] = Tail(@)]
  OBVIOUS
<1>3. /\ q # <<>> /\ Finish(b, r, wantUp, wantDown, pubUp, pd) /\ got' = Delivered(r)
      /\ UNCHANGED <<pairs, pubS, pubN, due, late, stray>>
  BY <1>1, <1>2 DEF ReceivePubDown
<1>4. Shape(x) /\ TrieCounts(x)
  BY <1>1 DEF Places
<1>5. SameOn(x, r.b) /\ (SubTopics # {} => OneWant(r))
  BY <1>2, <1>4, PublicationOneWant
<1>6. Basics
  BY DEF ReachInv, Basics
<1>7. /\ pd[j] = Tail(pubDown[j])
      /\ \A k \in Pairs : (k # j => pd[k] = pubDown[k]) /\ pubUp[k] = pubUp[k]
  BY <1>2 DEF Places
<1>8. Sends(x, r) /\ \E mn, ms : Speaks(r, mn, ms)
  <2>1. LET z == s_on_subN_msg(x, m.topic, m.name, m.pathv)
        IN Subscribing(x, z.b, {}) /\ Sends(x, z)
           /\ \E mn, ms : Speaks(z, mn, ms)
    BY <1>4, PublicationsGoOn
  <2> QED
    BY <1>2, <2>1
<1>9. PICK mn1, ms1 : Speaks(r, mn1, ms1)
  BY <1>8
<1>10. \A d \in Clients : got[d] > 0 \/ Cardinality({o \in r.rout : o.to = d}) > 0 => got'[d] > 0
  <2> SUFFICES ASSUME NEW d \in Clients
               PROVE  got[d] > 0 \/ Cardinality({o \in r.rout : o.to = d}) > 0 => got'[d] > 0
    OBVIOUS
  <2>1. Cardinality({o \in r.rout : o.to = d}) \in {0, 1}
    BY <1>8, SentOnce
  <2>2. PICK n, i : n = got[d] /\ i = Cardinality({o \in r.rout : o.to = d})
    OBVIOUS
  <2>3. n \in Nat /\ i \in Nat /\ got'[d] = n + i
    BY <1>3, <2>1, <2>2 DEF Delivered, Places
  <2>4. n > 0 \/ i > 0 => n + i > 0
    BY <2>3
  <2> QED
    BY <2>2, <2>3, <2>4
<1>11. \A d \in due' : got[d] > 0 => got'[d] > 0
  BY <1>3, <1>6, <1>10 DEF Basics
<1>12. ASSUME NEW p \in Brokers, NEW topic \in Publications, NEW d \in due', NEW t \in SubTopics,
              Matches(t, topic), On(br[Home[d]], d, t),
              Way(Home[d], p, t)', Coming(Home[d], p, topic)
       PROVE  got'[d] > 0 \/ Coming(Home[d], p, topic)'
  <2>1. PICK h \in Brokers : h = Home[d] /\ d \in Clients
    BY <1>3, <1>6, PubSubAssumption DEF Basics
  <2>2. Coming(h, p, topic) /\ Way(h, p, t)' /\ On(br[h], d, t)
    BY <1>12, <2>1
  <2> SUFFICES ASSUME ~Coming(h, p, topic)' PROVE got'[d] > 0
    BY <2>1
  <2>3. b \in OnlyAbove(h, p) /\ Comes(m, p, topic) /\ Queues(pubUp, pd)
    BY <1>1, <1>3, <1>7, <1>9, <2>2, DownStill
  <2>4. PICK path : path = m.pathv
    OBVIOUS
  <2>5. m.topic = topic /\ path # x.broker_id
    <3>1. m.topic = topic /\ (path \in Pairs => path[1] \in Ancestors[p])
      BY <2>3, <2>4 DEF Comes
    <3>2. b \in Lower /\ pairs[b] > 0 /\ b \notin Ancestors[p]
      <4>1. pairs' = pairs
        BY <1>3
      <4> QED
        BY <2>2, <2>3, <4>1, OnlyAboveLower DEF Way, OnlyAbove
    <3>3. x.broker_id \in Pairs /\ x.broker_id[1] = b
      BY <1>1, <1>6, <3>2, IdOf
    <3> QED
      BY <3>1, <3>2, <3>3
  <2>6. Serves(x, r, topic) /\ \E mn, ms : GoesDown(r, topic, NoId, mn, ms)
    <3>1. Scoped(topic) /\ r = s_on_subN_msg(x, topic, m.name, path)
      BY <1>2, <2>4, <2>5, PublicationsScoped
    <3>2. LET z == s_on_subN_msg(x, topic, m.name, path)
          IN Serves(x, z, topic) /\ \E mn, ms : GoesDown(z, topic, NoId, mn, ms)
      BY <1>4, <2>5, <3>1, PublicationGoes
    <3> QED
      BY <3>1, <3>2
  <2>7. CASE b = h
    <3>1. Cardinality({o \in r.rout : o.to = d}) > 0
      BY <1>1, <1>12, <2>1, <2>2, <2>6, <2>7 DEF Serves
    <3> QED
      BY <1>10, <2>1, <3>1
  <2>8. CASE b # h
    <3>1. PICK mn, ms : GoesDown(r, topic, NoId, mn, ms)
      BY <2>6
    <3>2. Speaks(r, mn, ms) /\ ms \in Wrote(r, "pubS") /\ Comes(ms, p, topic)
      BY <3>1, PubSubAssumption DEF GoesDown, Comes
    <3>3. \A a \in Lower : pairs'[a] <= MaxPairs[a]
      BY <1>3, <1>6 DEF Basics
    <3>4. Coming(h, p, topic)'
      <4>1. PICK wu, wd, pu : wu = wantUp /\ wd = wantDown /\ pu = pubUp
        OBVIOUS
      <4>2. Finish(b, r, wu, wd, pu, pd) /\ Queues(pu, pd) /\ pairs' = pairs
        BY <1>3, <2>3, <4>1
      <4>3. /\ b \in Brokers /\ b # h /\ Matches(t, topic) /\ Way(h, p, t)'
        BY <1>1, <1>12, <2>2, <2>8
      <4> QED
        BY <2>3, <3>2, <3>3, <4>2, <4>3, GoesOn
    <3> QED
      BY <3>4
  <2> QED
    BY <2>7, <2>8
<1>13. /\ \A s, t : On(r.b, s, t) => On(br[b], s, t) \/ t \in SubTopics
       /\ \A d \in due' : \A t : On(br[b], d, t) => On(r.b, d, t)
  BY <1>1, <1>5 DEF SameOn
<1>14. /\ UNCHANGED <<pairs, pubS, pubN, stray>> /\ due' \subseteq due
       /\ \A a, t : <<a, t>> \in late' => <<a, t>> \in late \/ ~(pairs[a] > 0)
  BY <1>3
<1>15. \A p \in Brokers, topic \in Publications, d \in due', t \in SubTopics :
          /\ Matches(t, topic) /\ On(br[Home[d]], d, t)
          /\ Way(Home[d], p, t)' /\ Coming(Home[d], p, topic)
          => got'[d] > 0 \/ Coming(Home[d], p, topic)'
  BY <1>12
<1>16. b \in Brokers /\ Finish(b, r, wantUp, wantDown, pubUp, pd) /\ (SubTopics # {} => OneWant(r))
  BY <1>1, <1>3, <1>5
<1> QED
  BY <1>11, <1>13, <1>14, <1>15, <1>16, ReachCallback

\* A client publishes: the way is open to all that have to receive it.
LEMMA PublishReach ==
  ASSUME Acyclic, WantInv, WantInv', Places, Places', ReachInv, NEW c \in Publishers, Publish(c)
  PROVE  ReachInv'
<1>1. PICK b, x, t0 : b = Home[c] /\ x = br[b] /\ t0 = Tenant(c)
  OBVIOUS
<1>2. PICK n \in PubTopics :
        LET r == s_cb_pub(x, c, t0, n, FALSE)
        IN /\ HasLocal(x, Key(c)) /\ NoPublication /\ Settled
           /\ UNCHANGED <<pairs, pubS, pubN>>
           /\ Finish(b, r, wantUp, wantDown, pubUp, pubDown)
           /\ got' = [d \in Clients |-> Cardinality({o \in r.rout : o.to = d})]
           /\ due' = IF \A a \in Ancestors[b] \ {Root} : br[a].north
                     THEN {d \in Clients : Holds(d, b, PubOf(c, n))} ELSE {}
           /\ UNCHANGED <<late, stray>>
  BY <1>1 DEF Publish, PubOf
<1>3. PICK r, topic : r = s_cb_pub(x, c, t0, n, FALSE) /\ topic = PubOf(c, n)
  OBVIOUS
<1>4. /\ HasLocal(x, <<c, t0>>) /\ NoPublication /\ Settled
      /\ UNCHANGED <<pairs, pubS, pubN, late, stray>>
      /\ Finish(b, r, wantUp, wantDown, pubUp, pubDown)
      /\ got' = [d \in Clients |-> Cardinality({o \in r.rout : o.to = d})]
      /\ due' = IF \A a \in Ancestors[b] \ {Root} : br[a].north
                THEN {d \in Clients : Holds(d, b, topic)} ELSE {}
  BY <1>1, <1>2, <1>3 DEF Key
<1>5. b \in Brokers /\ Shape(x) /\ TrieCounts(x) /\ topic \in Publications
  BY <1>1, <1>3, PubSubAssumption DEF Places, Publications
<1>6. SameOn(x, r.b) /\ (SubTopics # {} => OneWant(r))
  BY <1>3, <1>5, PublicationOneWant
<1>7. Basics
  BY DEF ReachInv, Basics
<1>8. Basics' /\ br'[b] = r.b /\ \A a \in Brokers : a # b => br'[a] = br[a]
  <2>1. due' \subseteq Clients /\ UNCHANGED pairs
    BY <1>4
  <2>2. \A s, t : On(r.b, s, t) => On(br[b], s, t) \/ t \in SubTopics
    BY <1>1, <1>6 DEF SameOn
  <2> QED
    BY <1>4, <1>5, <1>7, <2>1, <2>2, CallbackBasics
<1>9. Serves(x, r, topic)
      /\ \E mn, ms : GoesDown(r, topic, NoId, mn, ms) /\ GoesNorth(x, r, topic, mn)
  <2>1. topic = PubTopic(t0, n, FALSE, Scope)
    BY <1>1, <1>3 DEF PubOf
  <2>2. LET z == s_cb_pub(x, c, t0, n, FALSE)
        IN Serves(x, z, topic)
           /\ \E mn, ms : GoesDown(z, topic, NoId, mn, ms) /\ GoesNorth(x, z, topic, mn)
    BY <1>4, <1>5, <2>1, PublicationGoes
  <2> QED
    BY <1>3, <2>2
<1>10. ASSUME PairsOnce', NEW d \in due'
       PROVE  \E t \in SubTopics :
                /\ Matches(t, topic) /\ On(br'[Home[d]], d, t) /\ Way(Home[d], b, t)'
                /\ got'[d] > 0 \/ Coming(Home[d], b, topic)'
  <2>1. PICK h \in Brokers : h = Home[d] /\ d \in Clients
    BY <1>8, PubSubAssumption DEF Basics
  <2>2. (\A a \in Ancestors[b] \ {Root} : br[a].north) /\ Holds(d, b, topic)
    BY <1>4, <1>10
  <2>3. PICK t : /\ Matches(t, topic) /\ On(br[h], d, t)
                 /\ \A a \in Ancestors[h] \ Ancestors[b] : <<a, t>> \notin late
                 /\ \A a \in Ancestors[h] \cup Ancestors[b] : <<a, t>> \notin stray
    BY <2>1, <2>2 DEF Holds, On
  <2>4. t \in SubTopics
    BY <1>7, <2>3 DEF Basics
  <2>5. \A a \in Ancestors[b] \ {Root} : pairs[a] > 0
    BY <1>5, <2>2, AncestorSteps DEF WantInv, Sockets
  <2>6. PairsOnce /\ \A a \in Lower : pairs[a] <= MaxPairs[a]
    BY <1>4, <1>7, <1>10 DEF PairsOnce, Basics
  <2>7. Way(h, b, t)
    BY <1>4, <1>5, <2>1, <2>3, <2>4, <2>5, <2>6, SettledWay
  <2>8. On(br'[h], d, t)
    BY <1>1, <1>6, <1>8, <2>3 DEF SameOn
  <2>9. LeavesWay(t)
    <3>1. Sockets /\ OneWant(r) /\ UNCHANGED <<pairs, pubS, pubN, stray>>
      BY <1>4, <1>6, <2>4 DEF WantInv
    <3>2. \A a : <<a, t>> \in late' => <<a, t>> \in late \/ ~(pairs[a] > 0)
      BY <1>4
    <3> QED
      BY <1>4, <1>5, <2>4, <3>1, <3>2, CallbackLeavesWay
  <2>10. \A a \in Lower : pairs'[a] >= pairs[a] /\ pairs'[a] <= MaxPairs[a]
    BY <1>4, <1>7 DEF Basics, Places
  <2>11. Way(h, b, t)'
    <3>1. \E y \in Clients : On(br'[h], y, t)
      BY <2>1, <2>8
    <3> QED
      BY <1>5, <1>10, <2>4, <2>7, <2>9, <2>10, <3>1, WayKeeps
  <2>12. got'[d] > 0 \/ Coming(h, b, topic)'
    <3>1. CASE b = h
      <4>1. Cardinality({o \in r.rout : o.to = d}) > 0
        BY <1>1, <1>9, <2>1, <2>3, <3>1 DEF Serves
      <4> QED
        BY <1>4, <2>1, <4>1
    <3>2. CASE b # h
      <4>1. PICK mn, ms : GoesDown(r, topic, NoId, mn, ms) /\ GoesNorth(x, r, topic, mn)
        BY <1>9
      <4>2. Speaks(r, mn, ms) /\ ms \in Wrote(r, "pubS") /\ Comes(ms, b, topic)
        BY <4>1, PubSubAssumption DEF GoesDown, Comes
      <4>3. b \in Lower /\ pairs[b] > 0 => mn \in Wrote(r, "pubN") /\ Comes(mn, b, topic)
        <5> SUFFICES ASSUME b \in Lower, pairs[b] > 0
                     PROVE  mn \in Wrote(r, "pubN") /\ Comes(mn, b, topic)
          OBVIOUS
        <5>1. x.north
          BY <1>1 DEF WantInv, Sockets, Lower
        <5>2. x.broker_id \in Pairs /\ x.broker_id[1] = b
          BY <1>1, <1>7, IdOf
        <5> QED
          BY <1>5, <4>1, <5>1, <5>2, AncestorSteps DEF GoesNorth, Comes
      <4>4. PICK wu, wd, pu, pd : wu = wantUp /\ wd = wantDown /\ pu = pubUp /\ pd = pubDown
        OBVIOUS
      <4>5. Finish(b, r, wu, wd, pu, pd) /\ Queues(pu, pd) /\ pairs' = pairs
        BY <1>4, <4>4 DEF Places
      <4>6. b \in Ancestors[b] /\ \A a \in Lower : pairs'[a] <= MaxPairs[a]
        BY <1>5, <2>10, AncestorSteps
      <4> QED
        BY <1>5, <2>3, <2>4, <2>11, <3>2, <4>2, <4>3, <4>5, <4>6, GoesOn
    <3> QED
      BY <3>1, <3>2
  <2> QED
    BY <2>1, <2>3, <2>4, <2>8, <2>11, <2>12
<1>11. PairsOnce' => Reach(b, topic)'
  BY <1>10 DEF Reach
<1> QED
  BY <1>5, <1>8, <1>11 DEF ReachInv, Basics

\* A callback that only passes a subscription on and leaves the ways open.
LEMMA RelayReach ==
  ASSUME Acyclic, WantInv', Places, Places', ReachInv, NEW b \in Brokers, NEW r, NEW wu, NEW wd,
         Finish(b, r, wu, wd, pubUp, pubDown), UNCHANGED <<pairs, got, due>>,
         r.b = br[b], Silent(r), \A t \in SubTopics : LeavesWay(t)
  PROVE  ReachInv'
<1>1. Basics
  BY DEF ReachInv, Basics
<1>2. \A a \in Brokers : br'[a] = br[a]
  <2>1. br' = [br EXCEPT ![b] = r.b] /\ DOMAIN br = Brokers
    BY DEF Finish, Places
  <2>2. \A a \in Brokers : br'[a] = IF a = b THEN r.b ELSE br[a]
    BY <2>1
  <2> QED
    BY <2>2
<1>3. \A k \in Pairs : pubUp'[k] = pubUp[k] /\ pubDown'[k] = pubDown[k]
  <2>1. Queues(pubUp, pubDown)
    BY DEF Places
  <2>2. (\A o \in r.ps : o.sock # "pubN") /\ (\A o \in r.ps : o.sock # "pubS")
    BY DEF Silent
  <2> QED
    BY <2>1, <2>2, FinishSilent
<1>4. pairs' = pairs /\ got' = got /\ due' = due
  OBVIOUS
<1>5. Basics'
  BY <1>1, <1>2, <1>4 DEF Basics
<1>6. \A h, p, topic : Coming(h, p, topic) => Coming(h, p, topic)'
  BY <1>3, StillComing
<1>7. ASSUME PairsOnce', due' # {} PROVE \E p \in Brokers, topic \in Publications : Reach(p, topic)'
  <2>1. PairsOnce /\ due # {} /\ due \subseteq Clients
    BY <1>1, <1>4, <1>7 DEF PairsOnce, Basics
  <2>2. PICK p \in Brokers, topic \in Publications : Reach(p, topic)
    BY <2>1 DEF ReachInv
  <2>3. \A a \in Lower : pairs'[a] >= pairs[a] /\ pairs'[a] <= MaxPairs[a]
    BY <1>1, <1>4 DEF Basics, Places
  <2>4. \A d \in due' : \A t : On(br[Home[d]], d, t) => On(br'[Home[d]], d, t)
    BY <1>1, <1>2, <1>4, PubSubAssumption DEF Basics
  <2>5. due' \subseteq due /\ \A d \in due' : got[d] > 0 => got'[d] > 0
    BY <1>4
  <2>6. Reach(p, topic)'
    BY <1>6, <1>7, <2>1, <2>2, <2>3, <2>4, <2>5, ReachKeeps
  <2> QED
    BY <2>6
<1> QED
  BY <1>5, <1>7 DEF ReachInv, Basics

\* A pipe that ended a topic before its first message was taken.
LEMMA EndsTail ==
  ASSUME NEW q, IsSeq(q), q # <<>>, NEW t
  PROVE  /\ Ends(Tail(q), t) => Ends(q, t)
         /\ Head(q).topic = t /\ Head(q).cmd = "UNSUB" => Ends(q, t)
<1>1. PICK u : u = Tail(q)
  OBVIOUS
<1>2. /\ 1 \in DOMAIN q /\ Head(q) = q[1]
      /\ \A i \in DOMAIN u : i + 1 \in DOMAIN q /\ u[i] = q[i + 1]
  BY <1>1, AfterHead
<1>3. Ends(u, t) => Ends(q, t)
  BY <1>2 DEF Ends
<1> QED
  BY <1>1, <1>2, <1>3 DEF Ends

\* What s_on_pubS_msg and s_on_pubN_msg do.
LEMMA RelayDoes ==
  ASSUME NEW b, NEW m \in Wants, NEW r,
         r \in {s_on_pubS_msg(b, m), s_on_pubN_msg(b, m), Nothing(b)}
  PROVE  r.b = b /\ Silent(r) /\ OneWant(r)
<1>1. r.b = b
  BY RelayTells
<1>2. Silent(r)
  BY DEF s_on_pubS_msg, s_on_pubN_msg, Nothing, Result, WithPs, Silent, PsNorth, PsSouth
<1>3. Wrote(r, "subN") \subseteq {m} /\ Wrote(r, "subS") \subseteq {m}
  BY RelayTells DEF TellsAll
<1> QED
  BY <1>1, <1>2, <1>3 DEF OneWant

\* An XPUB socket takes a subscription from below.
LEMMA WantUpReach ==
  ASSUME Acyclic, WantInv, WantInv', Places, Places', ReachInv,
         NEW j \in Pairs, ReceiveWantUp(j)
  PROVE  ReachInv'
<1>1. PICK b, x, q, m, old, new :
        /\ b = Above(j) /\ x = br[b] /\ q = wantUp[j] /\ m = Head(q)
        /\ old = pubS[b][m.topic] /\ new = IF m.cmd = "SUB" THEN old \cup {j} ELSE old \ {j}
  OBVIOUS
<1>2. PICK tell, r, wu :
        /\ tell = (old # new /\ (old = {} \/ new = {})) /\ wu = [wantUp EXCEPT ![j] = Tail(@)]
        /\ r = IF tell THEN s_on_pubS_msg(x, m) ELSE Nothing(x)
  OBVIOUS
<1>3. /\ q # <<>> /\ pubS' = [pubS EXCEPT ![b][m.topic] = new]
      /\ Finish(b, r, wu, wantDown, pubUp, pubDown)
      /\ late' \subseteq late \cup Unsent(b, m)
      /\ UNCHANGED <<pairs, pubN, got, due, stray>>
  BY <1>1, <1>2 DEF ReceiveWantUp
<1>4. /\ Sockets /\ b \in Brokers
      /\ pubS \in [Brokers -> [SubTopics -> SUBSET Pairs]]
      /\ wantUp \in [Pairs -> Seq(Wants)] /\ wantDown \in [Pairs -> Seq(Wants)]
  <2>1. Sockets
    BY DEF WantInv
  <2>2. b \in Brokers
    BY <1>1, PubSubAssumption DEF Pairs, Above
  <2> QED
    BY <2>1, <2>2 DEF Sockets, Typed
<1>5. q \in Seq(Wants) /\ IsSeq(q)
  BY <1>1, <1>4, SeqIsSeq
<1>6. m \in Wants /\ m.topic \in SubTopics
  <2>1. m \in Wants
    BY <1>1, <1>3, <1>5
  <2> QED
    BY <2>1 DEF Wants
<1>7. r.b = x /\ Silent(r) /\ OneWant(r)
  BY <1>2, <1>6, RelayDoes
<1>8. wu[j] = Tail(q) /\ \A k \in Pairs : k # j => wu[k] = wantUp[k]
  BY <1>1, <1>2, <1>4
<1>9. \A k \in Pairs : IsSeq(wu[k]) /\ IsSeq(wantDown[k])
  BY <1>4, <1>5, <1>8, SeqIsSeq, AfterHead, <1>3
<1>10. ASSUME NEW t \in SubTopics PROVE LeavesWay(t)
  <2>1. \A k \in Pairs : /\ Ends(wantUp'[k], t) => Ends(wu[k], t) \/ subN'[k][t] = 0
                         /\ Ends(wantDown'[k], t) => Ends(wantDown[k], t) \/ subS'[Above(k)][t] = 0
    <3>1. PICK wd : wd = wantDown
      OBVIOUS
    <3>2. pairs' = pairs /\ Finish(b, r, wu, wd, pubUp, pubDown)
          /\ \A k \in Pairs : IsSeq(wu[k]) /\ IsSeq(wd[k])
      BY <1>3, <1>9, <3>1
    <3>3. \A k \in Pairs : /\ Ends(wantUp'[k], t) => Ends(wu[k], t) \/ subN'[k][t] = 0
                           /\ Ends(wantDown'[k], t) => Ends(wd[k], t) \/ subS'[Above(k)][t] = 0
      BY <1>4, <1>7, <3>2, FinishEnds
    <3> QED
      BY <3>1, <3>3
  <2>2. \A k \in Pairs : Ends(wu[k], t) => Ends(wantUp[k], t)
    BY <1>1, <1>3, <1>5, <1>8, EndsTail
  <2>3. ASSUME NEW k \in Pairs, k \in pubS[Above(k)][t], ~Ends(wantUp[k], t)
        PROVE  k \in pubS'[Above(k)][t]
    <3>1. PICK a : a = Above(k)
      OBVIOUS
    <3>2. a \in Brokers
      BY <3>1, PubSubAssumption DEF Pairs, Above
    <3>3. pubS'[a][t] = IF a = b /\ t = m.topic THEN new ELSE pubS[a][t]
      BY <1>3, <1>4, <3>2
    <3>4. CASE a = b /\ t = m.topic
      <4>1. k \in old
        BY <1>1, <2>3, <3>1, <3>4
      <4>2. k = j => m.cmd = "SUB"
        BY <1>1, <1>3, <1>5, <1>6, <2>3, <3>4, EndsTail DEF Wants
      <4>3. k \in new
        BY <1>1, <4>1, <4>2
      <4> QED
        BY <3>1, <3>3, <3>4, <4>3
    <3>5. CASE ~(a = b /\ t = m.topic)
      BY <2>3, <3>1, <3>3, <3>5
    <3> QED
      BY <3>4, <3>5
  <2>4. \A a : <<a, t>> \in late' => <<a, t>> \in late \/ ~(pairs[a] > 0)
    BY <1>3, <1>4, UnsentLate
  <2>5. \A k : Connected(k)' = Connected(k)
    BY <1>3 DEF Connected
  <2> QED
    BY <1>3, <2>1, <2>2, <2>3, <2>4, <2>5 DEF LeavesWay
<1>11. Finish(b, r, wu, wantDown, pubUp, pubDown) /\ UNCHANGED <<pairs, got, due>> /\ r.b = br[b]
  BY <1>1, <1>3, <1>7
<1> QED
  BY <1>4, <1>7, <1>10, <1>11, RelayReach

\* The XPUB socket of a pair takes one from above.
LEMMA WantDownReach ==
  ASSUME Acyclic, WantInv, WantInv', Places, Places', ReachInv,
         NEW j \in Pairs, ReceiveWantDown(j)
  PROVE  ReachInv'
<1>1. PICK b, x, q, m, new :
        /\ b = j[1] /\ x = br[b] /\ q = wantDown[j] /\ m = Head(q)
        /\ new = IF m.cmd = "SUB" THEN pubN[j] \cup {m.topic} ELSE pubN[j] \ {m.topic}
  OBVIOUS
<1>2. PICK r, wd : /\ wd = [wantDown EXCEPT ![j] = Tail(@)]
                   /\ r = IF new # pubN[j] THEN s_on_pubN_msg(x, m) ELSE Nothing(x)
  OBVIOUS
<1>3. /\ q # <<>> /\ pubN' = [pubN EXCEPT ![j] = new]
      /\ Finish(b, r, wantUp, wd, pubUp, pubDown)
      /\ UNCHANGED <<pairs, pubS, got, due, late, stray>>
  BY <1>1, <1>2 DEF ReceiveWantDown
<1>4. /\ Sockets /\ b \in Brokers
      /\ pubN \in [Pairs -> SUBSET SubTopics]
      /\ wantUp \in [Pairs -> Seq(Wants)] /\ wantDown \in [Pairs -> Seq(Wants)]
  BY <1>1, PubSubAssumption DEF WantInv, Sockets, Typed, Pairs, Lower
<1>5. q \in Seq(Wants) /\ IsSeq(q)
  BY <1>1, <1>4, SeqIsSeq
<1>6. m \in Wants /\ m.topic \in SubTopics
  <2>1. m \in Wants
    BY <1>1, <1>3, <1>5
  <2> QED
    BY <2>1 DEF Wants
<1>7. r.b = x /\ Silent(r) /\ OneWant(r)
  BY <1>2, <1>6, RelayDoes
<1>8. wd[j] = Tail(q) /\ \A k \in Pairs : k # j => wd[k] = wantDown[k]
  BY <1>1, <1>2, <1>4
<1>9. \A k \in Pairs : IsSeq(wantUp[k]) /\ IsSeq(wd[k])
  BY <1>4, <1>5, <1>8, SeqIsSeq, AfterHead, <1>3
<1>10. ASSUME NEW t \in SubTopics PROVE LeavesWay(t)
  <2>1. \A k \in Pairs : /\ Ends(wantUp'[k], t) => Ends(wantUp[k], t) \/ subN'[k][t] = 0
                         /\ Ends(wantDown'[k], t) => Ends(wd[k], t) \/ subS'[Above(k)][t] = 0
    <3>1. PICK wu : wu = wantUp
      OBVIOUS
    <3>2. pairs' = pairs /\ Finish(b, r, wu, wd, pubUp, pubDown)
          /\ \A k \in Pairs : IsSeq(wu[k]) /\ IsSeq(wd[k])
      BY <1>3, <1>9, <3>1
    <3>3. \A k \in Pairs : /\ Ends(wantUp'[k], t) => Ends(wu[k], t) \/ subN'[k][t] = 0
                           /\ Ends(wantDown'[k], t) => Ends(wd[k], t) \/ subS'[Above(k)][t] = 0
      BY <1>4, <1>7, <3>2, FinishEnds
    <3> QED
      BY <3>1, <3>3
  <2>2. \A k \in Pairs : Ends(wd[k], t) => Ends(wantDown[k], t)
    BY <1>1, <1>3, <1>5, <1>8, EndsTail
  <2>3. ASSUME NEW k \in Pairs, t \in pubN[k], ~Ends(wantDown[k], t)
        PROVE  t \in pubN'[k]
    <3>1. pubN'[k] = IF k = j THEN new ELSE pubN[k]
      BY <1>3, <1>4
    <3>2. CASE k = j
      <4>1. t = m.topic => m.cmd = "SUB"
        BY <1>1, <1>3, <1>5, <1>6, <2>3, <3>2, EndsTail DEF Wants
      <4>2. t \in new
        BY <1>1, <2>3, <3>2, <4>1
      <4> QED
        BY <3>1, <3>2, <4>2
    <3>3. CASE k # j
      BY <2>3, <3>1, <3>3
    <3> QED
      BY <3>2, <3>3
  <2>4. \A k : Connected(k)' = Connected(k)
    BY <1>3 DEF Connected
  <2> QED
    BY <1>3, <2>1, <2>2, <2>3, <2>4 DEF LeavesWay
<1>11. Finish(b, r, wantUp, wd, pubUp, pubDown) /\ UNCHANGED <<pairs, got, due>> /\ r.b = br[b]
  BY <1>1, <1>3, <1>7
<1> QED
  BY <1>4, <1>7, <1>10, <1>11, RelayReach

\* A broker registers.  Where none has done so before, what the sockets that connect
\* tell each other is on no pipe a publication takes.
LEMMA RegokReach ==
  ASSUME Acyclic, WantInv, WantInv', Places, Places', ReachInv, NEW b \in Lower, Regok(b)
  PROVE  ReachInv'
<1>1. PICK k : k = <<b, pairs[b] + 1>>
  OBVIOUS
<1>2. PICK replay : /\ pairs[b] < MaxPairs[b] /\ pairs' = [pairs EXCEPT ![b] = @ + 1]
                    /\ wantDown' = [wantDown EXCEPT ![k] = replay]
  BY <1>1 DEF Regok
<1>3. /\ got' = Receipts /\ due' \in {{}, StillDue({})}
      /\ UNCHANGED <<subS, subN, pubS, pubN, wantUp, pubUp, pubDown, late, stray>>
  BY DEF Regok
<1>4. /\ b \in Brokers /\ pairs \in [Lower -> Nat] /\ MaxPairs[b] \in Nat /\ pairs[b] \in Nat
      /\ wantDown \in [Pairs -> Seq(Wants)] /\ Sockets
  BY PubSubAssumption DEF Places, Lower, WantInv, Sockets, Typed
<1>5. pairs'[b] = pairs[b] + 1 /\ \A a \in Lower : a # b => pairs'[a] = pairs[a]
  BY <1>2, <1>4
<1>6. Basics
  BY DEF ReachInv, Basics
<1>7. \A a \in Brokers : \A s, t : On(br'[a], s, t) <=> On(br[a], s, t)
  <2>1. Joins(br[b], br'[b]) /\ \A a \in Brokers : a # b => br'[a] = br[a]
    BY RegokJoins
  <2>2. Shape(br[b]) /\ TrieCounts(br[b]) /\ SameSubs(br[b], br'[b])
    BY <1>4, <2>1 DEF Places, Joins
  <2>3. \A s, t : On(br'[b], s, t) <=> On(br[b], s, t)
    BY <2>2, SameSubsCounts
  <2> QED
    BY <2>1, <2>3
<1>8. due' \subseteq due /\ (due' # {} => got' = got)
  BY <1>3 DEF StillDue, Receipts
<1>9. \A a \in Lower : pairs'[a] >= pairs[a] /\ pairs'[a] <= MaxPairs[a]
  <2>1. ASSUME NEW a \in Lower PROVE pairs'[a] >= pairs[a] /\ pairs'[a] <= MaxPairs[a]
    <3>1. CASE a = b
      BY <1>2, <1>4, <1>5, <3>1
    <3>2. CASE a # b
      <4>1. pairs'[a] = pairs[a] /\ pairs[a] \in Nat /\ pairs[a] <= MaxPairs[a]
        BY <1>4, <1>5, <1>6, <3>2 DEF Basics
      <4> QED
        BY <4>1
    <3> QED
      BY <3>1, <3>2
  <2> QED
    BY <2>1
<1>10. Basics'
  BY <1>6, <1>7, <1>8, <1>9 DEF Basics
<1>11. ASSUME PairsOnce', due' # {} PROVE \E p \in Brokers, topic \in Publications : Reach(p, topic)'
  <2>1. pairs[b] = 0
    BY <1>4, <1>5, <1>11 DEF PairsOnce
  <2>2. PairsOnce /\ due # {}
    <3>1. \A a \in Lower : pairs[a] <= 1
      BY <1>5, <1>11, <2>1 DEF PairsOnce
    <3> QED
      BY <1>8, <1>11, <3>1 DEF PairsOnce
  <2>3. PICK p \in Brokers, topic \in Publications : Reach(p, topic)
    BY <2>2 DEF ReachInv
  <2>4. ASSUME NEW t \in SubTopics PROVE LeavesWay(t)
    <3>1. ASSUME NEW j \in Pairs, pairs[j[1]] > 0
          PROVE  /\ Connected(j)' => Connected(j)
                 /\ wantDown'[j] = wantDown[j]
      <4>1. j[1] # b /\ j[1] \in Lower
        BY <2>1, <3>1 DEF Pairs
      <4>2. k[1] = b
        BY <1>1
      <4>3. pairs'[j[1]] = pairs[j[1]] /\ j # k
        BY <1>5, <4>1, <4>2
      <4> QED
        BY <1>2, <1>4, <4>3 DEF Connected
    <3> QED
      BY <1>3, <3>1 DEF LeavesWay
  <2>5. \A h, q, n : Coming(h, q, n) => Coming(h, q, n)'
    BY <1>3, StillComing
  <2>6. \A d \in due' : \A t : On(br[Home[d]], d, t) => On(br'[Home[d]], d, t)
    <3> SUFFICES ASSUME NEW d \in due', NEW t, On(br[Home[d]], d, t)
                 PROVE  On(br'[Home[d]], d, t)
      OBVIOUS
    <3>1. Home[d] \in Brokers
      BY <1>6, <1>8, PubSubAssumption DEF Basics
    <3> QED
      BY <1>7, <3>1
  <2>7. due \subseteq Clients /\ \A d \in due' : got[d] > 0 => got'[d] > 0
    BY <1>6, <1>8 DEF Basics
  <2>8. Reach(p, topic)'
    BY <1>8, <1>9, <1>11, <2>3, <2>4, <2>5, <2>6, <2>7, ReachKeeps
  <2> QED
    BY <2>8
<1> QED
  BY <1>10, <1>11 DEF ReachInv, Basics

\* Every step keeps it.
LEMMA NextReach ==
  Acyclic /\ PubInv /\ PubInv' /\ WantInv /\ WantInv' /\ ReachInv /\ [Next]_vars => ReachInv'
<1> SUFFICES ASSUME Acyclic, PubInv, PubInv', WantInv, WantInv', ReachInv, [Next]_vars
             PROVE  ReachInv'
  OBVIOUS
<1>1. Places /\ Places'
  BY DEF PubInv
<1>2. ASSUME NEW c \in Clients, Sub(c) \/ Unsub(c) \/ Leave(c) PROVE ReachInv'
  BY <1>1, <1>2, ClientReach
<1>3. ASSUME NEW c \in Publishers, Publish(c) PROVE ReachInv'
  BY <1>1, <1>3, PublishReach
<1>4. ASSUME NEW b \in Lower, Regok(b) PROVE ReachInv'
  BY <1>1, <1>4, RegokReach
<1>5. ASSUME NEW k \in Pairs, Receive(k) PROVE ReachInv'
  BY <1>1, <1>5, WantUpReach, WantDownReach, PubUpReach, PubDownReach DEF Receive
<1>6. CASE UNCHANGED vars
  <2>1. /\ br' = br /\ pairs' = pairs /\ subS' = subS /\ subN' = subN /\ pubS' = pubS
        /\ pubN' = pubN /\ wantUp' = wantUp /\ wantDown' = wantDown /\ pubUp' = pubUp
        /\ pubDown' = pubDown /\ got' = got /\ due' = due /\ late' = late /\ stray' = stray
    BY <1>6 DEF vars, links
  <2>2. \A k : Above(k)' = Above(k) /\ Connected(k)' = Connected(k)
    BY <2>1 DEF Above, Connected
  <2>3. \A h, p, t : Way(h, p, t)' = Way(h, p, t)
    BY <2>1, <2>2 DEF Way, UpWay, DownWay
  <2>4. \A h, p, n : Coming(h, p, n)' = Coming(h, p, n)
    BY <2>1 DEF Coming
  <2>5. \A p, n : Reach(p, n) => Reach(p, n)'
    BY <2>1, <2>3, <2>4 DEF Reach, On
  <2>6. PairsOnce' = PairsOnce
    BY <2>1 DEF PairsOnce
  <2> QED
    BY <2>1, <2>5, <2>6 DEF ReachInv, On
<1> QED
  BY <1>2, <1>3, <1>4, <1>5, <1>6 DEF Next

\* At first nobody is due anything.
LEMMA InitReach == Init => ReachInv
<1> SUFFICES ASSUME Init PROVE ReachInv
  OBVIOUS
<1>1. due = {} /\ \A b \in Lower : pairs[b] <= MaxPairs[b]
  BY PubSubAssumption DEF Init
<1>2. \A b \in Brokers : br[b].topics_trie = <<>>
  BY DEF Init, Start, NewBroker
<1>3. \A b \in Brokers : \A s, t : ~On(br[b], s, t)
  BY <1>2, ShortSeqs DEF On
<1> QED
  BY <1>1, <1>3 DEF ReachInv

\* When nothing is on its way, all that are due it have the publication.
LEMMA ReachInvReaches == ReachInv => (PairsOnce => ReachesSubscribers)
<1> SUFFICES ASSUME ReachInv, PairsOnce, NoPublication, NEW d \in due
             PROVE  got[d] > 0
  BY DEF ReachesSubscribers
<1>1. PICK p \in Brokers, topic \in Publications : Reach(p, topic)
  BY DEF ReachInv
<1>2. ~Coming(Home[d], p, topic)
  <2>1. \A k \in Pairs : DOMAIN pubUp[k] = {} /\ DOMAIN pubDown[k] = {}
    BY ShortSeqs DEF NoPublication
  <2> QED
    BY <2>1 DEF Coming
<1> QED
  BY <1>1, <1>2 DEF Reach

\* A publication made when all subscriptions have arrived reaches every client that
\* holds a matching subscription (s_cb_pub, s_on_subS_msg and s_on_subN_msg, over the
\* ways that s_cb_sub and s_on_pubS_msg opened): for any tree, clients and topics,
\* whatever the others subscribe to or take back, and whichever broker registers for
\* the first time, while it is under way.  It is about behaviours in which no broker
\* has registered twice.
THEOREM PublicationsReach ==
  ASSUME Acyclic PROVE Spec => [](PairsOnce => ReachesSubscribers)
<1>1. Init => PubInv /\ WantInv /\ ReachInv
  BY InitPub, InitWants, InitReach, PubSubAssumption
<1>2. PubInv /\ WantInv /\ ReachInv /\ [Next]_vars => PubInv' /\ WantInv' /\ ReachInv'
  BY NextPub, NextWants, NextReach
<1>3. ReachInv => (PairsOnce => ReachesSubscribers)
  BY ReachInvReaches
<1> QED
  BY <1>1, <1>2, <1>3, PTL DEF Spec
=============================================================================
