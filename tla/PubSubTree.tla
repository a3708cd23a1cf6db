----------------------------- MODULE PubSubTree -----------------------------
(***************************************************************************)
(* Publish/subscribe between brokers.  Every broker has an XPUB and an     *)
(* XSUB socket for the brokers below it (pubS, subS, made by start_pubsub) *)
(* and connects a pair (pubN, subN) to the broker above it at every REGOK  *)
(* (connect_pubsubN).  The pair of an earlier REGOK is not closed: the     *)
(* loop goes on reading it, and only the last pair is written to.          *)
(*                                                                         *)
(* The sockets are ZeroMQ's.  An XSUB socket counts the subscriptions sent *)
(* on it, passes every one on, and passes an unsubscription on when its    *)
(* count gets to zero; a peer that attaches is sent all it holds.  An XPUB *)
(* socket knows which peer wants which topic, hands the broker a           *)
(* subscription when the first peer wants the topic and an unsubscription  *)
(* when the last has gone, and sends a publication to the peers with a     *)
(* matching subscription.  A pipe is a FIFO channel.                       *)
(***************************************************************************)
EXTENDS BrokerHandlers, SequencesExt

CONSTANTS
  Brokers, Root,
  Parent,        \* the higher broker of every broker but Root
  Clients,
  Home,          \* the broker a client is connected to
  NameOf,        \* <<tenant, name>>
  TopicsOf,      \* topics a client subscribes to
  PubTopics,     \* topics clients publish on
  ClientScopes,  \* scopes of their subscriptions
  Publishers,    \* clients that publish
  MayLeave,      \* clients that unregister
  MaxPairs,      \* bound: how often each lower broker registers
  MaxOps         \* bound: what the clients do other than publishing

Lower == Brokers \ {Root}

\* The i-th pair of sockets a lower broker connects to the broker above it.
Pairs == UNION {{b} \X (1 .. MaxPairs[b]) : b \in Lower}

ASSUME PubSubAssumption ==
  /\ Root \in Brokers
  /\ Parent \in [Lower -> Brokers] /\ MaxPairs \in [Lower -> Nat]
  /\ Home \in [Clients -> Brokers] /\ DOMAIN TopicsOf = Clients
  /\ \A c \in Clients : NameOf[c][1] \in Tenants /\ Len(NameOf[c]) = 2
  /\ Publishers \subseteq Clients /\ MayLeave \subseteq Clients
  /\ Sockids = Clients /\ NoId \notin Pairs /\ PubTopics \subseteq Seq(Labels)

Tenant(c) == NameOf[c][1]
Key(c) == <<c, Tenant(c)>>
SubTopics == {SubTopic(Tenant(c), n, sc, Scope) :
                c \in Clients, n \in UNION Range(TopicsOf), sc \in ClientScopes}

VARIABLES
  br,          \* the state of every broker
  pairs,       \* how many pairs each lower broker has connected
  subS, subN,  \* XSUB: the count of every topic
  pubS, pubN,  \* XPUB: the peers that want a topic; the topics the one peer wants
  wantUp,      \* (un)subscriptions from a subN to the pubS above it
  wantDown,    \* and from a subS to the pubN of a pair
  pubUp,       \* publications from a pubN to the subS above it
  pubDown,     \* and from a pubS to the subN of a pair
  got,         \* history: how often each client received the present publication
  due,         \* history: the clients that have to receive it
  late,        \* history: <<b, t>>, a subscription b had no subN to send on
  stray,       \* history: <<b, t>>, a client without t took back t at b
  ops          \* how much the clients have done

links == <<pairs, subS, subN, pubS, pubN, wantUp, wantDown, pubUp, pubDown>>
vars == <<br, links, got, due, late, stray, ops>>

\* A broker below another one first is unregistered; its clients are there.
Start(b) ==
  LET here == {c \in Clients : Home[c] = b} IN
  [NewBroker(IF b = Root THEN ROOT ELSE UNREG) EXCEPT
     !.lcl_cli = [k \in {Key(c) : c \in here} |-> [name |-> NameOf[k[1]], timeout |-> 0]],
     !.rev_lcl_cli = [n \in {NameOf[c] : c \in here} |->
                        Key(CHOOSE c \in here : NameOf[c] = n)]]

Init ==
  /\ br = [b \in Brokers |-> Start(b)]
  /\ pairs = [b \in Lower |-> 0]
  /\ subS = [b \in Brokers |-> [t \in SubTopics |-> 0]]
  /\ subN = [k \in Pairs |-> [t \in SubTopics |-> 0]]
  /\ pubS = [b \in Brokers |-> [t \in SubTopics |-> {}]]
  /\ pubN = [k \in Pairs |-> {}]
  /\ wantUp = [k \in Pairs |-> <<>>] /\ wantDown = [k \in Pairs |-> <<>>]
  /\ pubUp = [k \in Pairs |-> <<>>] /\ pubDown = [k \in Pairs |-> <<>>]
  /\ got = [c \in Clients |-> 0] /\ due = {}
  /\ late = {} /\ stray = {}
  /\ ops = 0

(***************************************************************************)
(* ZeroMQ.                                                                 *)
(***************************************************************************)
\* An XSUB socket with counts cnt is sent the (un)subscriptions of the set M
\* (one or none).
XsubCount(cnt, M) ==
  [t \in SubTopics |->
     IF [cmd |-> "SUB", topic |-> t] \in M THEN cnt[t] + 1
     ELSE IF [cmd |-> "UNSUB", topic |-> t] \in M /\ cnt[t] > 0 THEN cnt[t] - 1
     ELSE cnt[t]]
XsubPasses(cnt, M) == SetToSeq({m \in M : m.cmd = "SUB" \/ cnt[m.topic] = 1})

Wanted(topics, m) == \E t \in topics : Matches(t, m.topic)

Present(b) == <<b, pairs[b]>>
Connected(k) == k[2] <= pairs[k[1]]
Above(k) == Parent[k[1]]

\* What a callback wrote to a socket.
Wrote(r, sock) == {o.m : o \in {x \in r.ps : x.sock = sock}}

\* Broker b finishes a callback with result r; the other arguments are the
\* queues without the message it consumed.
Finish(b, r, up0, down0, pu0, pd0) ==
  LET toN(k) == k[1] = b /\ k = Present(b)
      toS(k) == Connected(k) /\ Above(k) = b
  IN /\ br[b].state # CRASHED
     /\ br' = [br EXCEPT ![b] = r.b]
     /\ subS' = [subS EXCEPT ![b] = XsubCount(@, Wrote(r, "subS"))]
     /\ subN' = [k \in Pairs |->
          IF toN(k) THEN XsubCount(subN[k], Wrote(r, "subN")) ELSE subN[k]]
     /\ wantUp' = [k \in Pairs |->
          IF toN(k) THEN up0[k] \o XsubPasses(subN[k], Wrote(r, "subN")) ELSE up0[k]]
     /\ wantDown' = [k \in Pairs |->
          IF toS(k) THEN down0[k] \o XsubPasses(subS[b], Wrote(r, "subS")) ELSE down0[k]]
     /\ pubUp' = [k \in Pairs |->
          IF toN(k) THEN pu0[k] \o SetToSeq({m \in Wrote(r, "pubN") : Wanted(pubN'[k], m)})
                    ELSE pu0[k]]
     /\ pubDown' = [k \in Pairs |->
          IF toS(k) THEN pd0[k] \o SetToSeq({m \in Wrote(r, "pubS") :
                           Wanted({t \in SubTopics : k \in pubS'[b][t]}, m)})
                    ELSE pd0[k]]

\* A subscription that should go on to the broker above and cannot.
Unsent(b, m) ==
  IF b # Root /\ ~br[b].north /\ m.cmd = "SUB" THEN {<<b, m.topic>>} ELSE {}

NoPublication == \A k \in Pairs : pubUp[k] = <<>> /\ pubDown[k] = <<>>
Settled == \A k \in Pairs : wantUp[k] = <<>> /\ wantDown[k] = <<>>

(***************************************************************************)
(* What clients do.                                                        *)
(***************************************************************************)
\* Once a publication has gone everywhere it is forgotten.
Receipts == IF NoPublication THEN [c \in Clients |-> 0] ELSE got
StillDue(gone) == IF NoPublication THEN {} ELSE due \ gone

ClientDoes(c, r) ==
  /\ ops < MaxOps /\ ops' = ops + 1
  /\ UNCHANGED <<pairs, pubS, pubN>>
  /\ Finish(Home[c], r, wantUp, wantDown, pubUp, pubDown)
  /\ got' = Receipts

Sub(c) == \E n \in TopicsOf[c], sc \in ClientScopes :
  LET r == s_cb_sub(br[Home[c]], c, Tenant(c), n, sc) IN
  /\ HasLocal(br[Home[c]], Key(c))
  /\ ClientDoes(c, r)
  /\ late' = late \cup UNION {Unsent(Home[c], m) : m \in Wrote(r, "subS")}
  /\ due' = StillDue({c})
  /\ UNCHANGED stray

Unsub(c) == \E n \in TopicsOf[c], sc \in ClientScopes :
  LET r == s_cb_unsub(br[Home[c]], c, Tenant(c), n, sc)
      t == SubTopic(Tenant(c), n, sc, Scope)
      others == r.ps # {} /\ t \notin Topics(br[Home[c]], c)
  IN /\ HasLocal(br[Home[c]], Key(c))
     /\ ClientDoes(c, r)
     /\ stray' = IF others THEN stray \cup {<<Home[c], t>>} ELSE stray
     /\ due' = IF others THEN {} ELSE StillDue({c})
     /\ UNCHANGED late

Leave(c) ==
  /\ c \in MayLeave /\ HasLocal(br[Home[c]], Key(c))
  /\ ClientDoes(c, s_cb_unreg_cli(br[Home[c]], c, Tenant(c)))
  /\ due' = StillDue({c})
  /\ UNCHANGED <<late, stray>>

\* The brokers from b up to the root: all that are in every set with b that holds,
\* with a broker, the one above it.
Upward(S) == \A b \in S \cap Lower : Parent[b] \in S
Ancestors == [b \in Brokers |->
  {a \in Brokers : \A S \in SUBSET Brokers : b \in S /\ Upward(S) => a \in S}]

\* Client c has a subscription to a publication of broker p, sent on on its way
\* here and taken back by nobody else.
Holds(c, p, topic) ==
  LET h == Home[c] IN
  \E t \in DOMAIN br[h].topics_trie :
    /\ Matches(t, topic) /\ c \in br[h].topics_trie[t].sockids
    /\ \A b \in Ancestors[h] \ Ancestors[p] : <<b, t>> \notin late
    /\ \A b \in Ancestors[h] \cup Ancestors[p] : <<b, t>> \notin stray

\* A scoped publication.  There is one at a time, made when every subscription
\* has arrived; it has to reach all that hold one.
Publish(c) == \E n \in PubTopics :
  LET h == Home[c]
      r == s_cb_pub(br[h], c, Tenant(c), n, FALSE)
  IN /\ HasLocal(br[h], Key(c)) /\ NoPublication /\ Settled
     /\ UNCHANGED <<pairs, pubS, pubN>>
     /\ Finish(h, r, wantUp, wantDown, pubUp, pubDown)
     /\ got' = [d \in Clients |-> Cardinality({o \in r.rout : o.to = d})]
     /\ due' = IF \A b \in Ancestors[h] \ {Root} : br[b].north
               THEN {d \in Clients : Holds(d, h, PubTopic(Tenant(c), n, FALSE, Scope))}
               ELSE {}
     /\ UNCHANGED <<late, stray, ops>>

(***************************************************************************)
(* What brokers do.                                                        *)
(***************************************************************************)
\* A publication has still to go up through b.
StillToPass(b) == \E k \in Pairs : pubUp[k] # <<>> /\ b \in Ancestors[Above(k)]

\* CHALL and REGOK, after the heartbeat timed out if this is not the first
\* time.  The sockets that connect replay: subS above to the new pubN.
Regok(b) ==
  LET gone == IF br[b].state = REGISTERED
              THEN s_heartbeat([br[b] EXCEPT !.timeout = Limit]).b ELSE br[b]
      k == <<b, pairs[b] + 1>>
      held == {t \in SubTopics : subS[Parent[b]][t] > 0}
  IN /\ pairs[b] < MaxPairs[b]
     /\ pairs' = [pairs EXCEPT ![b] = @ + 1]
     /\ br' = [br EXCEPT ![b] = s_cb_regok(s_cb_chall(gone, k).b, <<>>).b]
     /\ wantDown' = [wantDown EXCEPT ![k] =
                       SetToSeq({[cmd |-> "SUB", topic |-> t] : t \in held})]
     /\ got' = Receipts
     /\ due' = IF pairs[b] > 0 /\ StillToPass(b) THEN {} ELSE StillDue({})
     /\ UNCHANGED <<subS, subN, pubS, pubN, wantUp, pubUp, pubDown, late, stray, ops>>

\* pubS takes an (un)subscription from a pipe, and the broker if it is the
\* first or the last for the topic.
ReceiveWantUp(k) ==
  LET b == Above(k)
      m == Head(wantUp[k])
      old == pubS[b][m.topic]
      new == IF m.cmd = "SUB" THEN old \cup {k} ELSE old \ {k}
      tell == old # new /\ (old = {} \/ new = {})
  IN /\ wantUp[k] # <<>>
     /\ pubS' = [pubS EXCEPT ![b][m.topic] = new]
     /\ UNCHANGED <<pairs, pubN>>
     /\ Finish(b, IF tell THEN s_on_pubS_msg(br[b], m) ELSE Nothing(br[b]),
               [wantUp EXCEPT ![k] = Tail(@)], wantDown, pubUp, pubDown)
     /\ late' = IF tell THEN late \cup Unsent(b, m) ELSE late
     /\ UNCHANGED <<got, due, stray, ops>>

ReceiveWantDown(k) ==
  LET b == k[1]
      m == Head(wantDown[k])
      new == IF m.cmd = "SUB" THEN pubN[k] \cup {m.topic} ELSE pubN[k] \ {m.topic}
  IN /\ wantDown[k] # <<>>
     /\ pubN' = [pubN EXCEPT ![k] = new]
     /\ UNCHANGED <<pairs, pubS>>
     /\ Finish(b, IF new # pubN[k] THEN s_on_pubN_msg(br[b], m) ELSE Nothing(br[b]),
               wantUp, [wantDown EXCEPT ![k] = Tail(@)], pubUp, pubDown)
     /\ UNCHANGED <<got, due, late, stray, ops>>

Delivered(r) == [c \in Clients |-> got[c] + Cardinality({o \in r.rout : o.to = c})]

ReceivePubUp(k) ==
  LET b == Above(k)
      m == Head(pubUp[k])
      r == s_on_subS_msg(br[b], m.topic, m.name, m.pathv)
  IN /\ pubUp[k] # <<>>
     /\ UNCHANGED <<pairs, pubS, pubN>>
     /\ Finish(b, r, wantUp, wantDown, [pubUp EXCEPT ![k] = Tail(@)], pubDown)
     /\ got' = Delivered(r)
     /\ UNCHANGED <<due, late, stray, ops>>

ReceivePubDown(k) ==
  LET b == k[1]
      m == Head(pubDown[k])
      r == s_on_subN_msg(br[b], m.topic, m.name, m.pathv)
  IN /\ pubDown[k] # <<>>
     /\ UNCHANGED <<pairs, pubS, pubN>>
     /\ Finish(b, r, wantUp, wantDown, pubUp, [pubDown EXCEPT ![k] = Tail(@)])
     /\ got' = Delivered(r)
     /\ UNCHANGED <<due, late, stray, ops>>

Receive(k) == ReceiveWantUp(k) \/ ReceiveWantDown(k) \/ ReceivePubUp(k) \/ ReceivePubDown(k)

Next ==
  \/ \E c \in Clients : Sub(c) \/ Unsub(c) \/ Leave(c)
  \/ \E c \in Publishers : Publish(c)
  \/ \E b \in Lower : Regok(b)
  \/ \E k \in Pairs : Receive(k)

Spec == Init /\ [][Next]_vars

\* Pipes deliver: while something is under way, something arrives.
LSpec == Spec /\ WF_vars(\E k \in Pairs : Receive(k))

(***************************************************************************)
(* Properties.                                                             *)
(***************************************************************************)
\* A publication made when all subscriptions have arrived reaches, when it has
\* gone everywhere, every client in the tree that holds a matching subscription
\* and does nothing about it meanwhile, whatever the others subscribe to, take
\* back or leave behind.  Not counted are the three cases in which the code does
\* not pass on what it should: a subscription made before the REGOK, an
\* unsubscription from a topic its sender does not have, and a publication that
\* goes up through a broker that has just registered again, whose new socket has
\* not heard yet what is wanted above.
ReachesSubscribers == NoPublication => \A c \in due : got[c] > 0

\* No client receives a publication twice, its own included, unless a broker
\* above it has registered again: then the sockets of both registrations are
\* read, and a publication under way no longer shows the broker's present id.
AtMostOnce ==
  \A c \in Clients :
    got[c] > 1 => \E b \in Ancestors[Home[c]] \ {Root} : pairs[b] > 1

\* What is wanted anywhere is wanted by some client: once the unsubscriptions
\* have arrived, no broker goes on asking for a topic the last client has taken
\* back.  Not counted are clients that unregistered, for whom nobody takes
\* anything back, and brokers that registered again, whose first socket keeps
\* what was subscribed on it.
NoLeftovers ==
  /\ Settled
  /\ \A c \in Clients : HasLocal(br[Home[c]], Key(c))
  /\ \A b \in Lower : pairs[b] <= 1
  => \A t \in SubTopics :
       (\E b \in Brokers : subS[b][t] > 0) \/ (\E k \in Pairs : subN[k][t] > 0)
         => \E b \in Brokers : InTrie(br[b], t)

\* A publication does not go round in the tree for ever.
PublicationsEnd == []<>NoPublication
=============================================================================
