------------------------------ MODULE TrieUse -------------------------------
(***************************************************************************)
(* The trie of subscriptions as the broker uses it: any sequence of        *)
(* subscriptions, of unsubscriptions from what a client subscribes to      *)
(* (remove_subscription and remove_subscriptions look the topic up in the  *)
(* client's list first), and the end of the broker.                        *)
(***************************************************************************)
EXTENDS Trie

CONSTANTS Sockids, Topics, Words

ASSUME UseAssumption == Topics \subseteq Words /\ \A w \in Topics : w # <<>>

VARIABLES
  root,    \* the trie
  subs,    \* the pairs the clients' lists hold
  ret,     \* what the last call returned
  ok       \* no null or unassigned pointer was used and no assertion failed

vars == <<root, subs, ret, ok>>

Init == root = Nil /\ subs = {} /\ ret = 0 /\ ok = TRUE

\* A call that uses such a pointer ends the process.
Call(r) ==
  /\ ok /\ ok' = r.ok
  /\ root' = IF r.ok THEN r.node ELSE root
  /\ ret' = IF r.ok THEN r.ret ELSE ret

Subscribe(s, topic) ==
  /\ Call(nn_trie_subscribe(root, topic, s))
  /\ subs' = subs \cup {<<s, topic>>}

Unsubscribe(s, topic) == \E memory \in {{}, Junk} :
  /\ <<s, topic>> \in subs
  /\ Call(nn_node_unsubscribe(root, topic, s, memory))
  /\ subs' = subs \ {<<s, topic>>}

Term ==
  /\ root # Nil
  /\ Call(nn_node_term(root))
  /\ subs' = {}

\* The operator starts the broker again.
Restart == ~ok /\ root' = Nil /\ subs' = {} /\ ret' = 0 /\ ok' = TRUE

NextCall ==
  \/ \E s \in Sockids, topic \in Topics : Subscribe(s, topic) \/ Unsubscribe(s, topic)
  \/ Term \/ Restart

Spec == Init /\ [][NextCall]_vars

(***************************************************************************)
(* Properties.                                                             *)
(***************************************************************************)
\* However nodes are split, merged, converted and deleted, a publication is
\* delivered to exactly the sockets that subscribe to a prefix of its topic,
\* and matching says whether there is one.
Delivers ==
  ok => \A w \in Words :
    LET due == {s \in Sockids : \E topic \in Topics : <<s, topic>> \in subs /\ IsPrefix(topic, w)}
    IN nn_trie_tree(root, w) = due /\ nn_trie_match(root, w) = (due # {})

\* No unsubscription leaves a node or a slot behind that nothing needs: a node
\* without children has subscribers, both ends of a dense node's array are in
\* use, its count of children is right, and a node is dense while it has more
\* children than a sparse one can hold.
NoWaste ==
  \A n \in Nodes(root) :
    LET kids == Cardinality({c \in DOMAIN n.kids : n.kids[c] # Nil}) IN
    /\ Len(n.prefix) <= PrefixMax
    /\ kids = 0 => nn_node_has_subscribers(n)
    /\ n.dense = (kids > SparseMax)
    /\ n.dense => /\ n.nbr = kids
                  /\ n.kids[Min(DOMAIN n.kids)] # Nil
                  /\ n.kids[Max(DOMAIN n.kids)] # Nil

\* The one way to undefined behaviour is the list that a node is left without
\* when it is converted to sparse: no other pointer is followed unassigned or
\* null, and the assertion on the number of children holds.
OnlyConversionFaults == ok \/ \E n \in Nodes(root) : n.sockids = Junk

Pairs == UNION {e.sockids \X {e.str} : e \in Contents(root, <<>>)}
Map == INSTANCE TopicMap WITH pairs <- Pairs

\* The trie implements the map from topics to subscribers that the broker's
\* tables rely on, results included: s_cb_sub sees from a 2 that the socket is new
\* on the topic, whatever splits, merges and conversions its node has been through.
\* The results are those of the code, which trie.h:110-116 and trie.c:535 describe
\* otherwise (see TopicMap).
ImplementsMap == Map!Spec
=============================================================================
