------------------------------ MODULE TopicMap ------------------------------
(***************************************************************************)
(* What the broker relies on in the trie of subscriptions: a set of        *)
(* (socket, topic) pairs, and results that tell it when to pass a          *)
(* subscription on.  BrokerTables uses the trie in this form, with the     *)
(* pairs of a topic collected in one entry.                                *)
(*                                                                         *)
(* This is the contract the code keeps, not the one its header states.     *)
(* trie.h:110-116 has nn_trie_subscribe return 1 for a new string, and     *)
(* return 0 and increment the reference count for one that exists; the     *)
(* comment at trie.c:535 has it return 1 for a fresh subscription.  The    *)
(* code returns 2 for every socket that is new on the topic, the first     *)
(* one included, and 1 or 0 for a socket that is there already, which it   *)
(* does not count again.                                                   *)
(***************************************************************************)
EXTENDS Integers, FiniteSets

CONSTANTS Sockids, Topics

VARIABLES
  pairs,   \* who subscribes to what
  ret      \* what the last call returned

vars == <<pairs, ret>>

Count(topic) == Cardinality({p \in pairs : p[2] = topic})

Init == pairs = {} /\ ret = 0

\* 2 for a socket that is new on the topic; a repeated subscription changes
\* nothing, not even the count, and tells whether the socket is the only one.
Subscribe(s, topic) ==
  IF <<s, topic>> \in pairs
  THEN ret' = (IF Count(topic) = 1 THEN 1 ELSE 0) /\ UNCHANGED pairs
  ELSE ret' = 2 /\ pairs' = pairs \cup {<<s, topic>>}

\* 1 when the topic's last subscriber goes.
Unsubscribe(s, topic) ==
  /\ <<s, topic>> \in pairs
  /\ ret' = (IF Count(topic) = 1 THEN 1 ELSE 0)
  /\ pairs' = pairs \ {<<s, topic>>}

Clear == pairs' = {} /\ ret' = 0

Next ==
  \/ \E s \in Sockids, topic \in Topics : Subscribe(s, topic) \/ Unsubscribe(s, topic)
  \/ Clear

Spec == Init /\ [][Next]_vars
=============================================================================
