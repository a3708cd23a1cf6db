-------------------------------- MODULE Trie --------------------------------
(***************************************************************************)
(* The patricia trie of subscriptions (src/lib/trie.c), node by node.      *)
(* BrokerTables abstracts it to a map from topics to subscribers; here the *)
(* splitting, merging and converting of nodes is modelled.  A string is a  *)
(* sequence of characters, and a node is Nil or a record:                  *)
(*   prefix            the characters it adds to the way from its parent   *)
(*   refcount, sockids its subscribers; the order of the list is left out  *)
(*   dense, nbr        FALSE and 0, or TRUE and the number of children     *)
(*   kids              character |-> child.  The domain of a dense node is *)
(*                     min .. max, with Nil for characters without child.  *)
(* An operation returns the new node, the value the C function returns,    *)
(* and whether it stayed within defined behaviour.                         *)
(***************************************************************************)
EXTENDS Integers, Sequences, FiniteSetsExt, SequencesExt

CONSTANTS
  PrefixMax,    \* NN_TRIE_PREFIX_MAX
  SparseMax,    \* NN_TRIE_SPARSE_MAX
  Nil,          \* the null pointer
  Junk          \* a list pointer that was never assigned

ASSUME TrieAssumption == PrefixMax \in Nat /\ SparseMax \in Nat \ {0}

Result(node, ret) == [node |-> node, ret |-> ret, ok |-> TRUE]
Fault(node) == [node |-> node, ret |-> 0, ok |-> FALSE]

Node(prefix) ==
  [prefix |-> prefix, refcount |-> 0, sockids |-> {}, dense |-> FALSE, nbr |-> 0, kids |-> <<>>]

nn_node_has_subscribers(node) == node.refcount > 0

\* The number of characters of data that match the prefix.
nn_node_check_prefix(node, data) ==
  Max({n \in 0 .. Len(node.prefix) :
         n <= Len(data) /\ \A i \in 1 .. n : node.prefix[i] = data[i]})

Next(node, c) == IF c \in DOMAIN node.kids THEN node.kids[c] ELSE Nil

Drop(data, n) == SubSeq(data, n + 1, Len(data))

WithKid(node, c, kid) ==
  [node EXCEPT !.kids = [x \in DOMAIN node.kids \cup {c} |-> IF x = c THEN kid ELSE node.kids[x]]]

\* Mutant of nn_node_compact: the character between the prefixes is left out.
CompactShort(node) ==
  LET c == CHOOSE x \in DOMAIN node.kids : TRUE
      ch == node.kids[c]
  IN IF \/ nn_node_has_subscribers(node)
        \/ node.dense \/ Cardinality(DOMAIN node.kids) # 1
        \/ Len(node.prefix) + Len(ch.prefix) + 1 > PrefixMax
     THEN node
     ELSE [ch EXCEPT !.prefix = node.prefix \o @]

\* A node without subscribers is merged with its only child if the prefixes fit.
nn_node_compact(node) ==
  LET c == CHOOSE x \in DOMAIN node.kids : TRUE
      ch == node.kids[c]
  IN IF \/ nn_node_has_subscribers(node)
        \/ node.dense \/ Cardinality(DOMAIN node.kids) # 1
        \/ Len(node.prefix) + Len(ch.prefix) + 1 > PrefixMax
     THEN node
     ELSE [ch EXCEPT !.prefix = node.prefix \o <<c>> \o @]

(***************************************************************************)
(* nn_trie_subscribe.                                                      *)
(***************************************************************************)
\* Step 5: a socket that is new on the node is counted.
SubscribeHere(node, s) ==
  IF node.sockids = Junk THEN Fault(node)
  ELSE IF s \in node.sockids THEN Result(node, IF node.refcount = 1 THEN 1 ELSE 0)
  ELSE Result([node EXCEPT !.sockids = @ \cup {s}, !.refcount = @ + 1], 2)

\* Step 4: a chain of new nodes holds the rest of the string.
RECURSIVE NewNodes(_, _)
NewNodes(data, s) ==
  IF Len(data) <= PrefixMax THEN SubscribeHere(Node(data), s)
  ELSE LET r == NewNodes(Drop(data, PrefixMax + 1), s)
       IN [r EXCEPT !.node = WithKid(Node(SubSeq(data, 1, PrefixMax)), data[PrefixMax + 1], @)]

\* Step 2: only pos characters of the prefix match.
Split(node, pos) ==
  LET rest == [node EXCEPT !.prefix = Drop(@, pos + 1)]
  IN WithKid(Node(SubSeq(node.prefix, 1, pos)), node.prefix[pos + 1], nn_node_compact(rest))

\* Mutant of Widen: a child that fits the range is not counted.
WidenUncounted(node, c) ==
  LET old == DOMAIN node.kids
      new == Min(old \cup {c}) .. Max(old \cup {c})
  IN [node EXCEPT !.kids = [x \in new |-> IF x \in old THEN node.kids[x] ELSE Nil],
                  !.nbr = IF c \in old THEN @ ELSE @ + 1]

\* Step 3 in a dense node: the range grows to hold c.
Widen(node, c) ==
  LET old == DOMAIN node.kids
      new == Min(old \cup {c}) .. Max(old \cup {c})
  IN [node EXCEPT !.kids = [x \in new |-> IF x \in old THEN node.kids[x] ELSE Nil],
                  !.nbr = @ + 1]

\* Step 3 in a full sparse node.  The new dense node starts without subscribers.
ToDense(node, c) ==
  LET old == DOMAIN node.kids
      new == Min(old \cup {c}) .. Max(old \cup {c})
  IN [Node(node.prefix) EXCEPT
        !.dense = TRUE, !.nbr = Cardinality(old) + 1,
        !.kids = [x \in new |-> IF x \in old THEN node.kids[x] ELSE Nil]]

\* Step 3: room for one more child, which step 4 fills.
Adjust(node, data, s) ==
  LET c == Head(data)
      wide == IF node.dense THEN Widen(node, c)
              ELSE IF Cardinality(DOMAIN node.kids) < SparseMax THEN node
              ELSE ToDense(node, c)
      r == NewNodes(Tail(data), s)
  IN IF data = <<>> THEN SubscribeHere(node, s)
     ELSE [r EXCEPT !.node = WithKid(wide, c, @)]

\* Step 1 walks down the trie.
RECURSIVE nn_trie_subscribe(_, _, _)
nn_trie_subscribe(node, data, s) ==
  LET pos == nn_node_check_prefix(node, data)
      rest == Drop(data, pos)
      r == nn_trie_subscribe(Next(node, Head(rest)), Tail(rest), s)
  IN IF node = Nil THEN NewNodes(data, s)
     ELSE IF pos < Len(node.prefix) THEN Adjust(Split(node, pos), rest, s)
     ELSE IF rest = <<>> THEN SubscribeHere(node, s)
     ELSE IF Next(node, Head(rest)) = Nil THEN Adjust(node, rest, s)
     ELSE [r EXCEPT !.node = WithKid(node, Head(rest), @)]

(***************************************************************************)
(* nn_trie_unsubscribe.                                                    *)
(***************************************************************************)
\* Mutant of RemoveHere: a node with children is dropped with them.
RemoveWithKids(node, s) ==
  IF node = Nil \/ ~nn_node_has_subscribers(node) THEN Result(node, -1)
  ELSE LET n == [node EXCEPT !.refcount = @ - 1, !.sockids = @ \ {s}]
       IN IF n.refcount > 0 THEN Result(n, 0) ELSE Result(Nil, 1)

\* The label found: a reference is taken off whether or not the socket is on
\* the list.  -1 stands for -EINVAL.
RemoveHere(node, s) ==
  IF node = Nil \/ ~nn_node_has_subscribers(node) THEN Result(node, -1)
  ELSE LET n == [node EXCEPT !.refcount = @ - 1, !.sockids = @ \ {s}]
       IN IF n.refcount > 0 THEN Result(n, 0)
          ELSE IF DOMAIN n.kids = {} THEN Result(Nil, 1)
          ELSE Result(nn_node_compact(n), 1)

\* Child c of a sparse node is gone, and with it the node if it has no use; its
\* list is emptied and destroyed.
PruneSparse(node, c) ==
  LET n == [node EXCEPT !.kids = [x \in DOMAIN node.kids \ {c} |-> node.kids[x]]]
  IN IF DOMAIN n.kids # {} \/ nn_node_has_subscribers(n) THEN Result(nn_node_compact(n), 1)
     ELSE IF n.sockids = Junk THEN Fault(node)
     ELSE Result(Nil, 1)

\* Mutant of PruneDense: the array is not trimmed on the right.
PruneDenseUntrimmed(node, c) ==
  LET live == {x \in DOMAIN node.kids : node.kids[x] # Nil}
      lo == IF c = Min(DOMAIN node.kids) THEN Min(live) ELSE Min(DOMAIN node.kids)
  IN Result([node EXCEPT !.nbr = @ - 1,
                         !.kids = [x \in lo .. Max(DOMAIN node.kids) |-> node.kids[x]]], 1)

\* Child c of a dense node that stays dense is gone: the array is trimmed at
\* the end c was at.
PruneDense(node, c) ==
  LET range == DOMAIN node.kids
      live == {x \in range : node.kids[x] # Nil}
      lo == IF c = Min(range) THEN Min(live) ELSE Min(range)
      hi == IF c = Max(range) /\ c # Min(range) THEN Max(live) ELSE Max(range)
  IN Result([node EXCEPT !.nbr = @ - 1, !.kids = [x \in lo .. hi |-> node.kids[x]]], 1)

\* A dense node becomes sparse; its subscribers are left behind, and the list
\* of the new node is not initialised: it is what the memory held.
ToSparse(node, memory) ==
  LET live == {x \in DOMAIN node.kids : node.kids[x] # Nil}
      n == [Node(node.prefix) EXCEPT !.sockids = memory,
                                     !.kids = [x \in live |-> node.kids[x]]]
  IN IF Cardinality(live) = SparseMax THEN Result(n, 1) ELSE Fault(node)

Prune(node, c, memory) ==
  IF ~node.dense THEN PruneSparse(node, c)
  ELSE IF node.nbr > SparseMax + 1 THEN PruneDense(node, c)
  ELSE ToSparse(node, memory)

RECURSIVE nn_node_unsubscribe(_, _, _, _)
nn_node_unsubscribe(node, data, s, memory) ==
  LET pos == nn_node_check_prefix(node, data)
      rest == Drop(data, pos)
      c == Head(rest)
      r == nn_node_unsubscribe(node.kids[c], Tail(rest), s, memory)
      n == WithKid(node, c, r.node)
  IN IF data = <<>> THEN RemoveHere(node, s)
     ELSE IF node = Nil THEN Fault(node)
     ELSE IF pos # Len(node.prefix) THEN Result(node, 0)
     ELSE IF rest = <<>> THEN RemoveHere(node, s)
     ELSE IF c \notin DOMAIN node.kids THEN Result(node, 0)
     ELSE IF ~r.ok THEN Fault(node)
     ELSE IF r.ret = 0 THEN Result(n, 0)
     ELSE IF r.node # Nil THEN Result(n, 1)
     ELSE Prune(n, c, memory)

(***************************************************************************)
(* Lookups.                                                                *)
(***************************************************************************)
\* The subscribers of every prefix of data.
RECURSIVE nn_trie_tree(_, _)
nn_trie_tree(node, data) ==
  LET rest == Drop(data, Len(node.prefix))
      here == IF nn_node_has_subscribers(node) THEN node.sockids ELSE {}
  IN IF node = Nil THEN {}
     ELSE IF nn_node_check_prefix(node, data) # Len(node.prefix) THEN {}
     ELSE here \cup (IF rest = <<>> THEN {}
                     ELSE nn_trie_tree(Next(node, Head(rest)), Tail(rest)))

RECURSIVE nn_trie_match(_, _)
nn_trie_match(node, data) ==
  LET rest == Drop(data, Len(node.prefix))
  IN IF node = Nil THEN FALSE
     ELSE IF nn_node_check_prefix(node, data) # Len(node.prefix) THEN FALSE
     ELSE IF nn_node_has_subscribers(node) THEN TRUE
     ELSE rest # <<>> /\ nn_trie_match(Next(node, Head(rest)), Tail(rest))

Children(node) == {node.kids[c] : c \in DOMAIN node.kids} \ {Nil}

RECURSIVE Nodes(_)
Nodes(node) == IF node = Nil THEN {} ELSE {node} \cup UNION {Nodes(k) : k \in Children(node)}

\* Every list of subscribers is walked and destroyed.
nn_node_term(node) ==
  IF \E n \in Nodes(node) : n.sockids = Junk THEN Fault(node) ELSE Result(Nil, 0)

\* Every string with its subscribers, as the trie stands for them.
RECURSIVE Contents(_, _)
Contents(node, path) ==
  LET str == path \o node.prefix IN
  IF node = Nil THEN {}
  ELSE (IF nn_node_has_subscribers(node)
        THEN {[str |-> str, refcount |-> node.refcount, sockids |-> node.sockids]} ELSE {})
       \cup UNION {Contents(node.kids[c], Append(str, c)) : c \in DOMAIN node.kids}
=============================================================================
