--------------------------- MODULE HandlerProofs ----------------------------
(***************************************************************************)
(* What the handlers of a broker do to its state and which messages they   *)
(* send, wherever they run: lemmas without a specification, on which the   *)
(* proofs about one broker, about a client and its broker and about trees  *)
(* of brokers rest.                                                        *)
(***************************************************************************)
EXTENDS BrokerHandlers, SequencesExt, FiniteSetTheorems, TLAPS

\* The fields that are not tables of clients or brokers.
SameScalars(b, c) ==
  /\ c.state = b.state /\ c.timeout = b.timeout /\ c.reg_loop = b.reg_loop
  /\ c.heartbeat_loop = b.heartbeat_loop /\ c.broker_id = b.broker_id
  /\ c.north = b.north

SameTables(b, c) ==
  /\ c.lcl_cli = b.lcl_cli /\ c.rev_lcl_cli = b.rev_lcl_cli
  /\ c.dist_cli = b.dist_cli /\ c.lcl_br = b.lcl_br

FiniteTables(b) == IsFiniteSet(DOMAIN b.rev_lcl_cli) /\ IsFiniteSet(DOMAIN b.dist_cli)

\* c is b after an operation that adds no client.
NoneAdded(b, c) ==
  /\ Shape(c) /\ SameScalars(b, c)
  /\ DOMAIN c.lcl_cli \subseteq DOMAIN b.lcl_cli
  /\ DOMAIN c.rev_lcl_cli \subseteq DOMAIN b.rev_lcl_cli
  /\ DOMAIN c.dist_cli \subseteq DOMAIN b.dist_cli

(***************************************************************************)
(* Sequences of messages.                                                  *)
(***************************************************************************)
\* A sequence, whatever it holds.
IsSeq(q) == q \in Seq(Range(q))

\* The messages of a registration that is under way.
UpTokens == {"ADDLCL", "ADDBR", "CHALLOK"}
DownTokens == {"CHALL", "REGOK"}

NoneOf(cmds, q) == \A i \in DOMAIN q : q[i].cmd \notin cmds
OneOf(cmds, q) == \A i, j \in DOMAIN q : q[i].cmd \in cmds /\ q[j].cmd \in cmds => i = j

\* At most one message of a registration is on its way, in one direction.
OneToken(u, d) ==
  /\ OneOf(UpTokens, u) /\ OneOf(DownTokens, d)
  /\ NoneOf(UpTokens, u) \/ NoneOf(DownTokens, d)

NoToken(u, d) == NoneOf(UpTokens, u) /\ NoneOf(DownTokens, d)

\* Whatever is in Seq(S) is a sequence.
LEMMA SeqIsSeq ==
  ASSUME NEW S, NEW q \in Seq(S)
  PROVE  IsSeq(q)
BY DEF IsSeq, Range

\* Sequences of no and of one element.
LEMMA ShortSeqs ==
  /\ IsSeq(<<>>) /\ \A cmds : NoneOf(cmds, <<>>) /\ OneOf(cmds, <<>>)
  /\ \A m : IsSeq(<<m>>) /\ \A cmds : /\ OneOf(cmds, <<m>>)
                                      /\ m.cmd \notin cmds => NoneOf(cmds, <<m>>)
<1>1. DOMAIN <<>> = {} /\ <<>> \in Seq({})
  OBVIOUS
<1>2. IsSeq(<<>>) /\ \A cmds : NoneOf(cmds, <<>>) /\ OneOf(cmds, <<>>)
  BY <1>1, SeqIsSeq DEF NoneOf, OneOf
<1>3. ASSUME NEW m
      PROVE  IsSeq(<<m>>) /\ \A cmds : /\ OneOf(cmds, <<m>>)
                                       /\ m.cmd \notin cmds => NoneOf(cmds, <<m>>)
  <2>1. DOMAIN <<m>> = {1} /\ <<m>>[1] = m /\ <<m>> \in Seq({m})
    OBVIOUS
  <2> QED
    BY <2>1, SeqIsSeq DEF NoneOf, OneOf
<1> QED
  BY <1>2, <1>3

\* Messages written after others.
LEMMA Concat ==
  ASSUME NEW p, NEW q, IsSeq(p), IsSeq(q)
  PROVE  /\ IsSeq(p \o q) /\ Len(p \o q) = Len(p) + Len(q)
         /\ \A i \in DOMAIN p : i \in DOMAIN (p \o q) /\ (p \o q)[i] = p[i]
         /\ \A i \in DOMAIN q : /\ Len(p) + i \in DOMAIN (p \o q)
                                /\ (p \o q)[Len(p) + i] = q[i]
         /\ \A i \in DOMAIN (p \o q) :
              \/ i \in DOMAIN p /\ (p \o q)[i] = p[i]
              \/ i - Len(p) \in DOMAIN q /\ (p \o q)[i] = q[i - Len(p)]
<1> DEFINE S == Range(p) \cup Range(q)
<1>1. p \in Seq(S) /\ q \in Seq(S)
  BY DEF IsSeq
<1> HIDE DEF S
<1>2. p \o q \in Seq(S) /\ Len(p \o q) = Len(p) + Len(q)
  BY <1>1
<1>3. \A i \in DOMAIN p : i \in DOMAIN (p \o q) /\ (p \o q)[i] = p[i]
  BY <1>1, <1>2
<1>4. \A i \in DOMAIN q : Len(p) + i \in DOMAIN (p \o q) /\ (p \o q)[Len(p) + i] = q[i]
  BY <1>1, <1>2
<1>5. \A i \in DOMAIN (p \o q) :
        \/ i \in DOMAIN p /\ (p \o q)[i] = p[i]
        \/ i - Len(p) \in DOMAIN q /\ (p \o q)[i] = q[i - Len(p)]
  BY <1>1, <1>2
<1>6. IsSeq(p \o q)
  BY <1>2, SeqIsSeq, Zenon
<1> QED
  BY <1>2, <1>3, <1>4, <1>5, <1>6

\* What is left after the first message.
LEMMA AfterHead ==
  ASSUME NEW q, IsSeq(q), q # <<>>
  PROVE  /\ IsSeq(Tail(q)) /\ 1 \in DOMAIN q /\ Head(q) = q[1]
         /\ \A i \in DOMAIN Tail(q) : i + 1 \in DOMAIN q /\ Tail(q)[i] = q[i + 1] /\ i + 1 # 1
         /\ \A i \in DOMAIN q : i = 1 \/ (i - 1 \in DOMAIN Tail(q) /\ Tail(q)[i - 1] = q[i])
<1> DEFINE S == Range(q)
<1>1. q \in Seq(S)
  BY DEF IsSeq
<1> HIDE DEF S
<1>2. Tail(q) \in Seq(S)
  BY <1>1
<1>3. 1 \in DOMAIN q /\ Head(q) = q[1]
  BY <1>1
<1>4. \A i \in DOMAIN Tail(q) : i + 1 \in DOMAIN q /\ Tail(q)[i] = q[i + 1] /\ i + 1 # 1
  BY <1>1, <1>2
<1>5. \A i \in DOMAIN q : i = 1 \/ (i - 1 \in DOMAIN Tail(q) /\ Tail(q)[i - 1] = q[i])
  BY <1>1, <1>2
<1>6. IsSeq(Tail(q))
  BY <1>2, SeqIsSeq, Zenon
<1> QED
  BY <1>3, <1>4, <1>5, <1>6

\* Prefixes of a sequence, which is what a socket that is closed may still
\* deliver.
LEMMA PrefixIsSeq ==
  ASSUME NEW q, IsSeq(q), NEW n \in 0 .. Len(q)
  PROVE  IsSeq(SubSeq(q, 1, n))
<1> DEFINE S == Range(q)
<1>1. q \in Seq(S)
  BY DEF IsSeq
<1> HIDE DEF S
<1>2. SubSeq(q, 1, n) \in Seq(S)
  BY <1>1
<1> QED
  BY <1>2, SeqIsSeq

\* Tokens in what is written.
LEMMA ConcatTokens ==
  ASSUME NEW cmds, NEW p, NEW q, IsSeq(p), IsSeq(q)
  PROVE  /\ NoneOf(cmds, p) /\ NoneOf(cmds, q) => NoneOf(cmds, p \o q)
         /\ NoneOf(cmds, p) /\ OneOf(cmds, q) => OneOf(cmds, p \o q)
         /\ OneOf(cmds, p) /\ NoneOf(cmds, q) => OneOf(cmds, p \o q)
<1> DEFINE r == p \o q
<1>1. \A i \in DOMAIN r : \/ i \in DOMAIN p /\ r[i] = p[i]
                          \/ i - Len(p) \in DOMAIN q /\ r[i] = q[i - Len(p)]
  BY Concat
<1>2. \A i \in DOMAIN r : i \in Int
  BY Concat DEF IsSeq
<1>3. Len(p) \in Int
  BY DEF IsSeq
<1> HIDE DEF r
<1>4. NoneOf(cmds, p) /\ NoneOf(cmds, q) => NoneOf(cmds, r)
  BY <1>1 DEF NoneOf
<1>5. NoneOf(cmds, p) /\ OneOf(cmds, q) => OneOf(cmds, r)
  <2> SUFFICES ASSUME NoneOf(cmds, p), OneOf(cmds, q), NEW i \in DOMAIN r, NEW j \in DOMAIN r,
                      r[i].cmd \in cmds, r[j].cmd \in cmds
               PROVE  i = j
    BY DEF OneOf
  <2>1. i - Len(p) \in DOMAIN q /\ r[i] = q[i - Len(p)]
    BY <1>1 DEF NoneOf
  <2>2. j - Len(p) \in DOMAIN q /\ r[j] = q[j - Len(p)]
    BY <1>1 DEF NoneOf
  <2>3. i - Len(p) = j - Len(p)
    BY <2>1, <2>2 DEF OneOf
  <2> QED
    BY <1>2, <1>3, <2>3
<1>6. OneOf(cmds, p) /\ NoneOf(cmds, q) => OneOf(cmds, r)
  BY <1>1 DEF NoneOf, OneOf
<1> QED
  BY <1>4, <1>5, <1>6 DEF r

\* Tokens in what is left.
LEMMA TailTokens ==
  ASSUME NEW cmds, NEW q, IsSeq(q), q # <<>>
  PROVE  /\ NoneOf(cmds, q) => NoneOf(cmds, Tail(q)) /\ Head(q).cmd \notin cmds
         /\ OneOf(cmds, q) => OneOf(cmds, Tail(q))
         /\ OneOf(cmds, q) /\ Head(q).cmd \in cmds => NoneOf(cmds, Tail(q))
<1> DEFINE r == Tail(q)
           h == Head(q)
<1>1. /\ 1 \in DOMAIN q /\ h = q[1]
      /\ \A i \in DOMAIN r : i + 1 \in DOMAIN q /\ r[i] = q[i + 1] /\ i + 1 # 1
  BY AfterHead
<1>2. \A i \in DOMAIN r : i \in Int
  BY AfterHead DEF IsSeq
<1> HIDE DEF r, h
<1>3. NoneOf(cmds, q) => NoneOf(cmds, r) /\ h.cmd \notin cmds
  BY <1>1 DEF NoneOf
<1>4. OneOf(cmds, q) => OneOf(cmds, r)
  <2> SUFFICES ASSUME OneOf(cmds, q), NEW i \in DOMAIN r, NEW j \in DOMAIN r,
                      r[i].cmd \in cmds, r[j].cmd \in cmds
               PROVE  i = j
    BY DEF OneOf
  <2>1. i + 1 = j + 1
    BY <1>1 DEF OneOf
  <2> QED
    BY <1>2, <2>1
<1>5. OneOf(cmds, q) /\ h.cmd \in cmds => NoneOf(cmds, r)
  BY <1>1 DEF OneOf, NoneOf
<1> QED
  BY <1>3, <1>4, <1>5 DEF r, h

(***************************************************************************)
(* Traversals of tables.                                                   *)
(***************************************************************************)
\* A traversal of a finite table meets every entry.
LEMMA TraversalMeetsAll ==
  ASSUME NEW S, IsFiniteSet(S), NEW f \in SetToSeqs(S)
  PROVE  /\ f \in Seq(S)
         /\ \A x : x \in S <=> \E i \in DOMAIN f : f[i] = x
<1> DEFINE n == Cardinality(S)
           D == 1 .. n
<1>1. n \in Nat
  BY FS_CardinalityType
<1>2. f \in [D -> S] /\ \A i, j \in D : i # j => f[i] # f[j]
  BY DEF SetToSeqs
<1>3. f \in Injection(D, S)
  BY <1>2 DEF Injection, IsInjective
<1>4. Cardinality(D) = n
  BY <1>1, FS_Interval
<1>5. f \in Surjection(D, S)
  BY <1>3, <1>4, FS_Injection
<1>6. \A x \in S : \E i \in D : f[i] = x
  BY <1>5 DEF Surjection
<1> QED
  BY <1>1, <1>2, <1>6

\* Finite tables stay finite when a name is added and when names are dropped.
LEMMA StaysFinite ==
  ASSUME NEW S, IsFiniteSet(S)
  PROVE  /\ \A x : IsFiniteSet(S \cup {x})
         /\ \A T : IsFiniteSet(S \ T)
<1>1. \A x : IsFiniteSet(S \cup {x})
  BY FS_AddElement
<1>2. ASSUME NEW T PROVE IsFiniteSet(S \ T)
  <2>1. S \ T \in SUBSET S
    OBVIOUS
  <2> QED
    BY <2>1, FS_Subset
<1> QED
  BY <1>1, <1>2

\* Routing a message changes nothing unless the destination is invalid.
LEMMA RouteState ==
  ASSUME NEW b, NEW src, NEW dst, NEW invalid
  PROVE  \/ Route(b, src, dst, invalid).b = b
         \/ b.state = ROOT /\ Route(b, src, dst, invalid) = invalid
BY DEF Route, Result

(***************************************************************************)
(* Table operations.                                                       *)
(***************************************************************************)
\* Operations that add no client.
LEMMA AddNone ==
  ASSUME NEW b, Shape(b)
  PROVE  /\ NoneAdded(b, b)
         /\ \A k : NoneAdded(b, TouchClient(b, k))
         /\ \A s : NoneAdded(b, TouchBroker(b, s))
         /\ \A S : NoneAdded(b, remove_subscriptions(b, S))
         /\ \A s, topic : NoneAdded(b, remove_subscription(b, s, topic))
         /\ \A s, topic : NoneAdded(b, insert_subscription(b, s, topic))
         /\ \A s, topic : NoneAdded(b, nn_trie_subscribe(b, s, topic))
         /\ \A K : NoneAdded(b, UnlinkLocal(b, K))
         /\ \A N : NoneAdded(b, RemoveDist(b, N))
         /\ \A s : NoneAdded(b, InsertBroker(b, s))
<1> USE DEF NoneAdded, Shape, BrokerFields, SameScalars
<1>1. NoneAdded(b, b)
  OBVIOUS
<1>2. ASSUME NEW k PROVE NoneAdded(b, TouchClient(b, k))
  BY DEF TouchClient
<1>3. ASSUME NEW s PROVE NoneAdded(b, TouchBroker(b, s))
  BY DEF TouchBroker
<1>4. ASSUME NEW S PROVE NoneAdded(b, remove_subscriptions(b, S))
  BY DEF remove_subscriptions
<1>5. ASSUME NEW s, NEW topic PROVE NoneAdded(b, remove_subscription(b, s, topic))
  BY DEF remove_subscription
<1>6. ASSUME NEW s, NEW topic PROVE NoneAdded(b, insert_subscription(b, s, topic))
  BY DEF insert_subscription
<1>7. ASSUME NEW s, NEW topic PROVE NoneAdded(b, nn_trie_subscribe(b, s, topic))
  <2>1. CASE FreshInTrie(b, s, topic)
    BY <2>1 DEF nn_trie_subscribe
  <2>2. CASE ~FreshInTrie(b, s, topic)
    BY <2>2 DEF nn_trie_subscribe
  <2> QED
    BY <2>1, <2>2
<1>8. ASSUME NEW K PROVE NoneAdded(b, UnlinkLocal(b, K))
  BY DEF UnlinkLocal, Without, Restrict
<1>9. ASSUME NEW N PROVE NoneAdded(b, RemoveDist(b, N))
  BY DEF RemoveDist, Without, Restrict
<1>10. ASSUME NEW s PROVE NoneAdded(b, InsertBroker(b, s))
  BY DEF InsertBroker
<1> QED
  BY <1>1, <1>2, <1>3, <1>4, <1>5, <1>6, <1>7, <1>8, <1>9, <1>10

\* Such operations compose.
LEMMA AddNoneTrans ==
  ASSUME NEW b, NEW c, NEW d, NoneAdded(b, c), NoneAdded(c, d)
  PROVE  NoneAdded(b, d)
BY DEF NoneAdded, SameScalars

\* A registered client is found under its socket and its name.
LEMMA InsertLocalAdds ==
  ASSUME NEW b, Shape(b), NEW s, NEW t, NEW name
  PROVE  LET c == InsertLocal(b, s, t, name)
         IN /\ Shape(c) /\ SameScalars(b, c) /\ c.dist_cli = b.dist_cli
            /\ DOMAIN c.lcl_cli = DOMAIN b.lcl_cli \cup {<<s, t>>}
            /\ DOMAIN c.rev_lcl_cli = DOMAIN b.rev_lcl_cli \cup {PrefixName(t, name)}
BY DEF InsertLocal, Shape, BrokerFields, SameScalars, Put

\* So is a distant one, under its name.
LEMMA InsertDistAdds ==
  ASSUME NEW b, Shape(b), NEW name, NEW s
  PROVE  LET c == InsertDist(b, name, s)
         IN /\ Shape(c) /\ SameScalars(b, c)
            /\ c.lcl_cli = b.lcl_cli /\ c.rev_lcl_cli = b.rev_lcl_cli
            /\ DOMAIN c.dist_cli = DOMAIN b.dist_cli \cup {name}
BY DEF InsertDist, Shape, BrokerFields, SameScalars, Put

\* Tables to which nothing is added stay finite.
LEMMA NoneAddedFinite ==
  ASSUME NEW b, NEW c, FiniteTables(b), NoneAdded(b, c)
  PROVE  FiniteTables(c)
<1>1. DOMAIN c.rev_lcl_cli \in SUBSET DOMAIN b.rev_lcl_cli
  BY DEF NoneAdded
<1>2. DOMAIN c.dist_cli \in SUBSET DOMAIN b.dist_cli
  BY DEF NoneAdded
<1> QED
  BY <1>1, <1>2, FS_Subset DEF FiniteTables

(***************************************************************************)
(* The handlers of the ROUTER socket and the timers of the tables.         *)
(***************************************************************************)
\* Messages that take no part in a registration.
Plain(r) ==
  /\ IsSeq(r.up) /\ NoneOf(UpTokens, r.up)
  /\ \A o \in r.rout : o.m.cmd \notin DownTokens

\* A handler that adds no client.
Calm(b, r) == NoneAdded(b, r.b) /\ Plain(r)

\* Announcements and retractions.
LEMMA PlainUp ==
  /\ \A b, name : IsSeq(add_cli_up(b, name)) /\ NoneOf(UpTokens, add_cli_up(b, name))
  /\ \A b, src, dst : /\ IsSeq(forward_up(b, src, dst))
                      /\ NoneOf(UpTokens, forward_up(b, src, dst))
  /\ \A b, order : IsSeq(order) => /\ IsSeq(del_cli_up(b, order))
                                   /\ NoneOf(UpTokens, del_cli_up(b, order))
<1>1. ASSUME NEW b, NEW name
      PROVE  IsSeq(add_cli_up(b, name)) /\ NoneOf(UpTokens, add_cli_up(b, name))
  <2>1. Adddcl(name).cmd \notin UpTokens
    BY DEF Adddcl, UpTokens
  <2>2. add_cli_up(b, name) \in {<<Adddcl(name)>>, <<>>}
    BY DEF add_cli_up
  <2> QED
    BY <2>1, <2>2, ShortSeqs
<1>2. ASSUME NEW b, NEW src, NEW dst
      PROVE  IsSeq(forward_up(b, src, dst)) /\ NoneOf(UpTokens, forward_up(b, src, dst))
  <2>1. Forward(src, dst).cmd \notin UpTokens
    BY DEF Forward, UpTokens
  <2>2. forward_up(b, src, dst) \in {<<Forward(src, dst)>>, <<>>}
    BY DEF forward_up
  <2> QED
    BY <2>1, <2>2, ShortSeqs
<1>3. ASSUME NEW b, NEW order, IsSeq(order)
      PROVE  IsSeq(del_cli_up(b, order)) /\ NoneOf(UpTokens, del_cli_up(b, order))
  <2> DEFINE q == [i \in DOMAIN order |-> Unregdcli(order[i])]
  <2>1. q \in Seq({Unregdcli(x) : x \in Range(order)})
    BY <1>3 DEF IsSeq, Range
  <2>2. NoneOf(UpTokens, q)
    BY DEF NoneOf, Unregdcli, UpTokens
  <2>3. del_cli_up(b, order) \in {q, <<>>}
    BY DEF del_cli_up
  <2>4. IsSeq(q)
    BY <2>1, SeqIsSeq, Zenon
  <2> HIDE DEF q
  <2> QED
    BY <2>2, <2>3, <2>4, ShortSeqs
<1> QED
  BY <1>1, <1>2, <1>3

\* Whatever it does with a message, Route sends no message of a registration.
LEMMA RoutePlain ==
  ASSUME NEW b, NEW src, NEW dst, NEW invalid, Plain(invalid)
  PROVE  Plain(Route(b, src, dst, invalid))
<1> DEFINE r == Route(b, src, dst, invalid)
<1>1. CASE HasRevLocal(b, dst)
  <2>1. r = Result(b, <<>>, To(b.rev_lcl_cli[dst][1], Data(src, dst)))
    BY <1>1 DEF Route
  <2>2. r.up = <<>> /\ \A o \in r.rout : o.m.cmd = "DATA"
    BY <2>1 DEF Result, To, Data
  <2> QED
    BY <2>2, ShortSeqs DEF Plain, DownTokens
<1>2. CASE ~HasRevLocal(b, dst) /\ HasDist(b, dst)
  <2>1. r = Result(b, <<>>, To(b.dist_cli[dst], Forward(src, dst)))
    BY <1>2 DEF Route
  <2>2. r.up = <<>> /\ \A o \in r.rout : o.m.cmd = "FORWARD"
    BY <2>1 DEF Result, To, Forward
  <2> QED
    BY <2>2, ShortSeqs DEF Plain, DownTokens
<1>3. CASE ~HasRevLocal(b, dst) /\ ~HasDist(b, dst)
  <2>1. r = invalid \/ r = Result(b, forward_up(b, src, dst), {})
    BY <1>3 DEF Route
  <2>2. Result(b, forward_up(b, src, dst), {}).up = forward_up(b, src, dst)
        /\ Result(b, forward_up(b, src, dst), {}).rout = {}
    BY DEF Result
  <2> QED
    BY <2>1, <2>2, PlainUp DEF Plain
<1> QED
  BY <1>1, <1>2, <1>3

\* A message with no effect but an answer to one socket.
LEMMA AnswerPlain ==
  /\ \A b : Plain(Nothing(b)) /\ Nothing(b).b = b
  /\ \A b, s, m : m.cmd \notin DownTokens => /\ Plain(Result(b, <<>>, To(s, m)))
                                             /\ Result(b, <<>>, To(s, m)).b = b
BY ShortSeqs DEF Nothing, Result, To, Plain

\* What a client sends once it is registered adds no client.
LEMMA ClientsCalm ==
  ASSUME NEW b, Shape(b), NEW s, NEW t
  PROVE  /\ Calm(b, s_cb_unreg_cli(b, s, t))
         /\ Calm(b, s_cb_ping(b, s, t))
         /\ \A dest : Calm(b, s_cb_send(b, s, t, dest))
         /\ \A topic, scope : /\ Calm(b, s_cb_sub(b, s, t, topic, scope))
                              /\ Calm(b, s_cb_unsub(b, s, t, topic, scope))
         /\ \A topic, unscoped : Calm(b, s_cb_pub(b, s, t, topic, unscoped))
<1> DEFINE k == <<s, t>>
           c == TouchClient(b, k)
<1>1. NoneAdded(b, c) /\ Shape(c) /\ NoneAdded(b, b)
  BY AddNone DEF NoneAdded
<1>2. Plain(Nothing(b)) /\ Nothing(b).b = b
  BY AnswerPlain
<1>n. Calm(b, Nothing(b))
  BY <1>1, <1>2 DEF Calm
<1> HIDE DEF c
<1>3. Calm(b, s_cb_unreg_cli(b, s, t))
  <2> DEFINE d == remove_subscriptions(b, {s})
             u == del_cli_up(b, <<b.lcl_cli[k].name>>)
             r == Result(UnlinkLocal(d, {k}), u, {})
  <2>1. NoneAdded(b, d) /\ Shape(d)
    BY AddNone DEF NoneAdded
  <2> HIDE DEF d
  <2>2. NoneAdded(b, UnlinkLocal(d, {k}))
    BY <2>1, AddNone, AddNoneTrans
  <2>3. IsSeq(u) /\ NoneOf(UpTokens, u)
    BY ShortSeqs, PlainUp
  <2> HIDE DEF u
  <2>4. Calm(b, r)
    BY <2>2, <2>3 DEF Calm, Plain, Result
  <2>5. s_cb_unreg_cli(b, s, t) \in {Nothing(b), r}
    BY DEF s_cb_unreg_cli, d, u
  <2> QED
    BY <1>n, <2>4, <2>5
<1>4. Calm(b, s_cb_ping(b, s, t))
  <2>1. Simple("PONG").cmd \notin DownTokens
    BY DEF Simple, DownTokens
  <2>2. NoneAdded(b, TouchBroker(b, s))
    BY AddNone
  <2>3. \A d : NoneAdded(b, d) => Calm(b, Result(d, <<>>, To(s, Simple("PONG"))))
    BY <2>1, AnswerPlain DEF Calm
  <2>4. s_cb_ping(b, s, t) \in {Nothing(b), Result(c, <<>>, To(s, Simple("PONG"))),
                                Result(TouchBroker(b, s), <<>>, To(s, Simple("PONG")))}
    BY DEF s_cb_ping, c
  <2> QED
    BY <1>1, <1>n, <2>2, <2>3, <2>4
<1>5. ASSUME NEW dest PROVE Calm(b, s_cb_send(b, s, t, dest))
  <2> DEFINE src == b.lcl_cli[k].name
             dst == Resolve(t, dest)
             m == IF IsPublic(src) = IsPublic(dst) THEN Nodst(Tail(dst), Tail(src))
                                                   ELSE Nodst(dst, src)
             invalid == Result(c, <<>>, To(s, m))
             r == Route(c, src, dst, invalid)
  <2>1. m.cmd \notin DownTokens
    BY DEF Nodst, DownTokens
  <2>2. s_cb_send(b, s, t, dest) \in {Nothing(b), r}
    BY DEF s_cb_send, c
  <2> HIDE DEF m
  <2>3. Plain(invalid) /\ invalid.b = c
    BY <2>1, AnswerPlain
  <2> HIDE DEF invalid, src, dst
  <2>4. Plain(r) /\ r.b = c
    BY <2>3, RoutePlain, RouteState
  <2> HIDE DEF r
  <2> QED
    BY <1>1, <1>n, <2>2, <2>4 DEF Calm
<1>6. ASSUME NEW topic, NEW scope PROVE Calm(b, s_cb_sub(b, s, t, topic, scope))
  <2> DEFINE x == SubTopic(t, topic, scope, Scope)
             d == insert_subscription(c, s, x)
             e == nn_trie_subscribe(d, s, x)
             r == s_cb_sub(b, s, t, topic, scope)
  <2>1. NoneAdded(c, d) /\ Shape(d)
    BY <1>1, AddNone DEF NoneAdded
  <2>2. NoneAdded(d, e)
    BY <2>1, AddNone
  <2>3. NoneAdded(b, e)
    BY <1>1, <2>1, <2>2, AddNoneTrans
  <2>4. r = Nothing(b) \/ (r.b \in {c, e} /\ r.up = <<>> /\
          r.rout \in {To(s, Simple("DATA")), To(s, Subok(topic, scope))})
    BY DEF s_cb_sub, c, Result, WithPs
  <2>5. \A o \in To(s, Simple("DATA")) \cup To(s, Subok(topic, scope)) :
          o.m.cmd \notin DownTokens
    BY DEF To, Simple, Subok, DownTokens
  <2> HIDE DEF e, r
  <2>9. Calm(b, r)
    BY <1>1, <1>n, <2>3, <2>4, <2>5, ShortSeqs DEF Calm, Plain
  <2> QED
    BY <2>9 DEF r
<1>7. ASSUME NEW topic, NEW scope PROVE Calm(b, s_cb_unsub(b, s, t, topic, scope))
  <2> DEFINE x == SubTopic(t, topic, scope, Scope)
             e == remove_subscription(c, s, x)
             r == s_cb_unsub(b, s, t, topic, scope)
  <2>1. NoneAdded(b, e)
    BY <1>1, AddNone, AddNoneTrans
  <2>2. r = Nothing(b) \/ (r.b \in {c, e} /\ r.up = <<>> /\
          r.rout \in {To(s, Simple("DATA")), {}})
    BY DEF s_cb_unsub, c, Result, Nothing, WithPs
  <2>3. \A o \in To(s, Simple("DATA")) : o.m.cmd \notin DownTokens
    BY DEF To, Simple, DownTokens
  <2> HIDE DEF e, r
  <2>9. Calm(b, r)
    BY <1>1, <1>n, <2>1, <2>2, <2>3, ShortSeqs DEF Calm, Plain
  <2> QED
    BY <2>9 DEF r
<1>8. ASSUME NEW topic, NEW unscoped PROVE Calm(b, s_cb_pub(b, s, t, topic, unscoped))
  <2> DEFINE r == s_cb_pub(b, s, t, topic, unscoped)
  <2>1. r = Nothing(b) \/ (r.b = c /\ r.up = <<>> /\
          \E pt, name : r.rout = Deliver(b, pt, name, topic))
    BY DEF s_cb_pub, c, Result, WithPs
  <2>2. \A pt, name : \A o \in Deliver(b, pt, name, topic) : o.m.cmd \notin DownTokens
    BY DEF Deliver, Pub, DownTokens
  <2> HIDE DEF r
  <2>9. Calm(b, r)
    BY <1>1, <1>n, <2>1, <2>2, ShortSeqs DEF Calm, Plain
  <2> QED
    BY <2>9 DEF r
<1> QED
  BY <1>3, <1>4, <1>5, <1>6, <1>7, <1>8

\* What a lower broker sends, and the timers, add no client, but for ADDDCL.
LEMMA BrokersCalm ==
  ASSUME NEW b, Shape(b)
  PROVE  /\ \A s, name : Calm(b, s_cb_unreg_dist_cli(b, s, BrokerCookie, name))
         /\ \A s, src, dst : Calm(b, s_cb_forward_rsock(b, s, BrokerCookie, src, dst))
         /\ \A order : IsSeq(order) => /\ Calm(b, s_check_cli_timeout(b, order))
                                       /\ Calm(b, s_check_br_timeout(b, order))
<1>n. Calm(b, Nothing(b))
  BY AddNone, AnswerPlain DEF Calm
<1>1. ASSUME NEW s, NEW name PROVE Calm(b, s_cb_unreg_dist_cli(b, s, BrokerCookie, name))
  <2> DEFINE u == del_cli_up(b, <<name>>)
             r == Result(RemoveDist(b, {name}), u, {})
  <2>1. IsSeq(u) /\ NoneOf(UpTokens, u)
    BY ShortSeqs, PlainUp
  <2>2. NoneAdded(b, RemoveDist(b, {name}))
    BY AddNone
  <2>3. s_cb_unreg_dist_cli(b, s, BrokerCookie, name) \in {Nothing(b), r}
    BY DEF s_cb_unreg_dist_cli
  <2> HIDE DEF u
  <2>4. Calm(b, r)
    BY <2>1, <2>2 DEF Calm, Plain, Result
  <2> QED
    BY <1>n, <2>3, <2>4
<1>2. ASSUME NEW s, NEW src, NEW dst
      PROVE  Calm(b, s_cb_forward_rsock(b, s, BrokerCookie, src, dst))
  <2> DEFINE c == TouchBroker(b, s)
             invalid == Result(c, <<>>, To(s, Nodst(dst, src)))
             r == Route(c, src, dst, invalid)
  <2>1. Nodst(dst, src).cmd \notin DownTokens
    BY DEF Nodst, DownTokens
  <2>2. s_cb_forward_rsock(b, s, BrokerCookie, src, dst) \in {Nothing(b), r}
    BY DEF s_cb_forward_rsock
  <2>3. NoneAdded(b, c)
    BY AddNone
  <2> HIDE DEF c
  <2>4. Plain(invalid) /\ invalid.b = c
    BY <2>1, AnswerPlain
  <2> HIDE DEF invalid
  <2>5. Plain(r) /\ r.b = c
    BY <2>4, RoutePlain, RouteState
  <2> HIDE DEF r
  <2> QED
    BY <1>n, <2>2, <2>3, <2>5 DEF Calm
<1>3. ASSUME NEW order, IsSeq(order) PROVE Calm(b, s_check_cli_timeout(b, order))
  <2> DEFINE K == SilentClients(b)
             d == remove_subscriptions(b, {k[1] : k \in K})
             e == UnlinkLocal(d, K)
             older == [k \in DOMAIN e.lcl_cli |-> [e.lcl_cli[k] EXCEPT !.timeout = @ + 1]]
             f == [e EXCEPT !.lcl_cli = older]
             u == del_cli_up(b, order)
  <2>1. s_check_cli_timeout(b, order) = Result(f, u, {})
    BY DEF s_check_cli_timeout
  <2>2. NoneAdded(b, d) /\ Shape(d)
    BY AddNone DEF NoneAdded
  <2>3. NoneAdded(b, e) /\ Shape(e)
    BY <2>2, AddNone, AddNoneTrans DEF NoneAdded
  <2> HIDE DEF d, e
  <2>4. NoneAdded(e, f)
    BY <2>3 DEF NoneAdded, SameScalars, Shape, BrokerFields
  <2>5. IsSeq(u) /\ NoneOf(UpTokens, u)
    BY <1>3, PlainUp
  <2> HIDE DEF f, u
  <2>6. NoneAdded(b, f)
    BY <2>3, <2>4, AddNoneTrans
  <2> QED
    BY <2>1, <2>5, <2>6 DEF Calm, Plain, Result
<1>4. ASSUME NEW order, IsSeq(order) PROVE Calm(b, s_check_br_timeout(b, order))
  <2> DEFINE S == SilentBrokers(b)
             e == RemoveDist(b, Behind(b, S))
             f == [e EXCEPT !.lcl_br = [s \in DOMAIN e.lcl_br \ S |-> e.lcl_br[s] + 1]]
             u == del_cli_up(b, order)
  <2>1. s_check_br_timeout(b, order) = Result(f, u, {})
    BY DEF s_check_br_timeout
  <2>2. NoneAdded(b, e) /\ Shape(e)
    BY AddNone DEF NoneAdded
  <2> HIDE DEF e
  <2>3. NoneAdded(e, f)
    BY <2>2 DEF NoneAdded, SameScalars, Shape, BrokerFields
  <2>4. IsSeq(u) /\ NoneOf(UpTokens, u)
    BY <1>4, PlainUp
  <2> HIDE DEF f, u
  <2>5. NoneAdded(b, f)
    BY <2>2, <2>3, AddNoneTrans
  <2> QED
    BY <2>1, <2>4, <2>5 DEF Calm, Plain, Result
<1> QED
  BY <1>1, <1>2, <1>3, <1>4

\* A handler that may add a client and answer the registration of s, but leaves
\* the broker's own registration alone.
Tame(b, r, s) ==
  /\ Shape(r.b) /\ SameScalars(b, r.b) /\ (FiniteTables(b) => FiniteTables(r.b))
  /\ IsSeq(r.up) /\ NoneOf(UpTokens, r.up)
  /\ \A o \in r.rout : o.m.cmd \in DownTokens => o.to = s

\* A handler that adds no client and answers no registration.
LEMMA CalmTame ==
  ASSUME NEW b, NEW r, Calm(b, r), NEW s
  PROVE  Tame(b, r, s)
BY NoneAddedFinite DEF Calm, Plain, Tame, NoneAdded

\* The handlers that answer a registration, of a client or of a lower broker, or
\* add a distant client.
LEMMA RegistrationsTame ==
  ASSUME NEW b, Shape(b), NEW s
  PROVE  /\ \A t, name : Tame(b, s_cb_challok_client(b, s, t, name), s)
         /\ \A known : Tame(b, s_cb_addbr(b, s, known), s)
         /\ Tame(b, s_cb_challok_broker(b, s), s)
         /\ \A name : Tame(b, s_cb_adddcl(b, s, BrokerCookie, name), s)
<1>1. ASSUME NEW c, NEW m, NoneAdded(b, c) PROVE Tame(b, Result(c, <<>>, To(s, m)), s)
  BY <1>1, NoneAddedFinite, ShortSeqs DEF Tame, NoneAdded, Result, To
<1>2. Tame(b, Nothing(b), s)
  BY AddNone, AnswerPlain, CalmTame DEF Calm
<1>3. NoneAdded(b, b)
  BY AddNone
<1>4. ASSUME NEW t, NEW name PROVE Tame(b, s_cb_challok_client(b, s, t, name), s)
  <2> DEFINE c == InsertLocal(b, s, t, name)
             u == add_cli_up(b, PrefixName(t, name))
             r == Result(c, u, To(s, Simple("REGOK")))
  <2>1. s_cb_challok_client(b, s, t, name) \in
          {Nothing(b), Result(b, <<>>, To(s, Regfail("local"))), r}
    BY DEF s_cb_challok_client
  <2>2. Shape(c) /\ SameScalars(b, c) /\ (FiniteTables(b) => FiniteTables(c))
    <3>1. /\ Shape(c) /\ SameScalars(b, c) /\ c.dist_cli = b.dist_cli
          /\ DOMAIN c.rev_lcl_cli = DOMAIN b.rev_lcl_cli \cup {PrefixName(t, name)}
      BY InsertLocalAdds
    <3> HIDE DEF c
    <3> QED
      BY <3>1, StaysFinite DEF FiniteTables
  <2>3. IsSeq(u) /\ NoneOf(UpTokens, u)
    BY PlainUp
  <2> HIDE DEF c, u
  <2>4. Tame(b, r, s)
    BY <2>2, <2>3 DEF Tame, Result, To
  <2> QED
    BY <1>1, <1>2, <1>3, <2>1, <2>4
<1>5. ASSUME NEW known PROVE Tame(b, s_cb_addbr(b, s, known), s)
  <2>1. s_cb_addbr(b, s, known) \in {Nothing(b), Result(b, <<>>, To(s, Chall(s)))}
    BY DEF s_cb_addbr
  <2> QED
    BY <1>1, <1>2, <1>3, <2>1
<1>6. Tame(b, s_cb_challok_broker(b, s), s)
  <2>1. s_cb_challok_broker(b, s) \in
          {Nothing(b), Result(InsertBroker(b, s), <<>>, To(s, Simple("REGOK")))}
    BY DEF s_cb_challok_broker
  <2> QED
    BY <1>1, <1>2, <2>1, AddNone
<1>7. ASSUME NEW name PROVE Tame(b, s_cb_adddcl(b, s, BrokerCookie, name), s)
  <2> DEFINE c == InsertDist(b, name, s)
             u == add_cli_up(b, name)
             r == Result(c, u, {})
  <2>1. s_cb_adddcl(b, s, BrokerCookie, name) \in
          {Nothing(b), Result(b, <<>>, To(s, Regfail(name))), r}
    BY DEF s_cb_adddcl
  <2>2. Shape(c) /\ SameScalars(b, c) /\ (FiniteTables(b) => FiniteTables(c))
    <3>1. /\ Shape(c) /\ SameScalars(b, c) /\ c.rev_lcl_cli = b.rev_lcl_cli
          /\ DOMAIN c.dist_cli = DOMAIN b.dist_cli \cup {name}
      BY InsertDistAdds
    <3> HIDE DEF c
    <3> QED
      BY <3>1, StaysFinite DEF FiniteTables
  <2>3. IsSeq(u) /\ NoneOf(UpTokens, u)
    BY PlainUp
  <2> HIDE DEF c, u
  <2>4. Tame(b, r, s)
    BY <2>2, <2>3 DEF Tame, Result
  <2> QED
    BY <1>1, <1>2, <1>3, <2>1, <2>4
<1> QED
  BY <1>4, <1>5, <1>6, <1>7

(***************************************************************************)
(* Subscriptions: the table and the trie, which are kept in step by hand.  *)
(***************************************************************************)
SameSubs(b, c) == c.subscribe = b.subscribe /\ c.topics_trie = b.topics_trie

\* Socket r is subscribed to topic x in the trie.
On(b, r, x) == x \in DOMAIN b.topics_trie /\ r \in b.topics_trie[x].sockids

\* A node of the trie has as many references as sockets, and at least one.
NodeCounts(node) ==
  /\ IsFiniteSet(node.sockids)
  /\ node.refcount = Cardinality(node.sockids)
  /\ node.refcount > 0

\* What is in the table is in the trie, and the trie's counts are right.
TrieCounts(b) ==
  /\ \A s \in DOMAIN b.subscribe : \A x \in b.subscribe[s] : On(b, s, x)
  /\ \A x \in DOMAIN b.topics_trie : NodeCounts(b.topics_trie[x])

\* nn_trie_unsubscribe of sockets the nodes have: the counts stay right, and
\* exactly the sockets that do not leave keep their place.
LEMMA UnsubscribeCounts ==
  ASSUME NEW trie, NEW gone,
         \A x \in DOMAIN trie : NodeCounts(trie[x]),
         \A s, x : <<s, x>> \in gone => x \in DOMAIN trie /\ s \in trie[x].sockids
  PROVE  LET new == nn_trie_unsubscribe(trie, gone)
         IN /\ \A x \in DOMAIN new : NodeCounts(new[x])
            /\ \A x \in DOMAIN trie : \A s \in trie[x].sockids :
                 <<s, x>> \notin gone => x \in DOMAIN new /\ s \in new[x].sockids
            /\ \A x \in DOMAIN new : x \in DOMAIN trie /\ new[x].sockids \subseteq trie[x].sockids
<1> DEFINE Leaving(x) == {s \in Sockids : <<s, x>> \in gone}
           Left(x) == trie[x].refcount - Cardinality(Leaving(x))
           new == nn_trie_unsubscribe(trie, gone)
<1>1. /\ DOMAIN new = {x \in DOMAIN trie : Left(x) > 0}
      /\ \A x \in DOMAIN new : new[x] = [refcount |-> Left(x),
                                        sockids |-> trie[x].sockids \ Leaving(x)]
  BY DEF nn_trie_unsubscribe
<1>2. ASSUME NEW x \in DOMAIN trie
      PROVE  /\ IsFiniteSet(trie[x].sockids \ Leaving(x))
             /\ Left(x) = Cardinality(trie[x].sockids \ Leaving(x))
             /\ Left(x) \in Nat
             /\ Left(x) > 0 <=> trie[x].sockids \ Leaving(x) # {}
  <2> DEFINE S == trie[x].sockids
             T == Leaving(x)
  <2>1. IsFiniteSet(S) /\ trie[x].refcount = Cardinality(S)
    BY DEF NodeCounts
  <2>2. T \in SUBSET S
    OBVIOUS
  <2>3. IsFiniteSet(T) /\ IsFiniteSet(S \ T)
    BY <2>1, <2>2, FS_Subset
  <2>4. Cardinality(S \ T) = Cardinality(S) - Cardinality(S \cap T)
    BY <2>1, <2>3, FS_Difference
  <2>5. S \cap T = T
    BY <2>2
  <2>6. Cardinality(S \ T) \in Nat /\ (Cardinality(S \ T) = 0 <=> S \ T = {})
    BY <2>3, FS_CardinalityType, FS_EmptySet
  <2>7. Left(x) = Cardinality(S \ T)
    BY <2>1, <2>4, <2>5
  <2> HIDE DEF S, T, Left
  <2>8. Left(x) > 0 <=> S \ T # {}
    BY <2>6, <2>7
  <2> QED
    BY <2>3, <2>6, <2>7, <2>8 DEF S, T
<1> HIDE DEF new, Left
<1>3. ASSUME NEW x \in DOMAIN new PROVE NodeCounts(new[x])
  <2>1. x \in DOMAIN trie /\ Left(x) > 0
    BY <1>1
  <2>2. new[x].refcount = Left(x) /\ new[x].sockids = trie[x].sockids \ Leaving(x)
    BY <1>1
  <2> HIDE DEF Leaving
  <2> QED
    BY <1>2, <2>1, <2>2 DEF NodeCounts
<1>4. ASSUME NEW x \in DOMAIN trie, NEW s \in trie[x].sockids, <<s, x>> \notin gone
      PROVE  x \in DOMAIN new /\ s \in new[x].sockids
  <2>1. s \in trie[x].sockids \ Leaving(x)
    BY <1>4
  <2>2. x \in DOMAIN new
    BY <1>1, <1>2, <2>1
  <2> QED
    BY <1>1, <2>1, <2>2
<1>5. ASSUME NEW x \in DOMAIN new
      PROVE  x \in DOMAIN trie /\ new[x].sockids \subseteq trie[x].sockids
  <2>1. x \in DOMAIN trie /\ new[x].sockids = trie[x].sockids \ Leaving(x)
    BY <1>1
  <2> HIDE DEF Leaving
  <2> QED
    BY <2>1
<1> QED
  BY <1>3, <1>4, <1>5 DEF new

\* remove_subscriptions takes every topic of the sockets out of the trie, and
\* leaves the other sockets where they were.
LEMMA RemoveAllCounts ==
  ASSUME NEW b, Shape(b), TrieCounts(b), NEW S
  PROVE  LET c == remove_subscriptions(b, S)
         IN /\ Shape(c) /\ TrieCounts(c)
            /\ \A r, x : On(c, r, x) => On(b, r, x)
            /\ \A r, x : On(b, r, x) /\ r \notin S => On(c, r, x)
<1> DEFINE gone == {p \in S \X DOMAIN b.topics_trie : p[2] \in Topics(b, p[1])}
           c == remove_subscriptions(b, S)
           new == nn_trie_unsubscribe(b.topics_trie, gone)
<1>1. Shape(c) /\ c.topics_trie = new /\ c.subscribe = Without(b.subscribe, S)
  BY DEF remove_subscriptions, Shape, BrokerFields
<1>2. \A s, x : <<s, x>> \in gone =>
        s \in S /\ x \in DOMAIN b.topics_trie /\ s \in b.topics_trie[x].sockids
  BY DEF Topics, TrieCounts, On
<1>3. \A x \in DOMAIN b.topics_trie : NodeCounts(b.topics_trie[x])
  BY DEF TrieCounts
<1> HIDE DEF gone
<1>4. /\ \A x \in DOMAIN new : NodeCounts(new[x])
      /\ \A x \in DOMAIN b.topics_trie : \A s \in b.topics_trie[x].sockids :
           <<s, x>> \notin gone => x \in DOMAIN new /\ s \in new[x].sockids
      /\ \A x \in DOMAIN new : /\ x \in DOMAIN b.topics_trie
                               /\ new[x].sockids \subseteq b.topics_trie[x].sockids
  BY <1>2, <1>3, UnsubscribeCounts
<1>5. /\ DOMAIN c.subscribe = DOMAIN b.subscribe \ S
      /\ \A s \in DOMAIN c.subscribe : c.subscribe[s] = b.subscribe[s]
  BY <1>1 DEF Without, Restrict
<1> HIDE DEF c, new
<1>6. \A r, x : On(b, r, x) /\ r \notin S => On(c, r, x)
  BY <1>1, <1>2, <1>4 DEF On
<1>7. \A r, x : On(c, r, x) => On(b, r, x)
  BY <1>1, <1>4 DEF On
<1>8. TrieCounts(c)
  BY <1>1, <1>4, <1>5, <1>6 DEF TrieCounts
<1> QED
  BY <1>1, <1>6, <1>7, <1>8 DEF c

\* remove_subscription takes one topic of the socket out of the trie, and the
\* socket out of the table.
LEMMA RemoveOneCounts ==
  ASSUME NEW b, Shape(b), TrieCounts(b), NEW s, NEW topic
  PROVE  LET c == remove_subscription(b, s, topic)
         IN /\ Shape(c) /\ TrieCounts(c)
            /\ \A r, x : On(c, r, x) => On(b, r, x)
            /\ \A r, x : On(b, r, x) /\ (r # s \/ x # topic) => On(c, r, x)
<1> DEFINE gone == {<<s, topic>>} \cap (Sockids \X Topics(b, s))
           c == remove_subscription(b, s, topic)
           new == nn_trie_unsubscribe(b.topics_trie, gone)
<1>1. Shape(c) /\ c.topics_trie = new /\ c.subscribe = Without(b.subscribe, {s})
  BY DEF remove_subscription, Shape, BrokerFields
<1>2. \A r, x : <<r, x>> \in gone =>
        r = s /\ x = topic /\ x \in DOMAIN b.topics_trie /\ r \in b.topics_trie[x].sockids
  BY DEF Topics, TrieCounts, On
<1>3. \A x \in DOMAIN b.topics_trie : NodeCounts(b.topics_trie[x])
  BY DEF TrieCounts
<1> HIDE DEF gone
<1>4. /\ \A x \in DOMAIN new : NodeCounts(new[x])
      /\ \A x \in DOMAIN b.topics_trie : \A r \in b.topics_trie[x].sockids :
           <<r, x>> \notin gone => x \in DOMAIN new /\ r \in new[x].sockids
      /\ \A x \in DOMAIN new : /\ x \in DOMAIN b.topics_trie
                               /\ new[x].sockids \subseteq b.topics_trie[x].sockids
  BY <1>2, <1>3, UnsubscribeCounts
<1>5. /\ DOMAIN c.subscribe = DOMAIN b.subscribe \ {s}
      /\ \A r \in DOMAIN c.subscribe : c.subscribe[r] = b.subscribe[r]
  BY <1>1 DEF Without, Restrict
<1> HIDE DEF c, new
<1>6. ASSUME NEW r, NEW x, On(b, r, x), r # s \/ x # topic PROVE On(c, r, x)
  <2>1. x \in DOMAIN b.topics_trie /\ r \in b.topics_trie[x].sockids
    BY <1>6 DEF On
  <2>2. <<r, x>> \notin gone
    BY <1>2, <1>6
  <2>3. x \in DOMAIN new /\ r \in new[x].sockids
    BY <1>4, <2>1, <2>2
  <2> QED
    BY <1>1, <2>3 DEF On
<1>7. \A r, x : On(c, r, x) => On(b, r, x)
  BY <1>1, <1>4 DEF On
<1>8. TrieCounts(c)
  BY <1>1, <1>4, <1>5, <1>6 DEF TrieCounts
<1> QED
  BY <1>1, <1>6, <1>7, <1>8 DEF c

\* A subscription is counted once, however often it is made.
LEMMA SubscribeCounts ==
  ASSUME NEW b, Shape(b), TrieCounts(b), NEW s, NEW topic
  PROVE  LET c == nn_trie_subscribe(insert_subscription(b, s, topic), s, topic)
         IN /\ Shape(c) /\ TrieCounts(c)
            /\ \A r, x : On(c, r, x) <=> On(b, r, x) \/ (r = s /\ x = topic)
<1> DEFINE d == insert_subscription(b, s, topic)
           c == nn_trie_subscribe(d, s, topic)
           Good(e) == /\ Shape(e) /\ TrieCounts(e)
                      /\ \A r, x : On(e, r, x) <=> On(b, r, x) \/ (r = s /\ x = topic)
<1> SUFFICES Good(c)
  OBVIOUS
<1>1. /\ Shape(d) /\ d.topics_trie = b.topics_trie
      /\ d.subscribe = Put(b.subscribe, s, Topics(b, s) \cup {topic})
  BY DEF insert_subscription, Shape, BrokerFields
<1> HIDE DEF d
<1>2. /\ DOMAIN d.subscribe = DOMAIN b.subscribe \cup {s}
      /\ \A r \in DOMAIN d.subscribe :
           d.subscribe[r] = IF r = s THEN Topics(b, s) \cup {topic} ELSE b.subscribe[r]
  BY <1>1 DEF Put
<1>3. \A r \in DOMAIN d.subscribe : \A x \in d.subscribe[r] :
        (r = s /\ x = topic) \/ On(b, r, x)
  BY <1>2 DEF Topics, TrieCounts
<1> HIDE DEF Good
<1>4. CASE ~FreshInTrie(d, s, topic)
  <2>1. c = d
    BY <1>4 DEF nn_trie_subscribe
  <2>2. On(b, s, topic)
    BY <1>1, <1>4 DEF FreshInTrie, InTrie, On
  <2>3. \A r, x : On(d, r, x) <=> On(b, r, x)
    BY <1>1 DEF On
  <2>4. TrieCounts(d)
    BY <1>1, <1>3, <2>2, <2>3 DEF TrieCounts
  <2>5. Good(d)
    BY <1>1, <2>2, <2>3, <2>4 DEF Good
  <2> QED
    BY <2>1, <2>5
<1>5. CASE FreshInTrie(d, s, topic)
  <2> DEFINE old == IF InTrie(d, topic) THEN d.topics_trie[topic]
                                        ELSE [refcount |-> 0, sockids |-> {}]
             node == [refcount |-> old.refcount + 1, sockids |-> old.sockids \cup {s}]
  <2>1. c = [d EXCEPT !.topics_trie = Put(@, topic, node)]
    BY <1>5 DEF nn_trie_subscribe
  <2>2. /\ IsFiniteSet(old.sockids) /\ old.refcount = Cardinality(old.sockids)
        /\ s \notin old.sockids
    <3>1. CASE InTrie(d, topic)
      BY <1>1, <1>5, <3>1 DEF FreshInTrie, InTrie, TrieCounts, NodeCounts
    <3>2. CASE ~InTrie(d, topic)
      <4>1. old.sockids = {} /\ old.refcount = 0
        BY <3>2
      <4> QED
        BY <4>1, FS_EmptySet
    <3> QED
      BY <3>1, <3>2
  <2>3. \A r : r \in old.sockids <=> On(b, r, topic)
    BY <1>1 DEF InTrie, On
  <2> HIDE DEF old
  <2>4. node.refcount = old.refcount + 1 /\ node.sockids = old.sockids \cup {s}
    OBVIOUS
  <2> HIDE DEF node
  <2>5. /\ IsFiniteSet(node.sockids)
        /\ Cardinality(node.sockids) = Cardinality(old.sockids) + 1
        /\ Cardinality(old.sockids) \in Nat
    BY <2>2, <2>4, FS_AddElement, FS_CardinalityType
  <2>6. NodeCounts(node)
    BY <2>2, <2>4, <2>5 DEF NodeCounts
  <2>7. Shape(c) /\ c.subscribe = d.subscribe /\ c.topics_trie = Put(b.topics_trie, topic, node)
    BY <1>1, <2>1 DEF Shape, BrokerFields
  <2>8. /\ DOMAIN c.topics_trie = DOMAIN b.topics_trie \cup {topic}
        /\ \A x \in DOMAIN c.topics_trie :
             c.topics_trie[x] = IF x = topic THEN node ELSE b.topics_trie[x]
    BY <2>7 DEF Put
  <2> HIDE DEF c
  <2>9. \A x \in DOMAIN c.topics_trie : NodeCounts(c.topics_trie[x])
    BY <2>6, <2>8 DEF TrieCounts
  <2>10. \A r, x : On(c, r, x) <=> On(b, r, x) \/ (r = s /\ x = topic)
    BY <2>3, <2>4, <2>8 DEF On
  <2>11. TrieCounts(c)
    BY <1>3, <2>7, <2>9, <2>10 DEF TrieCounts
  <2>12. Good(c)
    BY <2>7, <2>10, <2>11 DEF Good
  <2> QED
    BY <2>12 DEF c
<1> QED
  BY <1>4, <1>5

\* The counts only depend on the two tables of subscriptions.
LEMMA SameSubsCounts ==
  ASSUME NEW b, NEW c, SameSubs(b, c)
  PROVE  /\ TrieCounts(b) => TrieCounts(c)
         /\ \A r, x : On(c, r, x) <=> On(b, r, x)
BY DEF TrieCounts, SameSubs, On

(***************************************************************************)
(* The handlers and the subscriptions.                                     *)
(***************************************************************************)
\* The operations on the other tables.
LEMMA OthersSameSubs ==
  ASSUME NEW b, Shape(b)
  PROVE  /\ \A s, t, n : SameSubs(b, InsertLocal(b, s, t, n))
         /\ \A K : SameSubs(b, UnlinkLocal(b, K))
         /\ \A k : SameSubs(b, TouchClient(b, k))
         /\ \A s : SameSubs(b, TouchBroker(b, s)) /\ SameSubs(b, InsertBroker(b, s))
         /\ \A n, s : SameSubs(b, InsertDist(b, n, s))
         /\ \A N : SameSubs(b, RemoveDist(b, N))
         /\ SameSubs(b, Heard(b)) /\ SameSubs(b, b)
BY DEF SameSubs, Shape, BrokerFields, InsertLocal, UnlinkLocal, TouchClient, TouchBroker,
       InsertBroker, InsertDist, RemoveDist, Heard

\* s_cb_challok, s_cb_ping, s_cb_send and s_cb_pub.
LEMMA ClientSubs ==
  ASSUME NEW b, Shape(b), NEW s, NEW t
  PROVE  /\ \A n : SameSubs(b, s_cb_challok_client(b, s, t, n).b)
         /\ SameSubs(b, s_cb_ping(b, s, t).b)
         /\ \A dest : SameSubs(b, s_cb_send(b, s, t, dest).b)
         /\ \A topic, unscoped : SameSubs(b, s_cb_pub(b, s, t, topic, unscoped).b)
<1>1. \A n : SameSubs(b, s_cb_challok_client(b, s, t, n).b)
  BY OthersSameSubs DEF s_cb_challok_client, Nothing, Result
<1>2. SameSubs(b, s_cb_ping(b, s, t).b)
  BY OthersSameSubs DEF s_cb_ping, Nothing, Result
<1>3. ASSUME NEW dest PROVE SameSubs(b, s_cb_send(b, s, t, dest).b)
  <2>1. s_cb_send(b, s, t, dest).b \in {b, TouchClient(b, <<s, t>>)}
    BY RouteState DEF s_cb_send, Nothing, Result
  <2> QED
    BY <2>1, OthersSameSubs
<1>4. \A topic, unscoped : SameSubs(b, s_cb_pub(b, s, t, topic, unscoped).b)
  BY OthersSameSubs DEF s_cb_pub, Nothing, Result, WithPs
<1> QED
  BY <1>1, <1>2, <1>3, <1>4
=============================================================================
