-------------------------- MODULE ClientLinkProofs --------------------------
(***************************************************************************)
(* Proofs about a client and its broker.  The client's two timers and the  *)
(* chain of PINGs and PONGs, whatever is late, lost or restarted, rest on  *)
(* LinkInv, which follows the one message of a registration that may be on *)
(* its way on the client's present socket.  That the broker has what is on *)
(* the client's list of subscriptions rests on SubsInv, which follows the  *)
(* messages that make, end and confirm a subscription.                     *)
(***************************************************************************)
EXTENDS ClientLink, HandlerProofs, WellFoundedInduction

(***************************************************************************)
(* The inductive invariant.                                                *)
(***************************************************************************)
ClientFields ==
  {"state", "timeout", "registration_loop", "heartbeat_loop", "pings", "sublist", "cursor"}

\* The client is a record of its fields, its counter of pending PINGs is a number
\* and its list of subscriptions is one, with a cursor.
ClientShape(c) ==
  /\ c = [f \in ClientFields |-> c[f]]
  /\ c.pings \in Nat /\ IsSeq(c.sublist) /\ c.cursor \in Nat

\* r is the client c with another list or cursor.
Relisted(c, r) ==
  /\ ClientShape(r) /\ r.state = c.state /\ r.pings = c.pings
  /\ r.registration_loop = c.registration_loop /\ r.heartbeat_loop = c.heartbeat_loop

\* What a client sends.
ClientCmds == {"ADDLCL", "CHALLOK", "PING", "SUB", "UNSUB", "PUB", "SEND", "UNREG"}
FromClient(q) == \A i \in DOMAIN q : q[i].cmd \in ClientCmds

\* Every socket carries what a client sends, and only the present one brings
\* anything back.
Channels(s, u, d) ==
  /\ s \in Sockids
  /\ u = [x \in Sockids |-> u[x]] /\ \A x \in Sockids : IsSeq(u[x]) /\ FromClient(u[x])
  /\ d = [x \in Sockids |-> d[x]] /\ IsSeq(d[s]) /\ \A x \in Sockids : x # s => d[x] = <<>>

\* On the present socket one message of a registration is on its way, and none
\* once the client is registered.
Tokens(c, u, d) == OneToken(u, d) /\ (C!Registered(c) => NoToken(u, d))

Loops(c) ==
  /\ c.registration_loop = (IF C!Registered(c) THEN 0 ELSE 1)
  /\ c.heartbeat_loop = (IF C!Registered(c) THEN 1 ELSE 0)

Has(cmd, q) == \E i \in DOMAIN q : q[i].cmd = cmd

Chain(b, c, s, u, d) ==
  C!Registered(c) /\ HasLocal(b, Key(s)) =>
    c.pings > 0 \/ Has("PING", u) \/ Has("PONG", d)

LinkInv ==
  /\ Shape(br) /\ ClientShape(cl) /\ Channels(sock, up, down)
  /\ Tokens(cl, up[sock], down[sock])
  /\ Loops(cl) /\ Chain(br, cl, sock, up[sock], down[sock])

(***************************************************************************)
(* The client's list of subscriptions.                                     *)
(***************************************************************************)
\* The least element of a set of numbers is one of them.
LEMMA MinIsIn ==
  ASSUME NEW S, S \subseteq Nat, S # {}
  PROVE  Min(S) \in S
<1>1. \A x, y \in Nat : <<x, y>> \in OpToRel(<, Nat) <=> x < y
  BY DEF OpToRel
<1>2. PICK R : IsWellFoundedOn(R, Nat) /\ \A x, y \in Nat : <<x, y>> \in R <=> x < y
  BY <1>1, NatLessThanWellFounded, Zenon
<1>3. PICK x \in S : \A y \in S : ~(<<y, x>> \in R)
  <2>1. IsWellFoundedOn(R, Nat)
    BY <1>2
  <2> QED
    BY <2>1, WFMin, Zenon
<1>4. ASSUME NEW y \in S PROVE x <= y
  <2>1. x \in Nat /\ y \in Nat
    OBVIOUS
  <2>2. <<y, x>> \in R <=> y < x
    BY <1>2, <2>1, Zenon
  <2>3. ~(y < x)
    BY <1>3, <2>2, Zenon
  <2> QED
    BY <2>1, <2>3
<1> QED
  BY <1>4 DEF Min

\* What a sequence of messages holds after more are written.
LEMMA ConcatHas ==
  ASSUME NEW p, NEW q, IsSeq(p), IsSeq(q)
  PROVE  /\ IsSeq(p \o q)
         /\ FromClient(p) /\ FromClient(q) => FromClient(p \o q)
         /\ \A cmd : Has(cmd, p) \/ Has(cmd, q) => Has(cmd, p \o q)
<1> DEFINE r == p \o q
<1>1. IsSeq(r)
  BY Concat
<1>2. \A i \in DOMAIN p : i \in DOMAIN r /\ r[i] = p[i]
  BY Concat
<1>3. \A i \in DOMAIN q : Len(p) + i \in DOMAIN r /\ r[Len(p) + i] = q[i]
  BY Concat
<1>4. \A i \in DOMAIN r : \/ i \in DOMAIN p /\ r[i] = p[i]
                          \/ i - Len(p) \in DOMAIN q /\ r[i] = q[i - Len(p)]
  BY Concat
<1> HIDE DEF r
<1>5. FromClient(p) /\ FromClient(q) => FromClient(r)
  BY <1>4 DEF FromClient
<1>6. ASSUME NEW cmd, Has(cmd, p) \/ Has(cmd, q) PROVE Has(cmd, r)
  BY <1>2, <1>3, <1>6 DEF Has
<1> QED
  BY <1>1, <1>5, <1>6 DEF r

\* What it holds after the first one is read.
LEMMA TailHas ==
  ASSUME NEW q, IsSeq(q), q # <<>>
  PROVE  /\ IsSeq(Tail(q))
         /\ FromClient(q) => FromClient(Tail(q)) /\ Head(q).cmd \in ClientCmds
         /\ \A cmd : Has(cmd, q) => Head(q).cmd = cmd \/ Has(cmd, Tail(q))
<1> DEFINE r == Tail(q)
           h == Head(q)
<1>1. /\ IsSeq(r) /\ 1 \in DOMAIN q /\ h = q[1]
      /\ \A i \in DOMAIN r : i + 1 \in DOMAIN q /\ r[i] = q[i + 1] /\ i + 1 # 1
      /\ \A i \in DOMAIN q : i = 1 \/ (i - 1 \in DOMAIN r /\ r[i - 1] = q[i])
  BY AfterHead
<1> HIDE DEF r, h
<1>2. FromClient(q) => FromClient(r) /\ h.cmd \in ClientCmds
  BY <1>1 DEF FromClient
<1>3. ASSUME NEW cmd, Has(cmd, q) PROVE h.cmd = cmd \/ Has(cmd, r)
  BY <1>1, <1>3 DEF Has
<1> QED
  BY <1>1, <1>2, <1>3 DEF r, h

\* What is left of it when a socket is closed.
LEMMA PrefixFromClient ==
  ASSUME NEW q, IsSeq(q), FromClient(q), NEW n \in 0 .. Len(q)
  PROVE  IsSeq(SubSeq(q, 1, n)) /\ FromClient(SubSeq(q, 1, n))
<1> DEFINE S == Range(q)
<1>1. q \in Seq(S)
  BY DEF IsSeq
<1> HIDE DEF S
<1>2. \A i \in DOMAIN SubSeq(q, 1, n) : i \in DOMAIN q /\ SubSeq(q, 1, n)[i] = q[i]
  BY <1>1
<1> QED
  BY <1>2, PrefixIsSeq DEF FromClient

\* A function on the indices of a sequence is one.
LEMMA SameDomain ==
  ASSUME NEW q, IsSeq(q), NEW r, r = [i \in DOMAIN q |-> r[i]]
  PROVE  IsSeq(r)
<1>1. DOMAIN q = 1 .. Len(q) /\ Len(q) \in Nat
  BY DEF IsSeq
<1>2. r \in Seq(Range(r))
  BY <1>1 DEF Range
<1> QED
  BY <1>2 DEF IsSeq

\* Taking one element out of a sequence leaves one.
LEMMA RemoveAtIsSeq ==
  ASSUME NEW q, IsSeq(q), NEW i \in 1 .. Len(q)
  PROVE  IsSeq(RemoveAt(q, i))
<1> DEFINE S == Range(q)
<1>1. q \in Seq(S)
  BY DEF IsSeq
<1> HIDE DEF S
<1>2. SubSeq(q, 1, i - 1) \in Seq(S) /\ SubSeq(q, i + 1, Len(q)) \in Seq(S)
  BY <1>1
<1>3. RemoveAt(q, i) \in Seq(S)
  BY <1>2 DEF RemoveAt
<1> QED
  BY <1>3, SeqIsSeq

\* A client that gets a list and a cursor.
Given(c, list, n) == [c EXCEPT !.sublist = list, !.cursor = n]

LEMMA GivenList ==
  ASSUME NEW c, ClientShape(c), NEW list, IsSeq(list), NEW n \in Nat
  PROVE  LET r == Given(c, list, n)
         IN Relisted(c, r) /\ r.sublist = list /\ r.cursor = n
BY DEF Relisted, ClientShape, ClientFields, Given

\* Nothing but the cursor changes.
LEMMA GivenCursor ==
  ASSUME NEW c, ClientShape(c)
  PROVE  LET r == [c EXCEPT !.cursor = 0]
         IN Relisted(c, r) /\ r.sublist = c.sublist /\ r.cursor = 0
BY DEF Relisted, ClientShape, ClientFields

\* The operations on the list change the list and its cursor; those with a loop
\* leave the cursor before the list.
Looped(c, r) == Relisted(c, r) /\ r.cursor = 0

LEMMA ListsStayLists ==
  ASSUME NEW c, ClientShape(c)
  PROVE  /\ \A topic, scope, active : Looped(c, C!sublist_add(c, topic, scope, active))
         /\ \A topic, scope : /\ Relisted(c, C!sublist_delete(c, topic, scope))
                              /\ Looped(c, C!sublist_activate(c, topic, scope))
         /\ Looped(c, C!sublist_deactivate_all(c))
<1> DEFINE list == c.sublist
<1>0. IsSeq(list) /\ Relisted(c, c)
  BY DEF ClientShape, Relisted
<1>1. ASSUME NEW topic, NEW scope, NEW active
      PROVE  Looped(c, C!sublist_add(c, topic, scope, active))
  <2> DEFINE r == C!sublist_add(c, topic, scope, active)
             x == [topic |-> topic, scope |-> scope, active |-> active]
             marked == [i \in DOMAIN list |->
                          IF i > c.cursor /\ list[i].topic = topic /\ list[i].scope = scope
                          THEN [list[i] EXCEPT !.active = active] ELSE list[i]]
             added == <<x>> \o list
  <2>1. r \in {Given(c, marked, 0), Given(c, added, 0)}
    BY DEF C!sublist_add, C!SetActive, Given
  <2>2. marked = [i \in DOMAIN list |-> marked[i]]
    OBVIOUS
  <2>3. IsSeq(<<x>>)
    BY ShortSeqs
  <2>4. IsSeq(added)
    BY <1>0, <2>3, Concat
  <2> HIDE DEF r, marked, added
  <2>5. IsSeq(marked)
    BY <1>0, <2>2, SameDomain
  <2>6. Looped(c, Given(c, marked, 0)) /\ Looped(c, Given(c, added, 0))
    BY <2>4, <2>5, GivenList DEF Looped
  <2>7. Looped(c, r)
    BY <2>1, <2>6
  <2> QED
    BY <2>7 DEF r
<1>2. ASSUME NEW topic, NEW scope PROVE Relisted(c, C!sublist_delete(c, topic, scope))
  <2> DEFINE I == {i \in 1 .. Len(list) : list[i].topic = topic}
             k == Min(I)
             r == C!sublist_delete(c, topic, scope)
  <2>1. I # {} => k \in 1 .. Len(list)
    <3>1. I \subseteq Nat
      BY <1>0 DEF IsSeq
    <3> HIDE DEF I
    <3>2. I # {} => Min(I) \in I
      BY <3>1, MinIsIn
    <3> QED
      BY <3>2 DEF I
  <2>2. IF I # {} THEN r = Given(c, RemoveAt(list, k), k - 1) ELSE r = c
    <3>1. k = 0 => I = {}
      BY <2>1
    <3> QED
      BY <3>1 DEF C!sublist_delete, C!SelectInSeq, C!RemoveAt, C!Min, RemoveAt, Min,
                Given
  <2> HIDE DEF I, k, r
  <2>3. CASE I # {}
    <3>1. IsSeq(RemoveAt(list, k)) /\ k - 1 \in Nat
      BY <1>0, <2>1, <2>3, RemoveAtIsSeq
    <3>2. Relisted(c, Given(c, RemoveAt(list, k), k - 1))
      BY <3>1, GivenList
    <3> QED
      BY <2>2, <2>3, <3>2 DEF r
  <2> QED
    BY <1>0, <2>2, <2>3 DEF r
<1>3. ASSUME NEW topic, NEW scope PROVE Looped(c, C!sublist_activate(c, topic, scope))
  <2> DEFINE marked == [i \in DOMAIN list |->
                          IF i > c.cursor /\ list[i].topic = topic /\ list[i].scope = scope
                          THEN [list[i] EXCEPT !.active = TRUE] ELSE list[i]]
             r == C!sublist_activate(c, topic, scope)
  <2>1. r = Given(c, marked, 0)
    BY DEF C!sublist_activate, C!SetActive, Given
  <2>2. marked = [i \in DOMAIN list |-> marked[i]]
    OBVIOUS
  <2> HIDE DEF marked, r
  <2>3. IsSeq(marked)
    BY <1>0, <2>2, SameDomain
  <2> QED
    BY <2>1, <2>3, GivenList DEF Looped, r
<1>4. Looped(c, C!sublist_deactivate_all(c))
  <2> DEFINE marked == [i \in DOMAIN list |->
                          IF i > c.cursor THEN [list[i] EXCEPT !.active = FALSE] ELSE list[i]]
             r == C!sublist_deactivate_all(c)
  <2>1. r = Given(c, marked, 0)
    BY DEF C!sublist_deactivate_all, C!SetActive, Given
  <2>2. marked = [i \in DOMAIN list |-> marked[i]]
    OBVIOUS
  <2> HIDE DEF marked, r
  <2>3. IsSeq(marked)
    BY <1>0, <2>2, SameDomain
  <2> QED
    BY <2>1, <2>3, GivenList DEF Looped, r
<1> QED
  BY <1>1, <1>2, <1>3, <1>4

(***************************************************************************)
(* What the client does.                                                   *)
(***************************************************************************)
\* The client is as it should be and writes what a client may.
Writes(r) == ClientShape(r.c) /\ IsSeq(r.out) /\ FromClient(r.out)

\* The client stays as registered as it was, and writes no message of a
\* registration.
Steady(c, r) ==
  /\ Writes(r) /\ NoneOf(UpTokens, r.out)
  /\ r.c.state = c.state /\ r.c.registration_loop = c.registration_loop
  /\ r.c.heartbeat_loop = c.heartbeat_loop

\* What is written with IfRegistered.
LEMMA IfRegisteredWrites ==
  ASSUME NEW c, NEW m, m.cmd \in ClientCmds \ UpTokens
  PROVE  LET q == C!IfRegistered(c, <<m>>)
         IN IsSeq(q) /\ FromClient(q) /\ NoneOf(UpTokens, q)
<1>1. /\ IsSeq(<<>>) /\ FromClient(<<>>) /\ NoneOf(UpTokens, <<>>)
      /\ IsSeq(<<m>>) /\ FromClient(<<m>>) /\ NoneOf(UpTokens, <<m>>)
  BY ShortSeqs DEF FromClient
<1> QED
  BY <1>1 DEF C!IfRegistered

\* A call of the application changes the list of subscriptions at most.
LEMMA CallsSteady ==
  ASSUME NEW c, ClientShape(c), NEW m \in Calls
  PROVE  LET r == C!s_on_pipe_msg(c, m) IN Steady(c, r) /\ r.c.pings = c.pings
<1> DEFINE r == C!s_on_pipe_msg(c, m)
<1>1. ASSUME NEW d, Relisted(c, d), NEW q, IsSeq(q), FromClient(q), NoneOf(UpTokens, q),
             r = C!Result(d, q)
      PROVE  Steady(c, r) /\ r.c.pings = c.pings
  <2>1. r.out = q /\ r.c = d
    BY <1>1 DEF C!Result
  <2> HIDE DEF r
  <2> QED
    BY <1>1, <2>1 DEF Steady, Writes, Relisted
<1>2. Relisted(c, c)
  BY DEF Relisted
<1>3. m.call \in {"subscribe", "unsubscribe", "publish", "notify"}
  BY LinkAssumption
<1>4. CASE m.call = "subscribe"
  <2> DEFINE str == C!ScopeStr(m.scope)
             q == C!IfRegistered(c, <<C!TopicMsg("SUB", m.topic, str)>>)
             d == C!sublist_add(c, m.topic, str, FALSE)
  <2>1. r = C!Result(d, q)
    BY <1>4 DEF C!s_on_pipe_msg, C!dd_subscribe
  <2>2. C!TopicMsg("SUB", m.topic, str).cmd \in ClientCmds \ UpTokens
    BY DEF C!TopicMsg, ClientCmds, UpTokens
  <2>3. IsSeq(q) /\ FromClient(q) /\ NoneOf(UpTokens, q)
    BY <2>2, IfRegisteredWrites
  <2>4. Relisted(c, d)
    BY ListsStayLists DEF Looped
  <2> HIDE DEF r, q, d
  <2>5. Steady(c, r) /\ r.c.pings = c.pings
    BY <1>1, <2>1, <2>3, <2>4
  <2> QED
    BY <2>5 DEF r
<1>5. CASE m.call = "unsubscribe"
  <2> DEFINE str == C!ScopeStr(m.scope)
             q == C!IfRegistered(c, <<C!TopicMsg("UNSUB", m.topic, str)>>)
             d == C!sublist_delete(c, m.topic, str)
  <2>1. r = C!Result(d, q)
    BY <1>5 DEF C!s_on_pipe_msg, C!dd_unsubscribe
  <2>2. C!TopicMsg("UNSUB", m.topic, str).cmd \in ClientCmds \ UpTokens
    BY DEF C!TopicMsg, ClientCmds, UpTokens
  <2>3. IsSeq(q) /\ FromClient(q) /\ NoneOf(UpTokens, q)
    BY <2>2, IfRegisteredWrites
  <2>4. Relisted(c, d)
    BY ListsStayLists DEF Looped
  <2> HIDE DEF r, q, d
  <2>5. Steady(c, r) /\ r.c.pings = c.pings
    BY <1>1, <2>1, <2>3, <2>4
  <2> QED
    BY <2>5 DEF r
<1>6. CASE m.call = "publish"
  <2> DEFINE x == [cmd |-> "PUB", topic |-> m.topic]
             q == C!IfRegistered(c, <<x>>)
  <2>1. r = C!Result(c, q)
    BY <1>6 DEF C!s_on_pipe_msg, C!dd_publish
  <2>2. x.cmd \in ClientCmds \ UpTokens
    BY DEF ClientCmds, UpTokens
  <2>3. IsSeq(q) /\ FromClient(q) /\ NoneOf(UpTokens, q)
    BY <2>2, IfRegisteredWrites
  <2> HIDE DEF r, q
  <2>4. Steady(c, r) /\ r.c.pings = c.pings
    BY <1>1, <1>2, <2>1, <2>3
  <2> QED
    BY <2>4 DEF r
<1>7. CASE m.call = "notify"
  <2> DEFINE x == [cmd |-> "SEND", dest |-> m.target]
             q == C!IfRegistered(c, <<x>>)
  <2>1. r = C!Result(c, q)
    BY <1>7 DEF C!s_on_pipe_msg, C!dd_notify
  <2>2. x.cmd \in ClientCmds \ UpTokens
    BY DEF ClientCmds, UpTokens
  <2>3. IsSeq(q) /\ FromClient(q) /\ NoneOf(UpTokens, q)
    BY <2>2, IfRegisteredWrites
  <2> HIDE DEF r, q
  <2>4. Steady(c, r) /\ r.c.pings = c.pings
    BY <1>1, <1>2, <2>1, <2>3
  <2> QED
    BY <2>4 DEF r
<1> QED
  BY <1>3, <1>4, <1>5, <1>6, <1>7

\* The timer of a PING, which a registered client sends.
LEMMA PingSteady ==
  ASSUME NEW c, ClientShape(c), c.pings > 0
  PROVE  LET r == C!s_ping(c)
         IN Steady(c, r) /\ (C!Registered(c) => r.out = <<C!Msg("PING")>>)
<1> DEFINE r == C!s_ping(c)
           q == C!IfRegistered(c, <<C!Msg("PING")>>)
<1>1. r.c = [c EXCEPT !.pings = @ - 1] /\ r.out = q
  BY DEF C!s_ping, C!Result
<1>2. C!Msg("PING").cmd \in ClientCmds \ UpTokens
  BY DEF C!Msg, ClientCmds, UpTokens
<1>3. IsSeq(q) /\ FromClient(q) /\ NoneOf(UpTokens, q)
  BY <1>2, IfRegisteredWrites
<1>4. C!Registered(c) => q = <<C!Msg("PING")>>
  BY DEF C!IfRegistered
<1>5. c.pings - 1 \in Nat
  BY DEF ClientShape
<1> HIDE DEF r, q
<1> QED
  BY <1>1, <1>3, <1>4, <1>5 DEF Steady, Writes, ClientShape, ClientFields, r

\* A silent heartbeat either only counts, or ends one timer and starts the other.
LEMMA HeartbeatSwaps ==
  ASSUME NEW c, ClientShape(c)
  PROVE  LET r == C!s_heartbeat(c)
         IN /\ Writes(r) /\ r.out = <<>> /\ r.c.pings = c.pings
            /\ \/ Steady(c, r)
               \/ /\ r.c.state = "UNREG" /\ r.c.heartbeat_loop = c.heartbeat_loop - 1
                  /\ r.c.registration_loop = c.registration_loop + 1
<1> DEFINE r == C!s_heartbeat(c)
           d == [c EXCEPT !.timeout = @ + 1]
           f == [d EXCEPT !.state = "UNREG", !.heartbeat_loop = @ - 1,
                          !.registration_loop = @ + 1]
           e == C!sublist_deactivate_all(f)
<1>1. /\ ClientShape(f) /\ f.pings = c.pings /\ f.state = "UNREG"
      /\ f.registration_loop = c.registration_loop + 1
      /\ f.heartbeat_loop = c.heartbeat_loop - 1
  BY DEF ClientShape, ClientFields
<1>2. r.out = <<>> /\ (r.c = d \/ r.c = e)
  BY DEF C!s_heartbeat, C!Result
<1>3. IsSeq(<<>>) /\ FromClient(<<>>) /\ NoneOf(UpTokens, <<>>)
  BY ShortSeqs DEF FromClient
<1> HIDE DEF r, f
<1>4. CASE r.c = d
  <2>1. /\ ClientShape(r.c) /\ r.c.pings = c.pings /\ r.c.state = c.state
        /\ r.c.registration_loop = c.registration_loop /\ r.c.heartbeat_loop = c.heartbeat_loop
    BY <1>4 DEF ClientShape, ClientFields
  <2> QED
    BY <1>2, <1>3, <2>1 DEF Steady, Writes, r
<1>5. CASE r.c = e
  <2>1. Relisted(f, r.c)
    BY <1>1, <1>5, ListsStayLists DEF Looped
  <2>2. /\ ClientShape(r.c) /\ r.c.pings = c.pings /\ r.c.state = "UNREG"
        /\ r.c.registration_loop = c.registration_loop + 1
        /\ r.c.heartbeat_loop = c.heartbeat_loop - 1
    BY <1>1, <2>1 DEF Relisted
  <2> QED
    BY <1>2, <1>3, <2>2 DEF Writes, r
<1> QED
  BY <1>2, <1>4, <1>5

\* A client that learns that it is registered starts to count heartbeats.
LEMMA HeartbeatStarts ==
  ASSUME NEW c, ClientShape(c), NEW n
  PROVE  LET d == C!StartHeartbeat(c, n)
         IN /\ ClientShape(d) /\ C!Registered(d) /\ d.pings = c.pings
            /\ d.registration_loop = n /\ d.heartbeat_loop = c.heartbeat_loop + 1
            /\ d.sublist = c.sublist /\ d.cursor = c.cursor
BY DEF C!StartHeartbeat, C!Heard, C!Registered, ClientShape, ClientFields

\* The timers that ask for registration and still run after a REGOK.
TimersLeft(c) == IF c.registration_loop > 0 THEN c.registration_loop - 1 ELSE 0

\* It sends a PING and a SUB for every subscription of its list behind the cursor.
LEMMA RegokWrites ==
  ASSUME NEW c, ClientShape(c)
  PROVE  LET r == C!cb_regok(c)
         IN /\ ClientShape(r.c) /\ C!Registered(r.c) /\ r.c.pings = c.pings
            /\ r.c.registration_loop = TimersLeft(c)
            /\ r.c.heartbeat_loop = c.heartbeat_loop + 1
            /\ r.c.sublist = c.sublist /\ r.c.cursor = 0
            /\ IsSeq(r.out) /\ FromClient(r.out) /\ NoneOf(UpTokens, r.out)
            /\ Has("PING", r.out)
<1> DEFINE r == C!cb_regok(c)
           d == C!StartHeartbeat(c, TimersLeft(c))
           list == c.sublist
           n == c.cursor
           k == Len(list) - n
           ahead == SubSeq(list, n + 1, Len(list))
           subs == [i \in DOMAIN ahead |-> C!TopicMsg("SUB", ahead[i].topic, ahead[i].scope)]
           ping == <<C!Msg("PING")>>
<1>1. /\ ClientShape(d) /\ C!Registered(d) /\ d.pings = c.pings
      /\ d.registration_loop = TimersLeft(c) /\ d.heartbeat_loop = c.heartbeat_loop + 1
      /\ d.sublist = list /\ d.cursor = n
  BY HeartbeatStarts
<1>2. r.c = [d EXCEPT !.cursor = 0] /\ r.out = ping \o subs
  <2>1. C!sublist_resubscribe(d) = C!Result([d EXCEPT !.cursor = 0], subs)
    BY <1>1 DEF C!sublist_resubscribe
  <2>2. /\ r.c = C!sublist_resubscribe(d).c
        /\ r.out = ping \o C!sublist_resubscribe(d).out
    BY DEF C!cb_regok, C!Result, TimersLeft
  <2> DEFINE e == [d EXCEPT !.cursor = 0]
  <2> HIDE DEF e, r, d, subs, ping
  <2>3. C!Result(e, subs).c = e /\ C!Result(e, subs).out = subs
    BY DEF C!Result
  <2>4. C!sublist_resubscribe(d) = C!Result(e, subs)
    BY <2>1 DEF e
  <2> QED
    BY <2>2, <2>3, <2>4 DEF e
<1>3. IsSeq(list) /\ n \in Nat
  BY DEF ClientShape
<1>4. \A i \in DOMAIN subs : subs[i].cmd = "SUB"
  BY DEF C!TopicMsg
<1>5. IsSeq(subs)
  <2>1. ahead \in Seq(Range(list))
    <3> DEFINE R == Range(list)
    <3>1. list \in Seq(R)
      BY <1>3 DEF IsSeq
    <3> HIDE DEF R, list, n
    <3>2. SubSeq(list, n + 1, Len(list)) \in Seq(R)
      BY <1>3, <3>1
    <3> QED
      BY <3>2 DEF R, list, n
  <2>2. IsSeq(ahead)
    BY <2>1, SeqIsSeq
  <2>3. subs = [i \in DOMAIN ahead |-> subs[i]]
    OBVIOUS
  <2> HIDE DEF ahead, subs
  <2> QED
    BY <2>2, <2>3, SameDomain
<1>6. 1 \in DOMAIN ping /\ \A i \in DOMAIN ping : ping[i].cmd = "PING"
  BY DEF C!Msg
<1>7. IsSeq(ping)
  BY ShortSeqs
<1> HIDE DEF r, d, list, n, ping, subs
<1>8. FromClient(ping) /\ FromClient(subs) /\ NoneOf(UpTokens, ping) /\ NoneOf(UpTokens, subs)
  BY <1>4, <1>6 DEF FromClient, ClientCmds, NoneOf, UpTokens
<1>9. Has("PING", ping)
  BY <1>6 DEF Has
<1>10. /\ IsSeq(ping \o subs) /\ FromClient(ping \o subs) /\ NoneOf(UpTokens, ping \o subs)
       /\ Has("PING", ping \o subs)
  BY <1>5, <1>7, <1>8, <1>9, ConcatTokens, ConcatHas
<1>11. Relisted(d, r.c) /\ r.c.sublist = d.sublist /\ r.c.cursor = 0
  BY <1>1, <1>2, GivenCursor
<1> QED
  BY <1>1, <1>2, <1>10, <1>11 DEF r, list, Relisted, C!Registered

\* The client's answers to the broker.
LEMMA DealerAnswers ==
  ASSUME NEW c, ClientShape(c), NEW m
  PROVE  LET r == C!s_on_dealer_msg(c, m)
         IN /\ Writes(r)
            /\ r.c.pings = IF m.cmd = "PONG" THEN c.pings + 1 ELSE c.pings
            /\ m.cmd \notin DownTokens => Steady(c, r) /\ r.out = <<>>
            /\ m.cmd = "CHALL" => /\ r.out = <<C!Msg("CHALLOK")>>
                                  /\ r.c.state = c.state
                                  /\ r.c.registration_loop = c.registration_loop
                                  /\ r.c.heartbeat_loop = c.heartbeat_loop
            /\ m.cmd = "REGOK" =>
                 /\ C!Registered(r.c) /\ r.c.heartbeat_loop = c.heartbeat_loop + 1
                 /\ r.c.registration_loop = TimersLeft(c)
                 /\ NoneOf(UpTokens, r.out) /\ Has("PING", r.out)
<1> DEFINE r == C!s_on_dealer_msg(c, m)
           h == C!Heard(c)
<1>0. IsSeq(<<>>) /\ FromClient(<<>>) /\ NoneOf(UpTokens, <<>>)
  BY ShortSeqs DEF FromClient
<1>1. /\ ClientShape(h) /\ h.state = c.state /\ h.pings = c.pings
      /\ h.registration_loop = c.registration_loop /\ h.heartbeat_loop = c.heartbeat_loop
  BY DEF C!Heard, ClientShape, ClientFields
<1>2. CASE m.cmd = "CHALL"
  <2>1. r.c = h /\ r.out = <<C!Msg("CHALLOK")>>
    BY <1>2 DEF C!s_on_dealer_msg, C!cb_chall, C!Result
  <2>2. IsSeq(<<C!Msg("CHALLOK")>>) /\ FromClient(<<C!Msg("CHALLOK")>>)
    BY ShortSeqs DEF FromClient, C!Msg, ClientCmds
  <2> HIDE DEF h, r
  <2> QED
    BY <1>1, <1>2, <2>1, <2>2 DEF Writes, DownTokens, r
<1>3. CASE m.cmd = "REGOK"
  <2>1. r = C!cb_regok(c)
    BY <1>3 DEF C!s_on_dealer_msg
  <2> HIDE DEF r
  <2> QED
    BY <1>3, <2>1, RegokWrites DEF Writes, DownTokens, r
<1>4. CASE m.cmd = "PONG"
  <2> DEFINE e == [h EXCEPT !.pings = @ + 1]
  <2>1. r.c = e /\ r.out = <<>>
    BY <1>4 DEF C!s_on_dealer_msg, C!cb_pong, C!Result
  <2> HIDE DEF h
  <2>2. /\ ClientShape(e) /\ e.state = c.state /\ e.pings = c.pings + 1
        /\ e.registration_loop = c.registration_loop /\ e.heartbeat_loop = c.heartbeat_loop
    BY <1>1 DEF ClientShape, ClientFields
  <2> HIDE DEF r, e
  <2> QED
    BY <1>0, <1>4, <2>1, <2>2 DEF Writes, Steady, DownTokens, r
<1>5. CASE m.cmd = "SUBOK"
  <2>1. r.c = C!sublist_activate(h, m.topic, m.scope) /\ r.out = <<>>
    BY <1>5 DEF C!s_on_dealer_msg, C!cb_subok, C!Result
  <2> HIDE DEF h, r
  <2>2. Relisted(h, r.c)
    BY <1>1, <2>1, ListsStayLists DEF Looped
  <2> QED
    BY <1>0, <1>1, <1>5, <2>1, <2>2 DEF Relisted, Writes, Steady, DownTokens, r
<1>6. CASE m.cmd \notin {"CHALL", "REGOK", "PONG", "SUBOK"}
  <2>1. r.c = h /\ r.out = <<>>
    BY <1>6 DEF C!s_on_dealer_msg, C!cb_data, C!cb_pub, C!cb_error, C!Result
  <2> HIDE DEF h, r
  <2> QED
    BY <1>0, <1>1, <1>6, <2>1 DEF Writes, Steady, DownTokens, r
<1> QED
  BY <1>2, <1>3, <1>4, <1>5, <1>6

(***************************************************************************)
(* What the broker answers.                                                *)
(***************************************************************************)
\* No two messages go to one socket.
AnswersOnce(r) == \A x, y \in r.rout : x.to = y.to => x.m = y.m

\* What a callback sends back to socket s.
Back(r, s) == SetToSeq({o.m : o \in {x \in r.rout : x.to = s}})

\* The sequences of sets with no and with one element.
LEMMA SmallSets ==
  SetToSeq({}) = <<>> /\ \A m : SetToSeq({m}) = <<m>>
<1>1. SetToSeq({}) = <<>>
  <2>1. 1 .. Cardinality({}) = {}
    BY FS_EmptySet
  <2>2. <<>> \in [{} -> {}] /\ \A f \in [{} -> {}] : f = <<>>
    OBVIOUS
  <2>3. IsInjective(<<>>)
    BY DEF IsInjective
  <2> QED
    BY <2>1, <2>2, <2>3 DEF SetToSeq
<1>2. ASSUME NEW m PROVE SetToSeq({m}) = <<m>>
  <2>0. Cardinality({m}) = 1
    BY FS_Singleton, Zenon
  <2>1. 1 .. Cardinality({m}) = {1}
    BY <2>0
  <2>2. <<m>> \in [{1} -> {m}] /\ \A f \in [{1} -> {m}] : f = <<m>>
    OBVIOUS
  <2>3. IsInjective(<<m>>)
    BY DEF IsInjective
  <2> QED
    BY <2>1, <2>2, <2>3 DEF SetToSeq
<1> QED
  BY <1>1, <1>2

\* A socket that is sent at most one message is sent none or that one.
LEMMA BackIsShort ==
  ASSUME NEW r, AnswersOnce(r), NEW s
  PROVE  /\ IsSeq(Back(r, s)) /\ \A cmds : OneOf(cmds, Back(r, s))
         /\ \A i \in DOMAIN Back(r, s) : \E o \in r.rout : o.to = s /\ o.m = Back(r, s)[i]
         /\ \A o \in r.rout : o.to = s => Has(o.m.cmd, Back(r, s))
<1> DEFINE T == {x \in r.rout : x.to = s}
           S == {o.m : o \in T}
<1>1. CASE T = {}
  <2>1. S = {} /\ Back(r, s) = <<>>
    BY <1>1, SmallSets DEF Back
  <2>2. DOMAIN <<>> = {}
    OBVIOUS
  <2> QED
    BY <1>1, <2>1, <2>2, ShortSeqs
<1>2. ASSUME NEW o \in T PROVE Back(r, s) = <<o.m>>
  <2>1. S = {o.m}
    BY <1>2 DEF AnswersOnce
  <2> QED
    BY <2>1, SmallSets DEF Back
<1>3. CASE T # {}
  <2>1. PICK o \in T : TRUE
    BY <1>3
  <2> DEFINE q == Back(r, s)
  <2>2. q = <<o.m>> /\ o \in r.rout /\ o.to = s
    BY <1>2, <2>1
  <2>3. DOMAIN q = {1} /\ q[1] = o.m
    BY <2>2
  <2>4. IsSeq(q) /\ \A cmds : OneOf(cmds, q)
    BY <2>2, ShortSeqs
  <2> HIDE DEF q
  <2>5. \A x \in r.rout : x.to = s => x.m = o.m
    BY <2>2 DEF AnswersOnce
  <2> QED
    BY <2>2, <2>3, <2>4, <2>5 DEF Has, q
<1> QED
  BY <1>1, <1>3

\* Results with no answer, with one, and the deliveries of a publication.
LEMMA AnswerOnce ==
  /\ \A r : r.rout = {} => AnswersOnce(r)
  /\ \A r, s, m : r.rout = To(s, m) => AnswersOnce(r)
  /\ \A r, b, pt, name, topic : r.rout = Deliver(b, pt, name, topic) => AnswersOnce(r)
BY DEF AnswersOnce, To, Deliver

\* So it is with whatever a client sends.
LEMMA ClientsAnsweredOnce ==
  ASSUME NEW b, NEW s, NEW t
  PROVE  /\ \A name : AnswersOnce(s_cb_challok_client(b, s, t, name))
         /\ AnswersOnce(s_cb_unreg_cli(b, s, t)) /\ AnswersOnce(s_cb_ping(b, s, t))
         /\ \A dest : AnswersOnce(s_cb_send(b, s, t, dest))
         /\ \A topic, scope : /\ AnswersOnce(s_cb_sub(b, s, t, topic, scope))
                              /\ AnswersOnce(s_cb_unsub(b, s, t, topic, scope))
         /\ \A topic, unscoped : AnswersOnce(s_cb_pub(b, s, t, topic, unscoped))
<1> USE DEF Nothing, Result, WithPs
<1>1. ASSUME NEW name PROVE AnswersOnce(s_cb_challok_client(b, s, t, name))
  <2> DEFINE r == s_cb_challok_client(b, s, t, name)
  <2>1. r.rout \in {{}, To(s, Regfail("local")), To(s, Simple("REGOK"))}
    BY DEF s_cb_challok_client
  <2> HIDE DEF r
  <2>2. AnswersOnce(r)
    BY <2>1, AnswerOnce
  <2> QED
    BY <2>2 DEF r
<1>2. AnswersOnce(s_cb_unreg_cli(b, s, t))
  <2> DEFINE r == s_cb_unreg_cli(b, s, t)
  <2>1. r.rout = {}
    BY DEF s_cb_unreg_cli
  <2> HIDE DEF r
  <2>2. AnswersOnce(r)
    BY <2>1, AnswerOnce
  <2> QED
    BY <2>2 DEF r
<1>3. AnswersOnce(s_cb_ping(b, s, t))
  <2> DEFINE r == s_cb_ping(b, s, t)
  <2>1. r.rout \in {{}, To(s, Simple("PONG"))}
    BY DEF s_cb_ping
  <2> HIDE DEF r
  <2>2. AnswersOnce(r)
    BY <2>1, AnswerOnce
  <2> QED
    BY <2>2 DEF r
<1>4. ASSUME NEW dest PROVE AnswersOnce(s_cb_send(b, s, t, dest))
  <2> DEFINE k == <<s, t>>
             src == b.lcl_cli[k].name
             dst == Resolve(t, dest)
             m == IF IsPublic(src) = IsPublic(dst) THEN Nodst(Tail(dst), Tail(src))
                                                   ELSE Nodst(dst, src)
             c == TouchClient(b, k)
             invalid == Result(c, <<>>, To(s, m))
             r == s_cb_send(b, s, t, dest)
             q == Route(c, src, dst, invalid)
  <2>1. r \in {Nothing(b), q}
    BY DEF s_cb_send
  <2>2. invalid.rout = To(s, m)
    OBVIOUS
  <2> HIDE DEF invalid, c, m, src, dst
  <2>3. q.rout = {} \/ \E x, y : q.rout = To(x, y)
    BY <2>2 DEF Route
  <2>4. Nothing(b).rout = {}
    OBVIOUS
  <2> HIDE DEF q, r
  <2>5. AnswersOnce(r)
    BY <2>1, <2>3, <2>4, AnswerOnce
  <2> QED
    BY <2>5 DEF r
<1>5. ASSUME NEW topic, NEW scope
      PROVE  /\ AnswersOnce(s_cb_sub(b, s, t, topic, scope))
             /\ AnswersOnce(s_cb_unsub(b, s, t, topic, scope))
  <2> DEFINE r == s_cb_sub(b, s, t, topic, scope)
             q == s_cb_unsub(b, s, t, topic, scope)
  <2>1. r.rout \in {{}, To(s, Simple("DATA")), To(s, Subok(topic, scope))}
    BY DEF s_cb_sub
  <2>2. q.rout \in {{}, To(s, Simple("DATA"))}
    BY DEF s_cb_unsub
  <2> HIDE DEF r, q
  <2>3. AnswersOnce(r) /\ AnswersOnce(q)
    BY <2>1, <2>2, AnswerOnce
  <2> QED
    BY <2>3 DEF r, q
<1>6. ASSUME NEW topic, NEW unscoped PROVE AnswersOnce(s_cb_pub(b, s, t, topic, unscoped))
  <2> DEFINE r == s_cb_pub(b, s, t, topic, unscoped)
  <2>1. r.rout = {} \/ \E pt, name : r.rout = Deliver(b, pt, name, topic)
    BY DEF s_cb_pub
  <2> HIDE DEF r
  <2>2. AnswersOnce(r)
    BY <2>1, AnswerOnce
  <2> QED
    BY <2>2 DEF r
<1> QED
  BY <1>1, <1>2, <1>3, <1>4, <1>5, <1>6

\* A message of a client: it registers the client only if it answers a challenge,
\* a message of a registration is answered by one to the same socket and by
\* nothing else, and the PING of a client the broker has is answered.
LEMMA RouterAnswers ==
  ASSUME Shape(br), NEW s, NEW m, m.cmd \in ClientCmds
  PROVE  LET r == RouterMsg(s, m)
         IN /\ Shape(r.b) /\ AnswersOnce(r)
            /\ DOMAIN r.b.lcl_cli \subseteq DOMAIN br.lcl_cli \cup {Key(s)}
            /\ m.cmd # "CHALLOK" => DOMAIN r.b.lcl_cli \subseteq DOMAIN br.lcl_cli
            /\ \A o \in r.rout : o.m.cmd \in DownTokens => o.to = s /\ m.cmd \in UpTokens
            /\ m.cmd = "PING" /\ HasLocal(br, Key(s)) =>
                 \E o \in r.rout : o.to = s /\ o.m.cmd = "PONG"
<1> DEFINE r == RouterMsg(s, m)
<1>1. ASSUME Calm(br, r), AnswersOnce(r), m.cmd # "PING"
      PROVE  /\ Shape(r.b) /\ AnswersOnce(r)
             /\ DOMAIN r.b.lcl_cli \subseteq DOMAIN br.lcl_cli
             /\ \A o \in r.rout : o.m.cmd \notin DownTokens
  BY <1>1 DEF Calm, Plain, NoneAdded
<1> HIDE DEF r
<1>2. CASE m.cmd = "ADDLCL"
  <2>1. r.b = br /\ r.rout = To(s, Chall(s))
    BY <1>2 DEF r, RouterMsg, s_cb_addlcl, Result
  <2>2. AnswersOnce(r)
    BY <2>1, AnswerOnce
  <2>3. \A o \in r.rout : o.to = s
    BY <2>1 DEF To
  <2> QED
    BY <1>2, <2>1, <2>2, <2>3 DEF UpTokens, r
<1>3. CASE m.cmd = "CHALLOK"
  <2> DEFINE c == InsertLocal(br, s, Tenant, ClientName)
  <2>1. r = s_cb_challok_client(br, s, Tenant, ClientName)
    BY <1>3 DEF r, RouterMsg
  <2>2. AnswersOnce(r)
    BY <2>1, ClientsAnsweredOnce
  <2>3. r.b \in {br, c} /\ \A o \in r.rout : o.to = s
    BY <2>1 DEF s_cb_challok_client, Nothing, Result, To
  <2>4. Shape(c) /\ DOMAIN c.lcl_cli = DOMAIN br.lcl_cli \cup {Key(s)}
    BY InsertLocalAdds DEF Key
  <2> HIDE DEF c
  <2> QED
    BY <1>3, <2>2, <2>3, <2>4 DEF UpTokens, r
<1>4. CASE m.cmd = "PING"
  <2>1. r = s_cb_ping(br, s, Tenant)
    BY <1>4 DEF r, RouterMsg
  <2>2. Calm(br, r) /\ AnswersOnce(r)
    BY <2>1, ClientsCalm, ClientsAnsweredOnce
  <2>3. HasLocal(br, Key(s)) => r.rout = To(s, Simple("PONG"))
    BY <2>1 DEF s_cb_ping, Result, Key
  <2>4. \E o \in To(s, Simple("PONG")) : o.to = s /\ o.m.cmd = "PONG"
    BY DEF To, Simple
  <2>5. HasLocal(br, Key(s)) => \E o \in r.rout : o.to = s /\ o.m.cmd = "PONG"
    BY <2>3, <2>4
  <2> QED
    BY <1>4, <2>2, <2>5 DEF Calm, Plain, NoneAdded, r
<1>5. CASE m.cmd = "SUB"
  <2>1. r = s_cb_sub(br, s, Tenant, m.topic, m.scope)
    BY <1>5 DEF r, RouterMsg
  <2>2. Calm(br, r) /\ AnswersOnce(r)
    BY <2>1, ClientsCalm, ClientsAnsweredOnce
  <2> QED
    BY <1>1, <1>5, <2>2 DEF r
<1>6. CASE m.cmd = "UNSUB"
  <2>1. r = s_cb_unsub(br, s, Tenant, m.topic, m.scope)
    BY <1>6 DEF r, RouterMsg
  <2>2. Calm(br, r) /\ AnswersOnce(r)
    BY <2>1, ClientsCalm, ClientsAnsweredOnce
  <2> QED
    BY <1>1, <1>6, <2>2 DEF r
<1>7. CASE m.cmd = "PUB"
  <2>1. r = s_cb_pub(br, s, Tenant, m.topic, FALSE)
    BY <1>7 DEF r, RouterMsg
  <2>2. Calm(br, r) /\ AnswersOnce(r)
    BY <2>1, ClientsCalm, ClientsAnsweredOnce
  <2> QED
    BY <1>1, <1>7, <2>2 DEF r
<1>8. CASE m.cmd = "SEND"
  <2>1. r = s_cb_send(br, s, Tenant, m.dest)
    BY <1>8 DEF r, RouterMsg
  <2>2. Calm(br, r) /\ AnswersOnce(r)
    BY <2>1, ClientsCalm, ClientsAnsweredOnce
  <2> QED
    BY <1>1, <1>8, <2>2 DEF r
<1>9. CASE m.cmd = "UNREG"
  <2>1. r = s_cb_unreg_cli(br, s, Tenant)
    BY <1>9 DEF r, RouterMsg
  <2>2. Calm(br, r) /\ AnswersOnce(r)
    BY <2>1, ClientsCalm, ClientsAnsweredOnce
  <2> QED
    BY <1>1, <1>9, <2>2 DEF r
<1> QED
  BY <1>2, <1>3, <1>4, <1>5, <1>6, <1>7, <1>8, <1>9 DEF ClientCmds

(***************************************************************************)
(* The sockets.                                                            *)
(***************************************************************************)
\* The client writes to its socket.
LEMMA UpWritten ==
  ASSUME Channels(sock, up, down), NEW q, IsSeq(q), FromClient(q),
         up' = [up EXCEPT ![sock] = @ \o q]
  PROVE  Channels(sock, up', down) /\ up'[sock] = up[sock] \o q
<1> DEFINE w == up[sock] \o q
<1>1. IsSeq(w) /\ FromClient(w)
  BY ConcatHas DEF Channels
<1>2. up' = [up EXCEPT ![sock] = w]
  OBVIOUS
<1> HIDE DEF w
<1>3. /\ up' = [x \in Sockids |-> up'[x]]
      /\ \A x \in Sockids : up'[x] = IF x = sock THEN w ELSE up[x]
  BY <1>2 DEF Channels
<1>4. Channels(sock, up', down) /\ up'[sock] = w
  BY <1>1, <1>3 DEF Channels
<1> QED
  BY <1>4 DEF w

\* What comes back to the present socket changes.
LEMMA DownChanged ==
  ASSUME NEW s, NEW u, NEW d, Channels(s, u, d), NEW q, IsSeq(q)
  PROVE  Channels(s, u, [d EXCEPT ![s] = q]) /\ [d EXCEPT ![s] = q][s] = q
BY DEF Channels

\* The broker reads a message.
LEMMA UpRead ==
  ASSUME Channels(sock, up, down), NEW s \in Sockids, up[s] # <<>>,
         up' = [up EXCEPT ![s] = Tail(@)]
  PROVE  /\ Channels(sock, up', down) /\ Head(up[s]).cmd \in ClientCmds
         /\ up'[sock] = IF s = sock THEN Tail(up[sock]) ELSE up[sock]
<1>1. IsSeq(Tail(up[s])) /\ FromClient(Tail(up[s])) /\ Head(up[s]).cmd \in ClientCmds
  BY TailHas DEF Channels
<1>2. /\ up' = [y \in Sockids |-> up'[y]]
      /\ \A y \in Sockids : up'[y] = IF y = s THEN Tail(up[s]) ELSE up[y]
  BY DEF Channels
<1> QED
  BY <1>1, <1>2 DEF Channels

\* The client closes its socket and opens another one.
LEMMA Reopened ==
  ASSUME NEW last, IsSeq(last), FromClient(last), NEW first, IsSeq(first), FromClient(first),
         Channels(sock, up, down), Reopen(last, first)
  PROVE  Channels(sock', up', down') /\ up'[sock'] = first /\ down'[sock'] = <<>>
<1>1. PICK s \in Sockids : \E n \in 0 .. Len(up[sock] \o last) :
         /\ Unused(s) /\ sock' = s
         /\ up' = [up EXCEPT ![sock] = SubSeq(@ \o last, 1, n), ![s] = first]
         /\ down' = [down EXCEPT ![sock] = <<>>]
  BY DEF Reopen
<1>2. PICK n \in 0 .. Len(up[sock] \o last) :
         /\ Unused(s) /\ sock' = s
         /\ up' = [up EXCEPT ![sock] = SubSeq(@ \o last, 1, n), ![s] = first]
         /\ down' = [down EXCEPT ![sock] = <<>>]
  BY <1>1
<1> DEFINE q == SubSeq(up[sock] \o last, 1, n)
<1>3. IsSeq(up[sock] \o last) /\ FromClient(up[sock] \o last)
  BY ConcatHas DEF Channels
<1>4. IsSeq(q) /\ FromClient(q)
  BY <1>3, PrefixFromClient
<1>5. up' = [up EXCEPT ![sock] = q, ![s] = first]
  BY <1>2
<1> HIDE DEF q
<1>6. s # sock
  BY <1>2 DEF Unused
<1>7. /\ up' = [x \in Sockids |-> up'[x]]
      /\ \A x \in Sockids : up'[x] = IF x = s THEN first ELSE IF x = sock THEN q ELSE up[x]
  BY <1>5, <1>6 DEF Channels
<1>8. /\ down' = [x \in Sockids |-> down'[x]]
      /\ \A x \in Sockids : down'[x] = IF x = sock THEN <<>> ELSE down[x]
  BY <1>2 DEF Channels
<1>9. \A x \in Sockids : down'[x] = <<>>
  BY <1>8 DEF Channels
<1> QED
  BY <1>2, <1>4, <1>7, <1>8, <1>9, ShortSeqs DEF Channels

(***************************************************************************)
(* Every step keeps LinkInv.                                               *)
(***************************************************************************)
\* LinkInv of the next state, spelled out.
LEMMA LinkInvNext ==
  ASSUME Shape(br'), ClientShape(cl'), Channels(sock', up', down'),
         Tokens(cl', up'[sock'], down'[sock']), Loops(cl'),
         Chain(br', cl', sock', up'[sock'], down'[sock'])
  PROVE  LinkInv'
BY DEF LinkInv

\* A new client: it is not registered, and asks to be.
LEMMA NewClientOK ==
  /\ ClientShape(C!NewClient) /\ Loops(C!NewClient) /\ ~C!Registered(C!NewClient)
BY ShortSeqs DEF ClientShape, ClientFields, Loops, C!NewClient, C!Registered

\* A client that is not registered and whose socket carries at most one message
\* of a registration.
LEMMA UnregisteredOK ==
  ASSUME NEW c, ~C!Registered(c), NEW u, NEW d, OneToken(u, d)
  PROVE  Tokens(c, u, d) /\ \A b, s : Chain(b, c, s, u, d)
BY DEF Tokens, Chain

\* Initially the client is new and nothing is on its way.
LEMMA InitLink == Init => LinkInv
<1> SUFFICES ASSUME Init PROVE LinkInv
  OBVIOUS
<1>1. Shape(br)
  BY DEF Init, NewBroker, Shape, BrokerFields
<1>2. sock \in Sockids
  BY LinkAssumption DEF Init
<1>3. IsSeq(<<>>) /\ FromClient(<<>>) /\ OneToken(<<>>, <<>>)
  BY ShortSeqs DEF FromClient, OneToken
<1>4. \A x \in Sockids : up[x] = <<>> /\ down[x] = <<>>
  BY DEF Init
<1>5. up = [x \in Sockids |-> up[x]] /\ down = [x \in Sockids |-> down[x]]
  BY DEF Init
<1>6. Channels(sock, up, down)
  BY <1>2, <1>3, <1>4, <1>5 DEF Channels
<1>7. ClientShape(cl) /\ Loops(cl) /\ ~C!Registered(cl)
  BY NewClientOK DEF Init
<1>8. Tokens(cl, up[sock], down[sock]) /\ Chain(br, cl, sock, up[sock], down[sock])
  BY <1>2, <1>3, <1>4, <1>7, UnregisteredOK
<1> QED
  BY <1>1, <1>6, <1>7, <1>8 DEF LinkInv

\* Tokens and PINGs after a client wrote no message of a registration.
LEMMA WrittenTokens ==
  ASSUME NEW u, IsSeq(u), NEW d, NEW q, IsSeq(q), NoneOf(UpTokens, q)
  PROVE  /\ OneToken(u, d) => OneToken(u \o q, d)
         /\ NoToken(u, d) => NoToken(u \o q, d)
BY ConcatTokens DEF OneToken, NoToken

\* The client writes something other than a message of a registration and stays
\* as registered as it was.
LEMMA SteadyStep ==
  ASSUME LinkInv, NEW r, Steady(cl, r), Write(r, down), UNCHANGED <<br, sock>>,
         r.c.pings = cl.pings \/ (C!Registered(cl) => Has("PING", r.out))
  PROVE  LinkInv'
<1> DEFINE u == up[sock]
           d == down[sock]
<1>1. /\ cl' = r.c /\ up' = [up EXCEPT ![sock] = @ \o r.out] /\ down' = down
      /\ br' = br /\ sock' = sock
  BY DEF Write
<1>2. /\ ClientShape(r.c) /\ IsSeq(r.out) /\ FromClient(r.out) /\ NoneOf(UpTokens, r.out)
      /\ r.c.state = cl.state /\ r.c.registration_loop = cl.registration_loop
      /\ r.c.heartbeat_loop = cl.heartbeat_loop
  BY DEF Steady, Writes
<1>3. C!Registered(r.c) = C!Registered(cl)
  BY <1>2 DEF C!Registered
<1>4. IsSeq(u) /\ IsSeq(d) /\ Channels(sock, up, down)
  BY DEF LinkInv, Channels
<1>5. Channels(sock, up', down) /\ up'[sock] = u \o r.out
  BY <1>1, <1>2, <1>4, UpWritten
<1>6. Tokens(cl, u, d) /\ Loops(cl) /\ Chain(br, cl, sock, u, d) /\ Shape(br)
  BY DEF LinkInv
<1> HIDE DEF u, d
<1>7. Tokens(r.c, u \o r.out, d)
  <2>1. /\ OneToken(u, d) => OneToken(u \o r.out, d)
        /\ NoToken(u, d) => NoToken(u \o r.out, d)
    BY <1>2, <1>4, WrittenTokens
  <2> QED
    BY <1>3, <1>6, <2>1 DEF Tokens
<1>8. Loops(r.c)
  BY <1>2, <1>3, <1>6 DEF Loops
<1>9. Has("PING", u) \/ Has("PING", r.out) => Has("PING", u \o r.out)
  BY <1>2, <1>4, ConcatHas
<1>10. Chain(br, r.c, sock, u \o r.out, d)
  BY <1>3, <1>6, <1>9 DEF Chain
<1>11. Channels(sock', up', down') /\ up'[sock'] = u \o r.out /\ down'[sock'] = d
  BY <1>1, <1>5 DEF d
<1> QED
  BY <1>1, <1>2, <1>6, <1>7, <1>8, <1>10, <1>11, LinkInvNext

\* The client gives the broker up: one timer ends, the other one starts.
LEMMA HeartbeatStep ==
  ASSUME LinkInv, Heartbeat
  PROVE  LinkInv'
<1> DEFINE r == C!s_heartbeat(cl)
<1>1. cl.heartbeat_loop > 0 /\ Write(r, down) /\ br' = br /\ sock' = sock
  BY DEF Heartbeat
<1>2. ClientShape(cl) /\ Loops(cl) /\ Channels(sock, up, down) /\ Shape(br)
      /\ Tokens(cl, up[sock], down[sock])
  BY DEF LinkInv
<1>3. /\ Writes(r) /\ r.out = <<>> /\ r.c.pings = cl.pings
      /\ \/ Steady(cl, r)
         \/ /\ r.c.state = "UNREG" /\ r.c.heartbeat_loop = cl.heartbeat_loop - 1
            /\ r.c.registration_loop = cl.registration_loop + 1
  BY <1>2, HeartbeatSwaps
<1> HIDE DEF r
<1>4. CASE Steady(cl, r)
  BY <1>1, <1>3, <1>4, SteadyStep
<1>5. CASE /\ r.c.state = "UNREG" /\ r.c.heartbeat_loop = cl.heartbeat_loop - 1
           /\ r.c.registration_loop = cl.registration_loop + 1
  <2>1. ~C!Registered(r.c) /\ ClientShape(r.c)
    BY <1>3, <1>5 DEF C!Registered, Writes
  <2>2. Loops(r.c)
    BY <1>1, <1>2, <1>5, <2>1 DEF Loops
  <2>3. /\ cl' = r.c /\ up' = [up EXCEPT ![sock] = @ \o r.out] /\ down' = down
    BY <1>1 DEF Write
  <2>4. IsSeq(<<>>) /\ FromClient(<<>>) /\ NoneOf(UpTokens, <<>>)
    BY ShortSeqs DEF FromClient
  <2>5. Channels(sock, up', down) /\ up'[sock] = up[sock] \o <<>>
    BY <1>2, <1>3, <2>3, <2>4, UpWritten
  <2>6. OneToken(up[sock] \o <<>>, down[sock])
    <3>1. IsSeq(up[sock]) /\ OneToken(up[sock], down[sock])
      BY <1>2 DEF Tokens, Channels
    <3> QED
      BY <2>4, <3>1, WrittenTokens
  <2>7. Tokens(r.c, up'[sock], down[sock]) /\ Chain(br, r.c, sock, up'[sock], down[sock])
    BY <2>1, <2>5, <2>6, UnregisteredOK
  <2> QED
    BY <1>1, <1>2, <2>1, <2>2, <2>3, <2>5, <2>7, LinkInvNext
<1> QED
  BY <1>3, <1>4, <1>5

\* A new attempt to register, on a new socket.
LEMMA AskStep ==
  ASSUME LinkInv, AskRegistration
  PROVE  LinkInv'
<1> DEFINE q == <<C!Msg("ADDLCL")>>
<1>1. ~C!Registered(cl) /\ br' = br
  BY DEF AskRegistration
<1>2. C!s_ask_registration(cl).c = cl /\ C!s_ask_registration(cl).out = q
  BY <1>1 DEF C!s_ask_registration, C!Result
<1>3. cl' = cl /\ Reopen(<<>>, q)
  BY <1>2 DEF AskRegistration
<1>4. IsSeq(q) /\ FromClient(q) /\ OneOf(UpTokens, q)
  BY ShortSeqs DEF FromClient, C!Msg, ClientCmds
<1> HIDE DEF q
<1>5. IsSeq(<<>>) /\ FromClient(<<>>)
  BY ShortSeqs DEF FromClient
<1>6. Channels(sock', up', down') /\ up'[sock'] = q /\ down'[sock'] = <<>>
  BY <1>3, <1>4, <1>5, Reopened DEF LinkInv
<1>7. OneToken(q, <<>>)
  BY <1>4, ShortSeqs DEF OneToken
<1>8. Tokens(cl, q, <<>>) /\ Chain(br', cl, sock', q, <<>>)
  BY <1>1, <1>7, UnregisteredOK
<1>9. Shape(br) /\ ClientShape(cl) /\ Loops(cl)
  BY DEF LinkInv
<1> QED
  BY <1>1, <1>3, <1>6, <1>8, <1>9, LinkInvNext

\* The application is started again.
LEMMA RestartStep ==
  ASSUME LinkInv, RestartClient
  PROVE  LinkInv'
<1> DEFINE q == C!IfRegistered(cl, <<C!Msg("UNREG")>>)
<1>1. cl' = C!NewClient /\ Reopen(q, <<>>) /\ br' = br
  BY DEF RestartClient, C!dd_destroy, C!Result
<1>2. C!Msg("UNREG").cmd \in ClientCmds \ UpTokens
  BY DEF C!Msg, ClientCmds, UpTokens
<1>3. IsSeq(q) /\ FromClient(q)
  BY <1>2, IfRegisteredWrites
<1> HIDE DEF q
<1>4. IsSeq(<<>>) /\ FromClient(<<>>)
  BY ShortSeqs DEF FromClient
<1>5. Channels(sock', up', down') /\ up'[sock'] = <<>> /\ down'[sock'] = <<>>
  BY <1>1, <1>3, <1>4, Reopened DEF LinkInv
<1>6. OneToken(<<>>, <<>>)
  BY ShortSeqs DEF OneToken
<1>7. ClientShape(cl') /\ Loops(cl') /\ ~C!Registered(cl')
  BY <1>1, NewClientOK
<1>8. Tokens(cl', <<>>, <<>>) /\ Chain(br', cl', sock', <<>>, <<>>)
  BY <1>6, <1>7, UnregisteredOK
<1>9. Shape(br')
  BY <1>1 DEF LinkInv
<1> QED
  BY <1>5, <1>7, <1>8, <1>9, LinkInvNext

\* Tokens after the client read a message and wrote q.
LEMMA ReadTokens ==
  ASSUME NEW u, IsSeq(u), NEW d, IsSeq(d), d # <<>>, NEW q, IsSeq(q), OneToken(u, d)
  PROVE  /\ Head(d).cmd \notin DownTokens /\ NoneOf(UpTokens, q) =>
              OneToken(u \o q, Tail(d)) /\ (NoToken(u, d) => NoToken(u \o q, Tail(d)))
         /\ Head(d).cmd \in DownTokens =>
              /\ ~NoToken(u, d)
              /\ OneOf(UpTokens, q) => OneToken(u \o q, Tail(d))
              /\ NoneOf(UpTokens, q) => NoToken(u \o q, Tail(d)) /\ OneToken(u \o q, Tail(d))
<1>1. /\ NoneOf(DownTokens, d) => NoneOf(DownTokens, Tail(d)) /\ Head(d).cmd \notin DownTokens
      /\ OneOf(DownTokens, d) => OneOf(DownTokens, Tail(d))
      /\ OneOf(DownTokens, d) /\ Head(d).cmd \in DownTokens => NoneOf(DownTokens, Tail(d))
  BY TailTokens
<1>2. /\ NoneOf(UpTokens, u) /\ NoneOf(UpTokens, q) => NoneOf(UpTokens, u \o q)
      /\ NoneOf(UpTokens, u) /\ OneOf(UpTokens, q) => OneOf(UpTokens, u \o q)
      /\ OneOf(UpTokens, u) /\ NoneOf(UpTokens, q) => OneOf(UpTokens, u \o q)
  BY ConcatTokens
<1>3. NoneOf(UpTokens, q) => OneOf(UpTokens, q)
  BY DEF NoneOf, OneOf
<1> QED
  BY <1>1, <1>2, <1>3 DEF OneToken, NoToken

\* Tokens after the broker read a message and answered q.
LEMMA AnsweredTokens ==
  ASSUME NEW u, IsSeq(u), NEW d, IsSeq(d), NEW q, IsSeq(q), OneOf(DownTokens, q),
         OneToken(u, d)
  PROVE  /\ NoneOf(DownTokens, q) =>
              OneToken(u, d \o q) /\ (NoToken(u, d) => NoToken(u, d \o q))
         /\ u # <<>> /\ NoneOf(DownTokens, q) =>
              OneToken(Tail(u), d \o q) /\ (NoToken(u, d) => NoToken(Tail(u), d \o q))
         /\ u # <<>> /\ Head(u).cmd \in UpTokens =>
              OneToken(Tail(u), d \o q) /\ ~NoToken(u, d)
<1>1. u # <<>> =>
        /\ NoneOf(UpTokens, u) => NoneOf(UpTokens, Tail(u)) /\ Head(u).cmd \notin UpTokens
        /\ OneOf(UpTokens, u) => OneOf(UpTokens, Tail(u))
        /\ OneOf(UpTokens, u) /\ Head(u).cmd \in UpTokens => NoneOf(UpTokens, Tail(u))
  BY TailTokens
<1>2. /\ NoneOf(DownTokens, d) /\ NoneOf(DownTokens, q) => NoneOf(DownTokens, d \o q)
      /\ NoneOf(DownTokens, d) /\ OneOf(DownTokens, q) => OneOf(DownTokens, d \o q)
      /\ OneOf(DownTokens, d) /\ NoneOf(DownTokens, q) => OneOf(DownTokens, d \o q)
  BY ConcatTokens
<1> QED
  BY <1>1, <1>2 DEF OneToken, NoToken

\* The client hears from the broker.  A REGOK comes only to a client that is not
\* registered, and the client answers it with the first PING.
LEMMA DealerStep ==
  ASSUME LinkInv, DealerMsg
  PROVE  LinkInv'
<1> DEFINE u == up[sock]
           d == down[sock]
           m == Head(d)
           r == C!s_on_dealer_msg(cl, m)
<1>1. /\ d # <<>> /\ cl' = r.c /\ up' = [up EXCEPT ![sock] = @ \o r.out]
      /\ down' = [down EXCEPT ![sock] = Tail(d)] /\ br' = br /\ sock' = sock
  BY DEF DealerMsg, Write
<1>2. /\ ClientShape(cl) /\ Loops(cl) /\ Channels(sock, up, down) /\ Shape(br)
      /\ Tokens(cl, u, d) /\ Chain(br, cl, sock, u, d)
  BY DEF LinkInv
<1>3. IsSeq(u) /\ IsSeq(d)
  BY <1>2 DEF Channels
<1>4. /\ Writes(r)
      /\ r.c.pings = IF m.cmd = "PONG" THEN cl.pings + 1 ELSE cl.pings
      /\ m.cmd \notin DownTokens => Steady(cl, r) /\ r.out = <<>>
      /\ m.cmd = "CHALL" => /\ r.out = <<C!Msg("CHALLOK")>>
                            /\ r.c.state = cl.state
                            /\ r.c.registration_loop = cl.registration_loop
                            /\ r.c.heartbeat_loop = cl.heartbeat_loop
      /\ m.cmd = "REGOK" =>
           /\ C!Registered(r.c) /\ r.c.heartbeat_loop = cl.heartbeat_loop + 1
           /\ r.c.registration_loop = TimersLeft(cl)
           /\ NoneOf(UpTokens, r.out) /\ Has("PING", r.out)
  BY <1>2, DealerAnswers
<1> HIDE DEF r
<1>5. ClientShape(r.c) /\ IsSeq(r.out) /\ FromClient(r.out)
  BY <1>4 DEF Writes
<1>6. Channels(sock, up', down) /\ up'[sock] = u \o r.out
  BY <1>1, <1>2, <1>5, UpWritten
<1>7. IsSeq(Tail(d))
  BY <1>1, <1>3, TailHas
<1>8. /\ Channels(sock', up', down') /\ up'[sock'] = u \o r.out /\ down'[sock'] = Tail(d)
  <2> DEFINE t == Tail(d)
             e == [down EXCEPT ![sock] = t]
  <2>1. down' = e
    BY <1>1
  <2> HIDE DEF t
  <2>2. IsSeq(t)
    BY <1>7 DEF t
  <2>3. Channels(sock, up', e) /\ e[sock] = t
    BY <1>6, <2>2, DownChanged
  <2> HIDE DEF e
  <2> QED
    BY <1>1, <1>6, <2>1, <2>3 DEF t
<1>9. /\ m.cmd \notin DownTokens /\ NoneOf(UpTokens, r.out) =>
           /\ OneToken(u \o r.out, Tail(d))
           /\ NoToken(u, d) => NoToken(u \o r.out, Tail(d))
      /\ m.cmd \in DownTokens =>
           /\ ~NoToken(u, d)
           /\ OneOf(UpTokens, r.out) => OneToken(u \o r.out, Tail(d))
           /\ NoneOf(UpTokens, r.out) => /\ NoToken(u \o r.out, Tail(d))
                                         /\ OneToken(u \o r.out, Tail(d))
  BY <1>1, <1>2, <1>3, <1>5, ReadTokens DEF Tokens
<1>10. Has("PING", u) \/ Has("PING", r.out) => Has("PING", u \o r.out)
  BY <1>3, <1>5, ConcatHas
<1>11. Has("PONG", d) => m.cmd = "PONG" \/ Has("PONG", Tail(d))
  BY <1>1, <1>3, TailHas
<1> HIDE DEF u, d, m
<1>12. CASE m.cmd \notin DownTokens
  <2>1. /\ NoneOf(UpTokens, r.out) /\ r.c.state = cl.state
        /\ r.c.registration_loop = cl.registration_loop
        /\ r.c.heartbeat_loop = cl.heartbeat_loop
    BY <1>4, <1>12 DEF Steady
  <2>2. C!Registered(r.c) = C!Registered(cl)
    BY <2>1 DEF C!Registered
  <2>3. Tokens(r.c, u \o r.out, Tail(d))
    BY <1>2, <1>9, <1>12, <2>1, <2>2 DEF Tokens
  <2>4. Loops(r.c)
    BY <1>2, <2>1, <2>2 DEF Loops
  <2>5. cl.pings \in Nat
    BY <1>2 DEF ClientShape
  <2>6. Chain(br, r.c, sock, u \o r.out, Tail(d))
    BY <1>2, <1>4, <1>10, <1>11, <2>2, <2>5 DEF Chain
  <2> QED
    BY <1>1, <1>2, <1>5, <1>8, <2>3, <2>4, <2>6, LinkInvNext
<1>13. CASE m.cmd = "CHALL"
  <2>1. ~C!Registered(cl)
    BY <1>2, <1>9, <1>13 DEF Tokens, DownTokens
  <2>2. ~C!Registered(r.c) /\ Loops(r.c)
    BY <1>2, <1>4, <1>13, <2>1 DEF Loops, C!Registered
  <2>3. OneOf(UpTokens, r.out)
    BY <1>4, <1>13, ShortSeqs
  <2>4. OneToken(u \o r.out, Tail(d))
    BY <1>9, <1>13, <2>3 DEF DownTokens
  <2>5. Tokens(r.c, u \o r.out, Tail(d)) /\ Chain(br, r.c, sock, u \o r.out, Tail(d))
    BY <2>2, <2>4, UnregisteredOK
  <2> QED
    BY <1>1, <1>2, <1>5, <1>8, <2>2, <2>5, LinkInvNext
<1>14. CASE m.cmd = "REGOK"
  <2>1. ~C!Registered(cl)
    BY <1>2, <1>9, <1>14 DEF Tokens, DownTokens
  <2>2. Loops(r.c)
    BY <1>2, <1>4, <1>14, <2>1 DEF Loops, TimersLeft
  <2>3. NoToken(u \o r.out, Tail(d)) /\ OneToken(u \o r.out, Tail(d))
    BY <1>4, <1>9, <1>14 DEF DownTokens
  <2>4. Tokens(r.c, u \o r.out, Tail(d))
    BY <2>3 DEF Tokens
  <2>5. Chain(br, r.c, sock, u \o r.out, Tail(d))
    BY <1>4, <1>10, <1>14 DEF Chain
  <2> QED
    BY <1>1, <1>2, <1>5, <1>8, <2>2, <2>4, <2>5, LinkInvNext
<1> QED
  BY <1>12, <1>13, <1>14 DEF DownTokens

\* The broker hears from a client: from this one, or from a socket it has closed,
\* whose answers go nowhere.
LEMMA ReceiveStep ==
  ASSUME LinkInv, ReceiveUp
  PROVE  LinkInv'
<1>1. PICK s \in Sockids :
        /\ up[s] # <<>>
        /\ br' = RouterMsg(s, Head(up[s])).b
        /\ down' = [down EXCEPT ![sock] = @ \o Back(RouterMsg(s, Head(up[s])), sock)]
        /\ up' = [up EXCEPT ![s] = Tail(@)]
        /\ cl' = cl /\ sock' = sock /\ skipped' = skipped
  BY DEF ReceiveUp, Back
<1> DEFINE u == up[sock]
           d == down[sock]
           m == Head(up[s])
           r == RouterMsg(s, m)
           q == Back(r, sock)
           v == IF s = sock THEN Tail(u) ELSE u
<1>2. /\ ClientShape(cl) /\ Loops(cl) /\ Channels(sock, up, down) /\ Shape(br)
      /\ Tokens(cl, u, d) /\ Chain(br, cl, sock, u, d)
  BY DEF LinkInv
<1>3. IsSeq(u) /\ IsSeq(d) /\ sock \in Sockids
  BY <1>2 DEF Channels
<1>4. Channels(sock, up', down) /\ m.cmd \in ClientCmds /\ up'[sock] = v
  BY <1>1, <1>2, UpRead
<1>5. /\ Shape(r.b) /\ AnswersOnce(r)
      /\ DOMAIN r.b.lcl_cli \subseteq DOMAIN br.lcl_cli \cup {Key(s)}
      /\ m.cmd # "CHALLOK" => DOMAIN r.b.lcl_cli \subseteq DOMAIN br.lcl_cli
      /\ \A o \in r.rout : o.m.cmd \in DownTokens => o.to = s /\ m.cmd \in UpTokens
      /\ m.cmd = "PING" /\ HasLocal(br, Key(s)) =>
           \E o \in r.rout : o.to = s /\ o.m.cmd = "PONG"
  BY <1>2, <1>4, RouterAnswers
<1> HIDE DEF r
<1>6. /\ IsSeq(q) /\ OneOf(DownTokens, q)
      /\ \A i \in DOMAIN q : \E o \in r.rout : o.to = sock /\ o.m = q[i]
      /\ \A o \in r.rout : o.to = sock => Has(o.m.cmd, q)
  BY <1>5, BackIsShort
<1> HIDE DEF q
<1>7. NoneOf(DownTokens, q) \/ (s = sock /\ m.cmd \in UpTokens)
  BY <1>5, <1>6 DEF NoneOf
<1>8. IsSeq(d \o q)
  BY <1>3, <1>6, ConcatHas
<1>9. Channels(sock', up', down') /\ up'[sock'] = v /\ down'[sock'] = d \o q
  <2> DEFINE w == d \o q
             e == [down EXCEPT ![sock] = w]
  <2>1. down' = e
    BY <1>1 DEF q, r
  <2> HIDE DEF w
  <2>2. IsSeq(w)
    BY <1>8 DEF w
  <2>3. Channels(sock, up', e) /\ e[sock] = w
    BY <1>4, <2>2, DownChanged
  <2> HIDE DEF e
  <2> QED
    BY <1>1, <1>4, <2>1, <2>3 DEF w
<1>10. Tokens(cl, v, d \o q)
  <2>1. /\ NoneOf(DownTokens, q) =>
             OneToken(u, d \o q) /\ (NoToken(u, d) => NoToken(u, d \o q))
        /\ u # <<>> /\ NoneOf(DownTokens, q) =>
             OneToken(Tail(u), d \o q) /\ (NoToken(u, d) => NoToken(Tail(u), d \o q))
        /\ u # <<>> /\ Head(u).cmd \in UpTokens =>
             OneToken(Tail(u), d \o q) /\ ~NoToken(u, d)
    BY <1>2, <1>3, <1>6, AnsweredTokens DEF Tokens
  <2> QED
    BY <1>1, <1>2, <1>7, <2>1 DEF Tokens
<1>11. Chain(r.b, cl, sock, v, d \o q)
  <2> SUFFICES ASSUME C!Registered(cl), HasLocal(r.b, Key(sock)), ~(cl.pings > 0)
               PROVE  Has("PING", v) \/ Has("PONG", d \o q)
    BY DEF Chain
  <2>1. HasLocal(br, Key(sock))
    <3>1. s = sock => m.cmd # "CHALLOK"
      <4>1. NoToken(u, d)
        BY <1>2 DEF Tokens
      <4>2. u # <<>> => Head(u).cmd \notin UpTokens
        BY <1>3, <4>1, TailTokens DEF NoToken
      <4> QED
        BY <1>1, <4>2 DEF UpTokens
    <3>2. Key(sock) = Key(s) => sock = s
      BY DEF Key
    <3> QED
      BY <1>5, <3>1, <3>2 DEF HasLocal
  <2>2. Has("PING", u) \/ Has("PONG", d)
    BY <1>2, <2>1 DEF Chain
  <2>3. Has("PONG", d) \/ Has("PONG", q) => Has("PONG", d \o q)
    BY <1>3, <1>6, ConcatHas
  <2>4. CASE s = sock /\ Has("PING", u)
    <3>1. m.cmd = "PING" \/ Has("PING", v)
      BY <1>1, <1>3, <2>4, TailHas
    <3>2. m.cmd = "PING" => Has("PONG", q)
      BY <1>5, <1>6, <2>1, <2>4
    <3> QED
      BY <2>3, <3>1, <3>2
  <2> QED
    BY <2>2, <2>3, <2>4
<1> QED
  BY <1>1, <1>2, <1>5, <1>9, <1>10, <1>11, LinkInvNext DEF r

\* A broker that times a client out has no client that it did not have.
LEMMA CheckStep ==
  ASSUME LinkInv, CheckCliTimeout
  PROVE  LinkInv'
<1>1. br' = s_check_cli_timeout(br, <<>>).b /\ UNCHANGED <<cl, sock, up, down>>
  BY DEF CheckCliTimeout
<1>2. Shape(br)
  BY DEF LinkInv
<1>3. NoneAdded(br, br')
  BY <1>1, <1>2, ShortSeqs, BrokersCalm DEF Calm
<1>4. Shape(br') /\ (HasLocal(br', Key(sock)) => HasLocal(br, Key(sock)))
  BY <1>3 DEF NoneAdded, HasLocal
<1>5. Chain(br', cl, sock, up[sock], down[sock])
  BY <1>4 DEF LinkInv, Chain
<1> QED
  BY <1>1, <1>4, <1>5, LinkInvNext DEF LinkInv

\* A broker that starts again has no client.
LEMMA CrashStep ==
  ASSUME LinkInv, Crash
  PROVE  LinkInv'
<1>1. br' = NewBroker(ROOT) /\ UNCHANGED <<cl, sock, down>>
  BY DEF Crash
<1>2. Shape(br') /\ ~HasLocal(br', Key(sock))
  BY <1>1 DEF NewBroker, Shape, BrokerFields, HasLocal
<1>3. up' = up \/ up' = [s \in Sockids |-> <<>>]
  BY DEF Crash
<1>4. IsSeq(<<>>) /\ FromClient(<<>>) /\ NoneOf(UpTokens, <<>>) /\ OneOf(UpTokens, <<>>)
  BY ShortSeqs DEF FromClient
<1>5. Channels(sock, up', down)
  BY <1>3, <1>4 DEF LinkInv, Channels
<1>6. up'[sock] \in {up[sock], <<>>}
  BY <1>3 DEF LinkInv, Channels
<1>7. Tokens(cl, up'[sock], down[sock])
  BY <1>4, <1>6 DEF LinkInv, Tokens, OneToken, NoToken
<1>8. Chain(br', cl, sock, up'[sock], down[sock])
  BY <1>2 DEF Chain
<1> QED
  BY <1>1, <1>2, <1>5, <1>7, <1>8, LinkInvNext DEF LinkInv

\* Every step of the client and of the broker keeps LinkInv.
LEMMA NextLink == LinkInv /\ [Next]_vars => LinkInv'
<1> SUFFICES ASSUME LinkInv, [Next]_vars PROVE LinkInv'
  OBVIOUS
<1>0. ClientShape(cl)
  BY DEF LinkInv
<1>1. CASE AskRegistration
  BY <1>1, AskStep
<1>2. CASE Heartbeat
  BY <1>2, HeartbeatStep
<1>3. CASE Ping
  <2>1. cl.pings > 0 /\ Write(C!s_ping(cl), down) /\ UNCHANGED <<br, sock>>
    BY <1>3 DEF Ping
  <2>2. Steady(cl, C!s_ping(cl)) /\ (C!Registered(cl) => C!s_ping(cl).out = <<C!Msg("PING")>>)
    BY <1>0, <2>1, PingSteady
  <2>3. Has("PING", <<C!Msg("PING")>>)
    BY DEF Has, C!Msg
  <2> QED
    BY <2>1, <2>2, <2>3, SteadyStep
<1>4. CASE DealerMsg
  BY <1>4, DealerStep
<1>5. CASE PipeMsg
  <2>1. PICK m \in Calls : Write(C!s_on_pipe_msg(cl, m), down) /\ UNCHANGED <<br, sock>>
    BY <1>5 DEF PipeMsg
  <2>2. Steady(cl, C!s_on_pipe_msg(cl, m)) /\ C!s_on_pipe_msg(cl, m).c.pings = cl.pings
    BY <1>0, CallsSteady
  <2> QED
    BY <2>1, <2>2, SteadyStep
<1>6. CASE RestartClient
  BY <1>6, RestartStep
<1>7. CASE ReceiveUp
  BY <1>7, ReceiveStep
<1>8. CASE CheckCliTimeout
  BY <1>8, CheckStep
<1>9. CASE Crash
  BY <1>9, CrashStep
<1>10. CASE UNCHANGED vars
  BY <1>10 DEF vars, LinkInv
<1> QED
  BY <1>1, <1>2, <1>3, <1>4, <1>5, <1>6, <1>7, <1>8, <1>9, <1>10 DEF Next

\* LinkInv holds in every reachable state.
THEOREM LinkInvariant == Spec => []LinkInv
BY InitLink, NextLink, PTL DEF Spec

\* One of the client's two timers runs: it asks for registration exactly while it
\* is not registered, and counts heartbeats exactly while it is.
THEOREM ClientKeepsOneLoop == Spec => []OneLoop
<1>1. LinkInv => OneLoop
  BY DEF LinkInv, Loops, OneLoop
<1> QED
  BY <1>1, LinkInvariant, PTL

\* While client and broker agree that the client is registered, the chain of PINGs
\* and PONGs is not broken.
THEOREM PingChainHolds == Spec => []PingChain
<1>1. LinkInv => PingChain
  BY DEF LinkInv, Chain, Has, Held, PingChain
<1> QED
  BY <1>1, LinkInvariant, PTL

(***************************************************************************)
(* Subscriptions.  While the loops on the client's list have begun at its  *)
(* first entry, whoever is on the list is on its way to the trie or there  *)
(* already, and its confirmation on its way back or here already, because  *)
(* the messages that end a subscription are in order with those that make  *)
(* one.  Once a loop has passed over an entry, only a REGOK that finds the *)
(* cursor before the list and no entry twice makes this true again.        *)
(***************************************************************************)
Subscribing == {m \in Calls : m.call \in {"subscribe", "unsubscribe"}}

\* The application uses one scope for each topic and leaves the protected topic
\* alone.
OneScope ==
  \A m \in Subscribing :
    /\ m.topic \in Seq(Labels)
    /\ m.call = "subscribe" => m.topic # <<"public">>
    /\ \A n \in Subscribing : n.topic = m.topic => C!ScopeStr(n.scope) = C!ScopeStr(m.scope)

\* An entry of the list, which a call of dd_subscribe has made.
FromCall(item) ==
  \E m \in Subscribing :
    /\ m.call = "subscribe"
    /\ item = [topic |-> m.topic, scope |-> C!ScopeStr(m.scope), active |-> item.active]

Entries(list) == IsSeq(list) /\ \A i \in DOMAIN list : FromCall(list[i])

\* No topic is on the list twice.
ListOK(list) ==
  /\ Entries(list)
  /\ \A i, j \in DOMAIN list : list[i].topic = list[j].topic => i = j

\* Messages that make, end and confirm a subscription.
IsSub(m, item) == m.cmd = "SUB" /\ m.topic = item.topic /\ m.scope = item.scope
Ends(m, x) == m.cmd = "UNSUB" /\ SubTopic(Tenant, m.topic, m.scope, Scope) = x
IsSubok(m, item) == m.cmd = "SUBOK" /\ m.topic = item.topic /\ m.scope = item.scope

Asks(q, item) == \E i \in DOMAIN q : IsSub(q[i], item)
Ended(q, x) == \E i \in DOMAIN q : Ends(q[i], x)
Confirms(q, item) == \E i \in DOMAIN q : IsSubok(q[i], item)

\* It is asked for and not ended after that.
Asked(q, item) ==
  \E i \in DOMAIN q :
    IsSub(q[i], item) /\ \A j \in DOMAIN q : j > i => ~Ends(q[j], BrokerTopic(item))

Wanted(b, s, u, item) ==
  Asked(u, item) \/ (On(b, s, BrokerTopic(item)) /\ ~Ended(u, BrokerTopic(item)))

Confirmed(u, d, item) == item.active \/ Asks(u, item) \/ Confirms(d, item)

Kept(b, s, u, d, list) ==
  \A i \in DOMAIN list : Wanted(b, s, u, list[i]) /\ Confirmed(u, d, list[i])

\* Only this client registers with the broker, under whatever socket.
KeysOwn(b) == \A k \in DOMAIN b.lcl_cli : k = Key(k[1])

SubsInv ==
  /\ KeysOwn(br) /\ TrieCounts(br) /\ Entries(cl.sublist)
  /\ ~skipped =>
       /\ ListOK(cl.sublist)
       /\ C!Registered(cl) /\ HasLocal(br, Key(sock)) =>
            Kept(br, sock, up[sock], down[sock], cl.sublist)

\* Topics with different names stay different at the broker, whatever their scopes.
LEMMA TopicsApart ==
  ASSUME NEW p \in Seq(Labels), NEW q \in Seq(Labels), NEW sp, IsSeq(sp), NEW sq, IsSeq(sq),
         SubTopic(Tenant, p, sp, Scope) = SubTopic(Tenant, q, sq, Scope)
  PROVE  p = q
<1> DEFINE x == SubTopic(Tenant, p, sp, Scope)
<1>1. ASSUME NEW a \in Seq(Labels), NEW s, IsSeq(s)
      PROVE  LET y == SubTopic(Tenant, a, s, Scope)
             IN /\ \A i \in 1 .. Len(a) : i + 1 \in DOMAIN y /\ y[i + 1] = a[i]
                /\ \A i \in DOMAIN y : i = Len(a) + 2 => y[i] = "/"
                /\ Len(y) = Len(a) + 1 \/ Len(y) >= Len(a) + 2
                /\ Len(y) \in Nat /\ DOMAIN y = 1 .. Len(y)
  <2> DEFINE R == Range(s)
             f == [j \in DOMAIN s |-> IF s[j] = "*" THEN Scope[j] ELSE s[j]]
             pre == <<Tenant>> \o a
             sc == ScopeOf(s, Scope)
             y == SubTopic(Tenant, a, s, Scope)
             S == Range(f) \cup Labels \cup {"/", Tenant}
  <2>1. s \in Seq(R)
    BY <1>1 DEF IsSeq
  <2> HIDE DEF R
  <2>2. DOMAIN s = 1 .. Len(s) /\ Len(s) \in Nat
    BY <2>1
  <2>3. f \in [1 .. Len(s) -> Range(f)]
    BY <2>2 DEF Range
  <2>4. sc = <<>> \/ sc = <<"/">> \o f
    BY DEF ScopeOf
  <2>5. y = pre \o sc
    BY DEF SubTopic, PrefixName
  <2>6. Range(f) \subseteq S /\ Labels \subseteq S /\ "/" \in S /\ Tenant \in S
    OBVIOUS
  <2> HIDE DEF S, y
  <2>7. f \in Seq(S) /\ a \in Seq(S)
    <3>1. Len(s) \in Nat /\ DOMAIN f = 1 .. Len(s) /\ \A i \in DOMAIN f : f[i] \in S
      BY <2>2, <2>6 DEF Range
    <3>2. f \in Seq(S)
      BY <3>1
    <3>3. a \in Seq(S)
      BY <2>6
    <3> QED
      BY <3>2, <3>3
  <2> HIDE DEF f
  <2>8. <<"/">> \in Seq(S) /\ <<>> \in Seq(S) /\ <<Tenant>> \in Seq(S)
    BY <2>6
  <2>9. /\ pre \in Seq(S) /\ Len(pre) = Len(a) + 1
        /\ \A i \in 1 .. Len(a) : i + 1 \in 1 .. Len(pre) /\ pre[i + 1] = a[i]
    BY <2>7, <2>8
  <2>10. sc \in Seq(S) /\ (Len(sc) = 0 \/ (Len(sc) > 0 /\ sc[1] = "/"))
    <3>1. CASE sc = <<>>
      BY <2>8, <3>1
    <3>2. CASE sc = <<"/">> \o f
      <4> HIDE DEF sc
      <4>1. sc \in Seq(S) /\ Len(sc) = 1 + Len(f) /\ Len(f) \in Nat
        BY <2>7, <2>8, <3>2
      <4>2. sc[1] = "/"
        BY <2>7, <2>8, <3>2
      <4> QED
        BY <4>1, <4>2
    <3> QED
      BY <2>4, <3>1, <3>2
  <2> HIDE DEF pre, sc
  <2>11. pre \in Seq(S) /\ sc \in Seq(S)
    BY <2>9, <2>10
  <2>12. /\ y \in Seq(S) /\ Len(y) = Len(pre) + Len(sc) /\ Len(pre) \in Nat /\ Len(sc) \in Nat
         /\ \A i \in 1 .. Len(pre) : y[i] = pre[i]
         /\ \A i \in 1 .. Len(sc) : y[Len(pre) + i] = sc[i]
    BY <2>5, <2>11
  <2>13. DOMAIN y = 1 .. Len(y) /\ Len(y) \in Nat /\ Len(a) \in Nat
    BY <2>12
  <2>14. \A i \in 1 .. Len(a) : i + 1 \in DOMAIN y /\ y[i + 1] = a[i]
    BY <2>9, <2>12, <2>13
  <2>15. Len(y) = Len(a) + 1 \/ Len(y) >= Len(a) + 2
    BY <2>9, <2>12, <2>13
  <2>16. ASSUME NEW i \in DOMAIN y, i = Len(a) + 2 PROVE y[i] = "/"
    <3>1. Len(sc) > 0
      BY <2>9, <2>12, <2>13, <2>16
    <3>2. sc[1] = "/" /\ 1 \in 1 .. Len(sc)
      BY <2>10, <2>12, <3>1
    <3>3. i = Len(pre) + 1
      BY <2>9, <2>13, <2>16
    <3>4. (pre \o sc)[Len(pre) + 1] = sc[1]
      BY <2>11, <3>2
    <3> QED
      BY <2>5, <3>2, <3>3, <3>4
  <2> QED
    BY <2>13, <2>14, <2>15, <2>16 DEF y
<1>2. x = SubTopic(Tenant, q, sq, Scope)
  OBVIOUS
<1>3. /\ \A i \in 1 .. Len(p) : i + 1 \in DOMAIN x /\ x[i + 1] = p[i]
      /\ \A i \in DOMAIN x : i = Len(p) + 2 => x[i] = "/"
      /\ Len(x) = Len(p) + 1 \/ Len(x) >= Len(p) + 2
      /\ Len(x) \in Nat /\ DOMAIN x = 1 .. Len(x)
  BY <1>1
<1>4. /\ \A i \in 1 .. Len(q) : i + 1 \in DOMAIN x /\ x[i + 1] = q[i]
      /\ \A i \in DOMAIN x : i = Len(q) + 2 => x[i] = "/"
      /\ Len(x) = Len(q) + 1 \/ Len(x) >= Len(q) + 2
  BY <1>1, <1>2
<1> HIDE DEF x
<1>5. /\ Len(p) \in Nat /\ DOMAIN p = 1 .. Len(p) /\ \A i \in 1 .. Len(p) : p[i] \in Labels
      /\ Len(q) \in Nat /\ DOMAIN q = 1 .. Len(q) /\ \A i \in 1 .. Len(q) : q[i] \in Labels
  OBVIOUS
<1>6. ~(Len(p) < Len(q))
  <2> SUFFICES ASSUME Len(p) < Len(q) PROVE FALSE
    OBVIOUS
  <2> DEFINE i == Len(p) + 1
  <2>1. i \in 1 .. Len(q) /\ i + 1 = Len(p) + 2
    BY <1>5
  <2>2. i + 1 \in DOMAIN x /\ x[i + 1] = q[i] /\ q[i] \in Labels
    BY <1>4, <1>5, <2>1
  <2>3. x[i + 1] = "/"
    BY <1>3, <2>1, <2>2
  <2> QED
    BY <2>2, <2>3, NamingAssumption
<1>7. ~(Len(q) < Len(p))
  <2> SUFFICES ASSUME Len(q) < Len(p) PROVE FALSE
    OBVIOUS
  <2> DEFINE i == Len(q) + 1
  <2>1. i \in 1 .. Len(p) /\ i + 1 = Len(q) + 2
    BY <1>5
  <2>2. i + 1 \in DOMAIN x /\ x[i + 1] = p[i] /\ p[i] \in Labels
    BY <1>3, <1>5, <2>1
  <2>3. x[i + 1] = "/"
    BY <1>4, <2>1, <2>2
  <2> QED
    BY <2>2, <2>3, NamingAssumption
<1>8. Len(p) = Len(q)
  <2>1. Len(p) \in Nat /\ Len(q) \in Nat
    BY <1>5
  <2> QED
    BY <1>6, <1>7, <2>1
<1>9. \A i \in 1 .. Len(p) : p[i] = q[i]
  BY <1>3, <1>4, <1>8
<1> QED
  BY <1>5, <1>8, <1>9

(***************************************************************************)
(* What is on its way.                                                     *)
(***************************************************************************)
\* After more is written.
LEMMA WrittenSubs ==
  ASSUME NEW u, IsSeq(u), NEW q, IsSeq(q)
  PROVE  /\ \A x : ~Ended(u, x) /\ ~Ended(q, x) => ~Ended(u \o q, x)
         /\ \A item : Asks(u, item) \/ Asks(q, item) => Asks(u \o q, item)
         /\ \A item : Asked(u, item) /\ ~Ended(q, BrokerTopic(item)) => Asked(u \o q, item)
         /\ \A item : Asked(q, item) => Asked(u \o q, item)
         /\ \A item : Confirms(u, item) \/ Confirms(q, item) => Confirms(u \o q, item)
<1> DEFINE r == u \o q
           n == Len(u)
<1>1. \A i \in DOMAIN u : i \in DOMAIN r /\ r[i] = u[i]
  BY Concat
<1>2. \A i \in DOMAIN q : n + i \in DOMAIN r /\ r[n + i] = q[i]
  BY Concat
<1>3. \A i \in DOMAIN r : \/ i \in DOMAIN u /\ r[i] = u[i]
                          \/ i - n \in DOMAIN q /\ r[i] = q[i - n]
  BY Concat
<1>4. /\ n \in Nat /\ DOMAIN u = 1 .. n /\ (\A i \in DOMAIN q : i \in Int /\ i > 0)
      /\ \A i \in DOMAIN r : i \in Int
  BY Concat DEF IsSeq
<1> HIDE DEF r, n
<1>5. \A x : ~Ended(u, x) /\ ~Ended(q, x) => ~Ended(r, x)
  BY <1>3 DEF Ended
<1>6. \A item : Asks(u, item) \/ Asks(q, item) => Asks(r, item)
  BY <1>1, <1>2 DEF Asks
<1>7. \A item : Confirms(u, item) \/ Confirms(q, item) => Confirms(r, item)
  BY <1>1, <1>2 DEF Confirms
<1>8. ASSUME NEW item, Asked(u, item), ~Ended(q, BrokerTopic(item)) PROVE Asked(r, item)
  <2> DEFINE x == BrokerTopic(item)
  <2>1. PICK i \in DOMAIN u : IsSub(u[i], item) /\ \A j \in DOMAIN u : j > i => ~Ends(u[j], x)
    BY <1>8 DEF Asked
  <2> HIDE DEF x
  <2>2. i \in DOMAIN r /\ IsSub(r[i], item)
    BY <1>1, <2>1
  <2>3. \A j \in DOMAIN r : j > i => ~Ends(r[j], x)
    BY <1>3, <1>8, <2>1 DEF Ended, x
  <2> QED
    BY <2>2, <2>3 DEF Asked, x
<1>9. ASSUME NEW item, Asked(q, item) PROVE Asked(r, item)
  <2> DEFINE x == BrokerTopic(item)
  <2>1. PICK i \in DOMAIN q : IsSub(q[i], item) /\ \A j \in DOMAIN q : j > i => ~Ends(q[j], x)
    BY <1>9 DEF Asked
  <2> HIDE DEF x
  <2>2. n + i \in DOMAIN r /\ IsSub(r[n + i], item)
    BY <1>2, <2>1
  <2>3. ASSUME NEW j \in DOMAIN r, j > n + i PROVE ~Ends(r[j], x)
    <3>1. j \in Int /\ i \in Int /\ i > 0
      BY <1>4
    <3>2. j \notin DOMAIN u /\ j - n > i
      BY <1>4, <2>3, <3>1
    <3>3. j - n \in DOMAIN q /\ r[j] = q[j - n]
      BY <1>3, <3>2
    <3> QED
      BY <2>1, <3>2, <3>3
  <2> QED
    BY <2>2, <2>3 DEF Asked, x
<1> QED
  BY <1>5, <1>6, <1>7, <1>8, <1>9 DEF r

\* After the first one is read.
LEMMA ReadSubs ==
  ASSUME NEW u, IsSeq(u), u # <<>>
  PROVE  /\ \A x : ~Ended(u, x) => ~Ended(Tail(u), x) /\ ~Ends(Head(u), x)
         /\ \A item : Asks(u, item) => IsSub(Head(u), item) \/ Asks(Tail(u), item)
         /\ \A item : Asked(u, item) =>
              \/ Asked(Tail(u), item)
              \/ IsSub(Head(u), item) /\ ~Ended(Tail(u), BrokerTopic(item))
         /\ \A item : Confirms(u, item) => IsSubok(Head(u), item) \/ Confirms(Tail(u), item)
<1> DEFINE r == Tail(u)
           h == Head(u)
<1>1. /\ 1 \in DOMAIN u /\ h = u[1]
      /\ \A i \in DOMAIN r : i + 1 \in DOMAIN u /\ r[i] = u[i + 1] /\ i + 1 # 1
      /\ \A i \in DOMAIN u : i = 1 \/ (i - 1 \in DOMAIN r /\ r[i - 1] = u[i])
  BY AfterHead
<1>2. (\A i \in DOMAIN r : i \in Int /\ i > 0) /\ \A i \in DOMAIN u : i \in Int
  BY AfterHead DEF IsSeq
<1> HIDE DEF r, h
<1>3. \A x : ~Ended(u, x) => ~Ended(r, x) /\ ~Ends(h, x)
  BY <1>1 DEF Ended
<1>4. \A item : Asks(u, item) => IsSub(h, item) \/ Asks(r, item)
  BY <1>1 DEF Asks
<1>5. \A item : Confirms(u, item) => IsSubok(h, item) \/ Confirms(r, item)
  BY <1>1 DEF Confirms
<1>6. ASSUME NEW item, Asked(u, item)
      PROVE  Asked(r, item) \/ (IsSub(h, item) /\ ~Ended(r, BrokerTopic(item)))
  <2> DEFINE x == BrokerTopic(item)
  <2>1. PICK i \in DOMAIN u : IsSub(u[i], item) /\ \A j \in DOMAIN u : j > i => ~Ends(u[j], x)
    BY <1>6 DEF Asked
  <2> HIDE DEF x
  <2>2. CASE i = 1
    <3>1. IsSub(h, item)
      BY <1>1, <2>1, <2>2
    <3>2. ASSUME NEW j \in DOMAIN r PROVE ~Ends(r[j], x)
      <4>1. j + 1 \in DOMAIN u /\ r[j] = u[j + 1] /\ j + 1 > i
        BY <1>1, <1>2, <2>2
      <4> QED
        BY <2>1, <4>1
    <3> QED
      BY <3>1, <3>2 DEF Ended, x
  <2>3. CASE i # 1
    <3>1. i - 1 \in DOMAIN r /\ IsSub(r[i - 1], item)
      BY <1>1, <2>1, <2>3
    <3>2. ASSUME NEW j \in DOMAIN r, j > i - 1 PROVE ~Ends(r[j], x)
      <4>1. j + 1 \in DOMAIN u /\ r[j] = u[j + 1] /\ j + 1 > i
        BY <1>1, <1>2, <3>2
      <4> QED
        BY <2>1, <4>1
    <3> QED
      BY <3>1, <3>2 DEF Asked, x
  <2> QED
    BY <2>2, <2>3
<1> QED
  BY <1>3, <1>4, <1>5, <1>6 DEF r, h

(***************************************************************************)
(* The list keeps one entry for each topic.                                *)
(***************************************************************************)
SameItem(x, y) == x.topic = y.topic /\ x.scope = y.scope

\* Two entries of one topic are of one scope; two entries that the broker cannot
\* tell apart are of one topic.
LEMMA ItemsApart ==
  ASSUME OneScope, NEW x, FromCall(x), NEW m \in Subscribing
  PROVE  LET str == C!ScopeStr(m.scope)
         IN /\ x.topic = m.topic => x.scope = str
            /\ SubTopic(Tenant, m.topic, str, Scope) = BrokerTopic(x) => x.topic = m.topic
            /\ x.topic # <<"public">>
<1> DEFINE str == C!ScopeStr(m.scope)
<1>1. PICK n \in Subscribing :
        /\ n.call = "subscribe"
        /\ x = [topic |-> n.topic, scope |-> C!ScopeStr(n.scope), active |-> x.active]
  BY DEF FromCall
<1>2. x.topic = n.topic /\ x.scope = C!ScopeStr(n.scope)
  BY <1>1
<1>3. x.topic = m.topic => x.scope = str
  BY <1>2 DEF OneScope
<1>4. \A w : IsSeq(C!ScopeStr(w))
  <2>1. IsSeq(<<>>) /\ IsSeq(<<"*">>) /\ \A w : IsSeq(<<w>>)
    BY ShortSeqs
  <2>2. IsSeq(<<"*", "*">>) /\ IsSeq(<<"*", "*", "*">>)
    <3>1. <<"*", "*">> \in Seq({"*"}) /\ <<"*", "*", "*">> \in Seq({"*"})
      OBVIOUS
    <3> QED
      BY <3>1, SeqIsSeq
  <2> QED
    BY <2>1, <2>2 DEF C!ScopeStr
<1>5. SubTopic(Tenant, m.topic, str, Scope) = BrokerTopic(x) => x.topic = m.topic
  <2>1. m.topic \in Seq(Labels) /\ n.topic \in Seq(Labels)
    BY DEF OneScope
  <2>2. BrokerTopic(x) = SubTopic(Tenant, n.topic, C!ScopeStr(n.scope), Scope)
    BY <1>2 DEF BrokerTopic
  <2>3. IsSeq(str) /\ IsSeq(C!ScopeStr(n.scope))
    BY <1>4
  <2> HIDE DEF str
  <2>4. SubTopic(Tenant, m.topic, str, Scope) = BrokerTopic(x) => m.topic = n.topic
    BY <2>1, <2>2, <2>3, TopicsApart
  <2> QED
    BY <1>2, <2>4
<1>6. x.topic # <<"public">>
  BY <1>1, <1>2 DEF OneScope
<1> QED
  BY <1>3, <1>5, <1>6

\* What SetActive does to one entry.
LEMMA Marked ==
  ASSUME NEW x, FromCall(x), NEW v
  PROVE  LET y == [x EXCEPT !.active = v] IN FromCall(y) /\ SameItem(y, x) /\ y.active = v
<1> DEFINE y == [x EXCEPT !.active = v]
<1>1. PICK m \in Subscribing :
        /\ m.call = "subscribe"
        /\ x = [topic |-> m.topic, scope |-> C!ScopeStr(m.scope), active |-> x.active]
  BY DEF FromCall
<1>2. y = [topic |-> m.topic, scope |-> C!ScopeStr(m.scope), active |-> v]
  BY <1>1
<1> HIDE DEF y
<1>3. y.active = v /\ y.topic = x.topic /\ y.scope = x.scope
  BY <1>1, <1>2
<1>4. FromCall(y)
  BY <1>1, <1>2, <1>3 DEF FromCall
<1> QED
  BY <1>3, <1>4 DEF SameItem, y

\* A list whose entries are marked anew is a list of the same entries.
LEMMA RemarkedOK ==
  ASSUME NEW list, Entries(list), NEW new, new = [i \in DOMAIN list |-> new[i]],
         \A i \in DOMAIN list : FromCall(new[i]) /\ SameItem(new[i], list[i])
  PROVE  Entries(new) /\ (ListOK(list) => ListOK(new))
<1>1. IsSeq(new) /\ DOMAIN new = DOMAIN list
  BY SameDomain DEF Entries
<1> QED
  BY <1>1 DEF Entries, ListOK, SameItem

\* sublist_activate marks the entries of the topic and scope behind the cursor, and
\* leaves the others as they are.
LEMMA Activated ==
  ASSUME NEW c, ClientShape(c), Entries(c.sublist), NEW topic, NEW scope
  PROVE  LET list == c.sublist
             new == C!sublist_activate(c, topic, scope).sublist
         IN /\ Entries(new) /\ (ListOK(list) => ListOK(new)) /\ DOMAIN new = DOMAIN list
            /\ \A i \in DOMAIN list :
                 /\ SameItem(new[i], list[i])
                 /\ list[i].active => new[i].active
                 /\ c.cursor = 0 /\ list[i].topic = topic /\ list[i].scope = scope =>
                      new[i].active
<1> DEFINE list == c.sublist
           n == c.cursor
           new == C!sublist_activate(c, topic, scope).sublist
           At(x) == x.topic = topic /\ x.scope = scope
<1>1. new = [i \in DOMAIN list |-> IF i > n /\ At(list[i])
                                  THEN [list[i] EXCEPT !.active = TRUE] ELSE list[i]]
  BY DEF C!sublist_activate, C!SetActive, ClientShape, ClientFields
<1> HIDE DEF new
<1>2. ASSUME NEW i \in DOMAIN list
      PROVE  /\ FromCall(new[i]) /\ SameItem(new[i], list[i])
             /\ list[i].active => new[i].active
             /\ n = 0 /\ At(list[i]) => new[i].active
  <2>1. FromCall(list[i])
    BY DEF Entries
  <2>2. CASE i > n /\ At(list[i])
    <3>1. new[i] = [list[i] EXCEPT !.active = TRUE]
      BY <1>1, <2>2
    <3>2. FromCall(new[i]) /\ SameItem(new[i], list[i]) /\ new[i].active = TRUE
      BY <2>1, <3>1, Marked
    <3> QED
      BY <3>2
  <2>3. CASE ~(i > n /\ At(list[i]))
    <3>1. new[i] = list[i]
      BY <1>1, <2>3
    <3>2. n = 0 => i > n
      BY DEF Entries, IsSeq
    <3> QED
      BY <2>1, <2>3, <3>1, <3>2 DEF SameItem
  <2> QED
    BY <2>2, <2>3
<1>3. DOMAIN new = DOMAIN list /\ new = [i \in DOMAIN list |-> new[i]]
  BY <1>1
<1>4. Entries(new) /\ (ListOK(list) => ListOK(new))
  BY <1>2, <1>3, RemarkedOK
<1> QED
  BY <1>2, <1>3, <1>4 DEF new

\* sublist_deactivate_all keeps the entries.
LEMMA Deactivated ==
  ASSUME NEW c, ClientShape(c), Entries(c.sublist)
  PROVE  LET new == C!sublist_deactivate_all(c).sublist
         IN Entries(new) /\ (ListOK(c.sublist) => ListOK(new))
<1> DEFINE list == c.sublist
           new == C!sublist_deactivate_all(c).sublist
<1>1. new = [i \in DOMAIN list |-> IF i > c.cursor THEN [list[i] EXCEPT !.active = FALSE]
                                                  ELSE list[i]]
  BY DEF C!sublist_deactivate_all, C!SetActive, ClientShape, ClientFields
<1> HIDE DEF new
<1>2. ASSUME NEW i \in DOMAIN list PROVE FromCall(new[i]) /\ SameItem(new[i], list[i])
  <2>1. FromCall(list[i])
    BY DEF Entries
  <2>2. CASE i > c.cursor
    <3>1. new[i] = [list[i] EXCEPT !.active = FALSE]
      BY <1>1, <2>2
    <3> QED
      BY <2>1, <3>1, Marked
  <2>3. CASE ~(i > c.cursor)
    <3>1. new[i] = list[i]
      BY <1>1, <2>3
    <3> QED
      BY <2>1, <3>1 DEF SameItem
  <2> QED
    BY <2>2, <2>3
<1>3. new = [i \in DOMAIN list |-> new[i]]
  BY <1>1
<1>4. Entries(new) /\ (ListOK(list) => ListOK(new))
  BY <1>2, <1>3, RemarkedOK
<1> QED
  BY <1>4 DEF new

\* Every entry is one of the list's or for the topic and scope of m.
AddedTo(new, list, m) ==
  \A i \in DOMAIN new :
    \/ new[i].topic = m.topic /\ new[i].scope = C!ScopeStr(m.scope)
    \/ \E j \in DOMAIN list : new[i] = list[j]

\* sublist_add: the entry of the topic is marked inactive, or a new one is put
\* before the others.
LEMMA Added ==
  ASSUME OneScope, NEW c, ClientShape(c), Entries(c.sublist),
         NEW m \in Subscribing, m.call = "subscribe"
  PROVE  LET new == C!sublist_add(c, m.topic, C!ScopeStr(m.scope), FALSE).sublist
         IN /\ Entries(new) /\ AddedTo(new, c.sublist, m)
            /\ ListOK(c.sublist) /\ c.cursor = 0 => ListOK(new)
<1> DEFINE list == c.sublist
           n == c.cursor
           str == C!ScopeStr(m.scope)
           new == C!sublist_add(c, m.topic, str, FALSE).sublist
           x == [topic |-> m.topic, scope |-> str, active |-> FALSE]
           At(y) == y.topic = m.topic /\ y.scope = str
           Good(l) == /\ Entries(l) /\ (ListOK(list) /\ n = 0 => ListOK(l))
                      /\ \A i \in DOMAIN l : At(l[i]) \/ \E j \in DOMAIN list : l[i] = list[j]
<1> SUFFICES Good(new)
  BY DEF AddedTo
<1>1. CASE \E i \in DOMAIN list : i > n /\ At(list[i])
  <2>1. new = [i \in DOMAIN list |-> IF i > n /\ At(list[i])
                                    THEN [list[i] EXCEPT !.active = FALSE] ELSE list[i]]
    BY <1>1 DEF C!sublist_add, C!SetActive, ClientShape, ClientFields
  <2> HIDE DEF new, str, n
  <2>2. ASSUME NEW i \in DOMAIN list
        PROVE  /\ FromCall(new[i]) /\ SameItem(new[i], list[i])
               /\ At(new[i]) \/ new[i] = list[i]
    <3>1. FromCall(list[i])
      BY DEF Entries
    <3>2. CASE i > n /\ At(list[i])
      <4>1. new[i] = [list[i] EXCEPT !.active = FALSE]
        BY <2>1, <3>2
      <4>2. FromCall(new[i]) /\ SameItem(new[i], list[i])
        BY <3>1, <4>1, Marked
      <4> QED
        BY <3>2, <4>2 DEF SameItem
    <3>3. CASE ~(i > n /\ At(list[i]))
      <4>1. new[i] = list[i]
        BY <2>1, <3>3
      <4> QED
        BY <3>1, <4>1 DEF SameItem
    <3> QED
      BY <3>2, <3>3
  <2>3. DOMAIN new = DOMAIN list /\ new = [i \in DOMAIN list |-> new[i]]
    BY <2>1
  <2>4. Entries(new) /\ (ListOK(list) => ListOK(new))
    BY <2>2, <2>3, RemarkedOK
  <2> QED
    BY <2>2, <2>3, <2>4
<1>2. CASE ~\E i \in DOMAIN list : i > n /\ At(list[i])
  <2>1. new = <<x>> \o list
    BY <1>2 DEF C!sublist_add, ClientShape, ClientFields
  <2>2. n = 0 => \A i \in DOMAIN list : list[i].topic # m.topic
    <3>1. n = 0 => \A i \in DOMAIN list : ~At(list[i])
      BY <1>2 DEF Entries, IsSeq
    <3>2. \A i \in DOMAIN list : FromCall(list[i])
      BY DEF Entries
    <3> QED
      BY <3>1, <3>2, ItemsApart
  <2>3. FromCall(x)
    BY DEF FromCall
  <2>4. x.topic = m.topic /\ x.scope = str
    OBVIOUS
  <2> DEFINE p == <<x>>
  <2>5. IsSeq(p) /\ Len(p) = 1 /\ DOMAIN p = {1} /\ p[1] = x
    BY ShortSeqs
  <2> HIDE DEF new, str, x, p, n
  <2>6. new = p \o list /\ IsSeq(list)
    BY <2>1 DEF Entries, p
  <2>7. /\ IsSeq(new)
        /\ \A i \in DOMAIN new : \/ i \in DOMAIN p /\ new[i] = p[i]
                                 \/ i - Len(p) \in DOMAIN list /\ new[i] = list[i - Len(p)]
    <3> DEFINE l == p \o list
    <3>1. /\ IsSeq(l)
          /\ \A i \in DOMAIN l : \/ i \in DOMAIN p /\ l[i] = p[i]
                                 \/ i - Len(p) \in DOMAIN list /\ l[i] = list[i - Len(p)]
      BY <2>5, <2>6, Concat
    <3>2. new = l
      BY <2>6
    <3> HIDE DEF l
    <3> QED
      BY <3>1, <3>2
  <2>8. \A i \in DOMAIN new : \/ i = 1 /\ new[i] = x
                              \/ i - 1 \in DOMAIN list /\ new[i] = list[i - 1]
    BY <2>5, <2>7
  <2>9. \A i \in DOMAIN new : i \in Int
    BY <2>7 DEF IsSeq
  <2>10. ASSUME ListOK(list), n = 0, NEW i \in DOMAIN new, NEW j \in DOMAIN new,
                new[i].topic = new[j].topic
         PROVE  i = j
    <3>1. \/ i = 1 /\ j = 1
          \/ i - 1 \in DOMAIN list /\ j - 1 \in DOMAIN list /\ i - 1 = j - 1
      BY <2>2, <2>4, <2>8, <2>10 DEF ListOK
    <3> QED
      BY <2>9, <3>1
  <2>11. \A i \in DOMAIN new : FromCall(new[i])
    BY <2>3, <2>8 DEF Entries
  <2>12. Entries(new) /\ (ListOK(list) /\ n = 0 => ListOK(new))
    BY <2>7, <2>10, <2>11 DEF Entries, ListOK
  <2>13. \A i \in DOMAIN new : At(new[i]) \/ \E j \in DOMAIN list : new[i] = list[j]
    BY <2>4, <2>8
  <2> QED
    BY <2>12, <2>13
<1> QED
  BY <1>1, <1>2

\* sublist_delete takes an entry of the topic out and leaves the others.
LEMMA Deleted ==
  ASSUME NEW c, ClientShape(c), Entries(c.sublist), NEW topic, NEW scope
  PROVE  LET new == C!sublist_delete(c, topic, scope).sublist
         IN /\ Entries(new)
            /\ ListOK(c.sublist) =>
                 /\ ListOK(new)
                 /\ \A i \in DOMAIN new :
                      new[i].topic # topic /\ \E j \in DOMAIN c.sublist : new[i] = c.sublist[j]
<1> DEFINE list == c.sublist
           new == C!sublist_delete(c, topic, scope).sublist
           I == {i \in 1 .. Len(list) : list[i].topic = topic}
           R == Range(list)
           Good(l) == /\ Entries(l)
                      /\ ListOK(list) =>
                           /\ ListOK(l)
                           /\ \A i \in DOMAIN l :
                                l[i].topic # topic /\ \E j \in DOMAIN list : l[i] = list[j]
<1> SUFFICES Good(new)
  OBVIOUS
<1>0. list \in Seq(R)
  BY DEF Entries, IsSeq
<1> HIDE DEF R
<1>1. DOMAIN list = 1 .. Len(list) /\ Len(list) \in Nat
  BY <1>0
<1>2. I # {} => Min(I) \in I
  <2>1. I \subseteq Nat
    BY <1>1
  <2> HIDE DEF I
  <2> QED
    BY <2>1, MinIsIn
<1>3. IF I # {} THEN new = RemoveAt(list, Min(I)) ELSE new = list
  <2>1. Min(I) = 0 => I = {}
    BY <1>2
  <2> QED
    BY <2>1 DEF C!sublist_delete, C!SelectInSeq, C!RemoveAt, C!Min, RemoveAt, Min,
                ClientShape, ClientFields
<1> HIDE DEF new
<1>4. CASE I = {}
  <2>1. new = list /\ \A i \in DOMAIN list : list[i].topic # topic
    BY <1>1, <1>3, <1>4
  <2> QED
    BY <2>1
<1>5. CASE I # {}
  <2> DEFINE k == Min(I)
             n == Len(list)
  <2>1. k \in I
    BY <1>2, <1>5
  <2>2. new = RemoveAt(list, k)
    BY <1>3, <1>5
  <2> HIDE DEF k
  <2>3. k \in 1 .. n /\ list[k].topic = topic
    BY <2>1
  <2>4. ListOK(list) => \A i \in DOMAIN list : i # k => list[i].topic # topic
    BY <1>1, <2>3 DEF ListOK
  <2>5. /\ IsSeq(new) /\ Len(new) = n - 1 /\ DOMAIN new = 1 .. n - 1
        /\ \A i \in 1 .. n - 1 : new[i] = IF i < k THEN list[i] ELSE list[i + 1]
    <3> DEFINE a == SubSeq(list, 1, k - 1)
               b == SubSeq(list, k + 1, n)
    <3>1. new = a \o b
      BY <2>2 DEF RemoveAt
    <3>2. a \in Seq(R) /\ Len(a) = k - 1 /\ \A i \in 1 .. k - 1 : a[i] = list[i]
      BY <1>0, <2>3
    <3>3. b \in Seq(R) /\ Len(b) = n - k /\ \A i \in 1 .. n - k : b[i] = list[k + i]
      BY <1>0, <2>3
    <3> HIDE DEF a, b
    <3>4. k \in Nat /\ n \in Nat /\ 1 <= k /\ k <= n
      BY <1>1, <2>3
    <3> HIDE DEF n
    <3>5. new \in Seq(R) /\ Len(new) = n - 1
      <4>1. a \in Seq(R) /\ b \in Seq(R)
        BY <3>2, <3>3
      <4>2. a \o b \in Seq(R) /\ Len(a \o b) = Len(a) + Len(b)
        BY <4>1
      <4>3. new \in Seq(R) /\ Len(new) = Len(a) + Len(b)
        BY <3>1, <4>2
      <4> QED
        BY <3>2, <3>3, <3>4, <4>3
    <3>6. ASSUME NEW i \in 1 .. n - 1
          PROVE  new[i] = IF i < k THEN list[i] ELSE list[i + 1]
      <4>1. CASE i < k
        <5>1. (a \o b)[i] = a[i]
          BY <3>2, <3>3, <3>4, <4>1
        <5> QED
          BY <3>1, <3>2, <3>4, <4>1, <5>1
      <4>2. CASE ~(i < k)
        <5> DEFINE j == i - (k - 1)
        <5>1. j \in 1 .. n - k /\ k + j = i + 1 /\ Len(a) + j = i
          BY <3>2, <3>4, <4>2
        <5>2. (a \o b)[i] = b[j]
          BY <3>2, <3>3, <3>4, <4>2, <5>1
        <5>3. b[j] = list[k + j]
          BY <3>3, <5>1
        <5> QED
          BY <3>1, <4>2, <5>1, <5>2, <5>3
      <4> QED
        BY <4>1, <4>2
    <3>7. IsSeq(new)
      BY <3>5, SeqIsSeq
    <3>8. DOMAIN new = 1 .. n - 1
      BY <3>5
    <3> QED
      BY <3>5, <3>6, <3>7, <3>8
  <2> DEFINE Was(i) == IF i < k THEN i ELSE i + 1
  <2>6. ASSUME NEW i \in DOMAIN new
        PROVE  Was(i) \in DOMAIN list /\ Was(i) # k /\ new[i] = list[Was(i)] /\ i \in Int
    BY <1>1, <2>3, <2>5
  <2>7. \A i, j \in DOMAIN new : Was(i) = Was(j) => i = j
    BY <2>3, <2>6
  <2> HIDE DEF Was
  <2>8. ListOK(list) => \A i, j \in DOMAIN new : new[i].topic = new[j].topic => i = j
    BY <2>6, <2>7 DEF ListOK
  <2>9. \A i \in DOMAIN new : FromCall(new[i])
    BY <2>6 DEF Entries
  <2>10. Entries(new) /\ (ListOK(list) => ListOK(new))
    BY <2>5, <2>8, <2>9 DEF Entries, ListOK
  <2>11. ListOK(list) => \A i \in DOMAIN new :
           new[i].topic # topic /\ \E j \in DOMAIN list : new[i] = list[j]
    BY <2>4, <2>6
  <2> QED
    BY <2>10, <2>11
<1> QED
  BY <1>4, <1>5

(***************************************************************************)
(* The client's side.                                                      *)
(***************************************************************************)
\* What the client wrote leaves the entries of its new list as wanted and as
\* confirmed as they were on the old one, or asks for them anew.  d and e are what
\* is on its way back, before and after.
Carried(q, d, e, old, new) ==
  \A i \in DOMAIN new :
    \/ Asked(q, new[i])
    \/ /\ ~Ended(q, BrokerTopic(new[i]))
       /\ \E j \in DOMAIN old :
            /\ SameItem(new[i], old[j])
            /\ old[j].active => new[i].active
            /\ Confirms(d, old[j]) => Confirms(e, new[i]) \/ new[i].active

\* Entries that differ in their marks only are the same to all messages.
LEMMA SameToAll ==
  ASSUME NEW x, NEW y, SameItem(x, y)
  PROVE  /\ BrokerTopic(x) = BrokerTopic(y)
         /\ \A q : Asks(q, x) <=> Asks(q, y)
         /\ \A q : Asked(q, x) <=> Asked(q, y)
         /\ \A q : Confirms(q, x) <=> Confirms(q, y)
<1>1. BrokerTopic(x) = BrokerTopic(y)
  BY DEF SameItem, BrokerTopic
<1>2. \A m : (IsSub(m, x) <=> IsSub(m, y)) /\ (IsSubok(m, x) <=> IsSubok(m, y))
  BY DEF SameItem, IsSub, IsSubok
<1> QED
  BY <1>1, <1>2 DEF Asks, Asked, Confirms

\* Whoever is asked for is on its way.
LEMMA AskedAsks == \A q, item : Asked(q, item) => Asks(q, item)
BY DEF Asked, Asks

\* So the list is kept.
LEMMA CarriedKept ==
  ASSUME NEW b, NEW s, NEW u, IsSeq(u), NEW q, IsSeq(q), NEW d, NEW e, NEW old, NEW new,
         Kept(b, s, u, d, old), Carried(q, d, e, old, new)
  PROVE  Kept(b, s, u \o q, e, new)
<1> DEFINE w == u \o q
<1>1. /\ \A x : ~Ended(u, x) /\ ~Ended(q, x) => ~Ended(w, x)
      /\ \A item : Asks(u, item) \/ Asks(q, item) => Asks(w, item)
      /\ \A item : Asked(u, item) /\ ~Ended(q, BrokerTopic(item)) => Asked(w, item)
      /\ \A item : Asked(q, item) => Asked(w, item)
  BY WrittenSubs
<1> HIDE DEF w
<1>2. ASSUME NEW i \in DOMAIN new
      PROVE  Wanted(b, s, w, new[i]) /\ Confirmed(w, e, new[i])
  <2> DEFINE x == new[i]
  <2> HIDE DEF x
  <2>1. \/ Asked(q, x)
        \/ /\ ~Ended(q, BrokerTopic(x))
           /\ \E j \in DOMAIN old : /\ SameItem(x, old[j])
                                    /\ old[j].active => x.active
                                    /\ Confirms(d, old[j]) => Confirms(e, x) \/ x.active
    BY DEF Carried, x
  <2>2. CASE Asked(q, x)
    BY <1>1, <2>2, AskedAsks DEF Wanted, Confirmed, x
  <2>3. CASE ~Asked(q, x)
    <3>1. PICK j \in DOMAIN old : /\ SameItem(x, old[j])
                                  /\ old[j].active => x.active
                                  /\ Confirms(d, old[j]) => Confirms(e, x) \/ x.active
      BY <2>1, <2>3
    <3> DEFINE y == old[j]
    <3>2. Wanted(b, s, u, y) /\ Confirmed(u, d, y)
      BY DEF Kept
    <3> HIDE DEF y
    <3>3. /\ SameItem(x, y) /\ (y.active => x.active)
          /\ Confirms(d, y) => Confirms(e, x) \/ x.active
      BY <3>1 DEF y
    <3>4. /\ BrokerTopic(x) = BrokerTopic(y)
          /\ Asks(u, x) <=> Asks(u, y)
          /\ Asked(u, x) <=> Asked(u, y)
      BY <3>3, SameToAll
    <3>5. Wanted(b, s, w, x)
      BY <1>1, <2>1, <2>3, <3>2, <3>4 DEF Wanted
    <3>6. Confirmed(w, e, x)
      BY <1>1, <3>2, <3>3, <3>4 DEF Confirmed
    <3> QED
      BY <3>5, <3>6 DEF x
  <2> QED
    BY <2>2, <2>3
<1> QED
  BY <1>2 DEF Kept, w

\* SubsInv of the next state, spelled out.
LEMMA SubsInvNext ==
  ASSUME KeysOwn(br'), TrieCounts(br'), Entries(cl'.sublist),
         ~skipped' =>
           /\ ListOK(cl'.sublist)
           /\ C!Registered(cl') /\ HasLocal(br', Key(sock')) =>
                Kept(br', sock', up'[sock'], down'[sock'], cl'.sublist)
  PROVE  SubsInv'
BY DEF SubsInv

\* The client writes q, on the same socket.
LEMMA ClientSubsStep ==
  ASSUME LinkInv, SubsInv, UNCHANGED <<br, sock>>, NEW q, IsSeq(q),
         up'[sock'] = up[sock] \o q, Entries(cl'.sublist),
         ~skipped' =>
           /\ ListOK(cl'.sublist)
           /\ C!Registered(cl') =>
                \/ \A i \in DOMAIN cl'.sublist : Asked(q, cl'.sublist[i])
                \/ /\ ~skipped /\ C!Registered(cl)
                   /\ Carried(q, down[sock], down'[sock'], cl.sublist, cl'.sublist)
  PROVE  SubsInv'
<1> DEFINE u == up[sock]
           d == down[sock]
           e == down'[sock']
           new == cl'.sublist
<1>1. IsSeq(u)
  BY DEF LinkInv, Channels
<1>2. KeysOwn(br) /\ TrieCounts(br)
  BY DEF SubsInv
<1>3. ASSUME ~skipped', C!Registered(cl'), HasLocal(br, Key(sock))
      PROVE  Kept(br, sock, u \o q, e, new)
  <2>1. CASE ~skipped /\ C!Registered(cl) /\ Carried(q, d, e, cl.sublist, new)
    <3>1. Kept(br, sock, u, d, cl.sublist)
      BY <1>3, <2>1 DEF SubsInv
    <3> HIDE DEF u, d, e, new
    <3> QED
      BY <1>1, <2>1, <3>1, CarriedKept
  <2>2. CASE \A i \in DOMAIN new : Asked(q, new[i])
    <3> HIDE DEF u, d, e, new
    <3>1. \A item : Asked(q, item) => Asked(u \o q, item) /\ Asks(u \o q, item)
      BY <1>1, WrittenSubs, AskedAsks
    <3> QED
      BY <2>2, <3>1 DEF Kept, Wanted, Confirmed
  <2> QED
    BY <1>3, <2>1, <2>2
<1> QED
  BY <1>2, <1>3, SubsInvNext

\* A loop over the list has begun at its first entry, if none has passed over one.
LEMMA LoopAtStart ==
  ASSUME ClientShape(cl), Loop, ~skipped'
  PROVE  ~skipped /\ cl.cursor = 0
<1>1. ~skipped /\ ~(cl.cursor > 0)
  BY Zenon DEF Loop
<1> QED
  BY <1>1 DEF ClientShape

\* Without subscriptions on its way out, and with the list as it is, nothing
\* changes.
LEMMA SameCarried ==
  ASSUME NEW q, \A x : ~Ended(q, x), NEW d, NEW list
  PROVE  Carried(q, d, d, list, list)
BY DEF Carried, SameItem

\* Messages that end no subscription.
LEMMA NoneEnded ==
  /\ \A x : ~Ended(<<>>, x)
  /\ \A m, x : m.cmd # "UNSUB" => ~Ended(<<m>>, x)
<1>1. \A x : ~Ended(<<>>, x)
  <2>1. DOMAIN <<>> = {}
    OBVIOUS
  <2> QED
    BY <2>1 DEF Ended
<1>2. ASSUME NEW m, m.cmd # "UNSUB", NEW x PROVE ~Ended(<<m>>, x)
  <2>1. DOMAIN <<m>> = {1} /\ <<m>>[1] = m
    OBVIOUS
  <2> QED
    BY <1>2, <2>1 DEF Ended, Ends
<1> QED
  BY <1>1, <1>2

\* A call of the application: the list and what is written change together.
LEMMA PipeSubs ==
  ASSUME OneScope, NEW c, ListOK(c.sublist), ClientShape(c), C!Registered(c), NEW m \in Calls,
         NEW d
  PROVE  LET r == C!s_on_pipe_msg(c, m)
         IN Carried(r.out, d, d, c.sublist, r.c.sublist)
<1> DEFINE r == C!s_on_pipe_msg(c, m)
           old == c.sublist
           new == r.c.sublist
           str == C!ScopeStr(m.scope)
<1>0. Entries(old)
  BY DEF ListOK
<1>1. m.call \in {"subscribe", "unsubscribe", "publish", "notify"}
  BY LinkAssumption
<1>2. CASE m.call = "subscribe"
  <2> DEFINE x == C!TopicMsg("SUB", m.topic, str)
             q == <<x>>
  <2>1. r.out = q /\ new = C!sublist_add(c, m.topic, str, FALSE).sublist
    BY <1>2 DEF C!s_on_pipe_msg, C!dd_subscribe, C!Result, C!IfRegistered
  <2>2. m \in Subscribing
    BY <1>2 DEF Subscribing
  <2>3. \A i \in DOMAIN new :
          \/ new[i].topic = m.topic /\ new[i].scope = str
          \/ \E j \in DOMAIN old : new[i] = old[j]
    <3> DEFINE l == C!sublist_add(c, m.topic, str, FALSE).sublist
    <3>1. AddedTo(l, old, m)
      BY <1>0, <1>2, <2>2, Added
    <3>2. \A i \in DOMAIN l :
            \/ l[i].topic = m.topic /\ l[i].scope = str
            \/ \E j \in DOMAIN old : l[i] = old[j]
      <4>1. str = C!ScopeStr(m.scope)
        OBVIOUS
      <4> HIDE DEF l, old, str
      <4> QED
        BY <3>1, <4>1 DEF AddedTo
    <3>3. new = l
      BY <2>1
    <3> HIDE DEF l, new, old, str
    <3> QED
      BY <3>2, <3>3
  <2>4. x.cmd = "SUB" /\ x.topic = m.topic /\ x.scope = str
    BY DEF C!TopicMsg
  <2> HIDE DEF r, x
  <2>5. \A y : ~Ended(q, y)
    BY <2>4, NoneEnded
  <2>6. DOMAIN q = {1} /\ q[1] = x
    OBVIOUS
  <2> HIDE DEF q
  <2>7. ASSUME NEW y, y.topic = m.topic, y.scope = str PROVE Asked(q, y)
    BY <2>4, <2>6, <2>7 DEF Asked, IsSub
  <2>8. Carried(q, d, d, old, new)
    BY <2>3, <2>5, <2>7 DEF Carried, SameItem
  <2> QED
    BY <2>1, <2>8 DEF r
<1>3. CASE m.call = "unsubscribe"
  <2> DEFINE x == C!TopicMsg("UNSUB", m.topic, str)
             q == <<x>>
  <2>1. r.out = q /\ new = C!sublist_delete(c, m.topic, str).sublist
    BY <1>3 DEF C!s_on_pipe_msg, C!dd_unsubscribe, C!Result, C!IfRegistered
  <2>2. m \in Subscribing
    BY <1>3 DEF Subscribing
  <2>3. \A i \in DOMAIN new : new[i].topic # m.topic /\ \E j \in DOMAIN old : new[i] = old[j]
    BY <1>0, <2>1, Deleted
  <2>4. x.cmd = "UNSUB" /\ x.topic = m.topic /\ x.scope = str
    BY DEF C!TopicMsg
  <2> HIDE DEF r, x
  <2>5. DOMAIN q = {1} /\ q[1] = x
    OBVIOUS
  <2> HIDE DEF q
  <2>6. ASSUME NEW j \in DOMAIN old, old[j].topic # m.topic
        PROVE  ~Ended(q, BrokerTopic(old[j]))
    <3>1. FromCall(old[j])
      BY <1>0 DEF Entries
    <3>2. SubTopic(Tenant, m.topic, str, Scope) # BrokerTopic(old[j])
      BY <2>2, <2>6, <3>1, ItemsApart
    <3> QED
      BY <2>4, <2>5, <3>2 DEF Ended, Ends
  <2>7. Carried(q, d, d, old, new)
    BY <2>3, <2>6 DEF Carried, SameItem
  <2> QED
    BY <2>1, <2>7 DEF r
<1>4. CASE m.call \in {"publish", "notify"}
  <2>1. /\ new = old
        /\ r.out \in {<<[cmd |-> "PUB", topic |-> m.topic]>>, <<[cmd |-> "SEND", dest |-> m.target]>>}
    BY <1>4 DEF C!s_on_pipe_msg, C!dd_publish, C!dd_notify, C!Result, C!IfRegistered
  <2> HIDE DEF r
  <2>2. \A x : ~Ended(r.out, x)
    BY <2>1, NoneEnded
  <2>3. Carried(r.out, d, d, old, new)
    BY <2>1, <2>2, SameCarried
  <2> QED
    BY <2>3 DEF r
<1> QED
  BY <1>1, <1>2, <1>3, <1>4

\* The entries of the list come from calls, whatever the client is asked to do, and
\* no topic is on it twice unless the loop of sublist_add begins inside it.
LEMMA PipeList ==
  ASSUME OneScope, NEW c, Entries(c.sublist), ClientShape(c), NEW m \in Calls
  PROVE  LET new == C!s_on_pipe_msg(c, m).c.sublist
         IN /\ Entries(new)
            /\ ListOK(c.sublist) /\ (m.call = "subscribe" => c.cursor = 0) => ListOK(new)
<1> DEFINE r == C!s_on_pipe_msg(c, m)
           new == r.c.sublist
           str == C!ScopeStr(m.scope)
<1>1. m.call \in {"subscribe", "unsubscribe", "publish", "notify"}
  BY LinkAssumption
<1>2. CASE m.call = "subscribe"
  <2>1. new = C!sublist_add(c, m.topic, str, FALSE).sublist
    BY <1>2 DEF C!s_on_pipe_msg, C!dd_subscribe, C!Result
  <2>2. m \in Subscribing
    BY <1>2 DEF Subscribing
  <2> QED
    BY <1>2, <2>1, <2>2, Added
<1>3. CASE m.call = "unsubscribe"
  <2>1. new = C!sublist_delete(c, m.topic, str).sublist
    BY <1>3 DEF C!s_on_pipe_msg, C!dd_unsubscribe, C!Result
  <2> QED
    BY <2>1, Deleted
<1>4. CASE m.call \in {"publish", "notify"}
  <2>1. new = c.sublist
    BY <1>4 DEF C!s_on_pipe_msg, C!dd_publish, C!dd_notify, C!Result
  <2> QED
    BY <2>1
<1> QED
  BY <1>1, <1>2, <1>3, <1>4

\* The client writes to its socket, and reads there first or not.
LEMMA WroteSame ==
  ASSUME LinkInv, NEW r, IsSeq(r.out), FromClient(r.out), Write(r, down)
  PROVE  /\ cl' = r.c /\ up'[sock] = up[sock] \o r.out /\ down'[sock] = down[sock]
         /\ IsSeq(up[sock])
<1>1. cl' = r.c /\ up' = [up EXCEPT ![sock] = @ \o r.out] /\ down' = down
  BY DEF Write
<1>2. up'[sock] = up[sock] \o r.out
  BY <1>1, UpWritten DEF LinkInv
<1> QED
  BY <1>1, <1>2 DEF LinkInv, Channels

\* A call of the application.
LEMMA PipeSubsStep ==
  ASSUME OneScope, LinkInv, SubsInv, PipeMsg
  PROVE  SubsInv'
<1>1. PICK m \in Calls :
        /\ Write(C!s_on_pipe_msg(cl, m), down) /\ UNCHANGED <<br, sock>>
        /\ IF m.call = "subscribe" THEN Loop ELSE UNCHANGED skipped
  BY DEF PipeMsg
<1> DEFINE r == C!s_on_pipe_msg(cl, m)
<1>2. ClientShape(cl) /\ Entries(cl.sublist) /\ (~skipped => ListOK(cl.sublist))
  BY DEF LinkInv, SubsInv
<1>3. Steady(cl, r)
  BY <1>2, CallsSteady
<1>4. ~skipped' => ~skipped /\ (m.call = "subscribe" => cl.cursor = 0)
  BY <1>1, <1>2, LoopAtStart
<1>5. Entries(r.c.sublist) /\ (~skipped' => ListOK(r.c.sublist))
  BY <1>2, <1>4, PipeList
<1>6. ~skipped /\ C!Registered(cl) =>
        Carried(r.out, down[sock], down[sock], cl.sublist, r.c.sublist)
  BY <1>2, PipeSubs
<1> HIDE DEF r
<1>7. Write(r, down) /\ IsSeq(r.out) /\ FromClient(r.out)
  BY <1>1, <1>3 DEF Steady, Writes, r
<1>8. cl' = r.c /\ up'[sock] = up[sock] \o r.out /\ down'[sock] = down[sock]
  BY <1>7, WroteSame
<1>9. C!Registered(cl') = C!Registered(cl)
  BY <1>3, <1>8 DEF Steady, C!Registered
<1>10. ~skipped' =>
         /\ ListOK(cl'.sublist)
         /\ C!Registered(cl') =>
              /\ ~skipped /\ C!Registered(cl)
              /\ Carried(r.out, down[sock], down'[sock'], cl.sublist, cl'.sublist)
  BY <1>1, <1>4, <1>5, <1>6, <1>8, <1>9
<1>11. UNCHANGED <<br, sock>> /\ Entries(cl'.sublist)
  BY <1>1, <1>5, <1>8
<1> QED
  BY <1>7, <1>8, <1>10, <1>11, ClientSubsStep

\* The timer of a PING.
LEMMA PingSubsStep ==
  ASSUME LinkInv, SubsInv, Ping
  PROVE  SubsInv'
<1> DEFINE r == C!s_ping(cl)
<1>1. cl.pings > 0 /\ Write(r, down) /\ UNCHANGED <<br, sock, skipped>>
  BY DEF Ping
<1>2. ClientShape(cl) /\ Entries(cl.sublist) /\ (~skipped => ListOK(cl.sublist))
  BY DEF LinkInv, SubsInv
<1>3. Steady(cl, r)
  BY <1>1, <1>2, PingSteady
<1>4. r.c.sublist = cl.sublist /\ r.out \in {<<>>, <<C!Msg("PING")>>}
  BY <1>2 DEF C!s_ping, C!IfRegistered, C!Result, ClientShape, ClientFields
<1> HIDE DEF r
<1>5. C!Msg("PING").cmd # "UNSUB"
  BY DEF C!Msg
<1>6. \A x : ~Ended(r.out, x)
  BY <1>4, <1>5, NoneEnded
<1>7. IsSeq(r.out) /\ FromClient(r.out)
  BY <1>3 DEF Steady, Writes
<1>8. cl' = r.c /\ up'[sock] = up[sock] \o r.out /\ down'[sock] = down[sock]
  BY <1>1, <1>7, WroteSame
<1>9. Carried(r.out, down[sock], down[sock], cl.sublist, cl.sublist)
  BY <1>6, SameCarried
<1>10. C!Registered(cl') = C!Registered(cl)
  BY <1>3, <1>8 DEF Steady, C!Registered
<1>11. ~skipped' =>
         /\ ListOK(cl'.sublist)
         /\ C!Registered(cl') =>
              /\ ~skipped /\ C!Registered(cl)
              /\ Carried(r.out, down[sock], down'[sock'], cl.sublist, cl'.sublist)
  BY <1>1, <1>2, <1>4, <1>8, <1>9, <1>10
<1>12. UNCHANGED <<br, sock>> /\ Entries(cl'.sublist)
  BY <1>1, <1>2, <1>4, <1>8
<1> QED
  BY <1>7, <1>8, <1>11, <1>12, ClientSubsStep

\* A heartbeat: the client stays registered with the list it has, or it is not
\* registered any more.
LEMMA HeartbeatSubsStep ==
  ASSUME LinkInv, SubsInv, Heartbeat
  PROVE  SubsInv'
<1> DEFINE r == C!s_heartbeat(cl)
           f == [cl EXCEPT !.timeout = @ + 1, !.state = "UNREG", !.heartbeat_loop = @ - 1,
                           !.registration_loop = @ + 1]
           off == C!sublist_deactivate_all(f)
<1>1. Write(r, down) /\ UNCHANGED <<br, sock>> /\ (~skipped' => ~skipped)
  BY DEF Heartbeat, Loop
<1>2. ClientShape(cl) /\ Entries(cl.sublist) /\ (~skipped => ListOK(cl.sublist))
  BY DEF LinkInv, SubsInv
<1>3. r.out = <<>>
  BY <1>2, HeartbeatSwaps
<1>4. ClientShape(f) /\ f.sublist = cl.sublist /\ f.state = "UNREG"
  BY <1>2 DEF ClientShape, ClientFields
<1>5. \/ r.c.sublist = cl.sublist /\ r.c.state = cl.state
      \/ r.c = off
  BY <1>2 DEF C!s_heartbeat, C!Result, ClientShape, ClientFields
<1> HIDE DEF f
<1>6. Entries(off.sublist) /\ (~skipped => ListOK(off.sublist)) /\ off.state = "UNREG"
  BY <1>2, <1>4, Deactivated, ListsStayLists DEF Looped, Relisted
<1> HIDE DEF r, off
<1>7. IsSeq(<<>>) /\ FromClient(<<>>)
  BY ShortSeqs DEF FromClient
<1>8. cl' = r.c /\ up'[sock] = up[sock] \o <<>> /\ down'[sock] = down[sock]
  BY <1>1, <1>3, <1>7, WroteSame
<1>9. Carried(<<>>, down[sock], down[sock], cl.sublist, cl.sublist)
  BY NoneEnded, SameCarried
<1>10. ~skipped' =>
         /\ ListOK(cl'.sublist)
         /\ C!Registered(cl') =>
              /\ ~skipped /\ C!Registered(cl)
              /\ Carried(<<>>, down[sock], down'[sock'], cl.sublist, cl'.sublist)
  BY <1>1, <1>2, <1>5, <1>6, <1>8, <1>9 DEF C!Registered
<1>11. UNCHANGED <<br, sock>> /\ Entries(cl'.sublist)
  BY <1>1, <1>2, <1>5, <1>6, <1>8
<1> QED
  BY <1>7, <1>8, <1>10, <1>11, ClientSubsStep

\* A client that is not registered owes nothing to anybody.
LEMMA UnregisteredSubs ==
  ASSUME SubsInv, UNCHANGED br, ~C!Registered(cl'), Entries(cl'.sublist),
         ~skipped' => ListOK(cl'.sublist)
  PROVE  SubsInv'
BY SubsInvNext DEF SubsInv

\* An empty list is in order.
LEMMA EmptyList == Entries(<<>>) /\ ListOK(<<>>)
<1>1. DOMAIN <<>> = {}
  OBVIOUS
<1> QED
  BY <1>1, ShortSeqs DEF ListOK, Entries

\* A new attempt to register, and a restart of the application.
LEMMA ReopenSubsStep ==
  ASSUME SubsInv, AskRegistration \/ RestartClient
  PROVE  SubsInv'
<1>1. CASE AskRegistration
  <2>1. cl' = cl /\ br' = br /\ skipped' = skipped /\ ~C!Registered(cl)
    BY <1>1 DEF AskRegistration, C!s_ask_registration, C!Result
  <2>2. /\ Entries(cl'.sublist) /\ (~skipped' => ListOK(cl'.sublist))
        /\ ~C!Registered(cl')
    BY <2>1 DEF SubsInv
  <2> QED
    BY <2>1, <2>2, UnregisteredSubs
<1>2. CASE RestartClient
  <2>1. cl' = C!NewClient /\ br' = br
    BY <1>2 DEF RestartClient, C!dd_destroy, C!Result
  <2>2. cl'.sublist = <<>> /\ ~C!Registered(cl')
    BY <2>1 DEF C!NewClient, C!Registered
  <2> QED
    BY <2>1, <2>2, EmptyList, UnregisteredSubs
<1> QED
  BY <1>1, <1>2

\* A REGOK that finds the cursor before the list is answered with a PING and a SUB
\* for every entry.
LEMMA RegokAsks ==
  ASSUME NEW c, ClientShape(c), c.cursor = 0
  PROVE  LET r == C!cb_regok(c)
         IN \A i \in DOMAIN c.sublist : Asked(r.out, c.sublist[i])
<1> DEFINE r == C!cb_regok(c)
           d == C!StartHeartbeat(c, TimersLeft(c))
           list == c.sublist
           ahead == SubSeq(list, 1, Len(list))
           p == <<C!Msg("PING")>>
           q == [i \in DOMAIN ahead |-> C!TopicMsg("SUB", ahead[i].topic, ahead[i].scope)]
           w == p \o q
<1>1. d.sublist = list /\ d.cursor = 0
  BY HeartbeatStarts
<1>2. C!sublist_resubscribe(d).out = q
  BY <1>1 DEF C!sublist_resubscribe, C!Result
<1>3. r.out = p \o C!sublist_resubscribe(d).out
  BY DEF C!cb_regok, C!Result, TimersLeft
<1>4. r.out = w
  BY <1>2, <1>3
<1>5. IsSeq(list)
  BY DEF ClientShape
<1>6. ahead = list
  <2> DEFINE R == Range(list)
  <2>1. list \in Seq(R)
    BY <1>5 DEF IsSeq
  <2> HIDE DEF R, list
  <2>2. SubSeq(list, 1, Len(list)) = list
    BY <2>1
  <2> QED
    BY <2>2 DEF list
<1> HIDE DEF ahead
<1>7. q = [i \in DOMAIN list |-> C!TopicMsg("SUB", list[i].topic, list[i].scope)]
  BY <1>6
<1> HIDE DEF r, q
<1>8. IsSeq(q) /\ IsSeq(p)
  <2>1. q = [i \in DOMAIN list |-> q[i]]
    BY <1>7
  <2> HIDE DEF list
  <2>2. IsSeq(q)
    BY <1>5, <2>1, SameDomain
  <2> QED
    BY <2>2, ShortSeqs
<1>9. \A i \in DOMAIN q : q[i].cmd = "SUB"
  BY <1>7 DEF C!TopicMsg
<1>10. ASSUME NEW i \in DOMAIN list PROVE Asked(q, list[i])
  <2>1. i \in DOMAIN q /\ IsSub(q[i], list[i])
    BY <1>7 DEF C!TopicMsg, IsSub
  <2> QED
    BY <1>9, <2>1 DEF Asked, Ends
<1>11. ASSUME NEW i \in DOMAIN list PROVE Asked(w, list[i])
  <2>1. \A item : Asked(q, item) => Asked(w, item)
    BY <1>8, WrittenSubs
  <2> QED
    BY <1>10, <2>1
<1> QED
  BY <1>4, <1>11 DEF r

\* A message from the broker: a REGOK makes the client ask for its list, a SUBOK
\* marks what it confirms.  Both begin behind the cursor.
LEMMA DealerSubs ==
  ASSUME NEW c, ClientShape(c), Entries(c.sublist), NEW d, IsSeq(d), d # <<>>
  PROVE  LET r == C!s_on_dealer_msg(c, Head(d))
             m == Head(d)
         IN /\ Entries(r.c.sublist) /\ (ListOK(c.sublist) => ListOK(r.c.sublist))
            /\ m.cmd = "REGOK" /\ c.cursor = 0 =>
                 \A i \in DOMAIN r.c.sublist : Asked(r.out, r.c.sublist[i])
            /\ m.cmd # "REGOK" /\ (m.cmd = "SUBOK" => c.cursor = 0) =>
                 r.c.state = c.state /\ Carried(r.out, d, Tail(d), c.sublist, r.c.sublist)
<1> DEFINE m == Head(d)
           r == C!s_on_dealer_msg(c, m)
           list == c.sublist
           new == r.c.sublist
<1>1. \A x : Confirms(d, x) => IsSubok(m, x) \/ Confirms(Tail(d), x)
  BY ReadSubs
<1>2. CASE m.cmd = "REGOK"
  <2>1. r = C!cb_regok(c)
    BY <1>2 DEF C!s_on_dealer_msg
  <2> HIDE DEF m
  <2>2. new = list /\ (c.cursor = 0 => \A i \in DOMAIN list : Asked(r.out, list[i]))
    BY <2>1, RegokAsks, RegokWrites
  <2> QED
    BY <1>2, <2>2 DEF m
<1>3. CASE m.cmd = "SUBOK"
  <2> DEFINE h == C!Heard(c)
             on == C!sublist_activate(h, m.topic, m.scope).sublist
  <2>1. new = on /\ r.out = <<>>
    BY <1>3 DEF C!s_on_dealer_msg, C!cb_subok, C!Result
  <2>2. ClientShape(h) /\ h.sublist = list /\ h.cursor = c.cursor
    BY DEF C!Heard, ClientShape, ClientFields
  <2>3. r.c.state = c.state
    BY <1>3, DealerAnswers DEF Steady, DownTokens
  <2> HIDE DEF h
  <2>4. /\ Entries(on) /\ (ListOK(list) => ListOK(on)) /\ DOMAIN on = DOMAIN list
        /\ \A i \in DOMAIN list :
             /\ SameItem(on[i], list[i])
             /\ list[i].active => on[i].active
             /\ c.cursor = 0 /\ list[i].topic = m.topic /\ list[i].scope = m.scope =>
                  on[i].active
    BY <2>2, Activated
  <2> HIDE DEF on, m, list, r
  <2>5. ASSUME c.cursor = 0, NEW i \in DOMAIN on
        PROVE  /\ SameItem(on[i], list[i]) /\ (list[i].active => on[i].active)
               /\ Confirms(d, list[i]) => Confirms(Tail(d), on[i]) \/ on[i].active
    <3>1. /\ SameItem(on[i], list[i]) /\ (list[i].active => on[i].active)
          /\ list[i].topic = m.topic /\ list[i].scope = m.scope => on[i].active
      BY <2>4, <2>5
    <3>2. Confirms(Tail(d), list[i]) => Confirms(Tail(d), on[i])
      BY <3>1, SameToAll
    <3>3. IsSubok(m, list[i]) => on[i].active
      BY <3>1 DEF IsSubok
    <3> QED
      BY <1>1, <3>1, <3>2, <3>3
  <2>6. c.cursor = 0 => Carried(<<>>, d, Tail(d), list, on)
    BY <2>4, <2>5, NoneEnded DEF Carried
  <2> QED
    BY <1>3, <2>1, <2>3, <2>4, <2>6 DEF r, m, list
<1>4. CASE m.cmd \notin {"REGOK", "SUBOK"}
  <2>1. new = list /\ r.c.state = c.state /\ r.out \in {<<>>, <<C!Msg("CHALLOK")>>}
    BY <1>4 DEF C!s_on_dealer_msg, C!cb_chall, C!cb_pong, C!cb_data, C!cb_pub, C!cb_error,
                C!Result, C!Heard, ClientShape, ClientFields
  <2>2. C!Msg("CHALLOK").cmd # "UNSUB"
    BY DEF C!Msg
  <2> HIDE DEF m, r, list
  <2>3. \A x : ~Ended(r.out, x)
    BY <2>1, <2>2, NoneEnded
  <2>4. \A x : Confirms(d, x) => Confirms(Tail(d), x)
    BY <1>1, <1>4 DEF IsSubok
  <2>5. Carried(r.out, d, Tail(d), list, list)
    BY <2>3, <2>4 DEF Carried, SameItem
  <2>6. Entries(list)
    BY DEF list
  <2> QED
    BY <1>4, <2>1, <2>5, <2>6 DEF r, m, list
<1> QED
  BY <1>2, <1>3, <1>4

\* A topic has one scope, so a list without a doubled entry has no topic twice.
LEMMA UndoubledOK ==
  ASSUME OneScope, NEW list, Entries(list), ~Doubled(list)
  PROVE  ListOK(list)
<1>1. ASSUME NEW i \in DOMAIN list, NEW j \in DOMAIN list, list[i].topic = list[j].topic
      PROVE  list[i].scope = list[j].scope
  <2>1. FromCall(list[i]) /\ FromCall(list[j])
    BY DEF Entries
  <2>2. PICK m \in Subscribing :
          /\ m.call = "subscribe"
          /\ list[j] = [topic |-> m.topic, scope |-> C!ScopeStr(m.scope), active |-> list[j].active]
    BY <2>1 DEF FromCall
  <2>3. list[j].topic = m.topic /\ list[j].scope = C!ScopeStr(m.scope)
    BY <2>2
  <2> QED
    BY <1>1, <2>1, <2>3, ItemsApart
<1> QED
  BY <1>1 DEF ListOK, Doubled

\* The client hears from the broker.
LEMMA DealerSubsStep ==
  ASSUME OneScope, LinkInv, SubsInv, DealerMsg
  PROVE  SubsInv'
<1> DEFINE d == down[sock]
           t == Tail(d)
           m == Head(d)
           r == C!s_on_dealer_msg(cl, m)
<1>1. /\ d # <<>> /\ cl' = r.c /\ up' = [up EXCEPT ![sock] = @ \o r.out]
      /\ down' = [down EXCEPT ![sock] = t] /\ br' = br /\ sock' = sock
  BY DEF DealerMsg, Write
<1>2. /\ ClientShape(cl) /\ Entries(cl.sublist) /\ (~skipped => ListOK(cl.sublist))
      /\ Channels(sock, up, down)
  BY DEF LinkInv, SubsInv
<1>3. IsSeq(d)
  BY <1>2 DEF Channels
<1>4. /\ m.cmd = "REGOK" => skipped' = (cl.cursor > 0 \/ Doubled(cl.sublist))
      /\ m.cmd = "SUBOK" => Loop
      /\ m.cmd \notin {"REGOK", "SUBOK"} => skipped' = skipped
  BY DEF DealerMsg
<1>5. /\ Entries(r.c.sublist) /\ (ListOK(cl.sublist) => ListOK(r.c.sublist))
      /\ m.cmd = "REGOK" /\ cl.cursor = 0 =>
           \A i \in DOMAIN r.c.sublist : Asked(r.out, r.c.sublist[i])
      /\ m.cmd # "REGOK" /\ (m.cmd = "SUBOK" => cl.cursor = 0) =>
           r.c.state = cl.state /\ Carried(r.out, d, t, cl.sublist, r.c.sublist)
  <2> HIDE DEF d
  <2> QED
    BY <1>1, <1>2, <1>3, DealerSubs
<1>6. IsSeq(r.out) /\ FromClient(r.out)
  BY <1>2, DealerAnswers DEF Writes
<1> HIDE DEF r
<1>7. up'[sock] = up[sock] \o r.out
  BY <1>1, <1>2, <1>6, UpWritten
<1>8. IsSeq(t)
  BY <1>1, <1>3, TailHas
<1> HIDE DEF t, m
<1>9. down'[sock] = t
  BY <1>1, <1>2, <1>8, DownChanged
<1> HIDE DEF d
<1>10. ASSUME ~skipped'
       PROVE  /\ ListOK(r.c.sublist)
              /\ C!Registered(r.c) =>
                   \/ \A i \in DOMAIN r.c.sublist : Asked(r.out, r.c.sublist[i])
                   \/ /\ ~skipped /\ C!Registered(cl)
                      /\ Carried(r.out, d, t, cl.sublist, r.c.sublist)
  <2>1. CASE m.cmd = "REGOK"
    <3>1. ~(cl.cursor > 0) /\ ~Doubled(cl.sublist)
      BY <1>4, <1>10, <2>1, Zenon
    <3>2. cl.cursor = 0
      BY <1>2, <3>1 DEF ClientShape
    <3>3. ListOK(cl.sublist)
      BY <1>2, <3>1, UndoubledOK
    <3> QED
      BY <1>5, <2>1, <3>2, <3>3
  <2>2. CASE m.cmd # "REGOK"
    <3>1. ~skipped /\ (m.cmd = "SUBOK" => cl.cursor = 0)
      BY <1>2, <1>4, <1>10, <2>2, LoopAtStart
    <3> QED
      BY <1>2, <1>5, <2>2, <3>1 DEF C!Registered
  <2> QED
    BY <2>1, <2>2
<1>11. cl' = r.c /\ sock' = sock /\ br' = br /\ down[sock] = d
  BY <1>1 DEF d
<1>12. ~skipped' =>
         /\ ListOK(cl'.sublist)
         /\ C!Registered(cl') =>
              \/ \A i \in DOMAIN cl'.sublist : Asked(r.out, cl'.sublist[i])
              \/ /\ ~skipped /\ C!Registered(cl)
                 /\ Carried(r.out, down[sock], down'[sock'], cl.sublist, cl'.sublist)
  BY <1>9, <1>10, <1>11
<1>13. Entries(cl'.sublist) /\ UNCHANGED <<br, sock>> /\ up'[sock'] = up[sock] \o r.out
  BY <1>5, <1>7, <1>11
<1> QED
  BY <1>6, <1>12, <1>13, ClientSubsStep

(***************************************************************************)
(* The broker's side.                                                      *)
(***************************************************************************)
\* The trie counts as it should, and nobody has left it.
KeepsSubs(b, c) == TrieCounts(c) /\ \A y, x : On(b, y, x) => On(c, y, x)

\* Handlers that leave the subscriptions alone.
LEMMA SameKeeps ==
  ASSUME NEW b, TrieCounts(b), NEW c, SameSubs(b, c)
  PROVE  KeepsSubs(b, c)
BY SameSubsCounts DEF KeepsSubs

\* s_cb_sub of a client the broker has: the client is subscribed, and told so.
LEMMA SubHandler ==
  ASSUME NEW b, Shape(b), TrieCounts(b), NEW s, NEW topic, NEW scope
  PROVE  LET r == s_cb_sub(b, s, Tenant, topic, scope)
         IN /\ KeepsSubs(b, r.b)
            /\ HasLocal(b, Key(s)) /\ topic # <<"public">> =>
                 /\ On(r.b, s, SubTopic(Tenant, topic, scope, Scope))
                 /\ r.rout = To(s, Subok(topic, scope))
<1> DEFINE r == s_cb_sub(b, s, Tenant, topic, scope)
           t == SubTopic(Tenant, topic, scope, Scope)
           b1 == TouchClient(b, Key(s))
           b2 == nn_trie_subscribe(insert_subscription(b1, s, t), s, t)
<1>1. /\ r.b \in {b, b1, b2}
      /\ HasLocal(b, Key(s)) /\ topic # <<"public">> =>
           r.b = b2 /\ r.rout = To(s, Subok(topic, scope))
  BY DEF s_cb_sub, Nothing, Result, WithPs, Key
<1>2. Shape(b1) /\ SameSubs(b, b1) /\ SameSubs(b, b)
  BY AddNone, OthersSameSubs DEF NoneAdded
<1> HIDE DEF r, t, b1
<1>3. TrieCounts(b1) /\ \A y, x : On(b1, y, x) <=> On(b, y, x)
  BY <1>2, SameSubsCounts
<1>4. TrieCounts(b2) /\ \A y, x : On(b2, y, x) <=> On(b1, y, x) \/ (y = s /\ x = t)
  BY <1>2, <1>3, SubscribeCounts
<1> HIDE DEF b2
<1>5. KeepsSubs(b, b) /\ KeepsSubs(b, b1) /\ KeepsSubs(b, b2)
  BY <1>3, <1>4 DEF KeepsSubs
<1>6. On(b2, s, t)
  BY <1>4
<1> QED
  BY <1>1, <1>5, <1>6 DEF r, t

\* s_cb_unsub takes the client off one topic.
LEMMA UnsubHandler ==
  ASSUME NEW b, Shape(b), TrieCounts(b), NEW s, NEW topic, NEW scope
  PROVE  LET c == s_cb_unsub(b, s, Tenant, topic, scope).b
         IN /\ TrieCounts(c)
            /\ \A y, x : On(b, y, x) /\ (y # s \/ x # SubTopic(Tenant, topic, scope, Scope)) =>
                           On(c, y, x)
<1> DEFINE c == s_cb_unsub(b, s, Tenant, topic, scope).b
           t == SubTopic(Tenant, topic, scope, Scope)
           b1 == TouchClient(b, Key(s))
           b2 == remove_subscription(b1, s, t)
<1>1. c \in {b, b1, b2}
  BY DEF s_cb_unsub, Nothing, Result, WithPs, Key
<1>2. Shape(b1) /\ SameSubs(b, b1)
  BY AddNone, OthersSameSubs DEF NoneAdded
<1> HIDE DEF c, t, b1
<1>3. TrieCounts(b1) /\ \A y, x : On(b1, y, x) <=> On(b, y, x)
  BY <1>2, SameSubsCounts
<1>4. TrieCounts(b2) /\ \A y, x : On(b1, y, x) /\ (y # s \/ x # t) => On(b2, y, x)
  BY <1>2, <1>3, RemoveOneCounts
<1> HIDE DEF b2
<1> QED
  BY <1>1, <1>3, <1>4 DEF c, t

\* The goodbye of a client, and the end of clients that are silent.
LEMMA UnlinkHandler ==
  ASSUME NEW b, Shape(b), TrieCounts(b), NEW S, NEW K
  PROVE  LET c == UnlinkLocal(remove_subscriptions(b, S), K)
         IN /\ TrieCounts(c)
            /\ \A y, x : On(b, y, x) /\ y \notin S => On(c, y, x)
            /\ DOMAIN c.lcl_cli = DOMAIN b.lcl_cli \ K
<1> DEFINE b1 == remove_subscriptions(b, S)
           c == UnlinkLocal(b1, K)
<1>1. /\ Shape(b1) /\ TrieCounts(b1)
      /\ \A y, x : On(b, y, x) /\ y \notin S => On(b1, y, x)
  BY RemoveAllCounts
<1>2. b1.lcl_cli = b.lcl_cli
  BY DEF remove_subscriptions, Shape, BrokerFields
<1> HIDE DEF b1
<1>3. SameSubs(b1, c)
  BY <1>1, OthersSameSubs
<1>4. TrieCounts(c) /\ \A y, x : On(c, y, x) <=> On(b1, y, x)
  BY <1>1, <1>3, SameSubsCounts
<1>5. DOMAIN c.lcl_cli = DOMAIN b1.lcl_cli \ K
  BY <1>1 DEF UnlinkLocal, Without, Restrict, Shape, BrokerFields
<1> HIDE DEF c
<1> QED
  BY <1>1, <1>2, <1>4, <1>5 DEF c, b1

\* What a message of a client does to the subscriptions.
LEMMA RouterSubs ==
  ASSUME Shape(br), TrieCounts(br), KeysOwn(br), NEW s, NEW m, m.cmd \in ClientCmds
  PROVE  LET r == RouterMsg(s, m)
         IN /\ TrieCounts(r.b) /\ KeysOwn(r.b)
            /\ \A y, x : On(br, y, x) =>
                 On(r.b, y, x) \/ (y = s /\ (Ends(m, x) \/ ~HasLocal(r.b, Key(s))))
            /\ m.cmd = "SUB" /\ m.topic # <<"public">> /\ HasLocal(br, Key(s)) =>
                 /\ On(r.b, s, SubTopic(Tenant, m.topic, m.scope, Scope))
                 /\ r.rout = To(s, Subok(m.topic, m.scope))
<1> DEFINE r == RouterMsg(s, m)
<1>1. DOMAIN r.b.lcl_cli \subseteq DOMAIN br.lcl_cli \cup {Key(s)}
  BY RouterAnswers
<1> HIDE DEF r
<1>2. KeysOwn(r.b)
  <2>1. Key(s) = Key(Key(s)[1])
    BY DEF Key
  <2> QED
    BY <1>1, <2>1 DEF KeysOwn
<1>3. CASE m.cmd \in {"ADDLCL", "CHALLOK", "PING", "PUB", "SEND"}
  <2>1. SameSubs(br, r.b)
    <3>1. CASE m.cmd = "ADDLCL"
      BY <3>1, OthersSameSubs DEF r, RouterMsg, s_cb_addlcl, Result
    <3>2. CASE m.cmd = "CHALLOK"
      BY <3>2, ClientSubs DEF r, RouterMsg
    <3>3. CASE m.cmd = "PING"
      BY <3>3, ClientSubs DEF r, RouterMsg
    <3>4. CASE m.cmd = "PUB"
      BY <3>4, ClientSubs DEF r, RouterMsg
    <3>5. CASE m.cmd = "SEND"
      BY <3>5, ClientSubs DEF r, RouterMsg
    <3> QED
      BY <1>3, <3>1, <3>2, <3>3, <3>4, <3>5
  <2>2. TrieCounts(r.b) /\ \A y, x : On(br, y, x) => On(r.b, y, x)
    BY <2>1, SameSubsCounts
  <2> QED
    BY <1>2, <1>3, <2>2 DEF r
<1>4. CASE m.cmd = "SUB"
  <2>1. r = s_cb_sub(br, s, Tenant, m.topic, m.scope)
    BY <1>4 DEF r, RouterMsg
  <2>2. /\ KeepsSubs(br, r.b)
        /\ HasLocal(br, Key(s)) /\ m.topic # <<"public">> =>
             /\ On(r.b, s, SubTopic(Tenant, m.topic, m.scope, Scope))
             /\ r.rout = To(s, Subok(m.topic, m.scope))
    BY <2>1, SubHandler
  <2> QED
    BY <1>2, <2>2 DEF KeepsSubs, r
<1>5. CASE m.cmd = "UNSUB"
  <2> DEFINE t == SubTopic(Tenant, m.topic, m.scope, Scope)
  <2>1. r = s_cb_unsub(br, s, Tenant, m.topic, m.scope)
    BY <1>5 DEF r, RouterMsg
  <2>2. TrieCounts(r.b) /\ \A y, x : On(br, y, x) /\ (y # s \/ x # t) => On(r.b, y, x)
    BY <2>1, UnsubHandler
  <2>3. \A x : x = t => Ends(m, x)
    BY <1>5 DEF Ends
  <2> HIDE DEF t
  <2> QED
    BY <1>2, <1>5, <2>2, <2>3 DEF r
<1>6. CASE m.cmd = "UNREG"
  <2> DEFINE c == UnlinkLocal(remove_subscriptions(br, {s}), {Key(s)})
  <2>1. r.b = IF HasLocal(br, Key(s)) THEN c ELSE br
    BY <1>6 DEF r, RouterMsg, s_cb_unreg_cli, Result, Nothing, Key
  <2>2. /\ TrieCounts(c) /\ \A y, x : On(br, y, x) /\ y \notin {s} => On(c, y, x)
        /\ DOMAIN c.lcl_cli = DOMAIN br.lcl_cli \ {Key(s)}
    BY UnlinkHandler
  <2> HIDE DEF c
  <2>3. ~HasLocal(r.b, Key(s))
    BY <2>1, <2>2 DEF HasLocal
  <2>4. TrieCounts(r.b) /\ \A y, x : On(br, y, x) /\ y # s => On(r.b, y, x)
    BY <2>1, <2>2
  <2> QED
    BY <1>2, <1>6, <2>3, <2>4 DEF r
<1> QED
  BY <1>3, <1>4, <1>5, <1>6 DEF ClientCmds

\* More comes back to the client, and it stays where it is in the trie.
LEMMA GrownKept ==
  ASSUME NEW b, NEW c, NEW s, NEW u, NEW d, IsSeq(d), NEW q, IsSeq(q), NEW list,
         Kept(b, s, u, d, list), \A x : On(b, s, x) => On(c, s, x)
  PROVE  Kept(c, s, u, d \o q, list) /\ Kept(c, s, u, d, list)
<1>1. \A item : Confirms(d, item) => Confirms(d \o q, item)
  BY WrittenSubs
<1> QED
  BY <1>1 DEF Kept, Wanted, Confirmed

\* The broker reads the client's next message and answers q.  A SUB that makes one
\* of the client's subscriptions is carried out and confirmed.
LEMMA ReadKept ==
  ASSUME NEW b, NEW c, NEW s, NEW u, IsSeq(u), u # <<>>, NEW d, IsSeq(d), NEW q, IsSeq(q),
         NEW list, Kept(b, s, u, d, list),
         \A x : On(b, s, x) => On(c, s, x) \/ Ends(Head(u), x),
         \A i \in DOMAIN list :
           IsSub(Head(u), list[i]) =>
             On(c, s, BrokerTopic(list[i])) /\ Confirms(q, list[i])
  PROVE  Kept(c, s, Tail(u), d \o q, list)
<1> DEFINE m == Head(u)
           t == Tail(u)
           e == d \o q
<1>1. /\ \A x : ~Ended(u, x) => ~Ended(t, x) /\ ~Ends(m, x)
      /\ \A item : Asks(u, item) => IsSub(m, item) \/ Asks(t, item)
      /\ \A item : Asked(u, item) =>
           Asked(t, item) \/ (IsSub(m, item) /\ ~Ended(t, BrokerTopic(item)))
  BY ReadSubs
<1>2. \A item : Confirms(d, item) \/ Confirms(q, item) => Confirms(e, item)
  BY WrittenSubs
<1>3. \A x : On(b, s, x) => On(c, s, x) \/ Ends(m, x)
  OBVIOUS
<1>4. \A i \in DOMAIN list :
        IsSub(m, list[i]) => On(c, s, BrokerTopic(list[i])) /\ Confirms(q, list[i])
  OBVIOUS
<1> HIDE DEF m, t, e
<1>5. ASSUME NEW i \in DOMAIN list PROVE Wanted(c, s, t, list[i]) /\ Confirmed(t, e, list[i])
  <2>1. Wanted(b, s, u, list[i]) /\ Confirmed(u, d, list[i])
    BY DEF Kept
  <2>2. Wanted(c, s, t, list[i])
    BY <1>1, <1>3, <1>4, <2>1 DEF Wanted
  <2>3. Confirmed(t, e, list[i])
    BY <1>1, <1>2, <1>4, <2>1 DEF Confirmed
  <2> QED
    BY <2>2, <2>3
<1> QED
  BY <1>5 DEF Kept, t, e

\* The application does not subscribe to the protected topic.
LEMMA NotProtected ==
  ASSUME OneScope, NEW x, FromCall(x)
  PROVE  x.topic # <<"public">>
<1>1. PICK m \in Subscribing :
        /\ m.call = "subscribe"
        /\ x = [topic |-> m.topic, scope |-> C!ScopeStr(m.scope), active |-> x.active]
  BY DEF FromCall
<1>2. x.topic = m.topic
  BY <1>1
<1> QED
  BY <1>1, <1>2 DEF OneScope

\* A single answer comes back as it is.
LEMMA BackIsAnswer ==
  ASSUME NEW r, NEW s, NEW m, r.rout = To(s, m)
  PROVE  Back(r, s) = <<m>>
<1>1. {x \in r.rout : x.to = s} = {[to |-> s, m |-> m]}
  BY DEF To
<1>2. {o.m : o \in {[to |-> s, m |-> m]}} = {m}
  OBVIOUS
<1> QED
  BY <1>1, <1>2, SmallSets DEF Back

\* The broker hears from a client, through its present socket or one it has closed.
LEMMA ReceiveSubsStep ==
  ASSUME OneScope, LinkInv, SubsInv, ReceiveUp
  PROVE  SubsInv'
<1>1. PICK s \in Sockids :
        /\ up[s] # <<>>
        /\ br' = RouterMsg(s, Head(up[s])).b
        /\ down' = [down EXCEPT ![sock] = @ \o Back(RouterMsg(s, Head(up[s])), sock)]
        /\ up' = [up EXCEPT ![s] = Tail(@)]
        /\ cl' = cl /\ sock' = sock /\ skipped' = skipped
  BY DEF ReceiveUp, Back
<1> DEFINE u == up[sock]
           d == down[sock]
           m == Head(up[s])
           r == RouterMsg(s, m)
           q == Back(r, sock)
           v == IF s = sock THEN Tail(u) ELSE u
           w == d \o q
<1>2. Channels(sock, up, down) /\ Shape(br) /\ Tokens(cl, u, d)
  BY DEF LinkInv
<1>3. KeysOwn(br) /\ TrieCounts(br) /\ Entries(cl.sublist) /\ (~skipped => ListOK(cl.sublist))
  BY DEF SubsInv
<1>4. IsSeq(u) /\ IsSeq(d) /\ sock \in Sockids
  BY <1>2 DEF Channels
<1>5. Channels(sock, up', down) /\ m.cmd \in ClientCmds /\ up'[sock] = v
  BY <1>1, <1>2, UpRead
<1>6. /\ AnswersOnce(r)
      /\ DOMAIN r.b.lcl_cli \subseteq DOMAIN br.lcl_cli \cup {Key(s)}
      /\ m.cmd # "CHALLOK" => DOMAIN r.b.lcl_cli \subseteq DOMAIN br.lcl_cli
  BY <1>2, <1>5, RouterAnswers
<1>7. /\ TrieCounts(r.b) /\ KeysOwn(r.b)
      /\ \A y, x : On(br, y, x) =>
           On(r.b, y, x) \/ (y = s /\ (Ends(m, x) \/ ~HasLocal(r.b, Key(s))))
      /\ m.cmd = "SUB" /\ m.topic # <<"public">> /\ HasLocal(br, Key(s)) =>
           /\ On(r.b, s, SubTopic(Tenant, m.topic, m.scope, Scope))
           /\ r.rout = To(s, Subok(m.topic, m.scope))
  BY <1>2, <1>3, <1>5, RouterSubs
<1> HIDE DEF r
<1>8. IsSeq(q)
  BY <1>6, BackIsShort
<1>9. down'[sock] = w
  <2>1. IsSeq(w)
    BY <1>4, <1>8, ConcatHas
  <2>2. down' = [down EXCEPT ![sock] = w]
    BY <1>1 DEF r
  <2> HIDE DEF w
  <2> QED
    BY <1>5, <2>1, <2>2, DownChanged
<1>10. ASSUME ~skipped, C!Registered(cl), HasLocal(r.b, Key(sock))
       PROVE  Kept(r.b, sock, v, w, cl.sublist)
  <2>1. HasLocal(br, Key(sock))
    <3>1. s = sock => m.cmd # "CHALLOK"
      <4>1. NoToken(u, d)
        BY <1>2, <1>10 DEF Tokens
      <4>2. u # <<>> => Head(u).cmd \notin UpTokens
        BY <1>4, <4>1, TailTokens DEF NoToken
      <4> QED
        BY <1>1, <4>2 DEF UpTokens
    <3>2. Key(sock) = Key(s) => sock = s
      BY DEF Key
    <3> QED
      BY <1>6, <1>10, <3>1, <3>2 DEF HasLocal
  <2>2. Kept(br, sock, u, d, cl.sublist)
    BY <1>10, <2>1 DEF SubsInv
  <2>3. CASE s # sock
    <3>1. \A x : On(br, sock, x) => On(r.b, sock, x)
      BY <1>7, <2>3
    <3> HIDE DEF u, d, q
    <3>2. Kept(r.b, sock, u, w, cl.sublist)
      BY <1>4, <1>8, <2>2, <3>1, GrownKept
    <3> QED
      BY <2>3, <3>2
  <2>4. CASE s = sock
    <3>1. m = Head(u) /\ u # <<>>
      BY <1>1, <2>4
    <3> HIDE DEF m
    <3>2. \A x : On(br, sock, x) => On(r.b, sock, x) \/ Ends(m, x)
      BY <1>7, <1>10, <2>4
    <3>3. ASSUME NEW i \in DOMAIN cl.sublist, IsSub(m, cl.sublist[i])
          PROVE  On(r.b, sock, BrokerTopic(cl.sublist[i])) /\ Confirms(q, cl.sublist[i])
      <4> DEFINE x == cl.sublist[i]
      <4>1. FromCall(x)
        BY <1>3 DEF Entries
      <4> HIDE DEF x
      <4>2. m.cmd = "SUB" /\ m.topic = x.topic /\ m.scope = x.scope
        BY <3>3 DEF IsSub, x
      <4>3. m.topic # <<"public">>
        BY <4>1, <4>2, NotProtected
      <4>4. On(r.b, sock, BrokerTopic(x)) /\ r.rout = To(sock, Subok(m.topic, m.scope))
        BY <1>7, <2>1, <2>4, <4>2, <4>3 DEF BrokerTopic
      <4>5. q = <<Subok(m.topic, m.scope)>>
        BY <4>4, BackIsAnswer
      <4>6. IsSubok(Subok(m.topic, m.scope), x)
        BY <4>2 DEF IsSubok, Subok
      <4>7. DOMAIN q = {1} /\ q[1] = Subok(m.topic, m.scope)
        BY <4>5
      <4>8. Confirms(q, x)
        BY <4>6, <4>7 DEF Confirms
      <4> QED
        BY <4>4, <4>8 DEF x
    <3> HIDE DEF u, d, q
    <3>4. Kept(r.b, sock, Tail(u), w, cl.sublist)
      BY <1>4, <1>8, <2>2, <3>1, <3>2, <3>3, ReadKept
    <3> QED
      BY <2>4, <3>4
  <2> QED
    BY <2>3, <2>4
<1>11. br' = r.b /\ cl' = cl /\ sock' = sock /\ skipped' = skipped
  BY <1>1 DEF r
<1>12. ~skipped' /\ C!Registered(cl') /\ HasLocal(br', Key(sock')) =>
         Kept(br', sock', up'[sock'], down'[sock'], cl'.sublist)
  BY <1>5, <1>9, <1>10, <1>11
<1> QED
  BY <1>3, <1>7, <1>11, <1>12, SubsInvNext

\* The broker times clients out.  Whoever stays under its key keeps its socket's
\* subscriptions, because no other key has the socket.
LEMMA CheckSubsStep ==
  ASSUME LinkInv, SubsInv, CheckCliTimeout
  PROVE  SubsInv'
<1> DEFINE K == SilentClients(br)
           S == {k[1] : k \in K}
           c == UnlinkLocal(remove_subscriptions(br, S), K)
<1>1. br' = s_check_cli_timeout(br, <<>>).b /\ UNCHANGED <<cl, sock, up, down, skipped>>
  BY DEF CheckCliTimeout
<1>2. Shape(br) /\ Channels(sock, up, down)
  BY DEF LinkInv
<1>3. KeysOwn(br) /\ TrieCounts(br) /\ Entries(cl.sublist) /\ (~skipped => ListOK(cl.sublist))
  BY DEF SubsInv
<1>4. K \subseteq DOMAIN br.lcl_cli
  BY DEF SilentClients
<1>5. /\ TrieCounts(c)
      /\ \A y, x : On(br, y, x) /\ y \notin S => On(c, y, x)
      /\ DOMAIN c.lcl_cli = DOMAIN br.lcl_cli \ K
  BY <1>2, <1>3, UnlinkHandler
<1>6. DOMAIN br'.lcl_cli = DOMAIN c.lcl_cli /\ SameSubs(c, br')
  <2>1. Shape(c)
    BY <1>2, AddNone DEF NoneAdded
  <2>2. br' = [c EXCEPT !.lcl_cli = br'.lcl_cli] /\ DOMAIN br'.lcl_cli = DOMAIN c.lcl_cli
    <3>1. br' = [c EXCEPT !.lcl_cli = [k \in DOMAIN c.lcl_cli |->
                                         [c.lcl_cli[k] EXCEPT !.timeout = @ + 1]]]
      BY <1>1 DEF s_check_cli_timeout, Result
    <3> HIDE DEF c
    <3> QED
      BY <2>1, <3>1 DEF Shape, BrokerFields
  <2> HIDE DEF c
  <2> QED
    BY <2>1, <2>2 DEF SameSubs, Shape, BrokerFields
<1> HIDE DEF c
<1>7. TrieCounts(br') /\ \A y, x : On(br', y, x) <=> On(c, y, x)
  BY <1>5, <1>6, SameSubsCounts
<1>8. KeysOwn(br')
  BY <1>3, <1>5, <1>6 DEF KeysOwn
<1>9. ASSUME ~skipped, C!Registered(cl), HasLocal(br', Key(sock))
      PROVE  Kept(br', sock, up[sock], down[sock], cl.sublist)
  <2>1. Key(sock) \in DOMAIN br.lcl_cli /\ Key(sock) \notin K
    BY <1>5, <1>6, <1>9 DEF HasLocal
  <2>2. sock \notin S
    BY <1>3, <1>4, <2>1 DEF KeysOwn
  <2>3. \A x : On(br, sock, x) => On(br', sock, x)
    BY <1>5, <1>7, <2>2
  <2>4. Kept(br, sock, up[sock], down[sock], cl.sublist)
    BY <1>9, <2>1 DEF SubsInv, HasLocal
  <2>5. IsSeq(down[sock]) /\ IsSeq(<<>>)
    BY <1>2, ShortSeqs DEF Channels
  <2> QED
    BY <2>3, <2>4, <2>5, GrownKept
<1> QED
  BY <1>1, <1>3, <1>7, <1>8, <1>9, SubsInvNext

\* A broker that starts again has neither clients nor subscriptions.
LEMMA NewBrokerSubs ==
  /\ KeysOwn(NewBroker(ROOT)) /\ TrieCounts(NewBroker(ROOT))
  /\ \A k : ~HasLocal(NewBroker(ROOT), k)
<1>1. DOMAIN <<>> = {}
  OBVIOUS
<1> QED
  BY <1>1 DEF NewBroker, KeysOwn, TrieCounts, HasLocal

\* The broker dies and is started again.
LEMMA CrashSubsStep ==
  ASSUME SubsInv, Crash
  PROVE  SubsInv'
<1>1. br' = NewBroker(ROOT) /\ UNCHANGED <<cl, sock, down, skipped>>
  BY DEF Crash
<1>2. KeysOwn(br') /\ TrieCounts(br') /\ ~HasLocal(br', Key(sock'))
  BY <1>1, NewBrokerSubs
<1>3. Entries(cl'.sublist) /\ (~skipped' => ListOK(cl'.sublist))
  BY <1>1 DEF SubsInv
<1> QED
  BY <1>2, <1>3, SubsInvNext

\* Initially there is nothing to keep.
LEMMA InitSubs == Init => SubsInv
<1> SUFFICES ASSUME Init PROVE SubsInv
  OBVIOUS
<1>1. br = NewBroker(ROOT) /\ cl = C!NewClient
  BY DEF Init
<1>2. cl.sublist = <<>>
  BY <1>1 DEF C!NewClient
<1> QED
  BY <1>1, <1>2, NewBrokerSubs, EmptyList DEF SubsInv

\* Every step of the client and of the broker keeps SubsInv.
LEMMA NextSubs ==
  ASSUME OneScope, LinkInv, SubsInv, [Next]_vars
  PROVE  SubsInv'
<1>1. CASE AskRegistration \/ RestartClient
  BY <1>1, ReopenSubsStep
<1>2. CASE Heartbeat
  BY <1>2, HeartbeatSubsStep
<1>3. CASE Ping
  BY <1>3, PingSubsStep
<1>4. CASE DealerMsg
  BY <1>4, DealerSubsStep
<1>5. CASE PipeMsg
  BY <1>5, PipeSubsStep
<1>6. CASE ReceiveUp
  BY <1>6, ReceiveSubsStep
<1>7. CASE CheckCliTimeout
  BY <1>7, CheckSubsStep
<1>8. CASE Crash
  BY <1>8, CrashSubsStep
<1>9. CASE UNCHANGED vars
  BY <1>9 DEF vars, SubsInv
<1> QED
  BY <1>1, <1>2, <1>3, <1>4, <1>5, <1>6, <1>7, <1>8, <1>9 DEF Next

\* SubsInv holds in every reachable state, for an application that uses one scope
\* for each topic.
THEOREM SubsInvariant ==
  ASSUME OneScope
  PROVE  Spec => []SubsInv
<1>1. LinkInv /\ SubsInv /\ [Next]_vars => SubsInv'
  BY NextSubs
<1> QED
  BY <1>1, InitSubs, LinkInvariant, PTL DEF Spec

\* Once nothing is on its way, every subscription on a registered client's list is
\* marked active and in the broker's trie, whatever was late, lost or restarted,
\* unless a loop on the list has passed over an entry: a client that registers again
\* asks for its whole list anew, and what it asks for and gives up on one socket
\* reaches the broker in that order.
THEOREM SubscriptionsStayHeld ==
  ASSUME OneScope
  PROVE  Spec => []SubscriptionsHeld
<1>1. LinkInv /\ SubsInv => SubscriptionsHeld
  <2> SUFFICES ASSUME SubsInv, C!Registered(cl), Held, Idle, ~skipped, NEW i \in DOMAIN cl.sublist
               PROVE  /\ cl.sublist[i].active
                      /\ ~FreshInTrie(br, sock, BrokerTopic(cl.sublist[i]))
    BY DEF SubscriptionsHeld, Agreed
  <2> DEFINE x == cl.sublist[i]
  <2>1. Wanted(br, sock, up[sock], x) /\ Confirmed(up[sock], down[sock], x)
    BY DEF SubsInv, Held, Kept
  <2> HIDE DEF x
  <2>2. DOMAIN <<>> = {} /\ up[sock] = <<>> /\ down[sock] = <<>>
    BY DEF Idle
  <2>3. ~Asked(up[sock], x) /\ ~Asks(up[sock], x) /\ ~Confirms(down[sock], x)
    BY <2>2 DEF Asked, Asks, Confirms
  <2>4. x.active /\ On(br, sock, BrokerTopic(x))
    BY <2>1, <2>3 DEF Wanted, Confirmed
  <2> QED
    BY <2>4 DEF On, FreshInTrie, InTrie, x
<1> QED
  BY <1>1, LinkInvariant, SubsInvariant, PTL

(***************************************************************************)
(* Only dd_unsubscribe moves the cursor into the list.                     *)
(***************************************************************************)
KeepsAll == \A m \in Calls : m.call # "unsubscribe"

AtStart == ~skipped /\ cl.cursor = 0

\* The application's calls.
LEMMA PipeAtStart ==
  ASSUME LinkInv, KeepsAll, AtStart, PipeMsg
  PROVE  AtStart'
<1>1. PICK m \in Calls :
        /\ cl' = C!s_on_pipe_msg(cl, m).c
        /\ IF m.call = "subscribe" THEN Loop ELSE UNCHANGED skipped
  BY DEF PipeMsg, Write
<1>2. m.call \in {"subscribe", "publish", "notify"} /\ ClientShape(cl)
  BY LinkAssumption DEF KeepsAll, LinkInv
<1>3. ~(cl.cursor > 0) /\ ~skipped
  BY DEF AtStart
<1>4. ~skipped'
  BY <1>1, <1>3, Zenon DEF Loop
<1>5. cl'.cursor = 0
  <2>1. CASE m.call = "subscribe"
    <3>1. cl' = C!sublist_add(cl, m.topic, C!ScopeStr(m.scope), FALSE)
      BY <1>1, <2>1 DEF C!s_on_pipe_msg, C!dd_subscribe, C!Result
    <3> QED
      BY <1>2, <3>1, ListsStayLists DEF Looped
  <2>2. CASE m.call \in {"publish", "notify"}
    <3>1. cl' = cl
      BY <1>1, <2>2 DEF C!s_on_pipe_msg, C!dd_publish, C!dd_notify, C!Result
    <3> QED
      BY <3>1 DEF AtStart
  <2> QED
    BY <1>2, <2>1, <2>2
<1> QED
  BY <1>4, <1>5 DEF AtStart

\* The client's timers.
LEMMA TimerAtStart ==
  ASSUME LinkInv, AtStart, Heartbeat \/ Ping
  PROVE  AtStart'
<1>1. ClientShape(cl) /\ ~(cl.cursor > 0) /\ ~skipped
  BY DEF AtStart, LinkInv
<1>2. ~skipped'
  BY <1>1, Zenon DEF Heartbeat, Ping, Loop
<1>3. CASE Heartbeat
  <2> DEFINE f == [cl EXCEPT !.timeout = @ + 1, !.state = "UNREG", !.heartbeat_loop = @ - 1,
                             !.registration_loop = @ + 1]
  <2>1. cl' = C!sublist_deactivate_all(f) \/ cl'.cursor = cl.cursor
    BY <1>1, <1>3 DEF Heartbeat, Write, C!s_heartbeat, C!Result, ClientShape, ClientFields
  <2>2. ClientShape(f)
    BY <1>1 DEF ClientShape, ClientFields
  <2> HIDE DEF f
  <2>3. cl'.cursor = 0
    BY <2>1, <2>2, ListsStayLists DEF Looped, AtStart
  <2> QED
    BY <1>2, <2>3 DEF AtStart
<1>4. CASE Ping
  <2>1. cl'.cursor = cl.cursor
    BY <1>1, <1>4 DEF Ping, Write, C!s_ping, C!Result, ClientShape, ClientFields
  <2> QED
    BY <1>2, <2>1 DEF AtStart
<1> QED
  BY <1>3, <1>4

\* What the client hears from the broker.
LEMMA DealerAtStart ==
  ASSUME LinkInv, SubsInv, AtStart, DealerMsg
  PROVE  AtStart'
<1> DEFINE m == Head(down[sock])
           h == C!Heard(cl)
<1>1. ClientShape(cl) /\ ~(cl.cursor > 0) /\ ~skipped
  BY DEF AtStart, LinkInv
<1>2. cl' = C!s_on_dealer_msg(cl, m).c
  BY DEF DealerMsg, Write
<1>3. ~Doubled(cl.sublist)
  BY <1>1 DEF SubsInv, ListOK, Doubled
<1>4. ~skipped'
  BY <1>1, <1>3, Zenon DEF DealerMsg, Loop
<1>5. ClientShape(h) /\ h.cursor = cl.cursor
  BY <1>1 DEF C!Heard, ClientShape, ClientFields
<1>6. CASE m.cmd = "REGOK"
  <2>1. cl' = C!cb_regok(cl).c
    BY <1>2, <1>6 DEF C!s_on_dealer_msg
  <2>2. cl'.cursor = 0
    BY <1>1, <2>1, RegokWrites
  <2> QED
    BY <1>4, <2>2 DEF AtStart
<1>7. CASE m.cmd = "SUBOK"
  <2>1. cl' = C!sublist_activate(h, m.topic, m.scope)
    BY <1>2, <1>7 DEF C!s_on_dealer_msg, C!cb_subok, C!Result
  <2> HIDE DEF h
  <2>2. cl'.cursor = 0
    BY <1>5, <2>1, ListsStayLists DEF Looped
  <2> QED
    BY <1>4, <2>2 DEF AtStart
<1>8. CASE m.cmd \notin {"REGOK", "SUBOK"}
  <2>1. cl'.cursor = cl.cursor
    BY <1>1, <1>2, <1>8 DEF C!s_on_dealer_msg, C!cb_chall, C!cb_pong, C!cb_data, C!cb_pub,
                C!cb_error, C!Result, C!Heard, ClientShape, ClientFields
  <2> QED
    BY <1>4, <2>1 DEF AtStart
<1> QED
  BY <1>6, <1>7, <1>8

\* An application that ends no subscription: once nothing is on its way, its list
\* says what the broker delivers to it, whatever was late, lost or restarted.  No
\* loop on the list ever passes over an entry.
THEOREM KeptSubscriptionsAgree ==
  ASSUME OneScope, KeepsAll
  PROVE  Spec => []SubscribedAsListed
<1>1. Init => AtStart
  BY DEF Init, AtStart, C!NewClient
<1>2. LinkInv /\ SubsInv /\ AtStart /\ [Next]_vars => AtStart'
  <2> SUFFICES ASSUME LinkInv, SubsInv, AtStart, [Next]_vars PROVE AtStart'
    OBVIOUS
  <2>1. CASE PipeMsg
    BY <2>1, PipeAtStart
  <2>2. CASE Heartbeat \/ Ping
    BY <2>2, TimerAtStart
  <2>3. CASE DealerMsg
    BY <2>3, DealerAtStart
  <2>4. CASE RestartClient
    <3>1. cl' = C!NewClient /\ skipped' = FALSE
      BY <2>4 DEF RestartClient, C!dd_destroy, C!Result
    <3> QED
      BY <3>1 DEF AtStart, C!NewClient
  <2>5. CASE AskRegistration
    <3>1. cl' = cl /\ skipped' = skipped
      BY <2>5 DEF AskRegistration, C!s_ask_registration, C!Result
    <3> QED
      BY <3>1 DEF AtStart
  <2>6. CASE ReceiveUp \/ CheckCliTimeout \/ Crash \/ UNCHANGED vars
    <3>1. cl' = cl /\ skipped' = skipped
      BY <2>6 DEF ReceiveUp, CheckCliTimeout, Crash, vars
    <3> QED
      BY <3>1 DEF AtStart
  <2> QED
    BY <2>1, <2>2, <2>3, <2>4, <2>5, <2>6 DEF Next
<1>3. AtStart /\ SubscriptionsHeld => SubscribedAsListed
  BY DEF AtStart, SubscriptionsHeld, SubscribedAsListed
<1>4. Spec => []AtStart
  BY <1>1, <1>2, LinkInvariant, SubsInvariant, PTL DEF Spec
<1> QED
  BY <1>3, <1>4, SubscriptionsStayHeld, PTL
=============================================================================
