-------------------------- MODULE BrokerTreeProofs --------------------------
(***************************************************************************)
(* Proofs about trees of brokers: each broker's two timers, whatever is    *)
(* late, lost or restarted, and, when answers are timely, that no broker's *)
(* process dies of a message from above.                                   *)
(***************************************************************************)
EXTENDS BrokerTree, HandlerProofs

(***************************************************************************)
(* The inductive invariant.                                                *)
(***************************************************************************)
States == {UNREG, ROOT, REGISTERED, CRASHED}

\* Every broker is a record of its fields, with finite tables.
BrokersOK(B) ==
  /\ B = [b \in Brokers |-> B[b]]
  /\ \A b \in Brokers : /\ Shape(B[b]) /\ FiniteTables(B[b])
                        /\ B[b].state \in States /\ B[b].timeout \in Nat

\* Every dealer socket carries sequences of messages.  Sockets that are not open
\* yet carry nothing, and only the present ones bring anything down.
ChannelsOK(n, u, d) ==
  /\ n = [b \in Lower |-> n[b]] /\ \A b \in Lower : n[b] \in 0 .. MaxConn[b]
  /\ u = [k \in Conns |-> u[k]] /\ d = [k \in Conns |-> d[k]]
  /\ \A k \in Conns : /\ IsSeq(u[k]) /\ IsSeq(d[k])
                      /\ k[2] > n[k[1]] => u[k] = <<>>
                      /\ k[2] # n[k[1]] => d[k] = <<>>

\* On the present socket of every broker one message of its registration is on
\* its way, and none once it is registered.
TokensOK(B, n, u, d) ==
  \A b \in Lower : LET k == <<b, n[b]>> IN
    OneToken(u[k], d[k]) /\ (B[b].state = REGISTERED => NoToken(u[k], d[k]))

TreeInv ==
  /\ BrokersOK(br) /\ ChannelsOK(conn, up, down) /\ TokensOK(br, conn, up, down)
  /\ OneTimer

(***************************************************************************)
(* What is added when answers are timely.                                  *)
(***************************************************************************)
\* The dealer sockets a broker knows are those of the brokers below it and have
\* been opened, and every route leads to a broker that is registered.
RoutesOK(B, n) ==
  \A p \in Brokers :
    /\ RoutesLive(B[p])
    /\ \A k \in DOMAIN B[p].lcl_br : k \in Conns /\ Parent[k[1]] = p /\ k[2] <= n[k[1]]

\* A broker that is not registered, or has given up the one above it, is not routed
\* to and will not be, on the socket it has, and no message for a client is on its
\* way to it.
GivenUp(B, n, u, d) ==
  \A b \in Lower : LET k == <<b, n[b]>> IN
    B[b].state # REGISTERED =>
      /\ NoneOf({"ADDDCL"}, u[k]) /\ NoneOf({"FORWARD"}, d[k])
      /\ \A x \in DOMAIN B[Parent[b]].dist_cli : B[Parent[b]].dist_cli[x] # k

TimelyInv ==
  /\ RoutesOK(br, conn) /\ GivenUp(br, conn, up, down)
  /\ \A b \in Brokers : br[b].state # CRASHED
  /\ joined \subseteq Clients /\ crashes \in BoundedSeq(MayCrash, MaxCrash)

(***************************************************************************)
(* Sockets and what is written to them.                                    *)
(***************************************************************************)
\* The dealer sockets are the pairs of a broker and a number.
LEMMA ConnFacts ==
  /\ \A k \in Conns : /\ k[1] \in Lower /\ k[2] \in 0 .. MaxConn[k[1]]
                      /\ k = <<k[1], k[2]>>
  /\ \A b \in Lower : /\ MaxConn[b] \in Nat
                      /\ \A i \in 0 .. MaxConn[b] : <<b, i>> \in Conns
<1>1. \A b \in Lower : MaxConn[b] \in Nat
  BY TreeAssumption
<1> QED
  BY <1>1 DEF Conns

\* The present socket is one of them.
LEMMA DealerIsConn ==
  ASSUME ChannelsOK(conn, up, down), NEW b \in Lower
  PROVE  Dealer(b) \in Conns /\ Dealer(b)[1] = b /\ Dealer(b)[2] = conn[b]
BY ConnFacts DEF ChannelsOK, Dealer

\* At most one message is written to a socket, and it is one of the callback's.
LEMMA SentFacts ==
  ASSUME NEW rout, NEW k
  PROVE  /\ IsSeq(Sent(rout, k)) /\ \A cmds : OneOf(cmds, Sent(rout, k))
         /\ \A cmds : (\A o \in rout : o.to = k => o.m.cmd \notin cmds)
                        => NoneOf(cmds, Sent(rout, k))
         /\ k # Dealer(k[1]) => Sent(rout, k) = <<>>
<1> DEFINE o1 == CHOOSE o \in rout : o.to = k
           q == Sent(rout, k)
<1>1. \/ q = <<>>
      \/ k = Dealer(k[1]) /\ q = <<o1.m>> /\ o1 \in rout /\ o1.to = k
  BY DEF Sent
<1> HIDE DEF o1, q
<1>2. IsSeq(q)
  BY <1>1, ShortSeqs, Zenon
<1>3. \A cmds : OneOf(cmds, q)
  BY <1>1, ShortSeqs, Zenon
<1>4. ASSUME NEW cmds, \A o \in rout : o.to = k => o.m.cmd \notin cmds
      PROVE  NoneOf(cmds, q)
  BY <1>1, <1>4, ShortSeqs, Zenon
<1>5. k # Dealer(k[1]) => q = <<>>
  BY <1>1
<1> QED
  BY <1>2, <1>3, <1>4, <1>5 DEF q

\* Messages that take no part in a registration may be written at any time.
LEMMA TokensStay ==
  ASSUME NEW u, NEW d, NEW p, NEW q, IsSeq(u), IsSeq(d), IsSeq(p), IsSeq(q),
         NoneOf(UpTokens, p), NoneOf(DownTokens, q)
  PROVE  /\ OneToken(u, d) => OneToken(u \o p, d \o q) /\ OneToken(u, d \o q)
         /\ NoToken(u, d) => NoToken(u \o p, d \o q) /\ NoToken(u, d \o q)
<1>1. /\ OneOf(UpTokens, u) => OneOf(UpTokens, u \o p)
      /\ NoneOf(UpTokens, u) => NoneOf(UpTokens, u \o p)
  BY ConcatTokens
<1>2. /\ OneOf(DownTokens, d) => OneOf(DownTokens, d \o q)
      /\ NoneOf(DownTokens, d) => NoneOf(DownTokens, d \o q)
  BY ConcatTokens
<1> QED
  BY <1>1, <1>2 DEF OneToken, NoToken

\* The higher broker reads a message and answers it, with one of a registration
\* at most if it was one.
LEMMA TokensAnswered ==
  ASSUME NEW u, NEW d, NEW q, IsSeq(u), IsSeq(d), IsSeq(q), u # <<>>,
         OneOf(DownTokens, q), Head(u).cmd \in UpTokens \/ NoneOf(DownTokens, q)
  PROVE  /\ OneToken(u, d) => OneToken(Tail(u), d \o q)
         /\ NoToken(u, d) => NoToken(Tail(u), d \o q)
<1> DEFINE v == Tail(u)
           h == Head(u)
<1>1. /\ NoneOf(UpTokens, u) => NoneOf(UpTokens, v) /\ h.cmd \notin UpTokens
      /\ OneOf(UpTokens, u) => OneOf(UpTokens, v)
      /\ OneOf(UpTokens, u) /\ h.cmd \in UpTokens => NoneOf(UpTokens, v)
  BY TailTokens
<1>2. /\ NoneOf(DownTokens, d) /\ NoneOf(DownTokens, q) => NoneOf(DownTokens, d \o q)
      /\ NoneOf(DownTokens, d) /\ OneOf(DownTokens, q) => OneOf(DownTokens, d \o q)
      /\ OneOf(DownTokens, d) /\ NoneOf(DownTokens, q) => OneOf(DownTokens, d \o q)
  BY ConcatTokens
<1>3. h.cmd \in UpTokens \/ NoneOf(DownTokens, q)
  OBVIOUS
<1> HIDE DEF v, h
<1>4. /\ OneToken(u, d) => OneToken(v, d \o q)
      /\ NoToken(u, d) => NoToken(v, d \o q)
  BY <1>1, <1>2, <1>3 DEF OneToken, NoToken
<1> QED
  BY <1>4 DEF v

\* The lower broker reads a message and writes p.
LEMMA TokensTaken ==
  ASSUME NEW u, NEW d, NEW p, IsSeq(u), IsSeq(d), IsSeq(p), d # <<>>, OneToken(u, d),
         OneOf(UpTokens, p), Head(d).cmd \in DownTokens \/ NoneOf(UpTokens, p)
  PROVE  /\ OneToken(u \o p, Tail(d))
         /\ NoToken(u, d) => NoToken(u \o p, Tail(d))
         /\ Head(d).cmd \in DownTokens /\ NoneOf(UpTokens, p) => NoToken(u \o p, Tail(d))
<1> DEFINE e == Tail(d)
           h == Head(d)
<1>1. /\ NoneOf(DownTokens, d) => NoneOf(DownTokens, e) /\ h.cmd \notin DownTokens
      /\ OneOf(DownTokens, d) => OneOf(DownTokens, e)
      /\ OneOf(DownTokens, d) /\ h.cmd \in DownTokens => NoneOf(DownTokens, e)
  BY TailTokens
<1>2. /\ NoneOf(UpTokens, u) /\ NoneOf(UpTokens, p) => NoneOf(UpTokens, u \o p)
      /\ NoneOf(UpTokens, u) /\ OneOf(UpTokens, p) => OneOf(UpTokens, u \o p)
      /\ OneOf(UpTokens, u) /\ NoneOf(UpTokens, p) => OneOf(UpTokens, u \o p)
  BY ConcatTokens
<1>3. h.cmd \in DownTokens \/ NoneOf(UpTokens, p)
  OBVIOUS
<1> HIDE DEF e, h
<1>4. /\ OneToken(u \o p, e)
      /\ NoToken(u, d) => NoToken(u \o p, e)
      /\ h.cmd \in DownTokens /\ NoneOf(UpTokens, p) => NoToken(u \o p, e)
  BY <1>1, <1>2, <1>3 DEF OneToken, NoToken
<1> QED
  BY <1>4 DEF e, h

(***************************************************************************)
(* One callback of one broker.                                             *)
(***************************************************************************)
\* The channels without the message that was read, if any.
ReadFrom(n, up0, down0) ==
  /\ up0 = [k \in Conns |-> up0[k]] /\ down0 = [k \in Conns |-> down0[k]]
  /\ \A k \in Conns : /\ IsSeq(up0[k]) /\ IsSeq(down0[k])
                      /\ k[2] > n[k[1]] => up0[k] = <<>>
                      /\ k[2] # n[k[1]] => down0[k] = <<>>

\* The result of a callback is a broker, and sequences of messages.
Fit(r) ==
  /\ Shape(r.b) /\ FiniteTables(r.b) /\ r.b.state \in States /\ r.b.timeout \in Nat
  /\ IsSeq(r.up)

\* What a callback does to the brokers.
LEMMA FinishBrokers ==
  ASSUME BrokersOK(br), NEW b \in Brokers, NEW r, br' = [br EXCEPT ![b] = r.b], Fit(r)
  PROVE  BrokersOK(br') /\ br'[b] = r.b /\ \A x \in Brokers : x # b => br'[x] = br[x]
<1>1. br = [x \in Brokers |-> br[x]]
  BY DEF BrokersOK
<1>2. br'[b] = r.b /\ \A x \in Brokers : x # b => br'[x] = br[x]
  BY <1>1
<1>3. br' = [x \in Brokers |-> br'[x]]
  BY <1>1
<1>4. ASSUME NEW x \in Brokers
      PROVE  /\ Shape(br'[x]) /\ FiniteTables(br'[x])
             /\ br'[x].state \in States /\ br'[x].timeout \in Nat
  <2>1. CASE x = b
    BY <1>2, <2>1 DEF Fit
  <2>2. CASE x # b
    BY <1>2, <2>2 DEF BrokersOK
  <2> QED
    BY <2>1, <2>2
<1> QED
  BY <1>2, <1>3, <1>4 DEF BrokersOK

\* What it writes to the present socket of the broker.
LEMMA FinishUp ==
  ASSUME ChannelsOK(conn, up, down), NEW b \in Brokers, NEW r, NEW up0,
         up0 = [k \in Conns |-> up0[k]],
         up' = IF b = Root THEN up0 ELSE [up0 EXCEPT ![Dealer(b)] = @ \o r.up]
  PROVE  /\ up' = [k \in Conns |-> up'[k]]
         /\ \A k \in Conns :
              up'[k] = IF b # Root /\ k = Dealer(b) THEN up0[k] \o r.up ELSE up0[k]
<1>1. b # Root => b \in Lower /\ Dealer(b) \in Conns
  BY DealerIsConn DEF Lower
<1> QED
  BY <1>1

\* The channels stay as they should be.
LEMMA FinishChannels ==
  ASSUME ChannelsOK(conn, up, down), UNCHANGED conn, NEW b \in Brokers, NEW r,
         NEW up0, NEW down0, ReadFrom(conn, up0, down0), IsSeq(r.up),
         up' = IF b = Root THEN up0 ELSE [up0 EXCEPT ![Dealer(b)] = @ \o r.up],
         down' = [k \in Conns |-> down0[k] \o Sent(r.rout, k)]
  PROVE  ChannelsOK(conn', up', down')
<1>1. up0 = [k \in Conns |-> up0[k]]
  BY DEF ReadFrom
<1>2. /\ up' = [k \in Conns |-> up'[k]]
      /\ \A k \in Conns :
           up'[k] = IF b # Root /\ k = Dealer(b) THEN up0[k] \o r.up ELSE up0[k]
  BY <1>1, FinishUp
<1>3. b # Root => b \in Lower /\ Dealer(b)[1] = b /\ Dealer(b)[2] = conn[b]
  BY DealerIsConn DEF Lower
<1>4. ASSUME NEW k \in Conns
      PROVE  /\ IsSeq(up'[k]) /\ IsSeq(down'[k])
             /\ k[2] > conn[k[1]] => up'[k] = <<>>
             /\ k[2] # conn[k[1]] => down'[k] = <<>>
  <2>1. /\ IsSeq(up0[k]) /\ IsSeq(down0[k])
        /\ k[2] > conn[k[1]] => up0[k] = <<>>
        /\ k[2] # conn[k[1]] => down0[k] = <<>>
    BY DEF ReadFrom
  <2>2. IsSeq(Sent(r.rout, k)) /\ (k # Dealer(k[1]) => Sent(r.rout, k) = <<>>)
    BY SentFacts
  <2>3. down'[k] = down0[k] \o Sent(r.rout, k)
    OBVIOUS
  <2>4. IsSeq(up'[k])
    <3>1. IsSeq(up0[k] \o r.up)
      BY <2>1, Concat
    <3> QED
      BY <1>2, <2>1, <3>1
  <2>5. IsSeq(down'[k])
    <3>1. IsSeq(down0[k] \o Sent(r.rout, k))
      BY <2>1, <2>2, Concat
    <3> QED
      BY <2>3, <3>1
  <2>6. ASSUME k[2] > conn[k[1]] PROVE up'[k] = <<>>
    <3>1. conn[k[1]] \in Nat
      BY ConnFacts DEF ChannelsOK
    <3>2. ~(b # Root /\ k = Dealer(b))
      BY <1>3, <2>6, <3>1
    <3> QED
      BY <1>2, <2>1, <2>6, <3>2
  <2>7. ASSUME k[2] # conn[k[1]] PROVE down'[k] = <<>>
    <3>1. k # Dealer(k[1])
      BY <2>7 DEF Dealer
    <3>2. down'[k] = <<>> \o <<>>
      BY <2>1, <2>2, <2>3, <2>7, <3>1
    <3> QED
      BY <3>2
  <2> QED
    BY <2>4, <2>5, <2>6, <2>7
<1> QED
  BY <1>2, <1>4 DEF ChannelsOK

\* Nothing was read.
LEMMA ReadNothing ==
  ASSUME ChannelsOK(conn, up, down)
  PROVE  ReadFrom(conn, up, down)
BY DEF ChannelsOK, ReadFrom

\* The other brokers' timers are left alone.
LEMMA TimersStep ==
  ASSUME OneTimer, NEW b \in Brokers, NEW c, br'[b] = c,
         \A x \in Brokers : x # b => br'[x] = br[x],
         c.state # CRASHED => TimersMatch(c, b # Root)
  PROVE  OneTimer'
BY DEF OneTimer

\* A broker whose timers and state are left alone.
LEMMA TimersKept ==
  ASSUME OneTimer, NEW b \in Brokers, br[b].state # CRASHED, NEW c,
         c.state \in {br[b].state, CRASHED},
         c.reg_loop = br[b].reg_loop, c.heartbeat_loop = br[b].heartbeat_loop
  PROVE  c.state # CRASHED => TimersMatch(c, b # Root)
BY DEF OneTimer, TimersMatch

\* A callback of a client's message or of a timer of the tables.
LEMMA TameStep ==
  ASSUME TreeInv, UNCHANGED conn, NEW b \in Brokers, NEW r, NEW s,
         Finish(b, r, up, down), Tame(br[b], r, s), s \notin Conns
  PROVE  TreeInv'
<1>1. BrokersOK(br) /\ ChannelsOK(conn, up, down) /\ TokensOK(br, conn, up, down) /\ OneTimer
  BY DEF TreeInv
<1>2. br[b].state # CRASHED
  BY DEF Finish
<1>3. Fit(r) /\ SameScalars(br[b], r.b)
  BY <1>1 DEF Tame, Fit, SameScalars, BrokersOK
<1>4. ReadFrom(conn, up, down) /\ IsSeq(r.up)
  BY <1>1, <1>3, ReadNothing DEF Fit
<1>5. /\ BrokersOK(br') /\ ChannelsOK(conn', up', down')
      /\ br'[b] = r.b /\ \A x \in Brokers : x # b => br'[x] = br[x]
      /\ \A k \in Conns :
           /\ up'[k] = IF b # Root /\ k = Dealer(b) THEN up[k] \o r.up ELSE up[k]
           /\ down'[k] = down[k] \o Sent(r.rout, k)
  <2>1. /\ br' = [br EXCEPT ![b] = r.b]
        /\ up' = IF b = Root THEN up ELSE [up EXCEPT ![Dealer(b)] = @ \o r.up]
        /\ down' = [k \in Conns |-> down[k] \o Sent(r.rout, k)]
    BY DEF Finish
  <2>2. BrokersOK(br') /\ br'[b] = r.b /\ \A x \in Brokers : x # b => br'[x] = br[x]
    BY <1>1, <1>3, <2>1, FinishBrokers
  <2>3. ChannelsOK(conn', up', down')
    BY <1>1, <1>4, <2>1, FinishChannels
  <2>4. \A k \in Conns :
          up'[k] = IF b # Root /\ k = Dealer(b) THEN up[k] \o r.up ELSE up[k]
    <3>1. up = [k \in Conns |-> up[k]]
      BY <1>1 DEF ChannelsOK
    <3> QED
      BY <1>1, <2>1, <3>1, FinishUp
  <2>5. \A k \in Conns : down'[k] = down[k] \o Sent(r.rout, k)
    BY <2>1
  <2> QED
    BY <2>2, <2>3, <2>4, <2>5
<1>6. OneTimer'
  <2>1. r.b.state # CRASHED => TimersMatch(r.b, b # Root)
    BY <1>1, <1>2, <1>3, TimersKept DEF SameScalars
  <2> QED
    BY <1>1, <1>5, <2>1, TimersStep
<1>7. ASSUME NEW x \in Lower
      PROVE  LET k == <<x, conn'[x]>> IN
             /\ OneToken(up'[k], down'[k])
             /\ br'[x].state = REGISTERED => NoToken(up'[k], down'[k])
  <2> DEFINE k == <<x, conn[x]>>
             q == Sent(r.rout, k)
  <2>1. k \in Conns /\ k = Dealer(x) /\ conn'[x] = conn[x]
    BY <1>1, DealerIsConn DEF Dealer
  <2>2. IsSeq(q) /\ NoneOf(DownTokens, q)
    <3>1. \A o \in r.rout : o.to = k => o.m.cmd \notin DownTokens
      BY <2>1 DEF Tame
    <3> QED
      BY <3>1, SentFacts
  <2>3. IsSeq(r.up) /\ NoneOf(UpTokens, r.up) /\ IsSeq(up[k]) /\ IsSeq(down[k])
    BY <1>1, <2>1 DEF Tame, ChannelsOK
  <2>4. OneToken(up[k], down[k]) /\ (br[x].state = REGISTERED => NoToken(up[k], down[k]))
    BY <1>1 DEF TokensOK
  <2>5. br'[x].state = br[x].state
    BY <1>3, <1>5 DEF SameScalars, Lower
  <2>6. up'[k] \in {up[k], up[k] \o r.up} /\ down'[k] = down[k] \o q
    BY <1>5, <2>1
  <2> HIDE DEF k, q
  <2>7. /\ OneToken(up'[k], down'[k])
        /\ br'[x].state = REGISTERED => NoToken(up'[k], down'[k])
    BY <2>2, <2>3, <2>4, <2>5, <2>6, TokensStay
  <2> QED
    BY <2>1, <2>7 DEF k
<1> QED
  BY <1>5, <1>6, <1>7 DEF TreeInv, TokensOK

(***************************************************************************)
(* Messages between brokers.                                               *)
(***************************************************************************)
\* The higher broker answers a registration only to the one that registers, and
\* only when asked.
LEMMA RouterTame ==
  ASSUME NEW b, Shape(b), NEW k, NEW m
  PROVE  LET r == RouterMsg(b, k, m)
         IN /\ Tame(b, r, k)
            /\ m.cmd \notin UpTokens => \A o \in r.rout : o.m.cmd \notin DownTokens
<1> DEFINE r == RouterMsg(b, k, m)
<1>1. CASE m.cmd = "ADDBR"
  <2>1. r = s_cb_addbr(b, k, TRUE)
    BY <1>1 DEF RouterMsg
  <2> HIDE DEF r
  <2>2. Tame(b, r, k)
    BY <2>1, RegistrationsTame
  <2> QED
    BY <1>1, <2>2 DEF UpTokens, r
<1>2. CASE m.cmd = "CHALLOK"
  <2>1. r = s_cb_challok_broker(b, k)
    BY <1>2 DEF RouterMsg
  <2> HIDE DEF r
  <2>2. Tame(b, r, k)
    BY <2>1, RegistrationsTame
  <2> QED
    BY <1>2, <2>2 DEF UpTokens, r
<1>3. CASE m.cmd = "ADDDCL"
  <2>1. r = s_cb_adddcl(b, k, BrokerCookie, m.name)
    BY <1>3 DEF RouterMsg
  <2> HIDE DEF r
  <2>2. Tame(b, r, k)
    BY <2>1, RegistrationsTame
  <2>3. \A o \in r.rout : o.m.cmd = "REGFAIL"
    BY <2>1 DEF s_cb_adddcl, Nothing, Result, To, Regfail
  <2> QED
    BY <2>2, <2>3 DEF DownTokens, r
<1>4. ASSUME Calm(b, r) PROVE Tame(b, r, k) /\ \A o \in r.rout : o.m.cmd \notin DownTokens
  <2> HIDE DEF r
  <2>1. Tame(b, r, k)
    BY <1>4, CalmTame
  <2> QED
    BY <1>4, <2>1 DEF Calm, Plain
<1>5. CASE m.cmd = "PING"
  <2>1. r = s_cb_ping(b, k, BrokerCookie)
    BY <1>5 DEF RouterMsg
  <2> QED
    BY <1>4, <2>1, ClientsCalm
<1>6. CASE m.cmd = "UNREGDCLI"
  <2>1. r = s_cb_unreg_dist_cli(b, k, BrokerCookie, m.name)
    BY <1>6 DEF RouterMsg
  <2> QED
    BY <1>4, <2>1, BrokersCalm
<1>7. CASE m.cmd = "FORWARD"
  <2>1. r = s_cb_forward_rsock(b, k, BrokerCookie, m.src, m.dst)
    BY <1>7 DEF RouterMsg
  <2> QED
    BY <1>4, <2>1, BrokersCalm
<1>8. CASE m.cmd \notin {"ADDBR", "CHALLOK", "PING", "ADDDCL", "UNREGDCLI", "FORWARD"}
  <2>1. r = Nothing(b)
    BY <1>8 DEF RouterMsg
  <2>2. Calm(b, Nothing(b))
    BY AnswerPlain, AddNone DEF Calm
  <2> QED
    BY <1>4, <2>1, <2>2
<1> QED
  BY <1>1, <1>2, <1>3, <1>5, <1>6, <1>7, <1>8

\* A message of a lower broker is read by the higher one.
LEMMA ReceiveUpStep ==
  ASSUME TreeInv, NEW k \in Conns, ReceiveUp(k)
  PROVE  TreeInv'
<1> DEFINE p == Parent[k[1]]
           h == Head(up[k])
           r == RouterMsg(br[p], k, h)
           up0 == [up EXCEPT ![k] = Tail(@)]
<1>1. BrokersOK(br) /\ ChannelsOK(conn, up, down) /\ TokensOK(br, conn, up, down) /\ OneTimer
  BY DEF TreeInv
<1>2. up[k] # <<>> /\ Finish(p, r, up0, down) /\ UNCHANGED conn
  BY DEF ReceiveUp
<1>3. p \in Brokers /\ k[1] \in Lower /\ k = <<k[1], k[2]>>
  BY TreeAssumption, ConnFacts
<1>4. br[p].state # CRASHED /\ Shape(br[p])
  BY <1>1, <1>2, <1>3 DEF Finish, BrokersOK
<1>5. Tame(br[p], r, k) /\ (h.cmd \notin UpTokens => \A o \in r.rout : o.m.cmd \notin DownTokens)
  BY <1>4, RouterTame
<1> HIDE DEF p, r, h
<1>6. Fit(r) /\ SameScalars(br[p], r.b) /\ IsSeq(r.up) /\ NoneOf(UpTokens, r.up)
  BY <1>1, <1>3, <1>5 DEF Tame, Fit, SameScalars, BrokersOK
<1>7. /\ up0 = [x \in Conns |-> up0[x]] /\ up0[k] = Tail(up[k])
      /\ \A x \in Conns : x # k => up0[x] = up[x]
  BY <1>1 DEF ChannelsOK
<1>8. ReadFrom(conn, up0, down)
  <2>1. IsSeq(up[k])
    BY <1>1 DEF ChannelsOK
  <2>2. IsSeq(Tail(up[k]))
    BY <1>2, <2>1, AfterHead
  <2>3. ~(k[2] > conn[k[1]])
    BY <1>1, <1>2 DEF ChannelsOK
  <2> HIDE DEF up0
  <2> QED
    BY <1>1, <1>7, <2>2, <2>3 DEF ReadFrom, ChannelsOK
<1>9. /\ BrokersOK(br') /\ ChannelsOK(conn', up', down')
      /\ br'[p] = r.b /\ \A x \in Brokers : x # p => br'[x] = br[x]
      /\ \A x \in Conns :
           /\ up'[x] = IF p # Root /\ x = Dealer(p) THEN up0[x] \o r.up ELSE up0[x]
           /\ down'[x] = down[x] \o Sent(r.rout, x)
  <2>1. /\ br' = [br EXCEPT ![p] = r.b]
        /\ up' = IF p = Root THEN up0 ELSE [up0 EXCEPT ![Dealer(p)] = @ \o r.up]
        /\ down' = [x \in Conns |-> down[x] \o Sent(r.rout, x)]
    BY <1>2 DEF Finish
  <2> HIDE DEF up0
  <2>2. BrokersOK(br') /\ br'[p] = r.b /\ \A x \in Brokers : x # p => br'[x] = br[x]
    BY <1>1, <1>3, <1>6, <2>1, FinishBrokers
  <2>3. ChannelsOK(conn', up', down')
    BY <1>1, <1>2, <1>3, <1>6, <1>8, <2>1, FinishChannels
  <2>4. \A x \in Conns :
          up'[x] = IF p # Root /\ x = Dealer(p) THEN up0[x] \o r.up ELSE up0[x]
    BY <1>1, <1>3, <1>7, <2>1, FinishUp
  <2>5. \A x \in Conns : down'[x] = down[x] \o Sent(r.rout, x)
    BY <2>1
  <2> QED
    BY <2>2, <2>3, <2>4, <2>5
<1>10. OneTimer'
  <2>1. r.b.state # CRASHED => TimersMatch(r.b, p # Root)
    BY <1>1, <1>3, <1>4, <1>6, TimersKept DEF SameScalars
  <2> QED
    BY <1>1, <1>3, <1>9, <2>1, TimersStep
<1> HIDE DEF up0
<1>11. ASSUME NEW x \in Lower
       PROVE  LET y == <<x, conn'[x]>> IN
              /\ OneToken(up'[y], down'[y])
              /\ br'[x].state = REGISTERED => NoToken(up'[y], down'[y])
  <2> DEFINE y == <<x, conn[x]>>
             q == Sent(r.rout, y)
             u == up0[y]
  <2>1. y \in Conns /\ y = Dealer(x) /\ conn'[x] = conn[x]
    BY <1>1, <1>2, DealerIsConn DEF Dealer
  <2>2. IsSeq(u) /\ IsSeq(up[y]) /\ IsSeq(down[y])
    BY <1>1, <1>8, <2>1 DEF ReadFrom, ChannelsOK
  <2>3. OneToken(up[y], down[y]) /\ (br[x].state = REGISTERED => NoToken(up[y], down[y]))
    BY <1>1 DEF TokensOK
  <2>4. br'[x].state = br[x].state
    BY <1>3, <1>6, <1>9 DEF SameScalars, Lower
  <2>5. IsSeq(q) /\ OneOf(DownTokens, q)
    BY SentFacts
  <2>6. (y # k \/ h.cmd \notin UpTokens) => NoneOf(DownTokens, q)
    <3>1. (y # k \/ h.cmd \notin UpTokens) =>
             \A o \in r.rout : o.to = y => o.m.cmd \notin DownTokens
      BY <1>5 DEF Tame
    <3> QED
      BY <3>1, SentFacts
  <2>7. up'[y] \in {u, u \o r.up} /\ down'[y] = down[y] \o q
    BY <1>9, <2>1
  <2>8. OneToken(u, down[y] \o q) /\ (br[x].state = REGISTERED => NoToken(u, down[y] \o q))
    <3>1. CASE y = k
      <4>1. u = Tail(up[y]) /\ up[y] # <<>> /\ h = Head(up[y])
        BY <1>2, <1>7, <3>1 DEF h
      <4>2. Head(up[y]).cmd \in UpTokens \/ NoneOf(DownTokens, q)
        BY <2>6, <4>1
      <4> HIDE DEF y, q, u
      <4> QED
        BY <2>2, <2>3, <2>5, <4>1, <4>2, TokensAnswered
    <3>2. CASE y # k
      <4>1. u = up[y]
        BY <1>7, <2>1, <3>2
      <4>2. NoneOf(DownTokens, q)
        BY <2>6, <3>2
      <4> HIDE DEF y, q, u
      <4> QED
        BY <1>6, <2>2, <2>3, <2>5, <4>1, <4>2, TokensStay
    <3> QED
      BY <3>1, <3>2
  <2> HIDE DEF y, q, u
  <2>9. /\ OneToken(up'[y], down'[y])
        /\ br'[x].state = REGISTERED => NoToken(up'[y], down'[y])
    <3> DEFINE d == down[y] \o q
    <3>1. IsSeq(d)
      BY <2>2, <2>5, Concat
    <3>2. /\ OneToken(u, d) => OneToken(u \o r.up, d)
          /\ NoToken(u, d) => NoToken(u \o r.up, d)
      <4> HIDE DEF d
      <4>1. /\ OneOf(UpTokens, u) => OneOf(UpTokens, u \o r.up)
            /\ NoneOf(UpTokens, u) => NoneOf(UpTokens, u \o r.up)
        BY <1>6, <2>2, ConcatTokens
      <4> QED
        BY <4>1 DEF OneToken, NoToken
    <3> QED
      BY <2>4, <2>7, <2>8, <3>2
  <2> QED
    BY <2>1, <2>9 DEF y
<1> QED
  BY <1>9, <1>10, <1>11 DEF TreeInv, TokensOK

\* What a broker makes of a message from above: a CHALL is answered, a REGOK swaps
\* the timers and announces every client, and anything else leaves the
\* registration alone or ends the process.
LEMMA DealerFits ==
  ASSUME NEW b, Shape(b), FiniteTables(b), b.state \in States, NEW m, NEW order, IsSeq(order)
  PROVE  LET r == DealerMsg(b, m, order)
         IN /\ Fit(r) /\ \A o \in r.rout : o.m.cmd \notin DownTokens
            /\ OneOf(UpTokens, r.up) /\ (m.cmd # "CHALL" => NoneOf(UpTokens, r.up))
            /\ m.cmd = "REGOK" => /\ r.b.state = REGISTERED
                                  /\ r.b.reg_loop = IF b.reg_loop > 0 THEN b.reg_loop - 1 ELSE 0
                                  /\ r.b.heartbeat_loop = b.heartbeat_loop + 1
            /\ m.cmd # "REGOK" => /\ r.b.state \in {b.state, CRASHED}
                                  /\ r.b.reg_loop = b.reg_loop
                                  /\ r.b.heartbeat_loop = b.heartbeat_loop
<1> DEFINE r == DealerMsg(b, m, order)
           c == Heard(b)
<1>1. /\ Shape(c) /\ FiniteTables(c) /\ c.state = b.state /\ c.timeout = 0
      /\ c.reg_loop = b.reg_loop /\ c.heartbeat_loop = b.heartbeat_loop
      /\ c.rev_lcl_cli = b.rev_lcl_cli /\ c.dist_cli = b.dist_cli
  BY DEF Heard, Shape, BrokerFields, FiniteTables
<1>2. \A q : NoneOf(UpTokens, q) => OneOf(UpTokens, q)
  BY DEF NoneOf, OneOf
<1>3. CASE m.cmd = "CHALL"
  <2>1. r = s_cb_chall(b, m.id)
    BY <1>3 DEF DealerMsg
  <2>2. r.b = [c EXCEPT !.broker_id = m.id] /\ r.up = <<Simple("CHALLOK")>> /\ r.rout = {}
    BY <2>1 DEF s_cb_chall, Result
  <2> HIDE DEF r, c
  <2>3. /\ Shape(r.b) /\ FiniteTables(r.b) /\ r.b.state = b.state /\ r.b.timeout = 0
        /\ r.b.reg_loop = b.reg_loop /\ r.b.heartbeat_loop = b.heartbeat_loop
    BY <1>1, <2>2 DEF Shape, BrokerFields, FiniteTables
  <2>4. IsSeq(r.up) /\ OneOf(UpTokens, r.up)
    BY <2>2, ShortSeqs
  <2> QED
    BY <1>3, <2>2, <2>3, <2>4 DEF Fit, r
<1>4. CASE m.cmd = "REGOK"
  <2>1. r = s_cb_regok(b, order)
    BY <1>4 DEF DealerMsg
  <2>2. /\ r.b = [c EXCEPT !.state = REGISTERED,
                           !.reg_loop = IF @ > 0 THEN @ - 1 ELSE 0,
                           !.heartbeat_loop = @ + 1,
                           !.north = TRUE]
        /\ r.up = [i \in DOMAIN order |-> Adddcl(order[i])] /\ r.rout = {}
    BY <2>1 DEF s_cb_regok, Result
  <2> HIDE DEF r, c
  <2>3. /\ Shape(r.b) /\ FiniteTables(r.b) /\ r.b.state = REGISTERED /\ r.b.timeout = 0
        /\ r.b.reg_loop = IF b.reg_loop > 0 THEN b.reg_loop - 1 ELSE 0
        /\ r.b.heartbeat_loop = b.heartbeat_loop + 1
    <3> DEFINE n == IF c.reg_loop > 0 THEN c.reg_loop - 1 ELSE 0
               e == c.heartbeat_loop + 1
    <3>1. c = [f \in BrokerFields |-> c[f]]
      BY <1>1 DEF Shape
    <3>2. r.b = [c EXCEPT !.state = REGISTERED, !.reg_loop = n, !.heartbeat_loop = e,
                          !.north = TRUE]
      BY <2>2
    <3>3. n = (IF b.reg_loop > 0 THEN b.reg_loop - 1 ELSE 0) /\ e = b.heartbeat_loop + 1
      BY <1>1
    <3> HIDE DEF n, e
    <3>4. /\ Shape(r.b) /\ r.b.state = REGISTERED /\ r.b.timeout = c.timeout
          /\ r.b.reg_loop = n /\ r.b.heartbeat_loop = e
          /\ r.b.rev_lcl_cli = c.rev_lcl_cli /\ r.b.dist_cli = c.dist_cli
      BY <3>1, <3>2 DEF Shape, BrokerFields
    <3>5. FiniteTables(r.b)
      BY <1>1, <3>4 DEF FiniteTables
    <3> QED
      BY <1>1, <3>3, <3>4, <3>5
  <2>4. IsSeq(r.up) /\ NoneOf(UpTokens, r.up)
    <3>1. DOMAIN order = 1 .. Len(order) /\ Len(order) \in Nat
      BY DEF IsSeq
    <3>2. r.up \in Seq(Range(r.up))
      BY <2>2, <3>1 DEF Range
    <3>3. NoneOf(UpTokens, r.up)
      BY <2>2 DEF NoneOf, UpTokens, Adddcl
    <3> QED
      BY <3>2, <3>3 DEF IsSeq
  <2>5. REGISTERED \in States
    BY DEF States
  <2> QED
    BY <1>2, <1>4, <2>2, <2>3, <2>4, <2>5 DEF Fit, r
<1>5. ASSUME NEW d, NoneAdded(c, d), r.b = d \/ r.b = [d EXCEPT !.state = CRASHED], Plain(r),
             m.cmd \notin {"CHALL", "REGOK"}
      PROVE  /\ Fit(r) /\ \A o \in r.rout : o.m.cmd \notin DownTokens
             /\ OneOf(UpTokens, r.up) /\ NoneOf(UpTokens, r.up)
             /\ r.b.state \in {b.state, CRASHED}
             /\ r.b.reg_loop = b.reg_loop /\ r.b.heartbeat_loop = b.heartbeat_loop
  <2> HIDE DEF r, c
  <2>1. FiniteTables(d)
    BY <1>1, <1>5, NoneAddedFinite
  <2>2. /\ Shape(d) /\ d.state = b.state /\ d.timeout = 0 /\ d.reg_loop = b.reg_loop
        /\ d.heartbeat_loop = b.heartbeat_loop
    BY <1>1, <1>5 DEF NoneAdded, SameScalars
  <2>3. /\ Shape(r.b) /\ FiniteTables(r.b) /\ r.b.state \in {b.state, CRASHED} /\ r.b.timeout = 0
        /\ r.b.reg_loop = b.reg_loop /\ r.b.heartbeat_loop = b.heartbeat_loop
    BY <1>5, <2>1, <2>2 DEF Shape, BrokerFields, FiniteTables
  <2> QED
    BY <1>2, <1>5, <2>3 DEF Fit, Plain, States
<1>6. NoneAdded(c, c)
  BY <1>1, AddNone
<1>7. CASE m.cmd = "FORWARD"
  <2> DEFINE dead == Nothing([c EXCEPT !.state = CRASHED])
  <2>1. r = Route(c, m.src, m.dst, dead)
    BY <1>7 DEF DealerMsg, s_cb_forward_dsock
  <2>2. Plain(dead) /\ dead.b = [c EXCEPT !.state = CRASHED]
    BY AnswerPlain
  <2> HIDE DEF dead
  <2>3. Plain(r)
    BY <2>1, <2>2, RoutePlain
  <2>4. r.b = c \/ r.b = [c EXCEPT !.state = CRASHED]
    BY <2>1, <2>2, RouteState
  <2> QED
    BY <1>5, <1>6, <1>7, <2>3, <2>4
<1>8. CASE m.cmd = "NODST"
  <2>1. r = s_cb_high_error_nodst(b, m.dst, m.src)
    BY <1>8 DEF DealerMsg
  <2>2. r.b = c /\ r.up = <<>> /\ \A o \in r.rout : o.m.cmd = "NODST"
    BY <2>1 DEF s_cb_high_error_nodst, Result, To, Nodst
  <2> HIDE DEF r, c
  <2>3. Plain(r)
    BY <2>2, ShortSeqs DEF Plain, DownTokens
  <2> QED
    BY <1>5, <1>6, <1>8, <2>2, <2>3 DEF r
<1>9. CASE m.cmd = "REGFAIL"
  <2> DEFINE k == b.rev_lcl_cli[m.name]
             e == remove_subscriptions(c, {k[1]})
  <2>1. r = s_cb_high_error_regfail(b, m.name)
    BY <1>9 DEF DealerMsg
  <2>2. /\ r.b \in {UnlinkLocal(e, {k}), RemoveDist(c, {m.name}), c} /\ r.up = <<>>
        /\ \A o \in r.rout : o.m.cmd = "REGFAIL"
    BY <2>1 DEF s_cb_high_error_regfail, Nothing, Result, To, Regfail
  <2> HIDE DEF r, c, e
  <2>3. Plain(r)
    BY <2>2, ShortSeqs DEF Plain, DownTokens
  <2>4. NoneAdded(c, e)
    BY <1>1, AddNone DEF e
  <2>5. NoneAdded(c, UnlinkLocal(e, {k}))
    <3>1. NoneAdded(e, UnlinkLocal(e, {k}))
      BY <2>4, AddNone DEF NoneAdded
    <3> QED
      BY <2>4, <3>1, AddNoneTrans
  <2>6. NoneAdded(c, RemoveDist(c, {m.name}))
    BY <1>1, AddNone
  <2>7. NoneAdded(c, r.b)
    BY <1>6, <2>2, <2>5, <2>6
  <2> QED
    BY <1>5, <1>9, <2>3, <2>7 DEF r
<1>10. CASE m.cmd \notin {"CHALL", "REGOK", "FORWARD", "NODST", "REGFAIL"}
  <2>1. r = Nothing(c)
    BY <1>10 DEF DealerMsg
  <2>2. r.b = c /\ Plain(r)
    BY <2>1, AnswerPlain
  <2> QED
    BY <1>5, <1>6, <1>10, <2>2
<1> QED
  BY <1>3, <1>4, <1>5, <1>7, <1>8, <1>9, <1>10

\* A message of the higher broker is read by the lower one.
LEMMA ReceiveDownStep ==
  ASSUME TreeInv, NEW b \in Lower, ReceiveDown(b)
  PROVE  TreeInv'
<1> DEFINE k == Dealer(b)
           h == Head(down[k])
           down0 == [down EXCEPT ![k] = Tail(@)]
<1>1. BrokersOK(br) /\ ChannelsOK(conn, up, down) /\ TokensOK(br, conn, up, down) /\ OneTimer
  BY DEF TreeInv
<1>2. PICK l \in SetToSeqs(DOMAIN br[b].rev_lcl_cli), d \in SetToSeqs(DOMAIN br[b].dist_cli) :
        Finish(b, DealerMsg(br[b], h, l \o d), up, down0)
  BY DEF ReceiveDown
<1> DEFINE r == DealerMsg(br[b], h, l \o d)
<1>3. down[k] # <<>> /\ UNCHANGED conn
  BY DEF ReceiveDown
<1>4. b \in Brokers /\ b # Root /\ k \in Conns /\ k = <<b, conn[b]>>
  BY <1>1, DealerIsConn DEF Lower, Dealer
<1>5. /\ br[b].state # CRASHED /\ Shape(br[b]) /\ FiniteTables(br[b]) /\ br[b].state \in States
  BY <1>1, <1>2, <1>4 DEF Finish, BrokersOK
<1>6. IsSeq(l \o d)
  <2>1. l \in Seq(DOMAIN br[b].rev_lcl_cli)
    BY <1>5, TraversalMeetsAll DEF FiniteTables
  <2>2. d \in Seq(DOMAIN br[b].dist_cli)
    BY <1>5, TraversalMeetsAll DEF FiniteTables
  <2>3. IsSeq(l) /\ IsSeq(d)
    BY <2>1, <2>2, SeqIsSeq
  <2> QED
    BY <2>3, Concat
<1>7. /\ Fit(r) /\ \A o \in r.rout : o.m.cmd \notin DownTokens
      /\ OneOf(UpTokens, r.up) /\ (h.cmd # "CHALL" => NoneOf(UpTokens, r.up))
      /\ h.cmd = "REGOK" => /\ r.b.state = REGISTERED
                            /\ r.b.reg_loop = IF br[b].reg_loop > 0 THEN br[b].reg_loop - 1 ELSE 0
                            /\ r.b.heartbeat_loop = br[b].heartbeat_loop + 1
      /\ h.cmd # "REGOK" => /\ r.b.state \in {br[b].state, CRASHED}
                            /\ r.b.reg_loop = br[b].reg_loop
                            /\ r.b.heartbeat_loop = br[b].heartbeat_loop
  BY <1>5, <1>6, DealerFits
<1> HIDE DEF r
<1>8. /\ down0 = [x \in Conns |-> down0[x]] /\ down0[k] = Tail(down[k])
      /\ \A x \in Conns : x # k => down0[x] = down[x]
  BY <1>1, <1>4 DEF ChannelsOK
<1>9. IsSeq(down[k]) /\ IsSeq(Tail(down[k])) /\ IsSeq(up[k]) /\ IsSeq(r.up)
  <2>1. IsSeq(down[k]) /\ IsSeq(up[k])
    BY <1>1, <1>4 DEF ChannelsOK
  <2>2. IsSeq(Tail(down[k]))
    BY <1>3, <2>1, AfterHead
  <2> QED
    BY <1>7, <2>1, <2>2 DEF Fit
<1>10. ReadFrom(conn, up, down0)
  <2>1. ~(k[2] # conn[k[1]])
    BY <1>4
  <2> HIDE DEF down0, k
  <2> QED
    BY <1>1, <1>8, <1>9, <2>1 DEF ReadFrom, ChannelsOK
<1>11. /\ BrokersOK(br') /\ ChannelsOK(conn', up', down')
       /\ br'[b] = r.b /\ \A x \in Brokers : x # b => br'[x] = br[x]
       /\ \A x \in Conns :
            /\ up'[x] = IF b # Root /\ x = Dealer(b) THEN up[x] \o r.up ELSE up[x]
            /\ down'[x] = down0[x] \o Sent(r.rout, x)
  <2>1. /\ br' = [br EXCEPT ![b] = r.b]
        /\ up' = IF b = Root THEN up ELSE [up EXCEPT ![Dealer(b)] = @ \o r.up]
        /\ down' = [x \in Conns |-> down0[x] \o Sent(r.rout, x)]
    BY <1>2 DEF Finish, r
  <2> HIDE DEF down0
  <2>2. BrokersOK(br') /\ br'[b] = r.b /\ \A x \in Brokers : x # b => br'[x] = br[x]
    BY <1>1, <1>4, <1>7, <2>1, FinishBrokers
  <2>3. ChannelsOK(conn', up', down')
    BY <1>1, <1>3, <1>4, <1>9, <1>10, <2>1, FinishChannels
  <2>4. \A x \in Conns :
          up'[x] = IF b # Root /\ x = Dealer(b) THEN up[x] \o r.up ELSE up[x]
    <3>1. up = [x \in Conns |-> up[x]]
      BY <1>1 DEF ChannelsOK
    <3> QED
      BY <1>1, <1>4, <2>1, <3>1, FinishUp
  <2>5. \A x \in Conns : down'[x] = down0[x] \o Sent(r.rout, x)
    BY <2>1
  <2> QED
    BY <2>2, <2>3, <2>4, <2>5
<1> HIDE DEF down0, h
<1>12. /\ OneToken(up[k], down[k])
       /\ br[b].state = REGISTERED => NoToken(up[k], down[k]) /\ h.cmd \notin DownTokens
  <2>1. OneToken(up[k], down[k]) /\ (br[b].state = REGISTERED => NoToken(up[k], down[k]))
    BY <1>1, <1>4 DEF TokensOK
  <2>2. NoneOf(DownTokens, down[k]) => h.cmd \notin DownTokens
    BY <1>3, <1>9, TailTokens DEF h
  <2> QED
    BY <2>1, <2>2 DEF NoToken
<1>13. OneTimer'
  <2>1. r.b.state # CRASHED => TimersMatch(r.b, b # Root)
    <3>1. CASE h.cmd = "REGOK"
      <4>1. br[b].state # REGISTERED
        BY <1>12, <3>1 DEF DownTokens
      <4>2. br[b].reg_loop = 1 /\ br[b].heartbeat_loop = 0
        BY <1>1, <1>4, <1>5, <4>1 DEF OneTimer, TimersMatch
      <4> QED
        BY <1>4, <1>7, <3>1, <4>2 DEF TimersMatch, REGISTERED, CRASHED
    <3>2. CASE h.cmd # "REGOK"
      BY <1>1, <1>4, <1>5, <1>7, <3>2, TimersKept
    <3> QED
      BY <3>1, <3>2
  <2> QED
    BY <1>1, <1>4, <1>11, <2>1, TimersStep
<1>14. ASSUME NEW x \in Lower
       PROVE  LET y == <<x, conn'[x]>> IN
              /\ OneToken(up'[y], down'[y])
              /\ br'[x].state = REGISTERED => NoToken(up'[y], down'[y])
  <2> DEFINE y == <<x, conn[x]>>
             q == Sent(r.rout, y)
  <2>1. y \in Conns /\ y = Dealer(x) /\ conn'[x] = conn[x]
    BY <1>1, <1>3, DealerIsConn DEF Dealer
  <2>2. IsSeq(up[y]) /\ IsSeq(down[y]) /\ IsSeq(down0[y])
    BY <1>1, <1>10, <2>1 DEF ReadFrom, ChannelsOK
  <2>3. IsSeq(q) /\ NoneOf(DownTokens, q)
    BY <1>7, SentFacts
  <2>4. down'[y] = down0[y] \o q
    BY <1>11, <2>1
  <2>5. CASE x = b
    <3>1. y = k /\ up'[y] = up[k] \o r.up /\ down0[y] = Tail(down[k])
      BY <1>4, <1>8, <1>11, <2>1, <2>5
    <3> DEFINE v == up[k] \o r.up
               e == Tail(down[k])
    <3>2. h.cmd \in DownTokens \/ NoneOf(UpTokens, r.up)
      BY <1>7 DEF DownTokens
    <3>3. /\ OneToken(v, e)
          /\ NoToken(up[k], down[k]) => NoToken(v, e)
          /\ h.cmd \in DownTokens /\ NoneOf(UpTokens, r.up) => NoToken(v, e)
      BY <1>3, <1>7, <1>9, <1>12, <3>2, TokensTaken DEF h
    <3>4. br'[b].state = REGISTERED => NoToken(v, e)
      <4>1. CASE h.cmd = "REGOK"
        BY <1>7, <3>3, <4>1 DEF DownTokens
      <4>2. CASE h.cmd # "REGOK"
        BY <1>7, <1>11, <1>12, <3>3, <4>2 DEF REGISTERED, CRASHED
      <4> QED
        BY <4>1, <4>2
    <3>5. IsSeq(v) /\ IsSeq(e)
      BY <1>9, Concat
    <3> HIDE DEF v, e, q, y
    <3>6. OneToken(v, e \o q) /\ (NoToken(v, e) => NoToken(v, e \o q))
      <4>1. IsSeq(<<>>) /\ NoneOf(UpTokens, <<>>)
        BY ShortSeqs
      <4> QED
        BY <2>3, <3>3, <3>5, <4>1, TokensStay
    <3>7. OneToken(up'[y], down'[y]) /\ (br'[x].state = REGISTERED => NoToken(up'[y], down'[y]))
      BY <2>4, <2>5, <3>1, <3>4, <3>6 DEF v, e
    <3> QED
      BY <2>1, <3>7 DEF y
  <2>6. CASE x # b
    <3>1. y # k /\ up'[y] = up[y] /\ down0[y] = down[y] /\ br'[x] = br[x]
      BY <1>4, <1>8, <1>11, <2>1, <2>6 DEF Lower
    <3>2. OneToken(up[y], down[y]) /\ (br[x].state = REGISTERED => NoToken(up[y], down[y]))
      BY <1>1 DEF TokensOK
    <3>3. IsSeq(<<>>) /\ NoneOf(UpTokens, <<>>)
      BY ShortSeqs
    <3> HIDE DEF q, y
    <3>4. OneToken(up'[y], down'[y]) /\ (br'[x].state = REGISTERED => NoToken(up'[y], down'[y]))
      BY <2>2, <2>3, <2>4, <3>1, <3>2, <3>3, TokensStay
    <3> QED
      BY <2>1, <3>4 DEF y
  <2> QED
    BY <2>5, <2>6
<1> QED
  BY <1>11, <1>13, <1>14 DEF TreeInv, TokensOK

(***************************************************************************)
(* Timers, crashes and the invariant.                                      *)
(***************************************************************************)
\* A broker opens a new socket and asks to be registered on it.
LEMMA RegisterStep ==
  ASSUME TreeInv, NEW b \in Lower, Register(b)
  PROVE  TreeInv'
<1> DEFINE k == Dealer(b)
           k2 == <<b, conn[b] + 1>>
<1>1. BrokersOK(br) /\ ChannelsOK(conn, up, down) /\ TokensOK(br, conn, up, down) /\ OneTimer
  BY DEF TreeInv
<1>2. PICK n \in 0 .. Len(up[k]) :
        up' = [up EXCEPT ![k] = SubSeq(@, 1, n), ![k2] = s_register(br[b]).up]
  BY DEF Register
<1>3. /\ Unregistered(br[b]) /\ conn[b] < MaxConn[b] /\ conn' = [conn EXCEPT ![b] = @ + 1]
      /\ down' = [down EXCEPT ![k] = <<>>] /\ UNCHANGED br
  BY DEF Register
<1>4. /\ conn = [x \in Lower |-> conn[x]] /\ \A x \in Lower : conn[x] \in 0 .. MaxConn[x]
      /\ \A x \in Lower : MaxConn[x] \in Nat
      /\ up = [x \in Conns |-> up[x]] /\ down = [x \in Conns |-> down[x]]
  BY <1>1, ConnFacts DEF ChannelsOK
<1>5. /\ conn' = [x \in Lower |-> conn'[x]] /\ conn'[b] = conn[b] + 1
      /\ \A x \in Lower : x # b => conn'[x] = conn[x]
      /\ \A x \in Lower : conn'[x] \in 0 .. MaxConn[x]
  BY <1>3, <1>4
<1>6. k \in Conns /\ k2 \in Conns /\ k = <<b, conn[b]>> /\ k # k2
  <2>1. conn[b] \in 0 .. MaxConn[b] /\ conn[b] + 1 \in 0 .. MaxConn[b] /\ conn[b] # conn[b] + 1
    BY <1>3, <1>4
  <2>2. <<b, conn[b]>> \in Conns /\ k2 \in Conns
    BY <2>1, ConnFacts
  <2>3. k = <<b, conn[b]>>
    BY DEF Dealer
  <2> QED
    BY <2>1, <2>2, <2>3
<1>7. s_register(br[b]).up = <<Simple("ADDBR")>>
  BY <1>3 DEF s_register, Result
<1>8. /\ up' = [x \in Conns |-> up'[x]] /\ down' = [x \in Conns |-> down'[x]]
      /\ up'[k] = SubSeq(up[k], 1, n) /\ up'[k2] = <<Simple("ADDBR")>>
      /\ down'[k] = <<>>
      /\ \A x \in Conns : x # k /\ x # k2 => up'[x] = up[x]
      /\ \A x \in Conns : x # k => down'[x] = down[x]
  BY <1>2, <1>3, <1>4, <1>6, <1>7
<1> HIDE DEF k
<1>9. down[k2] = <<>>
  BY <1>1, <1>4, <1>6 DEF ChannelsOK
<1>10. ASSUME NEW x \in Conns
       PROVE  /\ IsSeq(up'[x]) /\ IsSeq(down'[x])
              /\ x[2] > conn'[x[1]] => up'[x] = <<>>
              /\ x[2] # conn'[x[1]] => down'[x] = <<>>
  <2>1. /\ IsSeq(up[x]) /\ IsSeq(down[x]) /\ x = <<x[1], x[2]>> /\ x[1] \in Lower /\ x[2] \in Nat
        /\ x[2] > conn[x[1]] => up[x] = <<>>
        /\ x[2] # conn[x[1]] => down[x] = <<>>
    BY <1>1, ConnFacts DEF ChannelsOK
  <2>2. CASE x = k
    <3>1. IsSeq(up'[x]) /\ IsSeq(<<>>)
      BY <1>8, <2>1, <2>2, PrefixIsSeq, ShortSeqs
    <3>2. x[1] = b /\ x[2] = conn[b]
      BY <1>6, <2>2
    <3> QED
      BY <1>4, <1>5, <1>8, <2>2, <3>1, <3>2
  <2>3. CASE x = k2
    <3>1. IsSeq(up'[x]) /\ x[1] = b /\ x[2] = conn[b] + 1
      BY <1>8, <2>3, ShortSeqs
    <3> QED
      BY <1>4, <1>5, <1>6, <1>8, <1>9, <2>1, <2>3, <3>1
  <2>4. CASE x # k /\ x # k2
    <3>1. up'[x] = up[x] /\ down'[x] = down[x]
      BY <1>8, <2>4
    <3>2. CASE x[1] = b
      <4>1. x[2] # conn[b] /\ x[2] # conn[b] + 1
        BY <1>6, <2>1, <2>4, <3>2
      <4> QED
        BY <1>4, <1>5, <2>1, <3>1, <3>2, <4>1
    <3>3. CASE x[1] # b
      BY <1>5, <2>1, <3>1, <3>3
    <3> QED
      BY <3>2, <3>3
  <2> QED
    BY <2>2, <2>3, <2>4
<1>11. ChannelsOK(conn', up', down')
  BY <1>5, <1>8, <1>10 DEF ChannelsOK
<1>12. BrokersOK(br') /\ OneTimer'
  BY <1>1, <1>3 DEF OneTimer
<1>13. ASSUME NEW x \in Lower
       PROVE  LET y == <<x, conn'[x]>> IN
              /\ OneToken(up'[y], down'[y])
              /\ br'[x].state = REGISTERED => NoToken(up'[y], down'[y])
  <2>1. CASE x = b
    <3>1. <<x, conn'[x]>> = k2 /\ up'[k2] = <<Simple("ADDBR")>> /\ down'[k2] = <<>>
      BY <1>5, <1>6, <1>8, <1>9, <2>1
    <3>2. OneToken(<<Simple("ADDBR")>>, <<>>)
      BY ShortSeqs DEF OneToken
    <3>3. br'[x].state # REGISTERED
      BY <1>3, <2>1 DEF Unregistered, REGISTERED, UNREG, ROOT
    <3> QED
      BY <3>1, <3>2, <3>3
  <2>2. CASE x # b
    <3> DEFINE y == <<x, conn[x]>>
    <3>1. <<x, conn'[x]>> = y /\ y \in Conns
      BY <1>4, <1>5, <2>2, ConnFacts
    <3>2. up'[y] = up[y] /\ down'[y] = down[y] /\ br' = br
      BY <1>3, <1>6, <1>8, <2>2, <3>1
    <3> QED
      BY <1>1, <3>1, <3>2 DEF TokensOK
  <2> QED
    BY <2>1, <2>2
<1> QED
  BY <1>11, <1>12, <1>13 DEF TreeInv, TokensOK

\* A silent heartbeat only counts, or swaps the timers; it is always sent.
LEMMA HeartbeatFits ==
  ASSUME NEW b, Shape(b), FiniteTables(b), b.state \in States, b.timeout \in Nat
  PROVE  LET r == s_heartbeat(b)
         IN /\ Fit(r) /\ r.up = <<Simple("PING")>> /\ r.rout = {}
            /\ r.b.dist_cli = b.dist_cli /\ r.b.lcl_br = b.lcl_br
            /\ \/ /\ b.timeout < Limit /\ r.b.state = b.state /\ r.b.reg_loop = b.reg_loop
                  /\ r.b.heartbeat_loop = b.heartbeat_loop
               \/ /\ b.timeout >= Limit /\ r.b.state = ROOT /\ r.b.reg_loop = b.reg_loop + 1
                  /\ r.b.heartbeat_loop = b.heartbeat_loop - 1
<1> DEFINE r == s_heartbeat(b)
           t == b.timeout + 1
           g == b.reg_loop + 1
           e == b.heartbeat_loop - 1
           b1 == [b EXCEPT !.timeout = t]
           b2 == [b1 EXCEPT !.state = ROOT, !.heartbeat_loop = e, !.reg_loop = g]
<1>1. b = [f \in BrokerFields |-> b[f]]
  BY DEF Shape
<1>2. /\ Shape(b1) /\ b1.timeout = t /\ b1.state = b.state /\ b1.reg_loop = b.reg_loop
      /\ b1.heartbeat_loop = b.heartbeat_loop /\ b1.dist_cli = b.dist_cli
      /\ b1.lcl_br = b.lcl_br /\ b1.rev_lcl_cli = b.rev_lcl_cli
  <2> HIDE DEF t
  <2> QED
    BY <1>1 DEF Shape, BrokerFields
<1>3. b1.reg_loop + 1 = g /\ b1.heartbeat_loop - 1 = e
  BY <1>2
<1>4. r.up = <<Simple("PING")>> /\ r.rout = {} /\ r.b = IF t > Limit THEN b2 ELSE b1
  BY <1>2, <1>3 DEF s_heartbeat, Result
<1> HIDE DEF b1, g, e, r
<1>5. /\ Shape(b2) /\ b2.timeout = b1.timeout /\ b2.state = ROOT /\ b2.reg_loop = g
      /\ b2.heartbeat_loop = e /\ b2.dist_cli = b1.dist_cli
      /\ b2.lcl_br = b1.lcl_br /\ b2.rev_lcl_cli = b1.rev_lcl_cli
  BY <1>2 DEF Shape, BrokerFields
<1>6. t \in Nat /\ Limit \in Nat /\ (t > Limit <=> b.timeout >= Limit)
      /\ (t > Limit \/ b.timeout < Limit)
  BY BrokerAssumption
<1>7. IsSeq(r.up) /\ ROOT \in States
  BY <1>4, ShortSeqs DEF States
<1> HIDE DEF b2, t
<1>8. FiniteTables(b1) /\ FiniteTables(b2)
  BY <1>2, <1>5 DEF FiniteTables
<1>9. Fit(r)
  BY <1>2, <1>4, <1>5, <1>6, <1>7, <1>8 DEF Fit
<1> QED
  BY <1>2, <1>4, <1>5, <1>6, <1>9 DEF r, g, e

\* A heartbeat keeps the invariant.
LEMMA HeartbeatStep ==
  ASSUME TreeInv, NEW b \in Lower, Heartbeat(b)
  PROVE  TreeInv'
<1> DEFINE r == s_heartbeat(br[b])
<1>1. BrokersOK(br) /\ ChannelsOK(conn, up, down) /\ TokensOK(br, conn, up, down) /\ OneTimer
  BY DEF TreeInv
<1>2. br[b].heartbeat_loop > 0 /\ Finish(b, r, up, down) /\ UNCHANGED conn
  BY DEF Heartbeat
<1>3. b \in Brokers /\ b # Root /\ br[b].state # CRASHED
  BY <1>2 DEF Finish, Lower
<1>4. br[b].state = REGISTERED /\ br[b].heartbeat_loop = 1 /\ br[b].reg_loop = 0
  BY <1>1, <1>2, <1>3 DEF OneTimer, TimersMatch
<1>5. /\ Fit(r) /\ r.up = <<Simple("PING")>> /\ r.rout = {}
      /\ \/ /\ r.b.state = br[b].state /\ r.b.reg_loop = br[b].reg_loop
            /\ r.b.heartbeat_loop = br[b].heartbeat_loop
         \/ /\ r.b.state = ROOT /\ r.b.reg_loop = br[b].reg_loop + 1
            /\ r.b.heartbeat_loop = br[b].heartbeat_loop - 1
  BY <1>1, <1>3, HeartbeatFits DEF BrokersOK
<1> HIDE DEF r
<1>6. ReadFrom(conn, up, down) /\ IsSeq(r.up) /\ NoneOf(UpTokens, r.up)
  <2>1. NoneOf(UpTokens, <<Simple("PING")>>)
    BY ShortSeqs DEF UpTokens, Simple
  <2> QED
    BY <1>1, <1>5, <2>1, ReadNothing DEF Fit
<1>7. /\ BrokersOK(br') /\ ChannelsOK(conn', up', down')
      /\ br'[b] = r.b /\ \A x \in Brokers : x # b => br'[x] = br[x]
      /\ \A k \in Conns :
           /\ up'[k] = IF b # Root /\ k = Dealer(b) THEN up[k] \o r.up ELSE up[k]
           /\ down'[k] = down[k] \o Sent(r.rout, k)
  <2>1. /\ br' = [br EXCEPT ![b] = r.b]
        /\ up' = IF b = Root THEN up ELSE [up EXCEPT ![Dealer(b)] = @ \o r.up]
        /\ down' = [k \in Conns |-> down[k] \o Sent(r.rout, k)]
    BY <1>2 DEF Finish
  <2>2. BrokersOK(br') /\ br'[b] = r.b /\ \A x \in Brokers : x # b => br'[x] = br[x]
    BY <1>1, <1>3, <1>5, <2>1, FinishBrokers
  <2>3. ChannelsOK(conn', up', down')
    BY <1>1, <1>2, <1>3, <1>6, <2>1, FinishChannels
  <2>4. \A k \in Conns :
          up'[k] = IF b # Root /\ k = Dealer(b) THEN up[k] \o r.up ELSE up[k]
    <3>1. up = [k \in Conns |-> up[k]]
      BY <1>1 DEF ChannelsOK
    <3> QED
      BY <1>1, <1>3, <2>1, <3>1, FinishUp
  <2>5. \A k \in Conns : down'[k] = down[k] \o Sent(r.rout, k)
    BY <2>1
  <2> QED
    BY <2>2, <2>3, <2>4, <2>5
<1>8. OneTimer'
  <2>1. r.b.state # CRASHED => TimersMatch(r.b, b # Root)
    BY <1>3, <1>4, <1>5 DEF TimersMatch, REGISTERED, ROOT
  <2> QED
    BY <1>1, <1>3, <1>7, <2>1, TimersStep
<1>9. ASSUME NEW x \in Lower
      PROVE  LET k == <<x, conn'[x]>> IN
             /\ OneToken(up'[k], down'[k])
             /\ br'[x].state = REGISTERED => NoToken(up'[k], down'[k])
  <2> DEFINE k == <<x, conn[x]>>
             q == Sent(r.rout, k)
  <2>1. k \in Conns /\ k = Dealer(x) /\ conn'[x] = conn[x]
    BY <1>1, <1>2, DealerIsConn DEF Dealer
  <2>2. IsSeq(q) /\ NoneOf(DownTokens, q)
    BY <1>5, SentFacts
  <2>3. IsSeq(up[k]) /\ IsSeq(down[k])
    BY <1>1, <2>1 DEF ChannelsOK
  <2>4. OneToken(up[k], down[k]) /\ (br[x].state = REGISTERED => NoToken(up[k], down[k]))
    BY <1>1 DEF TokensOK
  <2>5. br'[x].state = REGISTERED => br[x].state = REGISTERED
    BY <1>4, <1>7 DEF Lower
  <2>6. up'[k] \in {up[k], up[k] \o r.up} /\ down'[k] = down[k] \o q
    BY <1>7, <2>1
  <2> HIDE DEF k, q
  <2>7. /\ OneToken(up'[k], down'[k])
        /\ br'[x].state = REGISTERED => NoToken(up'[k], down'[k])
    BY <1>6, <2>2, <2>3, <2>4, <2>5, <2>6, TokensStay
  <2> QED
    BY <2>1, <2>7 DEF k
<1> QED
  BY <1>7, <1>8, <1>9 DEF TreeInv, TokensOK

\* A broker that has just been started.
LEMMA NewBrokerFits ==
  ASSUME NEW b \in Brokers
  PROVE  LET c == NewBroker(IF b = Root THEN ROOT ELSE UNREG)
         IN /\ Shape(c) /\ FiniteTables(c) /\ c.state \in States /\ c.timeout = 0
            /\ TimersMatch(c, b # Root)
            /\ c.state = (IF b = Root THEN ROOT ELSE UNREG)
            /\ DOMAIN c.lcl_br = {} /\ DOMAIN c.dist_cli = {}
<1>1. IsFiniteSet({})
  BY FS_EmptySet
<1> QED
  BY <1>1 DEF NewBroker, Shape, BrokerFields, FiniteTables, States, TimersMatch, UNREG, ROOT,
              REGISTERED, CRASHED

\* A broker is started again.
LEMMA CrashStep ==
  ASSUME TreeInv, NEW b \in MayCrash, Crash(b)
  PROVE  TreeInv'
<1> DEFINE c == NewBroker(IF b = Root THEN ROOT ELSE UNREG)
<1>1. BrokersOK(br) /\ ChannelsOK(conn, up, down) /\ TokensOK(br, conn, up, down) /\ OneTimer
  BY DEF TreeInv
<1>2. /\ b # Root => conn[b] < MaxConn[b]
      /\ br' = [br EXCEPT ![b] = c]
      /\ conn' = IF b = Root THEN conn ELSE [conn EXCEPT ![b] = @ + 1]
      /\ down' = [k \in Conns |-> IF k[1] = b THEN <<>> ELSE down[k]]
      /\ up' = [k \in Conns |-> up'[k]] /\ \A k \in Conns : up'[k] \in {up[k], <<>>}
  BY DEF Crash
<1>3. b \in Brokers /\ (b # Root => b \in Lower) /\ Root \notin Lower
  BY TreeAssumption DEF Lower
<1>4. /\ Shape(c) /\ FiniteTables(c) /\ c.state \in States /\ c.timeout = 0
      /\ TimersMatch(c, b # Root)
      /\ c.state = (IF b = Root THEN ROOT ELSE UNREG)
  BY <1>3, NewBrokerFits
<1> HIDE DEF c
<1>5. /\ br' = [x \in Brokers |-> br'[x]] /\ br'[b] = c
      /\ \A x \in Brokers : x # b => br'[x] = br[x]
  <2>1. br = [x \in Brokers |-> br[x]]
    BY <1>1 DEF BrokersOK
  <2> QED
    BY <1>2, <1>3, <2>1
<1>6. BrokersOK(br')
  <2>1. ASSUME NEW x \in Brokers
        PROVE  /\ Shape(br'[x]) /\ FiniteTables(br'[x])
               /\ br'[x].state \in States /\ br'[x].timeout \in Nat
    <3>1. CASE x = b
      BY <1>4, <1>5, <3>1
    <3>2. CASE x # b
      BY <1>1, <1>5, <3>2 DEF BrokersOK
    <3> QED
      BY <3>1, <3>2
  <2> QED
    BY <1>5, <2>1 DEF BrokersOK
<1>7. OneTimer'
  BY <1>1, <1>3, <1>4, <1>5, TimersStep
<1>8. /\ conn = [x \in Lower |-> conn[x]] /\ \A x \in Lower : conn[x] \in 0 .. MaxConn[x]
      /\ \A x \in Lower : MaxConn[x] \in Nat
  BY <1>1, ConnFacts DEF ChannelsOK
<1>9. /\ conn' = [x \in Lower |-> conn'[x]] /\ (b # Root => conn'[b] = conn[b] + 1)
      /\ \A x \in Lower : x # b => conn'[x] = conn[x]
      /\ \A x \in Lower : conn'[x] \in 0 .. MaxConn[x]
  BY <1>2, <1>3, <1>8
<1>10. ASSUME NEW x \in Conns
       PROVE  /\ IsSeq(up'[x]) /\ IsSeq(down'[x])
              /\ x[2] > conn'[x[1]] => up'[x] = <<>>
              /\ x[2] # conn'[x[1]] => down'[x] = <<>>
  <2>1. /\ IsSeq(up[x]) /\ IsSeq(down[x]) /\ x[1] \in Lower /\ x[2] \in Nat
        /\ x[2] > conn[x[1]] => up[x] = <<>>
        /\ x[2] # conn[x[1]] => down[x] = <<>>
    BY <1>1, ConnFacts DEF ChannelsOK
  <2>2. IsSeq(<<>>)
    BY ShortSeqs
  <2>3. up'[x] \in {up[x], <<>>} /\ down'[x] = IF x[1] = b THEN <<>> ELSE down[x]
    BY <1>2
  <2>4. CASE x[1] = b
    BY <1>3, <1>8, <1>9, <2>1, <2>2, <2>3, <2>4
  <2>5. CASE x[1] # b
    BY <1>9, <2>1, <2>2, <2>3, <2>5
  <2> QED
    BY <2>4, <2>5
<1>11. ChannelsOK(conn', up', down')
  <2>1. down' = [k \in Conns |-> down'[k]]
    BY <1>2
  <2> QED
    BY <1>2, <1>9, <1>10, <2>1 DEF ChannelsOK
<1>12. ASSUME NEW x \in Lower
       PROVE  LET y == <<x, conn'[x]>> IN
              /\ OneToken(up'[y], down'[y])
              /\ br'[x].state = REGISTERED => NoToken(up'[y], down'[y])
  <2> DEFINE y == <<x, conn'[x]>>
  <2>1. y \in Conns /\ y[1] = x /\ y[2] = conn'[x]
    BY <1>9, ConnFacts
  <2>2. OneToken(<<>>, <<>>) /\ NoToken(<<>>, <<>>)
    BY ShortSeqs DEF OneToken, NoToken
  <2>3. CASE x = b
    <3>1. y[2] > conn[y[1]]
      BY <1>3, <1>8, <1>9, <2>1, <2>3
    <3>2. up'[y] = <<>> /\ down'[y] = <<>>
      BY <1>1, <1>2, <2>1, <2>3, <3>1 DEF ChannelsOK
    <3> QED
      BY <2>2, <3>2
  <2>4. CASE x # b
    <3>1. y = <<x, conn[x]>> /\ down'[y] = down[y] /\ br'[x] = br[x]
      BY <1>2, <1>5, <1>9, <2>1, <2>4 DEF Lower
    <3>2. OneToken(up[y], down[y]) /\ (br[x].state = REGISTERED => NoToken(up[y], down[y]))
      BY <1>1, <3>1 DEF TokensOK
    <3>3. up'[y] \in {up[y], <<>>}
      BY <1>2, <2>1
    <3>4. /\ OneToken(up[y], down[y]) => OneToken(<<>>, down[y])
          /\ NoToken(up[y], down[y]) => NoToken(<<>>, down[y])
      BY <2>2 DEF OneToken, NoToken
    <3> HIDE DEF y
    <3> QED
      BY <3>1, <3>2, <3>3, <3>4 DEF y
  <2> QED
    BY <2>3, <2>4
<1> QED
  BY <1>6, <1>7, <1>11, <1>12 DEF TreeInv, TokensOK

\* The invariant holds to begin with.
LEMMA InitTree == Init => TreeInv
<1> SUFFICES ASSUME Init PROVE TreeInv
  OBVIOUS
<1>1. /\ br = [b \in Brokers |-> NewBroker(IF b = Root THEN ROOT ELSE UNREG)]
      /\ conn = [b \in Lower |-> 0]
      /\ up = [k \in Conns |-> <<>>] /\ down = [k \in Conns |-> <<>>]
  BY DEF Init
<1>2. BrokersOK(br) /\ OneTimer
  <2>1. ASSUME NEW b \in Brokers
        PROVE  /\ Shape(br[b]) /\ FiniteTables(br[b]) /\ br[b].state \in States
               /\ br[b].timeout \in Nat /\ TimersMatch(br[b], b # Root)
    <3>1. br[b] = NewBroker(IF b = Root THEN ROOT ELSE UNREG)
      BY <1>1
    <3> QED
      BY <3>1, NewBrokerFits
  <2>2. br = [b \in Brokers |-> br[b]]
    BY <1>1
  <2> QED
    BY <2>1, <2>2 DEF BrokersOK, OneTimer
<1>3. ChannelsOK(conn, up, down)
  <2>1. IsSeq(<<>>)
    BY ShortSeqs
  <2>2. \A b \in Lower : conn[b] \in 0 .. MaxConn[b]
    BY <1>1, ConnFacts
  <2> QED
    BY <1>1, <2>1, <2>2 DEF ChannelsOK
<1>4. TokensOK(br, conn, up, down)
  <2>1. OneToken(<<>>, <<>>) /\ NoToken(<<>>, <<>>)
    BY ShortSeqs DEF OneToken, NoToken
  <2>2. \A b \in Lower : up[<<b, conn[b]>>] = <<>> /\ down[<<b, conn[b]>>] = <<>>
    BY <1>1, <1>3, DealerIsConn DEF Dealer
  <2> QED
    BY <2>1, <2>2 DEF TokensOK
<1> QED
  BY <1>2, <1>3, <1>4 DEF TreeInv

\* Every step keeps it.
LEMMA NextTree == TreeInv /\ [Next]_vars => TreeInv'
<1> SUFFICES ASSUME TreeInv, [Next]_vars PROVE TreeInv'
  OBVIOUS
<1>1. \A b \in Brokers : Shape(br[b]) /\ FiniteTables(br[b])
  BY DEF TreeInv, BrokersOK
<1>2. \A c \in Clients : Home[c] \in Brokers /\ c \notin Conns
  BY TreeAssumption
<1>3. ASSUME NEW c \in Clients, Join(c) PROVE TreeInv'
  <2> DEFINE r == s_cb_challok_client(br[Home[c]], c, NameOf[c][1], Tail(NameOf[c]))
  <2>1. Finish(Home[c], r, up, down) /\ UNCHANGED conn
    BY <1>3 DEF Join
  <2>2. Tame(br[Home[c]], r, c)
    BY <1>1, <1>2, RegistrationsTame
  <2> HIDE DEF r
  <2> QED
    BY <1>2, <2>1, <2>2, TameStep
<1>4. ASSUME NEW c \in Clients, Leave(c) PROVE TreeInv'
  <2> DEFINE r == s_cb_unreg_cli(br[Home[c]], c, NameOf[c][1])
  <2>1. Finish(Home[c], r, up, down) /\ UNCHANGED conn
    BY <1>4 DEF Leave
  <2>2. Calm(br[Home[c]], r)
    BY <1>1, <1>2, ClientsCalm
  <2> HIDE DEF r
  <2>3. Tame(br[Home[c]], r, c)
    BY <2>2, CalmTame
  <2> QED
    BY <1>2, <2>1, <2>3, TameStep
<1>5. ASSUME NEW c \in Clients, NEW d \in Clients, Notify(c, d) PROVE TreeInv'
  <2> DEFINE r == s_cb_send(br[Home[c]], c, NameOf[c][1], Tail(NameOf[d]))
  <2>1. Finish(Home[c], r, up, down) /\ UNCHANGED conn
    BY <1>5 DEF Notify
  <2>2. Calm(br[Home[c]], r)
    BY <1>1, <1>2, ClientsCalm
  <2> HIDE DEF r
  <2>3. Tame(br[Home[c]], r, c)
    BY <2>2, CalmTame
  <2> QED
    BY <1>2, <2>1, <2>3, TameStep
<1>6. ASSUME NEW c \in Clients, Forgotten(c) PROVE TreeInv'
  BY <1>6 DEF Forgotten, TreeInv, OneTimer
<1>7. ASSUME NEW b \in Brokers, CheckBrTimeout(b) PROVE TreeInv'
  <2>1. PICK order \in SetToSeqs(Behind(br[b], SilentBrokers(br[b]))) :
          Finish(b, s_check_br_timeout(br[b], order), up, down)
    BY <1>7 DEF CheckBrTimeout
  <2> DEFINE r == s_check_br_timeout(br[b], order)
             S == Behind(br[b], SilentBrokers(br[b]))
  <2>2. UNCHANGED conn
    BY <1>7 DEF CheckBrTimeout
  <2>3. IsSeq(order)
    <3>1. S \subseteq DOMAIN br[b].dist_cli
      BY DEF Behind
    <3>2. IsFiniteSet(S)
      BY <1>1, <3>1, FS_Subset DEF FiniteTables
    <3> HIDE DEF S
    <3>3. order \in Seq(S)
      BY <2>1, <3>2, TraversalMeetsAll DEF S
    <3> QED
      BY <3>3, SeqIsSeq
  <2>4. Calm(br[b], r)
    BY <1>1, <2>3, BrokersCalm
  <2>5. PICK s : s \notin Conns
    <3>1. RootId \notin Conns
      BY BrokerAssumption, TreeAssumption
    <3> QED
      BY <3>1
  <2> HIDE DEF r
  <2>6. Tame(br[b], r, s)
    BY <2>4, CalmTame
  <2>7. Finish(b, r, up, down)
    BY <2>1 DEF r
  <2> QED
    BY <2>2, <2>5, <2>6, <2>7, TameStep
<1>8. CASE UNCHANGED vars
  BY <1>8 DEF vars, TreeInv, OneTimer
<1> QED
  BY <1>3, <1>4, <1>5, <1>6, <1>7, <1>8, ReceiveUpStep, ReceiveDownStep, RegisterStep,
     HeartbeatStep, CrashStep DEF Next

\* TreeInv holds in every reachable state.
THEOREM TreeInvariant == Spec => []TreeInv
BY InitTree, NextTree, PTL DEF Spec

\* A broker below another one always either waits for its next heartbeat or for
\* its next attempt to register, in every tree, whatever is late, lost or
\* restarted.
THEOREM EveryBrokerKeepsOneTimer == Spec => []OneTimer
<1>1. TreeInv => OneTimer
  BY DEF TreeInv
<1> QED
  BY <1>1, TreeInvariant, PTL

(***************************************************************************)
(* Routes.                                                                 *)
(***************************************************************************)
\* c has no routes and no lower brokers that b does not have.
NoRouteAdded(b, c) ==
  /\ DOMAIN c.lcl_br \subseteq DOMAIN b.lcl_br
  /\ \A n \in DOMAIN c.dist_cli : n \in DOMAIN b.dist_cli /\ c.dist_cli[n] = b.dist_cli[n]
  /\ RoutesLive(b) => RoutesLive(c)

\* Messages for clients are sent down known routes only, and a broker without a
\* higher one announces nothing.
AlongRoutes(b, r) ==
  /\ \A o \in r.rout : o.m.cmd = "FORWARD" => \E n \in DOMAIN b.dist_cli : b.dist_cli[n] = o.to
  /\ b.state # REGISTERED => NoneOf({"ADDDCL"}, r.up)

\* Tables that are as they were, or one name fewer.
LEMMA RoutesSame ==
  ASSUME NEW b, NEW c, DOMAIN c.lcl_br = DOMAIN b.lcl_br,
         \A n \in DOMAIN c.dist_cli : n \in DOMAIN b.dist_cli /\ c.dist_cli[n] = b.dist_cli[n]
  PROVE  NoRouteAdded(b, c)
BY DEF NoRouteAdded, RoutesLive

\* The table operations that touch no routes, or drop some.
LEMMA RouteTables ==
  ASSUME NEW b, Shape(b)
  PROVE  /\ NoRouteAdded(b, b)
         /\ \A k : NoRouteAdded(b, TouchClient(b, k))
         /\ \A s : NoRouteAdded(b, TouchBroker(b, s))
         /\ \A S, K : NoRouteAdded(b, UnlinkLocal(remove_subscriptions(b, S), K))
         /\ \A s, t, name : NoRouteAdded(b, InsertLocal(b, s, t, name))
         /\ \A N : NoRouteAdded(b, RemoveDist(b, N))
         /\ NoRouteAdded(b, Heard(b))
<1>1. NoRouteAdded(b, b)
  BY RoutesSame
<1>2. ASSUME NEW k PROVE NoRouteAdded(b, TouchClient(b, k))
  <2>1. LET c == TouchClient(b, k) IN c.lcl_br = b.lcl_br /\ c.dist_cli = b.dist_cli
    BY DEF TouchClient, Shape, BrokerFields
  <2> QED
    BY <2>1, RoutesSame
<1>3. ASSUME NEW s PROVE NoRouteAdded(b, TouchBroker(b, s))
  <2>1. LET c == TouchBroker(b, s)
        IN DOMAIN c.lcl_br = DOMAIN b.lcl_br /\ c.dist_cli = b.dist_cli
    BY DEF TouchBroker, Shape, BrokerFields
  <2> QED
    BY <2>1, RoutesSame
<1>4. ASSUME NEW S, NEW K PROVE NoRouteAdded(b, UnlinkLocal(remove_subscriptions(b, S), K))
  <2> DEFINE d == remove_subscriptions(b, S)
             c == UnlinkLocal(d, K)
  <2>1. d.lcl_br = b.lcl_br /\ d.dist_cli = b.dist_cli /\ Shape(d)
    BY DEF remove_subscriptions, Shape, BrokerFields
  <2> HIDE DEF d
  <2>2. c.lcl_br = b.lcl_br /\ c.dist_cli = b.dist_cli
    BY <2>1 DEF UnlinkLocal, Shape, BrokerFields
  <2> HIDE DEF c
  <2>3. NoRouteAdded(b, c)
    BY <2>2, RoutesSame
  <2> QED
    BY <2>3 DEF c, d
<1>5. ASSUME NEW s, NEW t, NEW name PROVE NoRouteAdded(b, InsertLocal(b, s, t, name))
  <2>1. LET c == InsertLocal(b, s, t, name) IN c.lcl_br = b.lcl_br /\ c.dist_cli = b.dist_cli
    BY DEF InsertLocal, Shape, BrokerFields
  <2> QED
    BY <2>1, RoutesSame
<1>6. ASSUME NEW N PROVE NoRouteAdded(b, RemoveDist(b, N))
  <2> DEFINE c == RemoveDist(b, N)
             f == b.dist_cli
  <2>1. c.lcl_br = b.lcl_br /\ c.dist_cli = [x \in DOMAIN f \cap (DOMAIN f \ N) |-> f[x]]
    BY DEF RemoveDist, Without, Restrict, Shape, BrokerFields
  <2> HIDE DEF c
  <2>2. NoRouteAdded(b, c)
    BY <2>1, RoutesSame
  <2> QED
    BY <2>2 DEF c
<1>7. NoRouteAdded(b, Heard(b))
  <2>1. Heard(b).lcl_br = b.lcl_br /\ Heard(b).dist_cli = b.dist_cli
    BY DEF Heard, Shape, BrokerFields
  <2> QED
    BY <2>1, RoutesSame
<1> QED
  BY <1>1, <1>2, <1>3, <1>4, <1>5, <1>6, <1>7

\* What is sent up.
LEMMA NotAnnounced ==
  /\ NoneOf({"ADDDCL"}, <<>>)
  /\ \A m : m.cmd # "ADDDCL" => NoneOf({"ADDDCL"}, <<m>>)
  /\ \A b, name : b.state # REGISTERED => NoneOf({"ADDDCL"}, add_cli_up(b, name))
  /\ \A b, src, dst : NoneOf({"ADDDCL"}, forward_up(b, src, dst))
  /\ \A b, order : NoneOf({"ADDDCL"}, del_cli_up(b, order))
<1>1. NoneOf({"ADDDCL"}, <<>>) /\ \A m : m.cmd # "ADDDCL" => NoneOf({"ADDDCL"}, <<m>>)
  BY DEF NoneOf
<1>2. ASSUME NEW b, NEW name, b.state # REGISTERED PROVE NoneOf({"ADDDCL"}, add_cli_up(b, name))
  BY <1>1, <1>2 DEF add_cli_up, ROOT, REGISTERED
<1>3. ASSUME NEW b, NEW src, NEW dst PROVE NoneOf({"ADDDCL"}, forward_up(b, src, dst))
  BY <1>1 DEF forward_up, Forward
<1>4. ASSUME NEW b, NEW order PROVE NoneOf({"ADDDCL"}, del_cli_up(b, order))
  BY DEF del_cli_up, Unregdcli, NoneOf
<1> QED
  BY <1>1, <1>2, <1>3, <1>4

\* Route sends along routes.
LEMMA RouteAlong ==
  ASSUME NEW b, NEW src, NEW dst, NEW invalid, \A o \in invalid.rout : o.m.cmd # "FORWARD",
         NoneOf({"ADDDCL"}, invalid.up)
  PROVE  LET r == Route(b, src, dst, invalid)
         IN /\ \A o \in r.rout : o.m.cmd = "FORWARD" =>
                 \E n \in DOMAIN b.dist_cli : b.dist_cli[n] = o.to
            /\ NoneOf({"ADDDCL"}, r.up)
<1> DEFINE r == Route(b, src, dst, invalid)
<1>1. CASE HasRevLocal(b, dst)
  <2>1. r = Result(b, <<>>, To(b.rev_lcl_cli[dst][1], Data(src, dst)))
    BY <1>1 DEF Route
  <2>2. r.up = <<>> /\ \A o \in r.rout : o.m.cmd = "DATA"
    BY <2>1 DEF Result, To, Data
  <2> HIDE DEF r
  <2> QED
    BY <2>2, NotAnnounced DEF r
<1>2. CASE ~HasRevLocal(b, dst) /\ HasDist(b, dst)
  <2>1. r = Result(b, <<>>, To(b.dist_cli[dst], Forward(src, dst)))
    BY <1>2 DEF Route
  <2>2. r.up = <<>> /\ \A o \in r.rout : o.to = b.dist_cli[dst]
    BY <2>1 DEF Result, To
  <2> HIDE DEF r
  <2> QED
    BY <1>2, <2>2, NotAnnounced DEF r, HasDist
<1>3. CASE ~HasRevLocal(b, dst) /\ ~HasDist(b, dst) /\ b.state = ROOT
  <2>1. r = invalid
    BY <1>3 DEF Route
  <2> QED
    BY <2>1
<1>4. CASE ~HasRevLocal(b, dst) /\ ~HasDist(b, dst) /\ b.state # ROOT
  <2>1. r = Result(b, forward_up(b, src, dst), {})
    BY <1>4 DEF Route
  <2>2. r.up = forward_up(b, src, dst) /\ r.rout = {}
    BY <2>1 DEF Result
  <2> HIDE DEF r
  <2> QED
    BY <2>2, NotAnnounced DEF r
<1> QED
  BY <1>1, <1>2, <1>3, <1>4

\* The clients' messages that reach a broker of a tree.
LEMMA ClientsAlong ==
  ASSUME NEW b, Shape(b), NEW s, NEW t
  PROVE  /\ \A name : LET r == s_cb_challok_client(b, s, t, name)
                      IN NoRouteAdded(b, r.b) /\ AlongRoutes(b, r)
         /\ LET r == s_cb_unreg_cli(b, s, t) IN NoRouteAdded(b, r.b) /\ AlongRoutes(b, r)
         /\ \A dest : LET r == s_cb_send(b, s, t, dest)
                      IN NoRouteAdded(b, r.b) /\ AlongRoutes(b, r)
<1>1. ASSUME NEW name
      PROVE  LET r == s_cb_challok_client(b, s, t, name)
             IN NoRouteAdded(b, r.b) /\ AlongRoutes(b, r)
  <2> DEFINE r == s_cb_challok_client(b, s, t, name)
  <2>1. /\ r.b \in {b, InsertLocal(b, s, t, name)}
        /\ r.up \in {<<>>, add_cli_up(b, PrefixName(t, name))}
        /\ \A o \in r.rout : o.m.cmd # "FORWARD"
    BY DEF s_cb_challok_client, Nothing, Result, To, Regfail, Simple
  <2> HIDE DEF r
  <2>2. NoRouteAdded(b, r.b) /\ AlongRoutes(b, r)
    BY <2>1, RouteTables, NotAnnounced DEF AlongRoutes
  <2> QED
    BY <2>2 DEF r
<1>2. LET r == s_cb_unreg_cli(b, s, t) IN NoRouteAdded(b, r.b) /\ AlongRoutes(b, r)
  <2> DEFINE k == <<s, t>>
             c == UnlinkLocal(remove_subscriptions(b, {s}), {k})
             order == <<b.lcl_cli[k].name>>
             r == s_cb_unreg_cli(b, s, t)
  <2>1. r.b \in {b, c} /\ r.up \in {<<>>, del_cli_up(b, order)} /\ r.rout = {}
    BY DEF s_cb_unreg_cli, Nothing, Result
  <2>2. NoRouteAdded(b, c)
    BY RouteTables
  <2> HIDE DEF r, c, order
  <2>3. NoRouteAdded(b, r.b) /\ AlongRoutes(b, r)
    BY <2>1, <2>2, RouteTables, NotAnnounced DEF AlongRoutes
  <2> QED
    BY <2>3 DEF r
<1>3. ASSUME NEW dest
      PROVE  LET r == s_cb_send(b, s, t, dest) IN NoRouteAdded(b, r.b) /\ AlongRoutes(b, r)
  <2> DEFINE k == <<s, t>>
             c == TouchClient(b, k)
             src == b.lcl_cli[k].name
             dst == Resolve(t, dest)
             m == IF IsPublic(src) = IsPublic(dst) THEN Nodst(Tail(dst), Tail(src))
                                                   ELSE Nodst(dst, src)
             invalid == Result(c, <<>>, To(s, m))
             x == Route(c, src, dst, invalid)
             r == s_cb_send(b, s, t, dest)
  <2>1. r = Nothing(b) \/ r = x
    BY DEF s_cb_send
  <2>2. invalid.b = c /\ invalid.up = <<>> /\ \A o \in invalid.rout : o.m.cmd # "FORWARD"
    BY DEF Result, To, Nodst
  <2>3. c.dist_cli = b.dist_cli /\ NoRouteAdded(b, c)
    <3>1. c.dist_cli = b.dist_cli
      BY DEF TouchClient, Shape, BrokerFields
    <3> QED
      BY <3>1, RouteTables
  <2> HIDE DEF invalid, c, r, src, dst
  <2>4. /\ \A o \in x.rout : o.m.cmd = "FORWARD" =>
             \E n \in DOMAIN c.dist_cli : c.dist_cli[n] = o.to
        /\ NoneOf({"ADDDCL"}, x.up)
    BY <2>2, NotAnnounced, RouteAlong
  <2>5. x.b = c
    BY <2>2, RouteState
  <2> HIDE DEF x
  <2>6. NoRouteAdded(b, x.b) /\ AlongRoutes(b, x)
    BY <2>3, <2>4, <2>5 DEF AlongRoutes
  <2>7. NoRouteAdded(b, Nothing(b).b) /\ AlongRoutes(b, Nothing(b))
    BY RouteTables, NotAnnounced DEF AlongRoutes, Nothing, Result
  <2>8. NoRouteAdded(b, r.b) /\ AlongRoutes(b, r)
    BY <2>1, <2>6, <2>7
  <2> QED
    BY <2>8 DEF r
<1> QED
  BY <1>1, <1>2, <1>3

\* The time-out of lower brokers takes the routes to them along.
LEMMA TimeoutAlong ==
  ASSUME NEW b, Shape(b), NEW order
  PROVE  LET r == s_check_br_timeout(b, order)
         IN NoRouteAdded(b, r.b) /\ AlongRoutes(b, r) /\ r.b.state = b.state
<1> DEFINE S == SilentBrokers(b)
           N == Behind(b, S)
           d == RemoveDist(b, N)
           f == b.dist_cli
           r == s_check_br_timeout(b, order)
<1>1. /\ Shape(d) /\ d.lcl_br = b.lcl_br /\ d.state = b.state
      /\ d.dist_cli = [x \in DOMAIN f \cap (DOMAIN f \ N) |-> f[x]]
  BY DEF RemoveDist, Without, Restrict, Shape, BrokerFields
<1>2. /\ r.b = [d EXCEPT !.lcl_br = [s \in DOMAIN @ \ S |-> @[s] + 1]]
      /\ r.up = del_cli_up(b, order) /\ r.rout = {}
  BY DEF s_check_br_timeout, Result
<1> HIDE DEF d, r, S
<1>3. DOMAIN r.b.lcl_br = DOMAIN b.lcl_br \ S /\ r.b.dist_cli = d.dist_cli /\ r.b.state = b.state
  BY <1>1, <1>2 DEF Shape, BrokerFields
<1>4. \A n \in DOMAIN r.b.dist_cli :
        /\ n \in DOMAIN f /\ r.b.dist_cli[n] = f[n] /\ f[n] \notin S
  BY <1>1, <1>3 DEF Behind
<1>5. NoRouteAdded(b, r.b)
  BY <1>3, <1>4 DEF NoRouteAdded, RoutesLive
<1>6. AlongRoutes(b, r)
  BY <1>2, NotAnnounced DEF AlongRoutes
<1> QED
  BY <1>3, <1>5, <1>6 DEF r

\* A message of a lower broker adds a route to that broker at most, and only when
\* it is registered.
LEMMA RouterAlong ==
  ASSUME NEW b, Shape(b), NEW k, NEW m
  PROVE  LET r == RouterMsg(b, k, m)
         IN /\ AlongRoutes(b, r) /\ (RoutesLive(b) => RoutesLive(r.b))
            /\ DOMAIN r.b.lcl_br \subseteq DOMAIN b.lcl_br \cup {k}
            /\ \A n \in DOMAIN r.b.dist_cli :
                 \/ n \in DOMAIN b.dist_cli /\ r.b.dist_cli[n] = b.dist_cli[n]
                 \/ r.b.dist_cli[n] = k /\ m.cmd = "ADDDCL"
<1> DEFINE r == RouterMsg(b, k, m)
           Good(x) ==
             /\ AlongRoutes(b, x) /\ (RoutesLive(b) => RoutesLive(x.b))
             /\ DOMAIN x.b.lcl_br \subseteq DOMAIN b.lcl_br \cup {k}
             /\ \A n \in DOMAIN x.b.dist_cli :
                  \/ n \in DOMAIN b.dist_cli /\ x.b.dist_cli[n] = b.dist_cli[n]
                  \/ x.b.dist_cli[n] = k /\ m.cmd = "ADDDCL"
<1> SUFFICES Good(r)
  OBVIOUS
<1> HIDE DEF r
<1>1. ASSUME NoRouteAdded(b, r.b), AlongRoutes(b, r) PROVE Good(r)
  BY <1>1 DEF NoRouteAdded
<1>2. NoRouteAdded(b, b) /\ AlongRoutes(b, Nothing(b)) /\ Nothing(b).b = b
  BY RouteTables, NotAnnounced DEF AlongRoutes, Nothing, Result
<1>3. CASE m.cmd = "ADDBR"
  <2>1. r.b = b /\ r.up = <<>> /\ \A o \in r.rout : o.m.cmd # "FORWARD"
    BY <1>3 DEF r, RouterMsg, s_cb_addbr, Result, To, Chall
  <2> QED
    BY <1>1, <1>2, <2>1, NotAnnounced DEF AlongRoutes
<1>4. CASE m.cmd = "CHALLOK"
  <2>1. /\ r.b = b \/ r.b = InsertBroker(b, k)
        /\ r.up = <<>> /\ \A o \in r.rout : o.m.cmd # "FORWARD"
    BY <1>4 DEF r, RouterMsg, s_cb_challok_broker, Nothing, Result, To, Simple
  <2>2. LET c == InsertBroker(b, k)
        IN c.dist_cli = b.dist_cli /\ DOMAIN c.lcl_br = DOMAIN b.lcl_br \cup {k}
    BY DEF InsertBroker, Put, Shape, BrokerFields
  <2>3. r.b.dist_cli = b.dist_cli /\ DOMAIN r.b.lcl_br \in {DOMAIN b.lcl_br, DOMAIN b.lcl_br \cup {k}}
    BY <2>1, <2>2
  <2> QED
    BY <2>1, <2>3, NotAnnounced DEF AlongRoutes, RoutesLive
<1>5. CASE m.cmd = "PING"
  <2>1. /\ r.b \in {b, TouchClient(b, <<k, BrokerCookie>>), TouchBroker(b, k)}
        /\ r.up = <<>> /\ \A o \in r.rout : o.m.cmd # "FORWARD"
    BY <1>5 DEF r, RouterMsg, s_cb_ping, Nothing, Result, To, Simple
  <2>2. NoRouteAdded(b, r.b)
    BY <2>1, RouteTables
  <2> QED
    BY <1>1, <2>1, <2>2, NotAnnounced DEF AlongRoutes
<1>6. CASE m.cmd = "ADDDCL"
  <2>1. CASE HasBroker(b, k, BrokerCookie) /\ r = Result(InsertDist(b, m.name, k), add_cli_up(b, m.name), {})
    <3> DEFINE c == InsertDist(b, m.name, k)
    <3>1. c.lcl_br = b.lcl_br /\ c.dist_cli = Put(b.dist_cli, m.name, k)
      BY DEF InsertDist, Shape, BrokerFields
    <3>2. r.b = c /\ r.up = add_cli_up(b, m.name) /\ r.rout = {}
      BY <2>1 DEF Result
    <3> HIDE DEF c
    <3>3. \A n \in DOMAIN c.dist_cli : \/ n \in DOMAIN b.dist_cli /\ c.dist_cli[n] = b.dist_cli[n]
                                      \/ c.dist_cli[n] = k
      BY <3>1 DEF Put
    <3>4. k \in DOMAIN c.lcl_br
      BY <2>1, <3>1 DEF HasBroker
    <3>5. RoutesLive(b) => RoutesLive(c)
      BY <3>1, <3>3, <3>4 DEF RoutesLive
    <3>6. AlongRoutes(b, r)
      BY <3>2, NotAnnounced DEF AlongRoutes
    <3> QED
      BY <1>6, <3>1, <3>2, <3>3, <3>5, <3>6
  <2>2. CASE r = Nothing(b)
    BY <1>1, <1>2, <2>2
  <2>3. CASE r = Result(b, <<>>, To(k, Regfail(m.name)))
    <3>1. r.b = b /\ r.up = <<>> /\ \A o \in r.rout : o.m.cmd # "FORWARD"
      BY <2>3 DEF Result, To, Regfail
    <3> QED
      BY <1>1, <1>2, <3>1, NotAnnounced DEF AlongRoutes
  <2>4. r = s_cb_adddcl(b, k, BrokerCookie, m.name)
    BY <1>6 DEF r, RouterMsg
  <2> QED
    BY <2>1, <2>2, <2>3, <2>4 DEF s_cb_adddcl
<1>7. CASE m.cmd = "UNREGDCLI"
  <2>1. /\ r.b = b \/ r.b = RemoveDist(b, {m.name})
        /\ r.up = <<>> \/ r.up = del_cli_up(b, <<m.name>>)
        /\ r.rout = {}
    BY <1>7 DEF r, RouterMsg, s_cb_unreg_dist_cli, Nothing, Result
  <2>2. NoRouteAdded(b, r.b)
    BY <2>1, RouteTables
  <2> QED
    BY <1>1, <2>1, <2>2, NotAnnounced DEF AlongRoutes
<1>8. CASE m.cmd = "FORWARD"
  <2> DEFINE c == TouchBroker(b, k)
             invalid == Result(c, <<>>, To(k, Nodst(m.dst, m.src)))
             x == Route(c, m.src, m.dst, invalid)
  <2>1. r = Nothing(b) \/ r = x
    BY <1>8 DEF r, RouterMsg, s_cb_forward_rsock
  <2>2. invalid.b = c /\ invalid.up = <<>> /\ \A o \in invalid.rout : o.m.cmd # "FORWARD"
    BY DEF Result, To, Nodst
  <2>3. c.dist_cli = b.dist_cli /\ NoRouteAdded(b, c)
    <3>1. c.dist_cli = b.dist_cli
      BY DEF TouchBroker, Shape, BrokerFields
    <3> QED
      BY <3>1, RouteTables
  <2> HIDE DEF invalid, c
  <2>4. /\ \A o \in x.rout : o.m.cmd = "FORWARD" =>
             \E n \in DOMAIN c.dist_cli : c.dist_cli[n] = o.to
        /\ NoneOf({"ADDDCL"}, x.up)
    BY <2>2, NotAnnounced, RouteAlong
  <2>5. x.b = c
    BY <2>2, RouteState
  <2> HIDE DEF x
  <2>6. NoRouteAdded(b, x.b) /\ AlongRoutes(b, x)
    BY <2>3, <2>4, <2>5 DEF AlongRoutes
  <2> HIDE DEF Good
  <2> QED
    BY <1>1, <1>2, <2>1, <2>6
<1>9. CASE m.cmd \notin {"ADDBR", "CHALLOK", "PING", "ADDDCL", "UNREGDCLI", "FORWARD"}
  <2>1. r = Nothing(b)
    BY <1>9 DEF r, RouterMsg
  <2> HIDE DEF Good
  <2> QED
    BY <1>1, <1>2, <2>1
<1> QED
  BY <1>3, <1>4, <1>5, <1>6, <1>7, <1>8, <1>9

\* A message from above adds no route, and ends the process only if it is a
\* message for a client and the broker has given the higher one up.
LEMMA DealerAlong ==
  ASSUME NEW b, Shape(b), b.state # CRASHED, NEW m, NEW order
  PROVE  LET r == DealerMsg(b, m, order)
         IN /\ NoRouteAdded(b, r.b)
            /\ \A o \in r.rout : o.m.cmd = "FORWARD" =>
                 \E n \in DOMAIN b.dist_cli : b.dist_cli[n] = o.to
            /\ r.b.state # REGISTERED => b.state # REGISTERED /\ NoneOf({"ADDDCL"}, r.up)
            /\ r.b.state = CRASHED => m.cmd = "FORWARD" /\ b.state = ROOT
<1> DEFINE r == DealerMsg(b, m, order)
           c == Heard(b)
           Good(x) ==
             /\ NoRouteAdded(b, x.b)
             /\ \A o \in x.rout : o.m.cmd = "FORWARD" =>
                  \E n \in DOMAIN b.dist_cli : b.dist_cli[n] = o.to
             /\ x.b.state # REGISTERED => b.state # REGISTERED /\ NoneOf({"ADDDCL"}, x.up)
             /\ x.b.state = CRASHED => m.cmd = "FORWARD" /\ b.state = ROOT
<1>1. /\ Shape(c) /\ c.state = b.state /\ c.dist_cli = b.dist_cli /\ c.lcl_br = b.lcl_br
      /\ NoRouteAdded(b, c)
  <2>1. Shape(c) /\ c.state = b.state /\ c.dist_cli = b.dist_cli /\ c.lcl_br = b.lcl_br
    BY DEF Heard, Shape, BrokerFields
  <2> QED
    BY <2>1, RouteTables
<1>2. ASSUME NEW d, NoRouteAdded(c, d) PROVE NoRouteAdded(b, d)
  <2> HIDE DEF c
  <2> QED
    BY <1>1, <1>2 DEF NoRouteAdded
<1>3. CASE m.cmd = "CHALL"
  <2>1. r.b = [c EXCEPT !.broker_id = m.id] /\ r.up = <<Simple("CHALLOK")>> /\ r.rout = {}
    BY <1>3 DEF DealerMsg, s_cb_chall, Result
  <2> HIDE DEF r, c
  <2>2. r.b.state = b.state /\ r.b.dist_cli = b.dist_cli /\ r.b.lcl_br = b.lcl_br
    BY <1>1, <2>1 DEF Shape, BrokerFields
  <2>3. NoRouteAdded(b, r.b)
    BY <2>2, RoutesSame
  <2>4. NoneOf({"ADDDCL"}, r.up)
    BY <2>1, NotAnnounced DEF Simple
  <2>5. Good(r)
    BY <2>1, <2>2, <2>3, <2>4
  <2> QED
    BY <2>5 DEF r
<1>4. CASE m.cmd = "REGOK"
  <2>1. /\ r.b = [c EXCEPT !.state = REGISTERED,
                           !.reg_loop = IF @ > 0 THEN @ - 1 ELSE 0,
                           !.heartbeat_loop = @ + 1,
                           !.north = TRUE]
        /\ r.rout = {}
    BY <1>4 DEF DealerMsg, s_cb_regok, Result
  <2> HIDE DEF r, c
  <2>2. r.b.state = REGISTERED /\ r.b.dist_cli = b.dist_cli /\ r.b.lcl_br = b.lcl_br
    BY <1>1, <2>1 DEF Shape, BrokerFields
  <2>3. NoRouteAdded(b, r.b)
    BY <2>2, RoutesSame
  <2>4. Good(r)
    BY <2>1, <2>2, <2>3 DEF REGISTERED, ROOT, CRASHED
  <2> QED
    BY <2>4 DEF r
<1>5. CASE m.cmd = "FORWARD"
  <2> DEFINE dead == Nothing([c EXCEPT !.state = CRASHED])
  <2>1. r = Route(c, m.src, m.dst, dead)
    BY <1>5 DEF DealerMsg, s_cb_forward_dsock
  <2>2. dead.b = [c EXCEPT !.state = CRASHED] /\ dead.up = <<>> /\ dead.rout = {}
    BY DEF Nothing, Result
  <2>3. /\ dead.b.state = CRASHED /\ dead.b.dist_cli = b.dist_cli /\ dead.b.lcl_br = b.lcl_br
    BY <1>1, <2>2 DEF Shape, BrokerFields
  <2> HIDE DEF dead, r, c
  <2>4. r.b = c \/ (c.state = ROOT /\ r = dead)
    BY <2>1, RouteState
  <2>5. /\ \A o \in r.rout : o.m.cmd = "FORWARD" =>
             \E n \in DOMAIN c.dist_cli : c.dist_cli[n] = o.to
        /\ NoneOf({"ADDDCL"}, r.up)
    BY <2>1, <2>2, NotAnnounced, RouteAlong
  <2>6. NoRouteAdded(b, dead.b)
    BY <2>3, RoutesSame
  <2>7. Good(r)
    BY <1>1, <1>5, <2>3, <2>4, <2>5, <2>6 DEF ROOT, REGISTERED, CRASHED
  <2> QED
    BY <2>7 DEF r
<1>6. CASE m.cmd = "NODST"
  <2>1. r = s_cb_high_error_nodst(b, m.dst, m.src)
    BY <1>6 DEF DealerMsg
  <2>2. r.b = c /\ r.up = <<>> /\ \A o \in r.rout : o.m.cmd = "NODST"
    BY <2>1 DEF s_cb_high_error_nodst, Result, To, Nodst
  <2> HIDE DEF r, c
  <2>3. Good(r)
    BY <1>1, <2>2, NotAnnounced
  <2> QED
    BY <2>3 DEF r
<1>7. CASE m.cmd = "REGFAIL"
  <2> DEFINE k == b.rev_lcl_cli[m.name]
             e == UnlinkLocal(remove_subscriptions(c, {k[1]}), {k})
             f == RemoveDist(c, {m.name})
  <2>1. r = s_cb_high_error_regfail(b, m.name)
    BY <1>7 DEF DealerMsg
  <2>2. r.b \in {e, f, c} /\ r.up = <<>> /\ \A o \in r.rout : o.m.cmd = "REGFAIL"
    BY <2>1 DEF s_cb_high_error_regfail, Nothing, Result, To, Regfail
  <2> HIDE DEF r, c
  <2>3. NoRouteAdded(c, e) /\ NoRouteAdded(c, f) /\ NoRouteAdded(c, c)
    BY <1>1, RouteTables
  <2>4. e.state = c.state /\ f.state = c.state
    BY <1>1 DEF UnlinkLocal, remove_subscriptions, RemoveDist, Shape, BrokerFields
  <2> HIDE DEF e, f
  <2>5. NoRouteAdded(c, r.b) /\ r.b.state = b.state
    BY <1>1, <2>2, <2>3, <2>4
  <2>6. NoRouteAdded(b, r.b)
    BY <1>2, <2>5
  <2>7. Good(r)
    BY <2>2, <2>5, <2>6, NotAnnounced
  <2> QED
    BY <2>7 DEF r
<1>8. CASE m.cmd \notin {"CHALL", "REGOK", "FORWARD", "NODST", "REGFAIL"}
  <2>1. r.b = c /\ r.up = <<>> /\ r.rout = {}
    BY <1>8 DEF DealerMsg, Nothing, Result
  <2> HIDE DEF r, c
  <2>2. Good(r)
    BY <1>1, <2>1, NotAnnounced
  <2> QED
    BY <2>2 DEF r
<1> QED
  BY <1>3, <1>4, <1>5, <1>6, <1>7, <1>8

(***************************************************************************)
(* With timely answers, no broker's process dies.                          *)
(***************************************************************************)
\* What a callback does to the routes of the tree.
LEMMA RoutesStep ==
  ASSUME BrokersOK(br), RoutesOK(br, conn), UNCHANGED conn, NEW b \in Brokers, NEW r,
         br' = [br EXCEPT ![b] = r.b], RoutesLive(r.b),
         \A k \in DOMAIN r.b.lcl_br :
           \/ k \in DOMAIN br[b].lcl_br
           \/ k \in Conns /\ Parent[k[1]] = b /\ k[2] <= conn[k[1]]
  PROVE  RoutesOK(br', conn')
<1>1. br'[b] = r.b /\ \A x \in Brokers : x # b => br'[x] = br[x]
  BY DEF BrokersOK
<1>2. ASSUME NEW p \in Brokers
      PROVE  /\ RoutesLive(br'[p])
             /\ \A k \in DOMAIN br'[p].lcl_br :
                  k \in Conns /\ Parent[k[1]] = p /\ k[2] <= conn[k[1]]
  <2>1. CASE p = b
    BY <1>1, <2>1 DEF RoutesOK
  <2>2. CASE p # b
    BY <1>1, <2>2 DEF RoutesOK
  <2> QED
    BY <2>1, <2>2
<1> QED
  BY <1>2 DEF RoutesOK

\* What it does to a broker that has given up.
LEMMA GivenUpStep ==
  ASSUME BrokersOK(br), ChannelsOK(conn, up, down), RoutesOK(br, conn),
         GivenUp(br, conn, up, down), UNCHANGED conn, NEW b \in Brokers, NEW r,
         NEW up0, NEW down0, ReadFrom(conn, up0, down0), IsSeq(r.up),
         br' = [br EXCEPT ![b] = r.b],
         up' = IF b = Root THEN up0 ELSE [up0 EXCEPT ![Dealer(b)] = @ \o r.up],
         down' = [k \in Conns |-> down0[k] \o Sent(r.rout, k)],
         \A k \in Conns : /\ NoneOf({"ADDDCL"}, up[k]) => NoneOf({"ADDDCL"}, up0[k])
                          /\ NoneOf({"FORWARD"}, down[k]) => NoneOf({"FORWARD"}, down0[k]),
         r.b.state # REGISTERED => br[b].state # REGISTERED /\ NoneOf({"ADDDCL"}, r.up),
         \A o \in r.rout : o.m.cmd = "FORWARD" =>
           \E n \in DOMAIN br[b].dist_cli : br[b].dist_cli[n] = o.to,
         \A n \in DOMAIN r.b.dist_cli :
           \/ n \in DOMAIN br[b].dist_cli /\ r.b.dist_cli[n] = br[b].dist_cli[n]
           \/ ~NoneOf({"ADDDCL"}, up[r.b.dist_cli[n]])
  PROVE  GivenUp(br', conn', up', down')
<1>1. br'[b] = r.b /\ \A x \in Brokers : x # b => br'[x] = br[x]
  BY DEF BrokersOK
<1>2. \A k \in Conns :
        up'[k] = IF b # Root /\ k = Dealer(b) THEN up0[k] \o r.up ELSE up0[k]
  <2>1. up0 = [k \in Conns |-> up0[k]]
    BY DEF ReadFrom
  <2> QED
    BY <2>1, FinishUp
<1>3. ASSUME NEW x \in Lower, br'[x].state # REGISTERED
      PROVE  LET k == <<x, conn'[x]>> IN
             /\ NoneOf({"ADDDCL"}, up'[k]) /\ NoneOf({"FORWARD"}, down'[k])
             /\ \A n \in DOMAIN br'[Parent[x]].dist_cli : br'[Parent[x]].dist_cli[n] # k
  <2> DEFINE k == <<x, conn[x]>>
             q == Sent(r.rout, k)
  <2>1. k \in Conns /\ k = Dealer(x) /\ k[1] = x /\ conn'[x] = conn[x]
    BY DealerIsConn DEF Dealer
  <2>2. br[x].state # REGISTERED /\ (x = b => NoneOf({"ADDDCL"}, r.up)) /\ x \in Brokers
    BY <1>1, <1>3 DEF Lower
  <2>3. /\ NoneOf({"ADDDCL"}, up[k]) /\ NoneOf({"FORWARD"}, down[k])
        /\ \A n \in DOMAIN br[Parent[x]].dist_cli : br[Parent[x]].dist_cli[n] # k
    BY <2>2 DEF GivenUp
  <2>4. IsSeq(up0[k]) /\ IsSeq(down0[k])
    BY <2>1 DEF ReadFrom
  <2>5. \A n \in DOMAIN br[b].dist_cli : br[b].dist_cli[n] # k
    <3>1. SUFFICES ASSUME NEW n \in DOMAIN br[b].dist_cli, br[b].dist_cli[n] = k PROVE FALSE
      OBVIOUS
    <3>2. k \in DOMAIN br[b].lcl_br
      BY <3>1 DEF RoutesOK, RoutesLive
    <3>3. Parent[x] = b
      BY <2>1, <3>2 DEF RoutesOK
    <3> QED
      BY <2>3, <3>1, <3>3
  <2>6. NoneOf({"ADDDCL"}, up'[k])
    <3>1. NoneOf({"ADDDCL"}, up0[k])
      BY <2>1, <2>3
    <3>2. CASE b # Root /\ k = Dealer(b)
      <4>1. x = b
        BY <2>1, <3>2 DEF Dealer
      <4>2. NoneOf({"ADDDCL"}, up0[k] \o r.up)
        BY <2>2, <2>4, <3>1, <4>1, ConcatTokens
      <4> QED
        BY <1>2, <2>1, <3>2, <4>2
    <3>3. CASE ~(b # Root /\ k = Dealer(b))
      BY <1>2, <2>1, <3>1, <3>3
    <3> QED
      BY <3>2, <3>3
  <2>7. NoneOf({"FORWARD"}, down'[k])
    <3>1. NoneOf({"FORWARD"}, down0[k])
      BY <2>1, <2>3
    <3>2. \A o \in r.rout : o.to = k => o.m.cmd \notin {"FORWARD"}
      BY <2>5
    <3>3. IsSeq(q) /\ NoneOf({"FORWARD"}, q)
      BY <3>2, SentFacts
    <3>4. NoneOf({"FORWARD"}, down0[k] \o q)
      BY <2>4, <3>1, <3>3, ConcatTokens
    <3> QED
      BY <2>1, <3>4
  <2>8. ASSUME NEW n \in DOMAIN br'[Parent[x]].dist_cli PROVE br'[Parent[x]].dist_cli[n] # k
    <3>1. Parent[x] \in Brokers
      BY TreeAssumption
    <3>2. CASE Parent[x] = b
      BY <1>1, <2>3, <2>5, <2>8, <3>2
    <3>3. CASE Parent[x] # b
      BY <1>1, <2>3, <2>8, <3>1, <3>3
    <3> QED
      BY <3>2, <3>3
  <2> QED
    BY <2>1, <2>6, <2>7, <2>8
<1> QED
  BY <1>3 DEF GivenUp

\* A callback that adds no route and was started by no message of a broker.
LEMMA CalmTimely ==
  ASSUME TreeInv, TimelyInv, UNCHANGED conn, NEW b \in Brokers, NEW r,
         Finish(b, r, up, down), IsSeq(r.up), r.b.state = br[b].state,
         NoRouteAdded(br[b], r.b), AlongRoutes(br[b], r)
  PROVE  /\ RoutesOK(br', conn') /\ GivenUp(br', conn', up', down')
         /\ \A x \in Brokers : br'[x].state # CRASHED
<1>1. BrokersOK(br) /\ ChannelsOK(conn, up, down) /\ RoutesOK(br, conn) /\ GivenUp(br, conn, up, down)
  BY DEF TreeInv, TimelyInv
<1>2. /\ br' = [br EXCEPT ![b] = r.b]
      /\ up' = IF b = Root THEN up ELSE [up EXCEPT ![Dealer(b)] = @ \o r.up]
      /\ down' = [k \in Conns |-> down[k] \o Sent(r.rout, k)]
  BY DEF Finish
<1>3. RoutesOK(br', conn')
  <2>1. RoutesLive(r.b) /\ DOMAIN r.b.lcl_br \subseteq DOMAIN br[b].lcl_br
    BY <1>1 DEF NoRouteAdded, RoutesOK
  <2>2. \A k \in DOMAIN r.b.lcl_br :
          \/ k \in DOMAIN br[b].lcl_br
          \/ k \in Conns /\ Parent[k[1]] = b /\ k[2] <= conn[k[1]]
    BY <2>1
  <2> QED
    BY <1>1, <1>2, <2>1, <2>2, RoutesStep
<1>4. GivenUp(br', conn', up', down')
  <2>1. ReadFrom(conn, up, down)
    BY <1>1, ReadNothing
  <2>2. /\ r.b.state # REGISTERED => br[b].state # REGISTERED /\ NoneOf({"ADDDCL"}, r.up)
        /\ \A o \in r.rout : o.m.cmd = "FORWARD" =>
             \E n \in DOMAIN br[b].dist_cli : br[b].dist_cli[n] = o.to
    BY DEF AlongRoutes
  <2>3. \A n \in DOMAIN r.b.dist_cli :
          \/ n \in DOMAIN br[b].dist_cli /\ r.b.dist_cli[n] = br[b].dist_cli[n]
          \/ ~NoneOf({"ADDDCL"}, up[r.b.dist_cli[n]])
    BY DEF NoRouteAdded
  <2>4. \A k \in Conns : /\ NoneOf({"ADDDCL"}, up[k]) => NoneOf({"ADDDCL"}, up[k])
                         /\ NoneOf({"FORWARD"}, down[k]) => NoneOf({"FORWARD"}, down[k])
    OBVIOUS
  <2> QED
    BY <1>1, <1>2, <2>1, <2>2, <2>3, <2>4, GivenUpStep
<1>5. \A x \in Brokers : br'[x].state # CRASHED
  BY <1>1, <1>2 DEF TimelyInv, BrokersOK
<1> QED
  BY <1>3, <1>4, <1>5

\* A message of a lower broker.
LEMMA ReceiveUpTimely ==
  ASSUME TreeInv, TimelyInv, NEW k \in Conns, ReceiveUp(k)
  PROVE  /\ RoutesOK(br', conn') /\ GivenUp(br', conn', up', down')
         /\ \A x \in Brokers : br'[x].state # CRASHED
<1> DEFINE p == Parent[k[1]]
           h == Head(up[k])
           r == RouterMsg(br[p], k, h)
           up0 == [up EXCEPT ![k] = Tail(@)]
<1>1. BrokersOK(br) /\ ChannelsOK(conn, up, down) /\ RoutesOK(br, conn) /\ GivenUp(br, conn, up, down)
  BY DEF TreeInv, TimelyInv
<1>2. up[k] # <<>> /\ Finish(p, r, up0, down) /\ UNCHANGED conn
  BY DEF ReceiveUp
<1>3. p \in Brokers /\ k[1] \in Lower /\ k = <<k[1], k[2]>>
  BY TreeAssumption, ConnFacts
<1>4. Shape(br[p])
  BY <1>1, <1>3 DEF BrokersOK
<1>5. Tame(br[p], r, k)
  BY <1>4, RouterTame
<1>6. /\ AlongRoutes(br[p], r) /\ (RoutesLive(br[p]) => RoutesLive(r.b))
      /\ DOMAIN r.b.lcl_br \subseteq DOMAIN br[p].lcl_br \cup {k}
      /\ \A n \in DOMAIN r.b.dist_cli :
           \/ n \in DOMAIN br[p].dist_cli /\ r.b.dist_cli[n] = br[p].dist_cli[n]
           \/ r.b.dist_cli[n] = k /\ h.cmd = "ADDDCL"
  BY <1>4, RouterAlong
<1>7. /\ br' = [br EXCEPT ![p] = r.b]
      /\ up' = IF p = Root THEN up0 ELSE [up0 EXCEPT ![Dealer(p)] = @ \o r.up]
      /\ down' = [x \in Conns |-> down[x] \o Sent(r.rout, x)]
  BY <1>2 DEF Finish
<1> HIDE DEF r, h
<1>8. IsSeq(r.up) /\ r.b.state = br[p].state
  BY <1>5 DEF Tame, SameScalars
<1>9. /\ up0 = [x \in Conns |-> up0[x]] /\ up0[k] = Tail(up[k])
      /\ \A x \in Conns : x # k => up0[x] = up[x]
  BY <1>1 DEF ChannelsOK
<1>10. IsSeq(up[k]) /\ IsSeq(Tail(up[k])) /\ ~(k[2] > conn[k[1]])
  <2>1. IsSeq(up[k])
    BY <1>1 DEF ChannelsOK
  <2>2. IsSeq(Tail(up[k]))
    BY <1>2, <2>1, AfterHead
  <2>3. ~(k[2] > conn[k[1]])
    BY <1>1, <1>2 DEF ChannelsOK
  <2> QED
    BY <2>1, <2>2, <2>3
<1>11. ReadFrom(conn, up0, down)
  <2> HIDE DEF up0
  <2> QED
    BY <1>1, <1>9, <1>10 DEF ReadFrom, ChannelsOK
<1>12. NoneOf({"ADDDCL"}, up[k]) => NoneOf({"ADDDCL"}, Tail(up[k])) /\ h.cmd # "ADDDCL"
  <2>1. NoneOf({"ADDDCL"}, up[k]) => NoneOf({"ADDDCL"}, Tail(up[k])) /\ h.cmd \notin {"ADDDCL"}
    BY <1>2, <1>10, TailTokens DEF h
  <2> QED
    BY <2>1
<1>13. \A x \in Conns : /\ NoneOf({"ADDDCL"}, up[x]) => NoneOf({"ADDDCL"}, up0[x])
                        /\ NoneOf({"FORWARD"}, down[x]) => NoneOf({"FORWARD"}, down[x])
  <2> HIDE DEF up0
  <2> QED
    BY <1>9, <1>12
<1> HIDE DEF up0
<1>14. RoutesOK(br', conn')
  <2>1. RoutesLive(r.b)
    BY <1>1, <1>3, <1>6 DEF RoutesOK
  <2>2. k[2] <= conn[k[1]]
    BY <1>1, <1>3, <1>10, ConnFacts DEF ChannelsOK
  <2>3. \A x \in DOMAIN r.b.lcl_br :
          \/ x \in DOMAIN br[p].lcl_br
          \/ x \in Conns /\ Parent[x[1]] = p /\ x[2] <= conn[x[1]]
    BY <1>6, <2>2
  <2> HIDE DEF p
  <2> QED
    BY <1>1, <1>2, <1>3, <1>7, <2>1, <2>3, RoutesStep
<1> HIDE DEF p
<1>15. GivenUp(br', conn', up', down')
  <2>1. /\ r.b.state # REGISTERED => br[p].state # REGISTERED /\ NoneOf({"ADDDCL"}, r.up)
        /\ \A o \in r.rout : o.m.cmd = "FORWARD" =>
             \E n \in DOMAIN br[p].dist_cli : br[p].dist_cli[n] = o.to
    BY <1>6, <1>8 DEF AlongRoutes
  <2>2. \A n \in DOMAIN r.b.dist_cli :
          \/ n \in DOMAIN br[p].dist_cli /\ r.b.dist_cli[n] = br[p].dist_cli[n]
          \/ ~NoneOf({"ADDDCL"}, up[r.b.dist_cli[n]])
    BY <1>6, <1>12
  <2> QED
    BY <1>1, <1>2, <1>3, <1>7, <1>8, <1>11, <1>13, <2>1, <2>2, GivenUpStep
<1>16. \A x \in Brokers : br'[x].state # CRASHED
  BY <1>1, <1>3, <1>7, <1>8 DEF TimelyInv, BrokersOK
<1> QED
  BY <1>14, <1>15, <1>16

\* A message of the higher broker.
LEMMA ReceiveDownTimely ==
  ASSUME TreeInv, TimelyInv, NEW b \in Lower, ReceiveDown(b)
  PROVE  /\ RoutesOK(br', conn') /\ GivenUp(br', conn', up', down')
         /\ \A x \in Brokers : br'[x].state # CRASHED
<1> DEFINE k == Dealer(b)
           h == Head(down[k])
           down0 == [down EXCEPT ![k] = Tail(@)]
<1>1. BrokersOK(br) /\ ChannelsOK(conn, up, down) /\ RoutesOK(br, conn) /\ GivenUp(br, conn, up, down)
  BY DEF TreeInv, TimelyInv
<1>2. PICK l \in SetToSeqs(DOMAIN br[b].rev_lcl_cli), d \in SetToSeqs(DOMAIN br[b].dist_cli) :
        Finish(b, DealerMsg(br[b], h, l \o d), up, down0)
  BY DEF ReceiveDown
<1> DEFINE r == DealerMsg(br[b], h, l \o d)
<1>3. down[k] # <<>> /\ UNCHANGED conn
  BY DEF ReceiveDown
<1>4. b \in Brokers /\ b # Root /\ k \in Conns /\ k = <<b, conn[b]>>
  BY <1>1, DealerIsConn DEF Lower, Dealer
<1>5. /\ br[b].state # CRASHED /\ Shape(br[b]) /\ FiniteTables(br[b]) /\ br[b].state \in States
  BY <1>1, <1>2, <1>4 DEF Finish, BrokersOK
<1>6. IsSeq(l \o d)
  <2>1. l \in Seq(DOMAIN br[b].rev_lcl_cli)
    BY <1>5, TraversalMeetsAll DEF FiniteTables
  <2>2. d \in Seq(DOMAIN br[b].dist_cli)
    BY <1>5, TraversalMeetsAll DEF FiniteTables
  <2>3. IsSeq(l) /\ IsSeq(d)
    BY <2>1, <2>2, SeqIsSeq
  <2> QED
    BY <2>3, Concat
<1>7. Fit(r)
  BY <1>5, <1>6, DealerFits
<1>8. /\ NoRouteAdded(br[b], r.b)
      /\ \A o \in r.rout : o.m.cmd = "FORWARD" =>
           \E n \in DOMAIN br[b].dist_cli : br[b].dist_cli[n] = o.to
      /\ r.b.state # REGISTERED => br[b].state # REGISTERED /\ NoneOf({"ADDDCL"}, r.up)
      /\ r.b.state = CRASHED => h.cmd = "FORWARD" /\ br[b].state = ROOT
  BY <1>5, DealerAlong
<1>9. /\ br' = [br EXCEPT ![b] = r.b]
      /\ up' = IF b = Root THEN up ELSE [up EXCEPT ![Dealer(b)] = @ \o r.up]
      /\ down' = [x \in Conns |-> down0[x] \o Sent(r.rout, x)]
  BY <1>2 DEF Finish
<1> HIDE DEF r, h
<1>10. /\ down0 = [x \in Conns |-> down0[x]] /\ down0[k] = Tail(down[k])
       /\ \A x \in Conns : x # k => down0[x] = down[x]
  BY <1>1, <1>4 DEF ChannelsOK
<1>11. IsSeq(down[k]) /\ IsSeq(Tail(down[k])) /\ IsSeq(r.up)
  <2>1. IsSeq(down[k])
    BY <1>1, <1>4 DEF ChannelsOK
  <2>2. IsSeq(Tail(down[k]))
    BY <1>3, <2>1, AfterHead
  <2> QED
    BY <1>7, <2>1, <2>2 DEF Fit
<1>12. NoneOf({"FORWARD"}, down[k]) => NoneOf({"FORWARD"}, Tail(down[k])) /\ h.cmd # "FORWARD"
  <2>1. NoneOf({"FORWARD"}, down[k]) => NoneOf({"FORWARD"}, Tail(down[k])) /\ h.cmd \notin {"FORWARD"}
    BY <1>3, <1>11, TailTokens DEF h
  <2> QED
    BY <2>1
<1>13. r.b.state # CRASHED
  BY <1>1, <1>4, <1>8, <1>12 DEF GivenUp, ROOT, REGISTERED
<1> HIDE DEF down0
<1>14. ReadFrom(conn, up, down0)
  <2>1. ~(k[2] # conn[k[1]])
    BY <1>4
  <2> HIDE DEF k
  <2> QED
    BY <1>1, <1>10, <1>11, <2>1 DEF ReadFrom, ChannelsOK
<1>15. \A x \in Conns : /\ NoneOf({"ADDDCL"}, up[x]) => NoneOf({"ADDDCL"}, up[x])
                        /\ NoneOf({"FORWARD"}, down[x]) => NoneOf({"FORWARD"}, down0[x])
  <2> HIDE DEF k
  <2> QED
    BY <1>10, <1>12
<1>16. RoutesOK(br', conn')
  <2>1. RoutesLive(r.b)
    BY <1>1, <1>4, <1>8 DEF RoutesOK, NoRouteAdded
  <2>2. \A x \in DOMAIN r.b.lcl_br :
          \/ x \in DOMAIN br[b].lcl_br
          \/ x \in Conns /\ Parent[x[1]] = b /\ x[2] <= conn[x[1]]
    BY <1>8 DEF NoRouteAdded
  <2> QED
    BY <1>1, <1>3, <1>4, <1>9, <2>1, <2>2, RoutesStep
<1>17. GivenUp(br', conn', up', down')
  <2>1. \A n \in DOMAIN r.b.dist_cli :
          \/ n \in DOMAIN br[b].dist_cli /\ r.b.dist_cli[n] = br[b].dist_cli[n]
          \/ ~NoneOf({"ADDDCL"}, up[r.b.dist_cli[n]])
    BY <1>8 DEF NoRouteAdded
  <2> QED
    BY <1>1, <1>3, <1>4, <1>8, <1>9, <1>11, <1>14, <1>15, <2>1, GivenUpStep
<1>18. \A x \in Brokers : br'[x].state # CRASHED
  BY <1>1, <1>4, <1>9, <1>13 DEF TimelyInv, BrokersOK
<1> QED
  BY <1>16, <1>17, <1>18

\* A broker that opens a new socket is not known by it yet.
LEMMA RegisterTimely ==
  ASSUME TreeInv, TimelyInv, NEW b \in Lower, Register(b)
  PROVE  RoutesOK(br', conn') /\ GivenUp(br', conn', up', down')
<1> DEFINE k == Dealer(b)
           k2 == <<b, conn[b] + 1>>
<1>1. BrokersOK(br) /\ ChannelsOK(conn, up, down) /\ RoutesOK(br, conn) /\ GivenUp(br, conn, up, down)
  BY DEF TreeInv, TimelyInv
<1>2. PICK n \in 0 .. Len(up[k]) :
        up' = [up EXCEPT ![k] = SubSeq(@, 1, n), ![k2] = s_register(br[b]).up]
  BY DEF Register
<1>3. /\ Unregistered(br[b]) /\ conn[b] < MaxConn[b] /\ conn' = [conn EXCEPT ![b] = @ + 1]
      /\ down' = [down EXCEPT ![k] = <<>>] /\ UNCHANGED br
  BY DEF Register
<1>4. /\ conn = [x \in Lower |-> conn[x]] /\ \A x \in Lower : conn[x] \in 0 .. MaxConn[x]
      /\ \A x \in Lower : MaxConn[x] \in Nat
      /\ up = [x \in Conns |-> up[x]] /\ down = [x \in Conns |-> down[x]]
  BY <1>1, ConnFacts DEF ChannelsOK
<1>5. conn'[b] = conn[b] + 1 /\ \A x \in Lower : x # b => conn'[x] = conn[x]
  BY <1>3, <1>4
<1>6. /\ k \in Conns /\ k2 \in Conns /\ k = <<b, conn[b]>> /\ k # k2
      /\ k2[1] = b /\ k2[2] = conn[b] + 1 /\ conn[b] \in Nat
  <2>1. /\ conn[b] \in 0 .. MaxConn[b] /\ conn[b] + 1 \in 0 .. MaxConn[b] /\ conn[b] # conn[b] + 1
        /\ conn[b] \in Nat
    BY <1>3, <1>4
  <2>2. <<b, conn[b]>> \in Conns /\ k2 \in Conns
    BY <2>1, ConnFacts
  <2>3. k = <<b, conn[b]>>
    BY DEF Dealer
  <2> QED
    BY <2>1, <2>2, <2>3
<1>7. s_register(br[b]).up = <<Simple("ADDBR")>>
  BY <1>3 DEF s_register, Result
<1>8. /\ up'[k2] = <<Simple("ADDBR")>> /\ down'[k2] = down[k2]
      /\ \A x \in Conns : x # k /\ x # k2 => up'[x] = up[x]
      /\ \A x \in Conns : x # k => down'[x] = down[x]
  BY <1>2, <1>3, <1>4, <1>6, <1>7
<1> HIDE DEF k, k2
<1>9. down[k2] = <<>>
  BY <1>1, <1>6 DEF ChannelsOK
<1>10. RoutesOK(br', conn')
  <2>1. ASSUME NEW p \in Brokers, NEW x \in DOMAIN br[p].lcl_br
        PROVE  x \in Conns /\ Parent[x[1]] = p /\ x[2] <= conn'[x[1]]
    <3>1. x \in Conns /\ Parent[x[1]] = p /\ x[2] <= conn[x[1]]
      BY <1>1, <2>1 DEF RoutesOK
    <3>2. x[1] \in Lower /\ x[2] \in Nat
      BY <3>1, ConnFacts
    <3> QED
      BY <1>4, <1>5, <3>1, <3>2
  <2> QED
    BY <1>1, <1>3, <2>1 DEF RoutesOK
<1>11. ASSUME NEW x \in Lower, br'[x].state # REGISTERED
       PROVE  LET y == <<x, conn'[x]>> IN
              /\ NoneOf({"ADDDCL"}, up'[y]) /\ NoneOf({"FORWARD"}, down'[y])
              /\ \A n1 \in DOMAIN br'[Parent[x]].dist_cli : br'[Parent[x]].dist_cli[n1] # y
  <2>1. CASE x = b
    <3>1. <<x, conn'[x]>> = k2
      BY <1>5, <2>1 DEF k2
    <3>2. NoneOf({"ADDDCL"}, <<Simple("ADDBR")>>) /\ NoneOf({"FORWARD"}, <<>>)
      BY ShortSeqs DEF Simple
    <3>3. Parent[x] \in Brokers
      BY TreeAssumption
    <3>4. k2 \notin DOMAIN br[Parent[x]].lcl_br
      BY <1>1, <1>6, <3>3 DEF RoutesOK
    <3>5. \A n1 \in DOMAIN br[Parent[x]].dist_cli : br[Parent[x]].dist_cli[n1] # k2
      BY <1>1, <3>3, <3>4 DEF RoutesOK, RoutesLive
    <3> QED
      BY <1>3, <1>8, <1>9, <3>1, <3>2, <3>5
  <2>2. CASE x # b
    <3> DEFINE y == <<x, conn[x]>>
    <3>1. <<x, conn'[x]>> = y /\ y \in Conns
      BY <1>4, <1>5, <2>2, ConnFacts
    <3>2. y # k /\ y # k2
      BY <1>6, <2>2 DEF k2
    <3>3. up'[y] = up[y] /\ down'[y] = down[y] /\ br' = br
      BY <1>3, <1>8, <3>1, <3>2
    <3> QED
      BY <1>1, <1>11, <3>1, <3>3 DEF GivenUp
  <2> QED
    BY <2>1, <2>2
<1> QED
  BY <1>10, <1>11 DEF GivenUp

\* A broker gives the higher one up only when that one does not know it either and
\* nothing is on its way.
LEMMA HeartbeatTimely ==
  ASSUME TreeInv, TimelyInv, Timely = TRUE, NEW b \in Lower, Heartbeat(b)
  PROVE  /\ RoutesOK(br', conn') /\ GivenUp(br', conn', up', down')
         /\ \A x \in Brokers : br'[x].state # CRASHED
<1> DEFINE r == s_heartbeat(br[b])
           k == Dealer(b)
<1>1. /\ BrokersOK(br) /\ ChannelsOK(conn, up, down) /\ RoutesOK(br, conn)
      /\ GivenUp(br, conn, up, down) /\ OneTimer
  BY DEF TreeInv, TimelyInv
<1>2. /\ br[b].heartbeat_loop > 0 /\ Finish(b, r, up, down) /\ UNCHANGED conn
      /\ up[k] = <<>> /\ down[k] = <<>> /\ (br[b].timeout >= Limit => ~Linked(b))
  BY DEF Heartbeat, Idle
<1>3. b \in Brokers /\ b # Root /\ br[b].state # CRASHED
  BY <1>2 DEF Finish, Lower
<1>4. br[b].state = REGISTERED
  BY <1>1, <1>2, <1>3 DEF OneTimer, TimersMatch
<1>5. /\ Fit(r) /\ r.up = <<Simple("PING")>> /\ r.rout = {}
      /\ r.b.dist_cli = br[b].dist_cli /\ r.b.lcl_br = br[b].lcl_br
      /\ \/ br[b].timeout < Limit /\ r.b.state = br[b].state
         \/ br[b].timeout >= Limit /\ r.b.state = ROOT
  BY <1>1, <1>3, HeartbeatFits DEF BrokersOK
<1>6. /\ br' = [br EXCEPT ![b] = r.b]
      /\ up' = IF b = Root THEN up ELSE [up EXCEPT ![Dealer(b)] = @ \o r.up]
      /\ down' = [x \in Conns |-> down[x] \o Sent(r.rout, x)]
  BY <1>2 DEF Finish
<1> HIDE DEF r
<1>7. br'[b] = r.b /\ \A x \in Brokers : x # b => br'[x] = br[x]
  BY <1>1, <1>3, <1>6 DEF BrokersOK
<1>8. \A x \in Brokers : br'[x].dist_cli = br[x].dist_cli /\ br'[x].lcl_br = br[x].lcl_br
  BY <1>5, <1>7
<1>9. RoutesOK(br', conn')
  BY <1>1, <1>2, <1>8 DEF RoutesOK, RoutesLive
<1>10. \A x \in Brokers : br'[x].state # CRASHED
  BY <1>4, <1>5, <1>7 DEF TimelyInv, REGISTERED, ROOT, CRASHED
<1>11. \A x \in Conns :
         up'[x] = IF b # Root /\ x = Dealer(b) THEN up[x] \o r.up ELSE up[x]
  <2>1. up = [x \in Conns |-> up[x]]
    BY <1>1 DEF ChannelsOK
  <2> QED
    BY <1>1, <1>3, <1>6, <2>1, FinishUp
<1>12. \A x \in Conns : down'[x] = down[x]
  <2>1. ASSUME NEW x \in Conns PROVE down'[x] = down[x]
    <3>1. Sent(r.rout, x) = <<>>
      BY <1>5 DEF Sent
    <3>2. IsSeq(down[x])
      BY <1>1 DEF ChannelsOK
    <3>3. down[x] \o <<>> = down[x]
      BY <3>2 DEF IsSeq
    <3> QED
      BY <1>6, <3>1, <3>3
  <2> QED
    BY <2>1
<1>13. ASSUME NEW x \in Lower, br'[x].state # REGISTERED
       PROVE  LET y == <<x, conn'[x]>> IN
              /\ NoneOf({"ADDDCL"}, up'[y]) /\ NoneOf({"FORWARD"}, down'[y])
              /\ \A n \in DOMAIN br'[Parent[x]].dist_cli : br'[Parent[x]].dist_cli[n] # y
  <2> DEFINE y == <<x, conn[x]>>
  <2>1. y \in Conns /\ y = Dealer(x) /\ y[1] = x /\ conn'[x] = conn[x] /\ x \in Brokers
    BY <1>1, <1>2, DealerIsConn DEF Dealer, Lower
  <2>2. Parent[x] \in Brokers
    BY TreeAssumption
  <2>3. down'[y] = down[y] /\ br'[Parent[x]].dist_cli = br[Parent[x]].dist_cli
    BY <1>8, <1>12, <2>1, <2>2
  <2>4. CASE x = b
    <3>1. up'[y] = <<>> \o <<Simple("PING")>> /\ down[y] = <<>>
      BY <1>2, <1>3, <1>5, <1>11, <2>1, <2>4
    <3>2. NoneOf({"ADDDCL"}, <<Simple("PING")>>) /\ NoneOf({"FORWARD"}, <<>>)
      BY ShortSeqs DEF Simple
    <3>3. <<>> \o <<Simple("PING")>> = <<Simple("PING")>>
      OBVIOUS
    <3>4. ~Linked(b)
      BY <1>2, <1>4, <1>5, <1>7, <1>13, <2>4 DEF REGISTERED, ROOT
    <3>5. y \notin DOMAIN br[Parent[x]].lcl_br
      BY <1>4, <2>1, <2>4, <3>4 DEF Linked
    <3>6. \A n \in DOMAIN br[Parent[x]].dist_cli : br[Parent[x]].dist_cli[n] # y
      BY <1>1, <2>2, <3>5 DEF RoutesOK, RoutesLive
    <3> QED
      BY <2>1, <2>3, <3>1, <3>2, <3>3, <3>6
  <2>5. CASE x # b
    <3>1. y # Dealer(b)
      BY <2>5 DEF Dealer
    <3>2. up'[y] = up[y] /\ br'[x] = br[x]
      BY <1>7, <1>11, <2>1, <2>5, <3>1
    <3>3. /\ NoneOf({"ADDDCL"}, up[y]) /\ NoneOf({"FORWARD"}, down[y])
          /\ \A n \in DOMAIN br[Parent[x]].dist_cli : br[Parent[x]].dist_cli[n] # y
      BY <1>1, <1>13, <3>2 DEF GivenUp
    <3> QED
      BY <2>1, <2>3, <3>2, <3>3
  <2> QED
    BY <2>4, <2>5
<1>14. GivenUp(br', conn', up', down')
  BY <1>13 DEF GivenUp
<1> QED
  BY <1>9, <1>10, <1>14

\* A broker that is started again knows no routes, and waits to be registered.
LEMMA CrashTimely ==
  ASSUME TreeInv, TimelyInv, NEW b \in MayCrash, Crash(b)
  PROVE  /\ RoutesOK(br', conn') /\ GivenUp(br', conn', up', down')
         /\ \A x \in Brokers : br'[x].state # CRASHED
<1> DEFINE c == NewBroker(IF b = Root THEN ROOT ELSE UNREG)
<1>1. BrokersOK(br) /\ ChannelsOK(conn, up, down) /\ RoutesOK(br, conn) /\ GivenUp(br, conn, up, down)
  BY DEF TreeInv, TimelyInv
<1>2. /\ b # Root => conn[b] < MaxConn[b]
      /\ br' = [br EXCEPT ![b] = c]
      /\ conn' = IF b = Root THEN conn ELSE [conn EXCEPT ![b] = @ + 1]
      /\ down' = [k \in Conns |-> IF k[1] = b THEN <<>> ELSE down[k]]
      /\ \A k \in Conns : up'[k] \in {up[k], <<>>}
  BY DEF Crash
<1>3. b \in Brokers /\ (b # Root => b \in Lower) /\ Root \notin Lower
  BY TreeAssumption DEF Lower
<1>4. c.state = (IF b = Root THEN ROOT ELSE UNREG) /\ DOMAIN c.lcl_br = {} /\ DOMAIN c.dist_cli = {}
  BY <1>3, NewBrokerFits
<1> HIDE DEF c
<1>5. br'[b] = c /\ \A x \in Brokers : x # b => br'[x] = br[x]
  BY <1>1, <1>2, <1>3 DEF BrokersOK
<1>6. \A x \in Brokers : br'[x].state # CRASHED
  BY <1>4, <1>5 DEF TimelyInv, UNREG, ROOT, CRASHED
<1>7. /\ \A x \in Lower : conn[x] \in Nat
      /\ \A x \in Lower : conn'[x] = IF x = b THEN conn[x] + 1 ELSE conn[x]
  <2>1. conn = [x \in Lower |-> conn[x]] /\ \A x \in Lower : conn[x] \in 0 .. MaxConn[x]
    BY <1>1 DEF ChannelsOK
  <2> QED
    BY <1>2, <1>3, <2>1
<1>8. RoutesOK(br', conn')
  <2>1. ASSUME NEW p \in Brokers
        PROVE  /\ RoutesLive(br'[p])
               /\ \A x \in DOMAIN br'[p].lcl_br :
                    x \in Conns /\ Parent[x[1]] = p /\ x[2] <= conn'[x[1]]
    <3>1. CASE p = b
      BY <1>4, <1>5, <3>1 DEF RoutesLive
    <3>2. CASE p # b
      <4>1. br'[p] = br[p]
        BY <1>5, <3>2
      <4>2. ASSUME NEW x \in DOMAIN br[p].lcl_br
            PROVE  x \in Conns /\ Parent[x[1]] = p /\ x[2] <= conn'[x[1]]
        <5>1. x \in Conns /\ Parent[x[1]] = p /\ x[2] <= conn[x[1]] /\ x[1] \in Lower /\ x[2] \in Nat
          BY <1>1, <4>2, ConnFacts DEF RoutesOK
        <5>2. conn[x[1]] \in Nat /\ conn'[x[1]] \in {conn[x[1]], conn[x[1]] + 1}
          BY <1>7, <5>1
        <5> QED
          BY <5>1, <5>2
      <4> QED
        BY <1>1, <4>1, <4>2 DEF RoutesOK
    <3> QED
      BY <3>1, <3>2
  <2> QED
    BY <2>1 DEF RoutesOK
<1>9. ASSUME NEW x \in Lower, br'[x].state # REGISTERED
      PROVE  LET y == <<x, conn'[x]>> IN
             /\ NoneOf({"ADDDCL"}, up'[y]) /\ NoneOf({"FORWARD"}, down'[y])
             /\ \A n \in DOMAIN br'[Parent[x]].dist_cli : br'[Parent[x]].dist_cli[n] # y
  <2> DEFINE y == <<x, conn[x]>>
  <2>1. CASE x = b
    <3> DEFINE z == <<x, conn[x] + 1>>
    <3>1. /\ conn'[x] = conn[x] + 1 /\ conn[x] \in Nat /\ x # Root
          /\ conn[x] < MaxConn[x] /\ MaxConn[x] \in Nat /\ Parent[x] \in Brokers
      BY <1>2, <1>3, <1>7, <2>1, ConnFacts, TreeAssumption
    <3>2. conn[x] + 1 \in 0 .. MaxConn[x]
      BY <3>1
    <3>3. z \in Conns /\ z[1] = x /\ z[2] = conn[x] + 1 /\ z[2] > conn[x]
      BY <3>1, <3>2, ConnFacts
    <3>4. up[z] = <<>>
      BY <1>1, <3>3 DEF ChannelsOK
    <3>5. up'[z] = <<>> /\ down'[z] = <<>>
      BY <1>2, <2>1, <3>3, <3>4
    <3>6. \A n \in DOMAIN br'[Parent[x]].dist_cli : br'[Parent[x]].dist_cli[n] # z
      <4>1. DOMAIN br'[Parent[x]].dist_cli = {} \/ br'[Parent[x]] = br[Parent[x]]
        BY <1>4, <1>5, <3>1
      <4>2. z \notin DOMAIN br[Parent[x]].lcl_br
        BY <1>1, <3>1, <3>3 DEF RoutesOK
      <4> QED
        BY <1>1, <3>1, <4>1, <4>2 DEF RoutesOK, RoutesLive
    <3> QED
      BY <3>1, <3>5, <3>6, ShortSeqs
  <2> SUFFICES ASSUME x # b
               PROVE  LET z == <<x, conn'[x]>> IN
                      /\ NoneOf({"ADDDCL"}, up'[z]) /\ NoneOf({"FORWARD"}, down'[z])
                      /\ \A n \in DOMAIN br'[Parent[x]].dist_cli : br'[Parent[x]].dist_cli[n] # z
    BY <2>1
  <2>11. x \in Brokers
    BY DEF Lower
  <2>2. y \in Conns /\ y[1] = x /\ conn'[x] = conn[x] /\ br'[x] = br[x]
    BY <1>1, <1>5, <1>7, <2>11, DealerIsConn DEF Dealer
  <2>3. /\ NoneOf({"ADDDCL"}, up[y]) /\ NoneOf({"FORWARD"}, down[y])
        /\ \A n \in DOMAIN br[Parent[x]].dist_cli : br[Parent[x]].dist_cli[n] # y
    BY <1>1, <1>9, <2>2 DEF GivenUp
  <2>4. up'[y] \in {up[y], <<>>} /\ down'[y] = down[y]
    BY <1>2, <2>2
  <2>5. NoneOf({"ADDDCL"}, <<>>)
    BY ShortSeqs
  <2>6. Parent[x] \in Brokers
    BY TreeAssumption
  <2>7. DOMAIN br'[Parent[x]].dist_cli = {} \/ br'[Parent[x]] = br[Parent[x]]
    BY <1>4, <1>5, <2>6
  <2> QED
    BY <2>2, <2>3, <2>4, <2>5, <2>7
<1> QED
  BY <1>6, <1>8, <1>9 DEF GivenUp

\* The history of crashes stays within its bound.
LEMMA BoundedHistory ==
  /\ <<>> \in BoundedSeq(MayCrash, MaxCrash)
  /\ \A s \in BoundedSeq(MayCrash, MaxCrash), b \in MayCrash :
       Len(s) < MaxCrash => Append(s, b) \in BoundedSeq(MayCrash, MaxCrash)
<1>1. MaxCrash \in Nat
  BY TreeAssumption
<1>2. <<>> \in BoundedSeq(MayCrash, MaxCrash)
  <2>1. <<>> \in [1 .. 0 -> MayCrash] /\ 0 \in 0 .. MaxCrash
    BY <1>1
  <2> QED
    BY <2>1 DEF BoundedSeq, SeqOf
<1>3. ASSUME NEW s \in BoundedSeq(MayCrash, MaxCrash), NEW b \in MayCrash, Len(s) < MaxCrash
      PROVE  Append(s, b) \in BoundedSeq(MayCrash, MaxCrash)
  <2>1. PICK m \in 0 .. MaxCrash : s \in [1 .. m -> MayCrash]
    BY DEF BoundedSeq, SeqOf
  <2>2. s \in Seq(MayCrash) /\ Len(s) = m
    BY <1>1, <2>1
  <2> DEFINE t == Append(s, b)
  <2>3. t \in Seq(MayCrash) /\ Len(t) = m + 1 /\ m + 1 \in 0 .. MaxCrash
    BY <1>1, <1>3, <2>2
  <2> HIDE DEF t
  <2>4. t \in [1 .. (m + 1) -> MayCrash]
    BY <2>3
  <2>5. t \in BoundedSeq(MayCrash, MaxCrash)
    BY <2>3, <2>4 DEF BoundedSeq, SeqOf
  <2> QED
    BY <2>5 DEF t
<1> QED
  BY <1>2, <1>3

\* TimelyInv holds to begin with.
LEMMA InitTimely == Init => TimelyInv
<1> SUFFICES ASSUME Init PROVE TimelyInv
  OBVIOUS
<1>1. \A b \in Brokers : br[b] = NewBroker(IF b = Root THEN ROOT ELSE UNREG)
  BY DEF Init
<1>2. \A b \in Brokers : /\ br[b].state = (IF b = Root THEN ROOT ELSE UNREG)
                         /\ DOMAIN br[b].lcl_br = {} /\ DOMAIN br[b].dist_cli = {}
  BY <1>1, NewBrokerFits
<1>3. RoutesOK(br, conn) /\ GivenUp(br, conn, up, down)
  <2>1. RoutesOK(br, conn)
    BY <1>2 DEF RoutesOK, RoutesLive
  <2>2. ASSUME NEW b \in Lower
        PROVE  LET k == <<b, conn[b]>> IN
               /\ NoneOf({"ADDDCL"}, up[k]) /\ NoneOf({"FORWARD"}, down[k])
               /\ \A x \in DOMAIN br[Parent[b]].dist_cli : br[Parent[b]].dist_cli[x] # k
    <3>1. conn[b] = 0 /\ MaxConn[b] \in Nat /\ Parent[b] \in Brokers
      BY ConnFacts, TreeAssumption DEF Init
    <3>2. <<b, conn[b]>> \in Conns
      BY <3>1, ConnFacts
    <3>3. up[<<b, conn[b]>>] = <<>> /\ down[<<b, conn[b]>>] = <<>>
      BY <3>2 DEF Init
    <3> QED
      BY <1>2, <3>1, <3>3, ShortSeqs
  <2> QED
    BY <2>1, <2>2 DEF GivenUp
<1>4. \A b \in Brokers : br[b].state # CRASHED
  BY <1>2 DEF UNREG, ROOT, CRASHED
<1>5. joined \subseteq Clients /\ crashes \in BoundedSeq(MayCrash, MaxCrash)
  BY BoundedHistory DEF Init
<1> QED
  BY <1>3, <1>4, <1>5 DEF TimelyInv

\* Every step keeps it when answers are timely.
LEMMA NextTimely ==
  ASSUME Timely = TRUE
  PROVE  TreeInv /\ TimelyInv /\ [Next]_vars => TimelyInv'
<1> SUFFICES ASSUME TreeInv, TimelyInv, [Next]_vars PROVE TimelyInv'
  OBVIOUS
<1> DEFINE Kept == /\ RoutesOK(br', conn') /\ GivenUp(br', conn', up', down')
                   /\ \A x \in Brokers : br'[x].state # CRASHED
<1>1. \A b \in Brokers : Shape(br[b]) /\ FiniteTables(br[b])
  BY DEF TreeInv, BrokersOK
<1>2. \A c \in Clients : Home[c] \in Brokers
  BY TreeAssumption
<1>3. joined \subseteq Clients /\ crashes \in BoundedSeq(MayCrash, MaxCrash)
  BY DEF TimelyInv
<1>4. ASSUME Kept, joined' \subseteq Clients, crashes' = crashes PROVE TimelyInv'
  BY <1>3, <1>4 DEF TimelyInv
<1>5. ASSUME NEW c \in Clients, Join(c) PROVE TimelyInv'
  <2> DEFINE b == Home[c]
             r == s_cb_challok_client(br[b], c, NameOf[c][1], Tail(NameOf[c]))
  <2>1. Finish(b, r, up, down) /\ UNCHANGED conn /\ joined' \subseteq Clients /\ crashes' = crashes
    BY <1>3, <1>5 DEF Join
  <2>2. Tame(br[b], r, c)
    BY <1>1, <1>2, RegistrationsTame
  <2>3. NoRouteAdded(br[b], r.b) /\ AlongRoutes(br[b], r)
    BY <1>1, <1>2, ClientsAlong
  <2> HIDE DEF r
  <2>4. IsSeq(r.up) /\ r.b.state = br[b].state
    BY <2>2 DEF Tame, SameScalars
  <2>5. Kept
    BY <1>2, <2>1, <2>3, <2>4, CalmTimely
  <2> QED
    BY <1>4, <2>1, <2>5
<1>6. ASSUME NEW c \in Clients, Leave(c) PROVE TimelyInv'
  <2> DEFINE b == Home[c]
             r == s_cb_unreg_cli(br[b], c, NameOf[c][1])
  <2>1. Finish(b, r, up, down) /\ UNCHANGED conn /\ joined' \subseteq Clients /\ crashes' = crashes
    BY <1>3, <1>6 DEF Leave
  <2>2. Calm(br[b], r)
    BY <1>1, <1>2, ClientsCalm
  <2>3. NoRouteAdded(br[b], r.b) /\ AlongRoutes(br[b], r)
    BY <1>1, <1>2, ClientsAlong
  <2> HIDE DEF r
  <2>4. IsSeq(r.up) /\ r.b.state = br[b].state
    <3>1. Tame(br[b], r, c)
      BY <2>2, CalmTame
    <3> QED
      BY <3>1 DEF Tame, SameScalars
  <2>5. Kept
    BY <1>2, <2>1, <2>3, <2>4, CalmTimely
  <2> QED
    BY <1>4, <2>1, <2>5
<1>7. ASSUME NEW c \in Clients, NEW d \in Clients, Notify(c, d) PROVE TimelyInv'
  <2> DEFINE b == Home[c]
             r == s_cb_send(br[b], c, NameOf[c][1], Tail(NameOf[d]))
  <2>1. Finish(b, r, up, down) /\ UNCHANGED conn /\ joined' \subseteq Clients /\ crashes' = crashes
    BY <1>3, <1>7 DEF Notify
  <2>2. Calm(br[b], r)
    BY <1>1, <1>2, ClientsCalm
  <2>3. NoRouteAdded(br[b], r.b) /\ AlongRoutes(br[b], r)
    BY <1>1, <1>2, ClientsAlong
  <2> HIDE DEF r
  <2>4. IsSeq(r.up) /\ r.b.state = br[b].state
    <3>1. Tame(br[b], r, c)
      BY <2>2, CalmTame
    <3> QED
      BY <3>1 DEF Tame, SameScalars
  <2>5. Kept
    BY <1>2, <2>1, <2>3, <2>4, CalmTimely
  <2> QED
    BY <1>4, <2>1, <2>5
<1>8. ASSUME NEW c \in Clients, Forgotten(c) PROVE TimelyInv'
  BY <1>8 DEF Forgotten, TimelyInv
<1>9. ASSUME NEW b \in Brokers, CheckBrTimeout(b) PROVE TimelyInv'
  <2>1. PICK order \in SetToSeqs(Behind(br[b], SilentBrokers(br[b]))) :
          Finish(b, s_check_br_timeout(br[b], order), up, down)
    BY <1>9 DEF CheckBrTimeout
  <2> DEFINE r == s_check_br_timeout(br[b], order)
             S == Behind(br[b], SilentBrokers(br[b]))
  <2>2. UNCHANGED <<conn, joined, crashes>>
    BY <1>9 DEF CheckBrTimeout
  <2>3. IsSeq(order)
    <3>1. S \subseteq DOMAIN br[b].dist_cli
      BY DEF Behind
    <3>2. IsFiniteSet(S)
      BY <1>1, <3>1, FS_Subset DEF FiniteTables
    <3> HIDE DEF S
    <3>3. order \in Seq(S)
      BY <2>1, <3>2, TraversalMeetsAll DEF S
    <3> QED
      BY <3>3, SeqIsSeq
  <2>4. Calm(br[b], r)
    BY <1>1, <2>3, BrokersCalm
  <2>5. NoRouteAdded(br[b], r.b) /\ AlongRoutes(br[b], r) /\ r.b.state = br[b].state
    BY <1>1, TimeoutAlong
  <2>6. Finish(b, r, up, down)
    BY <2>1
  <2> HIDE DEF r
  <2>7. IsSeq(r.up)
    BY <2>4 DEF Calm, Plain
  <2>8. Kept
    BY <2>2, <2>5, <2>6, <2>7, CalmTimely
  <2> QED
    BY <1>3, <1>4, <2>2, <2>8
<1>10. ASSUME NEW k \in Conns, ReceiveUp(k) PROVE TimelyInv'
  <2>1. Kept
    BY <1>10, ReceiveUpTimely
  <2>2. UNCHANGED <<joined, crashes>>
    BY <1>10 DEF ReceiveUp
  <2> QED
    BY <1>3, <1>4, <2>1, <2>2
<1>11. ASSUME NEW b \in Lower, ReceiveDown(b) PROVE TimelyInv'
  <2>1. Kept
    BY <1>11, ReceiveDownTimely
  <2>2. UNCHANGED <<joined, crashes>>
    BY <1>11 DEF ReceiveDown
  <2> QED
    BY <1>3, <1>4, <2>1, <2>2
<1>12. ASSUME NEW b \in Lower, Register(b) PROVE TimelyInv'
  <2>1. RoutesOK(br', conn') /\ GivenUp(br', conn', up', down')
    BY <1>12, RegisterTimely
  <2>2. UNCHANGED <<br, joined, crashes>>
    BY <1>12 DEF Register
  <2>3. \A x \in Brokers : br'[x].state # CRASHED
    BY <2>2 DEF TimelyInv
  <2> QED
    BY <1>3, <1>4, <2>1, <2>2, <2>3
<1>13. ASSUME NEW b \in Lower, Heartbeat(b) PROVE TimelyInv'
  <2>1. Kept
    BY <1>13, HeartbeatTimely
  <2>2. UNCHANGED <<joined, crashes>>
    BY <1>13 DEF Heartbeat
  <2> QED
    BY <1>3, <1>4, <2>1, <2>2
<1>14. ASSUME NEW b \in MayCrash, Crash(b) PROVE TimelyInv'
  <2>1. Kept
    BY <1>14, CrashTimely
  <2>2. Len(crashes) < MaxCrash /\ crashes' = Append(crashes, b) /\ joined' = joined
    BY <1>14 DEF Crash
  <2>3. crashes' \in BoundedSeq(MayCrash, MaxCrash)
    BY <1>3, <2>2, BoundedHistory
  <2> QED
    BY <1>3, <2>1, <2>2, <2>3 DEF TimelyInv
<1>15. CASE UNCHANGED vars
  BY <1>15 DEF vars, TimelyInv
<1> QED
  BY <1>5, <1>6, <1>7, <1>8, <1>9, <1>10, <1>11, <1>12, <1>13, <1>14, <1>15 DEF Next

\* When answers come before the tick that would give up, no message makes a
\* broker's process die, in any tree, with any clients, crashes and restarts: a
\* broker that has given up the one above it is not sent a message for a client
\* that it would not know what to do with.
THEOREM BrokersSurvive ==
  ASSUME Timely = TRUE
  PROVE  Spec => []TypeOK
<1>1. TreeInv /\ TimelyInv => TypeOK
  <2> SUFFICES ASSUME TreeInv, TimelyInv PROVE TypeOK
    OBVIOUS
  <2>1. \A b \in Brokers : br[b].state \in {UNREG, ROOT, REGISTERED}
    BY DEF TreeInv, BrokersOK, TimelyInv, States
  <2>2. /\ \A b \in Lower : conn[b] \in 0 .. MaxConn[b]
        /\ DOMAIN up = Conns /\ DOMAIN down = Conns
    BY DEF TreeInv, ChannelsOK
  <2> QED
    BY <2>1, <2>2 DEF TypeOK, TimelyInv
<1>2. TreeInv /\ TimelyInv /\ [Next]_vars => TimelyInv'
  BY NextTimely
<1> QED
  BY <1>1, <1>2, InitTimely, TreeInvariant, PTL DEF Spec
=============================================================================
