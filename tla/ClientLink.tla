----------------------------- MODULE ClientLink -----------------------------
(***************************************************************************)
(* A client (Client) and the broker it registers with (BrokerHandlers),    *)
(* with the messages between them.  A dealer socket is a reliable FIFO     *)
(* channel in both directions.  The client closes its socket with every    *)
(* attempt to register: what the broker has not received may be lost, and  *)
(* the answers on the old socket are lost.  The new socket has an identity *)
(* the broker does not know.                                               *)
(***************************************************************************)
EXTENDS BrokerHandlers, SequencesExt

CONSTANTS
  Tenant, ClientName,
  Calls,           \* what the application may ask of the client
  MaxCalls,        \* bound: calls of the application
  MaxTrouble       \* bound: restarts of the broker or the client, and ticks that come
                   \* before an answer that is on its way

ASSUME LinkAssumption ==
  /\ Tenant \in Tenants /\ Sockids # {}
  /\ \A m \in Calls : m.call \in {"subscribe", "unsubscribe", "publish", "notify"}
  /\ MaxCalls \in Nat /\ MaxTrouble \in Nat

C == INSTANCE Client WITH HeartbeatLimit <- Limit

VARIABLES
  br,       \* the broker, a root
  cl,       \* the client
  sock,     \* the client's dealer socket
  up, down, \* messages on their way to the broker and back, by socket
  skipped,  \* history: since the client last renewed all its subscriptions a loop
            \* on its list may have passed over an entry
  calls, trouble

vars == <<br, cl, sock, up, down, skipped, calls, trouble>>

Key(s) == <<s, Tenant>>

Init ==
  /\ br = NewBroker(ROOT)
  /\ cl = C!NewClient
  /\ sock = CHOOSE s \in Sockids : TRUE
  /\ up = [s \in Sockids |-> <<>>]
  /\ down = [s \in Sockids |-> <<>>]
  /\ skipped = FALSE
  /\ calls = 0 /\ trouble = 0

Idle == up[sock] = <<>> /\ down[sock] = <<>>

\* The broker has the client under its present socket.
Held == HasLocal(br, Key(sock))

\* Nothing of socket s is left anywhere: it may stand for a new identity.
Unused(s) ==
  /\ s # sock /\ up[s] = <<>> /\ ~HasLocal(br, Key(s))
  /\ \A t \in DOMAIN br.topics_trie : s \notin br.topics_trie[t].sockids

\* A loop on the list starts behind the cursor, and passes over what is before it.
Loop == skipped' = (skipped \/ cl.cursor > 0)

\* One subscription is on the list twice: the loop of sublist_add has passed over it.
Doubled(list) == \E i, j \in DOMAIN list :
  i # j /\ list[i].topic = list[j].topic /\ list[i].scope = list[j].scope

Trouble == trouble < MaxTrouble /\ trouble' = trouble + 1

\* A tick that falls at an unlikely moment is slow: it counts as trouble.
InTime(likely) == IF likely THEN UNCHANGED trouble ELSE Trouble

(***************************************************************************)
(* The client.                                                             *)
(***************************************************************************)
\* The client writes r.out to its socket.
Write(r, down0) ==
  /\ cl' = r.c
  /\ up' = [up EXCEPT ![sock] = @ \o r.out]
  /\ down' = down0

\* The client closes its socket after writing last to it, and opens another one
\* to which it writes first.
Reopen(last, first) ==
  \E s \in Sockids : \E n \in 0 .. Len(up[sock] \o last) :
    /\ Unused(s) /\ s = CHOOSE x \in Sockids : Unused(x)
    /\ sock' = s
    /\ up' = [up EXCEPT ![sock] = SubSeq(@ \o last, 1, n), ![s] = first]
    /\ down' = [down EXCEPT ![sock] = <<>>]

AskRegistration ==
  LET r == C!s_ask_registration(cl) IN
  /\ cl.registration_loop > 0 /\ ~C!Registered(cl)
  /\ InTime(Idle)
  /\ cl' = r.c
  /\ Reopen(<<>>, r.out)
  /\ UNCHANGED <<br, skipped, calls>>

Heartbeat ==
  /\ cl.heartbeat_loop > 0
  /\ InTime(Idle /\ (cl.timeout >= Limit => ~Held))
  /\ Write(C!s_heartbeat(cl), down)
  /\ IF cl.timeout >= Limit THEN Loop ELSE UNCHANGED skipped
  /\ UNCHANGED <<br, sock, calls>>

Ping ==
  /\ cl.pings > 0
  /\ Write(C!s_ping(cl), down)
  /\ UNCHANGED <<br, sock, skipped, calls, trouble>>

DealerMsg ==
  /\ down[sock] # <<>>
  /\ Write(C!s_on_dealer_msg(cl, Head(down[sock])), [down EXCEPT ![sock] = Tail(@)])
  /\ CASE Head(down[sock]).cmd = "REGOK" -> skipped' = (cl.cursor > 0 \/ Doubled(cl.sublist))
       [] Head(down[sock]).cmd = "SUBOK" -> Loop
       [] OTHER -> UNCHANGED skipped
  /\ UNCHANGED <<br, sock, calls, trouble>>

PipeMsg == \E m \in Calls :
  /\ calls < MaxCalls /\ calls' = calls + 1
  /\ Write(C!s_on_pipe_msg(cl, m), down)
  /\ IF m.call = "subscribe" THEN Loop ELSE UNCHANGED skipped
  /\ UNCHANGED <<br, sock, trouble>>

\* The application ends and is started again under the same name.
RestartClient ==
  LET r == C!dd_destroy(cl) IN
  /\ Trouble
  /\ cl' = r.c /\ skipped' = FALSE
  /\ Reopen(r.out, <<>>)
  /\ UNCHANGED <<br, calls>>

(***************************************************************************)
(* The broker.                                                             *)
(***************************************************************************)
\* s_cb_addlcl: the tenant's key is known, and the client is challenged.
s_cb_addlcl(b, s) == Result(b, <<>>, To(s, Chall(s)))

RouterMsg(s, m) ==
  CASE m.cmd = "ADDLCL" -> s_cb_addlcl(br, s)
    [] m.cmd = "CHALLOK" -> s_cb_challok_client(br, s, Tenant, ClientName)
    [] m.cmd = "PING" -> s_cb_ping(br, s, Tenant)
    [] m.cmd = "SUB" -> s_cb_sub(br, s, Tenant, m.topic, m.scope)
    [] m.cmd = "UNSUB" -> s_cb_unsub(br, s, Tenant, m.topic, m.scope)
    [] m.cmd = "PUB" -> s_cb_pub(br, s, Tenant, m.topic, FALSE)
    [] m.cmd = "SEND" -> s_cb_send(br, s, Tenant, m.dest)
    [] m.cmd = "UNREG" -> s_cb_unreg_cli(br, s, Tenant)

\* What is written for a socket that has been closed is discarded.
ReceiveUp == \E s \in Sockids :
  /\ up[s] # <<>>
  /\ LET r == RouterMsg(s, Head(up[s]))
     IN /\ br' = r.b
        /\ down' = [down EXCEPT ![sock] = @ \o SetToSeq({o.m : o \in {x \in r.rout : x.to = sock}})]
  /\ up' = [up EXCEPT ![s] = Tail(@)]
  /\ UNCHANGED <<cl, sock, skipped, calls, trouble>>

\* A client that is registered, or about to learn that it is, is heard in time.
Present(k) ==
  k = Key(sock) /\ (C!Registered(cl) \/ \E i \in DOMAIN down[sock] : down[sock][i].cmd = "REGOK")

CheckCliTimeout ==
  /\ DOMAIN br.lcl_cli # {}
  /\ InTime(\A k \in SilentClients(br) : ~Present(k))
  /\ br' = s_check_cli_timeout(br, <<>>).b
  /\ UNCHANGED <<cl, sock, up, down, skipped, calls>>

\* The broker dies and is started again; what was on its way to it is lost or
\* reaches the new process.
Crash ==
  /\ Trouble
  /\ br' = NewBroker(ROOT)
  /\ \E keep \in BOOLEAN : up' = IF keep THEN up ELSE [s \in Sockids |-> <<>>]
  /\ UNCHANGED <<cl, sock, down, skipped, calls>>

Next ==
  \/ AskRegistration \/ Heartbeat \/ Ping \/ DealerMsg
  \/ PipeMsg \/ RestartClient
  \/ ReceiveUp \/ CheckCliTimeout \/ Crash

\* Messages arrive and timers fire; strong fairness for the ticks whose guard
\* only says at which moments they may fall.
Fairness ==
  /\ WF_vars(DealerMsg) /\ WF_vars(Ping) /\ WF_vars(ReceiveUp) /\ WF_vars(AskRegistration)
  /\ SF_vars(Heartbeat) /\ SF_vars(CheckCliTimeout)

Spec == Init /\ [][Next]_vars /\ Fairness

(***************************************************************************)
(* Properties.                                                             *)
(***************************************************************************)
\* The client asks for registration exactly while it is not registered, and
\* counts heartbeats exactly while it is: neither timer is started twice nor
\* ended without the other one starting, whatever is late, lost or restarted.
OneLoop ==
  /\ cl.registration_loop = (IF C!Registered(cl) THEN 0 ELSE 1)
  /\ cl.heartbeat_loop = (IF C!Registered(cl) THEN 1 ELSE 0)

\* While client and broker agree that the client is registered, a PING, its PONG
\* or the timer for the next PING exists: the chain each PONG continues is never
\* lost, so neither side gives the other up without reason.
PingChain ==
  C!Registered(cl) /\ Held =>
    \/ cl.pings > 0
    \/ \E i \in DOMAIN up[sock] : up[sock][i].cmd = "PING"
    \/ \E i \in DOMAIN down[sock] : down[sock][i].cmd = "PONG"

BrokerTopic(item) == SubTopic(Tenant, item.topic, item.scope, Scope)

\* The client's list of subscriptions says what the broker delivers to it.
Agreed ==
  \A i \in DOMAIN cl.sublist :
    cl.sublist[i].active /\ ~FreshInTrie(br, sock, BrokerTopic(cl.sublist[i]))

\* "Get a list of topics the client is subscribed to" (include/dd.h): once nothing
\* is on its way between a registered client and its broker, each subscription on
\* the client's list is marked active and in the broker's trie for the client's
\* present socket.
SubscribedAsListed == C!Registered(cl) /\ Held /\ Idle => Agreed

\* The same while the loops on the list have begun at its first entry: then no
\* order of calls, answers, time-outs and restarts separates list and trie.
SubscriptionsHeld == C!Registered(cl) /\ Held /\ Idle /\ ~skipped => Agreed

\* After the last crash, restart and slow answer the client is registered under
\* its name at the broker and stays so, and has its subscriptions unless a loop on
\* its list has passed over them.
Served ==
  C!Registered(cl) /\ Held /\ (skipped \/ \A i \in DOMAIN cl.sublist : cl.sublist[i].active)
EventuallyServed == <>[]Served
=============================================================================
