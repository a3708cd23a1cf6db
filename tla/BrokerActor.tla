---------------------------- MODULE BrokerActor -----------------------------
(***************************************************************************)
(* The life of a broker process: the application (main of ddbroker, or a   *)
(* program using the library) configures a broker and starts it as an      *)
(* actor; the broker's thread binds its sockets, starts a second thread    *)
(* for the REST interface and runs its loop; the REST thread answers       *)
(* requests by walking the broker's tables while the loop changes them.    *)
(* They end by an interrupt, which every loop notices for itself, or by    *)
(* zactor_destroy.                                                         *)
(*                                                                         *)
(* An actor's thread sends a signal on its pipe when its function returns  *)
(* and then closes the pipe.  zactor_destroy sends "$TERM" and, if the     *)
(* pipe was still open, waits for the signal.                              *)
(***************************************************************************)
EXTENDS Endpoints

CONSTANTS
  Addresses,     \* router addresses the operator may configure
  Routes,        \* the HTTP requests that arrive
  Tables,        \* the tables json_get_stats walks, in its order
  Freed,         \* those whose nodes are freed when they are removed
  Lists,         \* those whose nodes have a list: subs, with sn->topics
  Nodes,         \* keys of a table, as numbers in the order of the table
  MaxRouters     \* bound: router addresses of one broker

ASSUME ActorAssumption ==
  /\ Routes \subseteq {"/stats", "/stop", "/keys", "other"}
  /\ Tables \in Seq({"dist", "local", "brokers", "subs"}) /\ Tables # <<>>
  /\ Nodes \subseteq Nat \ {0}

VARIABLES
  conf,      \* the configuration: rstrings, keys, scope, reststr
  main,      \* where the application's thread is
  broker,    \* where the broker's thread is
  rest,      \* where the REST thread is
  toBroker, toMain,    \* the pipe between application and broker
  toRest, toAct,       \* the pipe between broker and REST thread
  interrupted,         \* zsys_interrupted
  http,      \* self->http, shared by both threads
  held,      \* what the broker's thread read of it
  table,     \* the tables
  walk,      \* the walk of json_get_stats
  alive,     \* s_self_destroy has not begun
  files,     \* the socket files in the file system
  outcome,   \* how the process ended, or "running"
  stopped    \* history: the REST thread ended by a request

threads == <<main, broker, rest>>
pipes == <<toBroker, toMain, toRest, toAct>>
shared == <<http, held, table, walk, alive>>
vars == <<conf, threads, pipes, interrupted, shared, files, outcome, stopped>>

NoConf == [rstrings |-> <<>>, keys |-> FALSE, scope |-> FALSE, reststr |-> FALSE]
NoWalk == [at |-> 0, node |-> 0, next |-> 0, listed |-> {}, always |-> {}, ever |-> {},
           inside |-> FALSE, dangling |-> FALSE, torn |-> FALSE]
EmptyTables == [t \in {Tables[i] : i \in DOMAIN Tables} |-> {}]

Fresh ==
  /\ conf = NoConf
  /\ main = "options" /\ broker = "none" /\ rest = "none"
  /\ toBroker = <<>> /\ toMain = <<>> /\ toRest = <<>> /\ toAct = <<>>
  /\ interrupted = FALSE
  /\ http = "null" /\ held = FALSE
  /\ table = EmptyTables /\ walk = NoWalk /\ alive = TRUE
  /\ outcome = "running" /\ stopped = FALSE

Init == Fresh /\ files = {}

\* The whole process is gone, by exit, a signal or a fault; the socket files it
\* has made stay, the last of them in left.
ExitLeaving(how, left) ==
  /\ outcome' = how
  /\ files' = files \cup left
  /\ UNCHANGED <<conf, threads, pipes, interrupted, shared, stopped>>

Exit(how) == ExitLeaving(how, {})

(***************************************************************************)
(* The application.                                                        *)
(***************************************************************************)
Configure(new) ==
  /\ main = "options" /\ outcome = "running" /\ conf' = new
  /\ UNCHANGED <<threads, pipes, interrupted, shared, files, outcome, stopped>>

dd_broker_add_router == \E e \in Addresses :
  /\ Len(conf.rstrings) < MaxRouters
  /\ Configure([conf EXCEPT !.rstrings = Append(@, e)])

dd_broker_set_keyfile == ~conf.keys /\ Configure([conf EXCEPT !.keys = TRUE])
dd_broker_set_scope == Configure([conf EXCEPT !.scope = TRUE])
dd_broker_set_rest == Configure([conf EXCEPT !.reststr = TRUE])

\* An option on the command line, or a line of the configuration file, which is
\* read where the command line names it.
Option == dd_broker_add_router \/ dd_broker_set_keyfile \/ dd_broker_set_scope \/ dd_broker_set_rest

dd_broker_ready == conf.keys /\ conf.rstrings # <<>> /\ conf.scope

dd_broker_actor ==
  /\ main = "options" /\ outcome = "running"
  /\ IF dd_broker_ready
     THEN /\ main' = "running" /\ broker' = "bind"
          /\ UNCHANGED <<conf, rest, pipes, interrupted, shared, files, outcome, stopped>>
     ELSE Exit("usage")

\* The signal reaches every loop of the process.
Interrupt ==
  /\ main = "running" /\ ~interrupted /\ outcome = "running"
  /\ interrupted' = TRUE
  /\ UNCHANGED <<conf, threads, pipes, shared, files, outcome, stopped>>

\* zactor_destroy, after the loop of main has been interrupted or because the
\* application has finished with the broker.
Destroy ==
  /\ main = "running" /\ outcome = "running"
  /\ IF broker = "closed"
     THEN main' = "ended" /\ UNCHANGED toBroker
     ELSE main' = "waiting" /\ toBroker' = Append(toBroker, "$TERM")
  /\ UNCHANGED <<conf, broker, rest, toMain, toRest, toAct, interrupted, shared,
                 files, outcome, stopped>>

Collected ==
  /\ main = "waiting" /\ toMain # <<>> /\ outcome = "running"
  /\ main' = "ended" /\ toMain' = Tail(toMain)
  /\ UNCHANGED <<conf, broker, rest, toBroker, toRest, toAct, interrupted, shared,
                 files, outcome, stopped>>

Return == main = "ended" /\ outcome = "running" /\ Exit("ended")

(***************************************************************************)
(* The broker's thread.                                                    *)
(***************************************************************************)
BrokerAt(pc) == broker = pc /\ outcome = "running"

bind_router ==
  /\ BrokerAt("bind")
  /\ IF IpcFiles(conf.rstrings) \cap files # {} THEN Exit("exists")
     ELSE IF ~CanBind(conf.rstrings, {})
     THEN ExitLeaving("failed", IpcFiles(BoundBefore(conf.rstrings, {})))
     ELSE /\ files' = files \cup IpcFiles(conf.rstrings)
          /\ broker' = "spawn"
          /\ UNCHANGED <<conf, main, rest, pipes, interrupted, shared, outcome, stopped>>

\* zactor_new returns when the REST thread has sent its first signal.
Spawn ==
  /\ BrokerAt("spawn")
  /\ broker' = "pubsub"
  /\ rest' = IF conf.reststr THEN "http" ELSE rest
  /\ UNCHANGED <<conf, main, pipes, interrupted, shared, files, outcome, stopped>>

\* Mutant of start_pubsub: does not see that an address cannot be bound.
StartPubsubUnchecked ==
  /\ BrokerAt("pubsub")
  /\ broker' = "linger"
  /\ UNCHANGED <<conf, main, rest, pipes, interrupted, shared, files, outcome, stopped>>

start_pubsub ==
  LET pubs == Mapped(pub_string, conf.rstrings)
      subs == Mapped(sub_string, conf.rstrings)
      routers == {conf.rstrings[i] : i \in DOMAIN conf.rstrings}
  IN /\ BrokerAt("pubsub")
     /\ IF (IpcFiles(pubs) \cup IpcFiles(subs)) \cap files # {} THEN Exit("exists")
        ELSE IF \E e \in routers : ~Derivable(e) THEN Exit("failed")
        ELSE IF ~CanBind(pubs \o subs, routers)
        THEN ExitLeaving("failed", IpcFiles(BoundBefore(pubs \o subs, routers)))
        ELSE /\ files' = files \cup IpcFiles(pubs) \cup IpcFiles(subs)
             /\ broker' = "linger"
             /\ UNCHANGED <<conf, main, rest, pipes, interrupted, shared, outcome, stopped>>

\* if (self->http) ... zsock_set_linger(self->http, 0): on a socket destroyed in
\* between, the process may die.
ReadHttp ==
  /\ BrokerAt("linger")
  /\ held' = (http = "open") /\ broker' = "lingering"
  /\ UNCHANGED <<conf, main, rest, pipes, interrupted, http, table, walk, alive,
                 files, outcome, stopped>>

SetLinger ==
  /\ BrokerAt("lingering")
  /\ \/ held /\ http # "open" /\ Exit("linger")
     \/ /\ broker' = "loop" /\ held' = FALSE
        /\ UNCHANGED <<conf, main, rest, pipes, interrupted, http, table, walk, alive,
                       files, outcome, stopped>>

\* The handlers, as far as the REST thread can tell: entries come and go.  A
\* walk whose iterator points to a node that is freed is left with the pointer.
Insert(t, n) ==
  /\ BrokerAt("loop") /\ ~interrupted /\ n \notin table[t]
  /\ table' = [table EXCEPT ![t] = @ \cup {n}]
  /\ walk' = IF walk.at > 0 /\ Tables[walk.at] = t
             THEN [walk EXCEPT !.ever = @ \cup {n}] ELSE walk
  /\ UNCHANGED <<conf, threads, pipes, interrupted, http, held, alive,
                 files, outcome, stopped>>

\* Taking a subscription away goes over the list of its node and frees it, so the
\* list too may be found in use.
Remove(t, n) ==
  /\ BrokerAt("loop") /\ ~interrupted /\ n \in table[t]
  /\ \/ walk.inside /\ Tables[walk.at] = t /\ n = walk.node /\ Exit("list")
     \/ /\ table' = [table EXCEPT ![t] = @ \ {n}]
        /\ walk' = IF walk.at > 0 /\ Tables[walk.at] = t
                   THEN [walk EXCEPT !.always = @ \ {n},
                                     !.dangling = @ \/ (t \in Freed /\ n \in {walk.node, walk.next})]
                   ELSE walk
        /\ UNCHANGED <<conf, threads, pipes, interrupted, http, held, alive,
                       files, outcome, stopped>>

\* insert_subscription on a node that is there goes over its list and may append
\* to it.  A list has one cursor for all who go over it, and a thread that finds it
\* moved between two of its steps may use a null pointer.
Change(t, n) ==
  /\ BrokerAt("loop") /\ ~interrupted /\ walk.inside /\ Tables[walk.at] = t /\ n = walk.node
  /\ n \in table[t]
  /\ \/ Exit("list")
     \/ /\ walk' = [walk EXCEPT !.torn = TRUE]
        /\ UNCHANGED <<conf, threads, pipes, interrupted, http, held, table, alive,
                       files, outcome, stopped>>

\* A message of the application.  The frame is compared as a string although
\* nothing ends it, so "$TERM" may not be recognised.
s_on_pipe_msg == \E recognised \in BOOLEAN :
  /\ BrokerAt("loop") /\ ~interrupted /\ toBroker # <<>>
  /\ toBroker' = Tail(toBroker)
  /\ broker' = IF recognised THEN "reap" ELSE broker
  /\ UNCHANGED <<conf, main, rest, toMain, toRest, toAct, interrupted, shared,
                 files, outcome, stopped>>

\* The end of the REST thread is an unknown command to the same handler.
ActSignal ==
  /\ BrokerAt("loop") /\ ~interrupted /\ toAct # <<>>
  /\ toAct' = Tail(toAct)
  /\ UNCHANGED <<conf, threads, toBroker, toMain, toRest, interrupted, shared,
                 files, outcome, stopped>>

LoopEnds ==
  /\ BrokerAt("loop") /\ interrupted
  /\ broker' = "reap"
  /\ UNCHANGED <<conf, main, rest, pipes, interrupted, shared, files, outcome, stopped>>

\* Mutant of Reap: the broker does not wait for the REST thread.
ReapWithoutWaiting ==
  /\ BrokerAt("reap")
  /\ broker' = "destroy" /\ toRest' = Append(toRest, "$TERM")
  /\ UNCHANGED <<conf, main, rest, toBroker, toMain, toAct, interrupted, shared,
                 files, outcome, stopped>>

\* Mutant of Reap: whether there is a REST thread is not asked.
ReapAlways ==
  /\ BrokerAt("reap")
  /\ broker' = "reaping" /\ toRest' = Append(toRest, "$TERM")
  /\ UNCHANGED <<conf, main, rest, toBroker, toMain, toAct, interrupted, shared,
                 files, outcome, stopped>>

\* zactor_destroy(&act)
Reap ==
  /\ BrokerAt("reap")
  /\ IF rest \in {"none", "closed"}
     THEN broker' = "destroy" /\ UNCHANGED toRest
     ELSE broker' = "reaping" /\ toRest' = Append(toRest, "$TERM")
  /\ UNCHANGED <<conf, main, rest, toBroker, toMain, toAct, interrupted, shared,
                 files, outcome, stopped>>

Reaped ==
  /\ BrokerAt("reaping") /\ toAct # <<>>
  /\ broker' = "destroy" /\ toAct' = Tail(toAct)
  /\ UNCHANGED <<conf, main, rest, toBroker, toMain, toRest, interrupted, shared,
                 files, outcome, stopped>>

\* Sockets are closed and the tables destroyed.  A socket's file is removed by a
\* thread of the library, which may not have come to it when the process ends.
s_self_destroy ==
  LET all == conf.rstrings \o Mapped(pub_string, conf.rstrings)
                           \o Mapped(sub_string, conf.rstrings)
  IN /\ BrokerAt("destroy")
     /\ alive' = FALSE /\ table' = EmptyTables /\ http' = "null"
     /\ files' \in {files \ removed : removed \in SUBSET IpcFiles(all)}
     /\ broker' = "destroyed"
     /\ UNCHANGED <<conf, main, rest, pipes, interrupted, held, walk, outcome, stopped>>

BrokerReturns ==
  \/ /\ BrokerAt("destroyed") /\ broker' = "signalled" /\ toMain' = Append(toMain, "signal")
     /\ UNCHANGED <<conf, main, rest, toBroker, toRest, toAct, interrupted, shared,
                    files, outcome, stopped>>
  \/ /\ BrokerAt("signalled") /\ broker' = "closed"
     /\ UNCHANGED <<conf, main, rest, pipes, interrupted, shared, files, outcome, stopped>>

(***************************************************************************)
(* The REST thread.                                                        *)
(***************************************************************************)
RestAt(pc) == rest = pc /\ outcome = "running"

\* start_httpd_gc: the socket is made, and destroyed if it cannot be bound.
OpenHttp ==
  /\ RestAt("http") /\ http' = "open" /\ rest' = "binding"
  /\ UNCHANGED <<conf, main, broker, pipes, interrupted, held, table, walk, alive,
                 files, outcome, stopped>>

BindHttp == \E bound \in BOOLEAN :
  /\ RestAt("binding") /\ rest' = "loop"
  /\ http' = IF bound THEN "open" ELSE "null"
  /\ UNCHANGED <<conf, main, broker, pipes, interrupted, held, table, walk, alive,
                 files, outcome, stopped>>

\* The node after n in a table, or 0.
After(t, n) ==
  LET later == {x \in table[t] : x > n} IN IF later = {} THEN 0 ELSE Min(later)

\* The iterator has a node and the next one; nodes removed since are passed over.
At(w, t, n) ==
  LET m == IF n \in table[t] \cup {0} THEN n ELSE After(t, n)
  IN [w EXCEPT !.node = m, !.next = IF m = 0 THEN 0 ELSE After(t, m)]

\* cds_lfht_first
First(i) ==
  At([NoWalk EXCEPT !.at = i, !.always = table[Tables[i]], !.ever = table[Tables[i]]],
     Tables[i], After(Tables[i], 0))

\* s_on_http
s_on_http(route) ==
  /\ RestAt("loop") /\ http = "open" /\ ~interrupted
  /\ rest' = CASE route = "/stats" -> "walk" [] route = "/stop" -> "end" [] OTHER -> "loop"
  /\ walk' = IF route = "/stats" THEN First(1) ELSE walk
  /\ stopped' = (stopped \/ route = "/stop")
  /\ UNCHANGED <<conf, main, broker, pipes, interrupted, http, held, table, alive,
                 files, outcome>>

\* Mutant of Visit: moves on before it has listed the node.
VisitSkips ==
  LET w == At(walk, Tables[walk.at], walk.next) IN
  /\ RestAt("walk") /\ walk.node > 0
  /\ walk' = [w EXCEPT !.listed = @ \cup ({w.node} \ {0}), !.inside = FALSE, !.torn = FALSE]
  /\ UNCHANGED <<conf, threads, pipes, interrupted, http, held, table, alive,
                 files, outcome, stopped>>

\* zlist_first(sn->topics)
Enter ==
  /\ RestAt("walk") /\ walk.node > 0 /\ Tables[walk.at] \in Lists /\ ~walk.inside
  /\ \/ walk.dangling /\ Exit("walk")
     \/ /\ walk' = [walk EXCEPT !.inside = TRUE]
        /\ UNCHANGED <<conf, threads, pipes, interrupted, http, held, table, alive,
                       files, outcome, stopped>>

\* The end of one turn of a loop of json_get_stats: the iterator's node is listed,
\* removed or not, and cds_lfht_next.  A node that was freed is read all the same,
\* and a list that was changed read on: the process may die of either.
Visit ==
  /\ RestAt("walk") /\ walk.node > 0 /\ (Tables[walk.at] \in Lists => walk.inside)
  /\ \/ (walk.dangling \/ walk.torn) /\ Exit("walk")
     \/ /\ walk' = At([walk EXCEPT !.listed = @ \cup {walk.node}, !.inside = FALSE, !.torn = FALSE],
                      Tables[walk.at], walk.next)
        /\ UNCHANGED <<conf, threads, pipes, interrupted, http, held, table, alive,
                       files, outcome, stopped>>

\* The end of one table: the next one, or the answer.
NextTable ==
  /\ RestAt("walk") /\ walk.node = 0
  /\ IF walk.at < Len(Tables)
     THEN walk' = First(walk.at + 1) /\ UNCHANGED rest
     ELSE walk' = NoWalk /\ rest' = "loop"
  /\ UNCHANGED <<conf, main, broker, pipes, interrupted, http, held, table, alive,
                 files, outcome, stopped>>

s_gc_pipe_msg ==
  /\ RestAt("loop") /\ ~interrupted /\ toRest # <<>>
  /\ toRest' = Tail(toRest) /\ rest' = "end"
  /\ UNCHANGED <<conf, main, broker, toBroker, toMain, toAct, interrupted, shared,
                 files, outcome, stopped>>

RestLoopEnds ==
  /\ RestAt("loop") /\ interrupted /\ rest' = "end"
  /\ UNCHANGED <<conf, main, broker, pipes, interrupted, shared, files, outcome, stopped>>

RestReturns ==
  \/ /\ RestAt("end") /\ rest' = "signalled" /\ toAct' = Append(toAct, "signal")
     /\ UNCHANGED <<conf, main, broker, toBroker, toMain, toRest, interrupted, shared,
                    files, outcome, stopped>>
  \/ /\ RestAt("signalled") /\ rest' = "closed"
     /\ UNCHANGED <<conf, main, broker, pipes, interrupted, shared, files, outcome, stopped>>

(***************************************************************************)
(* The operator.                                                           *)
(***************************************************************************)
Kill == main # "options" /\ outcome = "running" /\ Exit("killed")

Restart ==
  /\ outcome # "running"
  /\ conf' = NoConf
  /\ main' = "options" /\ broker' = "none" /\ rest' = "none"
  /\ toBroker' = <<>> /\ toMain' = <<>> /\ toRest' = <<>> /\ toAct' = <<>>
  /\ interrupted' = FALSE
  /\ http' = "null" /\ held' = FALSE
  /\ table' = EmptyTables /\ walk' = NoWalk /\ alive' = TRUE
  /\ outcome' = "running" /\ stopped' = FALSE
  /\ UNCHANGED files

MainSteps == dd_broker_actor \/ Collected \/ Return \/ (interrupted /\ Destroy)
BrokerSteps ==
  \/ bind_router \/ Spawn \/ start_pubsub \/ ReadHttp \/ SetLinger
  \/ s_on_pipe_msg \/ ActSignal \/ LoopEnds \/ Reap \/ Reaped \/ s_self_destroy \/ BrokerReturns
RestSteps ==
  \/ OpenHttp \/ BindHttp \/ Enter \/ Visit \/ NextTable \/ s_gc_pipe_msg \/ RestLoopEnds \/ RestReturns

Next ==
  \/ Option
  \/ Interrupt \/ Destroy \/ MainSteps
  \/ BrokerSteps
  \/ \E i \in DOMAIN Tables, n \in Nodes :
       Insert(Tables[i], n) \/ Remove(Tables[i], n) \/ Change(Tables[i], n)
  \/ RestSteps
  \/ \E route \in Routes : s_on_http(route)
  \/ Kill \/ Restart

Spec == Init /\ [][Next]_vars

\* Every thread runs on.
LSpec == Spec /\ WF_vars(MainSteps) /\ WF_vars(BrokerSteps) /\ WF_vars(RestSteps)

(***************************************************************************)
(* Properties.                                                             *)
(***************************************************************************)
\* The REST thread has no access to the broker any more when s_self_destroy
\* frees its tables, its socket and the broker itself, however the two loops
\* were ended.
DestroyedLast == ~alive => rest \notin {"http", "binding", "loop", "walk"}

\* What GET /stats lists of a table is what was there: every entry present
\* during the whole walk, and none that was never present during it.
StatsRight ==
  rest = "walk" /\ walk.node = 0 /\ ~walk.dangling =>
    walk.always \subseteq walk.listed /\ walk.listed \subseteq walk.ever

\* Every router address of a running broker has its pub/sub addresses where a
\* broker below, which derives them from that router address, looks for them,
\* and no two of the sockets have the same one.
PubSubWhereExpected ==
  broker = "loop" /\ outcome = "running" =>
    \A i, j \in DOMAIN conf.rstrings :
      LET e == conf.rstrings[i] f == conf.rstrings[j] IN
      /\ sub_connect(e) = pub_string(e) /\ pub_connect(e) = sub_string(e)
      /\ sub_connect(e)[1] = "tcp" => sub_connect(e)[2] <= MaxPort /\ pub_connect(e)[2] <= MaxPort
      /\ pub_string(e) # sub_string(f) /\ f \notin {pub_string(e), sub_string(e)}

\* An interrupted process ends: no thread waits for one that has gone.  The
\* exception is a REST thread ended by GET /stop, whose signal the broker's loop
\* takes for an unknown command, so that nothing is left to wait for.
InterruptEnds == interrupted ~> (outcome # "running" \/ stopped)
=============================================================================
