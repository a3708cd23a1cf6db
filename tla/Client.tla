------------------------------- MODULE Client -------------------------------
(***************************************************************************)
(* The client library (src/lib/client.c) and its list of subscriptions     *)
(* (src/lib/sublist.c).  A callback or an API call returns the client's    *)
(* new state c and out, the messages it writes to its dealer socket.  In   *)
(* an actor (ddactor_new) API calls arrive on a pipe and run in the same   *)
(* zloop as the callbacks, so each is one step.                            *)
(***************************************************************************)
EXTENDS Naturals, Sequences, SequencesExt

CONSTANT HeartbeatLimit   \* silent heartbeats tolerated: the 3 of s_heartbeat

NewClient ==
  [state |-> "UNREG",
   timeout |-> 0,
   registration_loop |-> 1,   \* running timers of each kind
   heartbeat_loop |-> 0,
   pings |-> 0,               \* one-shot timers that will send a PING
   sublist |-> <<>>,          \* [topic, scope, active], the newest first
   cursor |-> 0]              \* the entry of sublist where its cursor stands

Result(c, out) == [c |-> c, out |-> out]
Msg(cmd) == [cmd |-> cmd]
TopicMsg(cmd, topic, scope) == [cmd |-> cmd, topic |-> topic, scope |-> scope]
Registered(c) == c.state = "REGISTERED"
IfRegistered(c, msgs) == IF Registered(c) THEN msgs ELSE <<>>

(***************************************************************************)
(* The list of subscriptions is a czmq list with a cursor, which is 0      *)
(* before the first entry and after the last one.  The loops on the list   *)
(* are "while (item = zlistx_next(list))": they begin behind the cursor,   *)
(* wherever it is, and leave it at 0.                                      *)
(***************************************************************************)
SetActive(c, Chosen(_), active) ==
  LET list == c.sublist IN
  [c EXCEPT !.sublist = [i \in DOMAIN list |->
                           IF i > c.cursor /\ Chosen(list[i])
                           THEN [list[i] EXCEPT !.active = active] ELSE list[i]],
            !.cursor = 0]

\* zlistx_add_start leaves the cursor where the loop has left it.
sublist_add(c, topic, scope, active) ==
  LET Same(item) == item.topic = topic /\ item.scope = scope IN
  IF \E i \in DOMAIN c.sublist : i > c.cursor /\ Same(c.sublist[i])
  THEN SetActive(c, Same, active)
  ELSE [c EXCEPT !.sublist = <<[topic |-> topic, scope |-> scope, active |-> active]>> \o @,
                 !.cursor = 0]

\* s_sublist_cmp compares the topics only.  zlistx_find moves the cursor to the entry
\* it finds, and zlistx_delete to the one before that.
sublist_delete(c, topic, scope) ==
  LET i == SelectInSeq(c.sublist, LAMBDA item : item.topic = topic) IN
  IF i = 0 THEN c ELSE [c EXCEPT !.sublist = RemoveAt(@, i), !.cursor = i - 1]

sublist_activate(c, topic, scope) ==
  SetActive(c, LAMBDA item : item.topic = topic /\ item.scope = scope, TRUE)

sublist_deactivate_all(c) == SetActive(c, LAMBDA item : TRUE, FALSE)

\* Mutant of sublist_resubscribe: leaves out what is marked active already.
ResubscribeInactive(c) ==
  LET ahead == SubSeq(c.sublist, c.cursor + 1, Len(c.sublist))
      missing == SelectSeq(ahead, LAMBDA item : ~item.active)
  IN Result([c EXCEPT !.cursor = 0],
            [i \in DOMAIN missing |-> TopicMsg("SUB", missing[i].topic, missing[i].scope)])

sublist_resubscribe(c) ==
  LET ahead == SubSeq(c.sublist, c.cursor + 1, Len(c.sublist))
  IN Result([c EXCEPT !.cursor = 0],
            [i \in DOMAIN ahead |-> TopicMsg("SUB", ahead[i].topic, ahead[i].scope)])

(***************************************************************************)
(* The API.                                                                *)
(***************************************************************************)
\* The words for scopes; anything else is taken as a scope in itself.
ScopeStr(scope) ==
  CASE scope = "all" -> <<>>
    [] scope = "region" -> <<"*">>
    [] scope = "cluster" -> <<"*", "*">>
    [] scope = "node" -> <<"*", "*", "*">>
    [] OTHER -> <<scope>>

dd_subscribe(c, topic, scope) ==
  LET str == ScopeStr(scope) IN
  Result(sublist_add(c, topic, str, FALSE),
         IfRegistered(c, <<TopicMsg("SUB", topic, str)>>))

dd_unsubscribe(c, topic, scope) ==
  LET str == ScopeStr(scope) IN
  Result(sublist_delete(c, topic, str),
         IfRegistered(c, <<TopicMsg("UNSUB", topic, str)>>))

\* The payload is encrypted with a key (Keys) and the next nonce, registered or not.
dd_publish(c, topic) == Result(c, IfRegistered(c, <<[cmd |-> "PUB", topic |-> topic]>>))
dd_notify(c, target) == Result(c, IfRegistered(c, <<[cmd |-> "SEND", dest |-> target]>>))

\* The calls of an actor's application, except for $TERM.
s_on_pipe_msg(c, m) ==
  CASE m.call = "subscribe" -> dd_subscribe(c, m.topic, m.scope)
    [] m.call = "unsubscribe" -> dd_unsubscribe(c, m.topic, m.scope)
    [] m.call = "publish" -> dd_publish(c, m.topic)
    [] m.call = "notify" -> dd_notify(c, m.target)

\* The client says goodbye if it is registered, and is gone.
dd_destroy(c) == Result(NewClient, IfRegistered(c, <<Msg("UNREG")>>))

(***************************************************************************)
(* Timers.                                                                 *)
(***************************************************************************)
s_ping(c) == Result([c EXCEPT !.pings = @ - 1], IfRegistered(c, <<Msg("PING")>>))

\* Mutant of s_heartbeat: the registration timer is not started.
HeartbeatGivesUp(c) ==
  LET c1 == [c EXCEPT !.timeout = @ + 1] IN
  Result(IF c1.timeout > HeartbeatLimit
         THEN sublist_deactivate_all([c1 EXCEPT !.state = "UNREG", !.heartbeat_loop = @ - 1])
         ELSE c1, <<>>)

s_heartbeat(c) ==
  LET c1 == [c EXCEPT !.timeout = @ + 1] IN
  Result(IF c1.timeout > HeartbeatLimit
         THEN sublist_deactivate_all([c1 EXCEPT !.state = "UNREG", !.heartbeat_loop = @ - 1,
                                                !.registration_loop = @ + 1])
         ELSE c1, <<>>)

\* Sent on a new socket; the old one is closed.
s_ask_registration(c) == Result(c, IF Registered(c) THEN <<>> ELSE <<Msg("ADDLCL")>>)

(***************************************************************************)
(* Messages from the broker (s_on_dealer_msg): any of them shows that the  *)
(* broker is there.                                                        *)
(***************************************************************************)
Heard(c) == [c EXCEPT !.timeout = 0]

\* What a REGOK starts, with the registration timers that still run after it.
StartHeartbeat(c, timers) ==
  [Heard(c) EXCEPT !.state = "REGISTERED", !.heartbeat_loop = @ + 1, !.registration_loop = timers]

\* Mutant of cb_regok: the registration timer goes on.
RegokKeepsAsking(c) ==
  LET r == sublist_resubscribe(StartHeartbeat(c, c.registration_loop))
  IN Result(r.c, <<Msg("PING")>> \o r.out)

\* Mutant of cb_regok: the first PING is not sent.
RegokWithoutPing(c) ==
  sublist_resubscribe(StartHeartbeat(c, IF c.registration_loop > 0 THEN c.registration_loop - 1 ELSE 0))

\* zloop_timer_end ends the timer whose id the client remembers.
cb_regok(c) ==
  LET r == sublist_resubscribe(
             StartHeartbeat(c, IF c.registration_loop > 0 THEN c.registration_loop - 1 ELSE 0))
  IN Result(r.c, <<Msg("PING")>> \o r.out)

cb_pong(c) == Result([Heard(c) EXCEPT !.pings = @ + 1], <<>>)

cb_chall(c) == Result(Heard(c), <<Msg("CHALLOK")>>)

cb_subok(c, topic, scope) ==
  Result(sublist_activate(Heard(c), topic, scope), <<>>)

\* The application is told; the client's state does not change.
cb_error(c) == Result(Heard(c), <<>>)
cb_data(c) == Result(Heard(c), <<>>)
cb_pub(c) == Result(Heard(c), <<>>)

s_on_dealer_msg(c, m) ==
  CASE m.cmd = "CHALL" -> cb_chall(c)
    [] m.cmd = "REGOK" -> cb_regok(c)
    [] m.cmd = "PONG" -> cb_pong(c)
    [] m.cmd = "SUBOK" -> cb_subok(c, m.topic, m.scope)
    [] m.cmd = "DATA" -> cb_data(c)
    [] m.cmd = "PUB" -> cb_pub(c)
    [] m.cmd \in {"REGFAIL", "NODST"} -> cb_error(c)
    [] OTHER -> Result(Heard(c), <<>>)   \* unexpected: logged
=============================================================================
