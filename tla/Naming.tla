------------------------------- MODULE Naming -------------------------------
(***************************************************************************)
(* How the broker turns the strings a client supplies into the strings it  *)
(* routes on.  A dotted string is the sequence of its dot-free labels:     *)
(* "t1.c" is <<"t1", "c">>, so strchr(s,'.')+1 is Tail(s) and              *)
(* snprintf("%s.%s", a, b) is <<a>> \o b.  A topic with a scope is its     *)
(* labels, the label "/" and the scope numbers: "t1.alarm/1/2/3/" is       *)
(* <<"t1", "alarm", "/", "1", "2", "3">>, and "t1.alarm" (no scope) has no *)
(* "/" label.                                                              *)
(***************************************************************************)
EXTENDS Naturals, Sequences

CONSTANTS
  Tenants,      \* names in the key file (keys->tenants), "public" among them
  Labels,       \* the dot-free strings in use
  StartsWith    \* <<a, b>> : the string a starts with the string b

ASSUME NamingAssumption ==
  /\ "public" \in Tenants
  /\ Tenants \subseteq Labels
  /\ "/" \notin Labels
  /\ StartsWith \subseteq Labels \X Labels
  /\ \A a \in Labels : <<a, a>> \in StartsWith

(***************************************************************************)
(* Client names.                                                           *)
(***************************************************************************)
PrefixName(tenant, name) == <<tenant>> \o name

\* strncmp(s, "public.", 7) == 0
IsPublic(s) == Len(s) > 1 /\ s[1] = "public"

\* The loop over keys->tenants: some tenant's name begins the text before
\* the first dot of dest (a prefix comparison, not an equality).
NamesATenant(dest) ==
  Len(dest) > 1 /\ \E k \in Tenants : <<dest[1], k>> \in StartsWith

\* Mutant of Resolve: any client may write another tenant's name.
ResolveForAll(tenant, dest) ==
  IF IsPublic(dest) \/ NamesATenant(dest) THEN dest ELSE PrefixName(tenant, dest)

\* dst_string of s_cb_send for a client of the given tenant.
Resolve(tenant, dest) ==
  IF IsPublic(dest) \/ (tenant = "public" /\ NamesATenant(dest))
  THEN dest
  ELSE PrefixName(tenant, dest)

\* Mutant of Shown: the tenant is always stripped.
ShownStripped(src, dst) == Tail(src)

\* The source name a receiver is shown: the tenant is stripped unless exactly
\* one of the two ends is public.
Shown(src, dst) == IF IsPublic(src) = IsPublic(dst) THEN Tail(src) ELSE src

\* What README.md promises of tenants: the same tenant, or one end is public.
SameWorld(src, dst) ==
  src[1] = dst[1] \/ src[1] = "public" \/ dst[1] = "public"

(***************************************************************************)
(* Topics.                                                                 *)
(***************************************************************************)
\* newscope of s_cb_sub and s_cb_unsub: "*" stands for the broker's own number
\* at that position; "noscope" leaves the topic bare.
ScopeOf(scope, brscope) ==
  IF scope = <<"noscope">> THEN <<>>
  ELSE <<"/">> \o [j \in DOMAIN scope |-> IF scope[j] = "*" THEN brscope[j]
                                                           ELSE scope[j]]

SubTopic(tenant, topic, scope, brscope) ==
  PrefixName(tenant, topic) \o ScopeOf(scope, brscope)

\* Mutant of PubTopic: a topic that names a tenant is taken as it is, as Resolve
\* does for a public client.
PubTopicUnprefixed(tenant, topic, unscoped, brscope) ==
  (IF IsPublic(topic) \/ NamesATenant(topic) THEN topic ELSE PrefixName(tenant, topic))
    \o (IF unscoped THEN <<>> ELSE <<"/">> \o brscope)

\* pubtopic of s_cb_pub; unscoped is a trailing '$' in the client's topic.
PubTopic(tenant, topic, unscoped, brscope) ==
  (IF IsPublic(topic) THEN topic ELSE PrefixName(tenant, topic))
    \o (IF unscoped THEN <<>> ELSE <<"/">> \o brscope)

Scoped(topic) == \E i \in DOMAIN topic : topic[i] = "/"

\* The trie's match: the subscription is a string prefix of the publication.
\* A scope number is always followed by '/', so only the last label of a bare
\* subscription can match a longer label.
Matches(sub, pub) ==
  LET n == Len(sub) IN
  /\ n <= Len(pub)
  /\ \A i \in 1 .. (n - 1) : sub[i] = pub[i]
  /\ sub[n] = pub[n] \/ (~Scoped(sub) /\ <<pub[n], sub[n]>> \in StartsWith)
=============================================================================
