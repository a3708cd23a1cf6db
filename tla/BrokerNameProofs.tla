-------------------------- MODULE BrokerNameProofs --------------------------
(***************************************************************************)
(* Proofs about one name in a tree of brokers whose answers are timely and *)
(* whose higher brokers form no circle: the only client of a name is not   *)
(* refused while no broker below the root crashes, and what the higher     *)
(* broker routes to a lower one is what that one has.                      *)
(*                                                                         *)
(* The argument is about one name n at a time.  Its way leads from the     *)
(* broker of its only client up to the root.  Every route of n leads back  *)
(* along that way, only brokers on it speak of n, and the messages on      *)
(* their way up from a registered broker announce and retract n in turn:   *)
(* they lead from what the higher broker routes now to what the lower one  *)
(* has now.  So no announcement ever meets another route, and nobody has a *)
(* reason to refuse one.                                                   *)
(***************************************************************************)
EXTENDS BrokerTreeProofs

(***************************************************************************)
(* The tree.                                                               *)
(***************************************************************************)
\* Parent leads to the root: no broker is above itself.
Acyclic == \E depth \in [Brokers -> Nat] : \A b \in Lower : depth[Parent[b]] < depth[b]

\* A set of brokers that holds, with every broker, the one above it.
Upward(S) == \A y \in S \cap Lower : Parent[y] \in S

\* Broker b is x or above x.
Above(x, b) == \A S \in SUBSET Brokers : x \in S /\ Upward(S) => b \in S

\* Above is the order in which Parent leads to the root.
LEMMA AboveSteps ==
  ASSUME NEW x \in Brokers
  PROVE  /\ Above(x, x)
         /\ \A b \in Lower : Above(x, b) => Above(x, Parent[b])
         /\ \A b : Above(x, b) => b \in Brokers
<1>1. Above(x, x)
  BY DEF Above
<1>2. ASSUME NEW b \in Lower, Above(x, b) PROVE Above(x, Parent[b])
  BY <1>2 DEF Above, Upward
<1>3. ASSUME NEW b, Above(x, b) PROVE b \in Brokers
  <2>1. Brokers \in SUBSET Brokers /\ Upward(Brokers)
    BY TreeAssumption DEF Upward
  <2> QED
    BY <1>3, <2>1 DEF Above
<1> QED
  BY <1>1, <1>2, <1>3

\* What is above x is x itself or above the broker above x.
LEMMA AboveSplits ==
  ASSUME NEW x \in Lower, NEW b, Above(x, b)
  PROVE  b = x \/ Above(Parent[x], b)
<1> DEFINE p == Parent[x]
           S == {x} \cup {y \in Brokers : Above(p, y)}
<1>1. p \in Brokers /\ x \in Brokers
  BY TreeAssumption DEF Lower
<1>2. ASSUME NEW y \in S \cap Lower PROVE Parent[y] \in S
  <2>1. Parent[y] \in Brokers
    BY TreeAssumption
  <2>2. Above(p, Parent[y])
    BY <1>1, <1>2, AboveSteps
  <2> QED
    BY <2>1, <2>2
<1>3. S \in SUBSET Brokers /\ x \in S /\ Upward(S)
  BY <1>1, <1>2 DEF Upward
<1>4. b \in S
  BY <1>3 DEF Above
<1> QED
  BY <1>4

\* Nothing above a broker is below it.
LEMMA AboveDepth ==
  ASSUME Acyclic, NEW x \in Brokers, NEW b \in Lower, Above(x, b)
  PROVE  ~Above(Parent[b], b) /\ Parent[b] # x
<1>1. PICK depth \in [Brokers -> Nat] : \A y \in Lower : depth[Parent[y]] < depth[y]
  BY DEF Acyclic
<1>2. ASSUME NEW z \in Brokers, NEW y, Above(z, y) PROVE y \in Brokers /\ depth[y] <= depth[z]
  <2> DEFINE S == {v \in Brokers : depth[v] <= depth[z]}
  <2>1. ASSUME NEW v \in S \cap Lower PROVE Parent[v] \in S
    <3>1. Parent[v] \in Brokers /\ depth[Parent[v]] < depth[v] /\ depth[v] <= depth[z] /\ v \in Brokers
      BY <1>1, TreeAssumption
    <3>2. depth[Parent[v]] \in Nat /\ depth[v] \in Nat /\ depth[z] \in Nat
      BY <3>1
    <3>3. depth[Parent[v]] <= depth[z]
      BY <3>1, <3>2
    <3> QED
      BY <3>1, <3>3
  <2>2. S \in SUBSET Brokers /\ z \in S /\ Upward(S)
    BY <2>1 DEF Upward
  <2>3. y \in S
    BY <1>2, <2>2 DEF Above
  <2> QED
    BY <2>3
<1>3. Parent[b] \in Brokers /\ b \in Brokers /\ depth[Parent[b]] < depth[b]
  BY <1>1, TreeAssumption DEF Lower
<1>4. depth[b] <= depth[x] /\ depth[b] \in Nat /\ depth[x] \in Nat /\ depth[Parent[b]] \in Nat
  BY <1>2, <1>3
<1>5. ~Above(Parent[b], b)
  BY <1>2, <1>3, <1>4
<1>6. Parent[b] # x
  BY <1>3, <1>4
<1> QED
  BY <1>5, <1>6

\* There is one way up: of two brokers above x one is above the other.
LEMMA AboveChain ==
  ASSUME NEW x \in Brokers, NEW b, NEW c, Above(x, b), Above(x, c)
  PROVE  Above(b, c) \/ Above(c, b)
<1> DEFINE A == {y \in Brokers : Above(x, y)}
           D == {y \in A : \A z \in A : Above(y, z) \/ Above(z, y)}
<1>1. x \in D
  BY AboveSteps
<1>2. ASSUME NEW y \in D \cap Lower PROVE Parent[y] \in D
  <2>1. Parent[y] \in A
    BY <1>2, AboveSteps, TreeAssumption
  <2>2. ASSUME NEW z \in A PROVE Above(Parent[y], z) \/ Above(z, Parent[y])
    <3>1. CASE Above(z, y)
      BY <2>2, <3>1, AboveSteps
    <3>2. CASE Above(y, z)
      <4>1. z = y \/ Above(Parent[y], z)
        BY <3>2, AboveSplits
      <4>2. Above(y, Parent[y])
        BY <1>2, AboveSteps
      <4> QED
        BY <4>1, <4>2
    <3> QED
      BY <1>2, <2>2, <3>1, <3>2
  <2> QED
    BY <2>1, <2>2
<1>3. D \in SUBSET Brokers /\ Upward(D)
  BY <1>2 DEF Upward
<1>4. b \in D /\ c \in D
  BY <1>1, <1>3 DEF Above
<1> QED
  BY <1>4

\* Two brokers with the same broker above them are not both on the way of x.
LEMMA OneWay ==
  ASSUME Acyclic, NEW x \in Brokers, NEW b \in Lower, NEW c \in Lower,
         Above(x, b), Above(x, c), Parent[b] = Parent[c]
  PROVE  b = c
<1>1. Above(b, c) \/ Above(c, b)
  BY AboveChain
<1>2. CASE Above(b, c)
  <2>1. c = b \/ Above(Parent[b], c)
    BY <1>2, AboveSplits
  <2>2. ~Above(Parent[c], c)
    BY AboveDepth
  <2> QED
    BY <2>1, <2>2
<1>3. CASE Above(c, b)
  <2>1. b = c \/ Above(Parent[c], b)
    BY <1>3, AboveSplits
  <2>2. ~Above(Parent[b], b)
    BY AboveDepth
  <2> QED
    BY <2>1, <2>2
<1> QED
  BY <1>1, <1>2, <1>3

(***************************************************************************)
(* What a broker tells the one above it of a name.                         *)
(***************************************************************************)
Adds(n, m) == m.cmd = "ADDDCL" /\ m.name = n
Takes(n, m) == m.cmd = "UNREGDCLI" /\ m.name = n
About(n, m) == Adds(n, m) \/ Takes(n, m)

\* Nothing of q is about n.
Silent(n, q) == \A i \in DOMAIN q : ~About(n, q[i])

\* The messages u announce n only when it has been taken back: f says after each of
\* them whether n is announced, s before the first and e after the last.
Tells(n, u, s, e, f) ==
  /\ f \in [0 .. Len(u) -> BOOLEAN] /\ f[0] = s /\ f[Len(u)] = e
  /\ \A i \in 1 .. Len(u) :
       /\ Adds(n, u[i]) => ~f[i - 1] /\ f[i]
       /\ Takes(n, u[i]) => ~f[i]
       /\ ~About(n, u[i]) => f[i] = f[i - 1]

Orderly(n, u, s, e) == \E f : Tells(n, u, s, e, f)

\* Messages that are not about n, or only take it back when it is not announced.
LEMMA OrderlySilent ==
  ASSUME NEW n, NEW u, IsSeq(u), NEW s \in BOOLEAN,
         \A i \in DOMAIN u : ~Adds(n, u[i]), Silent(n, u) \/ ~s
  PROVE  Orderly(n, u, s, s)
<1> DEFINE f == [i \in 0 .. Len(u) |-> s]
<1>1. Len(u) \in Nat /\ DOMAIN u = 1 .. Len(u)
  BY DEF IsSeq
<1>2. f \in [0 .. Len(u) -> BOOLEAN] /\ f[0] = s /\ f[Len(u)] = s
  BY <1>1
<1>3. ASSUME NEW i \in 1 .. Len(u)
      PROVE  /\ Adds(n, u[i]) => ~f[i - 1] /\ f[i]
             /\ Takes(n, u[i]) => ~f[i]
             /\ ~About(n, u[i]) => f[i] = f[i - 1]
  <2>1. f[i] = s /\ f[i - 1] = s
    BY <1>1
  <2>2. ~Adds(n, u[i]) /\ (Takes(n, u[i]) => ~s)
    BY <1>1 DEF Silent, About
  <2> HIDE DEF f
  <2> QED
    BY <2>1, <2>2
<1> HIDE DEF f
<1>4. Tells(n, u, s, s, f)
  BY <1>2, <1>3 DEF Tells
<1> QED
  BY <1>4 DEF Orderly

\* A sequence in which n is announced once and not taken back.
LEMMA OrderlyOnce ==
  ASSUME NEW n, NEW u, IsSeq(u), NEW j \in DOMAIN u, Adds(n, u[j]),
         \A i \in DOMAIN u : i # j => ~About(n, u[i])
  PROVE  Orderly(n, u, FALSE, TRUE)
<1> DEFINE f == [i \in 0 .. Len(u) |-> IF i >= j THEN TRUE ELSE FALSE]
<1>1. Len(u) \in Nat /\ DOMAIN u = 1 .. Len(u) /\ j \in 1 .. Len(u)
  BY DEF IsSeq
<1>2. f \in [0 .. Len(u) -> BOOLEAN] /\ f[0] = FALSE /\ f[Len(u)] = TRUE
  BY <1>1
<1>3. ASSUME NEW i \in 1 .. Len(u)
      PROVE  /\ Adds(n, u[i]) => ~f[i - 1] /\ f[i]
             /\ Takes(n, u[i]) => ~f[i]
             /\ ~About(n, u[i]) => f[i] = f[i - 1]
  <2>0. i \in 0 .. Len(u) /\ i - 1 \in 0 .. Len(u)
    BY <1>1
  <2>1. /\ f[i] = (IF i >= j THEN TRUE ELSE FALSE)
        /\ f[i - 1] = (IF i - 1 >= j THEN TRUE ELSE FALSE)
    BY <2>0
  <2>2. CASE i = j
    <3>1. f[i] = TRUE /\ f[i - 1] = FALSE
      BY <1>1, <2>1, <2>2
    <3>2. Adds(n, u[i]) /\ ~Takes(n, u[i]) /\ About(n, u[i])
      BY <2>2 DEF About, Adds, Takes
    <3> HIDE DEF f
    <3> QED
      BY <3>1, <3>2, Zenon
  <2>3. CASE i # j
    <3>1. f[i] = f[i - 1]
      BY <1>1, <2>1, <2>3
    <3>2. ~About(n, u[i])
      BY <1>1, <2>3
    <3> HIDE DEF f
    <3> QED
      BY <3>1, <3>2 DEF About
  <2> QED
    BY <2>2, <2>3
<1> HIDE DEF f
<1>4. Tells(n, u, FALSE, TRUE, f)
  BY <1>2, <1>3 DEF Tells
<1> QED
  BY <1>4 DEF Orderly

\* A sequence in which n is taken back.
LEMMA OrderlyBack ==
  ASSUME NEW n, NEW u, IsSeq(u), NEW s \in BOOLEAN, NEW j \in DOMAIN u, Takes(n, u[j]),
         \A i \in DOMAIN u : ~Adds(n, u[i])
  PROVE  Orderly(n, u, s, FALSE)
<1> DEFINE Kept(i) == s = TRUE /\ \A x \in 1 .. i : ~Takes(n, u[x])
           f == [i \in 0 .. Len(u) |-> IF Kept(i) THEN TRUE ELSE FALSE]
<1>1. Len(u) \in Nat /\ DOMAIN u = 1 .. Len(u) /\ j \in 1 .. Len(u)
  BY DEF IsSeq
<1>2. f \in [0 .. Len(u) -> BOOLEAN] /\ f[0] = s /\ f[Len(u)] = FALSE
  <2>1. ~Kept(Len(u)) /\ (Kept(0) <=> s = TRUE)
    BY <1>1
  <2>2. 0 \in 0 .. Len(u) /\ Len(u) \in 0 .. Len(u)
    BY <1>1
  <2> HIDE DEF Kept
  <2> QED
    BY <2>1, <2>2
<1>3. ASSUME NEW i \in 1 .. Len(u)
      PROVE  /\ Adds(n, u[i]) => ~f[i - 1] /\ f[i]
             /\ Takes(n, u[i]) => ~f[i]
             /\ ~About(n, u[i]) => f[i] = f[i - 1]
  <2>1. \A x : x \in 1 .. i <=> x = i \/ x \in 1 .. (i - 1)
    BY <1>1
  <2>2. /\ Takes(n, u[i]) => ~Kept(i)
        /\ ~Takes(n, u[i]) => (Kept(i) <=> Kept(i - 1))
    BY <2>1
  <2>3. ~Adds(n, u[i])
    BY <1>1
  <2> HIDE DEF Kept
  <2>6. i \in 0 .. Len(u) /\ i - 1 \in 0 .. Len(u)
    BY <1>1
  <2>4. /\ f[i] = (IF Kept(i) THEN TRUE ELSE FALSE)
        /\ f[i - 1] = (IF Kept(i - 1) THEN TRUE ELSE FALSE)
    BY <2>6
  <2> HIDE DEF f
  <2>5. /\ Takes(n, u[i]) => ~f[i]
        /\ ~Takes(n, u[i]) => f[i] = f[i - 1]
    BY <2>2, <2>4
  <2> QED
    BY <2>3, <2>5 DEF About
<1> HIDE DEF f
<1>4. Tells(n, u, s, FALSE, f)
  BY <1>2, <1>3 DEF Tells
<1> QED
  BY <1>4 DEF Orderly

\* Messages written after others.
LEMMA OrderlyConcat ==
  ASSUME NEW n, NEW u, NEW v, IsSeq(u), IsSeq(v), NEW s, NEW e, NEW d,
         Orderly(n, u, s, e), Orderly(n, v, e, d)
  PROVE  Orderly(n, u \o v, s, d)
<1>1. PICK f : Tells(n, u, s, e, f)
  BY DEF Orderly
<1>2. PICK g : Tells(n, v, e, d, g)
  BY DEF Orderly
<1> DEFINE w == u \o v
           h == [i \in 0 .. Len(w) |-> IF i <= Len(u) THEN f[i] ELSE g[i - Len(u)]]
<1>3. /\ Len(u) \in Nat /\ Len(v) \in Nat /\ Len(w) = Len(u) + Len(v)
      /\ DOMAIN u = 1 .. Len(u) /\ DOMAIN v = 1 .. Len(v) /\ IsSeq(w) /\ DOMAIN w = 1 .. Len(w)
      /\ \A i \in 1 .. Len(u) : w[i] = u[i]
      /\ \A i \in 1 .. Len(v) : w[Len(u) + i] = v[i]
  <2>1. IsSeq(w) /\ Len(w) = Len(u) + Len(v)
    BY Concat
  <2>2. /\ Len(u) \in Nat /\ Len(v) \in Nat /\ DOMAIN u = 1 .. Len(u) /\ DOMAIN v = 1 .. Len(v)
        /\ DOMAIN w = 1 .. Len(w)
    BY <2>1 DEF IsSeq
  <2> DEFINE S == Range(u) \cup Range(v)
  <2>3. u \in Seq(S) /\ v \in Seq(S)
    BY DEF IsSeq
  <2> HIDE DEF S
  <2>4. /\ \A i \in DOMAIN u : w[i] = u[i]
        /\ \A i \in DOMAIN v : w[Len(u) + i] = v[i]
    BY <2>3
  <2> HIDE DEF w
  <2> QED
    BY <2>1, <2>2, <2>4
<1> HIDE DEF w
<1>4. f \in [0 .. Len(u) -> BOOLEAN] /\ f[0] = s /\ f[Len(u)] = e
  BY <1>1 DEF Tells
<1>5. g \in [0 .. Len(v) -> BOOLEAN] /\ g[0] = e /\ g[Len(v)] = d
  BY <1>2 DEF Tells
<1>6. h \in [0 .. Len(w) -> BOOLEAN]
  <2>1. ASSUME NEW i \in 0 .. Len(w)
        PROVE  (IF i <= Len(u) THEN f[i] ELSE g[i - Len(u)]) \in BOOLEAN
    <3>1. CASE i <= Len(u)
      BY <1>3, <1>4, <3>1
    <3>2. CASE ~(i <= Len(u))
      <4>1. i - Len(u) \in 0 .. Len(v)
        BY <1>3, <3>2
      <4> QED
        BY <1>5, <3>2, <4>1
    <3> QED
      BY <3>1, <3>2
  <2> QED
    BY <2>1
<1>7. /\ \A i \in 0 .. Len(u) : h[i] = f[i]
      /\ \A i \in 0 .. Len(v) : h[Len(u) + i] = g[i]
  <2>1. ASSUME NEW i \in 0 .. Len(u) PROVE h[i] = f[i]
    BY <1>3
  <2>2. ASSUME NEW i \in 0 .. Len(v) PROVE h[Len(u) + i] = g[i]
    <3>1. CASE i = 0
      BY <1>3, <1>4, <1>5, <3>1
    <3>2. CASE i # 0
      <4>1. Len(u) + i \in 0 .. Len(w) /\ ~(Len(u) + i <= Len(u)) /\ Len(u) + i - Len(u) = i
        BY <1>3, <3>2
      <4> QED
        BY <4>1
    <3> QED
      BY <3>1, <3>2
  <2> QED
    BY <2>1, <2>2
<1> HIDE DEF h
<1>8. h[0] = s /\ h[Len(w)] = d
  <2>1. 0 \in 0 .. Len(u) /\ Len(v) \in 0 .. Len(v)
    BY <1>3
  <2> QED
    BY <1>3, <1>4, <1>5, <1>7, <2>1
<1>9. ASSUME NEW i \in 1 .. Len(w)
      PROVE  /\ Adds(n, w[i]) => ~h[i - 1] /\ h[i]
             /\ Takes(n, w[i]) => ~h[i]
             /\ ~About(n, w[i]) => h[i] = h[i - 1]
  <2>1. CASE i <= Len(u)
    <3>1. i \in 1 .. Len(u) /\ i \in 0 .. Len(u) /\ i - 1 \in 0 .. Len(u)
      BY <1>3, <2>1
    <3>2. w[i] = u[i] /\ h[i] = f[i] /\ h[i - 1] = f[i - 1]
      BY <1>3, <1>7, <3>1
    <3> QED
      BY <1>1, <3>1, <3>2 DEF Tells
  <2>2. CASE ~(i <= Len(u))
    <3> DEFINE j == i - Len(u)
    <3>1. j \in 1 .. Len(v) /\ j \in 0 .. Len(v) /\ j - 1 \in 0 .. Len(v)
      BY <1>3, <2>2
    <3>2. Len(u) + j = i /\ Len(u) + (j - 1) = i - 1
      BY <1>3
    <3> HIDE DEF j
    <3>3. w[i] = v[j] /\ h[i] = g[j] /\ h[i - 1] = g[j - 1]
      BY <1>3, <1>7, <3>1, <3>2
    <3> QED
      BY <1>2, <3>1, <3>3 DEF Tells
  <2> QED
    BY <2>1, <2>2
<1>10. Tells(n, w, s, d, h)
  BY <1>6, <1>8, <1>9 DEF Tells
<1> QED
  BY <1>10 DEF Orderly, w

\* The first message is read.
LEMMA OrderlyTail ==
  ASSUME NEW n, NEW u, IsSeq(u), u # <<>>, NEW s, NEW e, Orderly(n, u, s, e)
  PROVE  /\ Adds(n, Head(u)) => ~s /\ Orderly(n, Tail(u), TRUE, e)
         /\ Takes(n, Head(u)) => Orderly(n, Tail(u), FALSE, e)
         /\ ~About(n, Head(u)) => Orderly(n, Tail(u), s, e)
<1>1. PICK f : Tells(n, u, s, e, f)
  BY DEF Orderly
<1> DEFINE t == Tail(u)
           g == [i \in 0 .. Len(t) |-> f[i + 1]]
<1>2. /\ Len(u) \in Nat /\ Len(t) \in Nat /\ Len(u) = Len(t) + 1
      /\ Head(u) = u[1] /\ \A i \in 1 .. Len(t) : t[i] = u[i + 1]
  <2> DEFINE S == Range(u)
  <2>1. u \in Seq(S)
    BY DEF IsSeq
  <2> HIDE DEF S
  <2> QED
    BY <2>1
<1> HIDE DEF t
<1>3. /\ f \in [0 .. Len(u) -> BOOLEAN] /\ f[0] = s /\ f[Len(u)] = e
      /\ \A i \in 1 .. Len(u) :
           /\ Adds(n, u[i]) => ~f[i - 1] /\ f[i]
           /\ Takes(n, u[i]) => ~f[i]
           /\ ~About(n, u[i]) => f[i] = f[i - 1]
  BY <1>1 DEF Tells
<1>4. \A i \in 0 .. Len(t) : i + 1 \in 0 .. Len(u) /\ i + 1 \in 1 .. Len(u)
  BY <1>2
<1>5. \A i \in 0 .. Len(t) : g[i] = f[i + 1]
  OBVIOUS
<1>6. g \in [0 .. Len(t) -> BOOLEAN]
  BY <1>3, <1>4
<1> HIDE DEF g
<1>7. g[0] = f[1] /\ g[Len(t)] = e
  BY <1>2, <1>3, <1>5
<1>8. ASSUME NEW i \in 1 .. Len(t)
      PROVE  /\ Adds(n, t[i]) => ~g[i - 1] /\ g[i]
             /\ Takes(n, t[i]) => ~g[i]
             /\ ~About(n, t[i]) => g[i] = g[i - 1]
  <2>1. i \in 0 .. Len(t) /\ i - 1 \in 0 .. Len(t) /\ (i - 1) + 1 = i /\ (i + 1) - 1 = i
    BY <1>2
  <2>2. t[i] = u[i + 1] /\ g[i] = f[i + 1] /\ g[i - 1] = f[i] /\ i + 1 \in 1 .. Len(u)
    BY <1>2, <1>4, <1>5, <2>1
  <2> QED
    BY <1>3, <2>1, <2>2
<1>9. Tells(n, t, f[1], e, g)
  BY <1>6, <1>7, <1>8 DEF Tells
<1>10. Orderly(n, t, f[1], e)
  BY <1>9 DEF Orderly
<1>11. 1 \in 1 .. Len(u) /\ 1 - 1 = 0 /\ f[1] \in BOOLEAN
  BY <1>2, <1>3
<1>12. /\ Adds(n, u[1]) => ~s /\ f[1] = TRUE
       /\ Takes(n, u[1]) => f[1] = FALSE
       /\ ~About(n, u[1]) => f[1] = s
  BY <1>3, <1>11
<1> QED
  BY <1>2, <1>10, <1>12 DEF t

\* When nothing is on its way the two sides agree.
LEMMA OrderlyEmpty ==
  ASSUME NEW n, NEW s, NEW e, Orderly(n, <<>>, s, e)
  PROVE  s = e
<1>1. Len(<<>>) = 0
  OBVIOUS
<1> QED
  BY <1>1 DEF Orderly, Tells

(***************************************************************************)
(* What the handlers do to one name.                                       *)
(***************************************************************************)
Refuses(n, m) == m.cmd = "REGFAIL" /\ m.name = n

\* The local clients in the tables of the broker h are clients of it, under their
\* own names.
LocalsOK(b, h) ==
  /\ \A k \in DOMAIN b.lcl_cli : \E c \in Clients :
       /\ k = Key(c) /\ Home[c] = h
       /\ b.lcl_cli[k] = [name |-> NameOf[c], timeout |-> b.lcl_cli[k].timeout]
  /\ \A m \in DOMAIN b.rev_lcl_cli : /\ b.rev_lcl_cli[m] \in DOMAIN b.lcl_cli
                                     /\ b.lcl_cli[b.rev_lcl_cli[m]].name = m

\* The callback with result r leaves name n alone: in the tables, in what it sends
\* up, and no lower broker is refused it.
NameKept(b, c, n) ==
  /\ n \in DOMAIN c.rev_lcl_cli <=> n \in DOMAIN b.rev_lcl_cli
  /\ n \in DOMAIN c.dist_cli <=> n \in DOMAIN b.dist_cli
  /\ n \in DOMAIN b.dist_cli => c.dist_cli[n] = b.dist_cli[n]

NoRefusal(n, rout) == \A o \in rout : o.to \in Conns => ~Refuses(n, o.m)

Neutral(b, r, n) == NameKept(b, r.b, n) /\ Silent(n, r.up) /\ NoRefusal(n, r.rout)

\* What is sent up that is about no name.
LEMMA SilentUp ==
  ASSUME NEW n
  PROVE  /\ Silent(n, <<>>)
         /\ \A m : m.cmd \notin {"ADDDCL", "UNREGDCLI"} => Silent(n, <<m>>)
         /\ \A b, x : x # n => Silent(n, add_cli_up(b, x)) /\ Silent(n, del_cli_up(b, <<x>>))
         /\ \A b, src, dst : Silent(n, forward_up(b, src, dst))
<1>1. Silent(n, <<>>) /\ \A m : ~About(n, m) => Silent(n, <<m>>)
  <2>1. DOMAIN <<>> = {} /\ \A m : DOMAIN <<m>> = {1} /\ <<m>>[1] = m
    OBVIOUS
  <2> QED
    BY <2>1 DEF Silent
<1>2. \A m : m.cmd \notin {"ADDDCL", "UNREGDCLI"} => ~About(n, m)
  BY DEF About, Adds, Takes
<1>3. ASSUME NEW b, NEW x, x # n
      PROVE  Silent(n, add_cli_up(b, x)) /\ Silent(n, del_cli_up(b, <<x>>))
  <2>1. ~About(n, Adddcl(x)) /\ ~About(n, Unregdcli(x))
    BY <1>3 DEF About, Adds, Takes, Adddcl, Unregdcli
  <2>2. Silent(n, add_cli_up(b, x))
    BY <1>1, <2>1 DEF add_cli_up
  <2>3. ASSUME NEW i \in DOMAIN del_cli_up(b, <<x>>)
        PROVE  del_cli_up(b, <<x>>)[i] = Unregdcli(x)
    BY DEF del_cli_up
  <2> QED
    BY <2>1, <2>2, <2>3 DEF Silent
<1>4. ASSUME NEW b, NEW src, NEW dst PROVE Silent(n, forward_up(b, src, dst))
  <2>1. Forward(src, dst).cmd = "FORWARD"
    BY DEF Forward
  <2> QED
    BY <1>1, <1>2, <2>1 DEF forward_up
<1> QED
  BY <1>1, <1>2, <1>3, <1>4

\* The table operations that are about no name.
LEMMA NameTables ==
  ASSUME NEW b, Shape(b), NEW h, LocalsOK(b, h)
  PROVE  /\ \A k : LET c == TouchClient(b, k) IN LocalsOK(c, h) /\ \A n : NameKept(b, c, n)
         /\ \A s : LET c == TouchBroker(b, s) IN LocalsOK(c, h) /\ \A n : NameKept(b, c, n)
         /\ \A s : LET c == InsertBroker(b, s) IN LocalsOK(c, h) /\ \A n : NameKept(b, c, n)
         /\ LET c == Heard(b) IN LocalsOK(c, h) /\ \A n : NameKept(b, c, n)
         /\ \A N : LocalsOK(RemoveDist(b, N), h)
         /\ \A N, n : n \notin N => NameKept(b, RemoveDist(b, N), n)
         /\ \A x, s : LocalsOK(InsertDist(b, x, s), h)
         /\ \A x, s, n : n # x => NameKept(b, InsertDist(b, x, s), n)
<1>1. ASSUME NEW c, c.lcl_cli = b.lcl_cli, c.rev_lcl_cli = b.rev_lcl_cli PROVE LocalsOK(c, h)
  BY <1>1 DEF LocalsOK
<1>2. ASSUME NEW c, c.dist_cli = b.dist_cli, c.rev_lcl_cli = b.rev_lcl_cli
      PROVE  \A n : NameKept(b, c, n)
  BY <1>2 DEF NameKept
<1>3. ASSUME NEW k
      PROVE  LET c == TouchClient(b, k) IN LocalsOK(c, h) /\ \A n : NameKept(b, c, n)
  <2> DEFINE c == TouchClient(b, k)
             f == b.lcl_cli
             g == c.lcl_cli
  <2>1. /\ c.dist_cli = b.dist_cli /\ c.rev_lcl_cli = b.rev_lcl_cli
        /\ g = [f EXCEPT ![k].timeout = 0]
    BY DEF TouchClient, Shape, BrokerFields
  <2> HIDE DEF c
  <2>2. DOMAIN g = DOMAIN f
    BY <2>1
  <2>3. ASSUME NEW x \in DOMAIN f
        PROVE  /\ g[x].name = f[x].name
               /\ \E d \in Clients : /\ x = Key(d) /\ Home[d] = h
                                     /\ g[x] = [name |-> NameOf[d], timeout |-> g[x].timeout]
    <3>1. PICK d \in Clients : /\ x = Key(d) /\ Home[d] = h
                               /\ f[x] = [name |-> NameOf[d], timeout |-> f[x].timeout]
      BY <2>3 DEF LocalsOK
    <3> DEFINE t == f[x].timeout
    <3>2. f[x] = [name |-> NameOf[d], timeout |-> t]
      BY <3>1
    <3> HIDE DEF t
    <3>3. g[x] = f[x] \/ g[x] = [f[x] EXCEPT !.timeout = 0]
      BY <2>1, <2>3
    <3>4. g[x] = [name |-> NameOf[d], timeout |-> g[x].timeout] /\ g[x].name = NameOf[d]
      BY <3>2, <3>3
    <3> QED
      BY <3>1, <3>2, <3>4
  <2>4. LocalsOK(c, h)
    BY <2>1, <2>2, <2>3 DEF LocalsOK
  <2> QED
    BY <1>2, <2>1, <2>4 DEF c
<1>4. ASSUME NEW s
      PROVE  LET c == TouchBroker(b, s) IN LocalsOK(c, h) /\ \A n : NameKept(b, c, n)
  <2>1. LET c == TouchBroker(b, s)
        IN /\ c.dist_cli = b.dist_cli /\ c.rev_lcl_cli = b.rev_lcl_cli /\ c.lcl_cli = b.lcl_cli
    BY DEF TouchBroker, Shape, BrokerFields
  <2> QED
    BY <1>1, <1>2, <2>1
<1>5. ASSUME NEW s
      PROVE  LET c == InsertBroker(b, s) IN LocalsOK(c, h) /\ \A n : NameKept(b, c, n)
  <2>1. LET c == InsertBroker(b, s)
        IN /\ c.dist_cli = b.dist_cli /\ c.rev_lcl_cli = b.rev_lcl_cli /\ c.lcl_cli = b.lcl_cli
    BY DEF InsertBroker, Shape, BrokerFields
  <2> QED
    BY <1>1, <1>2, <2>1
<1>6. LET c == Heard(b) IN LocalsOK(c, h) /\ \A n : NameKept(b, c, n)
  <2>1. LET c == Heard(b)
        IN /\ c.dist_cli = b.dist_cli /\ c.rev_lcl_cli = b.rev_lcl_cli /\ c.lcl_cli = b.lcl_cli
    BY DEF Heard, Shape, BrokerFields
  <2> QED
    BY <1>1, <1>2, <2>1
<1>7. ASSUME NEW N
      PROVE  /\ LocalsOK(RemoveDist(b, N), h)
             /\ \A n : n \notin N => NameKept(b, RemoveDist(b, N), n)
  <2> DEFINE c == RemoveDist(b, N)
             f == b.dist_cli
  <2>1. /\ c.lcl_cli = b.lcl_cli /\ c.rev_lcl_cli = b.rev_lcl_cli
        /\ c.dist_cli = [x \in DOMAIN f \cap (DOMAIN f \ N) |-> f[x]]
    BY DEF RemoveDist, Without, Restrict, Shape, BrokerFields
  <2> HIDE DEF c
  <2>2. LocalsOK(c, h) /\ \A n : n \notin N => NameKept(b, c, n)
    BY <1>1, <2>1 DEF NameKept
  <2> QED
    BY <2>2 DEF c
<1>8. ASSUME NEW x, NEW s
      PROVE  /\ LocalsOK(InsertDist(b, x, s), h)
             /\ \A n : n # x => NameKept(b, InsertDist(b, x, s), n)
  <2> DEFINE c == InsertDist(b, x, s)
             f == b.dist_cli
  <2>1. /\ c.lcl_cli = b.lcl_cli /\ c.rev_lcl_cli = b.rev_lcl_cli
        /\ c.dist_cli = [y \in DOMAIN f \cup {x} |-> IF y = x THEN s ELSE f[y]]
    BY DEF InsertDist, Put, Shape, BrokerFields
  <2> HIDE DEF c
  <2>2. LocalsOK(c, h) /\ \A n : n # x => NameKept(b, c, n)
    BY <1>1, <2>1 DEF NameKept
  <2> QED
    BY <2>2 DEF c
<1> QED
  BY <1>3, <1>4, <1>5, <1>6, <1>7, <1>8

\* A local client is unlinked, with its name.
LEMMA UnlinkNames ==
  ASSUME NEW b, Shape(b), NEW h, LocalsOK(b, h), NEW k \in DOMAIN b.lcl_cli, NEW S
  PROVE  LET c == UnlinkLocal(remove_subscriptions(b, S), {k})
             x == b.lcl_cli[k].name
         IN /\ LocalsOK(c, h) /\ \A n : n # x => NameKept(b, c, n)
            /\ x \notin DOMAIN c.rev_lcl_cli /\ c.dist_cli = b.dist_cli
<1> DEFINE d == remove_subscriptions(b, S)
           c == UnlinkLocal(d, {k})
           x == b.lcl_cli[k].name
           f == b.lcl_cli
           g == b.rev_lcl_cli
<1>1. /\ d.lcl_cli = f /\ d.rev_lcl_cli = g /\ d.dist_cli = b.dist_cli /\ Shape(d)
  BY DEF remove_subscriptions, Shape, BrokerFields
<1> HIDE DEF d
<1>2. /\ c.dist_cli = b.dist_cli
      /\ c.lcl_cli = [y \in DOMAIN f \cap (DOMAIN f \ {k}) |-> f[y]]
      /\ c.rev_lcl_cli = [y \in DOMAIN g \cap (DOMAIN g \ {x}) |-> g[y]]
  <2>1. c.lcl_cli = Without(f, {k}) /\ c.dist_cli = b.dist_cli
    BY <1>1 DEF UnlinkLocal, Shape, BrokerFields
  <2>2. {f[y].name : y \in {k}} = {x}
    OBVIOUS
  <2>3. c.rev_lcl_cli = Without(g, {f[y].name : y \in {k}})
    BY <1>1 DEF UnlinkLocal, Shape, BrokerFields
  <2>4. c.rev_lcl_cli = Without(g, {x})
    BY <2>2, <2>3
  <2> HIDE DEF c
  <2> QED
    BY <2>1, <2>4 DEF Without, Restrict
<1> HIDE DEF c
<1>3. /\ \A y \in DOMAIN c.lcl_cli : y \in DOMAIN f /\ c.lcl_cli[y] = f[y]
      /\ \A y \in DOMAIN f : y # k => y \in DOMAIN c.lcl_cli
      /\ \A m \in DOMAIN c.rev_lcl_cli : m \in DOMAIN g /\ m # x /\ c.rev_lcl_cli[m] = g[m]
      /\ \A m \in DOMAIN g : m # x => m \in DOMAIN c.rev_lcl_cli
  BY <1>2
<1>4. ASSUME NEW y \in DOMAIN c.lcl_cli
      PROVE  \E e \in Clients :
               /\ y = Key(e) /\ Home[e] = h
               /\ c.lcl_cli[y] = [name |-> NameOf[e], timeout |-> c.lcl_cli[y].timeout]
  BY <1>3 DEF LocalsOK
<1>5. ASSUME NEW m \in DOMAIN c.rev_lcl_cli
      PROVE  /\ c.rev_lcl_cli[m] \in DOMAIN c.lcl_cli
             /\ c.lcl_cli[c.rev_lcl_cli[m]].name = m
  <2>1. g[m] \in DOMAIN f /\ f[g[m]].name = m /\ m # x /\ c.rev_lcl_cli[m] = g[m]
    BY <1>3 DEF LocalsOK
  <2>2. g[m] # k
    BY <2>1
  <2> QED
    BY <1>3, <2>1, <2>2
<1>6. LocalsOK(c, h)
  BY <1>4, <1>5 DEF LocalsOK
<1>7. \A n : n # x => NameKept(b, c, n)
  BY <1>2, <1>3 DEF NameKept
<1> QED
  BY <1>2, <1>3, <1>6, <1>7 DEF c, d

\* A client's name is its tenant's name with one more label.
LEMMA NamesArePairs ==
  ASSUME NEW c \in Clients
  PROVE  /\ PrefixName(NameOf[c][1], Tail(NameOf[c])) = NameOf[c]
         /\ Key(c) = <<c, NameOf[c][1]>> /\ Key(c)[1] = c
         /\ c \notin Conns
<1>1. NameOf[c] \in Tenants \X Labels
  BY TreeAssumption
<1>2. PICK t \in Tenants, l \in Labels : NameOf[c] = <<t, l>>
  BY <1>1
<1>3. <<t, l>>[1] = t /\ Tail(<<t, l>>) = <<l>>
  OBVIOUS
<1>5. <<t>> \o <<l>> = <<t, l>>
  <2> DEFINE S == {t, l}
             u == <<t>>
             v == <<l>>
             w == <<t, l>>
  <2>1. /\ u \in Seq(S) /\ Len(u) = 1 /\ u[1] = t
        /\ v \in Seq(S) /\ Len(v) = 1 /\ v[1] = l
        /\ w \in Seq(S) /\ Len(w) = 2 /\ w[1] = t /\ w[2] = l
    OBVIOUS
  <2> HIDE DEF S, u, v, w
  <2>2. u \o v \in Seq(S) /\ Len(u \o v) = 2
    BY <2>1
  <2>3. (u \o v)[1] = t
    BY <2>1
  <2>4. (u \o v)[2] = l
    <3>1. IsSeq(u) /\ IsSeq(v) /\ 1 \in DOMAIN v
      BY <2>1, SeqIsSeq
    <3>2. (u \o v)[Len(u) + 1] = v[1]
      BY <3>1, Concat
    <3>3. Len(u) + 1 = 2
      BY <2>1
    <3> QED
      BY <2>1, <3>2, <3>3
  <2>5. ASSUME NEW i \in 1 .. Len(w) PROVE (u \o v)[i] = w[i]
    <3>1. i = 1 \/ i = 2
      BY <2>1
    <3> QED
      BY <2>1, <2>3, <2>4, <3>1
  <2>6. u \o v = w
    BY <2>1, <2>2, <2>5
  <2> QED
    BY <2>6 DEF u, v, w
<1>4. c \notin Conns
  BY TreeAssumption
<1> QED
  BY <1>2, <1>3, <1>4, <1>5 DEF PrefixName, Key

\* A result that changes nothing.
LEMMA NothingNeutral ==
  ASSUME NEW b, NEW n
  PROVE  Neutral(b, Nothing(b), n)
BY SilentUp DEF Neutral, NameKept, NoRefusal, Nothing, Result

\* A client registers.
LEMMA JoinNames ==
  ASSUME NEW b, Shape(b), NEW h, LocalsOK(b, h), NEW c \in Clients, Home[c] = h
  PROVE  LET r == s_cb_challok_client(b, c, NameOf[c][1], Tail(NameOf[c])) IN
         /\ LocalsOK(r.b, h)
         /\ \A n : \/ Neutral(b, r, n)
                   \/ /\ n = NameOf[c] /\ n \notin DOMAIN b.rev_lcl_cli /\ n \notin DOMAIN b.dist_cli
                      /\ n \in DOMAIN r.b.rev_lcl_cli /\ r.b.dist_cli = b.dist_cli
                      /\ r.up = add_cli_up(b, n) /\ NoRefusal(n, r.rout)
<1> DEFINE t == NameOf[c][1]
           name == Tail(NameOf[c])
           x == NameOf[c]
           r == s_cb_challok_client(b, c, t, name)
           Good(v) == /\ LocalsOK(v.b, h)
                      /\ \A n : \/ Neutral(b, v, n)
                                \/ /\ n = x /\ n \notin DOMAIN b.rev_lcl_cli /\ n \notin DOMAIN b.dist_cli
                                   /\ n \in DOMAIN v.b.rev_lcl_cli /\ v.b.dist_cli = b.dist_cli
                                   /\ v.up = add_cli_up(b, n) /\ NoRefusal(n, v.rout)
<1>1. PrefixName(t, name) = x /\ Key(c) = <<c, t>> /\ c \notin Conns
  BY NamesArePairs
<1>2. CASE r = Nothing(b)
  <2>1. LocalsOK(r.b, h)
    BY <1>2 DEF Nothing, Result
  <2> QED
    BY <1>2, <2>1, NothingNeutral
<1>3. CASE r = Result(b, <<>>, To(c, Regfail("local")))
  <2>1. r.b = b /\ r.up = <<>> /\ \A o \in r.rout : o.to = c
    BY <1>3 DEF Result, To
  <2> HIDE DEF r
  <2>2. \A n : Neutral(b, r, n)
    BY <1>1, <2>1, SilentUp DEF Neutral, NameKept, NoRefusal
  <2>3. Good(r)
    BY <2>1, <2>2
  <2> QED
    BY <2>3 DEF r
<1>4. CASE /\ CanInsertLocal(b, c, t, name)
           /\ r = Result(InsertLocal(b, c, t, name), add_cli_up(b, PrefixName(t, name)),
                         To(c, Simple("REGOK")))
  <2> DEFINE d == InsertLocal(b, c, t, name)
             f == b.lcl_cli
             g == b.rev_lcl_cli
             k == <<c, t>>
  <2>1. x \notin DOMAIN b.dist_cli /\ k \notin DOMAIN f /\ x \notin DOMAIN g
    BY <1>1, <1>4 DEF CanInsertLocal, HasDist, HasLocal, HasRevLocal
  <2>2. r.b = d /\ r.up = add_cli_up(b, x) /\ \A o \in r.rout : o.to = c
    BY <1>1, <1>4 DEF Result, To
  <2>3. /\ d.dist_cli = b.dist_cli
        /\ d.lcl_cli = [y \in DOMAIN f \cup {k} |->
                          IF y = k THEN [name |-> x, timeout |-> 0] ELSE f[y]]
        /\ d.rev_lcl_cli = [y \in DOMAIN g \cup {x} |-> IF y = x THEN k ELSE g[y]]
    BY <1>1 DEF InsertLocal, Put, Shape, BrokerFields
  <2> HIDE DEF d, r
  <2>4. ASSUME NEW y \in DOMAIN d.lcl_cli
        PROVE  \E e \in Clients :
                 /\ y = Key(e) /\ Home[e] = h
                 /\ d.lcl_cli[y] = [name |-> NameOf[e], timeout |-> d.lcl_cli[y].timeout]
    <3>1. CASE y = k
      BY <1>1, <2>3, <3>1
    <3>2. CASE y # k
      BY <2>3, <2>4, <3>2 DEF LocalsOK
    <3> QED
      BY <3>1, <3>2
  <2>5. ASSUME NEW m \in DOMAIN d.rev_lcl_cli
        PROVE  d.rev_lcl_cli[m] \in DOMAIN d.lcl_cli /\ d.lcl_cli[d.rev_lcl_cli[m]].name = m
    <3>1. CASE m = x
      BY <2>3, <3>1
    <3>2. CASE m # x
      <4>1. m \in DOMAIN g /\ g[m] \in DOMAIN f /\ f[g[m]].name = m /\ d.rev_lcl_cli[m] = g[m]
        BY <2>3, <2>5, <3>2 DEF LocalsOK
      <4>2. g[m] # k /\ g[m] \in DOMAIN f \cup {k}
        BY <2>1, <4>1
      <4>3. d.lcl_cli[g[m]] = f[g[m]] /\ g[m] \in DOMAIN d.lcl_cli
        BY <2>3, <4>2
      <4> QED
        BY <4>1, <4>3
    <3> QED
      BY <3>1, <3>2
  <2>6. LocalsOK(d, h)
    BY <2>4, <2>5 DEF LocalsOK
  <2>7. \A n : NoRefusal(n, r.rout)
    BY <1>1, <2>2 DEF NoRefusal
  <2>8. ASSUME NEW n, n # x PROVE Neutral(b, r, n)
    <3>1. NameKept(b, d, n)
      BY <2>3, <2>8 DEF NameKept
    <3>2. Silent(n, add_cli_up(b, x))
      BY <2>8, SilentUp
    <3> QED
      BY <2>2, <2>7, <3>1, <3>2 DEF Neutral
  <2>9. x \in DOMAIN d.rev_lcl_cli
    BY <2>3
  <2>10. Good(r)
    BY <2>1, <2>2, <2>3, <2>6, <2>7, <2>8, <2>9
  <2> QED
    BY <2>10 DEF r
<1>5. \/ r = Nothing(b) \/ r = Result(b, <<>>, To(c, Regfail("local")))
      \/ /\ CanInsertLocal(b, c, t, name)
         /\ r = Result(InsertLocal(b, c, t, name), add_cli_up(b, PrefixName(t, name)),
                       To(c, Simple("REGOK")))
  BY DEF s_cb_challok_client
<1> QED
  BY <1>2, <1>3, <1>4, <1>5

\* A client leaves.
LEMMA LeaveNames ==
  ASSUME NEW b, Shape(b), NEW h, LocalsOK(b, h), NEW c \in Clients, Home[c] = h
  PROVE  LET r == s_cb_unreg_cli(b, c, NameOf[c][1]) IN
         /\ LocalsOK(r.b, h)
         /\ \A n : \/ Neutral(b, r, n)
                   \/ /\ n = NameOf[c] /\ n \notin DOMAIN r.b.rev_lcl_cli /\ r.b.dist_cli = b.dist_cli
                      /\ r.up = del_cli_up(b, <<n>>) /\ NoRefusal(n, r.rout)
<1> DEFINE k == Key(c)
           x == NameOf[c]
           d == UnlinkLocal(remove_subscriptions(b, {c}), {k})
           r == s_cb_unreg_cli(b, c, NameOf[c][1])
           Good(v) == /\ LocalsOK(v.b, h)
                      /\ \A n : \/ Neutral(b, v, n)
                                \/ /\ n = x /\ n \notin DOMAIN v.b.rev_lcl_cli
                                   /\ v.b.dist_cli = b.dist_cli
                                   /\ v.up = del_cli_up(b, <<n>>) /\ NoRefusal(n, v.rout)
<1>1. CASE ~HasLocal(b, k)
  <2>1. r = Nothing(b)
    BY <1>1, NamesArePairs DEF s_cb_unreg_cli
  <2>2. LocalsOK(r.b, h)
    BY <2>1 DEF Nothing, Result
  <2> QED
    BY <2>1, <2>2, NothingNeutral
<1>2. CASE HasLocal(b, k)
  <2>1. k \in DOMAIN b.lcl_cli
    BY <1>2 DEF HasLocal
  <2>2. b.lcl_cli[k].name = x
    <3>1. PICK e \in Clients : /\ k = Key(e)
                               /\ b.lcl_cli[k] = [name |-> NameOf[e], timeout |-> b.lcl_cli[k].timeout]
      BY <2>1 DEF LocalsOK
    <3>2. e = c
      BY <3>1, NamesArePairs
    <3>3. [name |-> NameOf[e], timeout |-> b.lcl_cli[k].timeout].name = NameOf[e]
      OBVIOUS
    <3> QED
      BY <3>1, <3>2, <3>3
  <2>3. r.b = d /\ r.up = del_cli_up(b, <<x>>) /\ r.rout = {}
    BY <1>2, <2>2, NamesArePairs DEF s_cb_unreg_cli, Result
  <2>4. /\ LocalsOK(d, h) /\ \A n : n # x => NameKept(b, d, n)
        /\ x \notin DOMAIN d.rev_lcl_cli /\ d.dist_cli = b.dist_cli
    BY <2>1, <2>2, UnlinkNames
  <2> HIDE DEF d, r, k
  <2>5. \A n : NoRefusal(n, r.rout)
    BY <2>3 DEF NoRefusal
  <2>6. ASSUME NEW n, n # x PROVE Neutral(b, r, n)
    BY <2>3, <2>4, <2>5, <2>6, SilentUp DEF Neutral
  <2>7. Good(r)
    BY <2>3, <2>4, <2>5, <2>6
  <2> QED
    BY <2>7 DEF r
<1> QED
  BY <1>1, <1>2

\* Route is about no name.
LEMMA RouteNames ==
  ASSUME NEW b, NEW src, NEW dst, NEW invalid, NEW n, Silent(n, invalid.up),
         \A o \in invalid.rout : o.m.cmd # "REGFAIL"
  PROVE  LET x == Route(b, src, dst, invalid) IN Silent(n, x.up) /\ NoRefusal(n, x.rout)
<1> DEFINE x == Route(b, src, dst, invalid)
<1>1. \/ x = invalid \/ x = Result(b, forward_up(b, src, dst), {})
      \/ x = Result(b, <<>>, To(b.rev_lcl_cli[dst][1], Data(src, dst)))
      \/ x = Result(b, <<>>, To(b.dist_cli[dst], Forward(src, dst)))
  BY DEF Route
<1>2. Data(src, dst).cmd = "DATA" /\ Forward(src, dst).cmd = "FORWARD"
  BY DEF Data, Forward
<1> HIDE DEF x
<1>3. /\ x.up \in {invalid.up, <<>>, forward_up(b, src, dst)}
      /\ \A o \in x.rout : o.m.cmd # "REGFAIL"
  BY <1>1, <1>2 DEF Result, To
<1>4. Silent(n, x.up) /\ NoRefusal(n, x.rout)
  BY <1>3, SilentUp DEF NoRefusal, Refuses
<1> QED
  BY <1>4 DEF x

\* A client sends a message.
LEMMA SendNames ==
  ASSUME NEW b, Shape(b), NEW h, LocalsOK(b, h), NEW s, NEW t, NEW dest
  PROVE  LET r == s_cb_send(b, s, t, dest) IN LocalsOK(r.b, h) /\ \A n : Neutral(b, r, n)
<1> DEFINE k == <<s, t>>
           c == TouchClient(b, k)
           src == b.lcl_cli[k].name
           dst == Resolve(t, dest)
           nod == IF IsPublic(src) = IsPublic(dst) THEN Nodst(Tail(dst), Tail(src)) ELSE Nodst(dst, src)
           invalid == Result(c, <<>>, To(s, nod))
           x == Route(c, src, dst, invalid)
           r == s_cb_send(b, s, t, dest)
<1>1. r = Nothing(b) \/ r = x
  BY DEF s_cb_send
<1>2. invalid.b = c /\ invalid.up = <<>> /\ \A o \in invalid.rout : o.m.cmd # "REGFAIL"
  BY DEF Result, To, Nodst
<1>3. LocalsOK(c, h) /\ \A n : NameKept(b, c, n)
  BY NameTables
<1> HIDE DEF c, src, dst, invalid, r
<1>4. x.b = c
  BY <1>2, RouteState
<1>5. \A n : Silent(n, x.up) /\ NoRefusal(n, x.rout)
  BY <1>2, SilentUp, RouteNames
<1> HIDE DEF x
<1>6. LocalsOK(x.b, h) /\ \A n : Neutral(b, x, n)
  BY <1>3, <1>4, <1>5 DEF Neutral
<1>7. LocalsOK(Nothing(b).b, h)
  BY DEF Nothing, Result
<1>8. LocalsOK(r.b, h) /\ \A n : Neutral(b, r, n)
  BY <1>1, <1>6, <1>7, NothingNeutral
<1> QED
  BY <1>8 DEF r

\* Two brokers with the same clients in their tables.
LEMMA SameNames ==
  ASSUME NEW b, NEW c, NEW h, LocalsOK(b, h), c.lcl_cli = b.lcl_cli,
         c.rev_lcl_cli = b.rev_lcl_cli, c.dist_cli = b.dist_cli
  PROVE  LocalsOK(c, h) /\ \A n : NameKept(b, c, n)
BY DEF LocalsOK, NameKept

\* A lower broker announces a client: it is dropped, turned down or taken.
LEMMA AdddclNames ==
  ASSUME NEW b, Shape(b), NEW h, LocalsOK(b, h), NEW k, NEW x
  PROVE  LET r == s_cb_adddcl(b, k, BrokerCookie, x) IN
         /\ LocalsOK(r.b, h) /\ r.b.lcl_br = b.lcl_br /\ r.b.state = b.state
         /\ \A n : n # x => Neutral(b, r, n)
         /\ \/ k \notin DOMAIN b.lcl_br /\ r = Nothing(b)
            \/ k \in DOMAIN b.lcl_br /\ (x \in DOMAIN b.rev_lcl_cli \/ x \in DOMAIN b.dist_cli)
            \/ /\ k \in DOMAIN b.lcl_br /\ x \notin DOMAIN b.rev_lcl_cli /\ x \notin DOMAIN b.dist_cli
               /\ r.b.rev_lcl_cli = b.rev_lcl_cli
               /\ x \in DOMAIN r.b.dist_cli /\ r.b.dist_cli[x] = k
               /\ r.up = add_cli_up(b, x) /\ r.rout = {}
<1> DEFINE r == s_cb_adddcl(b, k, BrokerCookie, x)
           Good(v) ==
             /\ LocalsOK(v.b, h) /\ v.b.lcl_br = b.lcl_br /\ v.b.state = b.state
             /\ \A n : n # x => Neutral(b, v, n)
             /\ \/ k \notin DOMAIN b.lcl_br /\ v = Nothing(b)
                \/ k \in DOMAIN b.lcl_br /\ (x \in DOMAIN b.rev_lcl_cli \/ x \in DOMAIN b.dist_cli)
                \/ /\ k \in DOMAIN b.lcl_br
                   /\ x \notin DOMAIN b.rev_lcl_cli /\ x \notin DOMAIN b.dist_cli
                   /\ v.b.rev_lcl_cli = b.rev_lcl_cli
                   /\ x \in DOMAIN v.b.dist_cli /\ v.b.dist_cli[x] = k
                   /\ v.up = add_cli_up(b, x) /\ v.rout = {}
<1>1. CASE k \notin DOMAIN b.lcl_br
  <2>1. r = Nothing(b)
    BY <1>1 DEF s_cb_adddcl, HasBroker
  <2>2. Nothing(b).b = b
    BY DEF Nothing, Result
  <2> HIDE DEF r
  <2>3. Good(r)
    BY <1>1, <2>1, <2>2, NothingNeutral
  <2> QED
    BY <2>3 DEF r
<1>2. CASE k \in DOMAIN b.lcl_br /\ (x \in DOMAIN b.rev_lcl_cli \/ x \in DOMAIN b.dist_cli)
  <2>1. r = Result(b, <<>>, To(k, Regfail(x)))
    BY <1>2 DEF s_cb_adddcl, HasBroker, HasRevLocal, HasDist
  <2>2. r.b = b /\ r.up = <<>> /\ \A o \in r.rout : o.m.name = x
    BY <2>1 DEF Result, To, Regfail
  <2> HIDE DEF r
  <2>3. \A n : n # x => Neutral(b, r, n)
    BY <2>2, SilentUp DEF Neutral, NameKept, NoRefusal, Refuses
  <2>4. Good(r)
    BY <1>2, <2>2, <2>3
  <2> QED
    BY <2>4 DEF r
<1>3. CASE k \in DOMAIN b.lcl_br /\ ~(x \in DOMAIN b.rev_lcl_cli \/ x \in DOMAIN b.dist_cli)
  <2> DEFINE d == InsertDist(b, x, k)
             f == b.dist_cli
  <2>1. r.b = d /\ r.up = add_cli_up(b, x) /\ r.rout = {}
    BY <1>3 DEF s_cb_adddcl, HasBroker, HasRevLocal, HasDist, Result
  <2>2. /\ d.lcl_br = b.lcl_br /\ d.state = b.state /\ d.rev_lcl_cli = b.rev_lcl_cli
        /\ d.dist_cli = [y \in DOMAIN f \cup {x} |-> IF y = x THEN k ELSE f[y]]
    BY DEF InsertDist, Put, Shape, BrokerFields
  <2>3. x \in DOMAIN d.dist_cli /\ d.dist_cli[x] = k
    BY <2>2
  <2>4. LocalsOK(d, h) /\ \A n : n # x => NameKept(b, d, n)
    BY NameTables
  <2> HIDE DEF d, r
  <2>5. \A n : n # x => Neutral(b, r, n)
    BY <2>1, <2>4, SilentUp DEF Neutral, NoRefusal
  <2>6. Good(r)
    BY <1>3, <2>1, <2>2, <2>3, <2>4, <2>5
  <2> QED
    BY <2>6 DEF r
<1> QED
  BY <1>1, <1>2, <1>3

\* A lower broker takes a client back.
LEMMA UnregdcliNames ==
  ASSUME NEW b, Shape(b), NEW h, LocalsOK(b, h), NEW k, NEW x
  PROVE  LET r == s_cb_unreg_dist_cli(b, k, BrokerCookie, x) IN
         /\ LocalsOK(r.b, h) /\ r.b.lcl_br = b.lcl_br /\ r.b.state = b.state
         /\ \A n : n # x => Neutral(b, r, n)
         /\ \/ k \notin DOMAIN b.lcl_br /\ r = Nothing(b)
            \/ x \notin DOMAIN b.dist_cli /\ r = Nothing(b)
            \/ /\ k \in DOMAIN b.lcl_br /\ x \in DOMAIN b.dist_cli
               /\ r.b.rev_lcl_cli = b.rev_lcl_cli /\ x \notin DOMAIN r.b.dist_cli
               /\ r.up = del_cli_up(b, <<x>>) /\ r.rout = {}
<1> DEFINE r == s_cb_unreg_dist_cli(b, k, BrokerCookie, x)
           Good(v) ==
             /\ LocalsOK(v.b, h) /\ v.b.lcl_br = b.lcl_br /\ v.b.state = b.state
             /\ \A n : n # x => Neutral(b, v, n)
             /\ \/ k \notin DOMAIN b.lcl_br /\ v = Nothing(b)
                \/ x \notin DOMAIN b.dist_cli /\ v = Nothing(b)
                \/ /\ k \in DOMAIN b.lcl_br /\ x \in DOMAIN b.dist_cli
                   /\ v.b.rev_lcl_cli = b.rev_lcl_cli /\ x \notin DOMAIN v.b.dist_cli
                   /\ v.up = del_cli_up(b, <<x>>) /\ v.rout = {}
<1>1. CASE k \notin DOMAIN b.lcl_br \/ x \notin DOMAIN b.dist_cli
  <2>1. r = Nothing(b)
    BY <1>1 DEF s_cb_unreg_dist_cli, HasBroker, HasDist
  <2>2. Nothing(b).b = b
    BY DEF Nothing, Result
  <2> HIDE DEF r
  <2>3. Good(r)
    BY <1>1, <2>1, <2>2, NothingNeutral
  <2> QED
    BY <2>3 DEF r
<1>2. CASE k \in DOMAIN b.lcl_br /\ x \in DOMAIN b.dist_cli
  <2> DEFINE d == RemoveDist(b, {x})
             f == b.dist_cli
  <2>1. r.b = d /\ r.up = del_cli_up(b, <<x>>) /\ r.rout = {}
    BY <1>2 DEF s_cb_unreg_dist_cli, HasBroker, HasDist, Result
  <2>2. /\ d.lcl_br = b.lcl_br /\ d.state = b.state /\ d.rev_lcl_cli = b.rev_lcl_cli
        /\ d.dist_cli = [y \in DOMAIN f \cap (DOMAIN f \ {x}) |-> f[y]]
    BY DEF RemoveDist, Without, Restrict, Shape, BrokerFields
  <2>3. x \notin DOMAIN d.dist_cli
    BY <2>2
  <2>4. LocalsOK(d, h) /\ \A n : n # x => NameKept(b, d, n)
    BY NameTables
  <2> HIDE DEF d, r
  <2>5. \A n : n # x => Neutral(b, r, n)
    BY <2>1, <2>4, SilentUp DEF Neutral, NoRefusal
  <2>6. Good(r)
    BY <1>2, <2>1, <2>2, <2>3, <2>4, <2>5
  <2> QED
    BY <2>6 DEF r
<1> QED
  BY <1>1, <1>2

\* A message of a lower broker that is about no name.
LEMMA RouterNeutral ==
  ASSUME NEW b, Shape(b), NEW h, LocalsOK(b, h), NEW k, NEW m,
         m.cmd \notin {"ADDDCL", "UNREGDCLI"}
  PROVE  LET r == RouterMsg(b, k, m) IN LocalsOK(r.b, h) /\ \A n : Neutral(b, r, n)
<1> DEFINE r == RouterMsg(b, k, m)
           Kept(c) == LocalsOK(c, h) /\ \A n : NameKept(b, c, n)
           Good(v) == LocalsOK(v.b, h) /\ \A n : Neutral(b, v, n)
<1>1. ASSUME NEW v, Kept(v.b), v.up = <<>>, \A o \in v.rout : o.m.cmd # "REGFAIL"
      PROVE  Good(v)
  BY <1>1, SilentUp DEF Neutral, NoRefusal, Refuses
<1>2. Kept(b) /\ Kept(InsertBroker(b, k)) /\ Kept(TouchBroker(b, k)) /\ \A y : Kept(TouchClient(b, y))
  BY NameTables DEF NameKept
<1>3. CASE m.cmd = "ADDBR"
  <2>1. r.b = b /\ r.up = <<>> /\ \A o \in r.rout : o.m.cmd # "REGFAIL"
    BY <1>3 DEF RouterMsg, s_cb_addbr, Result, To, Chall
  <2> HIDE DEF r, Kept, Good
  <2>2. Good(r)
    BY <1>1, <1>2, <2>1
  <2> QED
    BY <2>2 DEF r, Good
<1>4. CASE m.cmd = "CHALLOK"
  <2>1. /\ r.b = b \/ r.b = InsertBroker(b, k)
        /\ r.up = <<>> /\ \A o \in r.rout : o.m.cmd # "REGFAIL"
    BY <1>4 DEF RouterMsg, s_cb_challok_broker, Nothing, Result, To, Simple
  <2> HIDE DEF r, Kept, Good
  <2>2. Kept(r.b)
    BY <1>2, <2>1
  <2>3. Good(r)
    BY <1>1, <2>1, <2>2
  <2> QED
    BY <2>3 DEF r, Good
<1>5. CASE m.cmd = "PING"
  <2>1. /\ r.b = b \/ r.b = TouchBroker(b, k) \/ r.b = TouchClient(b, <<k, BrokerCookie>>)
        /\ r.up = <<>> /\ \A o \in r.rout : o.m.cmd # "REGFAIL"
    BY <1>5 DEF RouterMsg, s_cb_ping, Nothing, Result, To, Simple
  <2> HIDE DEF r, Kept, Good
  <2>2. Kept(r.b)
    BY <1>2, <2>1
  <2>3. Good(r)
    BY <1>1, <2>1, <2>2
  <2> QED
    BY <2>3 DEF r, Good
<1>6. CASE m.cmd = "FORWARD"
  <2> DEFINE c == TouchBroker(b, k)
             invalid == Result(c, <<>>, To(k, Nodst(m.dst, m.src)))
             x == Route(c, m.src, m.dst, invalid)
  <2>1. r = Nothing(b) \/ r = x
    BY <1>6 DEF RouterMsg, s_cb_forward_rsock
  <2>2. invalid.b = c /\ invalid.up = <<>> /\ \A o \in invalid.rout : o.m.cmd # "REGFAIL"
    BY DEF Result, To, Nodst
  <2>3. Kept(c)
    BY <1>2
  <2> HIDE DEF c, invalid, r, Kept
  <2>4. x.b = c
    BY <2>2, RouteState
  <2>5. \A n : Silent(n, x.up) /\ NoRefusal(n, x.rout)
    BY <2>2, SilentUp, RouteNames
  <2> HIDE DEF x
  <2>6. LocalsOK(x.b, h) /\ \A n : Neutral(b, x, n)
    BY <2>3, <2>4, <2>5 DEF Neutral, Kept
  <2>7. Nothing(b).b = b
    BY DEF Nothing, Result
  <2>8. Good(r)
    BY <2>1, <2>6, <2>7, NothingNeutral
  <2> QED
    BY <2>8 DEF r
<1>7. CASE m.cmd \notin {"ADDBR", "CHALLOK", "PING", "FORWARD"}
  <2>1. r = Nothing(b)
    BY <1>7 DEF RouterMsg
  <2>2. Nothing(b).b = b
    BY DEF Nothing, Result
  <2> HIDE DEF r
  <2>3. Good(r)
    BY <2>1, <2>2, NothingNeutral
  <2> QED
    BY <2>3 DEF r
<1> QED
  BY <1>3, <1>4, <1>5, <1>6, <1>7

\* A message of a lower broker leaves the names alone it is not about.
LEMMA RouterNames ==
  ASSUME NEW b, Shape(b), NEW h, LocalsOK(b, h), NEW k, NEW m
  PROVE  LET r == RouterMsg(b, k, m) IN
         /\ LocalsOK(r.b, h) /\ \A n : ~About(n, m) => Neutral(b, r, n)
         /\ m.cmd = "ADDDCL" => r = s_cb_adddcl(b, k, BrokerCookie, m.name)
         /\ m.cmd = "UNREGDCLI" => r = s_cb_unreg_dist_cli(b, k, BrokerCookie, m.name)
<1>1. /\ m.cmd = "ADDDCL" => RouterMsg(b, k, m) = s_cb_adddcl(b, k, BrokerCookie, m.name)
      /\ m.cmd = "UNREGDCLI" =>
           RouterMsg(b, k, m) = s_cb_unreg_dist_cli(b, k, BrokerCookie, m.name)
  BY DEF RouterMsg
<1>2. CASE m.cmd \notin {"ADDDCL", "UNREGDCLI"}
  BY <1>1, <1>2, RouterNeutral
<1>3. CASE m.cmd = "ADDDCL"
  <2>1. \A n : ~About(n, m) => n # m.name
    BY <1>3 DEF About, Adds
  <2>2. LET r == s_cb_adddcl(b, k, BrokerCookie, m.name)
        IN LocalsOK(r.b, h) /\ \A n : n # m.name => Neutral(b, r, n)
    BY AdddclNames
  <2> QED
    BY <1>1, <1>3, <2>1, <2>2
<1>4. CASE m.cmd = "UNREGDCLI"
  <2>1. \A n : ~About(n, m) => n # m.name
    BY <1>4 DEF About, Takes
  <2>2. LET r == s_cb_unreg_dist_cli(b, k, BrokerCookie, m.name)
        IN LocalsOK(r.b, h) /\ \A n : n # m.name => Neutral(b, r, n)
    BY UnregdcliNames
  <2> QED
    BY <1>1, <1>4, <2>1, <2>2
<1> QED
  BY <1>2, <1>3, <1>4

\* A message from the higher broker: only a refusal takes a name out of the tables,
\* and only its own; REGOK makes the broker announce all its clients.
LEMMA DealerNames ==
  ASSUME NEW b, Shape(b), NEW h, LocalsOK(b, h), NEW m, NEW order
  PROVE  LET r == DealerMsg(b, m, order) IN
         /\ LocalsOK(r.b, h)
         /\ \A n : ~Refuses(n, m) => /\ NameKept(b, r.b, n) /\ NoRefusal(n, r.rout)
                                     /\ m.cmd # "REGOK" => Silent(n, r.up)
         /\ m.cmd = "REGOK" => r.up = [i \in DOMAIN order |-> Adddcl(order[i])]
<1> DEFINE r == DealerMsg(b, m, order)
           c == Heard(b)
           Good(v) ==
             /\ LocalsOK(v.b, h)
             /\ \A n : ~Refuses(n, m) => /\ NameKept(b, v.b, n) /\ NoRefusal(n, v.rout)
                                         /\ m.cmd # "REGOK" => Silent(n, v.up)
             /\ m.cmd = "REGOK" => v.up = [i \in DOMAIN order |-> Adddcl(order[i])]
<1>1. /\ LocalsOK(c, h) /\ Shape(c) /\ c.lcl_cli = b.lcl_cli
      /\ c.rev_lcl_cli = b.rev_lcl_cli /\ c.dist_cli = b.dist_cli
  <2>1. /\ Shape(c) /\ c.lcl_cli = b.lcl_cli
        /\ c.rev_lcl_cli = b.rev_lcl_cli /\ c.dist_cli = b.dist_cli
    BY DEF Heard, Shape, BrokerFields
  <2> QED
    BY <2>1, SameNames
<1>2. ASSUME NEW v, v.b.lcl_cli = b.lcl_cli, v.b.rev_lcl_cli = b.rev_lcl_cli,
             v.b.dist_cli = b.dist_cli, m.cmd # "REGOK",
             \A n : Silent(n, v.up) /\ NoRefusal(n, v.rout)
      PROVE  Good(v)
  BY <1>2, SameNames
<1>3. ASSUME NEW v, \A o \in v.rout : o.m.cmd # "REGFAIL"
      PROVE  \A n : NoRefusal(n, v.rout)
  BY <1>3 DEF NoRefusal, Refuses
<1>4. CASE m.cmd = "CHALL"
  <2>1. r.b = [c EXCEPT !.broker_id = m.id] /\ r.up = <<Simple("CHALLOK")>> /\ r.rout = {}
    BY <1>4 DEF DealerMsg, s_cb_chall, Result
  <2> HIDE DEF r, c, Good
  <2>2. r.b.lcl_cli = b.lcl_cli /\ r.b.rev_lcl_cli = b.rev_lcl_cli /\ r.b.dist_cli = b.dist_cli
    BY <1>1, <2>1 DEF Shape, BrokerFields
  <2>3. \A n : Silent(n, r.up) /\ NoRefusal(n, r.rout)
    <3>1. Simple("CHALLOK").cmd = "CHALLOK"
      BY DEF Simple
    <3>2. \A n : Silent(n, <<Simple("CHALLOK")>>)
      BY <3>1, SilentUp
    <3>3. \A n : NoRefusal(n, r.rout)
      BY <2>1 DEF NoRefusal
    <3> QED
      BY <2>1, <3>2, <3>3
  <2>4. Good(r)
    BY <1>2, <1>4, <2>2, <2>3
  <2> QED
    BY <2>4 DEF r, Good
<1>5. CASE m.cmd = "REGOK"
  <2>1. /\ r.b = [c EXCEPT !.state = REGISTERED,
                           !.reg_loop = IF @ > 0 THEN @ - 1 ELSE 0,
                           !.heartbeat_loop = @ + 1,
                           !.north = TRUE]
        /\ r.rout = {} /\ r.up = [i \in DOMAIN order |-> Adddcl(order[i])]
    BY <1>5 DEF DealerMsg, s_cb_regok, Result
  <2> HIDE DEF r, c
  <2>2. r.b.lcl_cli = b.lcl_cli /\ r.b.rev_lcl_cli = b.rev_lcl_cli /\ r.b.dist_cli = b.dist_cli
    BY <1>1, <2>1 DEF Shape, BrokerFields
  <2>3. LocalsOK(r.b, h) /\ \A n : NameKept(b, r.b, n)
    BY <2>2, SameNames
  <2>4. Good(r)
    BY <1>3, <1>5, <2>1, <2>3
  <2> QED
    BY <2>4 DEF r
<1>6. CASE m.cmd = "FORWARD"
  <2> DEFINE dead == Nothing([c EXCEPT !.state = CRASHED])
  <2>1. r = Route(c, m.src, m.dst, dead)
    BY <1>6 DEF DealerMsg, s_cb_forward_dsock
  <2>2. dead.b = [c EXCEPT !.state = CRASHED] /\ dead.up = <<>> /\ dead.rout = {}
    BY DEF Nothing, Result
  <2> HIDE DEF c
  <2>3. /\ dead.b.lcl_cli = b.lcl_cli /\ dead.b.rev_lcl_cli = b.rev_lcl_cli
        /\ dead.b.dist_cli = b.dist_cli
    BY <1>1, <2>2 DEF Shape, BrokerFields
  <2> HIDE DEF dead, r, Good
  <2>4. r.b = c \/ r = dead
    BY <2>1, RouteState
  <2>5. \A n : Silent(n, r.up) /\ NoRefusal(n, r.rout)
    BY <2>1, <2>2, SilentUp, RouteNames
  <2>6. r.b.lcl_cli = b.lcl_cli /\ r.b.rev_lcl_cli = b.rev_lcl_cli /\ r.b.dist_cli = b.dist_cli
    BY <1>1, <2>3, <2>4
  <2>7. Good(r)
    BY <1>2, <1>6, <2>5, <2>6
  <2> QED
    BY <2>7 DEF r, Good
<1>7. CASE m.cmd = "NODST"
  <2>1. r = s_cb_high_error_nodst(b, m.dst, m.src)
    BY <1>7 DEF DealerMsg
  <2>2. r.b = c /\ r.up = <<>> /\ \A o \in r.rout : o.m.cmd = "NODST"
    BY <2>1 DEF s_cb_high_error_nodst, Result, To, Nodst
  <2> HIDE DEF r, c, Good
  <2>3. \A n : Silent(n, r.up) /\ NoRefusal(n, r.rout)
    BY <1>3, <2>2, SilentUp
  <2>4. Good(r)
    BY <1>1, <1>2, <1>7, <2>2, <2>3
  <2> QED
    BY <2>4 DEF r, Good
<1>8. CASE m.cmd = "REGFAIL"
  <2> DEFINE x == m.name
             k == b.rev_lcl_cli[x]
             e == UnlinkLocal(remove_subscriptions(c, {k[1]}), {k})
             f == RemoveDist(c, {x})
  <2>1. r = s_cb_high_error_regfail(b, x)
    BY <1>8 DEF DealerMsg
  <2>2. \A n : ~Refuses(n, m) => n # x
    BY <1>8 DEF Refuses
  <2>3. ASSUME NEW v, LocalsOK(v.b, h), \A n : n # x => NameKept(c, v.b, n) /\ NoRefusal(n, v.rout),
               v.up = <<>>
        PROVE  Good(v)
    <3> HIDE DEF c
    <3>1. \A n : n # x => NameKept(b, v.b, n)
      BY <1>1, <2>3 DEF NameKept
    <3> QED
      BY <1>8, <2>2, <2>3, <3>1, SilentUp
  <2>4. CASE HasRevLocal(b, x)
    <3>1. r.b = e /\ r.up = <<>> /\ \A o \in r.rout : o.to = k[1]
      BY <2>1, <2>4 DEF s_cb_high_error_regfail, Result, To
    <3>2. k \in DOMAIN b.lcl_cli /\ b.lcl_cli[k].name = x
      BY <2>4 DEF LocalsOK, HasRevLocal
    <3>3. PICK d \in Clients : k = Key(d)
      BY <3>2 DEF LocalsOK
    <3>4. k[1] \notin Conns
      BY <3>3, NamesArePairs
    <3> HIDE DEF c, k, x
    <3>5. LocalsOK(e, h) /\ \A n : n # x => NameKept(c, e, n)
      <4>1. k \in DOMAIN c.lcl_cli /\ c.lcl_cli[k].name = x
        BY <1>1, <3>2
      <4> QED
        BY <1>1, <4>1, UnlinkNames
    <3> HIDE DEF e, r, Good
    <3>6. \A n : NoRefusal(n, r.rout)
      BY <3>1, <3>4 DEF NoRefusal
    <3>7. Good(r)
      BY <2>3, <3>1, <3>5, <3>6
    <3> QED
      BY <3>7 DEF r, Good
  <2>5. CASE ~HasRevLocal(b, x) /\ HasDist(b, x)
    <3>1. r.b = f /\ r.up = <<>> /\ \A o \in r.rout : o.m.name = x
      BY <2>1, <2>5 DEF s_cb_high_error_regfail, Result, To, Regfail
    <3> HIDE DEF c, x
    <3>2. LocalsOK(f, h) /\ \A n : n \notin {x} => NameKept(c, f, n)
      BY <1>1, NameTables
    <3> HIDE DEF f, r, Good
    <3>3. \A n : n # x => NoRefusal(n, r.rout)
      BY <3>1 DEF NoRefusal, Refuses
    <3>4. Good(r)
      BY <2>3, <3>1, <3>2, <3>3
    <3> QED
      BY <3>4 DEF r, Good
  <2>6. CASE ~HasRevLocal(b, x) /\ ~HasDist(b, x)
    <3>1. r.b = c /\ r.up = <<>> /\ r.rout = {}
      BY <2>1, <2>6 DEF s_cb_high_error_regfail, Nothing, Result
    <3> HIDE DEF c, x
    <3>2. \A n : NameKept(c, c, n)
      BY DEF NameKept
    <3> HIDE DEF r, Good
    <3>3. \A n : NoRefusal(n, r.rout)
      BY <3>1 DEF NoRefusal
    <3>4. Good(r)
      BY <1>1, <2>3, <3>1, <3>2, <3>3
    <3> QED
      BY <3>4 DEF r, Good
  <2> QED
    BY <2>4, <2>5, <2>6
<1>9. CASE m.cmd \notin {"CHALL", "REGOK", "FORWARD", "NODST", "REGFAIL"}
  <2>1. r.b = c /\ r.up = <<>> /\ r.rout = {}
    BY <1>9 DEF DealerMsg, Nothing, Result
  <2> HIDE DEF r, c, Good
  <2>2. \A n : Silent(n, r.up) /\ NoRefusal(n, r.rout)
    BY <1>3, <2>1, SilentUp
  <2>3. Good(r)
    BY <1>1, <1>2, <1>9, <2>1, <2>2
  <2> QED
    BY <2>3 DEF r, Good
<1> QED
  BY <1>4, <1>5, <1>6, <1>7, <1>8, <1>9

\* A heartbeat changes no table.
LEMMA HeartbeatNames ==
  ASSUME NEW b, Shape(b), NEW h, LocalsOK(b, h)
  PROVE  LET r == s_heartbeat(b) IN
         LocalsOK(r.b, h) /\ r.b.lcl_br = b.lcl_br /\ \A n : Neutral(b, r, n)
<1> DEFINE r == s_heartbeat(b)
<1>1. /\ r.b.lcl_cli = b.lcl_cli /\ r.b.rev_lcl_cli = b.rev_lcl_cli
      /\ r.b.dist_cli = b.dist_cli /\ r.b.lcl_br = b.lcl_br
  BY DEF s_heartbeat, Result, Shape, BrokerFields
<1>2. r.up = <<Simple("PING")>> /\ r.rout = {} /\ Simple("PING").cmd = "PING"
  BY DEF s_heartbeat, Result, Simple
<1> HIDE DEF r
<1>3. LocalsOK(r.b, h) /\ \A n : NameKept(b, r.b, n)
  BY <1>1, SameNames
<1>4. \A n : Silent(n, r.up) /\ NoRefusal(n, r.rout)
  BY <1>2, SilentUp DEF NoRefusal
<1> QED
  BY <1>1, <1>3, <1>4 DEF Neutral, r

\* The time-out of lower brokers takes back the names behind the silent ones.
LEMMA TimeoutNames ==
  ASSUME NEW b, Shape(b), NEW h, LocalsOK(b, h), NEW order
  PROVE  LET r == s_check_br_timeout(b, order)
             S == SilentBrokers(b) IN
         /\ LocalsOK(r.b, h) /\ r.rout = {} /\ r.up = del_cli_up(b, order)
         /\ r.b.rev_lcl_cli = b.rev_lcl_cli /\ r.b.state = b.state
         /\ \A k \in DOMAIN r.b.lcl_br : k \in DOMAIN b.lcl_br /\ k \notin S
         /\ \A n : n \notin Behind(b, S) => NameKept(b, r.b, n)
         /\ \A n \in Behind(b, S) : n \notin DOMAIN r.b.dist_cli
<1> DEFINE S == SilentBrokers(b)
           N == Behind(b, S)
           d == RemoveDist(b, N)
           f == b.dist_cli
           r == s_check_br_timeout(b, order)
<1>1. r.b = [d EXCEPT !.lcl_br = [s \in DOMAIN @ \ S |-> @[s] + 1]]
  BY DEF s_check_br_timeout, Result
<1>2. r.up = del_cli_up(b, order) /\ r.rout = {}
  BY DEF s_check_br_timeout, Result
<1> HIDE DEF S, N
<1>3. /\ d.lcl_cli = b.lcl_cli /\ d.rev_lcl_cli = b.rev_lcl_cli /\ d.state = b.state
      /\ d.lcl_br = b.lcl_br /\ Shape(d)
      /\ d.dist_cli = [x \in DOMAIN f \cap (DOMAIN f \ N) |-> f[x]]
  BY DEF RemoveDist, Without, Restrict, Shape, BrokerFields
<1>4. LocalsOK(d, h) /\ \A n : n \notin N => NameKept(b, d, n)
  BY NameTables
<1> HIDE DEF d, r
<1>5. /\ r.b.lcl_cli = d.lcl_cli /\ r.b.rev_lcl_cli = d.rev_lcl_cli
      /\ r.b.dist_cli = d.dist_cli /\ r.b.state = d.state
      /\ DOMAIN r.b.lcl_br = DOMAIN d.lcl_br \ S
  BY <1>1, <1>3 DEF Shape, BrokerFields
<1>6. LocalsOK(r.b, h)
  BY <1>4, <1>5, SameNames
<1>7. \A n : n \notin N => NameKept(b, r.b, n)
  BY <1>4, <1>5 DEF NameKept
<1>8. \A n \in N : n \notin DOMAIN r.b.dist_cli
  BY <1>3, <1>5
<1> QED
  BY <1>2, <1>3, <1>5, <1>6, <1>7, <1>8 DEF S, N, r

(***************************************************************************)
(* The way of a name: from its client's broker to the root.                *)
(***************************************************************************)
Way(n, b) == \E c \in Clients : NameOf[c] = n /\ Above(Home[c], b)

\* At most one client has the name.
Sole(n) == \A c, d \in Clients : NameOf[c] = n /\ NameOf[d] = n => c = d

\* The way leads up.
LEMMA WayUp ==
  ASSUME NEW n, NEW b \in Lower, Way(n, b)
  PROVE  Way(n, Parent[b])
<1>1. PICK c \in Clients : NameOf[c] = n /\ Above(Home[c], b)
  BY DEF Way
<1>2. Home[c] \in Brokers
  BY TreeAssumption
<1>3. Above(Home[c], Parent[b])
  BY <1>1, <1>2, AboveSteps
<1> QED
  BY <1>1, <1>3 DEF Way

\* It begins at the client's broker: the only client's name comes from no broker
\* below it.
LEMMA WayHome ==
  ASSUME Acyclic, NEW c \in Clients, Sole(NameOf[c])
  PROVE  /\ Way(NameOf[c], Home[c])
         /\ \A x \in Lower : Parent[x] = Home[c] => ~Way(NameOf[c], x)
<1>1. Home[c] \in Brokers
  BY TreeAssumption
<1>2. Way(NameOf[c], Home[c])
  BY <1>1, AboveSteps DEF Way
<1>3. ASSUME NEW x \in Lower, Parent[x] = Home[c], Way(NameOf[c], x) PROVE FALSE
  <2>1. PICK d \in Clients : NameOf[d] = NameOf[c] /\ Above(Home[d], x)
    BY <1>3 DEF Way
  <2>2. d = c
    BY <2>1 DEF Sole
  <2> QED
    BY <1>1, <1>3, <2>1, <2>2, AboveDepth
<1> QED
  BY <1>2, <1>3

\* It passes through one of the brokers below a broker.
LEMMA WayOne ==
  ASSUME Acyclic, NEW n, Sole(n), NEW x \in Lower, NEW y \in Lower,
         Way(n, x), Way(n, y), Parent[x] = Parent[y]
  PROVE  x = y
<1>1. PICK c \in Clients : NameOf[c] = n /\ Above(Home[c], x)
  BY DEF Way
<1>2. PICK d \in Clients : NameOf[d] = n /\ Above(Home[d], y)
  BY DEF Way
<1>3. c = d
  BY <1>1, <1>2 DEF Sole
<1>4. Home[c] \in Brokers
  BY TreeAssumption
<1> QED
  BY <1>1, <1>2, <1>3, <1>4, OneWay

(***************************************************************************)
(* The inductive invariant.                                                *)
(***************************************************************************)
\* Only the root has crashed.
LowerStays == ToSet(crashes) \subseteq {Root}

\* Sockets that were left carry nothing and are forgotten, and a broker that is not
\* registered is one to the broker above it only while a REGOK is on its way.
SocketsOK(B, cn, u, d) ==
  \A k \in Conns :
    /\ k[2] # cn[k[1]] => u[k] = <<>> /\ k \notin DOMAIN B[Parent[k[1]]].lcl_br
    /\ /\ k[2] = cn[k[1]] /\ B[k[1]].state # REGISTERED
       /\ k \in DOMAIN B[Parent[k[1]]].lcl_br
       => ~NoneOf({"REGOK"}, d[k])

Routed(n, p, k) == IF n \in DOMAIN p.dist_cli /\ p.dist_cli[n] = k THEN TRUE ELSE FALSE
Has(n, b) == IF n \in DOMAIN b.rev_lcl_cli \/ n \in DOMAIN b.dist_cli THEN TRUE ELSE FALSE

\* The routes of a name lead back along its way, and nobody else speaks of it.
OnWay(n, B) == \A b \in Brokers : n \in DOMAIN B[b].dist_cli => Way(n, B[b].dist_cli[n][1])
Spoken(n, u) == \A k \in Conns : ~Silent(n, u[k]) => Way(n, k[1])
NotRefused(n, d) == \A k \in Conns : \A i \in DOMAIN d[k] : ~Refuses(n, d[k][i])

\* What is on its way up from a registered broker leads from what the higher
\* broker routes to it, to what it has now.
InStep(n, B, cn, u) ==
  \A b \in Lower : LET k == <<b, cn[b]>> IN
    B[b].state = REGISTERED /\ k \in DOMAIN B[Parent[b]].lcl_br
      => Orderly(n, u[k], Routed(n, B[Parent[b]], k), Has(n, B[b]))

NameOK(n, B, cn, u, d) ==
  OnWay(n, B) /\ Spoken(n, u) /\ NotRefused(n, d) /\ InStep(n, B, cn, u)

NamesInv ==
  /\ \A b \in Brokers : LocalsOK(br[b], b)
  /\ LowerStays => /\ SocketsOK(br, conn, up, down)
                   /\ \A n : Sole(n) => NameOK(n, br, conn, up, down)

\* No broker is above itself.
LEMMA NotOwnParent ==
  ASSUME Acyclic, NEW x \in Lower
  PROVE  Parent[x] # x /\ Parent[x] \in Brokers /\ x \in Brokers
<1>1. x \in Brokers /\ Parent[x] \in Brokers
  BY TreeAssumption DEF Lower
<1>2. Above(x, x)
  BY <1>1, AboveSteps
<1> QED
  BY <1>1, <1>2, AboveDepth

\* A route leads to the present socket of a broker that is registered.
LEMMA RouteLinked ==
  ASSUME RoutesOK(br, conn), GivenUp(br, conn, up, down), SocketsOK(br, conn, up, down),
         NEW p \in Brokers, NEW n \in DOMAIN br[p].dist_cli
  PROVE  \E x \in Lower : /\ br[p].dist_cli[n] = Dealer(x) /\ br[p].dist_cli[n][1] = x
                          /\ Parent[x] = p /\ Linked(x)
<1> DEFINE k == br[p].dist_cli[n]
           x == k[1]
<1>1. k \in DOMAIN br[p].lcl_br
  BY DEF RoutesOK, RoutesLive
<1>2. k \in Conns /\ Parent[x] = p
  BY <1>1 DEF RoutesOK
<1>3. x \in Lower /\ k = <<x, k[2]>>
  BY <1>2, ConnFacts
<1>4. k[2] = conn[x]
  BY <1>1, <1>2 DEF SocketsOK
<1>5. k = <<x, conn[x]>>
  BY <1>3, <1>4
<1>6. br[x].state = REGISTERED
  BY <1>2, <1>3, <1>5 DEF GivenUp
<1> QED
  BY <1>1, <1>2, <1>3, <1>5, <1>6 DEF Dealer, Linked

(***************************************************************************)
(* One callback of one broker, and one name.                               *)
(***************************************************************************)
\* What is written to a socket is a message of the callback for it.
LEMMA SentFrom ==
  ASSUME NEW rout, NEW k, NEW j \in DOMAIN Sent(rout, k)
  PROVE  \E o \in rout : o.to = k /\ Sent(rout, k)[j] = o.m
<1> DEFINE o1 == CHOOSE o \in rout : o.to = k
           q == Sent(rout, k)
<1>1. \/ q = <<>>
      \/ q = <<o1.m>> /\ o1 \in rout /\ o1.to = k
  BY DEF Sent
<1>2. DOMAIN <<>> = {} /\ \A m : DOMAIN <<m>> = {1} /\ <<m>>[1] = m
  OBVIOUS
<1> HIDE DEF o1, q
<1>3. q = <<o1.m>> /\ o1 \in rout /\ o1.to = k /\ j \in DOMAIN q
  BY <1>1, <1>2 DEF q
<1>4. q[j] = o1.m
  BY <1>2, <1>3
<1> QED
  BY <1>3, <1>4 DEF q

\* Neither of two sequences is about n.
LEMMA SilentConcat ==
  ASSUME NEW n, NEW p, NEW q, IsSeq(p), IsSeq(q), Silent(n, p), Silent(n, q)
  PROVE  Silent(n, p \o q)
<1>1. \A i \in DOMAIN (p \o q) :
        \/ i \in DOMAIN p /\ (p \o q)[i] = p[i]
        \/ i - Len(p) \in DOMAIN q /\ (p \o q)[i] = q[i - Len(p)]
  BY Concat
<1> QED
  BY <1>1 DEF Silent

\* What a callback of broker b with result r has to keep for its own broker, and for
\* the brokers below it.
OwnInStep(n, b, r, up0) ==
  b \in Lower /\ r.b.state = REGISTERED /\ Dealer(b) \in DOMAIN br[Parent[b]].lcl_br =>
    Orderly(n, up0[Dealer(b)] \o r.up, Routed(n, br[Parent[b]], Dealer(b)), Has(n, r.b))

BelowInStep(n, b, r, up0) ==
  \A x \in Lower :
    /\ Parent[x] = b /\ br[x].state = REGISTERED /\ Dealer(x) \in DOMAIN r.b.lcl_br =>
         Orderly(n, up0[Dealer(x)], Routed(n, r.b, Dealer(x)), Has(n, br[x]))
    /\ Parent[x] # b => up0[Dealer(x)] = up[Dealer(x)]

\* A callback keeps what is said of a name when it does for its broker and for the
\* brokers below it.
LEMMA NamesStep ==
  ASSUME Acyclic, BrokersOK(br), ChannelsOK(conn, up, down), NEW n, NameOK(n, br, conn, up, down),
         UNCHANGED conn, NEW b \in Brokers, NEW r, NEW up0, NEW down0,
         ReadFrom(conn, up0, down0), Fit(r),
         br' = [br EXCEPT ![b] = r.b],
         up' = IF b = Root THEN up0 ELSE [up0 EXCEPT ![Dealer(b)] = @ \o r.up],
         down' = [k \in Conns |-> down0[k] \o Sent(r.rout, k)],
         Spoken(n, up0), NotRefused(n, down0),
         n \in DOMAIN r.b.dist_cli => Way(n, r.b.dist_cli[n][1]),
         b # Root /\ ~Silent(n, r.up) => Way(n, b),
         NoRefusal(n, r.rout), OwnInStep(n, b, r, up0), BelowInStep(n, b, r, up0)
  PROVE  NameOK(n, br', conn', up', down')
<1>1. br'[b] = r.b /\ \A x \in Brokers : x # b => br'[x] = br[x]
  BY FinishBrokers
<1>2. \A k \in Conns : up'[k] = IF b # Root /\ k = Dealer(b) THEN up0[k] \o r.up ELSE up0[k]
  <2>1. up0 = [k \in Conns |-> up0[k]]
    BY DEF ReadFrom
  <2> QED
    BY <2>1, FinishUp
<1>3. \A k \in Conns : IsSeq(up0[k]) /\ IsSeq(down0[k]) /\ IsSeq(r.up)
  BY DEF ReadFrom, Fit
<1>4. OnWay(n, br')
  BY <1>1 DEF OnWay, NameOK
<1>5. Spoken(n, up')
  <2>1. SUFFICES ASSUME NEW k \in Conns, ~Silent(n, up'[k]) PROVE Way(n, k[1])
    BY DEF Spoken
  <2>2. CASE b # Root /\ k = Dealer(b)
    <3>1. b \in Lower /\ k[1] = b
      BY <2>2, DealerIsConn DEF Lower
    <3>2. up'[k] = up0[k] \o r.up
      BY <1>2, <2>2
    <3>3. ~Silent(n, up0[k]) \/ ~Silent(n, r.up)
      BY <1>3, <2>1, <3>2, SilentConcat
    <3> QED
      BY <2>2, <3>1, <3>3 DEF Spoken
  <2>3. CASE ~(b # Root /\ k = Dealer(b))
    BY <1>2, <2>1, <2>3 DEF Spoken
  <2> QED
    BY <2>2, <2>3
<1>6. NotRefused(n, down')
  <2>1. SUFFICES ASSUME NEW k \in Conns, NEW i \in DOMAIN down'[k], Refuses(n, down'[k][i])
                 PROVE  FALSE
    BY DEF NotRefused
  <2> DEFINE q == Sent(r.rout, k)
  <2>2. down'[k] = down0[k] \o q
    OBVIOUS
  <2>3. IsSeq(q) /\ \A j \in DOMAIN q : \E o \in r.rout : o.to = k /\ q[j] = o.m
    BY SentFacts, SentFrom
  <2> DEFINE v == down0[k]
  <2>6. i \in DOMAIN (v \o q) /\ IsSeq(v)
    BY <1>3, <2>1, <2>2
  <2> HIDE DEF q, v
  <2>4. \/ i \in DOMAIN v /\ (v \o q)[i] = v[i]
        \/ i - Len(v) \in DOMAIN q /\ (v \o q)[i] = q[i - Len(v)]
    BY <2>3, <2>6, Concat
  <2>5. \A j \in DOMAIN q : ~Refuses(n, q[j])
    BY <2>3 DEF NoRefusal
  <2> QED
    BY <2>1, <2>2, <2>4, <2>5 DEF NotRefused, v
<1>7. InStep(n, br', conn', up')
  <2>1. SUFFICES ASSUME NEW x \in Lower, br'[x].state = REGISTERED,
                        <<x, conn[x]>> \in DOMAIN br'[Parent[x]].lcl_br
                 PROVE  Orderly(n, up'[<<x, conn[x]>>], Routed(n, br'[Parent[x]], <<x, conn[x]>>),
                                Has(n, br'[x]))
    BY DEF InStep
  <2> DEFINE k == <<x, conn[x]>>
  <2>2. k \in Conns /\ k = Dealer(x) /\ k[1] = x
    BY DealerIsConn DEF Dealer
  <2>3. Parent[x] # x /\ Parent[x] \in Brokers /\ x \in Brokers /\ x # Root
    BY NotOwnParent DEF Lower
  <2>4. x # b => k # Dealer(b)
    BY <2>2, DealerIsConn DEF Dealer
  <2> HIDE DEF k
  <2>5. CASE x = b
    <3>1. br'[x] = r.b /\ br'[Parent[x]] = br[Parent[x]] /\ up'[k] = up0[k] \o r.up
      BY <1>1, <1>2, <2>2, <2>3, <2>5
    <3> QED
      BY <2>1, <2>2, <2>5, <3>1 DEF k, OwnInStep
  <2>6. CASE x # b /\ Parent[x] = b
    <3>1. br'[x] = br[x] /\ br'[Parent[x]] = r.b /\ up'[k] = up0[k]
      BY <1>1, <1>2, <2>2, <2>3, <2>4, <2>6
    <3> QED
      BY <2>1, <2>2, <2>6, <3>1 DEF k, BelowInStep
  <2>7. CASE x # b /\ Parent[x] # b
    <3>1. br'[x] = br[x] /\ br'[Parent[x]] = br[Parent[x]] /\ up'[k] = up[k]
      BY <1>1, <1>2, <2>2, <2>3, <2>4, <2>7 DEF BelowInStep
    <3>2. Orderly(n, up[k], Routed(n, br[Parent[x]], k), Has(n, br[x]))
      BY <2>1, <2>2, <3>1 DEF NameOK, InStep, k
    <3> QED
      BY <2>1, <3>1, <3>2 DEF k
  <2> QED
    BY <2>5, <2>6, <2>7
<1> QED
  BY <1>4, <1>5, <1>6, <1>7 DEF NameOK

\* The callback of broker b with result r keeps the route of n, speaks of n only on
\* its way, and tells the higher broker what has become of it.
Moves(n, b, old, r) ==
  /\ n \in DOMAIN r.b.dist_cli <=> n \in DOMAIN old.dist_cli
  /\ n \in DOMAIN old.dist_cli => r.b.dist_cli[n] = old.dist_cli[n]
  /\ ~Silent(n, r.up) => Way(n, b)
  /\ NoRefusal(n, r.rout)
  /\ r.b.state = REGISTERED => Orderly(n, r.up, Has(n, old), Has(n, r.b))

\* A callback that leaves n alone is one.
LEMMA NeutralMoves ==
  ASSUME NEW n, NEW b, NEW old, NEW r, IsSeq(r.up), Neutral(old, r, n)
  PROVE  Moves(n, b, old, r)
<1>1. Has(n, r.b) = Has(n, old) /\ Has(n, old) \in BOOLEAN
  BY DEF Has, Neutral, NameKept
<1>2. Silent(n, r.up) /\ \A i \in DOMAIN r.up : ~Adds(n, r.up[i])
  BY DEF Neutral, Silent, About
<1>3. ASSUME NEW s \in BOOLEAN PROVE Orderly(n, r.up, s, s)
  BY <1>2, OrderlySilent
<1>4. Orderly(n, r.up, Has(n, old), Has(n, old))
  BY <1>1, <1>3
<1>5. Orderly(n, r.up, Has(n, old), Has(n, r.b))
  BY <1>1, <1>4
<1> QED
  BY <1>2, <1>5 DEF Moves, Neutral, NameKept

\* No broker below b is taken in, and what is read from one is not about n.
BelowKept(n, b, r, up0) ==
  \A x \in Lower :
    /\ Parent[x] = b /\ br[x].state = REGISTERED /\ Dealer(x) \in DOMAIN r.b.lcl_br =>
         /\ Dealer(x) \in DOMAIN br[b].lcl_br
         /\ \A s, e : Orderly(n, up[Dealer(x)], s, e) => Orderly(n, up0[Dealer(x)], s, e)
    /\ Parent[x] # b => up0[Dealer(x)] = up[Dealer(x)]

\* A callback that moves a name so keeps what is said of it.
LEMMA MovesStep ==
  ASSUME Acyclic, BrokersOK(br), ChannelsOK(conn, up, down), NEW n, NameOK(n, br, conn, up, down),
         UNCHANGED conn, NEW b \in Brokers, NEW r, NEW up0, NEW down0,
         ReadFrom(conn, up0, down0), Fit(r),
         br' = [br EXCEPT ![b] = r.b],
         up' = IF b = Root THEN up0 ELSE [up0 EXCEPT ![Dealer(b)] = @ \o r.up],
         down' = [k \in Conns |-> down0[k] \o Sent(r.rout, k)],
         Spoken(n, up0), NotRefused(n, down0), Moves(n, b, br[b], r),
         r.b.state = REGISTERED => br[b].state = REGISTERED,
         BelowKept(n, b, r, up0)
  PROVE  NameOK(n, br', conn', up', down')
<1>1. n \in DOMAIN r.b.dist_cli => Way(n, r.b.dist_cli[n][1])
  BY DEF NameOK, OnWay, Moves
<1>2. (b # Root /\ ~Silent(n, r.up) => Way(n, b)) /\ NoRefusal(n, r.rout)
  BY DEF Moves
<1>3. InStep(n, br, conn, up)
  BY DEF NameOK
<1>4. ASSUME b \in Lower, r.b.state = REGISTERED, Dealer(b) \in DOMAIN br[Parent[b]].lcl_br
      PROVE  Orderly(n, up0[Dealer(b)] \o r.up, Routed(n, br[Parent[b]], Dealer(b)), Has(n, r.b))
  <2>1. Orderly(n, up[Dealer(b)], Routed(n, br[Parent[b]], Dealer(b)), Has(n, br[b]))
    BY <1>3, <1>4 DEF InStep, Dealer
  <2>2. up0[Dealer(b)] = up[Dealer(b)]
    BY <1>4, NotOwnParent DEF BelowKept
  <2>3. Orderly(n, r.up, Has(n, br[b]), Has(n, r.b))
    BY <1>4 DEF Moves
  <2>4. Dealer(b) \in Conns
    BY <1>4, DealerIsConn
  <2>5. IsSeq(up[Dealer(b)]) /\ IsSeq(r.up)
    BY <2>4 DEF ChannelsOK, Fit
  <2> QED
    BY <2>1, <2>2, <2>3, <2>5, OrderlyConcat
<1>5. ASSUME NEW x \in Lower, Parent[x] = b, br[x].state = REGISTERED, Dealer(x) \in DOMAIN r.b.lcl_br
      PROVE  Orderly(n, up0[Dealer(x)], Routed(n, r.b, Dealer(x)), Has(n, br[x]))
  <2>1. Dealer(x) \in DOMAIN br[b].lcl_br
    BY <1>5 DEF BelowKept
  <2>2. Orderly(n, up[Dealer(x)], Routed(n, br[b], Dealer(x)), Has(n, br[x]))
    BY <1>3, <1>5, <2>1 DEF InStep, Dealer
  <2>3. Routed(n, r.b, Dealer(x)) = Routed(n, br[b], Dealer(x))
    BY DEF Routed, Moves
  <2>4. Orderly(n, up0[Dealer(x)], Routed(n, br[b], Dealer(x)), Has(n, br[x]))
    BY <1>5, <2>2 DEF BelowKept
  <2> QED
    BY <2>3, <2>4
<1>6. OwnInStep(n, b, r, up0)
  BY <1>4 DEF OwnInStep
<1>7. BelowInStep(n, b, r, up0)
  BY <1>5 DEF BelowInStep, BelowKept
<1> QED
  BY <1>1, <1>2, <1>6, <1>7, NamesStep

\* What a callback may do to the sockets: a lower broker is taken in when it is
\* told so, and one that is not registered reads nothing but what it waits for.
SocketsMove(b, r, up0, down0) ==
  /\ \A k \in Conns : k[2] # conn[k[1]] => up0[k] = <<>>
  /\ \A k \in Conns : k[1] # b => down0[k] = down[k]
  /\ \A k \in Conns : k \in DOMAIN r.b.lcl_br =>
       \/ k \in DOMAIN br[b].lcl_br
       \/ k[2] = conn[k[1]] /\ ~NoneOf({"REGOK"}, Sent(r.rout, k))
  /\ b \in Lower /\ r.b.state # REGISTERED /\ Dealer(b) \in DOMAIN br[Parent[b]].lcl_br =>
       /\ br[b].state # REGISTERED
       /\ ~NoneOf({"REGOK"}, down[Dealer(b)]) => ~NoneOf({"REGOK"}, down0[Dealer(b)])

\* What a callback does to the sockets.
LEMMA SocketsStep ==
  ASSUME Acyclic, BrokersOK(br), ChannelsOK(conn, up, down), SocketsOK(br, conn, up, down),
         UNCHANGED conn, NEW b \in Brokers, NEW r, NEW up0, NEW down0,
         ReadFrom(conn, up0, down0), Fit(r),
         br' = [br EXCEPT ![b] = r.b],
         up' = IF b = Root THEN up0 ELSE [up0 EXCEPT ![Dealer(b)] = @ \o r.up],
         down' = [k \in Conns |-> down0[k] \o Sent(r.rout, k)],
         SocketsMove(b, r, up0, down0)
  PROVE  SocketsOK(br', conn', up', down')
<1>1. br'[b] = r.b /\ \A x \in Brokers : x # b => br'[x] = br[x]
  BY FinishBrokers
<1>2. \A k \in Conns : up'[k] = IF b # Root /\ k = Dealer(b) THEN up0[k] \o r.up ELSE up0[k]
  <2>1. up0 = [k \in Conns |-> up0[k]]
    BY DEF ReadFrom
  <2> QED
    BY <2>1, FinishUp
<1>3. SUFFICES ASSUME NEW k \in Conns
               PROVE  /\ k[2] # conn[k[1]] =>
                           up'[k] = <<>> /\ k \notin DOMAIN br'[Parent[k[1]]].lcl_br
                      /\ /\ k[2] = conn[k[1]] /\ br'[k[1]].state # REGISTERED
                         /\ k \in DOMAIN br'[Parent[k[1]]].lcl_br
                         => ~NoneOf({"REGOK"}, down'[k])
  BY DEF SocketsOK
<1> DEFINE x == k[1]
           q == Sent(r.rout, k)
<1>4. x \in Lower /\ k = <<x, k[2]>>
  BY ConnFacts
<1>5. Parent[x] # x /\ Parent[x] \in Brokers /\ x \in Brokers
  BY <1>4, NotOwnParent
<1>6. /\ k[2] # conn[x] => up[k] = <<>> /\ k \notin DOMAIN br[Parent[x]].lcl_br
      /\ k[2] = conn[x] /\ br[x].state # REGISTERED /\ k \in DOMAIN br[Parent[x]].lcl_br
           => ~NoneOf({"REGOK"}, down[k])
  BY DEF SocketsOK
<1>7. down'[k] = down0[k] \o q /\ IsSeq(down0[k]) /\ IsSeq(q)
  BY SentFacts DEF ReadFrom
<1>8. ~NoneOf({"REGOK"}, down0[k]) \/ ~NoneOf({"REGOK"}, q) => ~NoneOf({"REGOK"}, down'[k])
  <2> DEFINE v == down0[k]
             w == down'[k]
  <2>2. IsSeq(v) /\ IsSeq(q) /\ w = v \o q
    BY <1>7
  <2> HIDE DEF q, v, w
  <2>1. /\ \A i \in DOMAIN v : i \in DOMAIN (v \o q) /\ (v \o q)[i] = v[i]
        /\ \A i \in DOMAIN q : /\ Len(v) + i \in DOMAIN (v \o q)
                               /\ (v \o q)[Len(v) + i] = q[i]
    BY <2>2, Concat
  <2>3. ~NoneOf({"REGOK"}, v) \/ ~NoneOf({"REGOK"}, q) => ~NoneOf({"REGOK"}, w)
    BY <2>1, <2>2 DEF NoneOf
  <2> QED
    BY <2>3 DEF v, w
<1> HIDE DEF q
<1>9. ASSUME k \in DOMAIN br'[Parent[x]].lcl_br
      PROVE  \/ k \in DOMAIN br[Parent[x]].lcl_br
             \/ k[2] = conn[x] /\ ~NoneOf({"REGOK"}, q)
  BY <1>1, <1>5, <1>9 DEF q, SocketsMove
<1>10. ASSUME k[2] # conn[x] PROVE up'[k] = <<>> /\ k \notin DOMAIN br'[Parent[x]].lcl_br
  <2>1. ~(b # Root /\ k = Dealer(b))
    BY <1>10, DealerIsConn DEF Lower
  <2> QED
    BY <1>2, <1>6, <1>9, <1>10, <2>1 DEF SocketsMove
<1>11. ASSUME k[2] = conn[x], br'[x].state # REGISTERED, k \in DOMAIN br'[Parent[x]].lcl_br
       PROVE  ~NoneOf({"REGOK"}, down'[k])
  <2>1. CASE ~NoneOf({"REGOK"}, q)
    BY <1>8, <2>1
  <2>2. CASE k \in DOMAIN br[Parent[x]].lcl_br /\ x # b
    <3>1. br'[x] = br[x] /\ down0[k] = down[k]
      BY <1>1, <1>5, <2>2 DEF SocketsMove
    <3> QED
      BY <1>6, <1>8, <1>11, <2>2, <3>1
  <2>3. CASE k \in DOMAIN br[Parent[x]].lcl_br /\ x = b
    <3>1. k = Dealer(b) /\ b \in Lower /\ r.b.state # REGISTERED
      BY <1>1, <1>4, <1>11, <2>3 DEF Dealer
    <3>2. br[b].state # REGISTERED
      BY <2>3, <3>1 DEF SocketsMove
    <3>3. ~NoneOf({"REGOK"}, down[k])
      BY <1>6, <1>11, <2>3, <3>2
    <3>4. ~NoneOf({"REGOK"}, down0[k])
      BY <2>3, <3>1, <3>3 DEF SocketsMove
    <3> QED
      BY <1>8, <3>4
  <2> QED
    BY <1>9, <1>11, <2>1, <2>2, <2>3
<1> QED
  BY <1>10, <1>11

\* The tables of local clients.
LEMMA LocalsStep ==
  ASSUME BrokersOK(br), NEW b \in Brokers, NEW r, Fit(r), br' = [br EXCEPT ![b] = r.b],
         \A x \in Brokers : LocalsOK(br[x], x), LocalsOK(r.b, b)
  PROVE  \A x \in Brokers : LocalsOK(br'[x], x)
<1>1. br'[b] = r.b /\ \A x \in Brokers : x # b => br'[x] = br[x]
  BY FinishBrokers
<1> QED
  BY <1>1

\* A callback that was started by no message of a broker.
LEMMA CalmNames ==
  ASSUME Acyclic, TreeInv, NamesInv, UNCHANGED <<conn, crashes>>, NEW b \in Brokers, NEW r,
         Finish(b, r, up, down), Fit(r), LocalsOK(r.b, b),
         DOMAIN r.b.lcl_br \subseteq DOMAIN br[b].lcl_br,
         r.b.state = REGISTERED => br[b].state = REGISTERED,
         b \in Lower /\ r.b.state # REGISTERED /\ br[b].state = REGISTERED =>
           Dealer(b) \notin DOMAIN br[Parent[b]].lcl_br,
         \A n : LowerStays /\ Sole(n) => Moves(n, b, br[b], r)
  PROVE  NamesInv'
<1>1. BrokersOK(br) /\ ChannelsOK(conn, up, down)
  BY DEF TreeInv
<1>2. /\ br' = [br EXCEPT ![b] = r.b]
      /\ up' = IF b = Root THEN up ELSE [up EXCEPT ![Dealer(b)] = @ \o r.up]
      /\ down' = [k \in Conns |-> down[k] \o Sent(r.rout, k)]
  BY DEF Finish
<1>3. ReadFrom(conn, up, down)
  BY <1>1, ReadNothing
<1>4. \A x \in Brokers : LocalsOK(br'[x], x)
  BY <1>1, <1>2, LocalsStep DEF NamesInv
<1>5. LowerStays' <=> LowerStays
  BY DEF LowerStays
<1>6. ASSUME LowerStays PROVE SocketsOK(br', conn', up', down')
  <2>1. SocketsOK(br, conn, up, down)
    BY <1>6 DEF NamesInv
  <2>2. \A k \in Conns : k[2] # conn[k[1]] => up[k] = <<>>
    BY <2>1 DEF SocketsOK
  <2>3. SocketsMove(b, r, up, down)
    BY <2>2 DEF SocketsMove
  <2> QED
    BY <1>1, <1>2, <1>3, <2>1, <2>3, SocketsStep
<1>7. ASSUME LowerStays, NEW n, Sole(n) PROVE NameOK(n, br', conn', up', down')
  <2>1. NameOK(n, br, conn, up, down) /\ Moves(n, b, br[b], r)
    BY <1>7 DEF NamesInv
  <2>2. Spoken(n, up) /\ NotRefused(n, down)
    BY <2>1 DEF NameOK
  <2>3. BelowKept(n, b, r, up)
    BY DEF BelowKept
  <2> QED
    BY <1>1, <1>2, <1>3, <2>1, <2>2, <2>3, MovesStep
<1> QED
  BY <1>4, <1>5, <1>6, <1>7 DEF NamesInv

\* An announcement and a retraction.
LEMMA OneTells ==
  ASSUME NEW n, NEW b, b.state = REGISTERED
  PROVE  /\ Orderly(n, add_cli_up(b, n), FALSE, TRUE)
         /\ \A s \in BOOLEAN : Orderly(n, del_cli_up(b, <<n>>), s, FALSE)
<1>1. add_cli_up(b, n) = <<Adddcl(n)>>
  BY DEF add_cli_up
<1>2. /\ IsSeq(<<Adddcl(n)>>) /\ 1 \in DOMAIN <<Adddcl(n)>> /\ <<Adddcl(n)>>[1] = Adddcl(n)
      /\ \A i \in DOMAIN <<Adddcl(n)>> : i = 1
  BY ShortSeqs
<1>3. Adds(n, Adddcl(n))
  BY DEF Adds, Adddcl
<1>4. Orderly(n, <<Adddcl(n)>>, FALSE, TRUE)
  BY <1>2, <1>3, OrderlyOnce
<1> DEFINE u == del_cli_up(b, <<n>>)
<1>5. IsSeq(u)
  BY ShortSeqs, PlainUp
<1>6. u = [i \in DOMAIN <<n>> |-> Unregdcli(<<n>>[i])]
  BY DEF del_cli_up, REGISTERED, ROOT
<1>7. DOMAIN <<n>> = {1} /\ <<n>>[1] = n
  OBVIOUS
<1> HIDE DEF u
<1>8. 1 \in DOMAIN u /\ \A i \in DOMAIN u : u[i] = Unregdcli(n)
  BY <1>6, <1>7
<1>9. Takes(n, Unregdcli(n)) /\ ~Adds(n, Unregdcli(n))
  BY DEF Takes, Adds, Unregdcli
<1>10. ASSUME NEW s \in BOOLEAN PROVE Orderly(n, u, s, FALSE)
  BY <1>5, <1>8, <1>9, OrderlyBack
<1> QED
  BY <1>1, <1>4, <1>10 DEF u

\* A name that has a local client here comes from no broker below.
LEMMA LocalNotDistant ==
  ASSUME Acyclic, RoutesOK(br, conn), GivenUp(br, conn, up, down),
         SocketsOK(br, conn, up, down), NEW c \in Clients, Sole(NameOf[c]),
         OnWay(NameOf[c], br)
  PROVE  NameOf[c] \notin DOMAIN br[Home[c]].dist_cli
<1> SUFFICES ASSUME NameOf[c] \in DOMAIN br[Home[c]].dist_cli PROVE FALSE
  OBVIOUS
<1>1. Home[c] \in Brokers
  BY TreeAssumption
<1>2. PICK x \in Lower : br[Home[c]].dist_cli[NameOf[c]][1] = x /\ Parent[x] = Home[c]
  BY <1>1, RouteLinked
<1>3. Way(NameOf[c], x)
  BY <1>1, <1>2 DEF OnWay
<1> QED
  BY <1>2, <1>3, WayHome

\* A client registers: its name is announced when it was not known.
LEMMA JoinKeeps ==
  ASSUME Acyclic, TreeInv, TimelyInv, NamesInv, NEW c \in Clients, Join(c)
  PROVE  NamesInv'
<1> DEFINE h == Home[c]
           r == s_cb_challok_client(br[h], c, NameOf[c][1], Tail(NameOf[c]))
<1>1. Finish(h, r, up, down) /\ UNCHANGED <<conn, crashes>>
  BY DEF Join
<1>2. h \in Brokers
  BY TreeAssumption
<1>3. BrokersOK(br) /\ Shape(br[h]) /\ LocalsOK(br[h], h)
  BY <1>2 DEF TreeInv, BrokersOK, NamesInv
<1>4. Tame(br[h], r, c)
  BY <1>3, RegistrationsTame
<1>5. DOMAIN r.b.lcl_br \subseteq DOMAIN br[h].lcl_br
  BY <1>3, ClientsAlong DEF NoRouteAdded
<1>6. /\ LocalsOK(r.b, h)
      /\ \A n : \/ Neutral(br[h], r, n)
                \/ /\ n = NameOf[c] /\ n \notin DOMAIN br[h].rev_lcl_cli
                   /\ n \notin DOMAIN br[h].dist_cli
                   /\ n \in DOMAIN r.b.rev_lcl_cli /\ r.b.dist_cli = br[h].dist_cli
                   /\ r.up = add_cli_up(br[h], n) /\ NoRefusal(n, r.rout)
  BY <1>3, JoinNames
<1> HIDE DEF r, h
<1>7. Fit(r) /\ r.b.state = br[h].state /\ IsSeq(r.up)
  BY <1>2, <1>3, <1>4 DEF Tame, Fit, SameScalars, BrokersOK
<1>8. ASSUME NEW n, Sole(n) PROVE Moves(n, h, br[h], r)
  <2>1. CASE Neutral(br[h], r, n)
    BY <1>7, <2>1, NeutralMoves
  <2>2. CASE ~Neutral(br[h], r, n)
    <3>1. /\ n = NameOf[c] /\ n \notin DOMAIN br[h].rev_lcl_cli /\ n \notin DOMAIN br[h].dist_cli
          /\ n \in DOMAIN r.b.rev_lcl_cli /\ r.b.dist_cli = br[h].dist_cli
          /\ r.up = add_cli_up(br[h], n) /\ NoRefusal(n, r.rout)
      BY <1>6, <2>2
    <3>2. Way(n, h)
      BY <1>8, <3>1, WayHome DEF h
    <3>3. Has(n, br[h]) = FALSE /\ Has(n, r.b) = TRUE
      BY <3>1 DEF Has
    <3>4. ASSUME r.b.state = REGISTERED PROVE Orderly(n, r.up, Has(n, br[h]), Has(n, r.b))
      <4>1. Orderly(n, r.up, FALSE, TRUE)
        BY <1>7, <3>1, <3>4, OneTells
      <4> QED
        BY <3>3, <4>1
    <3> QED
      BY <3>1, <3>2, <3>4 DEF Moves
  <2> QED
    BY <2>1, <2>2
<1> QED
  BY <1>1, <1>2, <1>5, <1>6, <1>7, <1>8, CalmNames

\* A client leaves: its name is taken back.
LEMMA LeaveKeeps ==
  ASSUME Acyclic, TreeInv, TimelyInv, NamesInv, NEW c \in Clients, Leave(c)
  PROVE  NamesInv'
<1> DEFINE h == Home[c]
           r == s_cb_unreg_cli(br[h], c, NameOf[c][1])
<1>1. Finish(h, r, up, down) /\ UNCHANGED <<conn, crashes>>
  BY DEF Leave
<1>2. h \in Brokers
  BY TreeAssumption
<1>3. BrokersOK(br) /\ Shape(br[h]) /\ LocalsOK(br[h], h)
  BY <1>2 DEF TreeInv, BrokersOK, NamesInv
<1>4. Calm(br[h], r)
  BY <1>3, ClientsCalm
<1>5. DOMAIN r.b.lcl_br \subseteq DOMAIN br[h].lcl_br
  BY <1>3, ClientsAlong DEF NoRouteAdded
<1>6. /\ LocalsOK(r.b, h)
      /\ \A n : \/ Neutral(br[h], r, n)
                \/ /\ n = NameOf[c] /\ n \notin DOMAIN r.b.rev_lcl_cli
                   /\ r.b.dist_cli = br[h].dist_cli
                   /\ r.up = del_cli_up(br[h], <<n>>) /\ NoRefusal(n, r.rout)
  BY <1>3, LeaveNames
<1> HIDE DEF r, h
<1>7. Fit(r) /\ r.b.state = br[h].state /\ IsSeq(r.up)
  <2>1. Tame(br[h], r, c)
    BY <1>4, CalmTame
  <2> QED
    BY <1>2, <1>3, <2>1 DEF Tame, Fit, SameScalars, BrokersOK
<1>8. ASSUME NEW n, LowerStays, Sole(n) PROVE Moves(n, h, br[h], r)
  <2>1. CASE Neutral(br[h], r, n)
    BY <1>7, <2>1, NeutralMoves
  <2>2. CASE ~Neutral(br[h], r, n)
    <3>1. /\ n = NameOf[c] /\ n \notin DOMAIN r.b.rev_lcl_cli /\ r.b.dist_cli = br[h].dist_cli
          /\ r.up = del_cli_up(br[h], <<n>>) /\ NoRefusal(n, r.rout)
      BY <1>6, <2>2
    <3>2. Way(n, h)
      BY <1>8, <3>1, WayHome DEF h
    <3>3. n \notin DOMAIN br[h].dist_cli
      BY <1>8, <3>1, LocalNotDistant DEF h, NamesInv, NameOK, TimelyInv
    <3>4. Has(n, br[h]) \in BOOLEAN /\ Has(n, r.b) = FALSE
      BY <3>1, <3>3 DEF Has
    <3>5. ASSUME r.b.state = REGISTERED PROVE Orderly(n, r.up, Has(n, br[h]), Has(n, r.b))
      <4>1. \A s \in BOOLEAN : Orderly(n, r.up, s, FALSE)
        BY <1>7, <3>1, <3>5, OneTells
      <4> QED
        BY <3>4, <4>1
    <3> QED
      BY <3>1, <3>2, <3>5 DEF Moves
  <2> QED
    BY <2>1, <2>2
<1> QED
  BY <1>1, <1>2, <1>5, <1>6, <1>7, <1>8, CalmNames

\* A client sends a message.
LEMMA NotifyKeeps ==
  ASSUME Acyclic, TreeInv, NamesInv, NEW c \in Clients, NEW d \in Clients, Notify(c, d)
  PROVE  NamesInv'
<1> DEFINE h == Home[c]
           r == s_cb_send(br[h], c, NameOf[c][1], Tail(NameOf[d]))
<1>1. Finish(h, r, up, down) /\ UNCHANGED <<conn, crashes>>
  BY DEF Notify
<1>2. h \in Brokers
  BY TreeAssumption
<1>3. BrokersOK(br) /\ Shape(br[h]) /\ LocalsOK(br[h], h)
  BY <1>2 DEF TreeInv, BrokersOK, NamesInv
<1>4. Calm(br[h], r)
  BY <1>3, ClientsCalm
<1>5. DOMAIN r.b.lcl_br \subseteq DOMAIN br[h].lcl_br
  BY <1>3, ClientsAlong DEF NoRouteAdded
<1>6. LocalsOK(r.b, h) /\ \A n : Neutral(br[h], r, n)
  BY <1>3, SendNames
<1> HIDE DEF r, h
<1>7. Fit(r) /\ r.b.state = br[h].state /\ IsSeq(r.up)
  <2>1. Tame(br[h], r, c)
    BY <1>4, CalmTame
  <2> QED
    BY <1>2, <1>3, <2>1 DEF Tame, Fit, SameScalars, BrokersOK
<1>8. \A n : Moves(n, h, br[h], r)
  BY <1>6, <1>7, NeutralMoves
<1> QED
  BY <1>1, <1>2, <1>5, <1>6, <1>7, <1>8, CalmNames

\* A heartbeat: a broker gives the higher one up only when that one does not know it.
LEMMA HeartbeatKeeps ==
  ASSUME Timely = TRUE, Acyclic, TreeInv, NamesInv, NEW b \in Lower, Heartbeat(b)
  PROVE  NamesInv'
<1> DEFINE r == s_heartbeat(br[b])
<1>1. /\ Finish(b, r, up, down) /\ UNCHANGED <<conn, crashes>>
      /\ br[b].heartbeat_loop > 0 /\ (br[b].timeout >= Limit => ~Linked(b))
  BY DEF Heartbeat
<1>2. b \in Brokers /\ br[b].state # CRASHED
  BY <1>1 DEF Lower, Finish
<1>3. BrokersOK(br) /\ Shape(br[b]) /\ LocalsOK(br[b], b) /\ OneTimer
  BY <1>2 DEF TreeInv, BrokersOK, NamesInv
<1>4. br[b].state = REGISTERED
  BY <1>1, <1>2, <1>3 DEF OneTimer, TimersMatch
<1>5. /\ Fit(r) /\ r.b.lcl_br = br[b].lcl_br
      /\ \/ br[b].timeout < Limit /\ r.b.state = br[b].state
         \/ br[b].timeout >= Limit /\ r.b.state = ROOT
  BY <1>2, <1>3, HeartbeatFits DEF BrokersOK
<1>6. LocalsOK(r.b, b) /\ \A n : Neutral(br[b], r, n)
  BY <1>3, HeartbeatNames
<1> HIDE DEF r
<1>7. r.b.state # REGISTERED => Dealer(b) \notin DOMAIN br[Parent[b]].lcl_br
  BY <1>1, <1>4, <1>5 DEF Linked
<1>8. \A n : Moves(n, b, br[b], r)
  BY <1>5, <1>6, NeutralMoves DEF Fit
<1> QED
  BY <1>1, <1>2, <1>4, <1>5, <1>6, <1>7, <1>8, CalmNames

\* The time-out of lower brokers: a broker that is routed to is not given up.
LEMMA TimeoutKeeps ==
  ASSUME Timely = TRUE, Acyclic, TreeInv, TimelyInv, NamesInv, NEW b \in Brokers,
         CheckBrTimeout(b)
  PROVE  NamesInv'
<1> DEFINE S == SilentBrokers(br[b])
           N == Behind(br[b], S)
<1>1. PICK order \in SetToSeqs(N) : Finish(b, s_check_br_timeout(br[b], order), up, down)
  BY DEF CheckBrTimeout
<1>2. /\ UNCHANGED <<conn, crashes>>
      /\ \A k \in S : k = Dealer(k[1]) => ~Linked(k[1])
  BY DEF CheckBrTimeout
<1> DEFINE r == s_check_br_timeout(br[b], order)
<1>3. BrokersOK(br) /\ Shape(br[b]) /\ FiniteTables(br[b]) /\ LocalsOK(br[b], b)
  BY DEF TreeInv, BrokersOK, NamesInv
<1>4. order \in Seq(N) /\ IsSeq(order) /\ \A i \in DOMAIN order : order[i] \in N
  <2>1. N \subseteq DOMAIN br[b].dist_cli
    BY DEF Behind
  <2>2. IsFiniteSet(N)
    BY <1>3, <2>1, FS_Subset DEF FiniteTables
  <2> HIDE DEF N
  <2>3. order \in Seq(N)
    BY <1>1, <2>2, TraversalMeetsAll
  <2>4. \A i \in DOMAIN order : order[i] \in N
    BY <2>3
  <2> QED
    BY <2>3, <2>4, SeqIsSeq
<1>5. Calm(br[b], r)
  BY <1>3, <1>4, BrokersCalm
<1>6. /\ LocalsOK(r.b, b) /\ r.rout = {} /\ r.up = del_cli_up(br[b], order)
      /\ r.b.rev_lcl_cli = br[b].rev_lcl_cli /\ r.b.state = br[b].state
      /\ \A k \in DOMAIN r.b.lcl_br : k \in DOMAIN br[b].lcl_br
      /\ \A n : n \notin N => NameKept(br[b], r.b, n)
  BY <1>3, TimeoutNames
<1> HIDE DEF r
<1>7. Fit(r) /\ IsSeq(r.up)
  <2>1. Tame(br[b], r, RootId)
    BY <1>5, CalmTame
  <2> QED
    BY <1>3, <2>1 DEF Tame, Fit, SameScalars, BrokersOK
<1>8. ASSUME LowerStays, NEW n PROVE Moves(n, b, br[b], r)
  <2>1. n \notin N
    <3>1. SUFFICES ASSUME n \in DOMAIN br[b].dist_cli, br[b].dist_cli[n] \in S PROVE FALSE
      BY DEF Behind
    <3>2. SocketsOK(br, conn, up, down) /\ RoutesOK(br, conn) /\ GivenUp(br, conn, up, down)
      BY <1>8 DEF NamesInv, TimelyInv
    <3>3. PICK x \in Lower : /\ br[b].dist_cli[n] = Dealer(x) /\ br[b].dist_cli[n][1] = x
                             /\ Linked(x)
      BY <3>1, <3>2, RouteLinked
    <3> HIDE DEF S
    <3> QED
      BY <1>2, <3>1, <3>3
  <2>2. Silent(n, r.up)
    <3>1. \A i \in DOMAIN r.up : i \in DOMAIN order /\ r.up[i] = Unregdcli(order[i])
      <4> DEFINE v == [i \in DOMAIN order |-> Unregdcli(order[i])]
      <4>1. r.up = <<>> \/ r.up = v
        BY <1>6 DEF del_cli_up
      <4>2. DOMAIN <<>> = {} /\ DOMAIN v = DOMAIN order
        OBVIOUS
      <4>3. \A i \in DOMAIN order : v[i] = Unregdcli(order[i])
        OBVIOUS
      <4> HIDE DEF v
      <4> QED
        BY <4>1, <4>2, <4>3
    <3>2. \A x \in N : ~About(n, Unregdcli(x))
      <4>1. \A x \in N : x # n
        BY <2>1
      <4> HIDE DEF N
      <4> QED
        BY <4>1 DEF About, Adds, Takes, Unregdcli
    <3> HIDE DEF N
    <3> QED
      BY <1>4, <3>1, <3>2 DEF Silent
  <2>3. NoRefusal(n, r.rout)
    BY <1>6 DEF NoRefusal
  <2>4. Neutral(br[b], r, n)
    BY <1>6, <2>1, <2>2, <2>3 DEF Neutral
  <2> QED
    BY <1>7, <2>4, NeutralMoves
<1>9. Finish(b, r, up, down)
  BY <1>1 DEF r
<1> QED
  BY <1>2, <1>6, <1>7, <1>8, <1>9, CalmNames

\* The higher broker takes a lower one in only when it answers REGOK.
LEMMA RouterAdmits ==
  ASSUME NEW b, Shape(b), NEW k, NEW m
  PROVE  LET r == RouterMsg(b, k, m) IN
         \/ DOMAIN r.b.lcl_br \subseteq DOMAIN b.lcl_br
         \/ m.cmd = "CHALLOK" /\ r.rout = To(k, Simple("REGOK"))
<1> DEFINE r == RouterMsg(b, k, m)
<1>0. \A c : c.lcl_br = b.lcl_br => DOMAIN c.lcl_br \subseteq DOMAIN b.lcl_br
  OBVIOUS
<1>n. Nothing(b).b = b
  BY DEF Nothing, Result
<1>1. CASE m.cmd = "ADDBR"
  BY <1>1 DEF RouterMsg, s_cb_addbr, Result
<1>2. CASE m.cmd = "CHALLOK"
  BY <1>2, <1>n DEF RouterMsg, s_cb_challok_broker, Result
<1>3. CASE m.cmd = "PING"
  <2>1. \/ r.b = b \/ r.b = TouchClient(b, <<k, BrokerCookie>>)
        \/ r.b = TouchBroker(b, k)
    BY <1>3, <1>n DEF RouterMsg, s_cb_ping, Result
  <2>2. /\ TouchClient(b, <<k, BrokerCookie>>).lcl_br = b.lcl_br
        /\ DOMAIN TouchBroker(b, k).lcl_br = DOMAIN b.lcl_br
    BY DEF TouchClient, TouchBroker, Shape, BrokerFields
  <2> QED
    BY <2>1, <2>2
<1>4. CASE m.cmd = "ADDDCL"
  BY <1>4, <1>n DEF RouterMsg, s_cb_adddcl, Result, InsertDist, Shape, BrokerFields
<1>5. CASE m.cmd = "UNREGDCLI"
  BY <1>5, <1>n DEF RouterMsg, s_cb_unreg_dist_cli, Result, RemoveDist, Shape, BrokerFields
<1>6. CASE m.cmd = "FORWARD"
  <2> DEFINE c == TouchBroker(b, k)
             invalid == Result(c, <<>>, To(k, Nodst(m.dst, m.src)))
  <2>1. r = Nothing(b) \/ r = Route(c, m.src, m.dst, invalid)
    BY <1>6 DEF RouterMsg, s_cb_forward_rsock
  <2>2. invalid.b = c /\ DOMAIN c.lcl_br = DOMAIN b.lcl_br
    BY DEF Result, TouchBroker, Shape, BrokerFields
  <2> HIDE DEF c, invalid
  <2>3. r.b = b \/ r.b = c
    BY <1>n, <2>1, <2>2, RouteState
  <2> QED
    BY <2>2, <2>3
<1>7. CASE m.cmd \notin {"ADDBR", "CHALLOK", "PING", "ADDDCL", "UNREGDCLI", "FORWARD"}
  <2>1. r = Nothing(b)
    BY <1>7 DEF RouterMsg
  <2> QED
    BY <1>n, <2>1
<1> QED
  BY <1>1, <1>2, <1>3, <1>4, <1>5, <1>6, <1>7

\* The message the higher broker reads is not there any more.
LEMMA ReadUp ==
  ASSUME TreeInv, NEW k \in Conns, up[k] # <<>>, NEW up0, up0 = [up EXCEPT ![k] = Tail(@)]
  PROVE  /\ IsSeq(up[k]) /\ up0[k] = Tail(up[k]) /\ \A x \in Conns : x # k => up0[x] = up[x]
         /\ ReadFrom(conn, up0, down)
         /\ \A n : Spoken(n, up) => Spoken(n, up0)
<1>1. ChannelsOK(conn, up, down)
  BY DEF TreeInv
<1>2. /\ up0 = [x \in Conns |-> up0[x]] /\ up0[k] = Tail(up[k])
      /\ \A x \in Conns : x # k => up0[x] = up[x]
  BY <1>1 DEF ChannelsOK
<1>3. IsSeq(up[k]) /\ IsSeq(Tail(up[k])) /\ ~(k[2] > conn[k[1]])
  <2>1. IsSeq(up[k])
    BY <1>1 DEF ChannelsOK
  <2>2. IsSeq(Tail(up[k]))
    BY <2>1, AfterHead
  <2>3. ~(k[2] > conn[k[1]])
    BY <1>1 DEF ChannelsOK
  <2> QED
    BY <2>1, <2>2, <2>3
<1>4. ReadFrom(conn, up0, down)
  BY <1>1, <1>2, <1>3 DEF ReadFrom, ChannelsOK
<1>5. ASSUME NEW n, Spoken(n, up) PROVE Spoken(n, up0)
  <2>1. Silent(n, up[k]) => Silent(n, Tail(up[k]))
    <3>1. \A i \in DOMAIN Tail(up[k]) : i + 1 \in DOMAIN up[k] /\ Tail(up[k])[i] = up[k][i + 1]
      BY <1>3, AfterHead
    <3> QED
      BY <3>1 DEF Silent
  <2> QED
    BY <1>2, <1>5, <2>1 DEF Spoken
<1> QED
  BY <1>2, <1>3, <1>4, <1>5

\* What a name's state at the higher broker can be when a lower one speaks of it:
\* no client of its own has it, and it is routed to that broker or not at all.
LEMMA SpokenHere ==
  ASSUME Acyclic, RoutesOK(br, conn), GivenUp(br, conn, up, down),
         SocketsOK(br, conn, up, down), NEW n, Sole(n), OnWay(n, br),
         NEW y \in Lower, Way(n, y), LocalsOK(br[Parent[y]], Parent[y])
  PROVE  /\ n \notin DOMAIN br[Parent[y]].rev_lcl_cli
         /\ n \in DOMAIN br[Parent[y]].dist_cli => br[Parent[y]].dist_cli[n] = Dealer(y)
<1> DEFINE p == Parent[y]
<1>1. p \in Brokers
  BY TreeAssumption
<1>2. ASSUME n \in DOMAIN br[p].rev_lcl_cli PROVE FALSE
  <2> DEFINE j == br[p].rev_lcl_cli[n]
  <2>1. j \in DOMAIN br[p].lcl_cli /\ br[p].lcl_cli[j].name = n
    BY <1>2 DEF LocalsOK
  <2>2. PICK c \in Clients : /\ Home[c] = p
                             /\ br[p].lcl_cli[j] = [name |-> NameOf[c], timeout |-> br[p].lcl_cli[j].timeout]
    BY <2>1 DEF LocalsOK
  <2>3. NameOf[c] = n
    <3>1. [name |-> NameOf[c], timeout |-> br[p].lcl_cli[j].timeout].name = NameOf[c]
      OBVIOUS
    <3> QED
      BY <2>1, <2>2, <3>1
  <2> QED
    BY <2>2, <2>3, WayHome
<1>3. ASSUME n \in DOMAIN br[p].dist_cli PROVE br[p].dist_cli[n] = Dealer(y)
  <2>1. PICK x \in Lower : /\ br[p].dist_cli[n] = Dealer(x) /\ br[p].dist_cli[n][1] = x
                           /\ Parent[x] = p
    BY <1>1, <1>3, RouteLinked
  <2>2. Way(n, x)
    BY <1>1, <1>3, <2>1 DEF OnWay
  <2>3. x = y
    BY <2>1, <2>2, WayOne
  <2> QED
    BY <2>1, <2>3
<1> QED
  BY <1>2, <1>3

\* A message of a lower broker, and one name.
LEMMA UpNames ==
  ASSUME Acyclic, TreeInv, TimelyInv, SocketsOK(br, conn, up, down),
         \A b \in Brokers : LocalsOK(br[b], b),
         NEW n, Sole(n), NameOK(n, br, conn, up, down), NEW k \in Conns, ReceiveUp(k)
  PROVE  NameOK(n, br', conn', up', down')
<1> DEFINE y == k[1]
           p == Parent[k[1]]
           h == Head(up[k])
           r == RouterMsg(br[p], k, h)
           up0 == [up EXCEPT ![k] = Tail(@)]
<1>1. /\ BrokersOK(br) /\ ChannelsOK(conn, up, down) /\ TokensOK(br, conn, up, down)
      /\ RoutesOK(br, conn) /\ GivenUp(br, conn, up, down)
  BY DEF TreeInv, TimelyInv
<1>2. up[k] # <<>> /\ Finish(p, r, up0, down) /\ UNCHANGED conn
  BY DEF ReceiveUp
<1>3. p \in Brokers /\ y \in Lower /\ k = <<y, k[2]>>
  BY TreeAssumption, ConnFacts
<1>4. Shape(br[p]) /\ LocalsOK(br[p], p) /\ OnWay(n, br) /\ Spoken(n, up) /\ NotRefused(n, down)
  BY <1>1, <1>3 DEF BrokersOK, NameOK
<1>5. Tame(br[p], r, k)
  BY <1>4, RouterTame
<1>6. \/ DOMAIN r.b.lcl_br \subseteq DOMAIN br[p].lcl_br
      \/ h.cmd = "CHALLOK"
  BY <1>4, RouterAdmits
<1>7. DOMAIN r.b.lcl_br \subseteq DOMAIN br[p].lcl_br \cup {k}
  BY <1>4, RouterAlong
<1>8. /\ ~About(n, h) => Neutral(br[p], r, n)
      /\ h.cmd = "ADDDCL" => r = s_cb_adddcl(br[p], k, BrokerCookie, h.name)
      /\ h.cmd = "UNREGDCLI" => r = s_cb_unreg_dist_cli(br[p], k, BrokerCookie, h.name)
  BY <1>4, RouterNames
<1>9. /\ br' = [br EXCEPT ![p] = r.b]
      /\ up' = IF p = Root THEN up0 ELSE [up0 EXCEPT ![Dealer(p)] = @ \o r.up]
      /\ down' = [x \in Conns |-> down[x] \o Sent(r.rout, x)]
  BY <1>2 DEF Finish
<1> HIDE DEF r, up0
<1>10. /\ IsSeq(up[k]) /\ up0[k] = Tail(up[k]) /\ \A x \in Conns : x # k => up0[x] = up[x]
       /\ ReadFrom(conn, up0, down) /\ Spoken(n, up0)
  BY <1>2, <1>4, ReadUp DEF up0
<1>11. Fit(r) /\ r.b.state = br[p].state /\ IsSeq(r.up)
  BY <1>1, <1>3, <1>5 DEF Tame, Fit, SameScalars, BrokersOK
<1>12. k = Dealer(y)
  BY <1>2, <1>3 DEF SocketsOK, Dealer
<1>13. 1 \in DOMAIN up[k] /\ h = up[k][1]
  BY <1>2, <1>10, AfterHead
<1>14. /\ \A x \in Lower : x # y => up0[Dealer(x)] = up[Dealer(x)] /\ Dealer(x) # k
       /\ p # y /\ Dealer(y) = k
  BY <1>1, <1>3, <1>10, <1>12, DealerIsConn, NotOwnParent
<1>15. About(n, h) => Way(n, y)
  BY <1>4, <1>13 DEF Spoken, Silent
<1>16. h.cmd = "CHALLOK" => br[y].state # REGISTERED
  <2>1. br[y].state = REGISTERED => NoneOf(UpTokens, up[k])
    BY <1>1, <1>3, <1>12 DEF TokensOK, NoToken, Dealer
  <2> QED
    BY <1>13, <2>1 DEF NoneOf, UpTokens
<1>17. InStep(n, br, conn, up)
  BY DEF NameOK
<1> HIDE DEF h
<1>18. CASE ~About(n, h) \/ (r = Nothing(br[p]) /\ k \notin DOMAIN br[p].lcl_br)
  <2>1. Neutral(br[p], r, n)
    BY <1>8, <1>18, NothingNeutral
  <2>2. Moves(n, p, br[p], r)
    BY <1>11, <2>1, NeutralMoves
  <2>3. ASSUME NEW x \in Lower, Parent[x] = p, br[x].state = REGISTERED,
               Dealer(x) \in DOMAIN r.b.lcl_br
        PROVE  /\ Dealer(x) \in DOMAIN br[p].lcl_br
               /\ \A s, e : Orderly(n, up[Dealer(x)], s, e) => Orderly(n, up0[Dealer(x)], s, e)
    <3>1. CASE x = y
      <4>1. DOMAIN r.b.lcl_br \subseteq DOMAIN br[p].lcl_br
        BY <1>6, <1>16, <2>3, <3>1
      <4>2. k \in DOMAIN br[p].lcl_br
        BY <1>12, <2>3, <3>1, <4>1
      <4>3. ~About(n, h)
        BY <1>18, <4>2
      <4>4. \A s, e : Orderly(n, up[k], s, e) => Orderly(n, Tail(up[k]), s, e)
        BY <1>2, <1>10, <4>3, OrderlyTail DEF h
      <4> QED
        BY <1>10, <1>12, <3>1, <4>2, <4>4
    <3>2. CASE x # y
      BY <1>7, <1>14, <2>3, <3>2
    <3> QED
      BY <3>1, <3>2
  <2>4. BelowKept(n, p, r, up0)
    BY <1>14, <2>3 DEF BelowKept
  <2> HIDE DEF p
  <2> QED
    BY <1>1, <1>2, <1>3, <1>4, <1>9, <1>10, <1>11, <2>2, <2>4, MovesStep
<1>19. ASSUME About(n, h), k \in DOMAIN br[p].lcl_br
       PROVE  /\ Way(n, y) /\ Way(n, p) /\ n \notin DOMAIN br[p].rev_lcl_cli
              /\ n \in DOMAIN br[p].dist_cli => br[p].dist_cli[n] = k
              /\ br[y].state = REGISTERED => Orderly(n, up[k], Routed(n, br[p], k), Has(n, br[y]))
  <2>1. Way(n, y)
    BY <1>15, <1>19
  <2>2. Way(n, p)
    BY <1>3, <2>1, WayUp
  <2>3. /\ n \notin DOMAIN br[p].rev_lcl_cli
        /\ n \in DOMAIN br[p].dist_cli => br[p].dist_cli[n] = k
    BY <1>1, <1>3, <1>4, <1>12, <2>1, SpokenHere
  <2>4. br[y].state = REGISTERED => Orderly(n, up[k], Routed(n, br[p], k), Has(n, br[y]))
    BY <1>3, <1>12, <1>17, <1>19 DEF InStep, Dealer
  <2> QED
    BY <2>1, <2>2, <2>3, <2>4
<1>20. ASSUME p \in Lower, Dealer(p) \in DOMAIN br[Parent[p]].lcl_br, br[p].state = REGISTERED
       PROVE  /\ Orderly(n, up[Dealer(p)], Routed(n, br[Parent[p]], Dealer(p)), Has(n, br[p]))
              /\ up0[Dealer(p)] = up[Dealer(p)] /\ IsSeq(up[Dealer(p)])
  <2>1. Dealer(p) \in Conns
    BY <1>1, <1>20, DealerIsConn
  <2>2. IsSeq(up[Dealer(p)])
    BY <1>1, <2>1 DEF ChannelsOK
  <2>3. Orderly(n, up[Dealer(p)], Routed(n, br[Parent[p]], Dealer(p)), Has(n, br[p]))
    BY <1>17, <1>20 DEF InStep, Dealer
  <2> QED
    BY <1>14, <1>20, <2>2, <2>3
<1> HIDE DEF p
<1>21. CASE Adds(n, h) /\ ~(r = Nothing(br[p]) /\ k \notin DOMAIN br[p].lcl_br)
  <2>1. h.cmd = "ADDDCL" /\ h.name = n /\ About(n, h)
    BY <1>21 DEF Adds, About
  <2>2. /\ k \in DOMAIN br[p].lcl_br /\ r.b.lcl_br = br[p].lcl_br
        /\ \/ n \in DOMAIN br[p].rev_lcl_cli \/ n \in DOMAIN br[p].dist_cli
           \/ /\ r.b.rev_lcl_cli = br[p].rev_lcl_cli
              /\ n \in DOMAIN r.b.dist_cli /\ r.b.dist_cli[n] = k
              /\ n \notin DOMAIN br[p].rev_lcl_cli /\ n \notin DOMAIN br[p].dist_cli
              /\ r.up = add_cli_up(br[p], n) /\ r.rout = {}
    BY <1>4, <1>8, <1>21, <2>1, AdddclNames
  <2>3. br[y].state = REGISTERED
    <3>1. br[y].state # REGISTERED => NoneOf({"ADDDCL"}, up[k])
      BY <1>1, <1>3, <1>12 DEF GivenUp, Dealer
    <3> QED
      BY <1>13, <2>1, <3>1 DEF NoneOf
  <2>4. Routed(n, br[p], k) \in BOOLEAN
    BY DEF Routed
  <2>5. Orderly(n, up[k], Routed(n, br[p], k), Has(n, br[y]))
    BY <1>19, <2>1, <2>2, <2>3
  <2>6. ~Routed(n, br[p], k) /\ Orderly(n, Tail(up[k]), TRUE, Has(n, br[y]))
    BY <1>2, <1>10, <1>21, <2>5, OrderlyTail DEF h
  <2>7. n \notin DOMAIN br[p].rev_lcl_cli /\ n \notin DOMAIN br[p].dist_cli
    BY <1>19, <2>1, <2>2, <2>6 DEF Routed
  <2>8. /\ r.b.rev_lcl_cli = br[p].rev_lcl_cli
        /\ n \in DOMAIN r.b.dist_cli /\ r.b.dist_cli[n] = k
        /\ r.up = add_cli_up(br[p], n) /\ r.rout = {}
    BY <2>2, <2>7
  <2>9. Way(n, r.b.dist_cli[n][1]) /\ Way(n, p)
    BY <1>19, <2>1, <2>2, <2>8
  <2>10. NoRefusal(n, r.rout)
    BY <2>8 DEF NoRefusal
  <2>11. OwnInStep(n, p, r, up0)
    <3>1. SUFFICES ASSUME p \in Lower, r.b.state = REGISTERED,
                          Dealer(p) \in DOMAIN br[Parent[p]].lcl_br
                   PROVE  Orderly(n, up0[Dealer(p)] \o r.up, Routed(n, br[Parent[p]], Dealer(p)),
                                  Has(n, r.b))
      BY DEF OwnInStep
    <3>2. Has(n, br[p]) = FALSE /\ Has(n, r.b) = TRUE
      BY <2>7, <2>8 DEF Has
    <3>3. Orderly(n, r.up, FALSE, TRUE)
      BY <1>11, <2>8, <3>1, OneTells
    <3>4. /\ Orderly(n, up[Dealer(p)], Routed(n, br[Parent[p]], Dealer(p)), FALSE)
          /\ up0[Dealer(p)] = up[Dealer(p)] /\ IsSeq(up[Dealer(p)])
      BY <1>11, <1>20, <3>1, <3>2
    <3>5. Orderly(n, up[Dealer(p)] \o r.up, Routed(n, br[Parent[p]], Dealer(p)), TRUE)
      BY <1>11, <3>3, <3>4, OrderlyConcat
    <3> QED
      BY <3>2, <3>4, <3>5
  <2>12. BelowInStep(n, p, r, up0)
    <3>1. ASSUME NEW x \in Lower, Parent[x] = p, br[x].state = REGISTERED,
                 Dealer(x) \in DOMAIN r.b.lcl_br
          PROVE  Orderly(n, up0[Dealer(x)], Routed(n, r.b, Dealer(x)), Has(n, br[x]))
      <4>1. CASE x = y
        <5>1. Routed(n, r.b, k) = TRUE
          BY <2>8 DEF Routed
        <5> QED
          BY <1>10, <1>12, <2>6, <4>1, <5>1
      <4>2. CASE x # y
        <5>1. Routed(n, r.b, Dealer(x)) = FALSE /\ Routed(n, br[p], Dealer(x)) = FALSE
          BY <1>14, <2>7, <2>8, <4>2 DEF Routed
        <5>2. Orderly(n, up[Dealer(x)], Routed(n, br[p], Dealer(x)), Has(n, br[x]))
          BY <1>17, <2>2, <3>1 DEF InStep, Dealer
        <5> QED
          BY <1>14, <4>2, <5>1, <5>2
      <4> QED
        BY <4>1, <4>2
    <3>2. \A x \in Lower : Parent[x] # p => up0[Dealer(x)] = up[Dealer(x)]
      BY <1>14 DEF p
    <3> QED
      BY <3>1, <3>2 DEF BelowInStep
  <2> QED
    BY <1>1, <1>2, <1>3, <1>4, <1>9, <1>10, <1>11, <2>9, <2>10, <2>11, <2>12, NamesStep
<1>22. CASE Takes(n, h) /\ ~(r = Nothing(br[p]) /\ k \notin DOMAIN br[p].lcl_br)
  <2>1. h.cmd = "UNREGDCLI" /\ h.name = n /\ About(n, h)
    BY <1>22 DEF Takes, About
  <2>2. /\ r.b.lcl_br = br[p].lcl_br
        /\ \/ n \notin DOMAIN br[p].dist_cli /\ r = Nothing(br[p]) /\ k \in DOMAIN br[p].lcl_br
           \/ /\ k \in DOMAIN br[p].lcl_br
              /\ r.b.rev_lcl_cli = br[p].rev_lcl_cli /\ n \notin DOMAIN r.b.dist_cli
              /\ r.up = del_cli_up(br[p], <<n>>) /\ r.rout = {}
    BY <1>4, <1>8, <1>22, <2>1, UnregdcliNames
  <2>3. /\ Way(n, y) /\ Way(n, p) /\ n \notin DOMAIN br[p].rev_lcl_cli
        /\ n \in DOMAIN br[p].dist_cli => br[p].dist_cli[n] = k
        /\ br[y].state = REGISTERED => Orderly(n, up[k], Routed(n, br[p], k), Has(n, br[y]))
    BY <1>19, <2>1, <2>2
  <2>4. /\ r.b.rev_lcl_cli = br[p].rev_lcl_cli /\ n \notin DOMAIN r.b.dist_cli
        /\ NoRefusal(n, r.rout) /\ Has(n, r.b) = FALSE
        /\ \/ r.up = <<>> /\ n \notin DOMAIN br[p].dist_cli
           \/ r.up = del_cli_up(br[p], <<n>>)
    <3>1. Nothing(br[p]).b = br[p] /\ Nothing(br[p]).rout = {} /\ Nothing(br[p]).up = <<>>
      BY DEF Nothing, Result
    <3> QED
      BY <2>2, <2>3, <3>1 DEF NoRefusal, Has
  <2>5. OwnInStep(n, p, r, up0)
    <3>1. SUFFICES ASSUME p \in Lower, r.b.state = REGISTERED,
                          Dealer(p) \in DOMAIN br[Parent[p]].lcl_br
                   PROVE  Orderly(n, up0[Dealer(p)] \o r.up, Routed(n, br[Parent[p]], Dealer(p)),
                                  Has(n, r.b))
      BY DEF OwnInStep
    <3>2. Orderly(n, r.up, Has(n, br[p]), FALSE)
      <4>1. CASE r.up = <<>> /\ n \notin DOMAIN br[p].dist_cli
        <5>1. Has(n, br[p]) = FALSE
          BY <2>3, <4>1 DEF Has
        <5>2. Silent(n, <<>>) /\ \A i \in DOMAIN <<>> : ~Adds(n, <<>>[i])
          BY SilentUp
        <5>3. Orderly(n, <<>>, FALSE, FALSE)
          BY <5>2, ShortSeqs, OrderlySilent
        <5> QED
          BY <4>1, <5>1, <5>3
      <4>2. CASE r.up = del_cli_up(br[p], <<n>>)
        <5>1. Has(n, br[p]) \in BOOLEAN
          BY DEF Has
        <5>2. \A s \in BOOLEAN : Orderly(n, r.up, s, FALSE)
          BY <1>11, <3>1, <4>2, OneTells
        <5> QED
          BY <5>1, <5>2
      <4> QED
        BY <2>4, <4>1, <4>2
    <3>3. /\ Orderly(n, up[Dealer(p)], Routed(n, br[Parent[p]], Dealer(p)), Has(n, br[p]))
          /\ up0[Dealer(p)] = up[Dealer(p)] /\ IsSeq(up[Dealer(p)])
      BY <1>11, <1>20, <3>1
    <3>4. Orderly(n, up[Dealer(p)] \o r.up, Routed(n, br[Parent[p]], Dealer(p)), FALSE)
      BY <1>11, <3>2, <3>3, OrderlyConcat
    <3> QED
      BY <2>4, <3>3, <3>4
  <2>6. BelowInStep(n, p, r, up0)
    <3>1. ASSUME NEW x \in Lower, Parent[x] = p, br[x].state = REGISTERED,
                 Dealer(x) \in DOMAIN r.b.lcl_br
          PROVE  Orderly(n, up0[Dealer(x)], Routed(n, r.b, Dealer(x)), Has(n, br[x]))
      <4>0. Routed(n, r.b, Dealer(x)) = FALSE
        BY <2>4 DEF Routed
      <4>1. CASE x = y
        <5>1. Orderly(n, Tail(up[k]), FALSE, Has(n, br[y]))
          BY <1>2, <1>10, <1>22, <2>3, <3>1, <4>1, OrderlyTail DEF h
        <5> QED
          BY <1>10, <1>12, <4>0, <4>1, <5>1
      <4>2. CASE x # y
        <5>1. Routed(n, br[p], Dealer(x)) = FALSE
          BY <1>14, <2>3, <4>2 DEF Routed
        <5>2. Orderly(n, up[Dealer(x)], Routed(n, br[p], Dealer(x)), Has(n, br[x]))
          BY <1>17, <2>2, <3>1 DEF InStep, Dealer
        <5> QED
          BY <1>14, <4>0, <4>2, <5>1, <5>2
      <4> QED
        BY <4>1, <4>2
    <3>2. \A x \in Lower : Parent[x] # p => up0[Dealer(x)] = up[Dealer(x)]
      BY <1>14 DEF p
    <3> QED
      BY <3>1, <3>2 DEF BelowInStep
  <2> QED
    BY <1>1, <1>2, <1>3, <1>4, <1>9, <1>10, <1>11, <2>3, <2>4, <2>5, <2>6, NamesStep
<1> QED
  BY <1>18, <1>21, <1>22 DEF About

\* A REGOK that is written for the present socket goes into it.
LEMMA RegokSent ==
  ASSUME NEW k, k = Dealer(k[1])
  PROVE  ~NoneOf({"REGOK"}, Sent(To(k, Simple("REGOK")), k))
<1> DEFINE rout == To(k, Simple("REGOK"))
           o1 == CHOOSE o \in rout : o.to = k
<1>1. rout = {[to |-> k, m |-> Simple("REGOK")]}
  BY DEF To
<1>2. [to |-> k, m |-> Simple("REGOK")] \in rout /\ \E o \in rout : o.to = k
  <2>1. [to |-> k, m |-> Simple("REGOK")].to = k
    OBVIOUS
  <2> HIDE DEF rout
  <2> QED
    BY <1>1, <2>1
<1>3. o1 \in rout
  <2> HIDE DEF rout
  <2> QED
    BY <1>2
<1>4. o1.m = Simple("REGOK")
  BY <1>1, <1>3
<1> HIDE DEF rout, o1
<1>5. Sent(rout, k) = <<o1.m>>
  BY <1>2 DEF Sent, o1
<1>6. 1 \in DOMAIN <<o1.m>> /\ <<o1.m>>[1] = o1.m
  OBVIOUS
<1>7. Simple("REGOK").cmd = "REGOK"
  BY DEF Simple
<1> QED
  BY <1>4, <1>5, <1>6, <1>7 DEF NoneOf, rout

\* A message of a lower broker.
LEMMA ReceiveUpKeeps ==
  ASSUME Acyclic, TreeInv, TimelyInv, NamesInv, NEW k \in Conns, ReceiveUp(k)
  PROVE  NamesInv'
<1> DEFINE p == Parent[k[1]]
           h == Head(up[k])
           r == RouterMsg(br[p], k, h)
           up0 == [up EXCEPT ![k] = Tail(@)]
<1>1. BrokersOK(br) /\ ChannelsOK(conn, up, down)
  BY DEF TreeInv
<1>2. up[k] # <<>> /\ Finish(p, r, up0, down) /\ UNCHANGED <<conn, crashes>>
  BY DEF ReceiveUp
<1>3. p \in Brokers /\ k[1] \in Lower /\ k = <<k[1], k[2]>>
  BY TreeAssumption, ConnFacts
<1>4. Shape(br[p]) /\ LocalsOK(br[p], p)
  BY <1>1, <1>3 DEF BrokersOK, NamesInv
<1>5. Tame(br[p], r, k)
  BY <1>4, RouterTame
<1>6. \/ DOMAIN r.b.lcl_br \subseteq DOMAIN br[p].lcl_br
      \/ r.rout = To(k, Simple("REGOK"))
  BY <1>4, RouterAdmits
<1>7. DOMAIN r.b.lcl_br \subseteq DOMAIN br[p].lcl_br \cup {k}
  BY <1>4, RouterAlong
<1>8. LocalsOK(r.b, p)
  BY <1>4, RouterNames
<1>9. /\ br' = [br EXCEPT ![p] = r.b]
      /\ up' = IF p = Root THEN up0 ELSE [up0 EXCEPT ![Dealer(p)] = @ \o r.up]
      /\ down' = [x \in Conns |-> down[x] \o Sent(r.rout, x)]
  BY <1>2 DEF Finish
<1> HIDE DEF r, up0
<1>10. /\ IsSeq(up[k]) /\ up0[k] = Tail(up[k]) /\ \A x \in Conns : x # k => up0[x] = up[x]
       /\ ReadFrom(conn, up0, down)
  BY <1>2, ReadUp DEF up0
<1>11. Fit(r) /\ r.b.state = br[p].state
  BY <1>1, <1>3, <1>5 DEF Tame, Fit, SameScalars, BrokersOK
<1>12. \A x \in Brokers : LocalsOK(br'[x], x)
  BY <1>1, <1>3, <1>8, <1>9, <1>11, LocalsStep DEF NamesInv
<1>13. LowerStays' <=> LowerStays
  BY <1>2 DEF LowerStays
<1>14. ASSUME LowerStays PROVE SocketsOK(br', conn', up', down')
  <2>1. SocketsOK(br, conn, up, down)
    BY <1>14 DEF NamesInv
  <2>2. k[2] = conn[k[1]]
    BY <1>2, <2>1 DEF SocketsOK
  <2>3. k = Dealer(k[1])
    BY <1>3, <2>2 DEF Dealer
  <2>4. ASSUME NEW x \in Conns, x[2] # conn[x[1]] PROVE up0[x] = <<>>
    BY <1>10, <2>1, <2>2, <2>4 DEF SocketsOK
  <2>5. ASSUME NEW x \in Conns, x \in DOMAIN r.b.lcl_br, x \notin DOMAIN br[p].lcl_br
        PROVE  x[2] = conn[x[1]] /\ ~NoneOf({"REGOK"}, Sent(r.rout, x))
    <3>1. x = k /\ r.rout = To(k, Simple("REGOK"))
      BY <1>6, <1>7, <2>5
    <3> QED
      BY <2>2, <2>3, <3>1, RegokSent
  <2>6. \A x \in Conns : x \in DOMAIN r.b.lcl_br =>
          \/ x \in DOMAIN br[p].lcl_br
          \/ x[2] = conn[x[1]] /\ ~NoneOf({"REGOK"}, Sent(r.rout, x))
    BY <2>5
  <2>7. \A x \in Conns : x[2] # conn[x[1]] => up0[x] = <<>>
    BY <2>4
  <2> HIDE DEF p
  <2>8. SocketsMove(p, r, up0, down)
    BY <1>11, <2>6, <2>7 DEF SocketsMove
  <2> QED
    BY <1>1, <1>2, <1>3, <1>9, <1>10, <1>11, <2>1, <2>8, SocketsStep
<1>15. ASSUME LowerStays, NEW n, Sole(n) PROVE NameOK(n, br', conn', up', down')
  <2>1. /\ NameOK(n, br, conn, up, down) /\ SocketsOK(br, conn, up, down)
        /\ \A x \in Brokers : LocalsOK(br[x], x)
    BY <1>15 DEF NamesInv
  <2> QED
    BY <1>15, <2>1, UpNames
<1> QED
  BY <1>12, <1>13, <1>14, <1>15 DEF NamesInv

\* A name and a broker that has just been started.
LEMMA NewLocals ==
  ASSUME NEW state, NEW h
  PROVE  LET b == NewBroker(state) IN
         /\ LocalsOK(b, h) /\ DOMAIN b.rev_lcl_cli = {} /\ DOMAIN b.dist_cli = {}
         /\ DOMAIN b.lcl_br = {} /\ b.state = state
BY DEF NewBroker, LocalsOK

\* The root is started again: the brokers below it are not known to it, and what
\* they have said of a name stays what they have said.
LEMMA CrashKeeps ==
  ASSUME Acyclic, TreeInv, NamesInv, crashes \in BoundedSeq(MayCrash, MaxCrash),
         NEW b \in MayCrash, Crash(b)
  PROVE  NamesInv'
<1> DEFINE c == NewBroker(IF b = Root THEN ROOT ELSE UNREG)
<1>1. BrokersOK(br) /\ ChannelsOK(conn, up, down)
  BY DEF TreeInv
<1>2. /\ crashes' = Append(crashes, b)
      /\ br' = [br EXCEPT ![b] = c]
      /\ b = Root => conn' = conn
      /\ down' = [k \in Conns |-> IF k[1] = b THEN <<>> ELSE down[k]]
      /\ \A k \in Conns : up'[k] \in {up[k], <<>>}
      /\ \A k \in Conns : Parent[k[1]] # b => up'[k] = up[k]
  BY DEF Crash
<1>3. b \in Brokers /\ Root \notin Lower
  BY TreeAssumption DEF Lower
<1>4. /\ LocalsOK(c, b) /\ DOMAIN c.rev_lcl_cli = {} /\ DOMAIN c.dist_cli = {}
      /\ DOMAIN c.lcl_br = {}
  BY NewLocals
<1> HIDE DEF c
<1>5. br'[b] = c /\ \A x \in Brokers : x # b => br'[x] = br[x]
  BY <1>1, <1>2, <1>3 DEF BrokersOK
<1>6. \A x \in Brokers : LocalsOK(br'[x], x)
  BY <1>4, <1>5 DEF NamesInv
<1>7. ASSUME LowerStays' PROVE b = Root /\ LowerStays
  <2>0. PICK m \in 0 .. MaxCrash : crashes \in [1 .. m -> MayCrash]
    BY DEF BoundedSeq, SeqOf
  <2>1. crashes \in Seq(MayCrash)
    BY <2>0, TreeAssumption
  <2>2. Len(crashes) \in Nat /\ DOMAIN crashes = 1 .. Len(crashes)
    BY <2>1
  <2>3. DOMAIN crashes' = 1 .. Len(crashes) + 1
    BY <1>2, <2>1
  <2>4. crashes'[Len(crashes) + 1] = b /\ \A i \in DOMAIN crashes : crashes'[i] = crashes[i]
    BY <1>2, <2>1, <2>2
  <2>5. \A i \in DOMAIN crashes' : crashes'[i] = Root
    BY <1>7 DEF LowerStays, ToSet
  <2>6. \A i \in DOMAIN crashes : i \in DOMAIN crashes'
    BY <2>2, <2>3
  <2>7. Len(crashes) + 1 \in DOMAIN crashes'
    BY <2>2, <2>3
  <2> QED
    BY <2>4, <2>5, <2>6, <2>7 DEF LowerStays, ToSet
<1>8. SUFFICES ASSUME LowerStays'
               PROVE  /\ SocketsOK(br', conn', up', down')
                      /\ \A n : Sole(n) => NameOK(n, br', conn', up', down')
  BY <1>6 DEF NamesInv
<1>9. b = Root /\ LowerStays /\ conn' = conn /\ SocketsOK(br, conn, up, down)
  BY <1>2, <1>7, <1>8 DEF NamesInv
<1>10. \A k \in Conns : k[1] \in Lower /\ k[1] \in Brokers /\ k[1] # b /\ Parent[k[1]] \in Brokers
  BY <1>3, <1>9, ConnFacts, TreeAssumption DEF Lower
<1>11. \A k \in Conns : down'[k] = down[k] /\ br'[k[1]] = br[k[1]]
  BY <1>2, <1>5, <1>10
<1>12. SocketsOK(br', conn', up', down')
  <2>1. SUFFICES ASSUME NEW k \in Conns
                 PROVE  /\ k[2] # conn[k[1]] =>
                             up'[k] = <<>> /\ k \notin DOMAIN br'[Parent[k[1]]].lcl_br
                        /\ /\ k[2] = conn[k[1]] /\ br'[k[1]].state # REGISTERED
                           /\ k \in DOMAIN br'[Parent[k[1]]].lcl_br
                           => ~NoneOf({"REGOK"}, down'[k])
    BY <1>9 DEF SocketsOK
  <2>2. DOMAIN br'[Parent[k[1]]].lcl_br \subseteq DOMAIN br[Parent[k[1]]].lcl_br
    BY <1>4, <1>5, <1>10
  <2>3. up'[k] \in {up[k], <<>>}
    BY <1>2
  <2> QED
    BY <1>9, <1>11, <2>2, <2>3 DEF SocketsOK
<1>13. ASSUME NEW n, Sole(n) PROVE NameOK(n, br', conn', up', down')
  <2>1. OnWay(n, br) /\ Spoken(n, up) /\ NotRefused(n, down) /\ InStep(n, br, conn, up)
    BY <1>9, <1>13 DEF NamesInv, NameOK
  <2>2. OnWay(n, br')
    BY <1>4, <1>5, <2>1 DEF OnWay
  <2>3. Spoken(n, up')
    <3>1. Silent(n, <<>>)
      BY SilentUp
    <3> QED
      BY <1>2, <2>1, <3>1 DEF Spoken
  <2>4. NotRefused(n, down')
    BY <1>11, <2>1 DEF NotRefused
  <2>5. ASSUME NEW x \in Lower, br'[x].state = REGISTERED,
               <<x, conn[x]>> \in DOMAIN br'[Parent[x]].lcl_br
        PROVE  Orderly(n, up'[<<x, conn[x]>>], Routed(n, br'[Parent[x]], <<x, conn[x]>>),
                       Has(n, br'[x]))
    <3>1. Parent[x] # b /\ Parent[x] \in Brokers /\ x # b /\ x \in Brokers
      BY <1>3, <1>4, <1>5, <1>9, <2>5, NotOwnParent
    <3>2. br'[Parent[x]] = br[Parent[x]] /\ br'[x] = br[x]
      BY <1>5, <3>1
    <3>3. <<x, conn[x]>> \in Conns /\ <<x, conn[x]>>[1] = x
      BY <1>1, DealerIsConn DEF Dealer
    <3>4. up'[<<x, conn[x]>>] = up[<<x, conn[x]>>]
      BY <1>2, <3>1, <3>3
    <3> QED
      BY <2>1, <2>5, <3>2, <3>4 DEF InStep
  <2>6. InStep(n, br', conn', up')
    BY <1>9, <2>5 DEF InStep
  <2> QED
    BY <2>2, <2>3, <2>4, <2>6 DEF NameOK
<1> QED
  BY <1>12, <1>13

\* A broker that registers again leaves an empty socket that the higher broker does
\* not know.
LEMMA RegisterKeeps ==
  ASSUME Timely = TRUE, Acyclic, TreeInv, TimelyInv, NamesInv, NEW b \in Lower, Register(b)
  PROVE  NamesInv'
<1> DEFINE k == Dealer(b)
           k2 == <<b, conn[b] + 1>>
<1>1. BrokersOK(br) /\ ChannelsOK(conn, up, down) /\ RoutesOK(br, conn)
  BY DEF TreeInv, TimelyInv
<1>2. PICK j \in 0 .. Len(up[k]) :
        up' = [up EXCEPT ![k] = SubSeq(@, 1, j), ![k2] = s_register(br[b]).up]
  BY DEF Register
<1>3. /\ Unregistered(br[b]) /\ conn[b] < MaxConn[b] /\ conn' = [conn EXCEPT ![b] = @ + 1]
      /\ down' = [down EXCEPT ![k] = <<>>] /\ UNCHANGED <<br, crashes>>
      /\ up[k] = <<>> /\ down[k] = <<>>
  BY DEF Register, Idle
<1>4. /\ conn = [x \in Lower |-> conn[x]] /\ \A x \in Lower : conn[x] \in 0 .. MaxConn[x]
      /\ \A x \in Lower : MaxConn[x] \in Nat
      /\ up = [x \in Conns |-> up[x]] /\ down = [x \in Conns |-> down[x]]
  BY <1>1, ConnFacts DEF ChannelsOK
<1>5. conn'[b] = conn[b] + 1 /\ \A x \in Lower : x # b => conn'[x] = conn[x]
  BY <1>3, <1>4
<1>6. /\ k \in Conns /\ k2 \in Conns /\ k = <<b, conn[b]>> /\ k # k2
      /\ k2[1] = b /\ k2[2] = conn[b] + 1 /\ conn[b] \in Nat
  <2>1. /\ conn[b] \in 0 .. MaxConn[b] /\ conn[b] + 1 \in 0 .. MaxConn[b] /\ conn[b] # conn[b] + 1
        /\ conn[b] \in Nat
    BY <1>3, <1>4
  <2>2. <<b, conn[b]>> \in Conns /\ k2 \in Conns
    BY <2>1, ConnFacts
  <2>3. k = <<b, conn[b]>>
    BY DEF Dealer
  <2> QED
    BY <2>1, <2>2, <2>3
<1>7. s_register(br[b]).up = <<Simple("ADDBR")>>
  BY <1>3 DEF s_register, Result
<1>8. j = 0 /\ SubSeq(<<>>, 1, 0) = <<>>
  BY <1>2, <1>3
<1>9. /\ up'[k] = <<>> /\ up'[k2] = <<Simple("ADDBR")>>
      /\ \A x \in Conns : x # k2 => up'[x] = up[x]
      /\ \A x \in Conns : down'[x] = down[x]
  BY <1>2, <1>3, <1>4, <1>6, <1>7, <1>8
<1>10. br[b].state # REGISTERED /\ Parent[b] \in Brokers
  BY <1>3, TreeAssumption DEF Unregistered, UNREG, ROOT, REGISTERED
<1> HIDE DEF k, k2
<1>11. k2 \notin DOMAIN br[Parent[b]].lcl_br
  BY <1>1, <1>6, <1>10 DEF RoutesOK
<1>12. LowerStays' <=> LowerStays
  BY <1>3 DEF LowerStays
<1>13. SUFFICES ASSUME LowerStays
                PROVE  /\ SocketsOK(br', conn', up', down')
                       /\ \A n : Sole(n) => NameOK(n, br', conn', up', down')
  BY <1>3, <1>12 DEF NamesInv
<1>14. SocketsOK(br, conn, up, down)
  BY <1>13 DEF NamesInv
<1>15. k \notin DOMAIN br[Parent[b]].lcl_br
  <2>1. NoneOf({"REGOK"}, down[k])
    BY <1>3, ShortSeqs
  <2>2. k[1] = b /\ k[2] = conn[b]
    BY <1>6
  <2> QED
    BY <1>6, <1>10, <1>14, <2>1, <2>2 DEF SocketsOK
<1>16. SocketsOK(br', conn', up', down')
  <2>1. SUFFICES ASSUME NEW x \in Conns
                 PROVE  /\ x[2] # conn'[x[1]] =>
                             up'[x] = <<>> /\ x \notin DOMAIN br[Parent[x[1]]].lcl_br
                        /\ /\ x[2] = conn'[x[1]] /\ br[x[1]].state # REGISTERED
                           /\ x \in DOMAIN br[Parent[x[1]]].lcl_br
                           => ~NoneOf({"REGOK"}, down'[x])
    BY <1>3 DEF SocketsOK
  <2>2. x[1] \in Lower /\ x = <<x[1], x[2]>>
    BY ConnFacts
  <2>3. CASE x = k2
    BY <1>5, <1>6, <1>11, <2>3
  <2>4. CASE x = k
    BY <1>5, <1>6, <1>9, <1>15, <2>4
  <2>5. CASE x # k /\ x # k2
    <3>1. x[1] = b => x[2] # conn[b] /\ x[2] # conn'[b]
      <4>1. x[1] = b /\ x[2] = conn[b] => x = k
        BY <1>6, <2>2
      <4>2. x[1] = b /\ x[2] = conn[b] + 1 => x = k2
        BY <2>2 DEF k2
      <4> QED
        BY <1>5, <2>5, <4>1, <4>2
    <3>2. x[2] # conn'[x[1]] <=> x[2] # conn[x[1]]
      BY <1>5, <2>2, <3>1
    <3> QED
      BY <1>9, <1>14, <2>5, <3>2 DEF SocketsOK
  <2> QED
    BY <2>3, <2>4, <2>5
<1>17. ASSUME NEW n, Sole(n) PROVE NameOK(n, br', conn', up', down')
  <2>1. OnWay(n, br) /\ Spoken(n, up) /\ NotRefused(n, down) /\ InStep(n, br, conn, up)
    BY <1>13, <1>17 DEF NamesInv, NameOK
  <2>2. Spoken(n, up')
    <3>1. Silent(n, <<Simple("ADDBR")>>)
      BY SilentUp DEF Simple
    <3> QED
      BY <1>9, <2>1, <3>1 DEF Spoken
  <2>3. NotRefused(n, down')
    BY <1>9, <2>1 DEF NotRefused
  <2>4. ASSUME NEW x \in Lower, br[x].state = REGISTERED,
               <<x, conn'[x]>> \in DOMAIN br[Parent[x]].lcl_br
        PROVE  Orderly(n, up'[<<x, conn'[x]>>], Routed(n, br[Parent[x]], <<x, conn'[x]>>),
                       Has(n, br[x]))
    <3>1. x # b /\ conn'[x] = conn[x]
      BY <1>5, <1>10, <2>4
    <3> DEFINE y == <<x, conn[x]>>
    <3>2. y \in Conns /\ y[1] = x
      BY <1>4, ConnFacts
    <3>3. up'[y] = up[y]
      BY <1>6, <1>9, <3>1, <3>2
    <3> QED
      BY <2>1, <2>4, <3>1, <3>3 DEF InStep
  <2>5. InStep(n, br', conn', up')
    BY <1>3, <2>4 DEF InStep
  <2>6. OnWay(n, br')
    BY <1>3, <2>1
  <2> QED
    BY <2>2, <2>3, <2>5, <2>6 DEF NameOK
<1> QED
  BY <1>16, <1>17

\* What a broker says when it has been taken in announces every name it has once.
LEMMA RegokTells ==
  ASSUME NEW A, NEW B, IsFiniteSet(A), IsFiniteSet(B),
         NEW l \in SetToSeqs(A), NEW d \in SetToSeqs(B), NEW n, ~(n \in A /\ n \in B),
         NEW u, u = [i \in DOMAIN (l \o d) |-> Adddcl((l \o d)[i])], IsSeq(u)
  PROVE  /\ n \in A \cup B => Orderly(n, u, FALSE, TRUE)
         /\ n \notin A \cup B => Silent(n, u) /\ Orderly(n, u, FALSE, FALSE)
<1> DEFINE w == l \o d
<1>1. l \in Seq(A) /\ d \in Seq(B)
  BY TraversalMeetsAll
<1>2. IsSeq(l) /\ IsSeq(d)
  BY <1>1, SeqIsSeq
<1>3. /\ \A i \in DOMAIN l : l[i] \in A
      /\ \A i \in DOMAIN d : d[i] \in B
  BY <1>1
<1>4. /\ \A x : x \in A <=> \E i \in DOMAIN l : l[i] = x
      /\ \A x : x \in B <=> \E i \in DOMAIN d : d[i] = x
  BY TraversalMeetsAll
<1>5. /\ \A i, j \in DOMAIN l : i # j => l[i] # l[j]
      /\ \A i, j \in DOMAIN d : i # j => d[i] # d[j]
  <2>1. /\ l \in [1 .. Cardinality(A) -> A]
        /\ \A i, j \in 1 .. Cardinality(A) : i # j => l[i] # l[j]
    BY DEF SetToSeqs
  <2>2. /\ d \in [1 .. Cardinality(B) -> B]
        /\ \A i, j \in 1 .. Cardinality(B) : i # j => d[i] # d[j]
    BY DEF SetToSeqs
  <2> QED
    BY <2>1, <2>2
<1>6. /\ IsSeq(w) /\ Len(l) \in Nat
      /\ \A i \in DOMAIN w : i \in Int
      /\ \A i \in DOMAIN l : i \in DOMAIN w /\ w[i] = l[i]
      /\ \A i \in DOMAIN d : Len(l) + i \in DOMAIN w /\ w[Len(l) + i] = d[i]
      /\ \A i \in DOMAIN w : \/ i \in DOMAIN l /\ w[i] = l[i]
                             \/ i - Len(l) \in DOMAIN d /\ w[i] = d[i - Len(l)]
  <2>1. IsSeq(w) /\ Len(l) \in Nat
    BY <1>1, <1>2, Concat
  <2>2. \A i \in DOMAIN w : i \in Int
    <3> HIDE DEF w
    <3> QED
      BY <2>1 DEF IsSeq
  <2> QED
    BY <1>2, <2>1, <2>2, Concat
<1>7. /\ DOMAIN u = DOMAIN w
      /\ \A i \in DOMAIN u : ~Takes(n, u[i]) /\ (Adds(n, u[i]) <=> w[i] = n)
  <2>1. \A x : ~Takes(n, Adddcl(x)) /\ (Adds(n, Adddcl(x)) <=> x = n)
    BY DEF Adddcl, Takes, Adds
  <2>2. DOMAIN u = DOMAIN w /\ \A i \in DOMAIN u : u[i] = Adddcl(w[i])
    OBVIOUS
  <2> HIDE DEF w
  <2> QED
    BY <2>1, <2>2
<1> HIDE DEF w
<1>8. ASSUME n \in A \cup B
      PROVE  \E j \in DOMAIN w : w[j] = n /\ \A i \in DOMAIN w : i # j => w[i] # n
  <2>1. CASE n \in A
    <3>1. PICK j \in DOMAIN l : l[j] = n
      BY <1>4, <2>1
    <3>2. ASSUME NEW i \in DOMAIN w, i # j, w[i] = n PROVE FALSE
      <4>1. CASE i \in DOMAIN l /\ w[i] = l[i]
        BY <1>5, <3>1, <3>2, <4>1
      <4>2. CASE i - Len(l) \in DOMAIN d /\ w[i] = d[i - Len(l)]
        BY <1>3, <2>1, <3>2, <4>2
      <4> QED
        BY <1>6, <4>1, <4>2
    <3>3. j \in DOMAIN w /\ w[j] = n
      BY <1>6, <3>1
    <3> QED
      BY <3>2, <3>3
  <2>2. CASE n \in B
    <3>1. PICK j \in DOMAIN d : d[j] = n
      BY <1>4, <2>2
    <3>2. ASSUME NEW i \in DOMAIN w, i # Len(l) + j, w[i] = n PROVE FALSE
      <4>1. CASE i \in DOMAIN l /\ w[i] = l[i]
        BY <1>3, <2>2, <3>2, <4>1
      <4>2. CASE i - Len(l) \in DOMAIN d /\ w[i] = d[i - Len(l)]
        <5>1. i - Len(l) = j
          BY <1>5, <3>1, <3>2, <4>2
        <5>2. i \in Int /\ Len(l) \in Nat
          BY <1>6
        <5>3. i = Len(l) + j
          BY <5>1, <5>2
        <5> QED
          BY <3>2, <5>3
      <4> QED
        BY <1>6, <4>1, <4>2
    <3>3. Len(l) + j \in DOMAIN w /\ w[Len(l) + j] = n
      BY <1>6, <3>1
    <3> QED
      BY <3>2, <3>3
  <2> QED
    BY <1>8, <2>1, <2>2
<1>9. ASSUME n \in A \cup B PROVE Orderly(n, u, FALSE, TRUE)
  <2>1. PICK j \in DOMAIN w : w[j] = n /\ \A i \in DOMAIN w : i # j => w[i] # n
    BY <1>8, <1>9
  <2>2. j \in DOMAIN u /\ Adds(n, u[j]) /\ \A i \in DOMAIN u : i # j => ~About(n, u[i])
    BY <1>7, <2>1 DEF About
  <2> QED
    BY <2>2, OrderlyOnce
<1>10. ASSUME n \notin A \cup B PROVE Silent(n, u) /\ Orderly(n, u, FALSE, FALSE)
  <2>1. ASSUME NEW i \in DOMAIN w PROVE w[i] # n
    BY <1>3, <1>6, <1>10
  <2>2. \A i \in DOMAIN u : ~Adds(n, u[i]) /\ ~About(n, u[i])
    BY <1>7, <2>1 DEF About
  <2>3. Silent(n, u)
    BY <2>2 DEF Silent
  <2> QED
    BY <2>2, <2>3, OrderlySilent
<1> QED
  BY <1>9, <1>10

\* A broker that has a name is on its way, and has it from one side only.
LEMMA HasOnWay ==
  ASSUME Acyclic, RoutesOK(br, conn), GivenUp(br, conn, up, down),
         SocketsOK(br, conn, up, down), NEW n, Sole(n), OnWay(n, br),
         NEW b \in Brokers, LocalsOK(br[b], b)
  PROVE  /\ n \in DOMAIN br[b].rev_lcl_cli \/ n \in DOMAIN br[b].dist_cli => Way(n, b)
         /\ ~(n \in DOMAIN br[b].rev_lcl_cli /\ n \in DOMAIN br[b].dist_cli)
<1>1. ASSUME n \in DOMAIN br[b].rev_lcl_cli PROVE Way(n, b) /\ n \notin DOMAIN br[b].dist_cli
  <2> DEFINE j == br[b].rev_lcl_cli[n]
  <2>1. j \in DOMAIN br[b].lcl_cli /\ br[b].lcl_cli[j].name = n
    BY <1>1 DEF LocalsOK
  <2>2. PICK c \in Clients : /\ Home[c] = b
                             /\ br[b].lcl_cli[j] = [name |-> NameOf[c], timeout |-> br[b].lcl_cli[j].timeout]
    BY <2>1 DEF LocalsOK
  <2>3. NameOf[c] = n
    <3>1. [name |-> NameOf[c], timeout |-> br[b].lcl_cli[j].timeout].name = NameOf[c]
      OBVIOUS
    <3> QED
      BY <2>1, <2>2, <3>1
  <2>4. Way(n, b)
    BY <2>2, <2>3, WayHome
  <2>5. n \notin DOMAIN br[b].dist_cli
    BY <2>2, <2>3, LocalNotDistant
  <2> QED
    BY <2>4, <2>5
<1>2. ASSUME n \in DOMAIN br[b].dist_cli PROVE Way(n, b)
  <2>1. PICK x \in Lower : br[b].dist_cli[n][1] = x /\ Parent[x] = b
    BY <1>2, RouteLinked
  <2>2. Way(n, x)
    BY <1>2, <2>1 DEF OnWay
  <2> QED
    BY <2>1, <2>2, WayUp
<1> QED
  BY <1>1, <1>2

\* A message of the higher broker.
LEMMA ReceiveDownKeeps ==
  ASSUME Acyclic, TreeInv, TimelyInv, NamesInv, NEW b \in Lower, ReceiveDown(b)
  PROVE  NamesInv'
<1> DEFINE k == Dealer(b)
           h == Head(down[k])
           down0 == [down EXCEPT ![k] = Tail(@)]
           A == DOMAIN br[b].rev_lcl_cli
           B == DOMAIN br[b].dist_cli
<1>1. /\ BrokersOK(br) /\ ChannelsOK(conn, up, down) /\ TokensOK(br, conn, up, down)
      /\ RoutesOK(br, conn) /\ GivenUp(br, conn, up, down)
  BY DEF TreeInv, TimelyInv
<1>2. PICK l \in SetToSeqs(A), d \in SetToSeqs(B) : Finish(b, DealerMsg(br[b], h, l \o d), up, down0)
  BY DEF ReceiveDown
<1> DEFINE r == DealerMsg(br[b], h, l \o d)
<1>3. down[k] # <<>> /\ UNCHANGED conn /\ UNCHANGED crashes
  BY DEF ReceiveDown
<1>4. b \in Brokers /\ b # Root /\ k \in Conns /\ k = <<b, conn[b]>> /\ k[1] = b
  BY <1>1, DealerIsConn DEF Lower, Dealer
<1>5. /\ br[b].state # CRASHED /\ Shape(br[b]) /\ FiniteTables(br[b]) /\ br[b].state \in States
      /\ LocalsOK(br[b], b) /\ IsFiniteSet(A) /\ IsFiniteSet(B)
  BY <1>1, <1>2, <1>4 DEF Finish, BrokersOK, NamesInv, FiniteTables
<1>6. IsSeq(l \o d)
  <2>1. l \in Seq(A)
    BY <1>5, TraversalMeetsAll
  <2>2. d \in Seq(B)
    BY <1>5, TraversalMeetsAll
  <2>3. IsSeq(l) /\ IsSeq(d)
    BY <2>1, <2>2, SeqIsSeq
  <2> QED
    BY <2>3, Concat
<1>7. /\ Fit(r)
      /\ h.cmd = "REGOK" => r.b.state = REGISTERED
      /\ h.cmd # "REGOK" => r.b.state \in {br[b].state, CRASHED}
  BY <1>5, <1>6, DealerFits
<1>8. /\ NoRouteAdded(br[b], r.b)
      /\ r.b.state # REGISTERED => br[b].state # REGISTERED
  BY <1>5, DealerAlong
<1>13. /\ LocalsOK(r.b, b)
       /\ \A n : ~Refuses(n, h) => /\ NameKept(br[b], r.b, n) /\ NoRefusal(n, r.rout)
                                   /\ h.cmd # "REGOK" => Silent(n, r.up)
       /\ h.cmd = "REGOK" => r.up = [i \in DOMAIN (l \o d) |-> Adddcl((l \o d)[i])]
  <2> DEFINE Good(v, w) ==
               /\ LocalsOK(v.b, b)
               /\ \A n : ~Refuses(n, h) => /\ NameKept(br[b], v.b, n) /\ NoRefusal(n, v.rout)
                                           /\ h.cmd # "REGOK" => Silent(n, v.up)
               /\ h.cmd = "REGOK" => v.up = [i \in DOMAIN w |-> Adddcl(w[i])]
  <2> HIDE DEF h
  <2>1. \A w : Good(DealerMsg(br[b], h, w), w)
    BY <1>5, DealerNames
  <2>2. Good(r, l \o d)
    BY <2>1
  <2> HIDE DEF r
  <2> QED
    BY <2>2
<1>9. /\ br' = [br EXCEPT ![b] = r.b]
      /\ up' = IF b = Root THEN up ELSE [up EXCEPT ![Dealer(b)] = @ \o r.up]
      /\ down' = [x \in Conns |-> down0[x] \o Sent(r.rout, x)]
  BY <1>2 DEF Finish
<1> HIDE DEF r, h, A, B
<1>10. /\ down0 = [x \in Conns |-> down0[x]] /\ down0[k] = Tail(down[k])
       /\ \A x \in Conns : x # k => down0[x] = down[x]
  BY <1>1, <1>4 DEF ChannelsOK
<1>11. IsSeq(down[k]) /\ IsSeq(Tail(down[k])) /\ IsSeq(r.up)
  <2>1. IsSeq(down[k])
    BY <1>1, <1>4 DEF ChannelsOK
  <2>2. IsSeq(Tail(down[k]))
    BY <1>3, <2>1, AfterHead
  <2> QED
    BY <1>7, <2>1, <2>2 DEF Fit
<1>12. /\ 1 \in DOMAIN down[k] /\ h = down[k][1]
       /\ \A i \in DOMAIN Tail(down[k]) : i + 1 \in DOMAIN down[k] /\ Tail(down[k])[i] = down[k][i + 1]
       /\ \A i \in DOMAIN down[k] :
            i = 1 \/ (i - 1 \in DOMAIN Tail(down[k]) /\ Tail(down[k])[i - 1] = down[k][i])
  BY <1>3, <1>11, AfterHead DEF h
<1> HIDE DEF down0
<1>14. ReadFrom(conn, up, down0)
  <2>1. ~(k[2] # conn[k[1]])
    BY <1>4
  <2> HIDE DEF k
  <2> QED
    BY <1>1, <1>10, <1>11, <2>1 DEF ReadFrom, ChannelsOK
<1>15. \A x \in Brokers : LocalsOK(br'[x], x)
  BY <1>1, <1>4, <1>7, <1>9, <1>13, LocalsStep DEF NamesInv
<1>16. LowerStays' <=> LowerStays
  BY <1>3 DEF LowerStays
<1>17. ASSUME LowerStays PROVE SocketsOK(br', conn', up', down')
  <2>1. SocketsOK(br, conn, up, down)
    BY <1>17 DEF NamesInv
  <2>2. \A x \in Conns : x[2] # conn[x[1]] => up[x] = <<>>
    BY <2>1 DEF SocketsOK
  <2>3. \A x \in Conns : x[1] # b => down0[x] = down[x]
    BY <1>4, <1>10
  <2>4. h.cmd # "REGOK" /\ ~NoneOf({"REGOK"}, down[k]) => ~NoneOf({"REGOK"}, down0[k])
    <3> DEFINE v == down[k]
               t == Tail(down[k])
    <3>1. /\ 1 \in DOMAIN v /\ h = v[1]
          /\ \A i \in DOMAIN v : i = 1 \/ (i - 1 \in DOMAIN t /\ t[i - 1] = v[i])
      BY <1>12
    <3> HIDE DEF v, t
    <3>2. h.cmd # "REGOK" /\ ~NoneOf({"REGOK"}, v) => ~NoneOf({"REGOK"}, t)
      BY <3>1 DEF NoneOf
    <3> QED
      BY <1>10, <3>2 DEF v, t
  <2>5. SocketsMove(b, r, up, down0)
    BY <1>7, <1>8, <2>2, <2>3, <2>4 DEF SocketsMove, NoRouteAdded
  <2> QED
    BY <1>1, <1>3, <1>4, <1>7, <1>9, <1>14, <2>1, <2>5, SocketsStep
<1>18. ASSUME LowerStays, NEW n, Sole(n) PROVE NameOK(n, br', conn', up', down')
  <2>1. /\ NameOK(n, br, conn, up, down) /\ SocketsOK(br, conn, up, down)
        /\ OnWay(n, br) /\ Spoken(n, up) /\ NotRefused(n, down) /\ InStep(n, br, conn, up)
    BY <1>18 DEF NamesInv, NameOK
  <2>2. ~Refuses(n, h)
    BY <1>4, <1>12, <2>1 DEF NotRefused
  <2>3. /\ NameKept(br[b], r.b, n) /\ NoRefusal(n, r.rout)
        /\ h.cmd # "REGOK" => Silent(n, r.up)
    BY <1>13, <2>2
  <2>4. NotRefused(n, down0)
    <3>1. ASSUME NEW x \in Conns, NEW i \in DOMAIN down0[x], Refuses(n, down0[x][i]) PROVE FALSE
      <4>1. CASE x = k
        BY <1>4, <1>10, <1>12, <2>1, <3>1, <4>1 DEF NotRefused
      <4>2. CASE x # k
        BY <1>10, <2>1, <3>1, <4>2 DEF NotRefused
      <4> QED
        BY <4>1, <4>2
    <3> QED
      BY <3>1 DEF NotRefused
  <2>5. CASE h.cmd # "REGOK"
    <3>1. Neutral(br[b], r, n)
      BY <2>3, <2>5 DEF Neutral
    <3>2. Moves(n, b, br[b], r)
      BY <1>11, <3>1, NeutralMoves
    <3>3. r.b.state = REGISTERED => br[b].state = REGISTERED
      BY <1>7, <2>5 DEF CRASHED, REGISTERED
    <3>4. BelowKept(n, b, r, up)
      BY <1>8 DEF BelowKept, NoRouteAdded
    <3> QED
      BY <1>1, <1>3, <1>4, <1>7, <1>9, <1>14, <2>1, <2>4, <3>2, <3>3, <3>4, MovesStep
  <2>6. CASE h.cmd = "REGOK"
    <3>1. br[b].state # REGISTERED
      <4>1. br[b].state = REGISTERED => NoneOf(DownTokens, down[k])
        BY <1>1, <1>4 DEF TokensOK, NoToken
      <4> QED
        BY <1>12, <2>6, <4>1 DEF NoneOf, DownTokens
    <3>2. /\ NoneOf({"ADDDCL"}, up[k])
          /\ \A x \in DOMAIN br[Parent[b]].dist_cli : br[Parent[b]].dist_cli[x] # k
      BY <1>1, <1>4, <3>1 DEF GivenUp
    <3>3. Routed(n, br[Parent[b]], k) = FALSE
      BY <3>2 DEF Routed
    <3>4. IsSeq(up[k]) /\ \A i \in DOMAIN up[k] : ~Adds(n, up[k][i])
      BY <1>1, <1>4, <3>2 DEF ChannelsOK, NoneOf, Adds
    <3>5. Orderly(n, up[k], FALSE, FALSE)
      BY <3>4, OrderlySilent
    <3>6. (n \in A \/ n \in B => Way(n, b)) /\ ~(n \in A /\ n \in B)
      BY <1>1, <1>4, <1>5, <1>18, <2>1, HasOnWay DEF A, B
    <3>7. r.up = [i \in DOMAIN (l \o d) |-> Adddcl((l \o d)[i])]
      BY <1>13, <2>6
    <3>8. /\ n \in A \cup B => Orderly(n, r.up, FALSE, TRUE)
          /\ n \notin A \cup B => Silent(n, r.up) /\ Orderly(n, r.up, FALSE, FALSE)
      BY <1>2, <1>5, <1>11, <3>6, <3>7, RegokTells
    <3>9. Has(n, r.b) = IF n \in A \cup B THEN TRUE ELSE FALSE
      BY <2>3 DEF Has, NameKept, A, B
    <3>10. Orderly(n, r.up, FALSE, Has(n, r.b))
      BY <3>8, <3>9
    <3>11. Orderly(n, up[k] \o r.up, Routed(n, br[Parent[b]], k), Has(n, r.b))
      BY <1>11, <3>3, <3>4, <3>5, <3>10, OrderlyConcat
    <3>12. OwnInStep(n, b, r, up)
      BY <3>11 DEF OwnInStep
    <3>13. BelowInStep(n, b, r, up)
      <4>1. ASSUME NEW x \in Lower, Parent[x] = b, br[x].state = REGISTERED,
                   Dealer(x) \in DOMAIN r.b.lcl_br
            PROVE  Orderly(n, up[Dealer(x)], Routed(n, r.b, Dealer(x)), Has(n, br[x]))
        <5>1. Dealer(x) \in DOMAIN br[b].lcl_br
          BY <1>8, <4>1 DEF NoRouteAdded
        <5>2. Orderly(n, up[Dealer(x)], Routed(n, br[b], Dealer(x)), Has(n, br[x]))
          BY <2>1, <4>1, <5>1 DEF InStep, Dealer
        <5>3. Routed(n, r.b, Dealer(x)) = Routed(n, br[b], Dealer(x))
          BY <2>3 DEF Routed, NameKept
        <5> QED
          BY <5>2, <5>3
      <4> QED
        BY <4>1 DEF BelowInStep
    <3>14. n \in DOMAIN r.b.dist_cli => Way(n, r.b.dist_cli[n][1])
      BY <1>4, <2>1, <2>3 DEF NameKept, OnWay
    <3>15. b # Root /\ ~Silent(n, r.up) => Way(n, b)
      BY <3>6, <3>8
    <3> QED
      BY <1>1, <1>3, <1>4, <1>7, <1>9, <1>14, <2>1, <2>3, <2>4, <3>12, <3>13, <3>14, <3>15,
         NamesStep
  <2> QED
    BY <2>5, <2>6
<1> QED
  BY <1>15, <1>16, <1>17, <1>18 DEF NamesInv

\* NamesInv holds to begin with.
LEMMA InitNames == Init => NamesInv
<1> SUFFICES ASSUME Init PROVE NamesInv
  OBVIOUS
<1>1. ASSUME NEW b \in Brokers
      PROVE  /\ LocalsOK(br[b], b) /\ DOMAIN br[b].rev_lcl_cli = {} /\ DOMAIN br[b].dist_cli = {}
             /\ DOMAIN br[b].lcl_br = {}
  <2>1. br[b] = NewBroker(IF b = Root THEN ROOT ELSE UNREG)
    BY DEF Init
  <2> QED
    BY <2>1, NewLocals
<1>2. \A k \in Conns : up[k] = <<>> /\ down[k] = <<>> /\ Parent[k[1]] \in Brokers
  BY ConnFacts, TreeAssumption DEF Init
<1>3. SocketsOK(br, conn, up, down)
  BY <1>1, <1>2 DEF SocketsOK
<1>4. ASSUME NEW n PROVE NameOK(n, br, conn, up, down)
  <2>1. OnWay(n, br)
    BY <1>1 DEF OnWay
  <2>2. Spoken(n, up)
    BY <1>2, SilentUp DEF Spoken
  <2>3. NotRefused(n, down)
    <3>1. DOMAIN <<>> = {}
      OBVIOUS
    <3> QED
      BY <1>2, <3>1 DEF NotRefused
  <2>4. InStep(n, br, conn, up)
    <3>1. \A b \in Lower : Parent[b] \in Brokers
      BY TreeAssumption
    <3> QED
      BY <1>1, <3>1 DEF InStep
  <2> QED
    BY <2>1, <2>2, <2>3, <2>4 DEF NameOK
<1> QED
  BY <1>1, <1>3, <1>4 DEF NamesInv

\* Every step keeps it.
LEMMA NextNames ==
  ASSUME Timely = TRUE, Acyclic
  PROVE  TreeInv /\ TimelyInv /\ NamesInv /\ [Next]_vars => NamesInv'
<1> SUFFICES ASSUME TreeInv, TimelyInv, NamesInv, [Next]_vars PROVE NamesInv'
  OBVIOUS
<1>1. ASSUME NEW c \in Clients, Join(c) PROVE NamesInv'
  BY <1>1, JoinKeeps
<1>2. ASSUME NEW c \in Clients, Leave(c) PROVE NamesInv'
  BY <1>2, LeaveKeeps
<1>3. ASSUME UNCHANGED <<br, conn, up, down, crashes>> PROVE NamesInv'
  <2>1. LowerStays' <=> LowerStays
    BY <1>3 DEF LowerStays
  <2>2. \A x \in Brokers : LocalsOK(br'[x], x)
    BY <1>3 DEF NamesInv
  <2>3. LowerStays => /\ SocketsOK(br', conn', up', down')
                      /\ \A n : Sole(n) => NameOK(n, br', conn', up', down')
    BY <1>3 DEF NamesInv
  <2> QED
    BY <2>1, <2>2, <2>3 DEF NamesInv
<1>4. ASSUME NEW c \in Clients, Forgotten(c) PROVE NamesInv'
  BY <1>3, <1>4 DEF Forgotten
<1>5. ASSUME NEW c \in Clients, NEW d \in Clients, Notify(c, d) PROVE NamesInv'
  BY <1>5, NotifyKeeps
<1>6. ASSUME NEW k \in Conns, ReceiveUp(k) PROVE NamesInv'
  BY <1>6, ReceiveUpKeeps
<1>7. ASSUME NEW b \in Lower, ReceiveDown(b) PROVE NamesInv'
  BY <1>7, ReceiveDownKeeps
<1>8. ASSUME NEW b \in Lower, Register(b) PROVE NamesInv'
  BY <1>8, RegisterKeeps
<1>9. ASSUME NEW b \in Lower, Heartbeat(b) PROVE NamesInv'
  BY <1>9, HeartbeatKeeps
<1>10. ASSUME NEW b \in Brokers, CheckBrTimeout(b) PROVE NamesInv'
  BY <1>10, TimeoutKeeps
<1>11. ASSUME NEW b \in MayCrash, Crash(b) PROVE NamesInv'
  BY <1>11, CrashKeeps DEF TimelyInv
<1>12. CASE UNCHANGED vars
  BY <1>3, <1>12 DEF vars
<1> QED
  BY <1>1, <1>2, <1>4, <1>5, <1>6, <1>7, <1>8, <1>9, <1>10, <1>11, <1>12 DEF Next

\* NamesInv is an invariant of every tree in which answers are timely and the higher
\* brokers form no circle.
THEOREM NamesInvariant ==
  ASSUME Timely = TRUE, Acyclic
  PROVE  Spec => [](TreeInv /\ TimelyInv /\ NamesInv)
<1>1. Init => TreeInv /\ TimelyInv /\ NamesInv
  BY InitTree, InitTimely, InitNames
<1>2. TreeInv /\ TimelyInv /\ NamesInv /\ [Next]_vars => (TreeInv /\ TimelyInv /\ NamesInv)'
  BY NextTree, NextTimely, NextNames
<1> QED
  BY <1>1, <1>2, PTL DEF Spec

\* In every such tree, with any clients, any order of registrations, departures and
\* messages, and any number of crashes of the root: a broker is refused a name only
\* if two clients share it or a broker below the root has crashed.  A client that is
\* alone with its name is never thrown out.
THEOREM OnlyClientsAreNotRefused ==
  ASSUME Timely = TRUE, Acyclic
  PROVE  Spec => []NoFalseRefusal
<1>1. TreeInv /\ TimelyInv /\ NamesInv => NoFalseRefusal
  <2> SUFFICES ASSUME NamesInv, NEW k \in Conns, NEW i \in DOMAIN down[k],
                      down[k][i].cmd = "REGFAIL", LowerStays, Sole(down[k][i].name)
               PROVE  FALSE
    BY DEF NoFalseRefusal, Sole, LowerStays
  <2> DEFINE n == down[k][i].name
  <2>1. NotRefused(n, down)
    BY DEF NamesInv, NameOK
  <2> QED
    BY <2>1 DEF NotRefused, Refuses
<1> QED
  BY <1>1, NamesInvariant, PTL

\* When moreover no two clients share a name and only the root crashes, the higher
\* broker routes to a lower one exactly the clients that it has, whenever nothing is
\* on its way between them.
THEOREM HigherBrokersKnow ==
  ASSUME Timely = TRUE, Acyclic, MayCrash \subseteq {Root}, \A n : Sole(n)
  PROVE  Spec => []Synced
<1>1. TreeInv /\ TimelyInv /\ NamesInv => Synced
  <2> SUFFICES ASSUME TimelyInv, NamesInv, NEW b \in Lower, Quiet(b)
               PROVE  Through(b) = Known(b)
    BY DEF Synced
  <2> DEFINE k == Dealer(b)
             p == br[Parent[b]]
  <2>1. PICK m \in 0 .. MaxCrash : crashes \in [1 .. m -> MayCrash]
    BY DEF TimelyInv, BoundedSeq, SeqOf
  <2>2. LowerStays
    BY <2>1 DEF LowerStays, ToSet
  <2>3. br[b].state = REGISTERED /\ k \in DOMAIN p.lcl_br /\ up[k] = <<>>
    BY DEF Quiet, Linked, Idle
  <2>4. ASSUME NEW n PROVE Routed(n, p, k) = Has(n, br[b])
    <3>1. InStep(n, br, conn, up)
      BY <2>2 DEF NamesInv, NameOK
    <3>2. Orderly(n, up[k], Routed(n, p, k), Has(n, br[b]))
      BY <2>3, <3>1 DEF InStep, Dealer
    <3> QED
      BY <2>3, <3>2, OrderlyEmpty
  <2>5. \A n : n \in Through(b) <=> Routed(n, p, k) = TRUE
    BY DEF Through, Routed
  <2>6. \A n : n \in Known(b) <=> Has(n, br[b]) = TRUE
    BY DEF Known, Has
  <2> QED
    BY <2>4, <2>5, <2>6
<1> QED
  BY <1>1, NamesInvariant, PTL
=============================================================================
