------------------------------- MODULE MCTrie -------------------------------
(* The instances of TrieUse that TLC checks. *)
EXTENDS TrieUse

CONSTANTS s1, s2

\* Every topic begins with the tenant's name <<9>>.  The node below it becomes
\* dense and sparse again; no client subscribes to that node's own string.
Branching == {<<9, 1>>, <<9, 1, 1, 2>>, <<9, 1, 1, 2, 3, 3>>, <<9, 1, 3>>,
              <<9, 2>>, <<9, 4, 1>>, <<9, 5>>}

\* Here clients do subscribe to the string of the node that is converted.
Converted == {<<9>>, <<9, 1>>, <<9, 2>>, <<9, 3>>}

\* Publications: every topic, one character more or less, and a miss.
MCWords == Topics \cup {Append(t, 2) : t \in Topics} \cup {Front(t) : t \in Topics} \cup {<<9, 3>>}

SockSymmetry == Permutations(Sockids)
=============================================================================
