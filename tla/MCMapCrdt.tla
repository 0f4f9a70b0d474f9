----------------------------- MODULE MCMapCrdt -----------------------------
(* Instances of MapCrdt: a line below one writer, and a pair of writers. *)
EXTENDS MapCrdt

CONSTANTS n1, n2, n3, k1, k2

Line == {n1, n2, n3}
Downstream == {<<n2, n1>>, <<n3, n2>>}
Root == {n1}
TwoKeys == {k1, k2}

Pair == {n1, n2}
BothWays == {<<n1, n2>>, <<n2, n1>>}
OneKey == {k1}

\* The line flows down from its writer, as the properties of the run expect.
ASSUME LineIsForest == Link = Downstream /\ Writer = Root => Forest
=============================================================================
