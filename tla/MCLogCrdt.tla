----------------------------- MODULE MCLogCrdt -----------------------------
(***************************************************************************)
(* Instances of LogCrdt for TLC: two replicas that pull from each other,   *)
(* or one that has two pulls from the other at once.                       *)
(***************************************************************************)
EXTENDS LogCrdt, TLC

CONSTANTS n1, n2, b1, b2

Pair == {n1, n2}
BothWays == {<<n1, n2>>, <<n2, n1>>}
TwoAtOnce == {<<n2, n1, 1>>, <<n2, n1, 2>>}
TwoEachWay == TwoAtOnce \cup {<<n1, n2, 1>>, <<n1, n2, 2>>}

First == {n1}

AllKeys == Node \X Node
WriterKeys == Node \X Writer

TwoBodies == {b1, b2}
OneBody == {b1}

\* The replicas of a pair, and the bodies, can be exchanged for each other.
PairSymmetry == Permutations(Pair) \cup Permutations(TwoBodies)
=============================================================================
