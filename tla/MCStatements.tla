---------------------------- MODULE MCStatements ----------------------------
(* Statements with three handles, one more than are ever open at a time. *)
EXTENDS Statements, TLC

CONSTANTS h1, h2, h3, i1, i2

ThreeHandles == {h1, h2, h3}
TwoIntervals == {i1, i2}

\* SQLite may give out any handle that is free; the intervals are all alike.
Alike == Permutations(ThreeHandles) \cup Permutations(TwoIntervals)
=============================================================================
