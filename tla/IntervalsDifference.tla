------------------------ MODULE IntervalsDifference ------------------------
(***************************************************************************)
(* utils.h: the loop by which a replica takes the intervals it has (b_vec) *)
(* out of the intervals a peer reports (a_vec).  One action per branch of  *)
(* one iteration; a_it and b_it are the iterators, as 1-based positions,   *)
(* and a_vec is the function's own copy, whose current interval the loop   *)
(* shortens in place.                                                      *)
(***************************************************************************)
EXTENDS Integers, Sequences

CONSTANTS MaxPoint,      \* bound: the largest number an interval holds
          MaxIntervals   \* bound: the intervals of an argument

ASSUME PointBound == MaxPoint \in Nat /\ MaxIntervals \in Nat

VARIABLES header,   \* the argument a_vec as the caller passed it
          a_vec, b_vec, a_it, b_it, result

vars == <<header, a_vec, b_vec, a_it, b_it, result>>

Point == 1..MaxPoint

\* Intervals as getHeaders and the loop make them: not empty, within Point.
Interval == {i \in [start : Point, len : Point] : i.start + i.len - 1 \in Point}

First(i) == i.start
Last(i) == i.start + i.len - 1

Inside(i) == {x \in Point : First(i) <= x /\ x <= Last(i)}

\* The points inside the intervals of v from the k-th on.
PointsFrom(v, k) == UNION {Inside(v[j]) : j \in k..Len(v)}
Points(v) == PointsFrom(v, 1)

\* The assertion on both arguments looks at neighbours only; the last
\* interval's length is not looked at.
IsMonotonicNonColliding(v) ==
  \A i \in 1..(Len(v) - 1) : v[i].len # 0 /\ Last(v[i]) < First(v[i + 1])

\* What the neighbours' check stands for: every interval ends before every later one.
Sorted(v) == \A i, j \in 1..Len(v) : i < j => Last(v[i]) < First(v[j])

Vectors == UNION {[1..k -> Interval] : k \in 0..MaxIntervals}

----------------------------------------------------------------------------
Init ==
  /\ a_vec \in {v \in Vectors : IsMonotonicNonColliding(v)}
  /\ b_vec \in {v \in Vectors : IsMonotonicNonColliding(v)}
  /\ header = a_vec
  /\ a_it = 1
  /\ b_it = 1
  /\ result = <<>>

MoreA == a_it <= Len(a_vec)
MoreB == b_it <= Len(b_vec)
a == a_vec[a_it]
b == b_vec[b_it]
Overlap == First(a) <= Last(b) /\ First(b) <= Last(a)

\* Faulty variants of the two parts: the length of the right part is one too
\* small; the right part is not moved behind b; it starts on the end of b.
RightTooShort == [start |-> Last(b) + 1, len |-> Last(a) - Last(b) - 1]
RightNotMoved == [start |-> First(a), len |-> Last(a) - Last(b)]
RightOnEnd == [start |-> Last(b), len |-> Last(a) - Last(b)]

\* The part of a before b, and the part of a after b.
LeftPart == [start |-> First(a), len |-> First(b) - First(a)]
RightPart == [start |-> Last(b) + 1, len |-> Last(a) - Last(b)]

\* No interval of b is left, or a ends before b: a is wanted as it is.
TakeWhole ==
  /\ MoreA
  /\ MoreB => Last(a) < First(b)
  /\ result' = Append(result, a)
  /\ a_it' = a_it + 1
  /\ UNCHANGED <<header, a_vec, b_vec, b_it>>

\* b ends before a.
SkipB ==
  /\ MoreA /\ MoreB
  /\ First(a) > Last(b)
  /\ b_it' = b_it + 1
  /\ UNCHANGED <<header, a_vec, b_vec, a_it, result>>

\* b lies inside a, with something of a on both sides: [ a  [b] ].
Split ==
  /\ MoreA /\ MoreB /\ Overlap
  /\ First(a) < First(b) /\ Last(b) < Last(a)
  /\ result' = Append(result, LeftPart)
  /\ a_vec' = [a_vec EXCEPT ![a_it] = RightPart]
  /\ b_it' = b_it + 1
  /\ UNCHANGED <<header, b_vec, a_it>>

\* b covers the end of a: [a [_]_b_].
CutRight ==
  /\ MoreA /\ MoreB /\ Overlap
  /\ First(a) < First(b) /\ Last(b) >= Last(a)
  /\ result' = Append(result, LeftPart)
  /\ a_it' = a_it + 1
  /\ UNCHANGED <<header, a_vec, b_vec, b_it>>

\* A faulty variant of Swallow: the iterator is not moved on.
SwallowAgain ==
  /\ MoreA /\ MoreB /\ Overlap
  /\ First(a) >= First(b) /\ Last(b) >= Last(a)
  /\ UNCHANGED vars

\* b covers a: [ b  [a]].
Swallow ==
  /\ MoreA /\ MoreB /\ Overlap
  /\ First(a) >= First(b) /\ Last(b) >= Last(a)
  /\ a_it' = a_it + 1
  /\ UNCHANGED <<header, a_vec, b_vec, b_it, result>>

\* b covers the beginning of a: [b [_]_a_].
CutLeft ==
  /\ MoreA /\ MoreB /\ Overlap
  /\ First(a) >= First(b) /\ Last(b) < Last(a)
  /\ a_vec' = [a_vec EXCEPT ![a_it] = RightPart]
  /\ b_it' = b_it + 1
  /\ UNCHANGED <<header, b_vec, a_it, result>>

Next == TakeWhole \/ SkipB \/ Split \/ CutRight \/ Swallow \/ CutLeft

Spec == Init /\ [][Next]_vars

\* The loop runs on.
FairSpec == Spec /\ WF_vars(Next)

----------------------------------------------------------------------------
(* Properties. *)

\* The vectors hold proper intervals throughout: no uint64 subtraction of the
\* loop goes below zero and none of the intervals it makes is empty.
TypeOK ==
  /\ header \in Seq(Interval)
  /\ a_vec \in Seq(Interval)
  /\ b_vec \in Seq(Interval)
  /\ result \in Seq(Interval)
  /\ a_it \in 1..(Len(a_vec) + 1)
  /\ b_it \in 1..(Len(b_vec) + 1)

\* When the loop ends, the result is exactly what the peer has and the replica
\* lacks, however the two vectors of intervals overlap.
ResultIsDifference == ~ MoreA => Points(result) = Points(header) \ Points(b_vec)

\* At every point of the loop the intervals put out are in order and disjoint,
\* and lie before what is still to come: the join in getAllMessages, which would
\* return a row twice for two intervals that overlap, returns it once.
ResultSorted ==
  /\ Sorted(result)
  /\ MoreA => \A i \in 1..Len(result) : Last(result[i]) < First(a)

\* One loop iteration takes part of the remaining work and never gives it back:
\* what has been put out and what is left together are what is to be put out.
LoopInvariant ==
  Points(result) \cup (PointsFrom(a_vec, a_it) \ PointsFrom(b_vec, b_it))
    = Points(header) \ Points(b_vec)

\* The loop ends.
Terminates == <>(~ MoreA)
=============================================================================
