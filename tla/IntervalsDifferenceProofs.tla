--------------------- MODULE IntervalsDifferenceProofs ---------------------
(***************************************************************************)
(* The loop of intervalsDifference computes the difference, for interval   *)
(* vectors of any length over any range of points.                         *)
(*                                                                         *)
(* The assertion on the arguments compares neighbours; the loop relies on  *)
(* every interval ending before every later one (AdjacentSorted).  The     *)
(* inductive invariant IInv says that what was put out and what is left    *)
(* together are the difference (LoopInvariant), that both vectors stay     *)
(* sorted while a_vec is shortened in place, and that the result ends      *)
(* before the current interval of a_vec begins.                            *)
(***************************************************************************)
EXTENDS IntervalsDifference, WellFoundedInduction, TLAPS

IInv == /\ TypeOK
        /\ Sorted(a_vec)
        /\ Sorted(b_vec)
        /\ LoopInvariant
        /\ ResultSorted

----------------------------------------------------------------------------
(* Sorted vectors. *)

\* A set of naturals that is not empty has a least element.
LEMMA Least ==
  ASSUME NEW T \in SUBSET Nat, T # {}
  PROVE  \E x \in T : \A y \in T : x <= y
<1> DEFINE R == {p \in Nat \X Nat : p[1] < p[2]}
<1>1. IsWellFoundedOn(OpToRel(<, Nat), Nat)
  BY NatLessThanWellFounded
<1>2. OpToRel(<, Nat) = R
  BY DEF OpToRel
<1>3. IsWellFoundedOn(R, Nat)
  BY <1>1, <1>2
<1>4. PICK x \in T : \A y \in T : ~ (<<y, x>> \in R)
  <2> HIDE DEF R
  <2> QED BY <1>3, WFMin
<1>5. ASSUME NEW y \in T PROVE x <= y
  <2>1. x \in Nat /\ y \in Nat
    OBVIOUS
  <2>2. CASE y < x
    <3>1. <<y, x>> \in Nat \X Nat /\ <<y, x>>[1] < <<y, x>>[2]
      BY <2>1, <2>2
    <3>2. <<y, x>> \in R
      BY <3>1
    <3> HIDE DEF R
    <3> QED BY <3>2, <1>4
  <2>3. CASE ~ (y < x)
    BY <2>1, <2>3
  <2> QED BY <2>2, <2>3
<1> QED BY <1>5

LEMMA IntervalType ==
  ASSUME NEW i \in Interval
  PROVE  /\ First(i) \in Nat /\ Last(i) \in Nat
         /\ First(i) <= Last(i)
         /\ 1 <= First(i) /\ Last(i) <= MaxPoint
BY PointBound DEF Interval, First, Last, Point

\* The assertion, which compares neighbours, rules out every overlap.
LEMMA AdjacentSorted ==
  ASSUME NEW v \in Seq(Interval), IsMonotonicNonColliding(v)
  PROVE  Sorted(v)
<1> SUFFICES ASSUME NEW i \in 1..Len(v), NEW j \in 1..Len(v), i < j,
                    ~ (Last(v[i]) < First(v[j]))
             PROVE  FALSE
  BY DEF Sorted
<1> DEFINE T == {k \in Nat : k \in 1..Len(v) /\ i < k /\ ~ (Last(v[i]) < First(v[k]))}
<1>1. T \in SUBSET Nat /\ j \in T
  OBVIOUS
<1>2. PICK k \in T : \A y \in T : k <= y
  <2> HIDE DEF T
  <2> QED BY <1>1, Least
<1>3. k \in Nat /\ k - 1 \in 1..(Len(v) - 1) /\ k - 1 < k
  OBVIOUS
<1>4. Last(v[k - 1]) < First(v[k])
  <2>1. Last(v[k - 1]) < First(v[k - 1 + 1])
    BY <1>3 DEF IsMonotonicNonColliding
  <2> QED BY <2>1, <1>3
<1>5. CASE k - 1 = i
  BY <1>4, <1>5
<1>6. CASE k - 1 # i
  <2>1. k - 1 \notin T
    <3> HIDE DEF T
    <3> QED BY <1>2, <1>3
  <2>2. Last(v[i]) < First(v[k - 1])
    BY <2>1, <1>3, <1>6
  <2>3. v[i] \in Interval /\ v[k - 1] \in Interval /\ v[k] \in Interval
    BY <1>3
  <2>5. /\ Last(v[i]) \in Nat /\ First(v[k]) \in Nat
        /\ First(v[k - 1]) \in Nat /\ Last(v[k - 1]) \in Nat
        /\ First(v[k - 1]) <= Last(v[k - 1])
    BY <2>3, IntervalType
  <2>4. Last(v[i]) < First(v[k])
    BY <2>2, <2>5, <1>4
  <2> QED BY <2>4
<1> QED BY <1>5, <1>6

----------------------------------------------------------------------------
(* The points of a vector. *)

LEMMA PointsDone ==
  ASSUME NEW v \in Seq(Interval), NEW k \in Nat, k > Len(v)
  PROVE  PointsFrom(v, k) = {}
BY DEF PointsFrom

LEMMA PointsStep ==
  ASSUME NEW v \in Seq(Interval), NEW k \in 1..Len(v)
  PROVE  PointsFrom(v, k) = Inside(v[k]) \cup PointsFrom(v, k + 1)
<1>1. k..Len(v) = {k} \cup (k + 1)..Len(v)
  OBVIOUS
<1> QED BY <1>1 DEF PointsFrom

\* What comes after the k-th interval of a sorted vector lies after it.
LEMMA PointsAfter ==
  ASSUME NEW v \in Seq(Interval), Sorted(v), NEW k \in 1..Len(v),
         NEW x \in PointsFrom(v, k + 1)
  PROVE  x \in Nat /\ Last(v[k]) < x
<1>1. PICK j \in (k + 1)..Len(v) : x \in Inside(v[j])
  BY DEF PointsFrom
<1>2. j \in 1..Len(v) /\ k < j
  OBVIOUS
<1>3. Last(v[k]) < First(v[j])
  BY <1>2 DEF Sorted
<1>4. x \in Nat /\ First(v[j]) <= x
  BY <1>1, PointBound DEF Inside, Point
<1>5. v[k] \in Interval /\ v[j] \in Interval
  BY <1>2
<1>6. Last(v[k]) \in Nat /\ First(v[j]) \in Nat
  BY <1>5, IntervalType
<1> QED BY <1>3, <1>4, <1>6

LEMMA PointsAppend ==
  ASSUME NEW v \in Seq(Interval), NEW i \in Interval
  PROVE  Points(Append(v, i)) = Points(v) \cup Inside(i)
<1> DEFINE w == Append(v, i)
<1>1. Len(w) = Len(v) + 1 /\ w[Len(v) + 1] = i /\ \A j \in 1..Len(v) : w[j] = v[j]
  OBVIOUS
<1>2. 1..Len(w) = 1..Len(v) \cup {Len(v) + 1}
  BY <1>1
<1> HIDE DEF w
<1>3. (UNION {Inside(w[j]) : j \in 1..Len(w)})
        = (UNION {Inside(v[j]) : j \in 1..Len(v)}) \cup Inside(i)
  BY <1>1, <1>2
<1> QED BY <1>3 DEF Points, PointsFrom, w

\* Shortening the k-th interval leaves what comes after it.
LEMMA PointsExcept ==
  ASSUME NEW v \in Seq(Interval), NEW k \in 1..Len(v), NEW i \in Interval
  PROVE  /\ [v EXCEPT ![k] = i] \in Seq(Interval)
         /\ Len([v EXCEPT ![k] = i]) = Len(v)
         /\ PointsFrom([v EXCEPT ![k] = i], k) = Inside(i) \cup PointsFrom(v, k + 1)
<1> DEFINE w == [v EXCEPT ![k] = i]
<1>1. w \in Seq(Interval) /\ Len(w) = Len(v)
  OBVIOUS
<1>2. w[k] = i /\ \A j \in (k + 1)..Len(v) : w[j] = v[j]
  OBVIOUS
<1> HIDE DEF w
<1>3. PointsFrom(w, k + 1) = PointsFrom(v, k + 1)
  BY <1>1, <1>2 DEF PointsFrom
<1>4. PointsFrom(w, k) = Inside(i) \cup PointsFrom(v, k + 1)
  BY <1>1, <1>2, <1>3, PointsStep
<1> QED BY <1>1, <1>4 DEF w

LEMMA SortedAppend ==
  ASSUME NEW v \in Seq(Interval), Sorted(v), NEW i \in Interval,
         \A j \in 1..Len(v) : Last(v[j]) < First(i)
  PROVE  Append(v, i) \in Seq(Interval) /\ Sorted(Append(v, i))
<1> DEFINE w == Append(v, i)
<1>1. /\ w \in Seq(Interval) /\ Len(w) = Len(v) + 1
      /\ w[Len(v) + 1] = i /\ \A j \in 1..Len(v) : w[j] = v[j]
  OBVIOUS
<1> HIDE DEF w
<1>2. ASSUME NEW j \in 1..Len(w), NEW k \in 1..Len(w), j < k
      PROVE  Last(w[j]) < First(w[k])
  <2>1. j \in 1..Len(v)
    BY <1>1, <1>2
  <2>2. CASE k = Len(v) + 1
    BY <1>1, <2>1, <2>2
  <2>3. CASE k # Len(v) + 1
    <3>1. k \in 1..Len(v)
      BY <1>1, <2>3
    <3> QED BY <1>1, <1>2, <2>1, <3>1 DEF Sorted
  <2> QED BY <2>2, <2>3
<1> QED BY <1>1, <1>2 DEF Sorted, w

\* An interval may be shortened from its beginning.
LEMMA SortedExcept ==
  ASSUME NEW v \in Seq(Interval), Sorted(v), NEW k \in 1..Len(v), NEW i \in Interval,
         First(v[k]) <= First(i), Last(i) = Last(v[k])
  PROVE  Sorted([v EXCEPT ![k] = i])
<1> DEFINE w == [v EXCEPT ![k] = i]
<1>1. /\ Len(w) = Len(v) /\ w[k] = i
      /\ \A j \in 1..Len(v) : j # k => w[j] = v[j]
  OBVIOUS
<1> HIDE DEF w
<1>2. ASSUME NEW j \in 1..Len(w), NEW l \in 1..Len(w), j < l
      PROVE  Last(w[j]) < First(w[l])
  <2>1. /\ j \in 1..Len(v) /\ l \in 1..Len(v)
        /\ v[j] \in Interval /\ v[l] \in Interval
        /\ Last(v[j]) < First(v[l])
    BY <1>1, <1>2 DEF Sorted
  <2>2. Last(w[j]) = Last(v[j])
    BY <1>1, <2>1
  <2>3. First(w[l]) \in Nat /\ First(v[l]) \in Nat /\ Last(v[j]) \in Nat
    BY <1>1, <2>1, IntervalType
  <2>4. First(v[l]) <= First(w[l])
    BY <1>1, <2>1, <2>3
  <2> QED BY <2>1, <2>2, <2>3, <2>4
<1> QED BY <1>2 DEF Sorted, w

----------------------------------------------------------------------------
(* The current intervals, under the invariant. *)

LEMMA CurrentA ==
  ASSUME IInv, MoreA
  PROVE  /\ a_it \in 1..Len(a_vec) /\ a \in Interval
         /\ First(a) \in Nat /\ Last(a) \in Nat
         /\ First(a) <= Last(a)
         /\ 1 <= First(a) /\ Last(a) <= MaxPoint
         /\ PointsFrom(a_vec, a_it) = Inside(a) \cup PointsFrom(a_vec, a_it + 1)
         /\ \A x \in PointsFrom(a_vec, a_it + 1) : x \in Nat /\ Last(a) < x
         /\ a_it + 1 <= Len(a_vec) => Last(a) < First(a_vec[a_it + 1])
<1>1. a_it \in 1..Len(a_vec) /\ a \in Interval
  BY DEF IInv, TypeOK, MoreA, a
<1>2. /\ PointsFrom(a_vec, a_it) = Inside(a) \cup PointsFrom(a_vec, a_it + 1)
      /\ \A x \in PointsFrom(a_vec, a_it + 1) : x \in Nat /\ Last(a) < x
  BY <1>1, PointsStep, PointsAfter DEF IInv, TypeOK, a
<1>3. a_it + 1 <= Len(a_vec) => Last(a) < First(a_vec[a_it + 1])
  BY <1>1 DEF IInv, TypeOK, Sorted, a
<1> QED BY <1>1, <1>2, <1>3, IntervalType

LEMMA CurrentB ==
  ASSUME IInv, MoreB
  PROVE  /\ b_it \in 1..Len(b_vec) /\ b \in Interval
         /\ First(b) \in Nat /\ Last(b) \in Nat
         /\ First(b) <= Last(b)
         /\ 1 <= First(b) /\ Last(b) <= MaxPoint
         /\ PointsFrom(b_vec, b_it) = Inside(b) \cup PointsFrom(b_vec, b_it + 1)
         /\ \A x \in PointsFrom(b_vec, b_it + 1) : x \in Nat /\ Last(b) < x
<1>1. b_it \in 1..Len(b_vec) /\ b \in Interval
  BY DEF IInv, TypeOK, MoreB, b
<1>2. /\ PointsFrom(b_vec, b_it) = Inside(b) \cup PointsFrom(b_vec, b_it + 1)
      /\ \A x \in PointsFrom(b_vec, b_it + 1) : x \in Nat /\ Last(b) < x
  BY <1>1, PointsStep, PointsAfter DEF IInv, TypeOK, b
<1> QED BY <1>1, <1>2, IntervalType

\* The parts of a on both sides of b are proper intervals: the subtractions
\* that make them do not go below zero.
LEMMA LeftPartType ==
  ASSUME IInv, MoreA, MoreB, First(a) < First(b), First(b) <= Last(a)
  PROVE  /\ LeftPart \in Interval
         /\ First(LeftPart) = First(a) /\ Last(LeftPart) = First(b) - 1
<1>1. First(a) \in 1..MaxPoint /\ First(b) - First(a) \in 1..MaxPoint
      /\ First(b) - 1 \in 1..MaxPoint
  BY CurrentA, CurrentB, PointBound
<1>2. First(LeftPart) = First(a) /\ Last(LeftPart) = First(b) - 1
  BY CurrentA, CurrentB DEF LeftPart, First, Last
<1>3. LeftPart.start + LeftPart.len - 1 = First(b) - 1
  BY CurrentA, CurrentB DEF LeftPart
<1> QED BY <1>1, <1>2, <1>3 DEF LeftPart, Interval, Point

LEMMA RightPartType ==
  ASSUME IInv, MoreA, MoreB, First(a) <= Last(b), Last(b) < Last(a)
  PROVE  /\ RightPart \in Interval
         /\ First(RightPart) = Last(b) + 1 /\ Last(RightPart) = Last(a)
<1>1. Last(b) + 1 \in 1..MaxPoint /\ Last(a) - Last(b) \in 1..MaxPoint
      /\ Last(a) \in 1..MaxPoint
  BY CurrentA, CurrentB, PointBound
<1>2. First(RightPart) = Last(b) + 1
  BY DEF RightPart, First
<1>3. RightPart.start + RightPart.len - 1 = Last(a) /\ Last(RightPart) = Last(a)
  <2> HIDE DEF Last
  <2>1. RightPart.start = Last(b) + 1 /\ RightPart.len = Last(a) - Last(b)
    BY DEF RightPart
  <2>2. RightPart.start + RightPart.len - 1 = Last(a)
    BY <2>1, CurrentA, CurrentB
  <2> QED BY <2>2 DEF Last
<1> QED BY <1>1, <1>2, <1>3 DEF RightPart, Interval, Point

----------------------------------------------------------------------------
(* The loop. *)

LEMMA InvInit == Init => IInv
<1> SUFFICES ASSUME Init PROVE IInv
  OBVIOUS
<1>1. /\ a_vec \in Seq(Interval) /\ b_vec \in Seq(Interval)
      /\ header = a_vec /\ a_it = 1 /\ b_it = 1 /\ result = <<>>
  BY DEF Init, Vectors
<1>2. Sorted(a_vec) /\ Sorted(b_vec)
  BY <1>1, AdjacentSorted DEF Init
<1>3. TypeOK
  BY <1>1 DEF TypeOK
<1>4. Points(<<>>) = {}
  BY DEF Points, PointsFrom
<1>5. LoopInvariant
  BY <1>1, <1>4 DEF LoopInvariant, Points
<1>6. ResultSorted
  BY <1>1 DEF ResultSorted, Sorted
<1> QED BY <1>2, <1>3, <1>5, <1>6 DEF IInv

\* Every branch that puts an interval out puts out one that follows the result.
LEMMA ResultGrows ==
  ASSUME IInv, MoreA, NEW i \in Interval, First(i) = First(a)
  PROVE  /\ Append(result, i) \in Seq(Interval)
         /\ Sorted(Append(result, i))
         /\ Points(Append(result, i)) = Points(result) \cup Inside(i)
<1>1. result \in Seq(Interval)
  BY DEF IInv, TypeOK
<1>2. Sorted(result) /\ \A j \in 1..Len(result) : Last(result[j]) < First(i)
  BY DEF IInv, ResultSorted
<1> QED BY <1>1, <1>2, SortedAppend, PointsAppend

\* Going on to the next interval of a, the result stays before it, when it ends
\* before the end of a.
LEMMA ResultBeforeNext ==
  ASSUME IInv, MoreA, a_it' = a_it + 1, a_vec' = a_vec, MoreA',
         NEW i \in Interval, Last(i) <= Last(a)
  PROVE  Last(i) < First(a')
<1>1. a_it + 1 <= Len(a_vec) /\ a' = a_vec[a_it + 1]
  BY DEF MoreA, a
<1>2. Last(a) < First(a_vec[a_it + 1]) /\ Last(a) \in Nat /\ Last(i) \in Nat
  BY <1>1, CurrentA, IntervalType
<1>3. a_vec[a_it + 1] \in Interval
  BY <1>1, CurrentA DEF IInv, TypeOK
<1>4. First(a_vec[a_it + 1]) \in Nat
  BY <1>3, IntervalType
<1> QED BY <1>1, <1>2, <1>4

\* What is in the result ends before a ends.
LEMMA ResultBeforeEnd ==
  ASSUME IInv, MoreA, NEW j \in 1..Len(result)
  PROVE  result[j] \in Interval /\ Last(result[j]) <= Last(a)
<1>1. result[j] \in Interval
  BY DEF IInv, TypeOK
<1>2. Last(result[j]) < First(a)
  BY DEF IInv, ResultSorted
<1> QED BY <1>1, <1>2, CurrentA, IntervalType

LEMMA AppendElement ==
  ASSUME NEW v \in Seq(Interval), NEW i \in Interval, NEW j \in 1..Len(Append(v, i))
  PROVE  Append(v, i)[j] = i \/ (j \in 1..Len(v) /\ Append(v, i)[j] = v[j])
OBVIOUS

LEMMA InvTakeWhole == ASSUME IInv, TakeWhole PROVE IInv'
<1>1. /\ MoreA
      /\ MoreB => Last(a) < First(b)
      /\ result' = Append(result, a) /\ a_it' = a_it + 1
      /\ header' = header /\ a_vec' = a_vec /\ b_vec' = b_vec /\ b_it' = b_it
  BY DEF TakeWhole
<1>2. /\ a \in Interval /\ result' \in Seq(Interval) /\ Sorted(result')
      /\ Points(result') = Points(result) \cup Inside(a)
  BY <1>1, ResultGrows, CurrentA
<1>3. TypeOK'
  BY <1>1, <1>2, CurrentA DEF IInv, TypeOK
<1>4. LoopInvariant'
  <2>1. Inside(a) \cap PointsFrom(b_vec, b_it) = {}
    <3>1. CASE MoreB
      <4> SUFFICES ASSUME NEW x \in Inside(a), x \in PointsFrom(b_vec, b_it) PROVE FALSE
        OBVIOUS
      <4>1. x \in Nat /\ x < First(b)
        BY <1>1, <3>1, CurrentA, CurrentB, PointBound DEF Inside, Point
      <4>2. CASE x \in Inside(b)
        BY <4>1, <4>2, <3>1, CurrentB DEF Inside
      <4>3. CASE x \in PointsFrom(b_vec, b_it + 1)
        BY <4>1, <4>3, <3>1, CurrentB
      <4> QED BY <3>1, <4>2, <4>3, CurrentB
    <3>2. CASE ~ MoreB
      BY <3>2, PointsDone DEF IInv, TypeOK, MoreB
    <3> QED BY <3>1, <3>2
  <2>2. PointsFrom(a_vec, a_it) = Inside(a) \cup PointsFrom(a_vec, a_it + 1)
    BY <1>1, CurrentA
  <2>3. LoopInvariant
    BY DEF IInv
  <2> QED BY <1>1, <1>2, <2>1, <2>2, <2>3 DEF LoopInvariant, Points
<1>5. ResultSorted'
  <2> SUFFICES ASSUME MoreA', NEW j \in 1..Len(result') PROVE Last(result'[j]) < First(a')
    BY <1>2 DEF ResultSorted
  <2>1. result'[j] = a \/ (j \in 1..Len(result) /\ result'[j] = result[j])
    BY <1>1, <1>2, AppendElement DEF IInv, TypeOK
  <2>2. a \in Interval /\ Last(a) <= Last(a)
    BY <1>1, CurrentA
  <2>3. result'[j] \in Interval /\ Last(result'[j]) <= Last(a)
    BY <1>1, <2>1, <2>2, ResultBeforeEnd
  <2> QED BY <1>1, <2>3, ResultBeforeNext
<1> QED BY <1>1, <1>3, <1>4, <1>5 DEF IInv

LEMMA InvSkipB == ASSUME IInv, SkipB PROVE IInv'
<1>1. /\ MoreA /\ MoreB /\ First(a) > Last(b)
      /\ b_it' = b_it + 1 /\ result' = result
      /\ header' = header /\ a_vec' = a_vec /\ b_vec' = b_vec /\ a_it' = a_it
  BY DEF SkipB
<1>2. TypeOK'
  BY <1>1, CurrentB DEF IInv, TypeOK
<1>3. LoopInvariant'
  <2>1. Inside(b) \cap PointsFrom(a_vec, a_it) = {}
    <3> SUFFICES ASSUME NEW x \in Inside(b), x \in PointsFrom(a_vec, a_it) PROVE FALSE
      OBVIOUS
    <3>1. x \in Nat /\ x < First(a)
      BY <1>1, CurrentA, CurrentB, PointBound DEF Inside, Point
    <3>2. CASE x \in Inside(a)
      BY <1>1, <3>1, <3>2, CurrentA DEF Inside
    <3>3. CASE x \in PointsFrom(a_vec, a_it + 1)
      BY <1>1, <3>1, <3>3, CurrentA
    <3> QED BY <1>1, <3>2, <3>3, CurrentA
  <2>2. PointsFrom(b_vec, b_it) = Inside(b) \cup PointsFrom(b_vec, b_it + 1)
    BY <1>1, CurrentB
  <2>3. LoopInvariant
    BY DEF IInv
  <2> QED BY <1>1, <2>1, <2>2, <2>3 DEF LoopInvariant
<1>4. ResultSorted'
  BY <1>1 DEF IInv, ResultSorted, MoreA, a
<1> QED BY <1>1, <1>2, <1>3, <1>4 DEF IInv

\* The two parts hold the points of a before b and after b.
LEMMA LeftPoints ==
  ASSUME IInv, MoreA, MoreB, First(a) < First(b), First(b) <= Last(a)
  PROVE  Inside(LeftPart) = {x \in Inside(a) : x < First(b)}
<1>1. First(LeftPart) = First(a) /\ Last(LeftPart) = First(b) - 1
  BY LeftPartType
<1>2. ASSUME NEW x \in Point
      PROVE  x \in Inside(LeftPart) <=> x \in Inside(a) /\ x < First(b)
  <2>1. x \in Nat
    BY PointBound DEF Point
  <2> QED BY <1>1, <2>1, CurrentA, CurrentB DEF Inside
<1> QED BY <1>2 DEF Inside

LEMMA RightPoints ==
  ASSUME IInv, MoreA, MoreB, First(a) <= Last(b), Last(b) < Last(a)
  PROVE  Inside(RightPart) = {x \in Inside(a) : Last(b) < x}
<1>1. First(RightPart) = Last(b) + 1 /\ Last(RightPart) = Last(a)
  BY RightPartType
<1>2. ASSUME NEW x \in Point
      PROVE  x \in Inside(RightPart) <=> x \in Inside(a) /\ Last(b) < x
  <2>1. x \in Nat
    BY PointBound DEF Point
  <2> QED BY <1>1, <2>1, CurrentA, CurrentB DEF Inside
<1> QED BY <1>2 DEF Inside

\* What is left of a_vec once its current interval has been shortened.
LEMMA Shortened ==
  ASSUME IInv, MoreA, MoreB, First(a) <= Last(b), Last(b) < Last(a),
         a_vec' = [a_vec EXCEPT ![a_it] = RightPart], a_it' = a_it
  PROVE  /\ a_vec' \in Seq(Interval) /\ Len(a_vec') = Len(a_vec)
         /\ Sorted(a_vec') /\ a' = RightPart
         /\ PointsFrom(a_vec', a_it) = Inside(RightPart) \cup PointsFrom(a_vec, a_it + 1)
<1>1. /\ a_vec \in Seq(Interval) /\ a_it \in 1..Len(a_vec) /\ Sorted(a_vec)
      /\ a_vec[a_it] = a
  BY CurrentA DEF IInv, TypeOK, a
<1>2. /\ RightPart \in Interval /\ Last(RightPart) = Last(a)
      /\ First(a) <= First(RightPart)
  BY RightPartType, CurrentA, CurrentB
<1>3. /\ a_vec' \in Seq(Interval) /\ Len(a_vec') = Len(a_vec)
      /\ PointsFrom(a_vec', a_it) = Inside(RightPart) \cup PointsFrom(a_vec, a_it + 1)
  BY <1>1, <1>2, PointsExcept
<1>4. Sorted(a_vec')
  BY <1>1, <1>2, SortedExcept
<1>5. a' = RightPart
  BY <1>1 DEF a
<1> QED BY <1>3, <1>4, <1>5

\* Points of the intervals around, against the current ones.
LEMMA Apart ==
  ASSUME IInv, MoreA, MoreB
  PROVE  /\ \A x \in Inside(a) : x \in Nat /\ First(a) <= x /\ x <= Last(a)
         /\ \A x \in Inside(a) : x \in Inside(b) <=> First(b) <= x /\ x <= Last(b)
         /\ \A x \in Inside(a) : x \in PointsFrom(b_vec, b_it + 1) => Last(b) < x
         /\ Last(b) <= Last(a) => Inside(b) \cap PointsFrom(a_vec, a_it + 1) = {}
<1>1. \A x \in Point : x \in Nat
  BY PointBound DEF Point
<1>2. \A x \in Inside(a) : x \in Nat /\ First(a) <= x /\ x <= Last(a)
  BY <1>1 DEF Inside
<1>3. \A x \in Inside(a) : x \in Inside(b) <=> First(b) <= x /\ x <= Last(b)
  BY DEF Inside
<1>4. \A x \in Inside(a) : x \in PointsFrom(b_vec, b_it + 1) => Last(b) < x
  BY CurrentB
<1>5. Last(b) <= Last(a) => Inside(b) \cap PointsFrom(a_vec, a_it + 1) = {}
  <2> SUFFICES ASSUME Last(b) <= Last(a), NEW x \in Inside(b),
                      x \in PointsFrom(a_vec, a_it + 1)
               PROVE  FALSE
    OBVIOUS
  <2>1. x \in Nat /\ x <= Last(b)
    BY <1>1 DEF Inside
  <2>2. Last(a) \in Nat /\ Last(a) < x
    BY CurrentA
  <2>3. Last(b) \in Nat
    BY CurrentB
  <2> QED BY <2>1, <2>2, <2>3
<1> QED BY <1>2, <1>3, <1>4, <1>5

\* The ends of the two current intervals, for the arithmetic of the branches.
LEMMA CurrentEnds ==
  ASSUME IInv, MoreA, MoreB
  PROVE  /\ First(a) \in Nat /\ Last(a) \in Nat /\ First(a) <= Last(a)
         /\ First(b) \in Nat /\ Last(b) \in Nat /\ First(b) <= Last(b)
BY CurrentA, CurrentB

LEMMA CurrentPoints ==
  ASSUME IInv, MoreA, MoreB
  PROVE  /\ PointsFrom(a_vec, a_it) = Inside(a) \cup PointsFrom(a_vec, a_it + 1)
         /\ PointsFrom(b_vec, b_it) = Inside(b) \cup PointsFrom(b_vec, b_it + 1)
BY CurrentA, CurrentB

LEMMA InvSplit == ASSUME IInv, Split PROVE IInv'
<1>1. /\ MoreA /\ MoreB /\ First(a) <= Last(b) /\ First(b) <= Last(a)
      /\ First(a) < First(b) /\ Last(b) < Last(a)
      /\ result' = Append(result, LeftPart)
      /\ a_vec' = [a_vec EXCEPT ![a_it] = RightPart]
      /\ b_it' = b_it + 1
      /\ header' = header /\ b_vec' = b_vec /\ a_it' = a_it
  BY DEF Split, Overlap
<1>2. /\ LeftPart \in Interval /\ First(LeftPart) = First(a)
      /\ Last(LeftPart) = First(b) - 1
  BY <1>1, LeftPartType
<1>3. /\ result' \in Seq(Interval) /\ Sorted(result')
      /\ Points(result') = Points(result) \cup Inside(LeftPart)
  BY <1>1, <1>2, ResultGrows
<1>4. /\ a_vec' \in Seq(Interval) /\ Len(a_vec') = Len(a_vec)
      /\ Sorted(a_vec') /\ a' = RightPart
      /\ PointsFrom(a_vec', a_it) = Inside(RightPart) \cup PointsFrom(a_vec, a_it + 1)
  BY <1>1, Shortened
<1>5. TypeOK'
  BY <1>1, <1>3, <1>4, CurrentB DEF IInv, TypeOK
<1>6. LoopInvariant'
  <2>1. Inside(LeftPart) = {x \in Inside(a) : x < First(b)}
    BY <1>1, LeftPoints
  <2>2. Inside(RightPart) = {x \in Inside(a) : Last(b) < x}
    BY <1>1, RightPoints
  <2>3. \A x \in Inside(a) :
          /\ x \in Inside(b) <=> (~ x < First(b) /\ ~ Last(b) < x)
          /\ x < First(b) => x \notin PointsFrom(b_vec, b_it + 1)
          /\ ~ (x < First(b) /\ Last(b) < x)
    <3> SUFFICES ASSUME NEW x \in Inside(a)
                 PROVE  /\ x \in Inside(b) <=> (~ x < First(b) /\ ~ Last(b) < x)
                        /\ x < First(b) => x \notin PointsFrom(b_vec, b_it + 1)
                        /\ ~ (x < First(b) /\ Last(b) < x)
      OBVIOUS
    <3>1. /\ x \in Nat
          /\ x \in Inside(b) <=> First(b) <= x /\ x <= Last(b)
          /\ x \in PointsFrom(b_vec, b_it + 1) => Last(b) < x
      BY <1>1, Apart
    <3>2. First(b) \in Nat /\ Last(b) \in Nat /\ First(b) <= Last(b)
      BY <1>1, CurrentB
    <3> QED BY <3>1, <3>2
  <2>4. Inside(b) \cap PointsFrom(a_vec, a_it + 1) = {}
    <3>1. Last(b) <= Last(a)
      BY <1>1, CurrentEnds
    <3> QED BY <1>1, <3>1, Apart
  <2>5. /\ PointsFrom(a_vec, a_it) = Inside(a) \cup PointsFrom(a_vec, a_it + 1)
        /\ PointsFrom(b_vec, b_it) = Inside(b) \cup PointsFrom(b_vec, b_it + 1)
    BY <1>1, CurrentPoints
  <2>6. (Inside(a) \cup PointsFrom(a_vec, a_it + 1))
            \ (Inside(b) \cup PointsFrom(b_vec, b_it + 1))
          = Inside(LeftPart) \cup ((Inside(RightPart) \cup PointsFrom(a_vec, a_it + 1))
                                   \ PointsFrom(b_vec, b_it + 1))
    BY <2>1, <2>2, <2>3, <2>4
  <2>7. LoopInvariant
    BY DEF IInv
  <2> QED BY <1>1, <1>3, <1>4, <2>5, <2>6, <2>7 DEF LoopInvariant, Points
<1>7. ResultSorted'
  <2> SUFFICES ASSUME NEW j \in 1..Len(result') PROVE Last(result'[j]) < First(a')
    BY <1>3 DEF ResultSorted
  <2>1. First(a') = Last(b) + 1
    BY <1>1, <1>4, RightPartType
  <2>2. CASE result'[j] = LeftPart
    <3>1. Last(result'[j]) = First(b) - 1
      BY <1>2, <2>2
    <3> QED BY <1>1, <2>1, <3>1, CurrentEnds
  <2>3. CASE j \in 1..Len(result) /\ result'[j] = result[j]
    <3>1. result[j] \in Interval /\ Last(result[j]) < First(a)
      BY <1>1, <2>3 DEF IInv, TypeOK, ResultSorted
    <3>2. Last(result[j]) \in Nat
      BY <3>1, IntervalType
    <3>3. Last(result[j]) < Last(b) + 1
      BY <1>1, <3>1, <3>2, CurrentEnds
    <3> QED BY <2>1, <2>3, <3>3
  <2>4. result'[j] = LeftPart \/ (j \in 1..Len(result) /\ result'[j] = result[j])
    BY <1>1, <1>2, AppendElement DEF IInv, TypeOK
  <2> QED BY <2>2, <2>3, <2>4
<1> QED BY <1>1, <1>4, <1>5, <1>6, <1>7 DEF IInv

LEMMA InvCutRight == ASSUME IInv, CutRight PROVE IInv'
<1>1. /\ MoreA /\ MoreB /\ First(a) <= Last(b) /\ First(b) <= Last(a)
      /\ First(a) < First(b) /\ Last(b) >= Last(a)
      /\ result' = Append(result, LeftPart) /\ a_it' = a_it + 1
      /\ header' = header /\ a_vec' = a_vec /\ b_vec' = b_vec /\ b_it' = b_it
  BY DEF CutRight, Overlap
<1>2. /\ LeftPart \in Interval /\ First(LeftPart) = First(a)
      /\ Last(LeftPart) = First(b) - 1
  BY <1>1, LeftPartType
<1>3. /\ result' \in Seq(Interval) /\ Sorted(result')
      /\ Points(result') = Points(result) \cup Inside(LeftPart)
  BY <1>1, <1>2, ResultGrows
<1>4. TypeOK'
  BY <1>1, <1>3, CurrentA DEF IInv, TypeOK
<1>5. LoopInvariant'
  <2>1. Inside(LeftPart) = {x \in Inside(a) : x < First(b)}
    BY <1>1, LeftPoints
  <2>2. \A x \in Inside(a) :
          /\ x \in Inside(b) <=> ~ x < First(b)
          /\ x < First(b) => x \notin PointsFrom(b_vec, b_it + 1)
    <3> SUFFICES ASSUME NEW x \in Inside(a)
                 PROVE  /\ x \in Inside(b) <=> ~ x < First(b)
                        /\ x < First(b) => x \notin PointsFrom(b_vec, b_it + 1)
      OBVIOUS
    <3>1. /\ x \in Nat /\ x <= Last(a)
          /\ x \in Inside(b) <=> First(b) <= x /\ x <= Last(b)
          /\ x \in PointsFrom(b_vec, b_it + 1) => Last(b) < x
      BY <1>1, Apart
    <3> QED BY <1>1, <3>1, CurrentEnds
  <2>3. /\ PointsFrom(a_vec, a_it) = Inside(a) \cup PointsFrom(a_vec, a_it + 1)
        /\ PointsFrom(b_vec, b_it) = Inside(b) \cup PointsFrom(b_vec, b_it + 1)
    BY <1>1, CurrentPoints
  <2>4. Inside(a) \ PointsFrom(b_vec, b_it) = Inside(LeftPart)
    BY <2>1, <2>2, <2>3
  <2>5. LoopInvariant
    BY DEF IInv
  <2> QED BY <1>1, <1>3, <2>3, <2>4, <2>5 DEF LoopInvariant, Points
<1>6. ResultSorted'
  <2> SUFFICES ASSUME MoreA', NEW j \in 1..Len(result') PROVE Last(result'[j]) < First(a')
    BY <1>3 DEF ResultSorted
  <2>1. Last(LeftPart) <= Last(a)
    BY <1>1, <1>2, CurrentEnds
  <2>2. result'[j] = LeftPart \/ (j \in 1..Len(result) /\ result'[j] = result[j])
    BY <1>1, <1>2, AppendElement DEF IInv, TypeOK
  <2>3. result'[j] \in Interval /\ Last(result'[j]) <= Last(a)
    BY <1>1, <1>2, <2>1, <2>2, ResultBeforeEnd
  <2> QED BY <1>1, <2>3, ResultBeforeNext
<1> QED BY <1>1, <1>4, <1>5, <1>6 DEF IInv

LEMMA InvSwallow == ASSUME IInv, Swallow PROVE IInv'
<1>1. /\ MoreA /\ MoreB /\ First(a) >= First(b) /\ Last(b) >= Last(a)
      /\ a_it' = a_it + 1 /\ result' = result
      /\ header' = header /\ a_vec' = a_vec /\ b_vec' = b_vec /\ b_it' = b_it
  BY DEF Swallow
<1>2. TypeOK'
  BY <1>1, CurrentA DEF IInv, TypeOK
<1>3. LoopInvariant'
  <2>1. Inside(a) \subseteq Inside(b)
    <3> SUFFICES ASSUME NEW x \in Inside(a) PROVE x \in Inside(b)
      OBVIOUS
    <3>1. /\ x \in Nat /\ First(a) <= x /\ x <= Last(a)
          /\ x \in Inside(b) <=> First(b) <= x /\ x <= Last(b)
      BY <1>1, Apart
    <3> QED BY <1>1, <3>1, CurrentEnds
  <2>2. /\ PointsFrom(a_vec, a_it) = Inside(a) \cup PointsFrom(a_vec, a_it + 1)
        /\ PointsFrom(b_vec, b_it) = Inside(b) \cup PointsFrom(b_vec, b_it + 1)
    BY <1>1, CurrentPoints
  <2>3. LoopInvariant
    BY DEF IInv
  <2> QED BY <1>1, <2>1, <2>2, <2>3 DEF LoopInvariant
<1>4. ResultSorted'
  <2> SUFFICES ASSUME MoreA', NEW j \in 1..Len(result) PROVE Last(result[j]) < First(a')
    BY <1>1 DEF IInv, ResultSorted
  <2> QED BY <1>1, ResultBeforeEnd, ResultBeforeNext
<1> QED BY <1>1, <1>2, <1>3, <1>4 DEF IInv

LEMMA InvCutLeft == ASSUME IInv, CutLeft PROVE IInv'
<1>1. /\ MoreA /\ MoreB /\ First(a) <= Last(b) /\ First(b) <= Last(a)
      /\ First(a) >= First(b) /\ Last(b) < Last(a)
      /\ a_vec' = [a_vec EXCEPT ![a_it] = RightPart]
      /\ b_it' = b_it + 1
      /\ header' = header /\ b_vec' = b_vec /\ a_it' = a_it /\ result' = result
  BY DEF CutLeft, Overlap
<1>2. /\ a_vec' \in Seq(Interval) /\ Len(a_vec') = Len(a_vec)
      /\ Sorted(a_vec') /\ a' = RightPart
      /\ PointsFrom(a_vec', a_it) = Inside(RightPart) \cup PointsFrom(a_vec, a_it + 1)
  BY <1>1, Shortened
<1>3. TypeOK'
  BY <1>1, <1>2, CurrentB DEF IInv, TypeOK
<1>4. LoopInvariant'
  <2>1. Inside(RightPart) = {x \in Inside(a) : Last(b) < x}
    BY <1>1, RightPoints
  <2>2. \A x \in Inside(a) : x \in Inside(b) <=> ~ Last(b) < x
    <3> SUFFICES ASSUME NEW x \in Inside(a) PROVE x \in Inside(b) <=> ~ Last(b) < x
      OBVIOUS
    <3>1. /\ x \in Nat /\ First(a) <= x
          /\ x \in Inside(b) <=> First(b) <= x /\ x <= Last(b)
      BY <1>1, Apart
    <3> QED BY <1>1, <3>1, CurrentEnds
  <2>3. Inside(b) \cap PointsFrom(a_vec, a_it + 1) = {}
    <3>1. Last(b) <= Last(a)
      BY <1>1, CurrentEnds
    <3> QED BY <1>1, <3>1, Apart
  <2>4. /\ PointsFrom(a_vec, a_it) = Inside(a) \cup PointsFrom(a_vec, a_it + 1)
        /\ PointsFrom(b_vec, b_it) = Inside(b) \cup PointsFrom(b_vec, b_it + 1)
    BY <1>1, CurrentPoints
  <2>5. PointsFrom(a_vec, a_it) \ PointsFrom(b_vec, b_it)
          = (Inside(RightPart) \cup PointsFrom(a_vec, a_it + 1)) \ PointsFrom(b_vec, b_it + 1)
    BY <2>1, <2>2, <2>3, <2>4
  <2>6. LoopInvariant
    BY DEF IInv
  <2> QED BY <1>1, <1>2, <2>5, <2>6 DEF LoopInvariant
<1>5. ResultSorted'
  <2> SUFFICES ASSUME NEW j \in 1..Len(result) PROVE Last(result[j]) < First(a')
    BY <1>1 DEF IInv, ResultSorted
  <2>1. First(a') = Last(b) + 1
    BY <1>1, <1>2, RightPartType
  <2>2. result[j] \in Interval /\ Last(result[j]) < First(a)
    BY <1>1 DEF IInv, TypeOK, ResultSorted
  <2>3. Last(result[j]) \in Nat
    BY <2>2, IntervalType
  <2>4. Last(result[j]) < Last(b) + 1
    BY <1>1, <2>2, <2>3, CurrentEnds
  <2> QED BY <2>1, <2>4
<1> QED BY <1>1, <1>2, <1>3, <1>4, <1>5 DEF IInv

LEMMA InvStep == IInv /\ [Next]_vars => IInv'
<1> SUFFICES ASSUME IInv, [Next]_vars PROVE IInv'
  OBVIOUS
<1>1. CASE UNCHANGED vars
  <2>1. /\ header' = header /\ a_vec' = a_vec /\ b_vec' = b_vec
        /\ a_it' = a_it /\ b_it' = b_it /\ result' = result
    BY <1>1 DEF vars
  <2>2. TypeOK' = TypeOK
    BY <2>1 DEF TypeOK
  <2>3. LoopInvariant' = LoopInvariant
    BY <2>1 DEF LoopInvariant
  <2>4. ResultSorted' = ResultSorted
    BY <2>1 DEF ResultSorted, MoreA, a
  <2> QED BY <2>1, <2>2, <2>3, <2>4 DEF IInv
<1>2. CASE Next
  BY <1>2, InvTakeWhole, InvSkipB, InvSplit, InvCutRight, InvSwallow, InvCutLeft DEF Next
<1> QED BY <1>1, <1>2

LEMMA Invariance == Spec => []IInv
<1> QED BY InvInit, InvStep, PTL DEF Spec

----------------------------------------------------------------------------
(* What the loop computes. *)

\* No interval the loop makes is empty or out of range, so no unsigned
\* subtraction in it goes below zero.
THEOREM TypeCorrect == Spec => []TypeOK
<1>1. IInv => TypeOK
  BY DEF IInv
<1> QED BY <1>1, Invariance, PTL

\* When the loop ends, the result holds what the peer has and the replica lacks.
THEOREM Correct == Spec => []ResultIsDifference
<1>1. IInv => ResultIsDifference
  <2> SUFFICES ASSUME IInv, ~ MoreA
               PROVE  Points(result) = Points(header) \ Points(b_vec)
    BY DEF ResultIsDifference
  <2>1. PointsFrom(a_vec, a_it) = {}
    <3>1. /\ a_vec \in Seq(Interval) /\ Len(a_vec) \in Nat
          /\ a_it \in Nat /\ ~ (a_it <= Len(a_vec))
      BY DEF IInv, TypeOK, MoreA
    <3>2. a_it > Len(a_vec)
      BY <3>1
    <3> QED BY <3>1, <3>2, PointsDone
  <2> QED BY <2>1 DEF IInv, LoopInvariant
<1> QED BY <1>1, Invariance, PTL

\* The result is in order and without overlaps, so no row is asked for twice.
THEOREM InOrder == Spec => []ResultSorted
<1>1. IInv => ResultSorted
  BY DEF IInv
<1> QED BY <1>1, Invariance, PTL

----------------------------------------------------------------------------
(* That the loop ends. *)

\* The intervals the two iterators have not passed.
Remaining == (Len(a_vec) - a_it + 1) + (Len(b_vec) - b_it + 1)

\* What an iteration passes: an interval of a_vec, or one of b_vec.
OnA == Len(a_vec') = Len(a_vec) /\ b_vec' = b_vec /\ a_it' = a_it + 1 /\ b_it' = b_it
OnB == Len(a_vec') = Len(a_vec) /\ b_vec' = b_vec /\ a_it' = a_it /\ b_it' = b_it + 1

PassesOne == Remaining \in Nat \ {0} /\ Remaining' = Remaining - 1

\* Every iteration passes exactly one interval, also the ones that shorten a_vec in
\* place: the loop runs at most once for every interval of its two arguments.
THEOREM EachIterationAdvances == Spec => [][PassesOne]_vars
<1>1. IInv /\ Next => PassesOne
  <2> SUFFICES ASSUME IInv, Next PROVE PassesOne
    OBVIOUS
  <2>1. /\ Len(a_vec) \in Nat /\ Len(b_vec) \in Nat
        /\ a_it \in 1..(Len(a_vec) + 1) /\ b_it \in 1..(Len(b_vec) + 1)
    BY DEF IInv, TypeOK
  <2>2. \A i : Len([a_vec EXCEPT ![a_it] = i]) = Len(a_vec)
    <3>1. a_vec \in Seq(Interval)
      BY DEF IInv, TypeOK
    <3> QED BY <3>1
  <2>3. (MoreA /\ OnA) \/ (MoreA /\ MoreB /\ OnB)
    <3>1. CASE TakeWhole
      BY <3>1 DEF TakeWhole, OnA
    <3>2. CASE SkipB
      BY <3>2 DEF SkipB, OnB
    <3>3. CASE Split
      BY <2>2, <3>3 DEF Split, OnB
    <3>4. CASE CutRight
      BY <3>4 DEF CutRight, OnA
    <3>5. CASE Swallow
      BY <3>5 DEF Swallow, OnA
    <3>6. CASE CutLeft
      BY <2>2, <3>6 DEF CutLeft, OnB
    <3> QED BY <3>1, <3>2, <3>3, <3>4, <3>5, <3>6 DEF Next
  <2>4. CASE MoreA /\ OnA
    BY <2>1, <2>4 DEF PassesOne, Remaining, MoreA, OnA
  <2>5. CASE MoreA /\ MoreB /\ OnB
    BY <2>1, <2>5 DEF PassesOne, Remaining, MoreA, MoreB, OnB
  <2> QED BY <2>3, <2>4, <2>5
<1> QED BY <1>1, Invariance, PTL DEF Spec
=============================================================================
