-------------------------- MODULE LogSerialProofs --------------------------
(***************************************************************************)
(* What TLAPS proves about the headers of LogCrdt.  Most of it is for      *)
(* callers that finish or drop one pull before the next one and merge an   *)
(* update once, as those in tests/ and app/ do and nothing in the library  *)
(* makes others do, and for statements that do not fail.  It includes      *)
(* crashes inside merge, lost values, restarts, and keys that come late.   *)
(*                                                                         *)
(* Then no table ever has two rows for one (author, lamport), although no  *)
(* index of the database forbids it.  That needs the query of the headers  *)
(* to be exact, so that requests ask for nothing that is there; and the    *)
(* query is exact because there are no such rows.  The two are proved      *)
(* together, as SerialInv.  OnlyDoublesAbort says what is left of this     *)
(* whatever the callers do and the statements.                             *)
(***************************************************************************)
EXTENDS LogCrdtProofs, Sequences

\* The table has one row at most for an author and a lamport.
NoTwice(table) ==
  \A r, q \in table :
    r.msg.author = q.msg.author /\ r.msg.lamport = q.msg.lamport => r = q

----------------------------------------------------------------------------
(* Finite sets of numbers. *)

LEMMA HasLeast ==
  ASSUME NEW M \in Nat, NEW S \in SUBSET (1..M), S # {}
  PROVE  \E x \in S : \A y \in S : x <= y
<1> DEFINE T == {1..x : x \in S}
           R == StrictSubsetOrdering(1..M)
<1>1. IsWellFoundedOn(R, FiniteSubsetsOf(1..M))
  BY FS_StrictSubsetOrderingWellFounded
<1>2. T \subseteq FiniteSubsetsOf(1..M) /\ T # {}
  <2>1. ASSUME NEW x \in S PROVE 1..x \in FiniteSubsetsOf(1..M)
    <3>1. IsFiniteSet(1..x)
      BY FS_Interval
    <3>2. 1..x \in SUBSET (1..M)
      OBVIOUS
    <3> QED BY <3>1, <3>2 DEF FiniteSubsetsOf
  <2>2. \E x : x \in S
    OBVIOUS
  <2> QED BY <2>1, <2>2
<1>3. PICK X \in T : \A Y \in T : <<Y, X>> \notin R
  <2> HIDE DEF T, R
  <2> QED BY <1>1, <1>2, WFMin
<1>4. PICK x \in S : X = 1..x
  OBVIOUS
<1>5. ASSUME NEW y \in S, y < x PROVE FALSE
  <2>1. (1..y) \subseteq 1..x /\ 1..y # 1..x
    <3>1. x \in 1..x /\ x \notin 1..y
      BY <1>5
    <3> QED BY <1>5, <3>1
  <2>2. <<1..y, X>> \in R
    BY <1>4, <2>1 DEF StrictSubsetOrdering
  <2> QED BY <1>3, <2>2
<1> QED BY <1>5

LEMMA HasGreatest ==
  ASSUME NEW M \in Nat, NEW S \in SUBSET (1..M), S # {}
  PROVE  \E x \in S : \A y \in S : y <= x
<1> DEFINE T == {M + 1 - x : x \in S}
<1>1. T \in SUBSET (1..M) /\ T # {}
  <2>1. \A x \in S : M + 1 - x \in 1..M
    OBVIOUS
  <2>2. \E x : x \in S
    OBVIOUS
  <2> QED BY <2>1, <2>2
<1>2. PICK z \in T : \A y \in T : z <= y
  <2> HIDE DEF T
  <2> QED BY <1>1, HasLeast
<1>3. PICK x \in S : z = M + 1 - x
  OBVIOUS
<1>4. \A y \in S : M + 1 - x <= M + 1 - y
  BY <1>2, <1>3
<1> QED BY <1>4

Below(L, l) == {k \in L : k <= l}

\* Between two numbers of L lie as many numbers of L as their ranks differ by:
\* not more than there are numbers, and if as many, then all of them.
LEMMA RankGap ==
  ASSUME NEW M \in Nat, NEW L \in SUBSET (1..M), NEW p \in L, NEW q \in L, p <= q
  PROVE  /\ Cardinality(Below(L, q)) - Cardinality(Below(L, p)) <= q - p
         /\ Cardinality(Below(L, q)) - Cardinality(Below(L, p)) = q - p => p..q \subseteq L
         /\ Cardinality(Below(L, p)) \in Nat /\ Cardinality(Below(L, q)) \in Nat
<1> DEFINE G == Below(L, q) \ Below(L, p)
<1>1. \A l \in L : IsFiniteSet(Below(L, l)) /\ Cardinality(Below(L, l)) \in Nat
  <2> SUFFICES ASSUME NEW l \in L
               PROVE  IsFiniteSet(Below(L, l)) /\ Cardinality(Below(L, l)) \in Nat
    OBVIOUS
  <2>1. IsFiniteSet(1..M)
    BY FS_Interval
  <2>2. Below(L, l) \in SUBSET (1..M)
    BY DEF Below
  <2>3. IsFiniteSet(Below(L, l))
    BY <2>1, <2>2, FS_Subset
  <2> QED BY <2>3, FS_CardinalityType
<1>0. p \in Nat /\ q \in Nat /\ \A k \in L : k \in Nat
  OBVIOUS
<1>2. Below(L, q) \cap Below(L, p) = Below(L, p)
  <2>1. \A k \in L : k <= p => k <= q
    BY <1>0
  <2> QED BY <2>1 DEF Below
<1>3. Cardinality(G) = Cardinality(Below(L, q)) - Cardinality(Below(L, p))
  BY <1>1, <1>2, FS_Difference
<1>4. G \in SUBSET ((p + 1)..q)
  <2>1. \A k \in L : k <= q /\ ~ (k <= p) => k \in (p + 1)..q
    BY <1>0
  <2> QED BY <2>1 DEF Below
<1>5. IsFiniteSet((p + 1)..q) /\ Cardinality((p + 1)..q) = q - p
  <2>1. p + 1 \in Int /\ q \in Int
    BY <1>0
  <2>2. /\ IsFiniteSet((p + 1)..q)
        /\ Cardinality((p + 1)..q) = IF p + 1 > q THEN 0 ELSE q - (p + 1) + 1
    BY <2>1, FS_Interval
  <2> QED BY <2>2, <1>0
<1>6. Cardinality(G) <= q - p /\ (Cardinality(G) = q - p => G = (p + 1)..q)
  <2> DEFINE I == (p + 1)..q
  <2>1. IsFiniteSet(I) /\ G \in SUBSET I /\ Cardinality(I) = q - p
    BY <1>4, <1>5
  <2> HIDE DEF G, I
  <2>2. Cardinality(G) <= Cardinality(I) /\ (Cardinality(I) = Cardinality(G) => I = G)
    BY <2>1, FS_Subset
  <2> QED BY <2>1, <2>2 DEF I
<1>7. G = (p + 1)..q => p..q \subseteq L
  <2>1. G \subseteq L
    BY DEF Below
  <2>2. \A x \in p..q : x = p \/ x \in (p + 1)..q
    BY <1>0
  <2> HIDE DEF G
  <2> QED BY <2>1, <2>2
<1> QED BY <1>1, <1>3, <1>6, <1>7

----------------------------------------------------------------------------
(* The query of the headers on a table without double rows. *)

LEMMA LamportsFinite == IsFiniteSet(1..MaxLamport) /\ MaxLamport \in Nat
<1>1. MaxLamport \in Nat
  BY BoundAssumption
<1> QED BY <1>1, FS_Interval

LEMMA LamportsType ==
  ASSUME NEW table \in SUBSET Row, NEW a \in Node
  PROVE  Lamports(table, a) \in SUBSET (1..MaxLamport)
BY DEF Lamports, RowsOf, Row, Message, Lamport

\* The number of rows up to a lamport is the number of lamports up to it.
LEMMA RowsAreLamports ==
  ASSUME NEW table \in SUBSET Row, NoTwice(table), NEW a \in Node,
         NEW L, L \subseteq Lamports(table, a), NEW R,
         R = {r \in RowsOf(table, a) : r.msg.lamport \in L}
  PROVE  Cardinality(R) = Cardinality(L)
<1> DEFINE f == [r \in R |-> r.msg.lamport]
<1>1. IsFiniteSet(L)
  <2>1. L \in SUBSET (1..MaxLamport)
    BY LamportsType
  <2> QED BY <2>1, LamportsFinite, FS_Subset
<1>2. f \in Injection(R, L)
  <2>1. f \in [R -> L]
    OBVIOUS
  <2>2. \A x, y \in R : f[x] = f[y] => x = y
    BY DEF RowsOf, NoTwice
  <2> QED BY <2>1, <2>2 DEF Injection, IsInjective
<1>3. f \in Surjection(R, L)
  <2>1. \A l \in L : \E r \in R : f[r] = l
    BY DEF Lamports
  <2> QED BY <2>1 DEF Surjection
<1> QED
  <2> HIDE DEF f
  <2> QED BY <1>1, <1>2, <1>3, FS_Injection

\* Row numbers are ranks.
LEMMA NumberedExact ==
  ASSUME NEW table \in SUBSET Row, NoTwice(table), NEW a \in Node
  PROVE  Numbered(table, a) =
           {<<l, Cardinality(Below(Lamports(table, a), l))>> : l \in Lamports(table, a)}
<1> DEFINE L == Lamports(table, a)
           hi(l) == Cardinality({r \in RowsOf(table, a) : r.msg.lamport <= l})
           lo(l) == Cardinality({r \in RowsOf(table, a) : r.msg.lamport < l})
           rank(l) == Cardinality(Below(L, l))
<1>1. L \in SUBSET (1..MaxLamport)
  BY LamportsType
<1>2. ASSUME NEW l \in L
      PROVE  {<<l, k>> : k \in lo(l) + 1 .. hi(l)} = {<<l, rank(l)>>}
  <2>1. hi(l) = rank(l)
    <3>1. {r \in RowsOf(table, a) : r.msg.lamport <= l}
            = {r \in RowsOf(table, a) : r.msg.lamport \in Below(L, l)}
      BY DEF Below, Lamports
    <3>2. Below(L, l) \subseteq L
      BY DEF Below
    <3> HIDE DEF L
    <3> QED BY <3>1, <3>2, RowsAreLamports DEF L
  <2>2. lo(l) = Cardinality(Below(L, l) \ {l})
    <3>1. {r \in RowsOf(table, a) : r.msg.lamport < l}
            = {r \in RowsOf(table, a) : r.msg.lamport \in Below(L, l) \ {l}}
      <4>1. \A k \in L : k < l <=> k <= l /\ k # l
        BY <1>1
      <4>2. \A r \in RowsOf(table, a) : r.msg.lamport \in L
        BY DEF Lamports
      <4> HIDE DEF L
      <4> QED BY <4>1, <4>2 DEF Below
    <3>2. Below(L, l) \ {l} \subseteq L
      BY DEF Below
    <3> HIDE DEF L
    <3> QED BY <3>1, <3>2, RowsAreLamports DEF L
  <2>3. rank(l) \in Nat /\ IsFiniteSet(Below(L, l))
    <3>1. Below(L, l) \in SUBSET (1..MaxLamport)
      BY <1>1 DEF Below
    <3>2. IsFiniteSet(Below(L, l))
      BY <3>1, LamportsFinite, FS_Subset
    <3> QED BY <3>2, FS_CardinalityType
  <2>4. l \in Below(L, l)
    BY <1>1 DEF Below
  <2>5. Cardinality(Below(L, l) \ {l}) = rank(l) - 1
    <3> HIDE DEF L
    <3> QED BY <2>3, <2>4, FS_RemoveElement
  <2> HIDE DEF hi, lo, rank, L
  <2>6. lo(l) + 1 .. hi(l) = {rank(l)}
    BY <2>1, <2>2, <2>3, <2>5
  <2> QED BY <2>6
<1>3. Numbered(table, a) = UNION {{<<l, k>> : k \in lo(l) + 1 .. hi(l)} : l \in L}
  BY DEF Numbered
<1> HIDE DEF hi, lo, rank, L
<1>4. Numbered(table, a) = UNION {{<<l, rank(l)>>} : l \in L}
  BY <1>2, <1>3
<1>5. Numbered(table, a) = {<<l, rank(l)>> : l \in L}
  BY <1>4
<1> QED BY <1>5 DEF rank, L

\* The number a row's lamport is shifted by: the smaller lamports that are missing.
Shift(L, l) == l - Cardinality(Below(L, l))

\* The intervals of a header, by their first and last lamport.
LEMMA Islands ==
  ASSUME NEW table \in SUBSET Row, NoTwice(table), NEW a \in Node,
         NEW L, L = Lamports(table, a)
  PROVE  \A i : i \in GetHeaders(table)[a] <=>
           \E p, q \in L :
             /\ i = [shift |-> Shift(L, p), start |-> p, len |-> q - p + 1]
             /\ Shift(L, q) = Shift(L, p)
             /\ \A x \in L : Shift(L, x) = Shift(L, p) => p <= x /\ x <= q
<1> DEFINE shift(p) == p[1] - p[2]
           numbered == Numbered(table, a)
           pair(l) == <<l, Cardinality(Below(L, l))>>
           IsIsland(p, q) ==
             /\ shift(q) = shift(p)
             /\ \A x \in numbered : shift(x) = shift(p) => p[1] <= x[1] /\ x[1] <= q[1]
           record(p, q) == [shift |-> shift(p), start |-> p[1], len |-> q[1] - p[1] + 1]
<1>1. numbered = {pair(l) : l \in L}
  BY NumberedExact
<1>2. GetHeaders(table)[a] =
        {record(e[1], e[2]) : e \in {x \in numbered \X numbered : IsIsland(x[1], x[2])}}
  BY DEF GetHeaders
<1>3. \A i : i \in GetHeaders(table)[a] <=>
        \E p, q \in numbered : i = record(p, q) /\ IsIsland(p, q)
  <2> HIDE DEF record, IsIsland, numbered
  <2>1. \A i : i \in GetHeaders(table)[a] <=>
          \E e \in numbered \X numbered : IsIsland(e[1], e[2]) /\ i = record(e[1], e[2])
    BY <1>2, Zenon
  <2>2. \A e \in numbered \X numbered : e[1] \in numbered /\ e[2] \in numbered
    OBVIOUS
  <2>3. \A x, y \in numbered :
          <<x, y>> \in numbered \X numbered /\ <<x, y>>[1] = x /\ <<x, y>>[2] = y
    OBVIOUS
  <2>4. ASSUME NEW i
        PROVE  (\E e \in numbered \X numbered : IsIsland(e[1], e[2]) /\ i = record(e[1], e[2]))
                 <=> \E p, q \in numbered : i = record(p, q) /\ IsIsland(p, q)
    <3>1. ASSUME NEW e \in numbered \X numbered, IsIsland(e[1], e[2]), i = record(e[1], e[2])
          PROVE  \E p, q \in numbered : i = record(p, q) /\ IsIsland(p, q)
      BY <3>1, <2>2, Zenon
    <3>2. ASSUME NEW p \in numbered, NEW q \in numbered, i = record(p, q), IsIsland(p, q)
          PROVE  \E e \in numbered \X numbered : IsIsland(e[1], e[2]) /\ i = record(e[1], e[2])
      <4> WITNESS <<p, q>> \in numbered \X numbered
      <4> QED BY <3>2, <2>3
    <3> QED BY <3>1, <3>2, Zenon
  <2> QED BY <2>1, <2>4, Zenon
<1>4. \A l \in L : pair(l)[1] = l /\ shift(pair(l)) = Shift(L, l)
  BY DEF Shift
<1>5. \A p, q \in L :
        record(pair(p), pair(q)) = [shift |-> Shift(L, p), start |-> p, len |-> q - p + 1]
  BY <1>4
<1>6. \A p, q \in L :
        IsIsland(pair(p), pair(q)) <=>
          /\ Shift(L, q) = Shift(L, p)
          /\ \A x \in L : Shift(L, x) = Shift(L, p) => p <= x /\ x <= q
  <2> HIDE DEF shift, pair
  <2> QED BY <1>1, <1>4
<1>7. \A i : (\E p, q \in numbered : i = record(p, q) /\ IsIsland(p, q)) <=>
              \E p, q \in L : i = record(pair(p), pair(q)) /\ IsIsland(pair(p), pair(q))
  <2> HIDE DEF record, IsIsland, pair
  <2> QED BY <1>1
<1> DEFINE island(i, p, q) ==
             /\ i = [shift |-> Shift(L, p), start |-> p, len |-> q - p + 1]
             /\ Shift(L, q) = Shift(L, p)
             /\ \A x \in L : Shift(L, x) = Shift(L, p) => p <= x /\ x <= q
<1>8. \A i : \A p, q \in L :
        i = record(pair(p), pair(q)) /\ IsIsland(pair(p), pair(q)) <=> island(i, p, q)
  <2> HIDE DEF record, IsIsland, pair
  <2> QED BY <1>5, <1>6
<1>9. \A i : i \in GetHeaders(table)[a] <=> \E p, q \in L : island(i, p, q)
  <2> HIDE DEF record, IsIsland, pair, numbered, island
  <2> SUFFICES ASSUME NEW i
               PROVE  i \in GetHeaders(table)[a] <=> \E p, q \in L : island(i, p, q)
    OBVIOUS
  <2>1. i \in GetHeaders(table)[a] <=>
          \E p, q \in L : i = record(pair(p), pair(q)) /\ IsIsland(pair(p), pair(q))
    BY <1>3, <1>7, Zenon
  <2> QED BY <2>1, <1>8, Zenon
<1> QED BY <1>9

\* A shift never falls from one lamport to the next, and rows of one island have
\* no gap between them.
LEMMA ShiftsRise ==
  ASSUME NEW table \in SUBSET Row, NEW a \in Node, NEW L, L = Lamports(table, a),
         NEW p \in L, NEW q \in L, p <= q
  PROVE  /\ Shift(L, p) <= Shift(L, q)
         /\ Shift(L, p) = Shift(L, q) => p..q \subseteq L
<1>1. L \in SUBSET (1..MaxLamport)
  BY LamportsType
<1>2. p \in Nat /\ q \in Nat
  BY <1>1
<1>3. /\ Cardinality(Below(L, q)) - Cardinality(Below(L, p)) <= q - p
      /\ Cardinality(Below(L, q)) - Cardinality(Below(L, p)) = q - p => p..q \subseteq L
      /\ Cardinality(Below(L, p)) \in Nat /\ Cardinality(Below(L, q)) \in Nat
  BY <1>1, BoundAssumption, RankGap
<1> QED BY <1>2, <1>3 DEF Shift

\* The header holds the stored lamports and no other.
LEMMA HeaderExact ==
  ASSUME NEW table \in SUBSET Row, NoTwice(table), NEW a \in Node
  PROVE  Covered(GetHeaders(table)[a]) = Lamports(table, a)
<1> DEFINE L == Lamports(table, a)
<1>1. L \in SUBSET (1..MaxLamport)
  BY LamportsType
<1> HIDE DEF L
<1>2. ASSUME NEW l \in Covered(GetHeaders(table)[a]) PROVE l \in L
  <2>1. PICK i \in GetHeaders(table)[a] : i.start <= l /\ l < i.start + i.len
    BY DEF Covered
  <2>2. PICK p \in L, q \in L :
          /\ i = [shift |-> Shift(L, p), start |-> p, len |-> q - p + 1]
          /\ Shift(L, q) = Shift(L, p)
          /\ \A x \in L : Shift(L, x) = Shift(L, p) => p <= x /\ x <= q
    BY <2>1, Islands DEF L
  <2>3. p <= q
    BY <2>2
  <2>4. p..q \subseteq L
    BY <2>2, <2>3, ShiftsRise DEF L
  <2>5. l \in p..q
    <3>1. l \in Nat /\ p \in Nat /\ q \in Nat
      BY <1>1, BoundAssumption DEF Covered, Lamport
    <3>2. p <= l /\ l < p + (q - p + 1)
      BY <2>1, <2>2
    <3> QED BY <3>1, <3>2
  <2> QED BY <2>4, <2>5
<1>3. ASSUME NEW l \in L PROVE l \in Covered(GetHeaders(table)[a])
  <2> DEFINE I == {x \in L : Shift(L, x) = Shift(L, l)}
  <2>1. I \in SUBSET (1..MaxLamport) /\ l \in I
    BY <1>1
  <2>2. PICK p \in I : \A x \in I : p <= x
    <3> HIDE DEF I
    <3> QED BY <2>1, HasLeast, BoundAssumption
  <2>3. PICK q \in I : \A x \in I : x <= q
    <3> HIDE DEF I
    <3> QED BY <2>1, HasGreatest, BoundAssumption
  <2> DEFINE i == [shift |-> Shift(L, p), start |-> p, len |-> q - p + 1]
  <2>4. i \in GetHeaders(table)[a]
    <3>1. /\ p \in L /\ q \in L
          /\ Shift(L, q) = Shift(L, p)
          /\ \A x \in L : Shift(L, x) = Shift(L, p) => p <= x /\ x <= q
      BY <2>2, <2>3
    <3> QED BY <3>1, Islands DEF L
  <2>5. p <= l /\ l < p + (q - p + 1)
    <3>1. p <= l /\ l <= q
      BY <2>1, <2>2, <2>3
    <3>2. p \in Nat /\ q \in Nat /\ l \in Nat
      BY <2>1
    <3> QED BY <3>1, <3>2
  <2>6. l \in Lamport
    BY <1>1 DEF Lamport
  <2>7. i.start = p /\ i.len = q - p + 1
    OBVIOUS
  <2> HIDE DEF i
  <2> QED BY <2>4, <2>5, <2>6, <2>7 DEF Covered
<1> QED BY <1>2, <1>3 DEF L

\* Any two islands of a header are apart, in the order of their shifts.
LEMMA IslandsApart ==
  ASSUME NEW table \in SUBSET Row, NoTwice(table), NEW a \in Node
  PROVE  \A i, j \in GetHeaders(table)[a] : i.shift < j.shift => i.start + i.len - 1 < j.start
<1> DEFINE L == Lamports(table, a)
<1>1. L \in SUBSET (1..MaxLamport)
  BY LamportsType
<1> HIDE DEF L
<1> SUFFICES ASSUME NEW i \in GetHeaders(table)[a], NEW j \in GetHeaders(table)[a],
                    i.shift < j.shift
             PROVE  i.start + i.len - 1 < j.start
  OBVIOUS
<1>2. PICK p \in L, q \in L :
        /\ i = [shift |-> Shift(L, p), start |-> p, len |-> q - p + 1]
        /\ Shift(L, q) = Shift(L, p)
  BY Islands DEF L
<1>3. PICK s \in L, t \in L : j = [shift |-> Shift(L, s), start |-> s, len |-> t - s + 1]
  BY Islands DEF L
<1>4. p \in Nat /\ q \in Nat /\ s \in Nat
  BY <1>1
<1>5. ~ (s <= q)
  <2> SUFFICES ASSUME s <= q PROVE FALSE
    OBVIOUS
  <2>1. Shift(L, s) <= Shift(L, q)
    BY ShiftsRise DEF L
  <2>2. Shift(L, q) < Shift(L, s)
    BY <1>2, <1>3
  <2>3. Shift(L, q) \in Int /\ Shift(L, s) \in Int
    <3>1. ASSUME NEW l \in L PROVE Cardinality(Below(L, l)) \in Nat
      <4>1. l <= l
        BY <1>1
      <4> QED BY <1>1, <4>1, LamportsFinite, RankGap
    <3> QED BY <3>1, <1>4 DEF Shift
  <2> QED BY <2>1, <2>2, <2>3
<1> QED BY <1>2, <1>3, <1>4, <1>5

\* So a header passes the assertions of intervalsDifference, and so does what is
\* read of it before a step fails.
LEMMA HeaderMonotonic ==
  ASSUME NEW table \in SUBSET Row, NoTwice(table), NEW a \in Node
  PROVE  IsMonotonicNonColliding(GetHeaders(table)[a])
BY IslandsApart DEF IsMonotonicNonColliding

LEMMA ReadMonotonic ==
  ASSUME NEW table \in SUBSET Row, NoTwice(table), NEW header \in HeadersRead(table),
         NEW a \in Node
  PROVE  IsMonotonicNonColliding(header[a])
<1>1. header = GetHeaders(table) \/ \E s, A : header = Before(GetHeaders(table), s, A)
  BY DEF HeadersRead
<1>2. header[a] \subseteq GetHeaders(table)[a]
  BY <1>1 DEF Before
<1> QED BY <1>2, IslandsApart DEF IsMonotonicNonColliding

----------------------------------------------------------------------------
(* The invariant. *)

SerialRegime == Serial /\ Redeliver = {} /\ ~ Faults

\* What is in flight in a pull p fits the tables at its two ends.
Sound(p, own, peer) ==
  /\ p.phase = "idle" => p = Idle
  /\ NoTwice(Carried(p.update))
  /\ \A a \in Node :
       /\ \A r \in p.update[a] : r.msg.author = a
       /\ Covered(p.header[a]) \subseteq Lamports(peer, a)
       /\ IsMonotonicNonColliding(p.header[a])
       /\ p.request[a] \cup Lamports(p.update[a], a) \subseteq Lamports(peer, a)
       /\ (p.request[a] \cup Lamports(p.update[a], a)) \cap Lamports(own, a) = {}

NoneTwice == \A n \in Node : NoTwice(messages[n])
PullsSound == \A l \in Link : Sound(pull[l], messages[l[1]], messages[l[2]])
OnePull ==
  \A k, l \in Link :
    k[1] = l[1] /\ k # l => pull[k].phase = "idle" \/ pull[l].phase = "idle"

SerialInv == IInv /\ NoneTwice /\ PullsSound /\ OnePull

LEMMA SoundIdle ==
  ASSUME NEW own, NEW peer
  PROVE  Sound(Idle, own, peer)
<1>1. \A a \in Node : Idle.header[a] = {} /\ Idle.request[a] = {}
  BY DEF Idle, NoHeader, NoRequest
<1>2. Carried(Idle.update) = {} /\ \A a \in Node : Idle.update[a] = {}
  BY NothingCarried DEF Idle, NoUpdate
<1>3. \A a \in Node : Covered(Idle.header[a]) = {} /\ Lamports(Idle.update[a], a) = {}
  BY <1>1, <1>2 DEF Covered, Lamports, RowsOf
<1>4. \A a \in Node : IsMonotonicNonColliding(Idle.header[a])
  BY <1>1 DEF IsMonotonicNonColliding
<1> QED BY <1>1, <1>2, <1>3, <1>4 DEF Sound, NoTwice

LEMMA LamportsGrow ==
  ASSUME NEW table, NEW more, table \subseteq more
  PROVE  \A a \in Node : Lamports(table, a) \subseteq Lamports(more, a)
BY DEF Lamports, RowsOf

\* A pull stays sound when its peer learns and its own table gets nothing asked.
LEMMA SoundGrows ==
  ASSUME NEW p, NEW own, NEW peer, NEW own2, NEW peer2,
         Sound(p, own, peer), peer \subseteq peer2,
         \A a \in Node :
           (p.request[a] \cup Lamports(p.update[a], a)) \cap Lamports(own2, a) = {}
  PROVE  Sound(p, own2, peer2)
<1>1. \A a \in Node : Lamports(peer, a) \subseteq Lamports(peer2, a)
  BY LamportsGrow
<1> QED BY <1>1 DEF Sound

LEMMA SerialInit == Init => SerialInv
<1> SUFFICES ASSUME Init PROVE SerialInv
  OBVIOUS
<1>1. IInv
  BY InvInit
<1>2. NoneTwice
  BY DEF Init, NoneTwice, NoTwice
<1>3. PullsSound
  BY SoundIdle DEF Init, PullsSound
<1>4. OnePull
  BY DEF Init, OnePull, Idle
<1> QED BY <1>1, <1>2, <1>3, <1>4 DEF SerialInv

\* Steps that leave the tables alone and end pulls or leave them alone.
LEMMA SerialQuiet ==
  ASSUME SerialInv, IInv', messages' = messages,
         \A l \in Link : pull'[l] \in {pull[l], Idle}
  PROVE  SerialInv'
<1>1. NoneTwice'
  BY DEF SerialInv, NoneTwice
<1>2. PullsSound'
  BY SoundIdle DEF SerialInv, PullsSound
<1>3. OnePull'
  <2>1. Idle.phase = "idle"
    BY DEF Idle
  <2> QED BY <2>1 DEF SerialInv, OnePull
<1> QED BY <1>1, <1>2, <1>3 DEF SerialInv

\* Steps that leave the tables alone and take one pull further: the replica has
\* no other.
LEMMA SerialAdvance ==
  ASSUME SerialInv, IInv', messages' = messages, NEW l \in Link, NEW p,
         pull' = [pull EXCEPT ![l] = p], Sound(p, messages[l[1]], messages[l[2]]),
         \A k \in Link \ {l} : k[1] = l[1] => pull[k].phase = "idle"
  PROVE  SerialInv'
<1>0. pull'[l] = p /\ \A k \in Link \ {l} : pull'[k] = pull[k]
  BY DEF SerialInv, IInv, TypeOK
<1>1. NoneTwice'
  BY DEF SerialInv, NoneTwice
<1>2. PullsSound'
  BY <1>0 DEF SerialInv, PullsSound
<1>3. OnePull'
  BY <1>0 DEF SerialInv, OnePull
<1> QED BY <1>1, <1>2, <1>3 DEF SerialInv

\* Where one pull of a replica is not idle, the others are.
LEMMA OthersIdle ==
  ASSUME SerialInv, NEW l \in Link, pull[l].phase # "idle"
  PROVE  \A k \in Link \ {l} : k[1] = l[1] => pull[k].phase = "idle" /\ pull[k] = Idle
BY DEF SerialInv, OnePull, PullsSound, Sound

\* A new message has a number of its own, and nobody asks its author for more.
LEMMA SerialWrite ==
  ASSUME SerialInv, IInv', NEW n \in Node, NEW b \in Body, AddNewMessage(n, b)
  PROVE  SerialInv'
<1> USE DEF SerialInv
<1>1. PICK m \in Message :
        /\ m.author = n
        /\ IsNextLamport(messages[n], n, m.lamport)
        /\ messages' = [messages EXCEPT ![n] = @ \cup {[msg |-> m, copy |-> 1]}]
        /\ pull' = pull
  BY WriteEffects DEF IInv
<1> DEFINE row == [msg |-> m, copy |-> 1]
<1>2. /\ messages'[n] = messages[n] \cup {row}
      /\ \A o \in Node \ {n} : messages'[o] = messages[o]
      /\ row.msg = m
  BY <1>1 DEF IInv, TypeOK
<1> HIDE DEF row
<1>3. \A r \in messages[n] : r.msg.author = n => r.msg.lamport # m.lamport
  <2> SUFFICES ASSUME NEW r \in messages[n], r.msg.author = n, r.msg.lamport = m.lamport
               PROVE  FALSE
    OBVIOUS
  <2>1. m.lamport \in Lamports(messages[n], n)
    BY DEF Lamports, RowsOf
  <2>2. m.lamport < m.lamport
    BY <2>1, <1>1 DEF IsNextLamport
  <2>3. m.lamport \in 1..MaxLamport
    BY DEF Message, Lamport
  <2> QED BY <2>2, <2>3, BoundAssumption
<1>4. NoneTwice'
  <2>1. NoTwice(messages'[n])
    BY <1>1, <1>2, <1>3 DEF NoneTwice, NoTwice
  <2> QED BY <1>2, <2>1 DEF NoneTwice
<1>5. PullsSound'
  <2> SUFFICES ASSUME NEW l \in Link
               PROVE  Sound(pull[l], messages'[l[1]], messages'[l[2]])
    BY <1>1 DEF PullsSound
  <2> DEFINE asked(a) == pull[l].request[a] \cup Lamports(pull[l].update[a], a)
  <2>1. Sound(pull[l], messages[l[1]], messages[l[2]])
    BY DEF PullsSound
  <2>2. messages[l[2]] \subseteq messages'[l[2]]
    BY <1>2, LinkType
  <2>3. ASSUME NEW a \in Node PROVE asked(a) \cap Lamports(messages'[l[1]], a) = {}
    <3>1. asked(a) \cap Lamports(messages[l[1]], a) = {}
      BY <2>1 DEF Sound
    <3>2. CASE l[1] # n
      BY <3>1, <3>2, <1>2, LinkType
    <3>3. CASE l[1] = n /\ a # n
      <4>1. Lamports(messages'[n], a) = Lamports(messages[n], a)
        BY <1>1, <1>2, <3>3 DEF Lamports, RowsOf
      <4> QED BY <4>1, <3>1, <3>3
    <3>4. CASE l[1] = n /\ a = n
      <4>1. asked(n) \subseteq Lamports(messages[l[2]], n)
        BY <2>1 DEF Sound
      <4>2. Lamports(messages[l[2]], n) \subseteq Lamports(messages[n], n)
        BY LinkType DEF IInv, StoredPublished, Published, Lamports, RowsOf
      <4>3. asked(n) = {}
        BY <4>1, <4>2, <3>1, <3>4
      <4> QED BY <4>3, <3>4
    <3> QED BY <3>2, <3>3, <3>4
  <2> QED BY <2>1, <2>2, <2>3, SoundGrows
<1>6. OnePull'
  BY <1>1 DEF OnePull
<1> QED BY <1>4, <1>5, <1>6

\* Rows whose messages a table does not hold are stored once each.
LEMMA InsertDisjoint ==
  ASSUME NEW table \in SUBSET Row, NEW batch \in SUBSET Row,
         NoTwice(table), NoTwice(batch),
         \A a \in Node : Lamports(batch, a) \cap Lamports(table, a) = {}
  PROVE  /\ NoTwice(Insert(table, batch))
         /\ \A a \in Node :
              Lamports(Insert(table, batch), a) = Lamports(table, a) \cup Lamports(batch, a)
<1> DEFINE new == {[msg |-> r.msg, copy |-> 1] : r \in batch}
<1>1. ASSUME NEW r \in batch
      PROVE  Copies(table, r.msg) = 0 /\ Copies(batch, r.msg) = 1
  <2>0. r.msg.author \in Node
    BY DEF Row, Message
  <2>1. {q \in table : q.msg = r.msg} = {}
    <3> SUFFICES ASSUME NEW q \in table, q.msg = r.msg PROVE FALSE
      OBVIOUS
    <3>1. r.msg.lamport \in Lamports(table, r.msg.author)
      BY DEF Lamports, RowsOf
    <3>2. r.msg.lamport \in Lamports(batch, r.msg.author)
      BY DEF Lamports, RowsOf
    <3> QED BY <2>0, <3>1, <3>2
  <2>2. {q \in batch : q.msg = r.msg} = {r}
    BY DEF NoTwice
  <2> QED BY <2>1, <2>2, FS_EmptySet, FS_Singleton DEF Copies
<1>2. Insert(table, batch) = table \cup new
  <2> DEFINE stored(m) == {[msg |-> m, copy |-> c] :
                 c \in Copies(table, m) + 1 .. Copies(table, m) + Copies(batch, m)}
  <2>1. ASSUME NEW r \in batch PROVE stored(r.msg) = {[msg |-> r.msg, copy |-> 1]}
    <3>1. 0 + 1 .. 0 + 1 = {1}
      OBVIOUS
    <3> QED BY <1>1, <3>1
  <2>2. Insert(table, batch) = table \cup UNION {stored(m) : m \in {r.msg : r \in batch}}
    BY DEF Insert
  <2> HIDE DEF stored
  <2>3. UNION {stored(m) : m \in {r.msg : r \in batch}} = new
    BY <2>1
  <2> QED BY <2>2, <2>3
<1>3. \A x \in new : \E r \in batch : x = [msg |-> r.msg, copy |-> 1] /\ x.msg = r.msg
  OBVIOUS
<1>4. \A r \in batch : \E x \in new : x.msg = r.msg
  <2> SUFFICES ASSUME NEW r \in batch PROVE \E x \in new : x.msg = r.msg
    OBVIOUS
  <2>1. [msg |-> r.msg, copy |-> 1] \in new
    OBVIOUS
  <2>2. [msg |-> r.msg, copy |-> 1].msg = r.msg
    OBVIOUS
  <2> QED BY <2>1, <2>2, Zenon
<1> HIDE DEF new
<1>5. NoTwice(table \cup new)
  <2> SUFFICES ASSUME NEW x \in table \cup new, NEW y \in table \cup new,
                      x.msg.author = y.msg.author, x.msg.lamport = y.msg.lamport
               PROVE  x = y
    BY DEF NoTwice
  <2>1. CASE x \in table /\ y \in table
    BY <2>1 DEF NoTwice
  <2>2. CASE x \in new /\ y \in new
    BY <2>2, <1>3 DEF NoTwice
  <2>3. ASSUME NEW u \in table, NEW v \in new,
               u.msg.author = v.msg.author, u.msg.lamport = v.msg.lamport
        PROVE  FALSE
    <3>1. PICK r \in batch : v.msg = r.msg
      BY <1>3
    <3>2. u.msg.author \in Node
      BY DEF Row, Message
    <3>3. u.msg.lamport \in Lamports(table, u.msg.author)
      BY DEF Lamports, RowsOf
    <3>4. r.msg.author = u.msg.author /\ r.msg.lamport = u.msg.lamport
      BY <2>3, <3>1
    <3>5. u.msg.lamport \in Lamports(batch, u.msg.author)
      BY <3>4 DEF Lamports, RowsOf
    <3> QED BY <3>2, <3>3, <3>5
  <2> QED BY <2>1, <2>2, <2>3
<1>6. \A a \in Node : Lamports(table \cup new, a) = Lamports(table, a) \cup Lamports(batch, a)
  BY <1>3, <1>4 DEF Lamports, RowsOf
<1> QED BY <1>2, <1>5, <1>6

\* Steps that store rows of an update and end the pull: what they store was
\* missing, and the replica has no other pull.
LEMMA SerialStore ==
  ASSUME SerialInv, IInv', NEW l \in Link, pull[l].phase = "update",
         NEW S \in SUBSET Carried(pull[l].update),
         messages' = [messages EXCEPT ![l[1]] = Insert(messages[l[1]], S)],
         pull'[l] = Idle, \A k \in Link : pull'[k] \in {pull[k], Idle}
  PROVE  SerialInv'
<1> USE DEF SerialInv
<1> DEFINE n == l[1]
           own == messages[n]
<1>0. n \in Node /\ own \in SUBSET Row /\ S \in SUBSET Row
  BY LinkType, CarriedRows DEF IInv, TypeOK, Session
<1>1. messages'[n] = Insert(own, S) /\ \A o \in Node \ {n} : messages'[o] = messages[o]
  BY <1>0 DEF IInv, TypeOK
<1>2. Sound(pull[l], own, messages[l[2]])
  BY DEF PullsSound
<1>3. NoTwice(S) /\ \A a \in Node : Lamports(S, a) \cap Lamports(own, a) = {}
  <2>1. NoTwice(S)
    BY <1>2 DEF Sound, NoTwice
  <2>2. \A a \in Node : Lamports(S, a) \subseteq Lamports(pull[l].update[a], a)
    BY <1>2 DEF Sound, Carried, Lamports, RowsOf
  <2> QED BY <1>2, <2>1, <2>2 DEF Sound
<1>4. NoTwice(messages'[n])
  BY <1>0, <1>1, <1>3, InsertDisjoint DEF NoneTwice
<1>5. NoneTwice'
  BY <1>1, <1>4 DEF NoneTwice
<1>6. PullsSound'
  <2> SUFFICES ASSUME NEW k \in Link
               PROVE  Sound(pull'[k], messages'[k[1]], messages'[k[2]])
    BY DEF PullsSound
  <2>1. CASE pull'[k] = Idle
    BY <2>1, SoundIdle
  <2>2. CASE pull'[k] # Idle
    <3>1. pull'[k] = pull[k] /\ k # l
      BY <2>2
    <3>2. Sound(pull[k], messages[k[1]], messages[k[2]])
      BY DEF PullsSound
    <3>3. k[1] # n
      <4>1. pull[k] = Idle \/ k[1] # n
        BY <3>1, OthersIdle
      <4> QED BY <4>1, <3>1, <2>2
    <3>4. messages'[k[1]] = messages[k[1]]
      BY <1>1, <3>3, LinkType
    <3>5. messages[k[2]] \subseteq messages'[k[2]]
      BY <1>1, LinkType, InsertKeeps
    <3>6. Sound(pull[k], messages[k[1]], messages'[k[2]])
      <4>1. \A a \in Node :
              (pull[k].request[a] \cup Lamports(pull[k].update[a], a))
                 \cap Lamports(messages[k[1]], a) = {}
        BY <3>2 DEF Sound
      <4> QED BY <3>2, <3>5, <4>1, SoundGrows
    <3> QED BY <3>1, <3>4, <3>6
  <2> QED BY <2>1, <2>2
<1>7. OnePull'
  <2>1. Idle.phase = "idle"
    BY DEF Idle
  <2> QED BY <2>1 DEF OnePull
<1> QED BY <1>5, <1>6, <1>7

LEMMA RebootEnds ==
  ASSUME SerialInv, NEW n \in Node, Reboot(n)
  PROVE  \A l \in Link : pull'[l] \in {pull[l], Idle} /\ (l[1] = n => pull'[l] = Idle)
BY DEF Reboot

LEMMA SerialStep ==
  ASSUME SerialRegime, SerialInv, [Next]_vars
  PROVE  SerialInv'
<1> USE DEF SerialInv
<1>0. IInv' /\ IInv /\ TypeOK
  BY InvStep DEF IInv
<1>1. ASSUME NEW n \in Node, NEW b \in Body, AddNewMessage(n, b) PROVE SerialInv'
  BY <1>0, <1>1, SerialWrite
<1>2. ASSUME NEW n \in Node, InstallKeys(n) PROVE SerialInv'
  <2>1. messages' = messages /\ \A l \in Link : pull'[l] \in {pull[l], Idle}
    BY <1>2, RebootEnds DEF InstallKeys
  <2> QED BY <1>0, <2>1, SerialQuiet
<1>3. ASSUME NEW l \in Link, GetHeader(l) PROVE SerialInv'
  <2> DEFINE header == GetHeaders(messages[l[2]])
             p == [Idle EXCEPT !.phase = "header", !.header = header]
  <2>1. HeadersRead(messages[l[2]]) = {header}
    BY DEF HeadersRead, SerialRegime
  <2>2. pull' = [pull EXCEPT ![l] = p] /\ messages' = messages
    BY <1>3, <2>1 DEF GetHeader
  <2>3. \A a \in Node : /\ Covered(header[a]) = Lamports(messages[l[2]], a)
                        /\ IsMonotonicNonColliding(header[a])
    BY <1>0, HeaderExact, HeaderMonotonic, LinkType DEF NoneTwice, TypeOK
  <2>4. /\ p.phase = "header" /\ p.header = header
        /\ p.request = Idle.request /\ p.update = Idle.update
    BY DEF Idle
  <2>5. Sound(p, messages[l[1]], messages[l[2]])
    <3> HIDE DEF p, header
    <3> QED BY <2>3, <2>4, SoundIdle DEF Sound
  <2>6. \A k \in Link : k[1] = l[1] => pull[k].phase = "idle"
    BY <1>3 DEF GetHeader, SerialRegime
  <2> HIDE DEF p
  <2> QED BY <1>0, <2>2, <2>5, <2>6, SerialAdvance
<1>4. ASSUME NEW l \in Link, GetRequest(l) PROVE SerialInv'
  <2> DEFINE local == GetHeaders(messages[l[1]])
             request == [a \in Node |-> Difference(pull[l].header[a], local[a])]
             p == [Idle EXCEPT !.phase = "request", !.request = request]
  <2>1. HeadersRead(messages[l[1]]) = {local}
    BY DEF HeadersRead, SerialRegime
  <2>2. pull' = [pull EXCEPT ![l] = p] /\ messages' = messages
    BY <1>4, <2>1 DEF GetRequest
  <2>3. \A a \in Node : Covered(local[a]) = Lamports(messages[l[1]], a)
    BY <1>0, HeaderExact, LinkType DEF NoneTwice, TypeOK
  <2>4. /\ p.phase = "request" /\ p.request = request
        /\ p.header = Idle.header /\ p.update = Idle.update
    BY DEF Idle
  <2>5. \A a \in Node : request[a] = Covered(pull[l].header[a]) \ Covered(local[a])
    BY DEF Difference
  <2>6. Sound(pull[l], messages[l[1]], messages[l[2]])
    BY DEF PullsSound
  <2>7. Sound(p, messages[l[1]], messages[l[2]])
    <3>1. \A a \in Node : p.update[a] = {}
      BY <2>4 DEF Idle, NoUpdate
    <3>2. \A a \in Node : Lamports(p.update[a], a) = {}
      BY <3>1 DEF Lamports, RowsOf
    <3> HIDE DEF p, request, local
    <3> QED BY <2>3, <2>4, <2>5, <2>6, <3>2, SoundIdle DEF Sound
  <2>8. \A k \in Link \ {l} : k[1] = l[1] => pull[k].phase = "idle"
    BY <1>4, OthersIdle DEF GetRequest
  <2> HIDE DEF p
  <2> QED BY <1>0, <2>2, <2>7, <2>8, SerialAdvance
<1>5. ASSUME NEW l \in Link, GetRequestAborts(l) PROVE SerialInv'
  <2>1. messages' = messages /\ \A k \in Link : pull'[k] \in {pull[k], Idle}
    BY <1>5, RebootEnds, LinkType DEF GetRequestAborts
  <2> QED BY <1>0, <2>1, SerialQuiet
<1>6. ASSUME NEW l \in Link, GetUpdate(l) PROVE SerialInv'
  <2> DEFINE peer == messages[l[2]]
             made(update) == [Idle EXCEPT !.phase = "update", !.update = update]
  <2>1. PICK update \in [Node -> SUBSET Row] :
          /\ pull' = [pull EXCEPT ![l] = made(update)]
          /\ \A a \in Node : \A r \in update[a] :
               r \in RowsOf(peer, a) /\ r.msg.lamport \in pull[l].request[a]
          /\ Carried(update) \subseteq peer
    BY <1>0, <1>6, UpdateMade
  <2> DEFINE p == made(update)
  <2>2. pull' = [pull EXCEPT ![l] = p] /\ messages' = messages
    BY <1>6, <2>1 DEF GetUpdate
  <2>3. /\ p.phase = "update" /\ p.update = update
        /\ p.header = Idle.header /\ p.request = Idle.request
    BY DEF Idle
  <2>4. Sound(pull[l], messages[l[1]], peer)
    BY DEF PullsSound
  <2>5. \A a \in Node : /\ Lamports(update[a], a) \subseteq pull[l].request[a]
                        /\ \A r \in update[a] : r.msg.author = a
    BY <2>1 DEF Lamports, RowsOf
  <2>6. NoTwice(Carried(update))
    BY <2>1, LinkType DEF NoneTwice, NoTwice
  <2>7. Sound(p, messages[l[1]], peer)
    <3>1. \A a \in Node : Idle.request[a] = {}
      BY DEF Idle, NoRequest
    <3> HIDE DEF p
    <3> QED BY <2>3, <2>4, <2>5, <2>6, <3>1, SoundIdle DEF Sound
  <2>8. \A k \in Link \ {l} : k[1] = l[1] => pull[k].phase = "idle"
    BY <1>6, OthersIdle DEF GetUpdate
  <2> HIDE DEF p
  <2> QED BY <1>0, <2>2, <2>7, <2>8, SerialAdvance
<1>7. ASSUME NEW l \in Link, Merge(l) PROVE SerialInv'
  <2>1. PICK S \in SUBSET Carried(pull[l].update) :
          messages' = [messages EXCEPT ![l[1]] = Insert(messages[l[1]], S)]
    BY <1>7, LinkType, AcceptedCarried DEF Merge, Part
  <2>2. pull' = [pull EXCEPT ![l] = Idle] /\ pull[l].phase = "update"
    BY <1>7 DEF Merge, SerialRegime
  <2>3. pull'[l] = Idle /\ \A k \in Link : pull'[k] \in {pull[k], Idle}
    BY <1>0, <2>2 DEF TypeOK
  <2> QED BY <1>0, <2>1, <2>2, <2>3, SerialStore
<1>8. ASSUME NEW l \in Link, CrashInMerge(l) PROVE SerialInv'
  <2>1. PICK S \in SUBSET Carried(pull[l].update) :
          messages' = [messages EXCEPT ![l[1]] = Insert(messages[l[1]], S)]
    BY <1>8, LinkType, AcceptedCarried DEF CrashInMerge
  <2>2. pull[l].phase = "update" /\ Reboot(l[1])
    BY <1>8 DEF CrashInMerge
  <2>3. pull'[l] = Idle /\ \A k \in Link : pull'[k] \in {pull[k], Idle}
    BY <2>2, RebootEnds, LinkType
  <2> QED BY <1>0, <2>1, <2>2, <2>3, SerialStore
<1>9. ASSUME NEW l \in Link, Drop(l) PROVE SerialInv'
  <2>1. messages' = messages /\ \A k \in Link : pull'[k] \in {pull[k], Idle}
    BY <1>9, <1>0 DEF Drop, TypeOK
  <2> QED BY <1>0, <2>1, SerialQuiet
<1>10. ASSUME NEW n \in Node, Restart(n) PROVE SerialInv'
  <2>1. messages' = messages /\ \A k \in Link : pull'[k] \in {pull[k], Idle}
    BY <1>10, RebootEnds DEF Restart
  <2> QED BY <1>0, <2>1, SerialQuiet
<1>11. CASE UNCHANGED vars
  <2>1. messages' = messages /\ \A k \in Link : pull'[k] \in {pull[k], Idle}
    BY <1>11 DEF vars
  <2> QED BY <1>0, <2>1, SerialQuiet
<1> QED
  BY <1>1, <1>2, <1>3, <1>4, <1>5, <1>6, <1>7, <1>8, <1>9, <1>10, <1>11 DEF Next

LEMMA SerialInvariance ==
  ASSUME SerialRegime
  PROVE  Spec => []SerialInv
<1>1. SerialInv /\ [Next]_vars => SerialInv'
  BY SerialStep
<1> QED BY SerialInit, <1>1, PTL DEF Spec

----------------------------------------------------------------------------
(* What follows from it. *)

\* No table ever has a message in two rows, an author's own or another's.
THEOREM RowsStayOnce ==
  ASSUME SerialRegime
  PROVE  Spec => []RowsOnce
<1>1. SerialInv => RowsOnce
  BY DEF SerialInv, NoneTwice, NoTwice, RowsOnce, Doubled
<1> QED BY <1>1, SerialInvariance, PTL

\* What a request asks for is still missing when its rows are merged, whatever
\* the replica wrote since, and the peer has it.
THEOREM RequestsStayFresh ==
  ASSUME SerialRegime
  PROVE  Spec => []InFlightStillMissing
<1>1. SerialInv => InFlightStillMissing
  BY DEF SerialInv, PullsSound, Sound, InFlightStillMissing
<1> QED BY <1>1, SerialInvariance, PTL

\* The query of the headers reports the stored lamports and no other, on every
\* table pulls can leave behind.
THEOREM HeadersStayExact ==
  ASSUME SerialRegime
  PROVE  Spec => []HeaderIsExact
<1>1. SerialInv => HeaderIsExact
  BY HeaderExact DEF SerialInv, NoneTwice, IInv, TypeOK, HeaderIsExact
<1> QED BY <1>1, SerialInvariance, PTL

\* The assertions of intervalsDifference would pass on every header a replica
\* would report at any time.
THEOREM HeadersStayMonotonic ==
  ASSUME SerialRegime
  PROVE  Spec => []HeadersMonotonic
<1>1. SerialInv => HeadersMonotonic
  BY HeaderMonotonic DEF SerialInv, NoneTwice, IInv, TypeOK, HeadersMonotonic
<1> QED BY <1>1, SerialInvariance, PTL

\* So no getRequest ever aborts its process: a header arrives as the peer made it,
\* and what the puller stored since keeps its own header in order.
THEOREM NoGetRequestAborts ==
  ASSUME SerialRegime
  PROVE  Spec => []RequestsAnswerable
<1>1. SerialInv => RequestsAnswerable
  <2> SUFFICES ASSUME SerialInv, NEW l \in Link, NEW local \in HeadersRead(messages[l[1]])
               PROVE  Comparable(pull[l].header, local)
    BY DEF RequestsAnswerable
  <2>1. local = GetHeaders(messages[l[1]])
    BY DEF HeadersRead, SerialRegime
  <2>2. \A a \in Node : IsMonotonicNonColliding(local[a])
    BY <2>1, HeaderMonotonic, LinkType DEF SerialInv, NoneTwice, IInv, TypeOK
  <2>3. \A a \in Node : IsMonotonicNonColliding(pull[l].header[a])
    BY DEF SerialInv, PullsSound, Sound
  <2> QED BY <2>2, <2>3 DEF Comparable
<1> QED BY <1>1, SerialInvariance, PTL

\* Equal headers mean equal logs: the header tells all a request has to know.
THEOREM HeadersTellLogs ==
  ASSUME SerialRegime
  PROVE  Spec => []SameHeaderSameLog
<1>1. ASSUME SerialInv, LamportIdentifiesMessage, NEW n \in Node, NEW o \in Node, NEW a \in Node,
             Covered(GetHeaders(messages[n])[a]) = Covered(GetHeaders(messages[o])[a])
      PROVE  {r.msg : r \in RowsOf(messages[n], a)} \subseteq {r.msg : r \in RowsOf(messages[o], a)}
  <2> SUFFICES ASSUME NEW r \in RowsOf(messages[n], a)
               PROVE  \E q \in RowsOf(messages[o], a) : q.msg = r.msg
    OBVIOUS
  <2>1. Lamports(messages[n], a) = Lamports(messages[o], a)
    BY <1>1, HeaderExact DEF SerialInv, NoneTwice, IInv, TypeOK
  <2>2. PICK q \in RowsOf(messages[o], a) : q.msg.lamport = r.msg.lamport
    BY <2>1 DEF Lamports
  <2>3. r.msg \in Held(n) /\ q.msg \in Held(o)
    BY DEF Held, RowsOf
  <2> QED BY <1>1, <2>2, <2>3 DEF LamportIdentifiesMessage, RowsOf
<1>2. SerialInv /\ LamportIdentifiesMessage => SameHeaderSameLog
  <2> SUFFICES ASSUME SerialInv, LamportIdentifiesMessage,
                      NEW n \in Node, NEW o \in Node, NEW a \in Node,
                      Covered(GetHeaders(messages[n])[a]) = Covered(GetHeaders(messages[o])[a])
               PROVE  {r.msg : r \in RowsOf(messages[n], a)} = {r.msg : r \in RowsOf(messages[o], a)}
    BY DEF SameHeaderSameLog
  <2>1. {r.msg : r \in RowsOf(messages[n], a)} \subseteq {r.msg : r \in RowsOf(messages[o], a)}
    BY <1>1, Zenon
  <2>2. {r.msg : r \in RowsOf(messages[o], a)} \subseteq {r.msg : r \in RowsOf(messages[n], a)}
    BY <1>1, Zenon
  <2> QED BY <2>1, <2>2, Zenon
<1> QED BY <1>2, SerialInvariance, Agreement, PTL

----------------------------------------------------------------------------
(* What holds in every regime: pulls that overlap, updates merged again,       *)
(* statements that fail.                                                       *)

\* A header in flight was in order when it was read, or its peer has a message in
\* two rows by now: nothing ever removes one of them.
InOrder(header) == \A a \in Node : IsMonotonicNonColliding(header[a])

InFlightInOrder ==
  \A l \in Link :
    pull[l].phase = "header" => Doubled(messages[l[2]]) \/ InOrder(pull[l].header)

LEMMA UndoubledIsOnce ==
  ASSUME IInv, NEW n \in Node, ~ Doubled(messages[n])
  PROVE  NoTwice(messages[n])
<1> SUFFICES ASSUME NEW r \in messages[n], NEW q \in messages[n],
                    r.msg.author = q.msg.author, r.msg.lamport = q.msg.lamport
             PROVE  r = q
  BY DEF NoTwice
<1>1. r.msg.author \in Node
  BY DEF IInv, TypeOK, Row, Message
<1>2. PICK s \in messages[r.msg.author], t \in messages[r.msg.author] :
        s.msg = r.msg /\ t.msg = q.msg
  BY DEF IInv, StoredPublished, Published
<1>3. s.msg = t.msg
  BY <1>1, <1>2 DEF IInv, OwnDistinct, RowsOf
<1> QED BY <1>2, <1>3 DEF Doubled

LEMMA TablesGrow ==
  ASSUME TypeOK, [Next]_vars, NEW n \in Node
  PROVE  messages[n] \subseteq messages'[n]
<1>1. ASSUME NEW o \in Node, NEW b \in Body, AddNewMessage(o, b)
      PROVE  messages[n] \subseteq messages'[n]
  BY <1>1, WriteEffects DEF TypeOK
<1> QED BY <1>1, OtherEffects DEF Learning

\* A header in flight was in flight before, or is read now.
LEMMA HeaderComes ==
  ASSUME TypeOK, [Next]_vars, NEW l \in Link, pull'[l].phase = "header"
  PROVE  pull'[l] = pull[l] \/ pull'[l].header \in HeadersRead(messages[l[2]])
<1> USE DEF TypeOK
<1>1. Idle.phase = "idle"
  BY DEF Idle
<1>2. ASSUME NEW k \in Link, GetHeader(k)
      PROVE  pull'[l] = pull[l] \/ pull'[l].header \in HeadersRead(messages[l[2]])
  <2>1. PICK header \in HeadersRead(messages[k[2]]) :
          pull' = [pull EXCEPT ![k] = [Idle EXCEPT !.phase = "header", !.header = header]]
    BY <1>2 DEF GetHeader
  <2>2. k = l => pull'[l].header = header
    BY <2>1 DEF Idle
  <2> QED BY <2>1, <2>2
<1>3. ASSUME NEW k \in Link, GetRequest(k) PROVE pull'[l] = pull[l]
  <2>1. PICK request :
          pull' = [pull EXCEPT ![k] = [Idle EXCEPT !.phase = "request", !.request = request]]
    BY <1>3 DEF GetRequest
  <2> QED BY <2>1 DEF Idle
<1>4. ASSUME NEW k \in Link, GetUpdate(k) PROVE pull'[l] = pull[l]
  <2>1. PICK update :
          pull' = [pull EXCEPT ![k] = [Idle EXCEPT !.phase = "update", !.update = update]]
    BY <1>4 DEF GetUpdate
  <2> QED BY <2>1 DEF Idle
<1>5. ASSUME NEW k \in Link, Merge(k) \/ Drop(k) PROVE pull'[l] = pull[l]
  BY <1>1, <1>5 DEF Merge, Drop
<1>6. ASSUME NEW n \in Node, Reboot(n) PROVE pull'[l] = pull[l]
  BY <1>1, <1>6 DEF Reboot
<1>7. CASE UNCHANGED pull
  BY <1>7
<1> QED
  BY <1>2, <1>3, <1>4, <1>5, <1>6, <1>7, LinkType
     DEF Next, vars, AddNewMessage, InstallKeys, GetRequestAborts, CrashInMerge, Restart

\* Also where pulls overlap, updates are merged again or statements fail, a
\* getRequest aborts only where a message is in two rows, at the puller or at its
\* peer: rows stored twice are all that makes a header fail the assertions.
THEOREM OnlyDoublesAbort == Spec => []AbortsOnlyOnDoubles
<1> DEFINE Inv == IInv /\ InFlightInOrder
<1>1. Init => Inv
  BY InvInit DEF Init, Idle, InFlightInOrder
<1>2. Inv /\ [Next]_vars => Inv'
  <2> SUFFICES ASSUME Inv, [Next]_vars PROVE Inv'
    OBVIOUS
  <2>1. IInv'
    BY InvStep
  <2>2. ASSUME NEW l \in Link, pull'[l].phase = "header", ~ Doubled(messages'[l[2]])
        PROVE  InOrder(pull'[l].header)
    <3>1. ~ Doubled(messages[l[2]])
      BY <2>2, TablesGrow, LinkType DEF IInv, Doubled
    <3>2. CASE pull'[l] = pull[l]
      BY <2>2, <3>1, <3>2 DEF InFlightInOrder
    <3>3. CASE pull'[l].header \in HeadersRead(messages[l[2]])
      <4>1. NoTwice(messages[l[2]]) /\ messages[l[2]] \in SUBSET Row
        BY <3>1, UndoubledIsOnce, LinkType DEF IInv, TypeOK
      <4> QED BY <3>3, <4>1, ReadMonotonic DEF InOrder
    <3> QED BY <2>2, <3>2, <3>3, HeaderComes DEF IInv
  <2>3. InFlightInOrder'
    BY <2>2 DEF InFlightInOrder, Doubled, InOrder
  <2> QED BY <2>1, <2>3
<1>3. Inv => AbortsOnlyOnDoubles
  <2> SUFFICES ASSUME Inv, NEW l \in Link, pull[l].phase = "header",
                      ~ Doubled(messages[l[1]]), ~ Doubled(messages[l[2]]),
                      NEW local \in HeadersRead(messages[l[1]])
               PROVE  Comparable(pull[l].header, local)
    BY DEF AbortsOnlyOnDoubles
  <2>1. NoTwice(messages[l[1]]) /\ messages[l[1]] \in SUBSET Row
    BY UndoubledIsOnce, LinkType DEF IInv, TypeOK
  <2>2. InOrder(local)
    BY <2>1, ReadMonotonic DEF InOrder
  <2> QED BY <2>2 DEF InFlightInOrder, InOrder, Comparable
<1> HIDE DEF Inv
<1> QED BY <1>1, <1>2, <1>3, PTL DEF Spec

----------------------------------------------------------------------------
(* Headers as the loop of intervalsDifference gets them: vectors, in the order *)
(* of the shifts, of intervals without a shift.                                *)

\* The loop of utils.h over lamports; only its operators on vectors are used.
Loop == INSTANCE IntervalsDifference WITH
  MaxPoint <- MaxLamport, MaxIntervals <- MaxLamport,
  header <- <<>>, a_vec <- <<>>, b_vec <- <<>>, a_it <- 1, b_it <- 1, result <- <<>>

\* vec lists the intervals of v by their shifts.
Lists(vec, v) ==
  /\ vec \in Seq(v)
  /\ \A i \in v : \E k \in 1..Len(vec) : vec[k] = i
  /\ \A j, k \in 1..Len(vec) : j < k => vec[j].shift < vec[k].shift

Bare(i) == [start |-> i.start, len |-> i.len]
Vector(vec) == [k \in 1..Len(vec) |-> Bare(vec[k])]

LEMMA IslandType ==
  ASSUME NEW table \in SUBSET Row, NoTwice(table), NEW a \in Node,
         NEW i \in GetHeaders(table)[a]
  PROVE  /\ Bare(i) \in Loop!Interval
         /\ i.shift \in Int /\ i.start \in Nat /\ i.len \in Nat
<1> DEFINE L == Lamports(table, a)
<1>1. L \in SUBSET (1..MaxLamport)
  BY LamportsType
<1> HIDE DEF L
<1>2. PICK p \in L, q \in L :
        /\ i = [shift |-> Shift(L, p), start |-> p, len |-> q - p + 1]
        /\ Shift(L, q) = Shift(L, p)
        /\ \A x \in L : Shift(L, x) = Shift(L, p) => p <= x /\ x <= q
  BY Islands DEF L
<1>3. p \in 1..MaxLamport /\ q \in 1..MaxLamport /\ p <= q
  BY <1>1, <1>2
<1>4. i.start = p /\ i.len = q - p + 1 /\ i.shift = Shift(L, p)
  BY <1>2
<1>5. i.start \in 1..MaxLamport /\ i.len \in 1..MaxLamport /\ i.start + i.len - 1 = q
  BY <1>3, <1>4, BoundAssumption
<1>6. Shift(L, p) \in Int
  <2>1. Cardinality(Below(L, p)) \in Nat
    <3>1. p <= p
      BY <1>3
    <3> QED BY <1>1, <3>1, LamportsFinite, RankGap
  <2> QED BY <2>1, <1>3 DEF Shift
<1>7. Bare(i) \in Loop!Interval
  BY <1>3, <1>5 DEF Bare, Loop!Interval, Loop!Point
<1> QED BY <1>4, <1>5, <1>6, <1>7, BoundAssumption

\* Every header a replica reports is a vector the loop is correct for: proper
\* intervals, in order, that hold the lamports of the author's rows.  With Correct
\* of IntervalsDifferenceProofs, what the loop makes of the header in flight and
\* of the puller's own is their Difference.
THEOREM HeadersFitLoop ==
  ASSUME NEW table \in SUBSET Row, NoTwice(table), NEW a \in Node,
         NEW vec, Lists(vec, GetHeaders(table)[a])
  PROVE  /\ Vector(vec) \in Seq(Loop!Interval)
         /\ Loop!IsMonotonicNonColliding(Vector(vec))
         /\ Loop!Points(Vector(vec)) = Covered(GetHeaders(table)[a])
<1> DEFINE v == GetHeaders(table)[a]
           w == Vector(vec)
<1>1. \A k \in 1..Len(vec) : vec[k] \in v
  BY DEF Lists
<1>2. /\ Len(vec) \in Nat /\ Len(w) = Len(vec) /\ w \in Seq(Loop!Interval)
      /\ \A k \in 1..Len(vec) : w[k] = Bare(vec[k])
  <2>1. Len(vec) \in Nat
    BY DEF Lists
  <2>2. w \in [1..Len(vec) -> Loop!Interval]
    BY <1>1, IslandType DEF Vector
  <2> QED BY <2>1, <2>2 DEF Vector
<1>3. \A k \in 1..Len(vec) : w[k].start = vec[k].start /\ w[k].len = vec[k].len
  <2> HIDE DEF w
  <2>1. \A i : Bare(i).start = i.start /\ Bare(i).len = i.len
    BY DEF Bare
  <2> QED BY <1>2, <2>1
<1> HIDE DEF w
<1>4. Loop!IsMonotonicNonColliding(w)
  <2> SUFFICES ASSUME NEW k \in 1..(Len(vec) - 1)
               PROVE  w[k].len # 0 /\ w[k].start + w[k].len - 1 < w[k + 1].start
    BY <1>2 DEF Loop!IsMonotonicNonColliding, Loop!First, Loop!Last
  <2>1. k \in 1..Len(vec) /\ k + 1 \in 1..Len(vec) /\ k < k + 1
    BY <1>2
  <2>2. vec[k].shift < vec[k + 1].shift
    BY <2>1 DEF Lists
  <2>3. ~ \E i \in v : vec[k].shift < i.shift /\ i.shift < vec[k + 1].shift
    <3> SUFFICES ASSUME NEW i \in v, vec[k].shift < i.shift, i.shift < vec[k + 1].shift
                 PROVE  FALSE
      OBVIOUS
    <3>1. PICK j \in 1..Len(vec) : vec[j] = i
      BY DEF Lists
    <3>2. vec[j].shift \in Int /\ vec[k].shift \in Int /\ vec[k + 1].shift \in Int
      BY <2>1, <1>1, IslandType
    <3>3. /\ j < k => vec[j].shift < vec[k].shift
          /\ k + 1 < j => vec[k + 1].shift < vec[j].shift
      BY <2>1 DEF Lists
    <3>4. ~ (j < k) /\ j # k /\ j # k + 1 /\ ~ (k + 1 < j)
      BY <3>1, <3>2, <3>3
    <3>5. k \in Nat /\ j \in Nat
      BY <1>2
    <3> QED BY <3>4, <3>5
  <2>4. vec[k].start + vec[k].len - 1 < vec[k + 1].start
    BY <2>1, <2>2, <2>3, <1>1, HeaderMonotonic DEF IsMonotonicNonColliding
  <2>5. w[k].len # 0
    <3>1. w[k] \in Loop!Interval
      BY <2>1, <1>2
    <3> QED BY <3>1 DEF Loop!Interval, Loop!Point
  <2> QED BY <2>1, <2>4, <2>5, <1>3
<1>5. Loop!Points(w) = Covered(v)
  <2>1. ASSUME NEW k \in 1..Len(vec), NEW x \in Loop!Point
        PROVE  x \in Loop!Inside(w[k]) <=>
                 vec[k].start <= x /\ x < vec[k].start + vec[k].len
    <3>1. vec[k].start \in Nat /\ vec[k].len \in Nat /\ x \in Nat
      BY <1>1, IslandType, BoundAssumption DEF Loop!Point
    <3>2. w[k].start = vec[k].start /\ w[k].len = vec[k].len
      BY <1>3
    <3>3. x <= vec[k].start + vec[k].len - 1 <=> x < vec[k].start + vec[k].len
      <4>1. \A s, n \in Nat : x <= s + n - 1 <=> x < s + n
        BY <3>1
      <4> QED BY <3>1, <4>1
    <3>4. x \in Loop!Inside(w[k]) <=>
            w[k].start <= x /\ x <= w[k].start + w[k].len - 1
      BY DEF Loop!Inside, Loop!First, Loop!Last
    <3> QED BY <3>2, <3>3, <3>4
  <2>2. Loop!Point = Lamport
    BY DEF Loop!Point, Lamport
  <2>3. \A x : x \in Loop!Points(w) <=> \E k \in 1..Len(vec) : x \in Loop!Inside(w[k])
    BY <1>2 DEF Loop!Points, Loop!PointsFrom
  <2>4. \A i \in v : \E k \in 1..Len(vec) : vec[k] = i
    BY DEF Lists
  <2>5. \A k \in 1..Len(vec) : Loop!Inside(w[k]) \subseteq Loop!Point
    BY DEF Loop!Inside
  <2> HIDE DEF v
  <2> QED BY <1>1, <2>1, <2>2, <2>3, <2>4, <2>5 DEF Covered
<1> QED BY <1>2, <1>4, <1>5 DEF w
=============================================================================
