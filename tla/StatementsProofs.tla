-------------------------- MODULE StatementsProofs --------------------------
(***************************************************************************)
(* What TLAPS proves about Statements, for any handles and intervals: the  *)
(* five properties of the run, from one invariant.                         *)
(*                                                                         *)
(* The argument is that of a proof outline.  Found says what an operation  *)
(* finds, whatever function it is in and wherever that stands; After says  *)
(* which operations may come next.  The seven functions are checked against*)
(* After once (ProgramShape), and then each operation is shown to leave    *)
(* what any operation that may follow it expects to find.  Only the loop   *)
(* of getAllMessages is followed place by place (SearchPlace, Gathered).   *)
(***************************************************************************)
EXTENDS Statements, SequenceTheorems, FiniteSetTheorems, TLAPS

----------------------------------------------------------------------------
(* The text of the functions. *)

\* What the functions are made of.
Simple == {"connect", "check", "expect", "unset", "bind", "orBind", "step", "orStep", "reset",
           "columnsIfRow", "okOrReturn", "okOrAbort", "each", "again", "whileRow", "return",
           "report"}
Operation ==
  (Simple \X Slot) \cup ({"take"} \X {"s1", "s2"}) \cup ({"prepare"} \X Sql)

\* The operations that may follow o in the text of a function.
After(o) ==
  CASE o[1] = "connect" -> {<<"okOrAbort", "res">>}
    [] o[1] = "prepare" -> {"check", "expect"} \X {"res"}
    [] o[1] \in {"check", "expect"} -> {<<"take", "s1">>, <<"take", "s2">>, <<"step", "res">>}
    [] o[1] = "take" -> {"unset", "bind", "orBind", "step", "each", "whileRow"} \X {o[2]}
    [] o[1] = "unset" -> {<<"orBind", o[2]>>}
    [] o[1] = "bind" -> {"orStep", "step", "okOrReturn"} \X {o[2]}
    [] o[1] = "orBind" -> {"orStep", "whileRow"} \X {o[2]}
    [] o[1] = "orStep" -> {"reset", "report"} \X {o[2]}
    [] o[1] = "step" -> {<<"okOrAbort", o[2]>>, <<"columnsIfRow", o[2]>>, <<"okOrReturn", "res">>}
    [] o[1] = "reset" -> {<<"okOrReturn", o[2]>>}
    [] o[1] \in {"columnsIfRow", "whileRow"} -> {"return"} \X Slot
    [] o[1] = "okOrAbort" -> ({"prepare"} \X Sql) \cup {<<"return", "res">>}
    [] o = <<"okOrReturn", "res">> -> {"prepare"} \X Sql
    [] o[1] = "okOrReturn" /\ o[2] # "res" -> {"step", "again"} \X {o[2]}
    [] o[1] = "each" -> {<<"orBind", o[2]>>}
    [] o[1] = "again" -> {"prepare"} \X Sql
    [] OTHER -> {}

\* A part of a function: each operation follows the one before it.
Part(p) ==
  /\ p \in Seq(Operation) /\ Len(p) \in Nat \ {0}
  /\ \A k \in 1..(Len(p) - 1) : p[k + 1] \in After(p[k])

\* Only the first operation of a part may connect.
LEMMA NoConnectAfter == \A o, n : n \in After(o) => n[1] # "connect"
BY DEF After

LEMMA NoConnectInside ==
  ASSUME NEW p, Part(p), NEW k \in 2..Len(p)
  PROVE  p[k][1] # "connect"
<1>1. Len(p) \in Nat
  BY DEF Part
<1>2. k - 1 \in 1..(Len(p) - 1) /\ (k - 1) + 1 = k
  BY <1>1
<1>3. p[(k - 1) + 1] \in After(p[k - 1])
  BY <1>2 DEF Part
<1> QED BY <1>2, <1>3, NoConnectAfter

\* A part without what only getAllMessages does.
Plain(p) ==
  /\ Part(p)
  /\ \A k \in 1..Len(p) : p[k][1] \notin {"each", "again", "reset"} /\ p[k][2] # "s2"

\* After, one kind of operation at a time.
LEMMA AfterSteps ==
  /\ \A q \in Sql : {<<"check", "res">>, <<"expect", "res">>} \subseteq After(<<"prepare", q>>)
  /\ {<<"take", "s1">>, <<"take", "s2">>, <<"step", "res">>} \subseteq After(<<"check", "res">>)
  /\ <<"take", "s1">> \in After(<<"expect", "res">>)
  /\ \A s \in Slot, k \in {"unset", "bind", "orBind", "step", "each", "whileRow"} :
       <<k, s>> \in After(<<"take", s>>)
  /\ \A s \in Slot : <<"orBind", s>> \in After(<<"unset", s>>)
  /\ \A s \in Slot, k \in {"orStep", "step", "okOrReturn"} : <<k, s>> \in After(<<"bind", s>>)
  /\ \A s \in Slot, k \in {"orStep", "whileRow"} : <<k, s>> \in After(<<"orBind", s>>)
  /\ \A s \in Slot, k \in {"reset", "report"} : <<k, s>> \in After(<<"orStep", s>>)
<1>1. \A q \in Sql : {<<"check", "res">>, <<"expect", "res">>} \subseteq After(<<"prepare", q>>)
  BY DEF After
<1>2. {<<"take", "s1">>, <<"take", "s2">>, <<"step", "res">>} \subseteq After(<<"check", "res">>)
  BY DEF After
<1>3. <<"take", "s1">> \in After(<<"expect", "res">>)
  BY DEF After
<1>4. \A s \in Slot, k \in {"unset", "bind", "orBind", "step", "each", "whileRow"} :
        <<k, s>> \in After(<<"take", s>>)
  BY DEF After
<1>5. \A s \in Slot : <<"orBind", s>> \in After(<<"unset", s>>)
  BY DEF After
<1>6. \A s \in Slot, k \in {"orStep", "step", "okOrReturn"} : <<k, s>> \in After(<<"bind", s>>)
  BY DEF After
<1>7. \A s \in Slot, k \in {"orStep", "whileRow"} : <<k, s>> \in After(<<"orBind", s>>)
  BY DEF After
<1>8. \A s \in Slot, k \in {"reset", "report"} : <<k, s>> \in After(<<"orStep", s>>)
  BY DEF After
<1> QED BY <1>1, <1>2, <1>3, <1>4, <1>5, <1>6, <1>7, <1>8, Zenon

LEMMA AfterStatus ==
  /\ <<"okOrAbort", "res">> \in After(<<"connect", "res">>)
  /\ \A s \in Slot : /\ <<"okOrAbort", s>> \in After(<<"step", s>>)
                     /\ <<"columnsIfRow", s>> \in After(<<"step", s>>)
  /\ <<"okOrReturn", "res">> \in After(<<"step", "res">>)
  /\ \A s \in Slot : <<"okOrReturn", s>> \in After(<<"reset", s>>)
  /\ \A s, t \in Slot, k \in {"columnsIfRow", "whileRow"} : <<"return", t>> \in After(<<k, s>>)
  /\ \A s \in Slot, q \in Sql : <<"prepare", q>> \in After(<<"okOrAbort", s>>)
  /\ \A s \in Slot : <<"return", "res">> \in After(<<"okOrAbort", s>>)
  /\ \A q \in Sql : <<"prepare", q>> \in After(<<"okOrReturn", "res">>)
  /\ {<<"step", "s1">>, <<"again", "s1">>} \subseteq After(<<"okOrReturn", "s1">>)
  /\ <<"orBind", "s1">> \in After(<<"each", "s1">>)
  /\ \A q \in Sql : <<"prepare", q>> \in After(<<"again", "s1">>)
<1>1. <<"okOrAbort", "res">> \in After(<<"connect", "res">>)
  BY DEF After
<1>2. \A s \in Slot : /\ <<"okOrAbort", s>> \in After(<<"step", s>>)
                      /\ <<"columnsIfRow", s>> \in After(<<"step", s>>)
  BY DEF After
<1>3. <<"okOrReturn", "res">> \in After(<<"step", "res">>)
  BY DEF After
<1>4. \A s \in Slot : <<"okOrReturn", s>> \in After(<<"reset", s>>)
  BY DEF After
<1>5. \A s, t \in Slot, k \in {"columnsIfRow", "whileRow"} : <<"return", t>> \in After(<<k, s>>)
  BY DEF After
<1>6. \A s \in Slot, q \in Sql : <<"prepare", q>> \in After(<<"okOrAbort", s>>)
  BY DEF After
<1>7. \A s \in Slot : <<"return", "res">> \in After(<<"okOrAbort", s>>)
  BY DEF After
<1>8. \A q \in Sql : <<"prepare", q>> \in After(<<"okOrReturn", "res">>)
  BY DEF After
<1>9. {<<"step", "s1">>, <<"again", "s1">>} \subseteq After(<<"okOrReturn", "s1">>)
  BY DEF After
<1>10. <<"orBind", "s1">> \in After(<<"each", "s1">>)
  BY DEF After
<1>11. \A q \in Sql : <<"prepare", q>> \in After(<<"again", "s1">>)
  BY DEF After
<1> QED BY <1>1, <1>2, <1>3, <1>4, <1>5, <1>6, <1>7, <1>8, <1>9, <1>10, <1>11, Zenon

LEMMA PlainConcat ==
  ASSUME NEW p, Plain(p), NEW q, Plain(q), q[1] \in After(p[Len(p)])
  PROVE  /\ Plain(p \o q)
         /\ (p \o q)[1] = p[1]
         /\ (p \o q)[Len(p \o q)] = q[Len(q)]
<1> DEFINE r == p \o q
<1>1. /\ p \in Seq(Operation) /\ Len(p) \in Nat \ {0}
      /\ q \in Seq(Operation) /\ Len(q) \in Nat \ {0}
  BY DEF Plain, Part
<1>2. /\ r \in Seq(Operation) /\ Len(r) = Len(p) + Len(q)
      /\ \A k \in 1..(Len(p) + Len(q)) :
           r[k] = IF k <= Len(p) THEN p[k] ELSE q[k - Len(p)]
  BY <1>1, ConcatProperties
<1> HIDE DEF r
<1>3. /\ \A k \in 1..(Len(p) - 1) : p[k + 1] \in After(p[k])
      /\ \A k \in 1..(Len(q) - 1) : q[k + 1] \in After(q[k])
  BY DEF Plain, Part
<1>4. ASSUME NEW k \in 1..(Len(r) - 1) PROVE r[k + 1] \in After(r[k])
  <2>1. CASE k < Len(p)
    <3>1. k \in 1..(Len(p) - 1) /\ r[k] = p[k] /\ r[k + 1] = p[k + 1]
      BY <1>1, <1>2, <2>1
    <3> QED BY <1>3, <3>1
  <2>2. CASE k = Len(p)
    <3>1. /\ Len(p) \in 1..(Len(p) + Len(q)) /\ Len(p) + 1 \in 1..(Len(p) + Len(q))
          /\ Len(p) <= Len(p) /\ ~(Len(p) + 1 <= Len(p)) /\ (Len(p) + 1) - Len(p) = 1
      BY <1>1
    <3>2. r[Len(p)] = p[Len(p)] /\ r[Len(p) + 1] = q[1]
      BY <1>2, <3>1
    <3> QED BY <2>2, <3>2, Zenon
  <2>3. CASE k > Len(p)
    <3>1. PICK j \in 1..(Len(q) - 1) : k = Len(p) + j
      <4>1. k - Len(p) \in 1..(Len(q) - 1) /\ k = Len(p) + (k - Len(p))
        BY <1>1, <1>2, <2>3
      <4> QED BY <4>1
    <3>2. /\ k \in 1..(Len(p) + Len(q)) /\ k + 1 \in 1..(Len(p) + Len(q))
          /\ ~(k <= Len(p)) /\ ~(k + 1 <= Len(p))
          /\ k - Len(p) = j /\ (k + 1) - Len(p) = j + 1
      BY <1>1, <3>1
    <3>3. r[k] = q[j] /\ r[k + 1] = q[j + 1]
      BY <1>2, <3>2
    <3>4. q[j + 1] \in After(q[j])
      BY <1>3
    <3> QED BY <3>3, <3>4, Zenon
  <2> QED BY <1>1, <2>1, <2>2, <2>3
<1>5. ASSUME NEW k \in 1..Len(r)
      PROVE  r[k][1] \notin {"each", "again", "reset"} /\ r[k][2] # "s2"
  <2>1. CASE k <= Len(p)
    BY <1>1, <1>2, <2>1 DEF Plain
  <2>2. CASE k > Len(p)
    <3>1. PICK j \in 1..Len(q) : k = Len(p) + j
      <4>1. k - Len(p) \in 1..Len(q) /\ k = Len(p) + (k - Len(p))
        BY <1>1, <1>2, <2>2
      <4> QED BY <4>1
    <3>2. k \in 1..(Len(p) + Len(q)) /\ ~(k <= Len(p)) /\ k - Len(p) = j
      BY <1>1, <3>1
    <3>3. r[k] = q[j]
      BY <1>2, <3>2
    <3> QED BY <3>1, <3>3 DEF Plain
  <2> QED BY <1>1, <2>1, <2>2
<1>6. r[1] = p[1] /\ r[Len(r)] = q[Len(q)]
  BY <1>1, <1>2
<1>7. Len(r) \in Nat \ {0}
  BY <1>1, <1>2
<1>8. Part(r)
  BY <1>2, <1>4, <1>7 DEF Part
<1>9. Plain(r)
  BY <1>5, <1>8 DEF Plain
<1> QED BY <1>6, <1>9 DEF r

LEMMA CreatePlain ==
  Plain(Create) /\ Create[1] = <<"prepare", "CREATE">> /\ Create[Len(Create)] = <<"okOrAbort", "s1">>
<1>1. Create \in Seq(Operation) /\ Len(Create) = 5
  BY DEF Create, Operation, Simple, Slot, Sql
<1>2. /\ Create[1] = <<"prepare", "CREATE">> /\ Create[2] = <<"expect", "res">>
      /\ Create[3] = <<"take", "s1">> /\ Create[4] = <<"step", "s1">>
      /\ Create[5] = <<"okOrAbort", "s1">>
  BY DEF Create
<1>3. /\ Create[2] \in After(Create[1]) /\ Create[3] \in After(Create[2])
      /\ Create[4] \in After(Create[3]) /\ Create[5] \in After(Create[4])
  BY <1>2, AfterSteps, AfterStatus DEF Slot, Sql
<1>4. \A k \in 1..4 : Create[k + 1] \in After(Create[k])
  BY <1>3
<1>5. \A k \in 1..5 : Create[k][1] \notin {"each", "again", "reset"} /\ Create[k][2] # "s2"
  BY <1>2
<1>6. Part(Create)
  BY <1>1, <1>4 DEF Part
<1> QED BY <1>1, <1>2, <1>5, <1>6 DEF Plain

\* The functions but getAllMessages: how each begins and ends, and that it is plain.
Shape(p, first) ==
  Plain(p) /\ p[1] = first /\ p[Len(p)][1] \in {"return", "report"}

LEMMA BeginPlain ==
  ASSUME NEW sql \in Sql
  PROVE  /\ Plain(Begin(sql)) /\ Begin(sql)[1] = <<"prepare", sql>>
         /\ Begin(sql)[Len(Begin(sql))] = <<"take", "s1">>
<1>1. Begin(sql) \in Seq(Operation) /\ Len(Begin(sql)) = 3
  BY DEF Begin, Operation, Simple, Slot
<1>2. \A k \in 1..2 : Begin(sql)[k + 1] \in After(Begin(sql)[k])
  <2>1. Begin(sql)[1] = <<"prepare", sql>> /\ Begin(sql)[2] = <<"check", "res">>
        /\ Begin(sql)[3] = <<"take", "s1">>
    BY DEF Begin
  <2>2. Begin(sql)[2] \in After(Begin(sql)[1]) /\ Begin(sql)[3] \in After(Begin(sql)[2])
    BY <2>1, AfterSteps
  <2> QED BY <2>2
<1>3. Part(Begin(sql))
  BY <1>1, <1>2 DEF Part
<1>4. \A k \in 1..3 : /\ Begin(sql)[k][1] \notin {"each", "again", "reset"}
                      /\ Begin(sql)[k][2] # "s2"
  BY DEF Begin, Sql
<1>5. Begin(sql)[1] = <<"prepare", sql>> /\ Begin(sql)[3] = <<"take", "s1">>
  BY DEF Begin
<1> QED BY <1>1, <1>3, <1>4, <1>5 DEF Plain

LEMMA BeginConcat ==
  ASSUME NEW sql \in Sql, NEW q, Plain(q), q[1] \in After(<<"take", "s1">>),
         q[Len(q)][1] \in {"return", "report"}
  PROVE  Shape(Begin(sql) \o q, <<"prepare", sql>>)
<1>1. /\ Plain(Begin(sql)) /\ Begin(sql)[1] = <<"prepare", sql>>
      /\ q[1] \in After(Begin(sql)[Len(Begin(sql))])
  BY BeginPlain
<1> DEFINE p == Begin(sql)
           r == p \o q
<1>2. /\ Plain(r) /\ r[1] = p[1] /\ r[Len(r)] = q[Len(q)]
  BY <1>1, PlainConcat, Zenon
<1> HIDE DEF p
<1>3. r[1] = <<"prepare", sql>>
  BY <1>1, <1>2 DEF p
<1> HIDE DEF r
<1>4. Shape(r, <<"prepare", sql>>)
  BY <1>2, <1>3 DEF Shape
<1> QED BY <1>4 DEF r, p

LEMMA InsertUnsetShape == Shape(InsertUnset, <<"prepare", "INSERT">>)
<1> DEFINE q == <<<<"unset", "s1">>, <<"orBind", "s1">>, <<"orStep", "s1">>,
                       <<"report", "s1">>>>
<1>1. q \in Seq(Operation) /\ Len(q) = 4
  BY DEF Operation, Simple, Slot
<1>2. /\ q[1] = <<"unset", "s1">> /\ q[2] = <<"orBind", "s1">>
      /\ q[3] = <<"orStep", "s1">> /\ q[4] = <<"report", "s1">>
  OBVIOUS
<1> HIDE DEF q
<1>3. \A k \in 1..3 : q[k + 1] \in After(q[k])
  <2>1. /\ q[2] \in After(q[1]) /\ q[3] \in After(q[2])
        /\ q[4] \in After(q[3])
    BY <1>2, AfterSteps DEF Slot
  <2> QED BY <2>1
<1>4. \A k \in 1..4 : q[k][1] \notin {"each", "again", "reset"} /\ q[k][2] # "s2"
  BY <1>2
<1>5. Plain(q)
  <2>1. Part(q)
    BY <1>1, <1>3 DEF Part
  <2> QED BY <1>1, <1>4, <2>1 DEF Plain
<1>6. q[1] \in After(<<"take", "s1">>) /\ q[Len(q)][1] \in {"return", "report"}
  BY <1>1, <1>2, AfterSteps DEF Slot
<1>7. InsertUnset = Begin("INSERT") \o q
  BY DEF InsertUnset, q
<1>8. "INSERT" \in Sql
  BY DEF Sql
<1> QED BY <1>5, <1>6, <1>7, <1>8, BeginConcat

LEMMA InsertValueShape == Shape(InsertValue, <<"prepare", "INSERT">>)
<1> DEFINE q == <<<<"bind", "s1">>, <<"orStep", "s1">>, <<"report", "s1">>>>
<1>1. q \in Seq(Operation) /\ Len(q) = 3
  BY DEF Operation, Simple, Slot
<1>2. /\ q[1] = <<"bind", "s1">> /\ q[2] = <<"orStep", "s1">>
      /\ q[3] = <<"report", "s1">>
  OBVIOUS
<1> HIDE DEF q
<1>3. \A k \in 1..2 : q[k + 1] \in After(q[k])
  <2>1. /\ q[2] \in After(q[1]) /\ q[3] \in After(q[2])
    BY <1>2, AfterSteps DEF Slot
  <2> QED BY <2>1
<1>4. \A k \in 1..3 : q[k][1] \notin {"each", "again", "reset"} /\ q[k][2] # "s2"
  BY <1>2
<1>5. Plain(q)
  <2>1. Part(q)
    BY <1>1, <1>3 DEF Part
  <2> QED BY <1>1, <1>4, <2>1 DEF Plain
<1>6. q[1] \in After(<<"take", "s1">>) /\ q[Len(q)][1] \in {"return", "report"}
  BY <1>1, <1>2, AfterSteps DEF Slot
<1>7. InsertValue = Begin("INSERT") \o q
  BY DEF InsertValue, q
<1>8. "INSERT" \in Sql
  BY DEF Sql
<1> QED BY <1>5, <1>6, <1>7, <1>8, BeginConcat

LEMMA GetValueShape == Shape(GetValue, <<"prepare", "SELECT">>)
<1> DEFINE q == <<<<"bind", "s1">>, <<"step", "s1">>, <<"columnsIfRow", "s1">>,
                       <<"return", "s1">>>>
<1>1. q \in Seq(Operation) /\ Len(q) = 4
  BY DEF Operation, Simple, Slot
<1>2. /\ q[1] = <<"bind", "s1">> /\ q[2] = <<"step", "s1">>
      /\ q[3] = <<"columnsIfRow", "s1">> /\ q[4] = <<"return", "s1">>
  OBVIOUS
<1> HIDE DEF q
<1>3. \A k \in 1..3 : q[k + 1] \in After(q[k])
  <2>1. /\ q[2] \in After(q[1]) /\ q[3] \in After(q[2])
        /\ q[4] \in After(q[3])
    BY <1>2, AfterSteps, AfterStatus DEF Slot
  <2> QED BY <2>1
<1>4. \A k \in 1..4 : q[k][1] \notin {"each", "again", "reset"} /\ q[k][2] # "s2"
  BY <1>2
<1>5. Plain(q)
  <2>1. Part(q)
    BY <1>1, <1>3 DEF Part
  <2> QED BY <1>1, <1>4, <2>1 DEF Plain
<1>6. q[1] \in After(<<"take", "s1">>) /\ q[Len(q)][1] \in {"return", "report"}
  BY <1>1, <1>2, AfterSteps DEF Slot
<1>7. GetValue = Begin("SELECT") \o q
  BY DEF GetValue, q
<1>8. "SELECT" \in Sql
  BY DEF Sql
<1> QED BY <1>5, <1>6, <1>7, <1>8, BeginConcat

LEMMA GetUserInfoShape == Shape(GetUserInfo, <<"prepare", "SELECT">>)
<1> DEFINE q == <<<<"bind", "s1">>, <<"okOrReturn", "s1">>, <<"step", "s1">>,
                       <<"columnsIfRow", "s1">>, <<"return", "s1">>>>
<1>1. q \in Seq(Operation) /\ Len(q) = 5
  BY DEF Operation, Simple, Slot
<1>2. /\ q[1] = <<"bind", "s1">> /\ q[2] = <<"okOrReturn", "s1">>
      /\ q[3] = <<"step", "s1">> /\ q[4] = <<"columnsIfRow", "s1">>
      /\ q[5] = <<"return", "s1">>
  OBVIOUS
<1> HIDE DEF q
<1>3. \A k \in 1..4 : q[k + 1] \in After(q[k])
  <2>1. /\ q[2] \in After(q[1]) /\ q[3] \in After(q[2])
        /\ q[4] \in After(q[3]) /\ q[5] \in After(q[4])
    BY <1>2, AfterSteps, AfterStatus DEF Slot
  <2> QED BY <2>1
<1>4. \A k \in 1..5 : q[k][1] \notin {"each", "again", "reset"} /\ q[k][2] # "s2"
  BY <1>2
<1>5. Plain(q)
  <2>1. Part(q)
    BY <1>1, <1>3 DEF Part
  <2> QED BY <1>1, <1>4, <2>1 DEF Plain
<1>6. q[1] \in After(<<"take", "s1">>) /\ q[Len(q)][1] \in {"return", "report"}
  BY <1>1, <1>2, AfterSteps DEF Slot
<1>7. GetUserInfo = Begin("SELECT") \o q
  BY DEF GetUserInfo, q
<1>8. "SELECT" \in Sql
  BY DEF Sql
<1> QED BY <1>5, <1>6, <1>7, <1>8, BeginConcat

LEMMA GetRowsShape == Shape(GetRows, <<"prepare", "SELECT">>)
<1> DEFINE q == <<<<"whileRow", "s1">>, <<"return", "s1">>>>
<1>1. q \in Seq(Operation) /\ Len(q) = 2
  BY DEF Operation, Simple, Slot
<1>2. /\ q[1] = <<"whileRow", "s1">> /\ q[2] = <<"return", "s1">>
  OBVIOUS
<1> HIDE DEF q
<1>3. \A k \in 1..1 : q[k + 1] \in After(q[k])
  <2>1. /\ q[2] \in After(q[1])
    BY <1>2, AfterStatus DEF Slot
  <2> QED BY <2>1
<1>4. \A k \in 1..2 : q[k][1] \notin {"each", "again", "reset"} /\ q[k][2] # "s2"
  BY <1>2
<1>5. Plain(q)
  <2>1. Part(q)
    BY <1>1, <1>3 DEF Part
  <2> QED BY <1>1, <1>4, <2>1 DEF Plain
<1>6. q[1] \in After(<<"take", "s1">>) /\ q[Len(q)][1] \in {"return", "report"}
  BY <1>1, <1>2, AfterSteps DEF Slot
<1>7. GetRows = Begin("SELECT") \o q
  BY DEF GetRows, q
<1>8. "SELECT" \in Sql
  BY DEF Sql
<1> QED BY <1>5, <1>6, <1>7, <1>8, BeginConcat

LEMMA ConstructorShape == Shape(Constructor, <<"connect", "res">>)
<1> DEFINE c == <<<<"connect", "res">>, <<"okOrAbort", "res">>>>
           e == <<<<"return", "res">>>>
           Led(p) == Plain(p) /\ p[1] = <<"connect", "res">> /\ p[Len(p)][1] = "okOrAbort"
<1>1. Led(c)
  <2>1. c \in Seq(Operation) /\ Len(c) = 2
    BY DEF Operation, Simple, Slot
  <2>2. c[1] = <<"connect", "res">> /\ c[2] = <<"okOrAbort", "res">>
    OBVIOUS
  <2> HIDE DEF c
  <2>3. \A k \in 1..1 : c[k + 1] \in After(c[k])
    BY <2>2, AfterStatus
  <2>4. \A k \in 1..2 : c[k][1] \notin {"each", "again", "reset"} /\ c[k][2] # "s2"
    BY <2>2
  <2>5. Part(c)
    BY <2>1, <2>3 DEF Part
  <2>6. Plain(c)
    BY <2>1, <2>4, <2>5 DEF Plain
  <2> QED BY <2>1, <2>2, <2>6
<1>2. ASSUME NEW p, Led(p) PROVE Led(p \o Create)
  <2>1. <<"prepare", "CREATE">> \in After(p[Len(p)])
    BY <1>2 DEF After, Sql
  <2>2. Plain(p) /\ Plain(Create) /\ Create[1] \in After(p[Len(p)])
    BY <1>2, <2>1, CreatePlain
  <2>3. /\ Plain(p \o Create) /\ (p \o Create)[1] = p[1]
        /\ (p \o Create)[Len(p \o Create)] = Create[Len(Create)]
    BY <2>2, PlainConcat, Zenon
  <2>4. Create[Len(Create)][1] = "okOrAbort"
    BY CreatePlain
  <2> QED BY <1>2, <2>3, <2>4, Zenon
<1>3. Plain(e) /\ e[1] = <<"return", "res">> /\ Len(e) = 1
  <2>1. e \in Seq(Operation) /\ Len(e) = 1
    BY DEF Operation, Simple, Slot
  <2>2. Part(e)
    BY <2>1 DEF Part
  <2> QED BY <2>1, <2>2 DEF Plain
<1>4. ASSUME NEW p, Led(p) PROVE Shape(p \o e, <<"connect", "res">>)
  <2>1. e[1] \in After(p[Len(p)])
    BY <1>3, <1>4 DEF After
  <2> HIDE DEF e
  <2> QED BY <1>3, <1>4, <2>1, PlainConcat DEF Shape
<1>5. Constructor = c \o Create \o Create \o Create \o Create \o Create \o e
  BY Zenon DEF Constructor
<1> HIDE DEF Led, c, e
<1>6. Led(c \o Create \o Create \o Create \o Create \o Create)
  BY <1>1, <1>2
<1> QED BY <1>4, <1>5, <1>6

LEMMA SearchText ==
  /\ Part(GetAllMessages) /\ Len(GetAllMessages) = 19
  /\ GetAllMessages[1] = <<"prepare", "CLEAR">>
  /\ GetAllMessages[19] = <<"return", "s2">>
<1> DEFINE G == GetAllMessages
<1>1. G \in Seq(Operation) /\ Len(G) = 19
  BY DEF GetAllMessages, Operation, Simple, Slot, Sql
<1>2. /\ G[1] = <<"prepare", "CLEAR">> /\ G[2] = <<"check", "res">>
      /\ G[3] = <<"step", "res">> /\ G[4] = <<"okOrReturn", "res">>
      /\ G[5] = <<"prepare", "INSERT_INTO_INTERVALS">> /\ G[6] = <<"check", "res">>
      /\ G[7] = <<"take", "s1">>
  BY DEF GetAllMessages
<1>3. /\ G[7] = <<"take", "s1">> /\ G[8] = <<"each", "s1">>
      /\ G[9] = <<"orBind", "s1">> /\ G[10] = <<"orStep", "s1">>
      /\ G[11] = <<"reset", "s1">> /\ G[12] = <<"okOrReturn", "s1">>
      /\ G[13] = <<"again", "s1">>
  BY DEF GetAllMessages
<1>4. /\ G[13] = <<"again", "s1">> /\ G[14] = <<"prepare", "GET_MSGS">>
      /\ G[15] = <<"check", "res">> /\ G[16] = <<"take", "s2">>
      /\ G[17] = <<"orBind", "s2">> /\ G[18] = <<"whileRow", "s2">>
      /\ G[19] = <<"return", "s2">>
  BY DEF GetAllMessages
<1> HIDE DEF G
<1>5. \A k \in 1..6 : G[k + 1] \in After(G[k])
  <2>1. /\ G[2] \in After(G[1]) /\ G[3] \in After(G[2]) /\ G[4] \in After(G[3])
        /\ G[5] \in After(G[4]) /\ G[6] \in After(G[5]) /\ G[7] \in After(G[6])
    BY <1>2, AfterSteps, AfterStatus DEF Slot, Sql
  <2>2. \A k \in 1..6 : k = 1 \/ k = 2 \/ k = 3 \/ k = 4 \/ k = 5 \/ k = 6
    OBVIOUS
  <2> QED BY <2>1, <2>2
<1>6. \A k \in 7..12 : G[k + 1] \in After(G[k])
  <2>1. /\ G[8] \in After(G[7]) /\ G[9] \in After(G[8]) /\ G[10] \in After(G[9])
        /\ G[11] \in After(G[10]) /\ G[12] \in After(G[11]) /\ G[13] \in After(G[12])
    BY <1>3, AfterSteps, AfterStatus DEF Slot, Sql
  <2>2. \A k \in 7..12 : k = 7 \/ k = 8 \/ k = 9 \/ k = 10 \/ k = 11 \/ k = 12
    OBVIOUS
  <2> QED BY <2>1, <2>2
<1>7. \A k \in 13..18 : G[k + 1] \in After(G[k])
  <2>1. /\ G[14] \in After(G[13]) /\ G[15] \in After(G[14]) /\ G[16] \in After(G[15])
        /\ G[17] \in After(G[16]) /\ G[18] \in After(G[17]) /\ G[19] \in After(G[18])
    BY <1>4, AfterSteps, AfterStatus DEF Slot, Sql
  <2>2. \A k \in 13..18 : k = 13 \/ k = 14 \/ k = 15 \/ k = 16 \/ k = 17 \/ k = 18
    OBVIOUS
  <2> QED BY <2>1, <2>2
<1>8. \A k \in 1..18 : G[k + 1] \in After(G[k])
  BY <1>5, <1>6, <1>7
<1>9. Part(G)
  BY <1>1, <1>8 DEF Part
<1> QED BY <1>1, <1>2, <1>4, <1>9 DEF G

LEMMA ProgramShape ==
  \A f \in Function :
    /\ Part(Program[f])
    /\ Program[f][Len(Program[f])][1] \in {"return", "report"}
    /\ IF f = "Constructor" THEN Program[f][1] = <<"connect", "res">>
                            ELSE Program[f][1] \in {"prepare"} \X Sql
    /\ IF f = "GetAllMessages" THEN Program[f] = GetAllMessages ELSE Plain(Program[f])
<1> SUFFICES ASSUME NEW f \in Function
             PROVE  /\ Part(Program[f])
                    /\ Program[f][Len(Program[f])][1] \in {"return", "report"}
                    /\ IF f = "Constructor" THEN Program[f][1] = <<"connect", "res">>
                                            ELSE Program[f][1] \in {"prepare"} \X Sql
                    /\ IF f = "GetAllMessages" THEN Program[f] = GetAllMessages
                                               ELSE Plain(Program[f])
  OBVIOUS
<1>1. CASE f = "Constructor"
  <2>1. Program[f] = Constructor
    BY <1>1 DEF Program
  <2> QED BY <1>1, <2>1, ConstructorShape DEF Shape, Plain, Sql
<1>2. CASE f = "InsertUnset"
  <2>1. Program[f] = InsertUnset
    BY <1>2 DEF Program
  <2> QED BY <1>2, <2>1, InsertUnsetShape DEF Shape, Plain, Sql
<1>3. CASE f = "InsertValue"
  <2>1. Program[f] = InsertValue
    BY <1>3 DEF Program
  <2> QED BY <1>3, <2>1, InsertValueShape DEF Shape, Plain, Sql
<1>4. CASE f = "GetValue"
  <2>1. Program[f] = GetValue
    BY <1>4 DEF Program
  <2> QED BY <1>4, <2>1, GetValueShape DEF Shape, Plain, Sql
<1>5. CASE f = "GetUserInfo"
  <2>1. Program[f] = GetUserInfo
    BY <1>5 DEF Program
  <2> QED BY <1>5, <2>1, GetUserInfoShape DEF Shape, Plain, Sql
<1>6. CASE f = "GetRows"
  <2>1. Program[f] = GetRows
    BY <1>6 DEF Program
  <2> QED BY <1>6, <2>1, GetRowsShape DEF Shape, Plain, Sql
<1>7. CASE f = "GetAllMessages"
  <2>1. Program[f] = GetAllMessages
    BY <1>7 DEF Program
  <2>2. GetAllMessages[1] \in {"prepare"} \X Sql /\ GetAllMessages[19][1] \in {"return", "report"}
    BY SearchText DEF Sql
  <2> QED BY <1>7, <2>1, <2>2, SearchText
<1> QED BY <1>1, <1>2, <1>3, <1>4, <1>5, <1>6, <1>7 DEF Function

----------------------------------------------------------------------------
(* The inductive invariant. *)

Statement == {Free} \cup [sql : Sql, state : {"ready", "row", "done", "failed"}, bound : BOOLEAN]

TypeOK ==
  /\ conn \in {"none", "open", "failed", "closed"} /\ closes \in 0..1
  /\ call \in Function \cup {"none"} /\ pc \in Nat \ {0}
  /\ call \in Function => pc <= Len(Program[call])
  /\ slot \in [Slot -> Handle \cup Empty]
  /\ stmt \in [Handle -> Statement]
  /\ res \in Result
  /\ search \in [Interval -> Nat]
  /\ asked \in Seq(Interval) /\ todo \in Seq(Interval)

\* Every statement that is not finalized has one owner, and no owner is left
\* when no function is in progress.
Owned ==
  /\ \A h \in Handle : stmt[h] # Free <=> \E s \in Slot : slot[s] = h
  /\ \A s, t \in Slot : slot[s] = slot[t] /\ slot[s] \in Handle => s = t
  /\ call = "none" => slot = NoObjects

\* The connection: it is opened by the first operation of the constructor, whose
\* second aborts if that failed, and closed between two functions.
Connected ==
  /\ call = "none" => \/ conn = "open" /\ closes = 0
                      \/ conn = "closed" /\ closes = 1
  /\ call = "Constructor" /\ pc = 1 => conn = "none" /\ closes = 0
  /\ call = "Constructor" /\ pc = 2 =>
       \/ conn = "open" /\ closes = 0
       \/ conn = "failed" /\ closes = 1 /\ res = "ERROR"
  /\ call \in Function /\ ~(call = "Constructor" /\ pc <= 2) => conn = "open" /\ closes = 0

\* The object s owns a statement in one of the states S.
Has(s, S) == slot[s] \in Handle /\ stmt[slot[s]].state \in S

\* What each operation of a function finds.
Found(o) ==
  /\ o[1] \in {"check", "expect"} => slot["res"] = "error" \/ Has("res", {"ready"})
  /\ o[1] = "take" => Has("res", {"ready"})
  /\ o[1] \in {"unset", "bind", "orBind", "step", "orStep", "each", "again"} =>
       Has(o[2], {"ready"})
  /\ o[1] = "okOrReturn" /\ o[2] # "res" => Has(o[2], {"ready"})
  /\ o[1] = "orStep" /\ res = "OK" => stmt[slot[o[2]]].bound
  /\ o[1] = "whileRow" => Has(o[2], {"ready", "row"})
  /\ o[1] = "columnsIfRow" /\ res = "ROW" => Has(o[2], {"row"})
  /\ o[1] = "reset" => Has(o[2], {"done", "failed"})
  /\ o[1] = "report" /\ res = "OK" => Has(o[2], {"done"}) /\ stmt[slot[o[2]]].bound

Ready == call \in Function => Found(Op)

\* The elements of a vector, and the rows of those asked for but not in rest.
Elements(v) == {v[k] : k \in DOMAIN v}
Distinct(v) == \A j, k \in DOMAIN v : v[j] = v[k] => j = k
Rows(rest) ==
  [i \in Interval |-> IF i \in Elements(asked) \ Elements(rest) THEN 1 ELSE 0]
NoRows == [i \in Interval |-> 0]

\* The statement that the object s owns is sql.
Is(s, sql) == slot[s] \in Handle => stmt[slot[s]].sql = sql

\* getAllMessages: what the statements are, and what the temporary table holds.
Gathered ==
  call = "GetAllMessages" =>
    /\ Distinct(asked) /\ Distinct(todo) /\ Elements(todo) \subseteq Elements(asked)
    /\ pc \in 2..3 => Is("res", "CLEAR")
    /\ pc \in 6..7 => Is("res", "INSERT_INTO_INTERVALS")
    /\ pc \in 8..13 => Is("s1", "INSERT_INTO_INTERVALS")
    /\ pc \in 15..16 => Is("res", "GET_MSGS")
    /\ pc \in 17..18 => Is("s2", "GET_MSGS")
    /\ pc < 8 => todo = asked
    /\ pc = 4 /\ res = "OK" => search = NoRows
    /\ pc \in 5..7 => search = NoRows
    /\ pc \in 9..13 => todo # <<>>
    /\ pc \in 8..10 => search = Rows(todo)
    /\ pc \in 11..12 /\ res = "OK" => search = Rows(Tail(todo))
    /\ pc = 13 => search = Rows(Tail(todo))
    /\ pc \in 14..18 => search = Rows(<<>>)

IInv == TypeOK /\ Owned /\ Connected /\ Ready /\ Gathered

----------------------------------------------------------------------------
(* Where a function is. *)

LEMMA NoneIsNone == "none" \notin Function
BY DEF Function

LEMMA ProgramOps ==
  \A f \in Function :
    /\ Program[f] \in Seq(Operation) /\ Len(Program[f]) \in Nat \ {0}
    /\ \A k \in 1..Len(Program[f]) : Program[f][k] \in Operation
BY ProgramShape DEF Part

\* The operation that follows in the text.
LEMMA Advance ==
  ASSUME TypeOK, call \in Function, Op[1] \notin {"return", "report"}, Goto(pc + 1)
  PROVE  /\ call' \in Function /\ pc' \in Nat \ {0} /\ pc' <= Len(Program[call'])
         /\ Op' \in After(Op) /\ Op' \in Operation
         /\ Op'[1] = "reset" => call = "GetAllMessages"
<1> DEFINE p == Program[call]
<1>1. /\ Len(p) \in Nat \ {0} /\ p[Len(p)][1] \in {"return", "report"}
      /\ \A k \in 1..(Len(p) - 1) : p[k + 1] \in After(p[k])
      /\ \A k \in 1..Len(p) : p[k] \in Operation
  BY ProgramShape, ProgramOps DEF Part
<1>2. pc \in 1..(Len(p) - 1)
  BY <1>1 DEF TypeOK, Op
<1>3. call' = call /\ pc' = pc + 1 /\ Op' = p[pc + 1]
  BY DEF Goto, Op
<1>4. Op'[1] = "reset" => call = "GetAllMessages"
  <2>1. ASSUME call # "GetAllMessages" PROVE Plain(p)
    BY <2>1, ProgramShape
  <2> QED BY <1>1, <1>2, <1>3, <2>1 DEF Plain
<1> QED BY <1>1, <1>2, <1>3, <1>4 DEF Op

\* Only the constructor connects, and it does so first; only getAllMessages has
\* a loop, resets a statement and uses a second one.
LEMMA Place ==
  ASSUME TypeOK, call \in Function
  PROVE  /\ Op \in Operation
         /\ Op[1] = "connect" <=> call = "Constructor" /\ pc = 1
         /\ call = "Constructor" /\ pc = 2 => Op = <<"okOrAbort", "res">>
         /\ Op[1] \in {"each", "again", "reset"} \/ Op[2] = "s2" => call = "GetAllMessages"
<1> DEFINE p == Program[call]
<1>1. /\ Part(p) /\ Len(p) \in Nat \ {0} /\ pc \in 1..Len(p) /\ Op = p[pc]
  BY ProgramShape, ProgramOps DEF TypeOK, Op
<1>2. Op \in Operation
  BY <1>1, ProgramOps
<1>3. Op[1] = "connect" <=> call = "Constructor" /\ pc = 1
  <2>1. pc # 1 => Op[1] # "connect"
    BY <1>1, NoConnectInside, pc # 1 => pc \in 2..Len(p)
  <2>2. pc = 1 => (Op[1] = "connect" <=> call = "Constructor")
    BY <1>1, ProgramShape
  <2> QED BY <2>1, <2>2
<1>4. call = "Constructor" /\ pc = 2 => Op = <<"okOrAbort", "res">>
  <2> SUFFICES ASSUME call = "Constructor", pc = 2 PROVE Op = <<"okOrAbort", "res">>
    OBVIOUS
  <2>1. p[1] = <<"connect", "res">>
    BY ProgramShape
  <2>2. 1 \in 1..(Len(p) - 1) /\ Op = p[1 + 1]
    BY <1>1
  <2>3. p[1 + 1] \in After(p[1])
    BY <1>1, <2>2 DEF Part
  <2> QED BY <2>1, <2>2, <2>3 DEF After
<1>5. Op[1] \in {"each", "again", "reset"} \/ Op[2] = "s2" => call = "GetAllMessages"
  <2>1. ASSUME call # "GetAllMessages" PROVE Plain(p)
    BY <2>1, ProgramShape
  <2> QED BY <1>1, <2>1 DEF Plain
<1> QED BY <1>2, <1>3, <1>4, <1>5

\* The operations of getAllMessages.
LEMMA SearchPlace ==
  ASSUME TypeOK, call = "GetAllMessages"
  PROVE  /\ call \in Function /\ pc \in 1..19
         /\ Op[1] = "prepare" => pc \in {1, 5, 14}
         /\ Op[1] \in {"check", "expect"} => pc \in {2, 6, 15}
         /\ Op[1] = "take" => pc \in {7, 16}
         /\ Op[1] = "step" => pc = 3
         /\ Op[1] = "okOrReturn" => pc \in {4, 12}
         /\ Op[1] = "each" => pc = 8
         /\ Op[1] = "orBind" => pc \in {9, 17}
         /\ Op[1] = "orStep" => pc = 10
         /\ Op[1] = "reset" => pc = 11
         /\ Op[1] = "again" => pc = 13
         /\ Op[1] = "whileRow" => pc = 18
         /\ Op[1] \in {"return", "report"} => pc = 19
         /\ Op[1] \notin {"connect", "okOrAbort", "unset", "bind", "columnsIfRow"}
         /\ pc = 1 => Op[2] = "CLEAR"
         /\ pc = 3 => Op[2] = "res"
         /\ pc = 4 => Op[2] = "res"
         /\ pc = 5 => Op[2] = "INSERT_INTO_INTERVALS"
         /\ pc \in {7, 8, 9, 10, 11, 12, 13} => Op[2] = "s1"
         /\ pc = 14 => Op[2] = "GET_MSGS"
         /\ pc \in {16, 17, 18} => Op[2] = "s2"
<1>1. call \in Function /\ Program[call] = GetAllMessages
  BY ProgramShape DEF Function
<1>2. pc \in 1..19 /\ Op = GetAllMessages[pc]
  BY <1>1, SearchText DEF TypeOK, Op
<1> DEFINE o == GetAllMessages[pc]
<1>3. o[1] = "prepare" => pc \in {1, 5, 14}
  BY <1>2 DEF GetAllMessages
<1>4. o[1] \in {"check", "expect"} => pc \in {2, 6, 15}
  BY <1>2 DEF GetAllMessages
<1>5. o[1] = "take" => pc \in {7, 16}
  BY <1>2 DEF GetAllMessages
<1>6. o[1] = "step" => pc = 3
  BY <1>2 DEF GetAllMessages
<1>7. o[1] = "okOrReturn" => pc \in {4, 12}
  BY <1>2 DEF GetAllMessages
<1>8. o[1] = "each" => pc = 8
  BY <1>2 DEF GetAllMessages
<1>9. o[1] = "orBind" => pc \in {9, 17}
  BY <1>2 DEF GetAllMessages
<1>10. o[1] = "orStep" => pc = 10
  BY <1>2 DEF GetAllMessages
<1>11. o[1] = "reset" => pc = 11
  BY <1>2 DEF GetAllMessages
<1>12. o[1] = "again" => pc = 13
  BY <1>2 DEF GetAllMessages
<1>13. o[1] = "whileRow" => pc = 18
  BY <1>2 DEF GetAllMessages
<1>14. o[1] \in {"return", "report"} => pc = 19
  BY <1>2 DEF GetAllMessages
<1>15. o[1] \notin {"connect", "okOrAbort", "unset", "bind", "columnsIfRow"}
  BY <1>2 DEF GetAllMessages
<1>16. pc = 1 => o[2] = "CLEAR"
  BY <1>2 DEF GetAllMessages
<1>17. pc = 3 => o[2] = "res"
  BY <1>2 DEF GetAllMessages
<1>18. pc = 4 => o[2] = "res"
  BY <1>2 DEF GetAllMessages
<1>19. pc = 5 => o[2] = "INSERT_INTO_INTERVALS"
  BY <1>2 DEF GetAllMessages
<1>20. pc \in {7, 8, 9, 10, 11, 12, 13} => o[2] = "s1"
  BY <1>2 DEF GetAllMessages
<1>21. pc = 14 => o[2] = "GET_MSGS"
  BY <1>2 DEF GetAllMessages
<1>22. pc \in {16, 17, 18} => o[2] = "s2"
  BY <1>2 DEF GetAllMessages
<1> QED
  BY <1>1, <1>2, <1>3, <1>4, <1>5, <1>6, <1>7, <1>8, <1>9, <1>10, <1>11, <1>12, <1>13, <1>14,
     <1>15, <1>16, <1>17, <1>18, <1>19, <1>20, <1>21, <1>22

\* A function that is neither connecting nor about to look at the connection
\* has an open one.
LEMMA Open ==
  ASSUME TypeOK, Connected, call \in Function, Op[1] \notin {"connect", "okOrAbort"}
  PROVE  conn = "open" /\ closes = 0 /\ ~(call = "Constructor" /\ pc <= 2)
<1>1. ~(call = "Constructor" /\ pc <= 2)
  BY Place DEF TypeOK
<1> QED BY <1>1 DEF Connected

LEMMA StillOpen ==
  ASSUME TypeOK, Connected, call \in Function, Op[1] \notin {"connect", "okOrAbort"},
         Goto(pc + 1), UNCHANGED <<conn, closes>>
  PROVE  Connected'
<1>1. /\ conn = "open" /\ closes = 0 /\ ~(call = "Constructor" /\ pc <= 2) /\ pc \in Nat
  BY Open DEF TypeOK
<1> QED BY <1>1, NoneIsNone DEF Connected, Goto

----------------------------------------------------------------------------
(* A process starts, and a function returns. *)

LEMMA NoObjectsType ==
  NoObjects \in [Slot -> Handle \cup Empty] /\ \A s \in Slot : NoObjects[s] \notin Handle
BY HandleAssumption DEF NoObjects, Empty

LEMMA DestroyedType == TypeOK => \A S : Destroyed(S) \in [Handle -> Statement]
BY DEF TypeOK, Destroyed, Statement

LEMMA InitInv == Init => IInv
<1> SUFFICES ASSUME Init PROVE IInv
  OBVIOUS
<1> USE DEF Init
<1>1. TypeOK
  <2>1. stmt \in [Handle -> Statement]
    BY DEF NoHandles, Statement
  <2>2. call = "Constructor" => pc <= Len(Program[call])
    BY ProgramOps DEF Function
  <2> QED BY <2>1, <2>2, NoObjectsType DEF TypeOK, Function, Result
<1>2. Owned
  BY NoObjectsType DEF Owned, NoHandles
<1>3. Connected
  BY DEF Connected
<1>4. Op[1] = "connect"
  BY <1>1, Place DEF Function
<1>5. Ready
  BY <1>4 DEF Ready, Found
<1>6. Gathered
  BY DEF Gathered
<1> QED BY <1>1, <1>2, <1>3, <1>5, <1>6 DEF IInv

LEMMA AbortStep == Abort => IInv'
<1> SUFFICES ASSUME Abort PROVE IInv'
  OBVIOUS
<1> USE DEF Abort
<1>1. TypeOK'
  <2>1. stmt' \in [Handle -> Statement]
    BY DEF NoHandles, Statement
  <2>2. call' = "Constructor" => pc' <= Len(Program[call'])
    BY ProgramOps DEF Function
  <2> QED BY <2>1, <2>2, NoObjectsType DEF TypeOK, Function, Result
<1>2. Owned'
  BY NoObjectsType DEF Owned, NoHandles
<1>3. Connected'
  BY DEF Connected
<1>4. Op'[1] = "connect"
  BY ProgramShape DEF Op, Function
<1>5. Ready'
  BY <1>4 DEF Ready, Found
<1>6. Gathered'
  BY DEF Gathered
<1> QED BY <1>1, <1>2, <1>3, <1>5, <1>6 DEF IInv

\* Whatever owner a handle has is destroyed.
LEMMA AllDestroyed == Owned => Destroyed(Slot) = NoHandles
BY DEF Owned, Destroyed, NoHandles

LEMMA ReturnStep ==
  ASSUME IInv, call \in Function, conn = "open", closes = 0, Return
  PROVE  IInv'
<1> USE DEF IInv, Return
<1>1. TypeOK'
  BY NoObjectsType, DestroyedType, NoneIsNone DEF TypeOK, tables
<1>2. Owned'
  <2>1. stmt' = NoHandles
    BY AllDestroyed
  <2> QED BY <2>1, NoObjectsType DEF Owned, NoHandles
<1>3. Connected'
  BY NoneIsNone DEF Connected
<1>4. Ready' /\ Gathered'
  BY NoneIsNone DEF Ready, Gathered
<1> QED BY <1>1, <1>2, <1>3, <1>4 DEF IInv

----------------------------------------------------------------------------
(* The steps of a function. *)

LEMMA ConnectStep == ASSUME IInv, Connect PROVE IInv'
<1>1. /\ TypeOK /\ Owned /\ Connected /\ call = "Constructor" /\ pc = 1 /\ Op[1] = "connect"
      /\ call \in Function
  BY Place DEF IInv, Connect, Does
<1>2. /\ call' \in Function /\ pc' \in Nat \ {0} /\ pc' <= Len(Program[call'])
      /\ Op' \in After(Op)
  BY <1>1, Advance DEF Connect
<1>3. TypeOK'
  BY <1>1, <1>2 DEF TypeOK, Connect, Goto, Connected, tables, Result
<1>4. Owned'
  BY <1>1 DEF Owned, Connect, Goto
<1>5. Connected'
  BY <1>1, NoneIsNone DEF Connected, Connect, Goto
<1>6. Ready'
  BY <1>1, <1>2 DEF Ready, Found, After
<1>7. Gathered'
  BY <1>1 DEF Gathered, Connect, Goto
<1> QED BY <1>3, <1>4, <1>5, <1>6, <1>7 DEF IInv

\* One statement that is not finalized changes, and keeps its owner.
LEMMA Rewritten ==
  ASSUME TypeOK, Owned, Op[2] \in Slot, This \in Handle, NEW v, v \in Statement \ {Free},
         call \in Function, call' = call, slot' = slot, stmt' = [stmt EXCEPT ![This] = v]
  PROVE  Owned' /\ stmt' \in [Handle -> Statement] /\ stmt'[This] = v
<1>1. /\ stmt' \in [Handle -> Statement] /\ stmt'[This] = v
      /\ \A h \in Handle \ {This} : stmt'[h] = stmt[h]
  BY DEF TypeOK
<1>2. stmt[This] # Free
  BY DEF Owned, This
<1> QED BY <1>1, <1>2, NoneIsNone DEF Owned

LEMMA PrepareStep == ASSUME IInv, Prepare PROVE IInv'
<1>1. /\ TypeOK /\ Owned /\ Connected /\ Ready /\ Gathered
      /\ call \in Function /\ Op[1] = "prepare" /\ Goto(pc + 1)
      /\ UNCHANGED <<conn, closes, res, search, asked, todo>>
  BY DEF IInv, Prepare, Does, tables
<1>2. Op \in Operation /\ Op[2] \in Sql
  BY <1>1, Place DEF Operation, Simple
<1>3. /\ call' \in Function /\ pc' \in Nat \ {0} /\ pc' <= Len(Program[call'])
      /\ Op' \in {"check", "expect"} \X {"res"}
  BY <1>1, Advance DEF After
<1> DEFINE new == [sql |-> Op[2], state |-> "ready", bound |-> FALSE]
<1>4. new \in Statement /\ new # Free
  BY <1>2 DEF Statement, Free
<1>5. ASSUME NEW h \in Handle, stmt[h] = Free,
             stmt' = [Destroyed({"res"}) EXCEPT ![h] = new],
             slot' = [slot EXCEPT !["res"] = h]
      PROVE  /\ TypeOK' /\ Owned'
             /\ slot'["res"] = h /\ stmt'[h] = new
  <2>1. slot' \in [Slot -> Handle \cup Empty] /\ slot'["res"] = h
    BY <1>1, <1>5 DEF TypeOK, Slot
  <2>2. stmt' \in [Handle -> Statement] /\ stmt'[h] = new
    BY <1>1, <1>4, <1>5, DestroyedType
  <2>3. TypeOK'
    BY <1>1, <1>3, <2>1, <2>2 DEF TypeOK, Goto
  <2>4. \A s \in Slot : slot[s] # h
    BY <1>1, <1>5 DEF Owned
  <2>5. \A g \in Handle \ {h} : stmt'[g] = IF slot["res"] = g THEN Free ELSE stmt[g]
    BY <1>5 DEF Destroyed
  <2>6. \A g \in Handle : stmt'[g] # Free <=> \E s \in Slot : slot'[s] = g
    <3>1. ASSUME NEW g \in Handle \ {h}
          PROVE  stmt'[g] # Free <=> \E s \in Slot : slot'[s] = g
      BY <1>1, <1>5, <2>5 DEF Owned, TypeOK, Slot
    <3> QED BY <1>4, <2>1, <2>2, <3>1 DEF Slot
  <2>7. \A s, t \in Slot : slot'[s] = slot'[t] /\ slot'[s] \in Handle => s = t
    BY <1>1, <1>5, <2>4 DEF Owned, TypeOK
  <2>8. Owned'
    BY <1>3, <2>6, <2>7, NoneIsNone DEF Owned
  <2> QED BY <2>1, <2>2, <2>3, <2>8
<1>6. ASSUME stmt' = Destroyed({"res"}), slot' = [slot EXCEPT !["res"] = "error"]
      PROVE  TypeOK' /\ Owned' /\ slot'["res"] = "error"
  <2>1. slot' \in [Slot -> Handle \cup Empty] /\ slot'["res"] = "error" /\ "error" \notin Handle
    BY <1>1, <1>6, HandleAssumption DEF TypeOK, Slot, Empty
  <2>2. TypeOK'
    BY <1>1, <1>3, <1>6, <2>1, DestroyedType DEF TypeOK, Goto
  <2>3. \A g \in Handle : stmt'[g] = IF slot["res"] = g THEN Free ELSE stmt[g]
    BY <1>6 DEF Destroyed
  <2>4. \A g \in Handle : stmt'[g] # Free <=> \E s \in Slot : slot'[s] = g
    BY <1>1, <1>6, <2>1, <2>3 DEF Owned, TypeOK, Slot
  <2>5. \A s, t \in Slot : slot'[s] = slot'[t] /\ slot'[s] \in Handle => s = t
    BY <1>1, <1>6, <2>1 DEF Owned, TypeOK
  <2>6. Owned'
    BY <1>3, <2>4, <2>5, NoneIsNone DEF Owned
  <2> QED BY <2>1, <2>2, <2>6
<1>7. /\ TypeOK' /\ Owned'
      /\ slot'["res"] = "error" \/ Has("res", {"ready"})'
      /\ slot'["res"] \in Handle => stmt'[slot'["res"]].sql = Op[2]
  <2>1. "error" \notin Handle
    BY HandleAssumption
  <2>2. ASSUME NEW h \in Handle, slot'["res"] = h, stmt'[h] = new
        PROVE  /\ Has("res", {"ready"})'
               /\ stmt'[slot'["res"]].sql = Op[2]
    BY <2>2 DEF Has
  <2> HIDE DEF new
  <2>3. \/ \E h \in Handle : /\ stmt[h] = Free
                             /\ stmt' = [Destroyed({"res"}) EXCEPT ![h] = new]
                             /\ slot' = [slot EXCEPT !["res"] = h]
        \/ stmt' = Destroyed({"res"}) /\ slot' = [slot EXCEPT !["res"] = "error"]
    BY DEF Prepare, new
  <2> QED BY <1>5, <1>6, <2>1, <2>2, <2>3
<1>8. Connected'
  BY <1>1, StillOpen
<1>9. Ready'
  BY <1>3, <1>7 DEF Ready, Found
<1>10. Gathered'
  <2> SUFFICES ASSUME call = "GetAllMessages" PROVE Gathered'
    BY <1>1 DEF Gathered, Goto
  <2>1. pc' = pc + 1 /\ \/ pc = 1 /\ Op[2] = "CLEAR"
                        \/ pc = 5 /\ Op[2] = "INSERT_INTO_INTERVALS"
                        \/ pc = 14 /\ Op[2] = "GET_MSGS"
    BY <1>1, SearchPlace DEF Goto
  <2>2. CASE pc = 1
    BY <1>1, <1>7, <2>1, <2>2 DEF Gathered, Is
  <2>3. CASE pc = 5
    BY <1>1, <1>7, <2>1, <2>3 DEF Gathered, Is, NoRows
  <2>4. CASE pc = 14
    BY <1>1, <1>7, <2>1, <2>4 DEF Gathered, Is, Rows, Elements
  <2> QED BY <2>1, <2>2, <2>3, <2>4
<1> QED BY <1>7, <1>8, <1>9, <1>10 DEF IInv

LEMMA CheckStep == ASSUME IInv, Check PROVE IInv'
<1>1. /\ TypeOK /\ Owned /\ Connected /\ Ready /\ Gathered /\ call \in Function
      /\ Op[1] \in {"check", "expect"}
  BY DEF IInv, Check, Does
<1>2. conn = "open" /\ closes = 0
  BY <1>1, Open
<1>3. ASSUME Return PROVE IInv'
  BY <1>1, <1>2, <1>3, ReturnStep
<1>4. ASSUME slot["res"] # "error", Goto(pc + 1),
             UNCHANGED <<conn, closes, slot, stmt, res, tables>>
      PROVE  IInv'
  <2>1. /\ call' \in Function /\ pc' \in Nat \ {0} /\ pc' <= Len(Program[call'])
        /\ Op' \in {<<"take", "s1">>, <<"take", "s2">>, <<"step", "res">>}
    BY <1>1, <1>4, Advance DEF After
  <2>2. TypeOK'
    BY <1>1, <1>4, <2>1 DEF TypeOK, Goto, tables
  <2>3. Owned'
    BY <1>1, <1>4, <2>1, NoneIsNone DEF Owned
  <2>4. Connected'
    BY <1>1, <1>4, StillOpen
  <2>5. Has("res", {"ready"})'
    BY <1>1, <1>4 DEF Ready, Found, Has
  <2>6. Ready'
    BY <2>1, <2>5 DEF Ready, Found
  <2>7. Gathered'
    <3> SUFFICES ASSUME call = "GetAllMessages" PROVE Gathered'
      BY <1>4 DEF Gathered, Goto
    <3>1. pc' = pc + 1 /\ (pc = 2 \/ pc = 6 \/ pc = 15)
      BY <1>1, <1>4, SearchPlace DEF Goto
    <3>2. CASE pc = 2
      BY <1>1, <1>4, <3>1, <3>2 DEF Gathered, Is, tables
    <3>3. CASE pc = 6
      BY <1>1, <1>4, <3>1, <3>3 DEF Gathered, Is, NoRows, tables
    <3>4. CASE pc = 15
      BY <1>1, <1>4, <3>1, <3>4 DEF Gathered, Is, Rows, Elements, tables
    <3> QED BY <3>1, <3>2, <3>3, <3>4
  <2> QED BY <2>2, <2>3, <2>4, <2>6, <2>7 DEF IInv
<1> QED BY <1>3, <1>4, AbortStep DEF Check

LEMMA TakeStep == ASSUME IInv, Take PROVE IInv'
<1>1. /\ TypeOK /\ Owned /\ Connected /\ Ready /\ Gathered
      /\ call \in Function /\ Op[1] = "take" /\ Goto(pc + 1) /\ slot' = Moved(Op[2])
      /\ UNCHANGED <<conn, closes, stmt, res, search, asked, todo>>
  BY DEF IInv, Take, Does, tables
<1>2. Op[2] \in {"s1", "s2"}
  BY <1>1, Place DEF Operation, Simple
<1>3. /\ call' \in Function /\ pc' \in Nat \ {0} /\ pc' <= Len(Program[call'])
      /\ Op' \in {"unset", "bind", "orBind", "step", "each", "whileRow"} \X {Op[2]}
  BY <1>1, Advance DEF After
<1>4. PICK t \in {"s1", "s2"} : t = Op[2]
  BY <1>2
<1>5. /\ slot \in [Slot -> Handle \cup Empty]
      /\ slot'[t] = slot["res"]
      /\ slot'["res"] = IF slot[t] = "absent" THEN "null" ELSE slot[t]
      /\ \A s \in Slot \ {t, "res"} : slot'[s] = slot[s]
      /\ slot' \in [Slot -> Handle \cup Empty]
  BY <1>1, <1>4 DEF Moved, TypeOK, Slot, Empty
<1>6. TypeOK'
  BY <1>1, <1>3, <1>5 DEF TypeOK, Goto
<1>7. Owned'
  <2>1. {"absent", "null"} \cap Handle = {}
    BY HandleAssumption
  <2>2. \A h \in Handle : stmt'[h] # Free <=> \E s \in Slot : slot'[s] = h
    BY <1>1, <1>5, <2>1 DEF Owned, Slot
  <2>3. \A r, s \in Slot : slot'[r] = slot'[s] /\ slot'[r] \in Handle => r = s
    BY <1>1, <1>5, <2>1 DEF Owned, Slot
  <2> QED BY <1>3, <2>2, <2>3, NoneIsNone DEF Owned
<1>8. Connected'
  BY <1>1, StillOpen
<1>9. slot'[t] \in Handle /\ stmt'[slot'[t]].state = "ready"
  BY <1>1, <1>5 DEF Ready, Found, Has
<1>10. Ready'
  BY <1>3, <1>4, <1>9 DEF Ready, Found, Has
<1>11. Gathered'
  <2> SUFFICES ASSUME call = "GetAllMessages" PROVE Gathered'
    BY <1>1 DEF Gathered, Goto
  <2>1. pc' = pc + 1 /\ <<pc, t>> \in {<<7, "s1">>, <<16, "s2">>}
    BY <1>1, <1>4, SearchPlace DEF Goto
  <2>2. CASE pc = 7
    <3>1. search' = Rows(todo)'
      BY <1>1, <2>2 DEF Gathered, Rows, NoRows
    <3> QED BY <1>1, <1>5, <2>1, <2>2, <3>1 DEF Gathered, Is
  <2>3. CASE pc = 16
    BY <1>1, <1>5, <2>1, <2>3 DEF Gathered, Is, Rows, Elements
  <2> QED BY <2>1, <2>2, <2>3
<1> QED BY <1>6, <1>7, <1>8, <1>10, <1>11 DEF IInv

LEMMA UnsetStep == ASSUME IInv, Unset PROVE IInv'
<1>1. /\ TypeOK /\ Owned /\ Connected /\ Ready /\ Gathered
      /\ call \in Function /\ Op[1] = "unset" /\ Goto(pc + 1) /\ res' \in Result
      /\ UNCHANGED <<conn, closes, slot, stmt, search, asked, todo>>
  BY DEF IInv, Unset, Does, tables
<1>2. /\ call' \in Function /\ pc' \in Nat \ {0} /\ pc' <= Len(Program[call'])
      /\ Op' = <<"orBind", Op[2]>>
  BY <1>1, Advance DEF After
<1>3. TypeOK'
  BY <1>1, <1>2 DEF TypeOK, Goto
<1>4. Owned'
  BY <1>1, <1>2, NoneIsNone DEF Owned
<1>5. Connected'
  BY <1>1, StillOpen
<1>6. Ready'
  BY <1>1, <1>2 DEF Ready, Found, Has
<1>7. Gathered'
  BY <1>1, SearchPlace DEF Gathered, Goto
<1> QED BY <1>3, <1>4, <1>5, <1>6, <1>7 DEF IInv

LEMMA BindStep == ASSUME IInv, Bind PROVE IInv'
<1>1. /\ TypeOK /\ Owned /\ Connected /\ Ready /\ Gathered
      /\ call \in Function /\ Op[1] \in {"bind", "orBind"} /\ Goto(pc + 1)
      /\ UNCHANGED <<conn, closes, slot, search, asked, todo>>
  BY DEF IInv, Bind, Does, tables
<1>2. PICK r \in {"OK", "ERROR"} :
        /\ res' = IF Op[1] = "bind" THEN r ELSE Or(res, r)
        /\ stmt' = [stmt EXCEPT ![This].bound = (r = "OK")]
  BY <1>1 DEF Bind, Does
<1>3. /\ call' \in Function /\ pc' \in Nat \ {0} /\ pc' <= Len(Program[call'])
      /\ Op' \in After(Op)
      /\ Op' \in {"orStep", "step", "okOrReturn", "whileRow"} \X {Op[2]}
  BY <1>1, Advance DEF After
<1>4. Op[2] \in Slot /\ This \in Handle /\ stmt[This].state = "ready"
  BY <1>1, Place DEF Operation, Ready, Found, Has, This
<1> DEFINE v == [stmt[This] EXCEPT !.bound = (r = "OK")]
<1>5. /\ v \in Statement \ {Free} /\ v.state = "ready" /\ v.bound = (r = "OK")
      /\ v.sql = stmt[This].sql
  <2>1. stmt[This] \in [sql : Sql, state : {"ready", "row", "done", "failed"}, bound : BOOLEAN]
    BY <1>1, <1>4 DEF TypeOK, Statement, Free
  <2> QED BY <1>4, <2>1 DEF Statement, Free
<1>6. stmt' = [stmt EXCEPT ![This] = v]
  BY <1>2, <1>4
<1> HIDE DEF v
<1>7. Owned' /\ stmt' \in [Handle -> Statement] /\ stmt'[This] = v
  BY <1>1, <1>3, <1>4, <1>5, <1>6, Rewritten DEF Goto
<1>8. TypeOK'
  BY <1>1, <1>2, <1>3, <1>7 DEF TypeOK, Goto, Or, Result
<1>9. Connected'
  BY <1>1, StillOpen
<1>10. Ready'
  <2>1. res' = "OK" => r = "OK"
    BY <1>2 DEF Or
  <2>2. slot'[Op[2]] = This
    BY <1>1 DEF This
  <2> QED BY <1>3, <1>4, <1>5, <1>7, <2>1, <2>2 DEF Ready, Found, Has
<1>11. Gathered'
  <2> SUFFICES ASSUME call = "GetAllMessages" PROVE Gathered'
    BY <1>1 DEF Gathered, Goto
  <2>1. pc' = pc + 1 /\ <<pc, Op[2]>> \in {<<9, "s1">>, <<17, "s2">>}
    BY <1>1, SearchPlace DEF Goto
  <2>2. CASE pc = 9
    BY <1>1, <1>4, <1>5, <1>7, <2>1, <2>2 DEF Gathered, Is, Rows, Elements, This
  <2>3. CASE pc = 17
    BY <1>1, <1>4, <1>5, <1>7, <2>1, <2>3 DEF Gathered, Is, Rows, Elements, This
  <2> QED BY <2>1, <2>2, <2>3
<1> QED BY <1>7, <1>8, <1>9, <1>10, <1>11 DEF IInv

\* What is left of a vector without repetitions after its first element.
LEMMA TailElements ==
  ASSUME NEW v \in Seq(Interval), v # <<>>, Distinct(v)
  PROVE  /\ Tail(v) \in Seq(Interval) /\ Distinct(Tail(v))
         /\ Head(v) \in Interval /\ Head(v) \in Elements(v)
         /\ Elements(Tail(v)) = Elements(v) \ {Head(v)}
<1>1. /\ Len(v) \in Nat \ {0} /\ DOMAIN v = 1..Len(v) /\ Head(v) = v[1] /\ v[1] \in Interval
  BY HeadTailProperties
<1>2. /\ Tail(v) \in Seq(Interval) /\ DOMAIN Tail(v) = 1..(Len(v) - 1)
      /\ \A k \in 1..(Len(v) - 1) : Tail(v)[k] = v[k + 1]
  BY <1>1, HeadTailProperties
<1>3. Distinct(Tail(v))
  BY <1>1, <1>2 DEF Distinct
<1>4. ASSUME NEW k \in 2..Len(v) PROVE v[k] \in Elements(Tail(v)) /\ v[k] # v[1]
  <2>1. k - 1 \in 1..(Len(v) - 1) /\ Tail(v)[k - 1] = v[k]
    BY <1>1, <1>2
  <2>2. v[k] \in Elements(Tail(v))
    BY <1>2, <2>1 DEF Elements
  <2>3. v[k] # v[1]
    BY <1>1 DEF Distinct
  <2> QED BY <2>2, <2>3
<1>5. ASSUME NEW k \in 1..(Len(v) - 1) PROVE Tail(v)[k] \in Elements(v) \ {v[1]}
  <2>1. k + 1 \in 1..Len(v) /\ k + 1 # 1 /\ 1 \in 1..Len(v)
    BY <1>1
  <2>2. Tail(v)[k] = v[k + 1]
    BY <1>2
  <2>3. v[k + 1] # v[1]
    BY <1>1, <2>1 DEF Distinct
  <2> QED BY <2>1, <2>2, <2>3 DEF Elements
<1>6. Elements(Tail(v)) = Elements(v) \ {v[1]}
  <2>1. Elements(Tail(v)) \subseteq Elements(v) \ {v[1]}
    BY <1>2, <1>5 DEF Elements
  <2>2. ASSUME NEW k \in 1..Len(v), v[k] # v[1] PROVE v[k] \in Elements(Tail(v))
    BY <1>1, <1>4, <2>2, k \in 2..Len(v)
  <2>3. Elements(v) \ {v[1]} \subseteq Elements(Tail(v))
    <3> SUFFICES ASSUME NEW e \in Elements(v) \ {v[1]} PROVE e \in Elements(Tail(v))
      OBVIOUS
    <3>1. PICK k \in 1..Len(v) : e = v[k]
      BY <1>1 DEF Elements
    <3> QED BY <2>2, <3>1
  <2> QED BY <2>1, <2>3
<1>7. Head(v) \in Elements(v)
  BY <1>1 DEF Elements
<1> QED BY <1>1, <1>2, <1>3, <1>6, <1>7

\* An insert moves the first interval of todo from what is missing to the table.
LEMMA InsertedRow ==
  ASSUME TypeOK, todo # <<>>, Distinct(todo), Elements(todo) \subseteq Elements(asked)
  PROVE  [Rows(todo) EXCEPT ![Head(todo)] = @ + 1] = Rows(Tail(todo))
<1>1. /\ Head(todo) \in Interval /\ Head(todo) \in Elements(todo)
      /\ Elements(Tail(todo)) = Elements(todo) \ {Head(todo)}
  BY TailElements DEF TypeOK
<1> DEFINE inserted == [Rows(todo) EXCEPT ![Head(todo)] = @ + 1]
<1>2. DOMAIN inserted = Interval
  BY DEF Rows
<1>3. \A i \in Interval : inserted[i] = Rows(Tail(todo))[i]
  BY <1>1 DEF Rows
<1>4. inserted = [i \in Interval |-> inserted[i]]
  BY <1>2
<1> HIDE DEF inserted
<1> QED BY <1>3, <1>4 DEF Rows, inserted

LEMMA StepStep == ASSUME IInv, Step PROVE IInv'
<1>1. /\ TypeOK /\ Owned /\ Connected /\ Ready /\ Gathered
      /\ call \in Function /\ Op[1] \in {"step", "orStep", "whileRow"}
      /\ UNCHANGED <<conn, closes, slot, asked, todo>>
  BY DEF IInv, Step, Does
<1>2. PICK a \in Answer(This) :
        /\ stmt' = [stmt EXCEPT ![This].state = a[2]]
        /\ res' = IF Op[1] = "step" THEN a[1] ELSE IF Op[1] = "orStep" THEN Or(res, a[1]) ELSE res
        /\ search' = IF a[1] = "OK" THEN SearchAfter(This) ELSE search
        /\ Goto(IF Op[1] = "whileRow" /\ a[1] = "ROW" THEN pc ELSE pc + 1)
  BY <1>1 DEF Step, Does
<1>3. \/ a = <<"OK", "done">>
      \/ a = <<"ERROR", "failed">>
      \/ a = <<"ROW", "row">> /\ stmt[This].sql \in Query
  BY DEF Answer
<1>4. Op[2] \in Slot /\ This \in Handle /\ stmt[This].state \in {"ready", "row"}
  BY <1>1, Place DEF Operation, Ready, Found, Has, This
<1> DEFINE v == [stmt[This] EXCEPT !.state = a[2]]
<1>5. /\ v \in Statement \ {Free} /\ v.state = a[2] /\ v.bound = stmt[This].bound
      /\ v.sql = stmt[This].sql
  <2>1. stmt[This] \in [sql : Sql, state : {"ready", "row", "done", "failed"}, bound : BOOLEAN]
    BY <1>1, <1>4 DEF TypeOK, Statement, Free
  <2>2. a[2] \in {"row", "done", "failed"}
    BY <1>3
  <2> QED BY <2>1, <2>2 DEF Statement, Free
<1>6. stmt' = [stmt EXCEPT ![This] = v]
  BY <1>2, <1>4
<1> HIDE DEF v
<1>7. Owned' /\ stmt' \in [Handle -> Statement] /\ stmt'[This] = v
  BY <1>1, <1>2, <1>4, <1>5, <1>6, Rewritten DEF Goto
<1>8. /\ call' \in Function /\ pc' \in Nat \ {0} /\ pc' <= Len(Program[call'])
      /\ IF Op[1] = "whileRow" /\ a[1] = "ROW"
         THEN pc' = pc /\ Op' = Op
         ELSE pc' = pc + 1 /\ Op' \in After(Op) /\ (Op'[1] = "reset" => call = "GetAllMessages")
  <2>1. CASE Op[1] = "whileRow" /\ a[1] = "ROW"
    BY <1>1, <1>2, <2>1 DEF Goto, TypeOK, Op
  <2>2. CASE ~(Op[1] = "whileRow" /\ a[1] = "ROW")
    <3>1. Goto(pc + 1)
      BY <1>2, <2>2
    <3> QED BY <1>1, <2>2, <3>1, Advance DEF Goto
  <2> QED BY <2>1, <2>2
<1>9. TypeOK'
  <2>1. SearchAfter(This) \in [Interval -> Nat]
    <3>1. /\ search \in [Interval -> Nat] /\ [i \in Interval |-> 0] \in [Interval -> Nat]
          /\ [search EXCEPT ![Head(todo)] = @ + 1] \in [Interval -> Nat]
      <4>1. CASE Head(todo) \in Interval
        BY <1>1, <4>1 DEF TypeOK
      <4>2. CASE Head(todo) \notin Interval
        BY <1>1, <4>2 DEF TypeOK
      <4> QED BY <4>1, <4>2
    <3> QED BY <3>1 DEF SearchAfter
  <2>2. search' \in [Interval -> Nat] /\ res' \in Result
    BY <1>1, <1>2, <1>3, <2>1 DEF TypeOK, Or, Result
  <2> QED BY <1>1, <1>2, <1>7, <1>8, <2>2 DEF TypeOK, Goto
<1>10. Connected'
  <2>1. conn = "open" /\ closes = 0 /\ ~(call = "Constructor" /\ pc <= 2)
    BY <1>1, Open
  <2> QED BY <1>1, <1>2, <1>8, <2>1, NoneIsNone DEF Connected, Goto, TypeOK
<1>11. Ready'
  <2>1. slot'[Op[2]] = This /\ stmt'[This].state = a[2] /\ stmt'[This].bound = stmt[This].bound
    BY <1>1, <1>5, <1>7 DEF This
  <2>2. CASE Op[1] = "step"
    <3>1. Op' \in {<<"okOrAbort", Op[2]>>, <<"columnsIfRow", Op[2]>>, <<"okOrReturn", "res">>}
      BY <1>8, <2>2 DEF After
    <3>2. res' = "ROW" => a[2] = "row"
      BY <1>2, <1>3, <2>2
    <3> QED BY <1>4, <2>1, <3>1, <3>2 DEF Ready, Found, Has
  <2>3. CASE Op[1] = "orStep"
    <3>1. Op' \in {"reset", "report"} \X {Op[2]}
      BY <1>8, <2>3 DEF After
    <3>2. res' = "OK" => res = "OK" /\ a[2] = "done"
      BY <1>2, <1>3, <2>3 DEF Or
    <3>3. res = "OK" => stmt[This].bound
      BY <1>1, <2>3 DEF Ready, Found, This
    <3>4. Op'[1] = "reset" => a[2] \in {"done", "failed"}
      <4> SUFFICES ASSUME Op'[1] = "reset" PROVE a[1] # "ROW"
        BY <1>3
      <4>1. call = "GetAllMessages"
        BY <1>8, <2>3
      <4>2. pc = 10 /\ Op[2] = "s1"
        BY <1>1, <2>3, <4>1, SearchPlace
      <4>3. stmt[This].sql = "INSERT_INTO_INTERVALS"
        BY <1>1, <1>4, <4>1, <4>2 DEF Gathered, Is, This
      <4> QED BY <1>3, <4>3 DEF Query
    <3> QED BY <1>4, <2>1, <3>1, <3>2, <3>3, <3>4 DEF Ready, Found, Has
  <2>4. CASE Op[1] = "whileRow"
    <3>1. a[1] = "ROW" => Op' = Op /\ a[2] = "row"
      BY <1>3, <1>8, <2>4
    <3>2. a[1] # "ROW" => Op' \in {"return"} \X Slot
      BY <1>8, <2>4 DEF After
    <3> QED BY <1>4, <2>1, <2>4, <3>1, <3>2 DEF Ready, Found, Has
  <2> QED BY <1>1, <2>2, <2>3, <2>4
<1>12. Gathered'
  <2> SUFFICES ASSUME call = "GetAllMessages" PROVE Gathered'
    BY <1>2 DEF Gathered, Goto
  <2>1. <<pc, Op[1], Op[2]>> \in {<<3, "step", "res">>, <<10, "orStep", "s1">>, <<18, "whileRow", "s2">>}
    BY <1>1, SearchPlace
  <2>2. /\ This = slot[Op[2]] /\ stmt'[This].sql = stmt[This].sql
        /\ Distinct(asked) /\ Distinct(todo) /\ Elements(todo) \subseteq Elements(asked)
    BY <1>1, <1>5, <1>7 DEF This, Gathered
  <2>3. CASE pc = 3
    <3>1. pc' = 4 /\ Op[1] = "step" /\ stmt[This].sql = "CLEAR"
      BY <1>1, <1>4, <1>8, <2>1, <2>2, <2>3 DEF Gathered, Is
    <3>2. res' = "OK" => search' = NoRows
      BY <1>2, <3>1 DEF SearchAfter, NoRows
    <3> QED BY <1>1, <2>3, <3>1, <3>2 DEF Gathered, Distinct, Elements, NoRows
  <2>4. CASE pc = 10
    <3>1. pc' = 11 /\ Op[1] = "orStep" /\ Op[2] = "s1" /\ stmt[This].sql = "INSERT_INTO_INTERVALS"
      BY <1>1, <1>4, <1>8, <2>1, <2>2, <2>4 DEF Gathered, Is
    <3>2. todo # <<>> /\ search = Rows(todo)
      BY <1>1, <2>4 DEF Gathered
    <3>3. res' = "OK" => search' = Rows(Tail(todo))
      <4>1. SearchAfter(This) = [search EXCEPT ![Head(todo)] = @ + 1]
        BY <3>1 DEF SearchAfter
      <4>2. res' = "OK" => a[1] = "OK"
        BY <1>2, <3>1 DEF Or
      <4> QED BY <1>1, <1>2, <2>2, <3>2, <4>1, <4>2, InsertedRow
    <3>4. Rows(Tail(todo))' = Rows(Tail(todo))
      BY <1>1 DEF Rows, Elements
    <3>5. Is("s1", "INSERT_INTO_INTERVALS")'
      BY <1>1, <2>2, <3>1 DEF Is
    <3>6. /\ Distinct(asked)' /\ Distinct(todo)' /\ Elements(todo)' \subseteq Elements(asked)'
          /\ todo' # <<>>
      BY <1>1, <2>2, <3>2 DEF Distinct, Elements
    <3> QED BY <3>1, <3>3, <3>4, <3>5, <3>6 DEF Gathered
  <2>5. CASE pc = 18
    <3>1. pc' \in {18, 19} /\ Op[2] = "s2" /\ stmt[This].sql = "GET_MSGS"
      BY <1>1, <1>4, <1>8, <2>1, <2>2, <2>5 DEF Gathered, Is
    <3>2. search' = search
      BY <1>2, <3>1 DEF SearchAfter
    <3>3. Is("s2", "GET_MSGS")'
      BY <1>1, <2>2, <3>1 DEF Is
    <3>4. search' = Rows(<<>>)'
      BY <1>1, <2>5, <3>2 DEF Gathered, Rows, Elements
    <3>5. CASE pc' = 18
      BY <1>1, <2>2, <2>5, <3>3, <3>4, <3>5 DEF Gathered, Distinct, Elements
    <3>6. CASE pc' = 19
      BY <1>1, <2>2, <2>5, <3>6 DEF Gathered, Distinct, Elements
    <3> QED BY <3>1, <3>5, <3>6
  <2> QED BY <2>1, <2>3, <2>4, <2>5
<1> QED BY <1>7, <1>9, <1>10, <1>11, <1>12 DEF IInv

LEMMA ResetStep == ASSUME IInv, Reset PROVE IInv'
<1>1. /\ TypeOK /\ Owned /\ Connected /\ Ready /\ Gathered
      /\ call \in Function /\ Op[1] = "reset" /\ Goto(pc + 1)
      /\ stmt' = [stmt EXCEPT ![This].state = "ready"]
      /\ UNCHANGED <<conn, closes, slot, res, search, asked, todo>>
  BY DEF IInv, Reset, Does, tables
<1>2. call = "GetAllMessages" /\ pc = 11 /\ Op[2] = "s1"
  BY <1>1, Place, SearchPlace
<1>3. /\ call' \in Function /\ pc' \in Nat \ {0} /\ pc' <= Len(Program[call'])
      /\ Op' = <<"okOrReturn", Op[2]>>
  BY <1>1, Advance DEF After
<1>4. Op[2] \in Slot /\ This \in Handle /\ stmt[This].state \in {"done", "failed"}
  BY <1>1, <1>2 DEF Slot, Ready, Found, Has, This
<1> DEFINE v == [stmt[This] EXCEPT !.state = "ready"]
<1>5. v \in Statement \ {Free} /\ v.state = "ready" /\ v.sql = stmt[This].sql
  <2>1. stmt[This] \in [sql : Sql, state : {"ready", "row", "done", "failed"}, bound : BOOLEAN]
    BY <1>1, <1>4 DEF TypeOK, Statement, Free
  <2> QED BY <2>1 DEF Statement, Free
<1>6. stmt' = [stmt EXCEPT ![This] = v]
  BY <1>1, <1>4
<1> HIDE DEF v
<1>7. Owned' /\ stmt' \in [Handle -> Statement] /\ stmt'[This] = v
  BY <1>1, <1>3, <1>4, <1>5, <1>6, Rewritten DEF Goto
<1>8. TypeOK'
  BY <1>1, <1>3, <1>7 DEF TypeOK, Goto
<1>9. Connected'
  BY <1>1, StillOpen
<1>10. slot'[Op[2]] = This
  BY <1>1 DEF This
<1>11. Ready'
  BY <1>3, <1>4, <1>5, <1>7, <1>10 DEF Ready, Found, Has
<1>12. Is("s1", "INSERT_INTO_INTERVALS")'
  BY <1>1, <1>2, <1>4, <1>5, <1>7, <1>10 DEF Gathered, Is, This
<1>13. Gathered'
  BY <1>1, <1>2, <1>12 DEF Gathered, Goto, Distinct, Rows, Elements
<1> QED BY <1>7, <1>8, <1>9, <1>11, <1>13 DEF IInv

LEMMA ColumnsStep == ASSUME IInv, Columns PROVE IInv'
<1>1. /\ TypeOK /\ Owned /\ Connected /\ Ready /\ Gathered
      /\ call \in Function /\ Op[1] = "columnsIfRow" /\ Goto(pc + 1)
      /\ UNCHANGED <<conn, closes, slot, stmt, res, search, asked, todo>>
  BY DEF IInv, Columns, Does, tables
<1>2. /\ call' \in Function /\ pc' \in Nat \ {0} /\ pc' <= Len(Program[call'])
      /\ Op' \in {"return"} \X Slot
  BY <1>1, Advance DEF After
<1>3. TypeOK'
  BY <1>1, <1>2 DEF TypeOK, Goto
<1>4. Owned'
  BY <1>1, <1>2, NoneIsNone DEF Owned
<1>5. Connected'
  BY <1>1, StillOpen
<1>6. Ready'
  BY <1>2 DEF Ready, Found
<1>7. Gathered'
  BY <1>1, SearchPlace DEF Gathered, Goto
<1> QED BY <1>3, <1>4, <1>5, <1>6, <1>7 DEF IInv

LEMMA StatusStep == ASSUME IInv, Status PROVE IInv'
<1>1. /\ TypeOK /\ Owned /\ Connected /\ Ready /\ Gathered /\ call \in Function
      /\ Op[1] \in {"okOrReturn", "okOrAbort"}
  BY DEF IInv, Status, Does
<1>2. ASSUME Op[1] = "okOrReturn", Return PROVE IInv'
  BY <1>1, <1>2, Open, ReturnStep
<1>3. ASSUME res = "OK", Goto(pc + 1), UNCHANGED <<conn, closes, slot, stmt, res, tables>>
      PROVE  IInv'
  <2>1. /\ call' \in Function /\ pc' \in Nat \ {0} /\ pc' <= Len(Program[call'])
        /\ Op' \in After(Op)
    BY <1>1, <1>3, Advance
  <2>2. TypeOK'
    BY <1>1, <1>3, <2>1 DEF TypeOK, Goto, tables
  <2>3. Owned'
    BY <1>1, <1>3, <2>1, NoneIsNone DEF Owned
  <2>4. Connected'
    <3>1. conn = "open" /\ closes = 0 /\ pc' # 1
      <4>1. ~(call = "Constructor" /\ pc = 1)
        BY <1>1, Place
      <4> QED BY <1>1, <1>3, <4>1 DEF Connected, TypeOK, Goto
    <3> QED BY <1>3, <2>1, <3>1, NoneIsNone DEF Connected
  <2>5. Ready'
    <3>1. CASE Op[1] = "okOrAbort"
      <4>1. Op'[1] \in {"prepare", "return"}
        BY <2>1, <3>1 DEF After
      <4> QED BY <4>1 DEF Ready, Found
    <3>2. CASE Op[1] = "okOrReturn" /\ Op[2] = "res"
      <4>1. Op = <<"okOrReturn", "res">>
        BY <1>1, <3>2, Place DEF Operation
      <4>2. Op'[1] = "prepare"
        BY <2>1, <4>1 DEF After
      <4> QED BY <4>2 DEF Ready, Found
    <3>3. CASE Op[1] = "okOrReturn" /\ Op[2] # "res"
      <4>1. Op' \in {"step", "again"} \X {Op[2]}
        BY <2>1, <3>3 DEF After
      <4>2. Has(Op[2], {"ready"})
        BY <1>1, <3>3 DEF Ready, Found
      <4> QED BY <1>3, <4>1, <4>2 DEF Ready, Found, Has
    <3> QED BY <1>1, <3>1, <3>2, <3>3
  <2>6. Gathered'
    <3> SUFFICES ASSUME call = "GetAllMessages" PROVE Gathered'
      BY <1>3 DEF Gathered, Goto
    <3>1. pc' = pc + 1 /\ (pc = 4 \/ pc = 12)
      BY <1>1, <1>3, SearchPlace DEF Goto
    <3>2. CASE pc = 4
      BY <1>1, <1>3, <3>1, <3>2 DEF Gathered, NoRows, Distinct, Elements, tables
    <3>3. CASE pc = 12
      <4>1. /\ search' = Rows(Tail(todo))' /\ todo' # <<>>
            /\ Is("s1", "INSERT_INTO_INTERVALS")'
        BY <1>1, <1>3, <3>3 DEF Gathered, Rows, Elements, Is, tables
      <4>2. Distinct(asked)' /\ Distinct(todo)' /\ Elements(todo)' \subseteq Elements(asked)'
        <5>1. Distinct(asked) /\ Distinct(todo) /\ Elements(todo) \subseteq Elements(asked)
          BY <1>1 DEF Gathered
        <5>2. asked' = asked /\ todo' = todo
          BY <1>3 DEF tables
        <5> QED BY <5>1, <5>2 DEF Distinct, Elements
      <4> QED BY <3>1, <3>3, <4>1, <4>2 DEF Gathered
    <3> QED BY <3>1, <3>2, <3>3
  <2> QED BY <2>2, <2>3, <2>4, <2>5, <2>6 DEF IInv
<1> QED BY <1>2, <1>3, AbortStep DEF Status, Does

LEMMA LoopStep == ASSUME IInv, Loop PROVE IInv'
<1>1. /\ TypeOK /\ Owned /\ Connected /\ Ready /\ Gathered
      /\ call \in Function /\ Op[1] \in {"each", "again"} /\ call' = call
      /\ UNCHANGED <<conn, closes, slot, stmt, res, search, asked>>
  BY DEF IInv, Loop, Does, Goto
<1>2. /\ call = "GetAllMessages" /\ pc \in {8, 13} /\ Op[2] = "s1" /\ Has("s1", {"ready"})
      /\ (pc = 8 <=> Op[1] = "each")
  BY <1>1, Place, SearchPlace DEF Ready, Found
<1>3. /\ Len(Program[call]) = 19 /\ Program[call][8] = <<"each", "s1">>
      /\ Program[call][9] = <<"orBind", "s1">> /\ Program[call][14] = <<"prepare", "GET_MSGS">>
  <2>1. Program[call] = GetAllMessages
    BY <1>1, <1>2, ProgramShape
  <2>2. /\ GetAllMessages[8] = <<"each", "s1">> /\ GetAllMessages[9] = <<"orBind", "s1">>
        /\ GetAllMessages[14] = <<"prepare", "GET_MSGS">>
    BY DEF GetAllMessages
  <2> QED BY <2>1, <2>2, SearchText
<1>4. /\ Distinct(asked) /\ Distinct(todo) /\ Elements(todo) \subseteq Elements(asked)
      /\ Is("s1", "INSERT_INTO_INTERVALS")
      /\ pc = 8 => search = Rows(todo)
      /\ pc = 13 => todo # <<>> /\ search = Rows(Tail(todo))
  BY <1>1, <1>2 DEF Gathered
<1>5. /\ \/ pc' = 8 /\ Op' = <<"each", "s1">>
         \/ pc' = 9 /\ Op' = <<"orBind", "s1">>
         \/ pc' = 14 /\ Op' = <<"prepare", "GET_MSGS">>
      /\ todo' \in Seq(Interval) /\ Distinct(todo)' /\ Elements(todo)' \subseteq Elements(asked)
      /\ search' = Rows(todo)'
      /\ pc' = 14 => todo' = <<>>
      /\ pc' = 9 => todo' # <<>>
  <2>1. CASE pc = 8
    <3>1. todo' = todo /\ pc' = IF todo = <<>> THEN 14 ELSE 9
      BY <1>2, <2>1 DEF Loop, Does, Goto
    <3>2. Op' = Program[call][pc']
      BY <1>1 DEF Op
    <3>3. /\ todo' \in Seq(Interval) /\ Distinct(todo)' /\ Elements(todo)' \subseteq Elements(asked)
          /\ search' = Rows(todo)'
      <4>1. /\ Distinct(todo)' <=> Distinct(todo)
            /\ Elements(todo)' = Elements(todo)
            /\ Rows(todo)' = Rows(todo)
        BY <1>1, <3>1 DEF Distinct, Elements, Rows
      <4> QED BY <1>1, <1>4, <2>1, <3>1, <4>1 DEF TypeOK
    <3> QED BY <1>3, <3>1, <3>2, <3>3
  <2>2. CASE pc = 13
    <3>1. todo' = Tail(todo) /\ pc' = 8
      BY <1>2, <2>2 DEF Loop, Does, Goto
    <3>2. /\ Tail(todo) \in Seq(Interval) /\ Distinct(Tail(todo))
          /\ Elements(Tail(todo)) \subseteq Elements(todo)
      BY <1>1, <1>4, <2>2, TailElements DEF TypeOK
    <3>3. Op' = Program[call][pc']
      BY <1>1 DEF Op
    <3>4. /\ todo' \in Seq(Interval) /\ Distinct(todo)' /\ Elements(todo)' \subseteq Elements(asked)
          /\ search' = Rows(todo)'
      <4>1. /\ Distinct(todo)' <=> Distinct(Tail(todo))
            /\ Elements(todo)' = Elements(Tail(todo))
            /\ Rows(todo)' = Rows(Tail(todo))
        BY <1>1, <3>1 DEF Distinct, Elements, Rows
      <4> QED BY <1>1, <1>4, <2>2, <3>1, <3>2, <4>1
    <3> QED BY <1>3, <3>1, <3>3, <3>4
  <2> QED BY <1>2, <2>1, <2>2
<1>6. TypeOK'
  <2>1. pc' \in Nat \ {0} /\ pc' <= 19
    BY <1>5
  <2>2. todo' \in Seq(Interval)
    BY <1>5
  <2> QED BY <1>1, <1>3, <2>1, <2>2 DEF TypeOK
<1>7. Owned'
  BY <1>1 DEF Owned
<1>8. Connected'
  BY <1>1, <1>2, Open DEF Connected
<1>9. Ready'
  BY <1>1, <1>2, <1>5 DEF Ready, Found, Has
<1>10. Gathered'
  <2>1. Distinct(asked)' /\ Elements(todo)' \subseteq Elements(asked)'
    <3>1. (Distinct(asked)' <=> Distinct(asked)) /\ Elements(asked)' = Elements(asked)
      BY <1>1 DEF Distinct, Elements
    <3> QED BY <1>4, <1>5, <3>1
  <2>2. Is("s1", "INSERT_INTO_INTERVALS")'
    BY <1>1, <1>4 DEF Is
  <2>3. pc' = 14 => search' = Rows(<<>>)'
    BY <1>5
  <2>4. pc' \in {8, 9, 14} /\ Distinct(todo)' /\ (pc' = 9 => todo' # <<>>)
        /\ search' = Rows(todo)'
    BY <1>5
  <2>5. pc' = 8 \/ pc' = 9 => Gathered'
    BY <2>1, <2>2, <2>4 DEF Gathered
  <2>6. pc' = 14 => Gathered'
    BY <2>1, <2>3, <2>4 DEF Gathered
  <2> QED BY <2>4, <2>5, <2>6
<1> QED BY <1>6, <1>7, <1>8, <1>9, <1>10 DEF IInv

LEMMA FinishStep == ASSUME IInv, Finish PROVE IInv'
<1>1. TypeOK /\ Connected /\ call \in Function /\ Op[1] \in {"return", "report"}
  BY DEF IInv, Finish, Does
<1> QED BY <1>1, Open, ReturnStep DEF Finish

----------------------------------------------------------------------------
(* Between two functions. *)

LEMMA CallStep ==
  ASSUME IInv, NEW f \in Function \ {"Constructor"}, NEW v \in Seq(Interval), Distinct(v),
         Call(f, v)
  PROVE  IInv'
<1>1. /\ TypeOK /\ Owned /\ Connected /\ call = "none" /\ conn = "open" /\ call' = f /\ pc' = 1
      /\ asked' = v /\ todo' = v /\ UNCHANGED <<conn, closes, slot, stmt, res, search>>
  BY DEF IInv, Call
<1>2. Op'[1] = "prepare" /\ Len(Program[f]) \in Nat \ {0}
  BY <1>1, ProgramShape, ProgramOps DEF Op
<1>3. TypeOK'
  BY <1>1, <1>2 DEF TypeOK
<1>4. Owned'
  BY <1>1, NoneIsNone DEF Owned
<1>5. Connected'
  BY <1>1, NoneIsNone DEF Connected
<1>6. Ready'
  BY <1>2 DEF Ready, Found
<1>7. Gathered'
  BY <1>1 DEF Gathered, Distinct
<1> QED BY <1>3, <1>4, <1>5, <1>6, <1>7 DEF IInv

LEMMA CloseStep == ASSUME IInv, Close PROVE IInv'
<1>1. /\ TypeOK /\ Owned /\ Connected /\ call = "none" /\ conn = "open" /\ conn' = "closed"
      /\ closes' = closes + 1 /\ UNCHANGED <<call, pc, slot, stmt, res, search, asked, todo>>
  BY DEF IInv, Close, tables
<1>2. closes = 0
  BY <1>1 DEF Connected
<1>3. TypeOK'
  BY <1>1, <1>2, NoneIsNone DEF TypeOK
<1>4. Owned'
  BY <1>1 DEF Owned
<1>5. Connected'
  BY <1>1, <1>2, NoneIsNone DEF Connected
<1>6. Ready' /\ Gathered'
  BY <1>1, NoneIsNone DEF Ready, Gathered
<1> QED BY <1>3, <1>4, <1>5, <1>6 DEF IInv

\* A vector is a sequence without repetitions.
LEMMA VectorType == \A v \in Vector : v \in Seq(Interval) /\ Distinct(v)
<1> SUFFICES ASSUME NEW v \in Vector PROVE v \in Seq(Interval) /\ Distinct(v)
  OBVIOUS
<1>1. PICK k \in 0..Cardinality(Interval) :
        /\ v \in [1..k -> Interval]
        /\ \A i, j \in 1..k : v[i] = v[j] => i = j
  BY DEF Vector
<1>2. k \in Nat
  BY <1>1
<1> QED BY <1>1, <1>2 DEF Distinct

LEMMA InvStep == IInv /\ [Next]_vars => IInv'
<1> SUFFICES ASSUME IInv, [Next]_vars PROVE IInv'
  OBVIOUS
<1>1. ASSUME NEW f \in Function \ {"Constructor", "GetAllMessages"}, Call(f, <<>>) PROVE IInv'
  BY <1>1, CallStep, <<>> \in Seq(Interval), Distinct(<<>>) DEF Distinct
<1>2. ASSUME NEW v \in Vector, Call("GetAllMessages", v) PROVE IInv'
  BY <1>2, CallStep, VectorType DEF Function
<1>3. ASSUME Start PROVE IInv'
  BY <1>3, AbortStep DEF Start
<1>4. ASSUME UNCHANGED vars PROVE IInv'
  <2>1. /\ conn' = conn /\ closes' = closes /\ call' = call /\ pc' = pc /\ slot' = slot
        /\ stmt' = stmt /\ res' = res /\ search' = search /\ asked' = asked /\ todo' = todo
    BY <1>4 DEF vars, tables
  <2>2. TypeOK /\ Owned /\ Connected /\ Ready /\ Gathered
    BY DEF IInv
  <2>3. TypeOK'
    BY <2>1, <2>2 DEF TypeOK
  <2>4. Owned'
    BY <2>1, <2>2 DEF Owned
  <2>5. Connected'
    <3>1. Connected
      BY <2>2
    <3>2. call' = "none" => \/ conn' = "open" /\ closes' = 0
                            \/ conn' = "closed" /\ closes' = 1
      BY <2>1, <3>1 DEF Connected
    <3>3. call' = "Constructor" /\ pc' = 1 => conn' = "none" /\ closes' = 0
      BY <2>1, <3>1 DEF Connected
    <3>4. call' = "Constructor" /\ pc' = 2 =>
            \/ conn' = "open" /\ closes' = 0
            \/ conn' = "failed" /\ closes' = 1 /\ res' = "ERROR"
      BY <2>1, <3>1 DEF Connected
    <3>5. call' \in Function /\ ~(call' = "Constructor" /\ pc' <= 2) =>
            conn' = "open" /\ closes' = 0
      <4>1. pc \in Nat
        BY <2>2 DEF TypeOK
      <4>2. call' \in Function /\ ~(call' = "Constructor" /\ pc' <= 2) =>
              call \in Function /\ ~(call = "Constructor" /\ pc <= 2)
        BY <2>1, <4>1
      <4>3. call \in Function /\ ~(call = "Constructor" /\ pc <= 2) => conn = "open" /\ closes = 0
        BY <3>1, Zenon DEF Connected
      <4> QED BY <2>1, <4>2, <4>3, Zenon
    <3> QED BY <3>2, <3>3, <3>4, <3>5 DEF Connected
  <2>6. Ready'
    BY <2>1, <2>2 DEF Ready, Found, Has, Op
  <2>7. Gathered'
    <3>1. /\ Distinct(asked)' <=> Distinct(asked)
          /\ Distinct(todo)' <=> Distinct(todo)
          /\ Elements(asked)' = Elements(asked) /\ Elements(todo)' = Elements(todo)
      BY <2>1 DEF Distinct, Elements
    <3>2. /\ Rows(todo)' = Rows(todo) /\ Rows(Tail(todo))' = Rows(Tail(todo))
          /\ Rows(<<>>)' = Rows(<<>>)
      <4>1. Elements(todo)' = Elements(todo) /\ Elements(Tail(todo))' = Elements(Tail(todo))
            /\ Elements(<<>>)' = Elements(<<>>)
        BY <2>1 DEF Elements
      <4> QED BY <2>1, <3>1, <4>1 DEF Rows
    <3> QED BY <2>1, <2>2, <3>1, <3>2 DEF Gathered, Is
  <2> QED BY <2>3, <2>4, <2>5, <2>6, <2>7 DEF IInv
<1> QED
  BY <1>1, <1>2, <1>3, <1>4, ConnectStep, PrepareStep, CheckStep, TakeStep, UnsetStep, BindStep,
     StepStep, ResetStep, ColumnsStep, StatusStep, LoopStep, FinishStep, CloseStep DEF Next

\* What each operation of the constructor and the daos finds, whatever failed
\* before it: the invariant all the properties of the wrapper follow from.
THEOREM Invariance == Spec => []IInv
<1> QED BY InitInv, InvStep, PTL DEF Spec

----------------------------------------------------------------------------
(* What the invariant says of the wrapper. *)

\* Whatever fails in whatever order, a statement that is not finalized belongs to
\* exactly one object: ~PreparedStatement and Expected::destroy finalize no
\* handle twice, and no path through the constructor and the daos leaks one.
THEOREM EveryHandleOwned == Spec => []OneOwner
<1>1. IInv => OneOwner
  <2> SUFFICES ASSUME IInv, NEW h \in Handle
               PROVE  Cardinality({s \in Slot : slot[s] = h}) = IF stmt[h] = Free THEN 0 ELSE 1
    BY DEF OneOwner
  <2> DEFINE owners == {s \in Slot : slot[s] = h}
  <2>1. CASE stmt[h] = Free
    <3>1. owners = {}
      BY <2>1 DEF IInv, Owned
    <3> QED BY <2>1, <3>1, FS_EmptySet
  <2>2. CASE stmt[h] # Free
    <3>1. PICK s \in Slot : slot[s] = h
      BY <2>2 DEF IInv, Owned
    <3>2. owners = {s}
      BY <3>1 DEF IInv, Owned
    <3> QED BY <2>2, <3>2, FS_Singleton
  <2> QED BY <2>1, <2>2
<1> QED BY <1>1, Invariance, PTL

\* On every path of the constructor and of every dao function SQLite is called
\* only as it allows: no prepare without a connection, no bind, step, reset or
\* column on a null, finalized or wrongly placed statement.
THEOREM SqliteUsedLegally == Spec => []LegalUse
<1>1. IInv => LegalUse
  <2> SUFFICES ASSUME IInv, call \in Function PROVE LegalUse
    BY DEF LegalUse, Does
  <2>1. Found(Op) /\ TypeOK /\ Connected
    BY DEF IInv, Ready
  <2>2. Op[1] = "prepare" => conn = "open"
    BY <2>1, Open
  <2> QED BY <2>1, <2>2 DEF LegalUse, Does, Found, Has, This
<1> QED BY <1>1, Invariance, PTL

\* When getAllMessages joins the messages with the temporary table, the table
\* has the intervals of this call, each once, and no other: nothing that failed
\* or returned early in an earlier call is left in it.
THEOREM SearchIsExact == Spec => []SearchExact
<1>1. IInv => SearchExact
  <2> SUFFICES ASSUME IInv, Does("whileRow"), Op[2] = "s2"
               PROVE  search = [i \in Interval |-> Cardinality({k \in DOMAIN asked : asked[k] = i})]
    BY DEF SearchExact
  <2>1. TypeOK /\ Gathered /\ call \in Function /\ Op[1] = "whileRow"
    BY DEF IInv, Does
  <2>2. call = "GetAllMessages" /\ pc = 18
    BY <2>1, Place, SearchPlace
  <2>3. search = Rows(<<>>) /\ Distinct(asked)
    BY <2>1, <2>2 DEF Gathered
  <2>4. Elements(<<>>) = {}
    BY DEF Elements
  <2>5. ASSUME NEW i \in Interval
        PROVE  search[i] = Cardinality({k \in DOMAIN asked : asked[k] = i})
    <3> DEFINE places == {k \in DOMAIN asked : asked[k] = i}
    <3>1. CASE i \in Elements(asked)
      <4>1. PICK k \in DOMAIN asked : asked[k] = i
        BY <3>1 DEF Elements
      <4>2. places = {k}
        BY <2>3, <4>1 DEF Distinct
      <4>3. search[i] = 1
        BY <2>3, <2>4, <3>1 DEF Rows
      <4> QED BY <4>2, <4>3, FS_Singleton
    <3>2. CASE i \notin Elements(asked)
      <4>1. places = {}
        BY <3>2 DEF Elements
      <4>2. search[i] = 0
        BY <2>3, <2>4, <3>2 DEF Rows
      <4> QED BY <4>1, <4>2, FS_EmptySet
    <3> QED BY <3>1, <3>2
  <2>6. search = [i \in Interval |-> search[i]]
    BY <2>3 DEF Rows
  <2> QED BY <2>5, <2>6
<1> QED BY <1>1, Invariance, PTL

\* An insert of a dao that reports OK has bound every parameter and stored its
\* row, also in insertMessage and the inserts of SecurityDao, whose status
\* variable starts with whatever is on the stack.
THEOREM OkMeansStored == Spec => []OkMeansDone
<1>1. IInv => OkMeansDone
  <2> SUFFICES ASSUME IInv, Does("report"), res = "OK"
               PROVE  stmt[This].bound /\ stmt[This].state = "done"
    BY DEF OkMeansDone
  <2>1. Found(Op) /\ Op[1] = "report"
    BY DEF IInv, Ready, Does
  <2> QED BY <2>1 DEF Found, Has, This
<1> QED BY <1>1, Invariance, PTL

\* Between connect, which closes a connection it could not open, and ~Sqlite,
\* a connection is closed at most once, and never under a prepared statement.
THEOREM ConnectionClosedOnce == Spec => []ClosedOnce
<1>1. IInv => ClosedOnce
  <2> SUFFICES ASSUME IInv PROVE ClosedOnce
    OBVIOUS
  <2>1. closes <= 1
    BY DEF IInv, TypeOK
  <2>2. ASSUME conn = "closed" PROVE stmt = NoHandles
    <3>1. slot = NoObjects
      BY <2>2 DEF IInv, TypeOK, Owned, Connected
    <3>2. \A h \in Handle : stmt[h] = Free
      BY <3>1, NoObjectsType DEF IInv, Owned
    <3> QED BY <3>2 DEF IInv, TypeOK, NoHandles
  <2> QED BY <2>1, <2>2 DEF ClosedOnce
<1> QED BY <1>1, Invariance, PTL

=============================================================================
