--------------------------- MODULE LogCrdtProofs ---------------------------
(***************************************************************************)
(* What TLAPS proves about LogCrdt, for every set of replicas and links,   *)
(* every bound, and every regime (pulls that overlap, updates merged       *)
(* twice, keys renewed at a start, statements that fail).                  *)
(*                                                                         *)
(* The inductive invariant is IInv: a message is only ever held if it is   *)
(* in its author's own table.  That is what makes LamportIdentifiesMessage *)
(* follow: the author's own table gives each lamport to one message, and   *)
(* it only grows, so two messages held anywhere are compared there.        *)
(***************************************************************************)
EXTENDS LogCrdt, FiniteSetTheorems, TLAPS

\* The message m is in its author's own table.
Published(m) == \E r \in messages[m.author] : r.msg = m

StoredPublished == \A n \in Node : \A r \in messages[n] : Published(r.msg)
InFlightPublished ==
  \A l \in Link : \A r \in Carried(pull[l].update) : Published(r.msg)
OwnContiguous ==
  \A n \in Node : \A k \in Lamports(messages[n], n) : 1..k \subseteq Lamports(messages[n], n)
OwnDistinct ==
  \A n \in Node : \A r, q \in RowsOf(messages[n], n) :
    r.msg.lamport = q.msg.lamport => r.msg = q.msg

IInv == TypeOK /\ StoredPublished /\ InFlightPublished /\ OwnContiguous /\ OwnDistinct

----------------------------------------------------------------------------
(* The table. *)

\* Insert takes no row away (there is no DELETE and no UPDATE).
LEMMA InsertKeeps ==
  ASSUME NEW table, NEW batch
  PROVE  table \subseteq Insert(table, batch)
BY DEF Insert

\* Insert adds no message the batch does not hold.
LEMMA InsertMessages ==
  ASSUME NEW table, NEW batch, NEW r \in Insert(table, batch)
  PROVE  r \in table \/ \E q \in batch : r.msg = q.msg
BY DEF Insert

\* A message the table does not hold yet is stored as one row.
LEMMA InsertNew ==
  ASSUME NEW table, NEW m, \A r \in table : r.msg # m
  PROVE  Insert(table, {[msg |-> m, copy |-> 1]}) = table \cup {[msg |-> m, copy |-> 1]}
<1> DEFINE row == [msg |-> m, copy |-> 1]
<1>1. Copies(table, m) = 0
  <2>1. {r \in table : r.msg = m} = {}
    OBVIOUS
  <2> QED BY <2>1, FS_EmptySet DEF Copies
<1>2. Copies({row}, m) = 1
  <2>1. {r \in {row} : r.msg = m} = {row}
    OBVIOUS
  <2> QED BY <2>1, FS_Singleton DEF Copies
<1>3. {r.msg : r \in {row}} = {m}
  OBVIOUS
<1>4. {[msg |-> m, copy |-> c] : c \in 0 + 1 .. 0 + 1} = {row}
  <2>1. 0 + 1 .. 0 + 1 = {1}
    OBVIOUS
  <2> QED BY <2>1
<1> QED BY <1>1, <1>2, <1>3, <1>4 DEF Insert

\* A header is made of proper intervals, each with its shift.
LEMMA HeadersType ==
  ASSUME NEW table \in SUBSET Row
  PROVE  GetHeaders(table) \in [Node -> SUBSET Interval]
<1> SUFFICES ASSUME NEW a \in Node, NEW i \in GetHeaders(table)[a]
             PROVE  i \in Interval
  BY DEF GetHeaders
<1> DEFINE shift(p) == p[1] - p[2]
           numbered == Numbered(table, a)
<1>1. ASSUME NEW x \in numbered PROVE x[1] \in Lamport /\ x[2] \in Int
  <2> DEFINE lo(l) == Cardinality({r \in RowsOf(table, a) : r.msg.lamport < l}) + 1
             hi(l) == Cardinality({r \in RowsOf(table, a) : r.msg.lamport <= l})
  <2>3. PICK l \in Lamports(table, a) : x \in {<<l, k>> : k \in lo(l) .. hi(l)}
    BY <1>1 DEF Numbered
  <2>4. PICK k \in lo(l) .. hi(l) : x = <<l, k>>
    BY <2>3
  <2>1. k \in Int
    <3> HIDE DEF lo, hi
    <3> QED BY <2>4
  <2>2. l \in Lamport
    BY DEF Lamports, RowsOf, Row, Message
  <2> QED BY <2>4, <2>1, <2>2
<1>2. PICK p \in numbered, q \in numbered :
        /\ \A x \in numbered : shift(x) = shift(p) => p[1] <= x[1] /\ x[1] <= q[1]
        /\ shift(p) = shift(q)
        /\ i = [shift |-> shift(p), start |-> p[1], len |-> q[1] - p[1] + 1]
  BY DEF GetHeaders
<1>3. p[1] <= q[1]
  BY <1>2
<1>4. /\ p[1] \in 1..MaxLamport /\ q[1] \in 1..MaxLamport
      /\ p[2] \in Int
  BY <1>1 DEF Lamport
<1>5. q[1] - p[1] + 1 \in 1..MaxLamport
  BY <1>3, <1>4, BoundAssumption
<1> QED BY <1>2, <1>4, <1>5 DEF Interval, Lamport

\* So is the part of a header that is read before a step fails.
LEMMA HeadersReadType ==
  ASSUME NEW table \in SUBSET Row, NEW header \in HeadersRead(table)
  PROVE  header \in [Node -> SUBSET Interval]
<1>1. GetHeaders(table) \in [Node -> SUBSET Interval]
  BY HeadersType
<1>2. ASSUME NEW s, NEW A
      PROVE  Before(GetHeaders(table), s, A) \in [Node -> SUBSET Interval]
  BY <1>1 DEF Before
<1>3. header = GetHeaders(table) \/ \E s, A : header = Before(GetHeaders(table), s, A)
  BY DEF HeadersRead
<1> QED BY <1>1, <1>2, <1>3

----------------------------------------------------------------------------
(* Type correctness. *)

LEMMA LinkType ==
  ASSUME NEW l \in Link
  PROVE  l[1] \in Node /\ l[2] \in Node
BY LinkAssumption

LEMMA IdleType == Idle \in Session
<1>1. /\ NoHeader \in [Node -> SUBSET Interval] /\ NoRequest \in [Node -> SUBSET Lamport]
      /\ NoUpdate \in [Node -> SUBSET Row]
  BY DEF NoHeader, NoRequest, NoUpdate
<1> QED BY <1>1 DEF Idle, Session

\* The rows of an update, of none, and those of them that merge accepts.
LEMMA CarriedRows ==
  ASSUME NEW update \in [Node -> SUBSET Row]
  PROVE  Carried(update) \subseteq Row
BY DEF Carried

LEMMA NothingCarried == Carried(NoUpdate) = {}
BY DEF Carried, NoUpdate

LEMMA AcceptedCarried ==
  ASSUME NEW n, NEW update
  PROVE  Accepted(n, update) \subseteq Carried(update)
BY DEF Accepted, Carried

\* The update getUpdate makes: of each author rows that were requested, and all
\* of them when no statement fails.
LEMMA UpdateMade ==
  ASSUME TypeOK, NEW l \in Link, GetUpdate(l)
  PROVE  \E update \in [Node -> SUBSET Row] :
           /\ pull' = [pull EXCEPT ![l] = [Idle EXCEPT !.phase = "update", !.update = update]]
           /\ \A a \in Node : \A r \in update[a] :
                r \in RowsOf(messages[l[2]], a) /\ r.msg.lamport \in pull[l].request[a]
           /\ Carried(update) \subseteq messages[l[2]]
<1> DEFINE requested == Requested(messages[l[2]], pull[l].request)
           made(rows) == [a \in Node |-> requested[a] \cap rows]
<1>1. PICK rows \in Part(Carried(requested)) :
        pull' = [pull EXCEPT ![l] = [Idle EXCEPT !.phase = "update", !.update = made(rows)]]
  BY DEF GetUpdate
<1>2. \A a \in Node : \A r \in made(rows)[a] :
        r \in RowsOf(messages[l[2]], a) /\ r.msg.lamport \in pull[l].request[a]
  BY DEF Requested
<1>3. \A a \in Node : made(rows)[a] \subseteq messages[l[2]]
  BY <1>2 DEF RowsOf
<1>4. made(rows) \in [Node -> SUBSET Row]
  BY <1>3, LinkType DEF TypeOK
<1>5. Carried(made(rows)) \subseteq messages[l[2]]
  BY <1>3 DEF Carried
<1> QED BY <1>1, <1>2, <1>4, <1>5

\* A restart keeps the types of what it touches.
LEMMA RebootType ==
  ASSUME TypeOK, NEW n \in Node, Reboot(n)
  PROVE  keyEpoch' \in [Node -> Epoch] /\ pull' \in [Link -> Session]
<1>1. keyEpoch' \in [Node -> Epoch]
  <2>1. CASE FreshKeys
    <3>1. keyEpoch[n] + 1 \in Epoch
      BY <2>1, BoundAssumption DEF Reboot, TypeOK, Epoch
    <3> QED BY <2>1, <3>1 DEF Reboot, TypeOK
  <2>2. CASE ~ FreshKeys
    BY <2>2 DEF Reboot, TypeOK
  <2> QED BY <2>1, <2>2
<1>2. pull' \in [Link -> Session]
  BY IdleType DEF Reboot, TypeOK
<1> QED BY <1>1, <1>2

LEMMA TypeInit == Init => TypeOK
BY IdleType, BoundAssumption DEF Init, TypeOK, Epoch

\* What one message is when it is written.
LEMMA NewMessage ==
  ASSUME TypeOK, NEW n \in Node, NEW b \in Body, NEW l \in Lamport,
         IsNextLamport(messages[n], n, l)
  PROVE  LET m == [author |-> n, lamport |-> l, body |-> b, key |-> keyEpoch[n]]
             row == [msg |-> m, copy |-> 1]
         IN /\ row \in Row
            /\ Insert(messages[n], {row}) = messages[n] \cup {row}
<1> DEFINE m == [author |-> n, lamport |-> l, body |-> b, key |-> keyEpoch[n]]
           row == [msg |-> m, copy |-> 1]
<1>1. row \in Row
  BY BoundAssumption DEF TypeOK, Row, Message
<1>2. \A r \in messages[n] : r.msg # m
  <2> SUFFICES ASSUME NEW r \in messages[n], r.msg = m PROVE FALSE
    OBVIOUS
  <2>1. l \in Lamports(messages[n], n)
    BY DEF Lamports, RowsOf
  <2>2. l < l
    BY <2>1 DEF IsNextLamport
  <2> QED BY <2>2, BoundAssumption DEF Lamport
<1>3. Insert(messages[n], {row}) = messages[n] \cup {row}
  <2> HIDE DEF m
  <2> QED BY <1>2, InsertNew
<1> QED BY <1>1, <1>3

LEMMA TypeStep == TypeOK /\ [Next]_vars => TypeOK'
<1> SUFFICES ASSUME TypeOK, [Next]_vars PROVE TypeOK'
  OBVIOUS
<1> USE DEF TypeOK
<1>1. ASSUME NEW n \in Node, NEW b \in Body, AddNewMessage(n, b) PROVE TypeOK'
  <2> DEFINE row(l) == [msg |-> [author |-> n, lamport |-> l, body |-> b,
                                 key |-> keyEpoch[n]],
                        copy |-> 1]
  <2>1. PICK l \in Lamport :
          /\ IsNextLamport(messages[n], n, l)
          /\ messages' = [messages EXCEPT ![n] = Insert(@, {row(l)})]
    BY <1>1 DEF AddNewMessage
  <2>2. row(l) \in Row /\ Insert(messages[n], {row(l)}) = messages[n] \cup {row(l)}
    BY <2>1, NewMessage
  <2>3. messages' \in [Node -> SUBSET Row]
    BY <2>1, <2>2
  <2> QED BY <1>1, <2>3 DEF AddNewMessage
<1>2. ASSUME NEW n \in Node, InstallKeys(n) PROVE TypeOK'
  <2>1. security' \in [Node -> [Node -> Epoch \cup {NoKey}]]
    BY <1>2 DEF InstallKeys
  <2>2. keyEpoch' \in [Node -> Epoch] /\ pull' \in [Link -> Session]
    BY <1>2, RebootType DEF InstallKeys
  <2> QED BY <1>2, <2>1, <2>2 DEF InstallKeys
<1>3. ASSUME NEW l \in Link, GetHeader(l) PROVE TypeOK'
  <2>1. PICK header \in HeadersRead(messages[l[2]]) :
          pull' = [pull EXCEPT ![l] = [Idle EXCEPT !.phase = "header", !.header = header]]
    BY <1>3 DEF GetHeader
  <2>2. header \in [Node -> SUBSET Interval]
    BY HeadersReadType, LinkType
  <2>3. [Idle EXCEPT !.phase = "header", !.header = header] \in Session
    BY <2>2, IdleType DEF Session
  <2> QED BY <1>3, <2>1, <2>3 DEF GetHeader
<1>4. ASSUME NEW l \in Link, GetRequest(l) PROVE TypeOK'
  <2> DEFINE request(local) == [a \in Node |-> Difference(pull[l].header[a], local[a])]
  <2>1. PICK local \in HeadersRead(messages[l[1]]) :
          pull' = [pull EXCEPT ![l] =
                     [Idle EXCEPT !.phase = "request", !.request = request(local)]]
    BY <1>4 DEF GetRequest
  <2>2. request(local) \in [Node -> SUBSET Lamport]
    BY DEF Difference, Covered
  <2>3. [Idle EXCEPT !.phase = "request", !.request = request(local)] \in Session
    BY <2>2, IdleType DEF Session
  <2> QED BY <1>4, <2>1, <2>3 DEF GetRequest
<1>5. ASSUME NEW l \in Link, GetRequestAborts(l) PROVE TypeOK'
  BY <1>5, RebootType, LinkType DEF GetRequestAborts
<1>6. ASSUME NEW l \in Link, GetUpdate(l) PROVE TypeOK'
  <2>1. PICK update \in [Node -> SUBSET Row] :
          pull' = [pull EXCEPT ![l] = [Idle EXCEPT !.phase = "update", !.update = update]]
    BY <1>6, UpdateMade
  <2>3. [Idle EXCEPT !.phase = "update", !.update = update] \in Session
    BY IdleType DEF Session
  <2> QED BY <1>6, <2>1, <2>3 DEF GetUpdate
<1>7. ASSUME NEW l \in Link, Merge(l) PROVE TypeOK'
  <2>1. messages' \in [Node -> SUBSET Row]
    BY <1>7, LinkType DEF Merge
  <2> QED BY <1>7, <2>1, IdleType DEF Merge
<1>8. ASSUME NEW l \in Link, CrashInMerge(l) PROVE TypeOK'
  <2>1. messages' \in [Node -> SUBSET Row]
    BY <1>8, LinkType DEF CrashInMerge
  <2> QED BY <1>8, <2>1, RebootType, LinkType DEF CrashInMerge
<1>9. ASSUME NEW l \in Link, Drop(l) PROVE TypeOK'
  BY <1>9, IdleType DEF Drop
<1>10. ASSUME NEW n \in Node, Restart(n) PROVE TypeOK'
  BY <1>10, RebootType DEF Restart
<1>11. CASE UNCHANGED vars
  BY <1>11 DEF vars
<1> QED
  BY <1>1, <1>2, <1>3, <1>4, <1>5, <1>6, <1>7, <1>8, <1>9, <1>10, <1>11 DEF Next

\* Every variable keeps its type: in particular a header is always made of
\* proper intervals within the lamports in use, whatever a table holds.
THEOREM TypeCorrect == Spec => []TypeOK
<1> QED BY TypeInit, TypeStep, PTL DEF Spec

----------------------------------------------------------------------------
(* Where messages come from. *)

\* What every step but AddNewMessage does to the tables: rows are only added,
\* and an added row repeats a message of an update in flight to the replica.
Learning ==
  \A n \in Node :
    /\ messages[n] \subseteq messages'[n]
    /\ \A r \in messages'[n] :
         \/ r \in messages[n]
         \/ \E l \in Link : \E q \in Carried(pull[l].update) : q.msg = r.msg

\* What every step does to the updates in flight: an update comes from a table.
Carrying ==
  \A l \in Link : \A r \in Carried(pull'[l].update) :
    \/ r \in Carried(pull[l].update)
    \/ r \in messages[l[2]]

LEMMA RebootCarries ==
  ASSUME NEW n \in Node, Reboot(n)
  PROVE  Carrying
BY NothingCarried DEF Reboot, Carrying, Idle

LEMMA WriteEffects ==
  ASSUME TypeOK, NEW n \in Node, NEW b \in Body, AddNewMessage(n, b)
  PROVE  \E m \in Message :
           /\ m.author = n
           /\ IsNextLamport(messages[n], n, m.lamport)
           /\ messages' = [messages EXCEPT ![n] = @ \cup {[msg |-> m, copy |-> 1]}]
           /\ pull' = pull
<1> DEFINE msg(l) == [author |-> n, lamport |-> l, body |-> b, key |-> keyEpoch[n]]
           row(l) == [msg |-> msg(l), copy |-> 1]
<1>1. PICK l \in Lamport :
        /\ IsNextLamport(messages[n], n, l)
        /\ messages' = [messages EXCEPT ![n] = Insert(@, {row(l)})]
        /\ pull' = pull
  BY DEF AddNewMessage
<1>2. Insert(messages[n], {row(l)}) = messages[n] \cup {row(l)}
  BY <1>1, NewMessage
<1>3. messages' = [messages EXCEPT ![n] = @ \cup {row(l)}]
  BY <1>1, <1>2 DEF TypeOK
<1>4. msg(l) \in Message
  BY DEF TypeOK, Message
<1> QED BY <1>1, <1>3, <1>4

\* The other steps write no message.
LEMMA OtherEffects ==
  ASSUME TypeOK, [Next]_vars,
         ~ \E n \in Node, b \in Body : AddNewMessage(n, b)
  PROVE  Learning /\ Carrying
<1> USE DEF TypeOK
<1>2. ASSUME NEW n \in Node, InstallKeys(n) PROVE Learning /\ Carrying
  BY <1>2, RebootCarries DEF InstallKeys, Learning, Carrying
<1>3. ASSUME NEW l \in Link, GetHeader(l) PROVE Learning /\ Carrying
  BY <1>3, NothingCarried DEF GetHeader, Idle, Learning, Carrying
<1>4. ASSUME NEW l \in Link, GetRequest(l) PROVE Learning /\ Carrying
  BY <1>4, NothingCarried DEF GetRequest, Idle, Learning, Carrying
<1>5. ASSUME NEW l \in Link, GetRequestAborts(l) PROVE Learning /\ Carrying
  BY <1>5, RebootCarries, LinkType DEF GetRequestAborts, Learning
<1>6. ASSUME NEW l \in Link, GetUpdate(l) PROVE Learning /\ Carrying
  <2>1. PICK update :
          /\ pull' = [pull EXCEPT ![l] = [Idle EXCEPT !.phase = "update", !.update = update]]
          /\ Carried(update) \subseteq messages[l[2]]
    BY <1>6, UpdateMade
  <2>2. Carrying
    BY <2>1 DEF Idle, Carrying
  <2> QED BY <1>6, <2>2 DEF GetUpdate, Learning
<1>7. ASSUME NEW l \in Link, Merge(l) PROVE Learning /\ Carrying
  <2>1. PICK S \in SUBSET Accepted(l[1], pull[l].update) :
          messages' = [messages EXCEPT ![l[1]] = Insert(messages[l[1]], S)]
    BY <1>7, LinkType DEF Merge, Part
  <2>2. Learning
    BY <2>1, LinkType, InsertKeeps, InsertMessages, AcceptedCarried DEF Learning
  <2>3. Carrying
    BY <1>7, NothingCarried DEF Merge, Idle, Carrying
  <2> QED BY <2>2, <2>3
<1>8. ASSUME NEW l \in Link, CrashInMerge(l) PROVE Learning /\ Carrying
  <2>1. PICK S \in SUBSET Accepted(l[1], pull[l].update) :
          messages' = [messages EXCEPT ![l[1]] = Insert(messages[l[1]], S)]
    BY <1>8, LinkType DEF CrashInMerge
  <2>2. Learning
    BY <2>1, LinkType, InsertKeeps, InsertMessages, AcceptedCarried DEF Learning
  <2>3. Carrying
    BY <1>8, RebootCarries, LinkType DEF CrashInMerge
  <2> QED BY <2>2, <2>3
<1>9. ASSUME NEW l \in Link, Drop(l) PROVE Learning /\ Carrying
  BY <1>9, NothingCarried DEF Drop, Idle, Learning, Carrying
<1>10. ASSUME NEW n \in Node, Restart(n) PROVE Learning /\ Carrying
  BY <1>10, RebootCarries DEF Restart, Learning
<1>11. CASE UNCHANGED vars
  BY <1>11 DEF vars, Learning, Carrying
<1> QED
  BY <1>2, <1>3, <1>4, <1>5, <1>6, <1>7, <1>8, <1>9, <1>10, <1>11 DEF Next

----------------------------------------------------------------------------
(* The invariant. *)

LEMMA InvInit == Init => IInv
<1> SUFFICES ASSUME Init PROVE IInv
  OBVIOUS
<1>1. TypeOK
  BY TypeInit
<1>2. StoredPublished /\ InFlightPublished /\ OwnContiguous /\ OwnDistinct
  BY NothingCarried DEF Init, Idle, StoredPublished, InFlightPublished, OwnContiguous, OwnDistinct,
         Lamports, RowsOf
<1> QED BY <1>1, <1>2 DEF IInv

\* A published message stays published.
LEMMA StaysPublished ==
  ASSUME NEW m \in Message, Published(m),
         \A n \in Node : messages[n] \subseteq messages'[n]
  PROVE  Published(m)'
BY DEF Published, Message

LEMMA BelowTop ==
  ASSUME NEW k \in Int, NEW j \in 1..k, j # k
  PROVE  j \in 1..(k - 1)
OBVIOUS

\* The step that writes a message keeps the invariant: its lamport is the one
\* after those of all the author's messages.
LEMMA InvWrite ==
  ASSUME IInv, NEW n \in Node, NEW b \in Body, AddNewMessage(n, b), TypeOK'
  PROVE  IInv'
<1> USE DEF IInv, TypeOK
<1>1. PICK m \in Message :
        /\ m.author = n
        /\ IsNextLamport(messages[n], n, m.lamport)
        /\ messages' = [messages EXCEPT ![n] = @ \cup {[msg |-> m, copy |-> 1]}]
        /\ pull' = pull
  BY WriteEffects
<1> DEFINE row == [msg |-> m, copy |-> 1]
<1>2. \A o \in Node : messages[o] \subseteq messages'[o]
  BY <1>1
<1>3. \A o \in Node : \A r \in messages'[o] : r \in messages[o] \/ (o = n /\ r = row)
  BY <1>1
<1>12. row \in messages'[n] /\ row.msg = m
  BY <1>1
<1>4. Published(m)'
  BY <1>12, <1>1 DEF Published
<1>5. StoredPublished'
  <2> SUFFICES ASSUME NEW o \in Node, NEW r \in messages'[o] PROVE Published(r.msg)'
    BY DEF StoredPublished
  <2>1. CASE r \in messages[o]
    BY <2>1, <1>2, StaysPublished DEF StoredPublished, Row
  <2>2. CASE r = row
    BY <2>2, <1>4
  <2> QED BY <1>3, <2>1, <2>2
<1>6. InFlightPublished'
  <2> SUFFICES ASSUME NEW l \in Link, NEW r \in Carried(pull[l].update) PROVE Published(r.msg)'
    BY <1>1 DEF InFlightPublished
  <2>1. r.msg \in Message
    <3>1. pull[l].update \in [Node -> SUBSET Row]
      BY DEF Session
    <3> QED BY <3>1, CarriedRows DEF Row
  <2> QED BY <2>1, <1>2, StaysPublished DEF InFlightPublished
<1>7. \A r \in RowsOf(messages[n], n) : r.msg.lamport < m.lamport
  BY <1>1 DEF IsNextLamport, Lamports
<1>8. OwnContiguous'
  <2> SUFFICES ASSUME NEW o \in Node, NEW k \in Lamports(messages'[o], o),
                      NEW j \in 1..k
               PROVE  j \in Lamports(messages'[o], o)
    BY DEF OwnContiguous
  <2>1. Lamports(messages[o], o) \subseteq Lamports(messages'[o], o)
    BY <1>2 DEF Lamports, RowsOf
  <2>2. CASE k \in Lamports(messages[o], o)
    BY <2>1, <2>2 DEF OwnContiguous
  <2>3. CASE o = n /\ k = m.lamport
    <3>1. m.lamport \in Lamports(messages'[n], n)
      BY <1>1, <1>12 DEF Lamports, RowsOf
    <3>2. m.lamport \in 1..MaxLamport
      BY DEF Message, Lamport
    <3>3. CASE j = m.lamport
      BY <3>1, <3>3, <2>3
    <3>4. CASE j # m.lamport
      <4>1. m.lamport - 1 \in Lamports(messages[n], n)
        BY <3>2, <3>4, <2>3, <1>1, BoundAssumption DEF IsNextLamport
      <4>2. j \in 1..(m.lamport - 1)
        <5>1. j \in 1..m.lamport /\ m.lamport \in Int
          BY <2>3, <3>2
        <5> QED BY <5>1, <3>4, BelowTop
      <4>3. 1..(m.lamport - 1) \subseteq Lamports(messages[n], n)
        BY <4>1 DEF OwnContiguous
      <4> QED BY <4>2, <4>3, <2>1, <2>3
    <3> QED BY <3>3, <3>4
  <2> QED BY <1>3, <2>2, <2>3 DEF Lamports, RowsOf
<1>9. OwnDistinct'
  <2> SUFFICES ASSUME NEW o \in Node,
                      NEW r \in RowsOf(messages'[o], o), NEW q \in RowsOf(messages'[o], o),
                      r.msg.lamport = q.msg.lamport
               PROVE  r.msg = q.msg
    BY DEF OwnDistinct
  <2>1. \A x \in RowsOf(messages'[o], o) :
          x \in RowsOf(messages[o], o) \/ (o = n /\ x = row)
    BY <1>3 DEF RowsOf
  <2>2. m.lamport \in 1..MaxLamport
    BY DEF Message, Lamport
  <2>3. ~ (m.lamport < m.lamport)
    BY <2>2, BoundAssumption
  <2> QED BY <2>1, <2>3, <1>7 DEF OwnDistinct
<1> QED BY <1>5, <1>6, <1>8, <1>9

\* So do the steps that only learn: an author learns nothing about itself.
LEMMA InvLearn ==
  ASSUME IInv, TypeOK', Learning, Carrying
  PROVE  IInv'
<1> USE DEF IInv, TypeOK
<1>1. \A n \in Node : messages[n] \subseteq messages'[n]
  BY DEF Learning
<1>2. \A n \in Node : \A r \in messages'[n] : r.msg \in Message /\ Published(r.msg)
  <2> SUFFICES ASSUME NEW n \in Node, NEW r \in messages'[n] PROVE Published(r.msg)
    BY DEF Row
  <2>1. CASE r \in messages[n]
    BY <2>1 DEF StoredPublished
  <2>2. ASSUME NEW l \in Link, NEW q \in Carried(pull[l].update), q.msg = r.msg
        PROVE  Published(r.msg)
    BY <2>2 DEF InFlightPublished
  <2> QED BY <2>1, <2>2 DEF Learning
<1>3. StoredPublished'
  BY <1>1, <1>2, StaysPublished DEF StoredPublished
<1>4. InFlightPublished'
  <2> SUFFICES ASSUME NEW l \in Link, NEW r \in Carried(pull'[l].update) PROVE Published(r.msg)'
    BY DEF InFlightPublished
  <2>1. r.msg \in Message
    <3>1. pull'[l].update \in [Node -> SUBSET Row]
      BY DEF Session
    <3> QED BY <3>1, CarriedRows DEF Row
  <2>2. Published(r.msg)
    BY LinkType DEF Carrying, InFlightPublished, StoredPublished
  <2> QED BY <1>1, <2>1, <2>2, StaysPublished
<1>5. \A n \in Node : \A r \in RowsOf(messages'[n], n) :
        \E q \in RowsOf(messages[n], n) : q.msg = r.msg
  BY <1>2 DEF Published, RowsOf
<1>6. \A n \in Node : Lamports(messages'[n], n) = Lamports(messages[n], n)
  BY <1>1, <1>5 DEF Lamports, RowsOf
<1>7. OwnContiguous'
  BY <1>6 DEF OwnContiguous
<1>8. OwnDistinct'
  <2> SUFFICES ASSUME NEW n \in Node,
                      NEW r \in RowsOf(messages'[n], n), NEW q \in RowsOf(messages'[n], n),
                      r.msg.lamport = q.msg.lamport
               PROVE  r.msg = q.msg
    BY DEF OwnDistinct
  <2>1. PICK x \in RowsOf(messages[n], n), y \in RowsOf(messages[n], n) :
          x.msg = r.msg /\ y.msg = q.msg
    BY <1>5
  <2> QED BY <2>1 DEF OwnDistinct
<1> QED BY <1>3, <1>4, <1>7, <1>8

LEMMA InvStep == IInv /\ [Next]_vars => IInv'
<1> SUFFICES ASSUME IInv, [Next]_vars PROVE IInv'
  OBVIOUS
<1>1. TypeOK /\ TypeOK'
  BY TypeStep DEF IInv
<1>2. CASE \E n \in Node, b \in Body : AddNewMessage(n, b)
  BY <1>1, <1>2, InvWrite
<1>3. CASE ~ \E n \in Node, b \in Body : AddNewMessage(n, b)
  BY <1>1, <1>3, OtherEffects, InvLearn
<1> QED BY <1>2, <1>3

LEMMA Invariance == Spec => []IInv
<1> QED BY InvInit, InvStep, PTL DEF Spec

----------------------------------------------------------------------------
(* What follows from it. *)

\* What a replica holds is published.
LEMMA HeldIsPublished ==
  ASSUME IInv, NEW n \in Node, NEW m \in Held(n)
  PROVE  m.author \in Node /\ Published(m)
<1>1. PICK r \in messages[n] \cup UNION {Carried(pull[l].update) : l \in {k \in Link : k[1] = n}} :
        r.msg = m
  BY DEF Held
<1>2. r \in Row
  BY <1>1, CarriedRows DEF IInv, TypeOK, Session
<1>3. Published(r.msg)
  BY <1>1 DEF IInv, StoredPublished, InFlightPublished
<1> QED BY <1>1, <1>2, <1>3 DEF Row, Message

\* Every message anywhere is in its author's own table, whose numbers have no
\* gap and name one message each: in every regime, with crashes inside merge,
\* updates merged twice and keys renewed.
THEOREM Provenance == Spec => []NothingInvented
<1>1. IInv => NothingInvented
  <2> SUFFICES ASSUME IInv, NEW n \in Node
               PROVE  /\ \A m \in Held(n) : \E r \in messages[m.author] : r.msg = m
                      /\ \A k \in Lamports(messages[n], n) :
                           1..k \subseteq Lamports(messages[n], n)
                      /\ \A r, q \in RowsOf(messages[n], n) :
                           r.msg.lamport = q.msg.lamport => r.msg = q.msg
    BY DEF NothingInvented
  <2>1. \A m \in Held(n) : \E r \in messages[m.author] : r.msg = m
    BY HeldIsPublished DEF Published
  <2> QED BY <2>1 DEF IInv, OwnContiguous, OwnDistinct
<1> QED BY <1>1, Invariance, PTL

\* An (author, lamport) pair names one message, at all replicas and in all
\* updates in flight: both messages are in the author's own table.
THEOREM Agreement == Spec => []LamportIdentifiesMessage
<1>1. IInv => LamportIdentifiesMessage
  <2> SUFFICES ASSUME IInv, NEW n \in Node, NEW o \in Node,
                      NEW p \in Held(n), NEW q \in Held(o),
                      p.author = q.author, p.lamport = q.lamport
               PROVE  p = q
    BY DEF LamportIdentifiesMessage
  <2>1. PICK r \in messages[p.author] : r.msg = p
    BY HeldIsPublished DEF Published
  <2>2. PICK s \in messages[p.author] : s.msg = q
    BY HeldIsPublished DEF Published
  <2>3. p.author \in Node
    BY HeldIsPublished
  <2> QED BY <2>1, <2>2, <2>3 DEF IInv, OwnDistinct, RowsOf
<1> QED BY <1>1, Invariance, PTL

----------------------------------------------------------------------------
(* The log implements the grow-only log. *)

View == [n \in Node |-> {r.msg : r \in messages[n]}]

LEMMA ViewType ==
  ASSUME TypeOK
  PROVE  View \in [Node -> SUBSET Message]
BY DEF TypeOK, View, Row

\* A step changes one table at most.
LEMMA OneTable ==
  ASSUME TypeOK, [Next]_vars
  PROVE  \/ messages' = messages
         \/ \E n \in Node : \A o \in Node \ {n} : messages'[o] = messages[o]
<1> USE DEF TypeOK
<1>1. ASSUME NEW n \in Node, NEW b \in Body, AddNewMessage(n, b)
      PROVE  \A o \in Node \ {n} : messages'[o] = messages[o]
  BY <1>1 DEF AddNewMessage
<1>2. ASSUME NEW l \in Link, Merge(l)
      PROVE  \A o \in Node \ {l[1]} : messages'[o] = messages[o]
  BY <1>2 DEF Merge
<1>3. ASSUME NEW l \in Link, CrashInMerge(l)
      PROVE  \A o \in Node \ {l[1]} : messages'[o] = messages[o]
  BY <1>3 DEF CrashInMerge
<1> QED
  BY <1>1, <1>2, <1>3, LinkType
     DEF Next, vars, InstallKeys, GetHeader, GetRequest, GetRequestAborts, GetUpdate,
         Drop, Restart

LEMMA AbstractMessage == Abstract!Message = Message
BY DEF Abstract!Message, Abstract!Lamport, Message, Lamport

LEMMA RefinesInit == Init => Abstract!Init
BY DEF Init, Abstract!Init

\* Writing is writing in the abstract log: the lamport follows the author's own.
LEMMA RefinesWrite ==
  ASSUME IInv, NEW n \in Node, NEW b \in Body, AddNewMessage(n, b)
  PROVE  Abstract!Write(n)
<1>1. TypeOK
  BY DEF IInv
<1>2. PICK m \in Message :
        /\ m.author = n
        /\ IsNextLamport(messages[n], n, m.lamport)
        /\ messages' = [messages EXCEPT ![n] = @ \cup {[msg |-> m, copy |-> 1]}]
        /\ pull' = pull
  BY <1>1, WriteEffects
<1>3. Abstract!Used(View[n], n) = Lamports(messages[n], n)
  BY DEF Abstract!Used, View, Lamports, RowsOf
<1>4. Abstract!Follows(Abstract!Used(View[n], n), m.lamport)
  BY <1>2, <1>3 DEF Abstract!Follows, IsNextLamport
<1>5. View' = [View EXCEPT ![n] = @ \cup {m}]
  <2> DEFINE row == [msg |-> m, copy |-> 1]
  <2>2. messages'[n] = messages[n] \cup {row} /\ row.msg = m
    BY <1>1, <1>2 DEF TypeOK
  <2>3. {r.msg : r \in messages'[n]} = {r.msg : r \in messages[n]} \cup {m}
    <3> HIDE DEF row
    <3> QED BY <2>2
  <2>4. \A o \in Node \ {n} : messages'[o] = messages[o]
    BY <1>1, <1>2 DEF TypeOK
  <2>1. \A o \in Node : View'[o] = [View EXCEPT ![n] = @ \cup {m}][o]
    BY <2>3, <2>4 DEF View
  <2> QED BY <2>1 DEF View
<1> QED BY <1>2, <1>4, <1>5, AbstractMessage DEF Abstract!Write, View

\* Any other step learns: what it adds to a table is published.
LEMMA RefinesLearn ==
  ASSUME IInv, IInv', Learning, NEW n \in Node,
         \A o \in Node \ {n} : messages'[o] = messages[o]
  PROVE  Abstract!Learn(n)
<1> USE DEF IInv
<1> DEFINE S == {r.msg : r \in messages'[n]}
<1>1. S \in SUBSET Message
  BY DEF TypeOK, Row
<1>2. ASSUME NEW m \in S PROVE m \in View[m.author]
  <2>1. PICK r \in messages'[n] : r.msg = m
    OBVIOUS
  <2>2. r.msg \in Message
    BY DEF TypeOK, Row
  <2>3. Published(r.msg)
    <3>1. CASE r \in messages[n]
      BY <3>1 DEF StoredPublished
    <3>2. ASSUME NEW l \in Link, NEW q \in Carried(pull[l].update), q.msg = r.msg
          PROVE  Published(r.msg)
      BY <3>2 DEF InFlightPublished
    <3> QED BY <3>1, <3>2 DEF Learning
  <2> QED BY <2>1, <2>2, <2>3 DEF Published, View, Message
<1>3. View' = [View EXCEPT ![n] = @ \cup S]
  <2>1. messages[n] \subseteq messages'[n]
    BY DEF Learning
  <2>2. \A o \in Node : View'[o] = [View EXCEPT ![n] = @ \cup S][o]
    BY <2>1 DEF View
  <2> QED BY <2>2 DEF View
<1> QED BY <1>1, <1>2, <1>3, AbstractMessage DEF Abstract!Learn, View

LEMMA RefinesStep ==
  ASSUME IInv, IInv', [Next]_vars
  PROVE  Abstract!Next \/ View' = View
<1>1. TypeOK
  BY DEF IInv
<1>2. CASE \E n \in Node, b \in Body : AddNewMessage(n, b)
  BY <1>2, RefinesWrite DEF Abstract!Next
<1>3. CASE ~ \E n \in Node, b \in Body : AddNewMessage(n, b)
  <2>1. Learning
    BY <1>1, <1>3, OtherEffects
  <2>2. CASE messages' = messages
    BY <2>2 DEF View
  <2>3. ASSUME NEW n \in Node, \A o \in Node \ {n} : messages'[o] = messages[o]
        PROVE  Abstract!Next
    BY <2>1, <2>3, RefinesLearn DEF Abstract!Next
  <2> QED BY <1>1, <2>2, <2>3, OneTable
<1> QED BY <1>2, <1>3

\* The tables, read as sets of messages, are a grow-only log in which authors
\* number their messages 1, 2, 3, ... and the others only learn what was written.
THEOREM Refinement == Spec => ImplementsGrowOnlyLog
<1>1. IInv /\ IInv' /\ [Next]_vars => [Abstract!Next]_View
  BY RefinesStep
<1> QED BY RefinesInit, <1>1, Invariance, PTL DEF Spec, ImplementsGrowOnlyLog, Abstract!Spec, View

----------------------------------------------------------------------------
(* What the abstract log promises, of any of its behaviours. *)

AbstractInv ==
  /\ View \in [Node -> SUBSET Message]
  /\ Abstract!OneMessagePerNumber
  /\ Abstract!NumbersTell

LEMMA AbstractFacts ==
  AbstractInv <=>
    /\ View \in [Node -> SUBSET Message]
    /\ \A n, o \in Node : \A p \in View[n], q \in View[o] :
         p.author = q.author /\ p.lamport = q.lamport => p = q
    /\ \A n \in Node : \A m \in View[n] : m \in View[m.author]
    /\ \A n \in Node : \A k \in Abstract!Used(View[n], n) :
         1..k \subseteq Abstract!Used(View[n], n)
BY DEF AbstractInv, Abstract!OneMessagePerNumber, Abstract!NumbersTell, View

LEMMA AbstractFactsNext ==
  ASSUME View' \in [Node -> SUBSET Message],
         \A n, o \in Node : \A p \in View'[n], q \in View'[o] :
           p.author = q.author /\ p.lamport = q.lamport => p = q,
         \A n \in Node : \A m \in View'[n] : m \in View'[m.author],
         \A n \in Node : \A k \in Abstract!Used(View'[n], n) :
           1..k \subseteq Abstract!Used(View'[n], n)
  PROVE  AbstractInv'
<1>1. Abstract!OneMessagePerNumber'
  BY DEF Abstract!OneMessagePerNumber, View
<1>2. Abstract!NumbersTell'
  BY DEF Abstract!NumbersTell, View, Abstract!Used
<1>3. (View \in [Node -> SUBSET Message])'
  BY DEF Message, Lamport, Epoch
<1> QED BY <1>1, <1>2, <1>3 DEF AbstractInv

\* A message an author writes has a number no other message of its has.
LEMMA WrittenIsNew ==
  ASSUME AbstractInv, NEW m \in Message, NEW o \in Node, NEW q \in View[o],
         Abstract!Follows(Abstract!Used(View[m.author], m.author), m.lamport),
         q.author = m.author
  PROVE  q.lamport # m.lamport
<1>1. q \in View[m.author]
  BY AbstractFacts
<1>2. q.lamport \in Abstract!Used(View[m.author], m.author)
  BY <1>1 DEF Abstract!Used
<1>3. q.lamport < m.lamport
  BY <1>2 DEF Abstract!Follows
<1>4. m.lamport \in Nat
  BY BoundAssumption DEF Message, Lamport
<1> QED BY <1>3, <1>4

LEMMA AbstractWrite ==
  ASSUME AbstractInv, NEW n \in Node, NEW m \in Message, m.author = n,
         Abstract!Follows(Abstract!Used(View[n], n), m.lamport),
         View' = [View EXCEPT ![n] = @ \cup {m}]
  PROVE  AbstractInv'
<1>1. View \in [Node -> SUBSET Message]
  BY DEF AbstractInv
<1>2. /\ View' \in [Node -> SUBSET Message]
      /\ View'[n] = View[n] \cup {m}
      /\ \A o \in Node : View[o] \subseteq View'[o]
      /\ \A o \in Node : \A p \in View'[o] : p \in View[o] \/ (p = m /\ o = n)
  BY <1>1
<1>3. ASSUME NEW o \in Node, NEW c \in Node, NEW p \in View'[o], NEW q \in View'[c],
             p.author = q.author, p.lamport = q.lamport
      PROVE  p = q
  <2>1. CASE p \in View[o] /\ q \in View[c]
    BY <1>3, <2>1, AbstractFacts
  <2>2. CASE p \in View[o] /\ q = m
    BY <1>3, <2>2, WrittenIsNew
  <2>3. CASE p = m /\ q \in View[c]
    BY <1>3, <2>3, WrittenIsNew
  <2> QED BY <1>2, <2>1, <2>2, <2>3
<1>4. ASSUME NEW o \in Node, NEW p \in View'[o] PROVE p \in View'[p.author]
  <2>1. CASE p \in View[o]
    <3>1. p \in Message
      BY <1>1, <2>1
    <3>2. p.author \in Node
      BY <3>1 DEF Message
    <3>3. p \in View[p.author]
      BY <2>1, AbstractFacts
    <3> QED BY <1>2, <3>2, <3>3
  <2>2. CASE p = m
    BY <1>2, <2>2
  <2> QED BY <1>2, <2>1, <2>2
<1>5. ASSUME NEW o \in Node, NEW k \in Abstract!Used(View'[o], o)
      PROVE  1..k \subseteq Abstract!Used(View'[o], o)
  <2>1. Abstract!Used(View[o], o) \subseteq Abstract!Used(View'[o], o)
    BY <1>2 DEF Abstract!Used
  <2>2. CASE k \in Abstract!Used(View[o], o)
    BY <2>1, <2>2, AbstractFacts
  <2>3. CASE k \notin Abstract!Used(View[o], o)
    <3>1. o = n /\ k = m.lamport
      BY <1>2, <2>3 DEF Abstract!Used
    <3>2. k \in Nat /\ 1 <= k
      BY <3>1, BoundAssumption DEF Message, Lamport
    <3>3. CASE k = 1
      BY <1>5, <3>3
    <3>4. CASE k # 1
      <4>1. k - 1 \in Abstract!Used(View[o], o)
        BY <3>1, <3>4 DEF Abstract!Follows
      <4>2. 1..(k - 1) \subseteq Abstract!Used(View[o], o)
        BY <4>1, AbstractFacts
      <4>3. 1..k = 1..(k - 1) \cup {k}
        BY <3>2
      <4> QED BY <1>5, <2>1, <4>2, <4>3
    <3> QED BY <3>3, <3>4
  <2> QED BY <2>2, <2>3
<1>6. View' \in [Node -> SUBSET Message]
  BY <1>2
<1>7. \A o, c \in Node : \A p \in View'[o], q \in View'[c] :
         p.author = q.author /\ p.lamport = q.lamport => p = q
  BY <1>3
<1>8. \A o \in Node : \A p \in View'[o] : p \in View'[p.author]
  BY <1>4
<1>9. \A o \in Node : \A k \in Abstract!Used(View'[o], o) :
         1..k \subseteq Abstract!Used(View'[o], o)
  BY <1>5
<1> QED BY <1>6, <1>7, <1>8, <1>9, AbstractFactsNext

LEMMA AbstractLearn ==
  ASSUME AbstractInv, NEW n \in Node, NEW S \in SUBSET Message,
         \A m \in S : m \in View[m.author],
         View' = [View EXCEPT ![n] = @ \cup S]
  PROVE  AbstractInv'
<1>1. View \in [Node -> SUBSET Message]
  BY DEF AbstractInv
<1>2. /\ View' \in [Node -> SUBSET Message]
      /\ \A o \in Node : View[o] \subseteq View'[o]
      /\ \A o \in Node : \A p \in View'[o] : p \in View[o] \/ p \in S
  BY <1>1
<1>3. ASSUME NEW o \in Node, NEW p \in View'[o]
      PROVE  p.author \in Node /\ p \in View[p.author]
  <2>1. p \in Message /\ p \in View[p.author]
    BY <1>1, <1>2, <1>3, AbstractFacts
  <2> QED BY <2>1 DEF Message
<1>4. ASSUME NEW o \in Node, NEW c \in Node, NEW p \in View'[o], NEW q \in View'[c],
             p.author = q.author, p.lamport = q.lamport
      PROVE  p = q
  BY <1>3, <1>4, AbstractFacts
<1>5. ASSUME NEW o \in Node, NEW p \in View'[o] PROVE p \in View'[p.author]
  BY <1>2, <1>3, <1>5
<1>6. ASSUME NEW o \in Node PROVE Abstract!Used(View'[o], o) = Abstract!Used(View[o], o)
  <2>1. \A p \in View'[o] : p.author = o => p \in View[o]
    BY <1>3
  <2>2. {x \in View'[o] : x.author = o} = {x \in View[o] : x.author = o}
    BY <1>2, <2>1
  <2> QED BY <2>2 DEF Abstract!Used
<1>7. ASSUME NEW o \in Node, NEW k \in Abstract!Used(View'[o], o)
      PROVE  1..k \subseteq Abstract!Used(View'[o], o)
  BY <1>6, <1>7, AbstractFacts
<1>8. View' \in [Node -> SUBSET Message]
  BY <1>2
<1>9. \A o, c \in Node : \A p \in View'[o], q \in View'[c] :
         p.author = q.author /\ p.lamport = q.lamport => p = q
  BY <1>4
<1>10. \A o \in Node : \A p \in View'[o] : p \in View'[p.author]
  BY <1>5
<1>11. \A o \in Node : \A k \in Abstract!Used(View'[o], o) :
         1..k \subseteq Abstract!Used(View'[o], o)
  BY <1>7
<1> QED BY <1>8, <1>9, <1>10, <1>11, AbstractFactsNext

\* The abstract log is worth implementing: whatever order its authors write in and
\* its replicas learn in, a number names one message, nothing is invented, and an
\* author leaves out no number.
THEOREM AbstractLogPromises ==
  Abstract!Spec => [](Abstract!OneMessagePerNumber /\ Abstract!NumbersTell)
<1>1. Abstract!Init => AbstractInv
  <2> SUFFICES ASSUME Abstract!Init PROVE AbstractInv
    OBVIOUS
  <2>1. View = [n \in Node |-> {}]
    BY DEF Abstract!Init, View
  <2>2. \A n \in Node : View[n] = {} /\ Abstract!Used(View[n], n) = {}
    BY <2>1 DEF Abstract!Used
  <2> QED BY <2>1, <2>2, AbstractFacts
<1>2. AbstractInv /\ [Abstract!Next]_View => AbstractInv'
  <2> SUFFICES ASSUME AbstractInv, [Abstract!Next]_View PROVE AbstractInv'
    OBVIOUS
  <2>1. ASSUME NEW n \in Node, Abstract!Write(n) PROVE AbstractInv'
    <3>1. PICK m \in Message :
            /\ m.author = n
            /\ Abstract!Follows(Abstract!Used(View[n], n), m.lamport)
            /\ View' = [View EXCEPT ![n] = @ \cup {m}]
      BY <2>1, AbstractMessage DEF Abstract!Write, View
    <3> QED BY <3>1, AbstractWrite
  <2>2. ASSUME NEW n \in Node, Abstract!Learn(n) PROVE AbstractInv'
    <3>1. PICK S \in SUBSET Message :
            /\ \A m \in S : m \in View[m.author]
            /\ View' = [View EXCEPT ![n] = @ \cup S]
      BY <2>2, AbstractMessage DEF Abstract!Learn, View
    <3> QED BY <3>1, AbstractLearn
  <2>3. CASE View' = View
    BY <2>3, AbstractFacts, AbstractFactsNext
  <2> QED BY <2>1, <2>2, <2>3 DEF Abstract!Next
<1>3. AbstractInv => Abstract!OneMessagePerNumber /\ Abstract!NumbersTell
  BY DEF AbstractInv
<1> QED BY <1>1, <1>2, <1>3, PTL DEF Abstract!Spec, View
=============================================================================
