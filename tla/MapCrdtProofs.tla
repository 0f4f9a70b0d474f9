--------------------------- MODULE MapCrdtProofs ---------------------------
(***************************************************************************)
(* What TLAPS proves about MapCrdt, for every set of replicas and keys:    *)
(* RequestsKnown for all links, and ReadsForward where values flow down    *)
(* from the writers (Forest), with callers that may merge updates again.   *)
(* Forest is a hypothesis and not an assumption of the module: with other  *)
(* links, or two pulls of a replica at once, ReadsForward is false.        *)
(***************************************************************************)
EXTENDS MapCrdt, TLAPS

LEMMA LinkType == \A l \in Link : l[1] \in Node /\ l[2] \in Node /\ l[1] # l[2]
BY NodeAssumption

LEMMA EmptyType == Empty \in [Key -> Entry] /\ Keys(Empty) = {}
BY DEF Empty, Entry, Keys, Absent

LEMMA IdleType == Idle \in Session
BY EmptyType DEF Idle, Session

LEMMA TouchedType ==
  ASSUME NEW map \in [Key -> Entry], NEW ks
  PROVE  Touched(map, ks) \in [Key -> Entry]
BY BoundAssumption DEF Touched, Entry, Value, Default

LEMMA TypeInit == Init => TypeOK
BY BoundAssumption, EmptyType, IdleType DEF Init, TypeOK

LEMMA TypeStep ==
  ASSUME TypeOK, [Next]_vars
  PROVE  TypeOK'
<1> USE DEF TypeOK
<1>1. ASSUME NEW n \in Writer, NEW k \in Key, LocalUpdate(n, k) PROVE TypeOK'
  <2>1. written[k] + 1 \in 0..MaxWrites
    BY <1>1, BoundAssumption DEF LocalUpdate
  <2> QED BY <1>1, <2>1, NodeAssumption DEF LocalUpdate, Entry, Value
<1>2. ASSUME NEW l \in Link, GetHeader(l) PROVE TypeOK'
  <2>1. [Idle EXCEPT !.phase = "header", !.keys = Keys(values[l[2]])] \in Session
    BY IdleType DEF Session, Keys
  <2> QED BY <1>2, <2>1 DEF GetHeader
<1>3. ASSUME NEW l \in Link, GetRequest(l) PROVE TypeOK'
  <2>1. [pull[l] EXCEPT !.phase = "request"] \in Session
    BY DEF Session
  <2>2. Touched(values[l[1]], pull[l].keys) \in [Key -> Entry]
    BY LinkType, TouchedType
  <2> QED BY <1>3, <2>1, <2>2 DEF GetRequest
<1>4. ASSUME NEW l \in Link, GetUpdate(l) PROVE TypeOK'
  <2> DEFINE map == Touched(values[l[2]], pull[l].keys)
             update == [k \in Key |-> IF k \in pull[l].keys THEN map[k] ELSE Absent]
  <2>1. map \in [Key -> Entry]
    BY LinkType, TouchedType
  <2>2. update \in [Key -> Entry]
    BY <2>1 DEF Entry, Absent
  <2>3. [Idle EXCEPT !.phase = "update", !.update = update] \in Session
    BY <2>2, IdleType DEF Session
  <2> QED BY <1>4, <2>1, <2>3 DEF GetUpdate
<1>5. ASSUME NEW l \in Link, Merge(l) PROVE TypeOK'
  <2>1. pull[l].update \in [Key -> Entry] /\ values[l[1]] \in [Key -> Entry]
    BY LinkType DEF Session
  <2> QED BY <1>5, <2>1, IdleType DEF Merge
<1>6. ASSUME NEW l \in Link, Drop(l) PROVE TypeOK'
  BY <1>6, IdleType DEF Drop
<1>7. CASE UNCHANGED vars
  BY <1>7 DEF vars
<1> QED BY <1>1, <1>2, <1>3, <1>4, <1>5, <1>6, <1>7 DEF Next

\* Every variable keeps its type: an entry never holds a number nobody wrote.
THEOREM TypeCorrect == Spec => []TypeOK
<1> QED BY TypeInit, TypeStep, PTL DEF Spec

----------------------------------------------------------------------------
(* What a pull holds is known at both ends. *)

\* A pull has an update only in its last phase.
UpdateLast ==
  \A l \in Link : pull[l].phase # "update" => pull[l].update = Empty

\* Once a key is asked for it is in the puller's map too.
AskedKnown ==
  \A l \in Link : pull[l].phase = "request" => pull[l].keys \subseteq Keys(values[l[1]])

Known == TypeOK /\ UpdateLast /\ AskedKnown /\ RequestsKnown

LEMMA KnownInit == Init => Known
BY TypeInit, EmptyType DEF Init, Known, UpdateLast, AskedKnown, RequestsKnown, Idle

\* A map gains keys and never loses one.
LEMMA KeysGrow ==
  ASSUME TypeOK, [Next]_vars, NEW n \in Node
  PROVE  Keys(values[n]) \subseteq Keys(values'[n])
<1> USE DEF TypeOK
<1>1. ASSUME NEW m \in Writer, NEW k \in Key, LocalUpdate(m, k)
      PROVE  Keys(values[n]) \subseteq Keys(values'[n])
  <2>1. written[k] + 1 # Absent
    BY DEF Absent
  <2> QED BY <1>1, <2>1, NodeAssumption DEF LocalUpdate, Keys
<1>2. ASSUME NEW l \in Link, GetRequest(l) PROVE Keys(values[n]) \subseteq Keys(values'[n])
  BY <1>2, LinkType DEF GetRequest, Keys, Touched, Default, Absent
<1>3. ASSUME NEW l \in Link, GetUpdate(l) PROVE Keys(values[n]) \subseteq Keys(values'[n])
  BY <1>3, LinkType DEF GetUpdate, Keys, Touched, Default, Absent
<1>4. ASSUME NEW l \in Link, Merge(l) PROVE Keys(values[n]) \subseteq Keys(values'[n])
  BY <1>4, LinkType DEF Merge, Keys
<1> QED
  BY <1>1, <1>2, <1>3, <1>4 DEF Next, vars, GetHeader, Drop

\* What a step makes of the pull l, in terms of the maps of its two ends.
PullKnown(l) ==
  /\ pull'[l].phase # "update" => pull'[l].update = Empty
  /\ pull'[l].phase = "request" => pull'[l].keys \subseteq Keys(values'[l[1]])
  /\ pull'[l].keys \subseteq Keys(values'[l[2]])
  /\ Keys(pull'[l].update) \subseteq Keys(values'[l[1]])

LEMMA SamePull ==
  ASSUME Known, [Next]_vars, NEW q \in Link, pull'[q] = pull[q]
  PROVE  PullKnown(q)
<1>1. /\ Keys(values[q[1]]) \subseteq Keys(values'[q[1]])
      /\ Keys(values[q[2]]) \subseteq Keys(values'[q[2]])
  BY LinkType, KeysGrow DEF Known
<1> QED BY <1>1 DEF PullKnown, Known, UpdateLast, AskedKnown, RequestsKnown

LEMMA IdlePull ==
  ASSUME NEW q \in Link, pull'[q] = Idle
  PROVE  PullKnown(q)
BY EmptyType DEF PullKnown, Idle

LEMMA KnownStep ==
  ASSUME Known, [Next]_vars
  PROVE  Known'
<1>1. TypeOK /\ TypeOK'
  BY TypeStep DEF Known
<1>2. ASSUME NEW q \in Link PROVE PullKnown(q)
  <2> USE DEF TypeOK
  <2>1. ASSUME NEW n \in Writer, NEW k \in Key, LocalUpdate(n, k) PROVE PullKnown(q)
    BY <2>1, SamePull DEF LocalUpdate
  <2>2. ASSUME NEW l \in Link, GetHeader(l) PROVE PullKnown(q)
    <3>1. CASE q # l
      BY <1>1, <2>2, <3>1, SamePull DEF GetHeader
    <3>2. CASE q = l
      <4>1. /\ pull'[q].phase = "header" /\ pull'[q].update = Empty
            /\ pull'[q].keys = Keys(values'[q[2]])
        BY <1>1, <2>2, <3>2 DEF GetHeader, Idle
      <4> QED BY <4>1, EmptyType DEF PullKnown
    <3> QED BY <3>1, <3>2
  <2>3. ASSUME NEW l \in Link, GetRequest(l) PROVE PullKnown(q)
    <3>1. CASE q # l
      BY <1>1, <2>3, <3>1, SamePull DEF GetRequest
    <3>2. CASE q = l
      <4>1. /\ pull'[q].phase = "request" /\ pull'[q].keys = pull[q].keys
            /\ pull'[q].update = pull[q].update
        BY <1>1, <2>3, <3>2 DEF GetRequest, Session
      <4>2. pull[q].update = Empty
        BY <2>3, <3>2 DEF GetRequest, Known, UpdateLast
      <4>3. pull[q].keys \subseteq Keys(values'[q[2]])
        BY <1>1, LinkType, KeysGrow DEF Known, RequestsKnown
      <4>4. values'[q[1]] = Touched(values[q[1]], pull[q].keys)
        BY <1>1, <2>3, <3>2, LinkType DEF GetRequest
      <4>5. pull[q].keys \subseteq Keys(values'[q[1]])
        BY <1>1, <4>4 DEF Touched, Keys, Default, Absent, Session
      <4> QED BY <4>1, <4>2, <4>3, <4>5, EmptyType DEF PullKnown
    <3> QED BY <3>1, <3>2
  <2>4. ASSUME NEW l \in Link, GetUpdate(l) PROVE PullKnown(q)
    <3>1. CASE q # l
      BY <1>1, <2>4, <3>1, SamePull DEF GetUpdate
    <3>2. CASE q = l
      <4>1. /\ pull'[q].phase = "update" /\ pull'[q].keys = {}
            /\ Keys(pull'[q].update) \subseteq pull[q].keys
        BY <1>1, <2>4, <3>2 DEF GetUpdate, Idle, Keys
      <4>2. pull[q].keys \subseteq Keys(values[q[1]])
        BY <2>4, <3>2 DEF GetUpdate, Known, AskedKnown
      <4>3. Keys(values[q[1]]) \subseteq Keys(values'[q[1]])
        BY <1>1, LinkType, KeysGrow
      <4> QED BY <4>1, <4>2, <4>3 DEF PullKnown
    <3> QED BY <3>1, <3>2
  <2>5. ASSUME NEW l \in Link, Merge(l) PROVE PullKnown(q)
    BY <1>1, <2>5, SamePull, IdlePull DEF Merge
  <2>6. ASSUME NEW l \in Link, Drop(l) PROVE PullKnown(q)
    BY <1>1, <2>6, SamePull, IdlePull DEF Drop
  <2>7. CASE UNCHANGED vars
    BY <2>7, SamePull DEF vars
  <2> QED BY <2>1, <2>2, <2>3, <2>4, <2>5, <2>6, <2>7 DEF Next
<1> QED BY <1>1, <1>2 DEF Known, UpdateLast, AskedKnown, RequestsKnown, PullKnown, Keys

\* With any links: what a pull asks for is in the peer's map, so that getUpdate
\* makes no entry, and what it brings is in the puller's.
THEOREM AsksForKnown == Spec => []RequestsKnown
<1>1. Known => RequestsKnown
  BY DEF Known
<1> QED BY KnownInit, KnownStep, <1>1, PTL DEF Spec

----------------------------------------------------------------------------
(* Where values flow down from the writers, they only go forward. *)

\* What is in flight is between what the puller has and what the peer has, and
\* nobody has a number that was not written yet.
Between ==
  \A l \in Link, k \in Key :
    /\ values[l[1]][k] <= values[l[2]][k]
    /\ pull[l].update[k] # Absent =>
         values[l[1]][k] <= pull[l].update[k] /\ pull[l].update[k] <= values[l[2]][k]
NotAhead == \A n \in Node, k \in Key : values[n][k] <= written[k]

IInv == Known /\ Between /\ NotAhead

LEMMA InvInit == Init => IInv
<1> SUFFICES ASSUME Init PROVE Between /\ NotAhead
  BY KnownInit DEF IInv
<1>1. \A n \in Node, k \in Key : values[n][k] = -1 /\ written[k] = 0
  BY DEF Init, Empty, Absent
<1>2. \A l \in Link, k \in Key : pull[l].update[k] = Absent
  BY DEF Init, Idle, Empty
<1> QED BY <1>1, <1>2, LinkType DEF Between, NotAhead

\* What a step does to the maps, given what is in flight.
LEMMA Forward ==
  ASSUME IInv, [Next]_vars
  PROVE  \A n \in Node, k \in Key : values'[n][k] >= values[n][k]
<1>1. TypeOK /\ TypeOK'
  BY TypeStep DEF IInv, Known
<1> USE DEF TypeOK
<1> TAKE m \in Node, c \in Key
<1>2. values[m][c] \in Int /\ values[m][c] >= Absent
  BY <1>1 DEF Entry, Value, Absent
<1>3. ASSUME NEW n \in Writer, NEW k \in Key, LocalUpdate(n, k)
      PROVE  values'[m][c] >= values[m][c]
  <2>1. n \in Node /\ values[n][k] <= written[k] /\ written[k] \in Int /\ values[n][k] \in Int
    BY <1>1, NodeAssumption DEF IInv, NotAhead, Entry, Value, Absent
  <2>2. values'[m][c] = IF m = n /\ c = k THEN written[k] + 1 ELSE values[m][c]
    BY <1>1, <1>3, <2>1 DEF LocalUpdate
  <2> QED BY <1>2, <2>1, <2>2
<1>4. ASSUME NEW l \in Link, GetRequest(l) PROVE values'[m][c] >= values[m][c]
  BY <1>1, <1>2, <1>4, LinkType DEF GetRequest, Touched, Default, Absent
<1>5. ASSUME NEW l \in Link, GetUpdate(l) PROVE values'[m][c] >= values[m][c]
  BY <1>1, <1>2, <1>5, LinkType DEF GetUpdate, Touched, Default, Absent
<1>6. ASSUME NEW l \in Link, Merge(l) PROVE values'[m][c] >= values[m][c]
  BY <1>1, <1>2, <1>6, LinkType DEF Merge, IInv, Between
<1>7. CASE values' = values
  BY <1>2, <1>7
<1>8. (\E l \in Link : GetHeader(l) \/ Drop(l)) \/ UNCHANGED vars => values' = values
  BY DEF GetHeader, Drop, vars
<1> QED BY <1>3, <1>4, <1>5, <1>6, <1>7, <1>8 DEF Next

LEMMA InvStep ==
  ASSUME Forest, IInv, [Next]_vars
  PROVE  IInv'
<1>1. Known /\ Known' /\ TypeOK /\ TypeOK'
  BY KnownStep DEF IInv, Known
<1> USE DEF TypeOK
<1>2. ASSUME NEW n \in Node, NEW k \in Key
      PROVE  values[n][k] \in Int /\ values'[n][k] \in Int /\ values'[n][k] >= values[n][k]
  BY <1>1, <1>2, Forward DEF Entry, Value, Absent
<1>3. ASSUME NEW q \in Link, NEW k \in Key
      PROVE  pull[q].update[k] \in Int
  BY <1>1, <1>3 DEF Session, Entry, Value, Absent
<1>4. NotAhead'
  <2> SUFFICES ASSUME NEW m \in Node, NEW c \in Key
               PROVE  values'[m][c] <= written'[c]
    BY DEF NotAhead
  <2>1. values[m][c] <= written[c] /\ written[c] \in Int
    BY <1>1 DEF IInv, NotAhead
  <2>2. CASE \E n \in Writer, k \in Key : LocalUpdate(n, k)
    BY <1>1, <1>2, <2>1, <2>2, NodeAssumption DEF LocalUpdate
  <2>3. CASE written' = written /\ values'[m][c] \in {values[m][c], Default}
    BY <1>1, <2>1, <2>3 DEF Default
  <2>4. ASSUME NEW l \in Link, Merge(l) PROVE values'[m][c] <= written'[c]
    <3>1. pull[l].update[c] # Absent => pull[l].update[c] <= values[l[2]][c]
      BY DEF IInv, Between
    <3>2. values[l[2]][c] <= written[c] /\ values[l[2]][c] \in Int
      BY <1>2, LinkType DEF IInv, NotAhead
    <3> QED BY <1>1, <1>3, <2>1, <2>4, <3>1, <3>2, LinkType DEF Merge
  <2>5. ASSUME NEW l \in Link, GetRequest(l) \/ GetUpdate(l)
        PROVE  written' = written /\ values'[m][c] \in {values[m][c], Default}
    BY <1>1, <2>5, LinkType DEF GetRequest, GetUpdate, Touched
  <2> QED BY <2>2, <2>3, <2>4, <2>5 DEF Next, vars, GetHeader, Drop
<1>5. Between'
  <2> SUFFICES ASSUME NEW q \in Link, NEW c \in Key
               PROVE  /\ values'[q[1]][c] <= values'[q[2]][c]
                      /\ pull'[q].update[c] # Absent =>
                           /\ values'[q[1]][c] <= pull'[q].update[c]
                           /\ pull'[q].update[c] <= values'[q[2]][c]
    BY DEF Between
  <2>1. /\ values[q[1]][c] <= values[q[2]][c]
        /\ pull[q].update[c] # Absent =>
             values[q[1]][c] <= pull[q].update[c] /\ pull[q].update[c] <= values[q[2]][c]
    BY DEF IInv, Between
  <2>2. /\ values[q[1]][c] \in Int /\ values[q[2]][c] \in Int
        /\ values'[q[1]][c] \in Int /\ values'[q[2]][c] \in Int
        /\ values'[q[2]][c] >= values[q[2]][c] /\ pull[q].update[c] \in Int
    BY <1>2, <1>3, LinkType
  <2>3. CASE values'[q[1]][c] = values[q[1]][c] /\ pull'[q].update[c] \in {pull[q].update[c], Absent}
    BY <2>1, <2>2, <2>3
  <2>4. ASSUME NEW n \in Writer, NEW k \in Key, LocalUpdate(n, k)
        PROVE  values'[q[1]][c] = values[q[1]][c] /\ pull'[q].update[c] = pull[q].update[c]
    BY <1>1, <2>4, LinkType DEF LocalUpdate, Forest
  <2>5. ASSUME NEW l \in Link, GetHeader(l) \/ Drop(l)
        PROVE  values'[q[1]][c] = values[q[1]][c]
                 /\ pull'[q].update[c] \in {pull[q].update[c], Absent}
    <3>1. values' = values
      BY <2>5 DEF GetHeader, Drop
    <3>2. CASE q # l
      BY <1>1, <2>5, <3>1, <3>2 DEF GetHeader, Drop
    <3>3. CASE q = l
      <4>1. pull'[q].update = Empty
        <5>1. CASE GetHeader(q)
          BY <1>1, <5>1 DEF GetHeader, Idle
        <5>2. CASE Drop(q)
          BY <1>1, <5>2 DEF Drop, Idle
        <5> QED BY <2>5, <3>3, <5>1, <5>2
      <4> QED BY <3>1, <4>1 DEF Empty
    <3> QED BY <3>2, <3>3
  <2>6. ASSUME NEW l \in Link, q # l, GetRequest(l) \/ GetUpdate(l) \/ Merge(l)
        PROVE  pull'[q].update[c] = pull[q].update[c]
    BY <1>1, <2>6 DEF GetRequest, GetUpdate, Merge
  <2>7. ASSUME NEW l \in Link, q # l, GetRequest(l) \/ Merge(l)
        PROVE  values'[q[1]][c] = values[q[1]][c]
    <3>1. q[1] # l[1]
      BY <2>7 DEF Forest
    <3> QED BY <1>1, <2>7, <3>1, LinkType DEF GetRequest, Merge
  <2>8. ASSUME GetRequest(q)
        PROVE  values'[q[1]][c] <= values'[q[2]][c] /\ pull'[q].update[c] = Absent
    <3>1. pull'[q].update = Empty
      BY <1>1, <2>8 DEF GetRequest, Known, UpdateLast, Session
    <3>2. values'[q[1]][c] \in {values[q[1]][c], 0}
      BY <1>1, <2>8, LinkType DEF GetRequest, Touched, Default
    <3>3. values'[q[1]][c] # values[q[1]][c] => c \in Keys(values[q[2]])
      BY <1>1, <2>8, LinkType DEF GetRequest, Touched, Known, RequestsKnown
    <3>4. c \in Keys(values[q[2]]) => values[q[2]][c] >= 0
      BY <1>1, LinkType DEF Keys, Entry, Value, Absent
    <3> QED BY <2>1, <2>2, <3>1, <3>2, <3>3, <3>4 DEF Empty
  <2>9. ASSUME NEW l \in Link, GetUpdate(l)
        PROVE  values' = values
    <3>1. pull[l].keys \subseteq Keys(values[l[2]])
      BY <1>1 DEF Known, RequestsKnown
    <3>2. Touched(values[l[2]], pull[l].keys) = values[l[2]]
      BY <1>1, <3>1, LinkType DEF Touched, Keys
    <3> QED BY <1>1, <2>9, <3>2, LinkType DEF GetUpdate
  <2>10. ASSUME GetUpdate(q)
         PROVE  pull'[q].update[c] \in {values'[q[2]][c], Absent}
    <3> DEFINE map == Touched(values[q[2]], pull[q].keys)
               update == [k \in Key |-> IF k \in pull[q].keys THEN map[k] ELSE Absent]
    <3>1. pull' = [pull EXCEPT ![q] = [Idle EXCEPT !.phase = "update", !.update = update]]
      BY <2>10 DEF GetUpdate
    <3>2. pull'[q].update = update
      BY <1>1, <3>1 DEF Idle
    <3>3. values'[q[2]] = map
      BY <1>1, <2>10, LinkType DEF GetUpdate
    <3> QED BY <3>2, <3>3
  <2>11. ASSUME Merge(q)
         PROVE  /\ values'[q[1]][c] = IF pull[q].update[c] = Absent
                                       THEN values[q[1]][c] ELSE pull[q].update[c]
                /\ pull'[q].update[c] \in {pull[q].update[c], Absent}
    <3>1. pull'[q] \in {pull[q], Idle}
      BY <1>1, <2>11 DEF Merge
    <3>2. pull'[q].update[c] \in {pull[q].update[c], Absent}
      BY <3>1 DEF Idle, Empty
    <3> QED BY <1>1, <2>11, <3>2, LinkType DEF Merge
  <2>12. CASE \E l \in Link : GetRequest(l)
    BY <2>3, <2>6, <2>7, <2>8, <2>12
  <2>13. CASE \E l \in Link : GetUpdate(l)
    <3>1. values' = values
      BY <2>9, <2>13
    <3>2. CASE GetUpdate(q)
      BY <2>1, <2>2, <2>10, <3>1, <3>2
    <3>3. CASE ~ GetUpdate(q)
      BY <2>3, <2>6, <2>13, <3>1, <3>3
    <3> QED BY <3>2, <3>3
  <2>14. CASE \E l \in Link : Merge(l)
    <3>1. CASE Merge(q)
      BY <2>1, <2>2, <2>11, <3>1
    <3>2. CASE ~ Merge(q)
      BY <2>3, <2>6, <2>7, <2>14, <3>2
    <3> QED BY <3>1, <3>2
  <2>15. CASE UNCHANGED vars
    BY <2>3, <2>15 DEF vars
  <2> QED BY <2>3, <2>4, <2>5, <2>12, <2>13, <2>14, <2>15 DEF Next
<1> QED BY <1>1, <1>4, <1>5 DEF IInv

\* Where every replica has one peer and one pull from it at a time, and writers
\* have none, no entry goes back to an older value, however far pulls have got,
\* whatever is lost, and however often and late an update is merged again.
THEOREM NeverBackwards ==
  ASSUME Forest
  PROVE  Spec => ReadsForward
<1>1. IInv /\ [Next]_vars => IInv'
  BY InvStep
<1>2. IInv /\ [Next]_vars =>
        [\A n \in Node, k \in Key : values'[n][k] >= values[n][k]]_vars
  BY Forward
<1> QED BY InvInit, <1>1, <1>2, PTL DEF Spec, ReadsForward
=============================================================================
