--------------------------- MODULE KeysSyncProofs ---------------------------
(***************************************************************************)
(* What TLAPS proves about KeysCrdt where only the admin's callers add     *)
(* keys, and nothing is cut short or fails: which calls of a pull may      *)
(* abort, whomever callers name as admin and whenever they do, and that a  *)
(* version stands for one table.                                           *)
(*                                                                         *)
(* The second needs more than that tables of one version are the same:     *)
(* merge keeps the rows an update lacks.  Tables are ordered as their      *)
(* versions are, at all replicas and in all updates in flight, so there    *)
(* are none.                                                               *)
(***************************************************************************)
EXTENDS KeysCrdtProofs

SyncRegime ==
  /\ ~ Crashes /\ ~ Faults
  /\ MaxVersion < Versions
  /\ Adders \subseteq {Admin}

VersionsSigned == \A n \in Node : version[n] > 0 => sign[n] # NoSign

\* What s, the pull over link l, takes for granted holds at the ends of l.
Grounded(l, s) ==
  s.phase # "idle" =>
    /\ s.author \in admins[l[2]]
    /\ s.version <= version[l[2]]
    /\ s.phase # "header" => s.author \in admins[l[1]] /\ s.version > 0
    /\ s.phase = "update" => s.sign # NoSign

PullsGrounded == \A l \in Link : Grounded(l, pull[l])

SyncInv == IInv /\ VersionsSigned /\ PullsGrounded

LEMMA IdleGrounded == \A l : Grounded(l, Idle)
BY DEF Grounded, Idle

LEMMA SyncInit == Init => SyncInv
<1> SUFFICES ASSUME Init PROVE SyncInv
  OBVIOUS
<1>1. VersionsSigned /\ PullsGrounded
  BY IdleGrounded DEF Init, VersionsSigned, PullsGrounded
<1> QED BY <1>1, InvInit DEF SyncInv

\* A signature is not the absence of one.
LEMMA SignedIsSign ==
  ASSUME NEW n, NEW t
  PROVE  Signed(n, PairsPayload(t)) # NoSign
<1>1. \A k : <<k>> # <<>>
  OBVIOUS
<1> QED BY <1>1 DEF Signed, PairsPayload, NoSign

\* Versions only rise, and nobody is taken off the admins.
LEMMA SyncGrows ==
  ASSUME SyncRegime, SyncInv, [Next]_vars, NEW n \in Node
  PROVE  /\ version[n] <= version'[n]
         /\ admins[n] \subseteq admins'[n]
<1>1. TypeOK
  BY DEF SyncInv, IInv
<1>2. version[n] \in Int /\ \A l \in Link : pull[l].version \in Int
  BY <1>1 DEF TypeOK, Session, Version
<1>3. Stays(n) \/ Adds(n) \/ Applied(n)
  BY <1>1, Storing DEF SyncRegime
<1>4. version[n] <= version'[n]
  BY <1>2, <1>3 DEF Stays, Adds, Applied
<1>5. ASSUME NEW m \in Node, NEW x \in Node, SetAdmin(m, x) PROVE admins[n] \subseteq admins'[n]
  <2>1. admins \in [Node -> SUBSET Node]
    BY <1>1 DEF TypeOK
  <2>2. admins' = [admins EXCEPT ![m] = @ \cup {x}] \/ admins' = admins
    BY <1>5 DEF SetAdmin
  <2> QED BY <2>1, <2>2
<1>6. ASSUME NEW m \in Node, NEW a \in Author, NEW k \in PubKey, AddKey(m, a, k)
      PROVE  admins' = admins
  BY <1>6 DEF AddKey
<1>7. ASSUME NEW l \in Link, GetHeader(l) \/ GetRequest(l) \/ GetUpdate(l) PROVE admins' = admins
  BY <1>7 DEF GetHeader, GetRequest, GetUpdate, stored
<1>8. ASSUME NEW l \in Link, Merge(l) \/ CrashInMerge(l) \/ Drop(l) PROVE admins' = admins
  <2>1. Merge(l) => admins' = admins
    BY DEF Merge
  <2>2. CrashInMerge(l) => admins' = admins
    BY DEF CrashInMerge
  <2>3. Drop(l) => admins' = admins
    BY DEF Drop, stored
  <2> QED BY <1>8, <2>1, <2>2, <2>3
<1>9. ASSUME NEW m \in Node, Restart(m) PROVE admins' = admins
  BY <1>9 DEF Restart, stored
<1>10. UNCHANGED vars => admins' = admins
  BY DEF vars
<1> QED BY <1>4, <1>5, <1>6, <1>7, <1>8, <1>9, <1>10 DEF Next

\* A pull that goes on as it is, or ends, stays grounded.
LEMMA KeepsGrounded ==
  ASSUME SyncRegime, SyncInv, [Next]_vars, NEW l \in Link, pull'[l] \in {pull[l], Idle}
  PROVE  Grounded(l, pull[l])'
<1>1. l[1] \in Node /\ l[2] \in Node
  BY LinkType
<1>2. CASE pull'[l] = Idle
  BY <1>2 DEF Grounded, Idle
<1>3. CASE pull'[l] = pull[l]
  <2>1. /\ version[l[2]] <= version'[l[2]]
        /\ admins[l[1]] \subseteq admins'[l[1]] /\ admins[l[2]] \subseteq admins'[l[2]]
    BY <1>1, SyncGrows
  <2>2. Grounded(l, pull[l])
    BY DEF SyncInv, PullsGrounded
  <2>3. pull[l].version \in Int /\ version[l[2]] \in Int /\ version'[l[2]] \in Int
    <3>1. TypeOK /\ TypeOK'
      BY TypeStep DEF SyncInv, IInv
    <3> QED BY <3>1, <1>1 DEF TypeOK, Session, Version
  <2> QED BY <1>3, <2>1, <2>2, <2>3 DEF Grounded
<1> QED BY <1>2, <1>3

LEMMA SetGrounds ==
  ASSUME SyncRegime, SyncInv, [Next]_vars, NEW l \in Link, Grounded(l, pull[l])',
         \A q \in Link \ {l} : pull'[q] \in {pull[q], Idle}
  PROVE  PullsGrounded'
<1> SUFFICES ASSUME NEW q \in Link PROVE Grounded(q, pull[q])'
  BY DEF PullsGrounded
<1>2. CASE q = l
  BY <1>2
<1>3. CASE q # l
  BY <1>3, KeepsGrounded
<1> QED BY <1>2, <1>3

LEMMA QuietGrounds ==
  ASSUME SyncRegime, SyncInv, [Next]_vars,
         \A q \in Link : pull'[q] \in {pull[q], Idle}
  PROVE  PullsGrounded'
BY KeepsGrounded DEF PullsGrounded

\* What a step does to the signatures: it keeps one with its version, makes one
\* or takes the one of an update.
LEMMA SignedStays ==
  ASSUME SyncRegime, SyncInv, [Next]_vars
  PROVE  VersionsSigned'
<1> SUFFICES ASSUME NEW m \in Node, version'[m] > 0 PROVE sign'[m] # NoSign
  BY DEF VersionsSigned
<1> USE DEF SyncInv, IInv, TypeOK, SyncRegime, stored
<1>1. CASE UNCHANGED <<version, sign>>
  BY <1>1 DEF VersionsSigned
<1>2. ASSUME NEW n \in Node, NEW a \in Author, NEW k \in PubKey, AddKey(n, a, k)
      PROVE  sign'[m] # NoSign
  <2>1. CASE m = n
    BY <1>2, <2>1, SignedIsSign DEF AddKey, Stop, Insert
  <2>2. CASE m # n
    BY <1>2, <2>2 DEF AddKey, VersionsSigned, Insert, Stop
  <2> QED BY <2>1, <2>2
<1>3. ASSUME NEW l \in Link, Merge(l) PROVE sign'[m] # NoSign
  <2>1. CASE UNCHANGED <<version, sign>>
    BY <2>1 DEF VersionsSigned
  <2>2. ASSUME NEW A, MergeWrites(l[1], pull[l], TRUE, TRUE, A), pull[l].phase = "update"
        PROVE  sign'[m] # NoSign
    BY <2>2 DEF MergeWrites, VersionsSigned, PullsGrounded, Grounded
  <2> QED BY <1>3, <2>1, <2>2 DEF Merge
<1> QED
  BY <1>1, <1>2, <1>3 DEF Next, vars, SetAdmin, GetHeader, GetRequest, GetUpdate,
     CrashInMerge, Drop, Restart

\* A request's peer has a version, so it has a signature.
LEMMA PeerSigned ==
  ASSUME SyncInv, NEW l \in Link, pull[l].phase = "request"
  PROVE  sign[l[2]] # NoSign
<1>1. l[2] \in Node /\ version[l[2]] \in Int /\ pull[l].version \in Int
  BY LinkType DEF SyncInv, IInv, TypeOK, Session, Version
<1>2. 0 < pull[l].version /\ pull[l].version <= version[l[2]]
  <2>1. Grounded(l, pull[l])
    BY DEF SyncInv, PullsGrounded
  <2> QED BY <2>1, <1>1 DEF Grounded
<1> QED BY <1>1, <1>2 DEF SyncInv, VersionsSigned

LEMMA GroundedStays ==
  ASSUME SyncRegime, SyncInv, [Next]_vars
  PROVE  PullsGrounded'
<1> USE DEF stored
<1>1. TypeOK
  BY DEF SyncInv, IInv
<1>2. pull \in [Link -> Session]
  BY <1>1 DEF TypeOK
<1>3. ASSUME \A q \in Link : pull'[q] \in {pull[q], Idle} PROVE PullsGrounded'
  BY <1>3, QuietGrounds
<1>4. ASSUME NEW n, Reboot(n) PROVE PullsGrounded'
  BY <1>3, <1>4 DEF Reboot
<1>5. ASSUME NEW l \in Link, NEW s, pull' = [pull EXCEPT ![l] = s]
      PROVE  pull'[l] = s /\ \A q \in Link \ {l} : pull'[q] \in {pull[q], Idle}
  BY <1>2, <1>5
<1>6. ASSUME NEW n \in Node, NEW x \in Node, SetAdmin(n, x) PROVE PullsGrounded'
  BY <1>3, <1>4, <1>6 DEF SetAdmin, Abort
<1>7. ASSUME NEW n \in Node, NEW a \in Author, NEW k \in PubKey, AddKey(n, a, k)
      PROVE  PullsGrounded'
  BY <1>3, <1>7 DEF AddKey, Stop, SyncRegime
<1>8. ASSUME NEW l \in Link, GetHeader(l) PROVE PullsGrounded'
  <2> DEFINE p == l[2]
  <2>1. ASSUME NEW x \in Node, GetsAdmin(p, x), pull' = [pull EXCEPT ![l] = Header(p, x)]
        PROVE  PullsGrounded'
    <3>1. pull'[l] = Header(p, x) /\ \A q \in Link \ {l} : pull'[q] \in {pull[q], Idle}
      BY <1>5, <2>1
    <3>2. /\ pull'[l].phase = "header" /\ pull'[l].author = x
          /\ pull'[l].version = version[p]
      BY <3>1 DEF Header, Idle
    <3>3. x \in admins[p] /\ UNCHANGED <<admins, version>>
      BY <1>8, <2>1 DEF GetsAdmin, GetHeader
    <3>4. version[p] <= version[p]
      BY <1>1, LinkType DEF TypeOK, Version
    <3>5. Grounded(l, pull[l])'
      BY <3>2, <3>3, <3>4 DEF Grounded
    <3> QED BY <3>1, <3>5, SetGrounds
  <2> QED BY <1>4, <1>8, <2>1 DEF GetHeader, Abort
<1>9. ASSUME NEW l \in Link, GetRequest(l) PROVE PullsGrounded'
  <2> DEFINE n == l[1]
             request == [pull[l] EXCEPT !.phase = "request"]
  <2>1. ASSUME GetsAdmin(n, pull[l].author), ~ (version[n] >= pull[l].version),
               pull' = [pull EXCEPT ![l] = request], UNCHANGED stored
        PROVE  PullsGrounded'
    <3>1. pull'[l] = request /\ \A q \in Link \ {l} : pull'[q] \in {pull[q], Idle}
      BY <1>5, <2>1
    <3>2. /\ pull'[l].phase = "request" /\ pull'[l].author = pull[l].author
          /\ pull'[l].version = pull[l].version
      BY <1>2, <3>1 DEF Session
    <3>3. pull[l].version > 0
      <4>1. pull[l].version \in Int /\ version[n] \in Nat
        BY <1>1, LinkType DEF TypeOK, Session, Version
      <4> QED BY <4>1, <2>1
    <3>4. Grounded(l, pull[l]) /\ pull[l].phase = "header" /\ pull[l].author \in admins[n]
      BY <1>9, <2>1 DEF GetRequest, SyncInv, PullsGrounded, GetsAdmin
    <3>5. Grounded(l, pull[l])'
      BY <2>1, <3>2, <3>3, <3>4 DEF Grounded
    <3> QED BY <3>1, <3>5, SetGrounds
  <2>2. CASE pull' = [pull EXCEPT ![l] = Idle]
    BY <1>3, <1>5, <2>2
  <2>3. CASE Reboot(n)
    BY <1>4, <2>3
  <2> QED BY <1>9, <2>1, <2>2, <2>3 DEF GetRequest, LocalHeaderAborts, Abort
<1>10. ASSUME NEW l \in Link, GetUpdate(l) PROVE PullsGrounded'
  <2> DEFINE p == l[2]
             update(t) == [phase |-> "update", author |-> pull[l].author,
                           version |-> version[p], keys |-> t, sign |-> sign[p]]
  <2>1. ASSUME NEW t, pull' = [pull EXCEPT ![l] = update(t)], UNCHANGED stored
        PROVE  PullsGrounded'
    <3>1. pull'[l] = update(t) /\ \A q \in Link \ {l} : pull'[q] \in {pull[q], Idle}
      BY <1>5, <2>1
    <3>2. Grounded(l, pull[l]) /\ pull[l].phase = "request" /\ sign[p] # NoSign
      BY <1>10, PeerSigned DEF GetUpdate, SyncInv, PullsGrounded
    <3>3. version[p] \in Int /\ pull[l].version \in Int
      BY <1>1, LinkType DEF TypeOK, Session, Version
    <3>4. version[p] <= version[p] /\ version[p] > 0
      BY <3>2, <3>3 DEF Grounded
    <3>5. Grounded(l, pull[l])'
      BY <2>1, <3>1, <3>2, <3>4 DEF Grounded
    <3> QED BY <3>1, <3>5, SetGrounds
  <2>2. CASE pull' = [k \in Link |-> IF k[1] = p \/ k = l THEN Idle ELSE pull[k]]
    BY <1>3, <2>2
  <2> HIDE DEF update
  <2> QED BY <1>10, <2>1, <2>2 DEF GetUpdate, update
<1>11. ASSUME NEW l \in Link, Merge(l) PROVE PullsGrounded'
  <2>1. Reboot(l[1]) \/ pull' = [pull EXCEPT ![l] = Idle] \/ UNCHANGED pull
    BY <1>11 DEF Merge, LocalHeaderAborts, Abort
  <2> QED BY <1>3, <1>4, <1>5, <2>1
<1>12. ASSUME NEW l \in Link, Drop(l) PROVE PullsGrounded'
  BY <1>3, <1>5, <1>12 DEF Drop
<1>13. ASSUME NEW n \in Node, Restart(n) PROVE PullsGrounded'
  BY <1>4, <1>13 DEF Restart
<1>14. CASE UNCHANGED vars
  BY <1>3, <1>14 DEF vars
<1> QED
  BY <1>6, <1>7, <1>8, <1>9, <1>10, <1>11, <1>12, <1>13, <1>14 DEF Next, CrashInMerge, SyncRegime

LEMMA SyncStep ==
  ASSUME SyncRegime, SyncInv, [Next]_vars
  PROVE  SyncInv'
<1>1. IInv'
  BY InvStep DEF SyncInv, SyncRegime
<1> QED BY <1>1, SignedStays, GroundedStays DEF SyncInv

\* Where author is an admin, a getHeader fails on a second one only.
LEMMA FailsOnSecond ==
  ASSUME SyncRegime, SyncInv, NEW n \in Node, NEW author \in admins[n], NEW c,
         LocalHeaderFails(n, author, c)
  PROVE  c = "oneAdmin" /\ Cardinality(admins[n]) > 1
<1>1. \A x \in Node : GetsAdmin(n, x) => x = author
  BY DEF GetsAdmin, SyncRegime
<1>2. c = "oneAdmin" /\ admins[n] # {author}
  <2>1. author \in Node
    BY DEF SyncInv, IInv, TypeOK
  <2> QED BY <1>1, <2>1 DEF LocalHeaderFails, GetHeaderFails, SyncRegime
<1>3. PICK x \in admins[n] : x # author
  BY <1>2
<1>4. IsFiniteSet(admins[n])
  BY NodeAssumption, FS_Subset DEF SyncInv, IInv, TypeOK
<1>5. IsFiniteSet(admins[n] \ {x}) /\ Cardinality(admins[n] \ {x}) = Cardinality(admins[n]) - 1
  BY <1>3, <1>4, FS_RemoveElement
<1>6. Cardinality(admins[n] \ {x}) # 0
  BY <1>3, <1>5, FS_EmptySet
<1>7. Cardinality(admins[n] \ {x}) \in Nat /\ Cardinality(admins[n]) \in Nat
  BY <1>4, <1>5, FS_CardinalityType
<1> QED BY <1>2, <1>5, <1>6, <1>7

\* Once getRequest has answered, the rest of a pull aborts only where a caller has
\* named a second admin, whatever admins callers name, in whatever order, and
\* however often getHeader and getRequest abort: the admins that the two ends name
\* stay admins there, and a peer that has a version has its signature.
THEOREM AbortsNeedSecondAdmin ==
  ASSUME SyncRegime
  PROVE  Spec => []OnlySecondAdminAborts
<1>1. SyncInv => OnlySecondAdminAborts
  <2> SUFFICES ASSUME SyncInv, NEW l \in Link, NEW c \in Assertion
               PROVE  /\ pull[l].phase = "request" /\ GetUpdateFails(l[2], pull[l].author, c)
                           => c = "oneAdmin" /\ Cardinality(admins[l[2]]) > 1
                      /\ pull[l].phase = "update" /\ LocalHeaderFails(l[1], pull[l].author, c)
                           => c = "oneAdmin" /\ Cardinality(admins[l[1]]) > 1
    BY DEF OnlySecondAdminAborts
  <2>1. Grounded(l, pull[l])
    BY DEF SyncInv, PullsGrounded
  <2>2. ASSUME pull[l].phase = "request", GetUpdateFails(l[2], pull[l].author, c)
        PROVE  c = "oneAdmin" /\ Cardinality(admins[l[2]]) > 1
    <3>1. pull[l].author \in admins[l[2]] /\ sign[l[2]] # NoSign
      BY <2>1, <2>2, PeerSigned DEF Grounded
    <3> QED BY <2>2, <3>1, LinkType, FailsOnSecond DEF GetUpdateFails, SyncRegime
  <2>3. ASSUME pull[l].phase = "update", LocalHeaderFails(l[1], pull[l].author, c)
        PROVE  c = "oneAdmin" /\ Cardinality(admins[l[1]]) > 1
    <3>1. pull[l].author \in admins[l[1]]
      BY <2>1, <2>3 DEF Grounded
    <3> QED BY <2>3, <3>1, LinkType, FailsOnSecond
  <2> QED BY <2>2, <2>3
<1> QED BY SyncInit, SyncStep, <1>1, PTL DEF Spec

----------------------------------------------------------------------------
(* All callers name one admin. *)

OneAdmin == \A n \in Node : admins[n] \subseteq {Admin}

LEMMA OneAdminStays ==
  ASSUME SyncInv, OneAdmin, [Next]_vars, Appointees \subseteq {Admin}
  PROVE  OneAdmin'
<1> SUFFICES ASSUME NEW n \in Node PROVE admins'[n] \subseteq {Admin}
  BY DEF OneAdmin
<1>1. admins[n] \subseteq {Admin} /\ admins \in [Node -> SUBSET Node]
  BY DEF SyncInv, OneAdmin, IInv, TypeOK
<1>2. ASSUME NEW m \in Node, NEW x \in Node, SetAdmin(m, x) PROVE admins'[n] \subseteq {Admin}
  <2>1. x = Admin
    BY <1>2 DEF SetAdmin, Appointees
  <2> QED BY <1>1, <1>2, <2>1 DEF SetAdmin
<1>3. CASE admins' = admins
  BY <1>1, <1>3
<1> QED
  BY <1>2, <1>3 DEF Next, vars, stored, AddKey, GetHeader, GetRequest, GetUpdate, Merge,
     CrashInMerge, Drop, Restart

\* What makes a call of a pull abort is that setAdmin was not called where it runs,
\* and after getRequest has answered nothing does.
OnlyBeforeSetAdmin ==
  /\ \A n \in Node : \A c \in Assertion :
       GetHeaderFails(n, c) => c = "oneAdmin" /\ admins[n] = {}
  /\ \A l \in Link : \A c \in Assertion :
       /\ pull[l].phase = "header" /\ LocalHeaderFails(l[1], pull[l].author, c)
            => c = "oneAdmin" /\ admins[l[1]] = {}
       /\ pull[l].phase = "request" => ~ GetUpdateFails(l[2], pull[l].author, c)
       /\ pull[l].phase = "update" => ~ LocalHeaderFails(l[1], pull[l].author, c)

\* Where all callers name one admin, getHeader and getRequest abort at replicas
\* setAdmin was not called at yet, and nowhere else; getUpdate and merge never do.
THEOREM AbortsComeBeforeSetAdmin ==
  ASSUME SyncRegime, Appointees \subseteq {Admin}
  PROVE  Spec => []OnlyBeforeSetAdmin
<1>1. Init => OneAdmin
  BY DEF Init, OneAdmin
<1>2. SyncInv /\ OneAdmin /\ [Next]_vars => (SyncInv /\ OneAdmin)'
  BY SyncStep, OneAdminStays
<1>3. SyncInv /\ OneAdmin => OnlyBeforeSetAdmin
  <2> SUFFICES ASSUME SyncInv, OneAdmin PROVE OnlyBeforeSetAdmin
    OBVIOUS
  <2>1. ASSUME NEW n \in Node, NEW c, GetHeaderFails(n, c)
        PROVE  c = "oneAdmin" /\ admins[n] = {}
    <3>1. c = "oneAdmin" /\ \A x \in Node : admins[n] # {x}
      BY <2>1 DEF GetHeaderFails, SyncRegime
    <3> QED BY <3>1, NodeAssumption DEF OneAdmin
  <2>2. ASSUME NEW n \in Node, NEW c, LocalHeaderFails(n, Admin, c)
        PROVE  c = "oneAdmin" /\ admins[n] = {}
    <3>1. \A x : GetsAdmin(n, x) => x = Admin
      BY DEF GetsAdmin, OneAdmin, SyncRegime
    <3> QED BY <2>1, <2>2, <3>1 DEF LocalHeaderFails
  <2>3. ASSUME NEW l \in Link, pull[l].phase # "idle"
        PROVE  /\ pull[l].author = Admin /\ admins[l[2]] = {Admin}
               /\ pull[l].phase # "header" => admins[l[1]] = {Admin}
    <3>1. Grounded(l, pull[l])
      BY DEF SyncInv, PullsGrounded
    <3> QED BY <2>3, <3>1, LinkType DEF Grounded, OneAdmin
  <2>4. ASSUME NEW l \in Link, NEW c, pull[l].phase = "request"
        PROVE  ~ GetUpdateFails(l[2], pull[l].author, c)
    BY <2>2, <2>3, <2>4, PeerSigned, LinkType DEF GetUpdateFails, SyncRegime
  <2>5. ASSUME NEW l \in Link, NEW c, pull[l].phase = "update"
        PROVE  ~ LocalHeaderFails(l[1], pull[l].author, c)
    BY <2>2, <2>3, <2>5, LinkType
  <2>6. ASSUME NEW l \in Link, NEW c, pull[l].phase = "header",
               LocalHeaderFails(l[1], pull[l].author, c)
        PROVE  c = "oneAdmin" /\ admins[l[1]] = {}
    BY <2>2, <2>3, <2>6, LinkType
  <2> QED BY <2>1, <2>4, <2>5, <2>6 DEF OnlyBeforeSetAdmin
<1> QED BY SyncInit, <1>1, <1>2, <1>3, PTL DEF Spec

----------------------------------------------------------------------------
(* A version stands for one table. *)

\* The tables that are stored, and those on their way, with their versions.
Tables ==
  {<<version[n], keys[n]>> : n \in Node}
    \cup {<<pull[l].version, pull[l].keys>> : l \in {k \in Link : pull[k].phase = "update"}}

Same(x, y) == x[1] = y[1] /\ \A a \in Public : x[2][a] = y[2][a]
UpTo(x, y) == \A a \in Public : x[2][a] <= y[2][a]

TablesOrdered == \A x, y \in Tables : x[1] <= y[1] => UpTo(x, y)
OrderInv == SyncInv /\ TablesOrdered

\* A table the admin has just made.
New(x) ==
  /\ x[1] = version[Admin] + 1
  /\ \A a \in Public : keys[Admin][a] <= x[2][a] /\ x[2][a] = keys'[Admin][a]

Old(x) == \E y \in Tables : Same(x, y)

LEMMA TablesNumbers ==
  ASSUME TypeOK, NEW x \in Tables
  PROVE  x[1] \in Nat /\ \A a \in Public : x[2][a] \in Nat
BY TableNumbers DEF Tables

LEMMA TablesBehind ==
  ASSUME IInv, NEW x \in Tables
  PROVE  x[1] <= version[Admin] /\ \A a \in Public : x[2][a] <= keys[Admin][a]
BY DEF IInv, StoredBehind, InFlightBehind, Behind, Tables

LEMMA OrderInit == Init => OrderInv
<1> SUFFICES ASSUME Init PROVE TablesOrdered
  BY SyncInit DEF OrderInv
<1>1. \A x \in Tables : \A a \in Public : x[2][a] = NoKey
  BY NodeAssumption DEF Init, Tables, Idle, NoKeys, Public
<1> QED BY <1>1 DEF TablesOrdered, UpTo, NoKey

\* A merge over an older table leaves what the update holds, and no more.
LEMMA MergeIsOld ==
  ASSUME OrderInv, NEW l \in Link, pull[l].phase = "update", Applies(l[1], pull[l]),
         MergeWrites(l[1], pull[l], TRUE, TRUE, Rows(pull[l].keys))
  PROVE  Old(<<version'[l[1]], keys'[l[1]]>>)
<1> DEFINE n == l[1]
           stale == <<version[n], keys[n]>>
           update == <<pull[l].version, pull[l].keys>>
<1>1. TypeOK /\ n \in Node
  BY LinkType DEF OrderInv, SyncInv, IInv
<1>2. stale \in Tables /\ update \in Tables
  BY <1>1 DEF Tables
<1>3. /\ version[n] \in Nat /\ pull[l].version \in Nat
      /\ \A a \in Public : keys[n][a] \in Nat /\ pull[l].keys[a] \in Nat
  BY <1>1, TableNumbers
<1>4. version[n] < pull[l].version
  BY DEF Applies
<1>5. \A a \in Public : keys[n][a] <= pull[l].keys[a]
  <2>1. stale[1] <= update[1]
    BY <1>3, <1>4
  <2>2. UpTo(stale, update)
    BY <1>2, <2>1 DEF OrderInv, TablesOrdered
  <2> QED BY <2>2 DEF UpTo
<1>6. version'[n] = pull[l].version
  BY <1>1 DEF MergeWrites, TypeOK
<1>7. ASSUME NEW a \in Public PROVE keys'[n][a] = pull[l].keys[a]
  <2>1. a \in Node
    BY NodeAssumption DEF Public
  <2>2. keys'[n] = Upsert(keys[n], RowsFor(pull[l].keys, Rows(pull[l].keys)))
    BY <1>1 DEF MergeWrites, TypeOK
  <2>3. keys'[n][a] = IF pull[l].keys[a] = NoKey THEN keys[n][a] ELSE pull[l].keys[a]
    BY <2>1, <2>2 DEF Upsert, RowsFor, Rows
  <2>4. CASE pull[l].keys[a] = NoKey
    BY <1>3, <1>5, <2>3, <2>4 DEF NoKey
  <2> QED BY <2>3, <2>4
<1>8. Same(<<version'[n], keys'[n]>>, update)
  BY <1>6, <1>7 DEF Same
<1> QED BY <1>2, <1>8 DEF Old

LEMMA StoredOldOrNew ==
  ASSUME SyncRegime, OrderInv, [Next]_vars, NEW m \in Node
  PROVE  Old(<<version'[m], keys'[m]>>) \/ New(<<version'[m], keys'[m]>>)
<1> USE DEF stored
<1>1. TypeOK /\ <<version[m], keys[m]>> \in Tables
  BY DEF OrderInv, SyncInv, IInv, Tables
<1>2. CASE Stays(m)
  BY <1>1, <1>2 DEF Stays, Old, Same
<1>3. ASSUME NEW n \in Node, NEW a \in Author, NEW k \in PubKey, AddKey(n, a, k), ~ Stays(m)
      PROVE  New(<<version'[m], keys'[m]>>)
  <2>1. m = n
    BY <1>1, <1>3 DEF AddKey, Insert, Stays, TypeOK
  <2>2. m = Admin
    BY <1>3, <2>1 DEF AddKey, SyncRegime
  <2>3. version'[m] = version[m] + 1
    <3>1. version[m] \in Version /\ version[m] < MaxVersion
      BY <1>1, <1>3, <2>1 DEF AddKey, TypeOK
    <3>2. NextVersion(version[m]) = version[m] + 1
      BY <3>1, NoWrap DEF SyncRegime
    <3> QED BY <1>1, <1>3, <2>1, <3>2 DEF AddKey, Stop, SyncRegime, TypeOK
  <2>4. \A c \in Public : keys[m][c] <= keys'[m][c]
    <3>1. Stays(m) \/ Adds(m) \/ Applied(m)
      BY <1>1, Storing DEF SyncRegime
    <3>2. ~ Applied(m)
      BY <1>1, <2>2, TableNumbers
         DEF Applied, OrderInv, SyncInv, IInv, InFlightBehind, Behind
    <3> QED BY <1>3, <3>1, <3>2 DEF Adds
  <2> QED BY <2>2, <2>3, <2>4 DEF New
<1>4. ASSUME NEW l \in Link, Merge(l), ~ Stays(m)
      PROVE  Old(<<version'[m], keys'[m]>>)
  <2>1. ~ UNCHANGED <<keys, version, sign>>
    BY <1>4 DEF Stays
  <2>2. /\ pull[l].phase = "update" /\ Applies(l[1], pull[l])
        /\ MergeWrites(l[1], pull[l], TRUE, TRUE, Rows(pull[l].keys))
    BY <1>4, <2>1 DEF Merge, SyncRegime
  <2>3. m = l[1]
    BY <1>1, <1>4, <2>2 DEF MergeWrites, Stays, TypeOK
  <2> QED BY <2>2, <2>3, MergeIsOld
<1>5. ASSUME NEW n \in Node, NEW x \in Node, SetAdmin(n, x) PROVE Stays(m)
  <2>1. version' = version /\ x \in Appointees
    BY <1>5 DEF SetAdmin, Appointees
  <2>2. CASE keys' = [keys EXCEPT ![n][x] = SelfKey]
    BY <1>1, <2>1, <2>2 DEF Stays, Public, KeyMap, TypeOK
  <2> QED BY <1>5, <2>1, <2>2 DEF SetAdmin, Stays
<1>6. CASE UNCHANGED <<keys, version>>
  BY <1>2, <1>6 DEF Stays
<1> QED
  BY <1>2, <1>3, <1>4, <1>5, <1>6 DEF Next, vars, GetHeader, GetRequest, GetUpdate,
     CrashInMerge, Drop, Restart, SyncRegime

LEMMA UpdateIsOld ==
  ASSUME SyncRegime, OrderInv, [Next]_vars, NEW q \in Link, pull'[q].phase = "update"
  PROVE  Old(<<pull'[q].version, pull'[q].keys>>)
<1> USE DEF stored
<1>1. TypeOK /\ pull \in [Link -> Session]
  BY DEF OrderInv, SyncInv, IInv, TypeOK
<1>2. CASE pull'[q] \in {pull[q], Idle}
  <2>1. pull'[q] = pull[q]
    BY <1>2 DEF Idle
  <2>2. <<pull[q].version, pull[q].keys>> \in Tables
    BY <2>1 DEF Tables
  <2> QED BY <2>1, <2>2 DEF Old, Same
<1>3. ASSUME NEW l \in Link, NEW s, pull' = [pull EXCEPT ![l] = s], s.phase # "update"
      PROVE  pull'[q] \in {pull[q], Idle}
  BY <1>1, <1>3
<1>4. ASSUME NEW n, Reboot(n) PROVE pull'[q] \in {pull[q], Idle}
  BY <1>4 DEF Reboot
<1>5. ASSUME NEW l \in Link, GetHeader(l) PROVE pull'[q] \in {pull[q], Idle}
  <2>1. \A x : Header(l[2], x).phase = "header"
    BY DEF Header, Idle
  <2> QED BY <1>3, <1>4, <1>5, <2>1 DEF GetHeader, Abort
<1>6. ASSUME NEW l \in Link, GetRequest(l) PROVE pull'[q] \in {pull[q], Idle}
  <2> DEFINE request == [pull[l] EXCEPT !.phase = "request"]
  <2>1. request.phase = "request" /\ Idle.phase = "idle"
    BY <1>1 DEF Session, Idle
  <2>2. \/ Reboot(l[1])
        \/ pull' = [pull EXCEPT ![l] = Idle]
        \/ pull' = [pull EXCEPT ![l] = request]
    BY <1>6 DEF GetRequest, LocalHeaderAborts, Abort
  <2> HIDE DEF request
  <2> QED BY <1>3, <1>4, <2>1, <2>2
<1>7. ASSUME NEW l \in Link, GetUpdate(l)
      PROVE  Old(<<pull'[q].version, pull'[q].keys>>)
  <2> DEFINE p == l[2]
             update(t) == [phase |-> "update", author |-> pull[l].author,
                           version |-> version[p], keys |-> t, sign |-> sign[p]]
  <2>1. CASE pull' = [k \in Link |-> IF k[1] = p \/ k = l THEN Idle ELSE pull[k]]
    BY <1>2, <2>1
  <2>2. ASSUME pull' = [pull EXCEPT ![l] = update(keys[p])]
        PROVE  Old(<<pull'[q].version, pull'[q].keys>>)
    <3>1. CASE q = l
      <4>1. pull'[q].version = version[p] /\ pull'[q].keys = keys[p]
        BY <1>1, <2>2, <3>1
      <4>2. <<version[p], keys[p]>> \in Tables
        BY LinkType DEF Tables
      <4> QED BY <4>1, <4>2 DEF Old, Same
    <3>2. CASE q # l
      BY <1>1, <1>2, <2>2, <3>2
    <3> QED BY <3>1, <3>2
  <2> QED BY <1>7, <2>1, <2>2 DEF GetUpdate, PublicKeys, SyncRegime
<1>8. ASSUME NEW l \in Link, Merge(l) PROVE pull'[q] \in {pull[q], Idle}
  BY <1>1, <1>4, <1>8 DEF Merge, LocalHeaderAborts, Abort
<1>9. ASSUME NEW l \in Link, Drop(l) PROVE pull'[q] \in {pull[q], Idle}
  BY <1>1, <1>9 DEF Drop
<1>10. ASSUME NEW n \in Node, NEW x \in Node, SetAdmin(n, x)
       PROVE  pull'[q] \in {pull[q], Idle}
  BY <1>4, <1>10 DEF SetAdmin, Abort
<1>11. ASSUME NEW n \in Node, NEW a \in Author, NEW k \in PubKey, AddKey(n, a, k)
       PROVE  pull'[q] \in {pull[q], Idle}
  BY <1>11 DEF AddKey, Stop, SyncRegime
<1>12. ASSUME NEW n \in Node, Restart(n) PROVE pull'[q] \in {pull[q], Idle}
  BY <1>4, <1>12 DEF Restart
<1>13. CASE UNCHANGED vars
  BY <1>13, <1>2 DEF vars
<1> QED
  BY <1>2, <1>5, <1>6, <1>7, <1>8, <1>9, <1>10, <1>11, <1>12, <1>13
     DEF Next, CrashInMerge, SyncRegime

LEMMA OrderStep ==
  ASSUME SyncRegime, OrderInv, [Next]_vars
  PROVE  OrderInv'
<1>1. IInv /\ TypeOK /\ SyncInv' /\ TypeOK'
  BY SyncStep, TypeStep DEF OrderInv, SyncInv, IInv
<1>2. SUFFICES ASSUME NEW x \in Tables', NEW y \in Tables', x[1] <= y[1]
               PROVE  \A a \in Public : x[2][a] <= y[2][a]
  BY <1>1 DEF OrderInv, TablesOrdered, UpTo, Public
<1>3. ASSUME NEW z \in Tables' PROVE Old(z) \/ New(z)
  BY StoredOldOrNew, UpdateIsOld DEF Tables
<1>4. /\ version[Admin] \in Nat
      /\ \A a \in Public : keys[Admin][a] \in Nat /\ keys'[Admin][a] \in Nat
  BY <1>1, TableNumbers, NodeAssumption
     DEF TypeOK, KeyMap, PubKey, NoKey, Public
<1>5. CASE Old(x) /\ Old(y)
  BY <1>2, <1>5 DEF Old, Same, OrderInv, TablesOrdered, UpTo
<1>6. CASE Old(x) /\ New(y)
  <2>1. \A a \in Public : x[2][a] \in Nat /\ x[2][a] <= keys[Admin][a]
    BY <1>1, <1>6, TablesBehind, TablesNumbers DEF Old, Same
  <2> QED BY <1>4, <1>6, <2>1 DEF New
<1>7. CASE New(x) /\ Old(y)
  BY <1>1, <1>2, <1>4, <1>7, TablesBehind, TablesNumbers DEF Old, Same, New
<1>8. CASE New(x) /\ New(y)
  BY <1>4, <1>8 DEF New
<1> QED BY <1>3, <1>5, <1>6, <1>7, <1>8

\* When the authors addKey is called for are not admins, replicas with the same
\* version have the same keys, so a version that is not higher has nothing to
\* teach: the tables of two versions differ in more rows as versions rise, so a
\* merge, which only adds rows, ends at the very table that was sent.
THEOREM VersionStandsForTable ==
  ASSUME SyncRegime, Author \cap Appointees = {}
  PROVE  Spec => []VersionMeansKeys
<1>1. OrderInv => VersionMeansKeys
  <2> SUFFICES ASSUME OrderInv, NEW n \in Node, NEW o \in Node, version[n] = version[o],
                      NEW a \in Author
               PROVE  keys[n][a] = keys[o][a]
    BY DEF VersionMeansKeys
  <2> DEFINE x == <<version[n], keys[n]>>
             y == <<version[o], keys[o]>>
  <2>1. x \in Tables /\ y \in Tables /\ a \in Public /\ TypeOK
    BY DEF Tables, Public, OrderInv, SyncInv, IInv
  <2>2. version[n] \in Nat /\ keys[n][a] \in Nat /\ keys[o][a] \in Nat
    BY <2>1, TableNumbers
  <2>3. x[1] <= y[1] /\ y[1] <= x[1]
    BY <2>2
  <2>4. UpTo(x, y) /\ UpTo(y, x)
    BY <2>1, <2>3 DEF OrderInv, TablesOrdered
  <2>5. keys[n][a] <= keys[o][a] /\ keys[o][a] <= keys[n][a]
    BY <2>1, <2>4 DEF UpTo
  <2> QED BY <2>2, <2>5
<1> QED BY OrderInit, OrderStep, <1>1, PTL DEF Spec

----------------------------------------------------------------------------
(* No key comes back. *)

\* No step, merge above all, puts an older key of an author in place of a newer one.
KeyNeverFalls == [][\A n \in Node : \A a \in Public : keys'[n][a] >= keys[n][a]]_vars

\* No replica goes back to a key its author has replaced, over however many ways
\* updates come to it: the one that was made first may be merged last, and a relay
\* may be behind its puller, but merge then finds that the version is not higher,
\* and with every higher version come keys that are at least as new.
THEOREM ReplacedKeyStaysReplaced ==
  ASSUME SyncRegime
  PROVE  Spec => KeyNeverFalls
<1>1. OrderInv /\ OrderInv' /\ [Next]_vars
        => [\A n \in Node : \A a \in Public : keys'[n][a] >= keys[n][a]]_vars
  <2> SUFFICES ASSUME OrderInv, OrderInv', [Next]_vars, NEW n \in Node, NEW a \in Public
               PROVE  keys[n][a] <= keys'[n][a]
    OBVIOUS
  <2> DEFINE x == <<version[n], keys[n]>>
             z == <<version'[n], keys'[n]>>
  <2>1. /\ x \in Tables /\ version[n] <= version'[n]
        /\ keys[n][a] \in Nat /\ keys'[n][a] \in Nat /\ keys[Admin][a] \in Nat
    <3>1. TypeOK /\ TypeOK' /\ Admin \in Node
      BY NodeAssumption DEF OrderInv, SyncInv, IInv
    <3>2. keys'[n][a] \in Nat
      BY <3>1, NodeAssumption DEF TypeOK, KeyMap, PubKey, NoKey, Public
    <3>3. version[n] <= version'[n]
      BY SyncGrows DEF OrderInv
    <3> QED BY <3>1, <3>2, <3>3, TableNumbers DEF Tables
  <2>2. CASE Old(z)
    <3>1. PICK y \in Tables : Same(z, y)
      BY <2>2 DEF Old
    <3>2. x[1] <= y[1] /\ y[2][a] = keys'[n][a]
      BY <2>1, <3>1 DEF Same
    <3>3. UpTo(x, y)
      BY <2>1, <3>1, <3>2 DEF OrderInv, TablesOrdered
    <3> QED BY <3>2, <3>3 DEF UpTo
  <2>3. CASE New(z)
    <3>1. x[2][a] <= keys[Admin][a]
      BY <2>1, TablesBehind DEF OrderInv, SyncInv
    <3>2. keys[Admin][a] <= keys'[n][a]
      BY <2>3 DEF New
    <3> QED BY <2>1, <3>1, <3>2
  <2> QED BY <2>2, <2>3, StoredOldOrNew
<1> QED BY OrderInit, OrderStep, <1>1, PTL DEF Spec, KeyNeverFalls
=============================================================================
