--------------------------- MODULE KeysCrdtProofs ---------------------------
(***************************************************************************)
(* What TLAPS proves about KeysCrdt, for every set of replicas, links and  *)
(* authors, every provider, with crashes between any two statements and    *)
(* statements that fail.                                                   *)
(*                                                                         *)
(* The inductive invariant is IInv: nothing that is stored or in flight is *)
(* ahead of the admin's own table, in its version or in a key.             *)
(***************************************************************************)
EXTENDS KeysCrdt, FiniteSetTheorems, TLAPS

LEMMA LinkType == \A l \in Link : l[1] \in Node /\ l[2] \in Node
BY NodeAssumption

LEMMA SelfKeyType == SelfKey \in PubKey
BY BoundAssumption DEF SelfKey, PubKey

LEMMA ZeroVersion == 0 \in Version
BY BoundAssumption DEF Version

LEMMA PairsType ==
  ASSUME NEW table \in KeyMap
  PROVE  Pairs(table) \in 0..Cardinality(Node)
<1> DEFINE S == Rows(table)
<1>1. S \subseteq Node
  BY DEF Rows
<1>2. IsFiniteSet(S) /\ Cardinality(S) <= Cardinality(Node)
  BY <1>1, NodeAssumption, FS_Subset
<1>3. Cardinality(S) \in Nat /\ Cardinality(Node) \in Nat
  BY <1>2, NodeAssumption, FS_CardinalityType
<1> QED BY <1>2, <1>3 DEF Pairs

LEMMA SignType ==
  ASSUME NEW n \in Node, NEW table \in KeyMap
  PROVE  Signed(n, PairsPayload(table)) \in Signature
<1>1. 0 \in 0..Cardinality(Node)
  BY NodeAssumption, FS_CardinalityType
<1> QED BY <1>1, PairsType DEF Signature, Signed, PairsPayload

LEMMA IdleType == Idle \in Session
BY NodeAssumption, ZeroVersion DEF Idle, Session, NoKeys, KeyMap, NoKey

LEMMA RebootType ==
  ASSUME TypeOK, NEW n, Reboot(n)
  PROVE  pull' \in [Link -> Session]
BY IdleType DEF Reboot, TypeOK

LEMMA RowsForType ==
  ASSUME NEW t \in KeyMap, NEW A
  PROVE  RowsFor(t, A) \in KeyMap
BY DEF RowsFor, KeyMap

LEMMA PublicKeysType ==
  ASSUME NEW t \in KeyMap, NEW u \in PublicKeys(t)
  PROVE  u \in KeyMap
BY RowsForType DEF PublicKeys

LEMMA NextVersionType ==
  ASSUME NEW v \in Version
  PROVE  NextVersion(v) \in Version
BY BoundAssumption DEF NextVersion, Version

LEMMA UpsertType ==
  ASSUME NEW t \in KeyMap, NEW update \in KeyMap
  PROVE  Upsert(t, update) \in KeyMap
BY DEF Upsert, KeyMap

LEMMA TypeInit == Init => TypeOK
BY IdleType, ZeroVersion DEF Init, TypeOK, NoKeys, KeyMap, NoKey, Assertion

LEMMA TypeStep ==
  ASSUME TypeOK, [Next]_vars
  PROVE  TypeOK'
<1> USE DEF TypeOK, Assertion, stored, Runs, Abort
<1>1. ASSUME NEW n \in Node, NEW x \in Node, SetAdmin(n, x) PROVE TypeOK'
  <2>1. keys' \in [Node -> KeyMap]
    <3>1. CASE keys' = [keys EXCEPT ![n][x] = SelfKey]
      BY <3>1, SelfKeyType DEF KeyMap
    <3> QED BY <1>1, <3>1 DEF SetAdmin
  <2>2. admins' \in [Node -> SUBSET Node]
    <3>1. CASE admins' = [admins EXCEPT ![n] = @ \cup {x}]
      BY <3>1
    <3> QED BY <1>1, <3>1 DEF SetAdmin
  <2>3. pull' \in [Link -> Session] /\ failed' \in Assertion
    BY <1>1, RebootType DEF SetAdmin
  <2> QED BY <1>1, <2>1, <2>2, <2>3 DEF SetAdmin
<1>2. ASSUME NEW n \in Node, NEW a \in Author, NEW k \in PubKey, AddKey(n, a, k)
      PROVE  TypeOK'
  <2>1. [keys[n] EXCEPT ![a] = k] \in KeyMap
    BY NodeAssumption DEF KeyMap
  <2> DEFINE Stored(table) ==
               /\ keys' = [keys EXCEPT ![n] = table]
               /\ \/ /\ \E t \in PublicKeys(table) :
                          \E s \in Insert(sign[n], Signed(n, PairsPayload(t))) :
                            sign' = [sign EXCEPT ![n] = s]
                     /\ UNCHANGED pull
                  \/ UNCHANGED sign /\ Stop(n)
  <2>2. PICK table \in Insert(keys[n], [keys[n] EXCEPT ![a] = k]) : Stored(table)
    <3>1. \E table \in Insert(keys[n], [keys[n] EXCEPT ![a] = k]) : Stored(table)
      BY <1>2, Zenon DEF AddKey
    <3> HIDE DEF Stored
    <3> QED BY <3>1, Zenon
  <2>3. table \in KeyMap
    <3>1. table = keys[n] \/ table = [keys[n] EXCEPT ![a] = k]
      BY <2>2, Zenon DEF Insert
    <3>2. keys[n] \in KeyMap
      BY DEF TypeOK
    <3> QED BY <2>1, <3>1, <3>2, Zenon
  <2>4. version' \in [Node -> Version]
    <3>1. NextVersion(version[n]) \in Version
      BY NextVersionType
    <3> QED BY <1>2, <3>1 DEF AddKey
  <2>5. sign' \in [Node -> Signature \cup {NoSign}]
    <3>1. ASSUME NEW t \in PublicKeys(table), NEW s \in Insert(sign[n], Signed(n, PairsPayload(t))),
                 sign' = [sign EXCEPT ![n] = s]
          PROVE  sign' \in [Node -> Signature \cup {NoSign}]
      <4>1. Signed(n, PairsPayload(t)) \in Signature
        BY <2>3, PublicKeysType, SignType
      <4>2. s \in Signature \cup {NoSign}
        BY <4>1 DEF Insert
      <4> QED BY <3>1, <4>2
    <3> QED BY <2>2, <3>1
  <2>6. pull' \in [Link -> Session] /\ failed' \in Assertion
    BY <1>2, <2>2, RebootType DEF AddKey, Stop
  <2> QED BY <1>2, <2>2, <2>3, <2>4, <2>5, <2>6 DEF AddKey
<1>3. ASSUME NEW l \in Link, GetHeader(l) PROVE TypeOK'
  <2>1. ASSUME NEW x \in Node, pull' = [pull EXCEPT ![l] = Header(l[2], x)]
        PROVE  pull' \in [Link -> Session]
    <3>1. Header(l[2], x) \in Session
      BY LinkType, IdleType DEF Header, Session
    <3> QED BY <2>1, <3>1
  <2>2. pull' \in [Link -> Session]
    BY <1>3, <2>1, RebootType DEF GetHeader
  <2> QED BY <1>3, <2>2 DEF GetHeader
<1>4. ASSUME NEW l \in Link, GetRequest(l) PROVE TypeOK'
  <2>1. [pull[l] EXCEPT !.phase = "request"] \in Session
    BY DEF Session
  <2>2. pull' \in [Link -> Session]
    BY <1>4, <2>1, IdleType, RebootType DEF GetRequest, LocalHeaderAborts
  <2> QED BY <1>4, <2>2 DEF GetRequest, LocalHeaderAborts
<1>5. ASSUME NEW l \in Link, GetUpdate(l) PROVE TypeOK'
  <2> DEFINE p == l[2]
             update(t) == [phase |-> "update", author |-> pull[l].author,
                           version |-> version[p], keys |-> t, sign |-> sign[p]]
  <2>1. ASSUME NEW t \in PublicKeys(keys[p]), pull' = [pull EXCEPT ![l] = update(t)]
        PROVE  pull' \in [Link -> Session]
    <3>1. t \in KeyMap /\ pull[l].author \in Node
      BY LinkType, PublicKeysType DEF Session
    <3>2. update(t) \in Session
      BY <3>1, LinkType DEF Session
    <3> QED BY <2>1, <3>2
  <2>2. ASSUME pull' = [k \in Link |-> IF k[1] = p \/ k = l THEN Idle ELSE pull[k]]
        PROVE  pull' \in [Link -> Session]
    BY <2>2, IdleType
  <2>3. pull' \in [Link -> Session]
    BY <1>5, <2>1, <2>2 DEF GetUpdate
  <2> QED BY <1>5, <2>3 DEF GetUpdate
<1>6. ASSUME NEW l \in Link, NEW v, NEW s, NEW A, MergeWrites(l[1], pull[l], v, s, A)
      PROVE  /\ keys' \in [Node -> KeyMap] /\ version' \in [Node -> Version]
             /\ sign' \in [Node -> Signature \cup {NoSign}]
  <2>1. pull[l] \in Session /\ l[1] \in Node
    BY LinkType
  <2>2. Upsert(keys[l[1]], RowsFor(pull[l].keys, A)) \in KeyMap
    BY <2>1, RowsForType, UpsertType DEF Session
  <2>3. keys' \in [Node -> KeyMap]
    BY <1>6, <2>2 DEF MergeWrites
  <2>4. version' \in [Node -> Version] /\ sign' \in [Node -> Signature \cup {NoSign}]
    BY <1>6, <2>1 DEF MergeWrites, Session
  <2> QED BY <2>3, <2>4
<1>7. ASSUME NEW l \in Link, Merge(l) PROVE TypeOK'
  <2>1. /\ keys' \in [Node -> KeyMap] /\ version' \in [Node -> Version]
        /\ sign' \in [Node -> Signature \cup {NoSign}]
    BY <1>6, <1>7 DEF Merge
  <2>2. /\ Reboot(l[1]) \/ pull' = [pull EXCEPT ![l] = Idle] \/ UNCHANGED pull
        /\ failed' \in Assertion
    BY <1>7 DEF Merge, LocalHeaderAborts
  <2>3. pull' \in [Link -> Session]
    BY <2>2, IdleType, RebootType
  <2> QED BY <1>7, <2>1, <2>2, <2>3 DEF Merge
<1>10. ASSUME NEW l \in Link, CrashInMerge(l) PROVE TypeOK'
  <2>1. /\ keys' \in [Node -> KeyMap] /\ version' \in [Node -> Version]
        /\ sign' \in [Node -> Signature \cup {NoSign}]
    BY <1>6, <1>10 DEF CrashInMerge
  <2> QED BY <1>10, <2>1, RebootType DEF CrashInMerge
<1>11. ASSUME NEW n \in Node, Restart(n) PROVE TypeOK'
  BY <1>11, RebootType DEF Restart
<1>8. ASSUME NEW l \in Link, Drop(l) PROVE TypeOK'
  BY <1>8, IdleType DEF Drop
<1>9. CASE UNCHANGED vars
  BY <1>9 DEF vars
<1> QED
  BY <1>1, <1>2, <1>3, <1>4, <1>5, <1>7, <1>8, <1>9, <1>10, <1>11 DEF Next

\* Every variable keeps its type, whatever aborts and stops: in particular an
\* update in flight is always a whole table with a version and a signature.
THEOREM TypeCorrect == Spec => []TypeOK
<1> QED BY TypeInit, TypeStep, PTL DEF Spec

----------------------------------------------------------------------------
(* What a step does to a table, and to what is in flight. *)

\* The keys only addKey and merge store.
Public == Author \ Appointees

Stays(n) == version'[n] = version[n] /\ \A a \in Public : keys'[n][a] = keys[n][a]

Adds(n) ==
  /\ n \in Adders
  /\ version'[n] \in {version[n], version[n] + 1}
  /\ \A a \in Public : keys[n][a] <= keys'[n][a]

\* An update is merged, or part of one: neither its version nor all of its keys
\* need be stored.
Applied(n) ==
  \E l \in Link :
    /\ version[n] < pull[l].version
    /\ version'[n] \in {version[n], pull[l].version}
    /\ \A a \in Public : keys'[n][a] \in {keys[n][a], pull[l].keys[a]}

\* What session s holds came from the peer of l: all of it, or some of its rows.
FromPeer(l, s) ==
  s.version = version[l[2]] /\ \A a \in Public : s.keys[a] \in {NoKey, keys[l[2]][a]}

Empty(s) == s.version = 0 /\ \A a \in Public : s.keys[a] = NoKey

\* A pull keeps what it holds, or holds nothing, or what its peer has now.
Carries(l) ==
  \/ pull'[l].version = pull[l].version /\ pull'[l].keys = pull[l].keys
  \/ Empty(pull'[l])
  \/ FromPeer(l, pull'[l])

LEMMA IdleEmpty == Empty(Idle)
BY NodeAssumption DEF Empty, Idle, NoKeys, Public

LEMMA NoWrap ==
  ASSUME MaxVersion < Versions, NEW v \in Version, v < MaxVersion
  PROVE  NextVersion(v) = v + 1
BY BoundAssumption DEF NextVersion, Version

LEMMA RebootCarries ==
  ASSUME TypeOK, NEW n, Reboot(n), NEW l \in Link
  PROVE  Carries(l)
BY IdleEmpty DEF Reboot, Carries, TypeOK, Session

LEMMA SettingCarries ==
  ASSUME TypeOK, NEW l \in Link, NEW session, pull' = [pull EXCEPT ![l] = session],
         \/ Empty(session)
         \/ session.version = pull[l].version /\ session.keys = pull[l].keys
         \/ FromPeer(l, session),
         NEW q \in Link
  PROVE  Carries(q)
<1>1. pull'[q] = IF q = l THEN session ELSE pull[q]
  BY DEF TypeOK
<1> QED BY <1>1 DEF Carries

\* What a merge writes at n, all of it or part of it.
LEMMA MergeStores ==
  ASSUME TypeOK, NEW l \in Link, NEW v \in BOOLEAN, NEW s, NEW A,
         Applies(l[1], pull[l]), MergeWrites(l[1], pull[l], v, s, A), NEW m \in Node
  PROVE  Stays(m) \/ Applied(m)
<1> USE DEF TypeOK
<1>1. CASE m # l[1]
  BY <1>1 DEF MergeWrites, Stays
<1>2. CASE m = l[1]
  <2>1. version[m] < pull[l].version /\ version'[m] \in {version[m], pull[l].version}
    BY <1>2 DEF Applies, MergeWrites
  <2>2. keys'[m] = Upsert(keys[m], RowsFor(pull[l].keys, A))
    BY <1>2 DEF MergeWrites
  <2>3. \A a \in Public : keys'[m][a] \in {keys[m][a], pull[l].keys[a]}
    BY <2>2, NodeAssumption DEF Upsert, RowsFor, Public
  <2> QED BY <2>1, <2>3 DEF Applied
<1> QED BY <1>1, <1>2

LEMMA Storing ==
  ASSUME TypeOK, [Next]_vars, MaxVersion < Versions, NEW m \in Node
  PROVE  Stays(m) \/ Adds(m) \/ Applied(m)
<1> USE DEF TypeOK, stored
<1>1. ASSUME NEW n \in Node, NEW x \in Node, SetAdmin(n, x) PROVE Stays(m)
  <2>1. version' = version /\ x \in Appointees
    BY <1>1 DEF SetAdmin, Appointees
  <2>2. CASE keys' = [keys EXCEPT ![n][x] = SelfKey]
    BY <2>1, <2>2 DEF Stays, Public, KeyMap
  <2> QED BY <1>1, <2>1, <2>2 DEF SetAdmin, Stays
<1>2. ASSUME NEW n \in Node, NEW a \in Author, NEW k \in PubKey, AddKey(n, a, k)
      PROVE  Stays(m) \/ Adds(m)
  <2>1. CASE m # n
    BY <1>2, <2>1 DEF AddKey, Stays
  <2>2. CASE m = n
    <3>1. n \in Adders /\ version'[n] \in {version[n], version[n] + 1}
      <4>1. NextVersion(version[n]) = version[n] + 1
        BY <1>2, NoWrap DEF AddKey
      <4> QED BY <1>2, <4>1 DEF AddKey
    <3>2. ASSUME NEW c \in Public PROVE keys[n][c] <= keys'[n][c]
      <4>1. c \in Node /\ keys[n][c] \in Int
        BY NodeAssumption DEF Public, KeyMap, PubKey, NoKey
      <4>2. keys'[n] \in {keys[n], [keys[n] EXCEPT ![a] = k]} /\ keys[n][a] <= k
        BY <1>2 DEF AddKey, Insert
      <4>3. CASE c = a
        BY <4>1, <4>2, <4>3 DEF KeyMap
      <4>4. CASE c # a
        BY <4>1, <4>2, <4>4 DEF KeyMap
      <4> QED BY <4>3, <4>4
    <3> QED BY <2>2, <3>1, <3>2 DEF Adds
  <2> QED BY <2>1, <2>2
<1>3. ASSUME NEW l \in Link, GetHeader(l) PROVE Stays(m)
  BY <1>3 DEF GetHeader, Stays
<1>4. ASSUME NEW l \in Link, GetRequest(l) PROVE Stays(m)
  BY <1>4 DEF GetRequest, Stays
<1>5. ASSUME NEW l \in Link, GetUpdate(l) PROVE Stays(m)
  BY <1>5 DEF GetUpdate, Stays
<1>6. ASSUME NEW l \in Link, Merge(l) PROVE Stays(m) \/ Applied(m)
  <2>1. CASE UNCHANGED <<keys, version, sign>>
    BY <2>1 DEF Stays
  <2>2. CASE ~ UNCHANGED <<keys, version, sign>>
    <3>1. PICK v \in BOOLEAN, s \in BOOLEAN, A \in SUBSET Rows(pull[l].keys) :
            Applies(l[1], pull[l]) /\ MergeWrites(l[1], pull[l], v, s, A)
      BY <1>6, <2>2 DEF Merge
    <3> QED BY <3>1, MergeStores
  <2> QED BY <2>1, <2>2
<1>7. ASSUME NEW l \in Link, CrashInMerge(l) PROVE Stays(m) \/ Applied(m)
  <2>1. PICK v \in BOOLEAN, s \in BOOLEAN, A \in SUBSET Rows(pull[l].keys) :
          Applies(l[1], pull[l]) /\ MergeWrites(l[1], pull[l], v, s, A)
    BY <1>7 DEF CrashInMerge
  <2> QED BY <2>1, MergeStores
<1>10. ASSUME NEW n \in Node, Restart(n) PROVE Stays(m)
  BY <1>10 DEF Restart, Stays
<1>8. ASSUME NEW l \in Link, Drop(l) PROVE Stays(m)
  BY <1>8 DEF Drop, Stays
<1>9. CASE UNCHANGED vars
  BY <1>9 DEF vars, Stays
<1> QED
  BY <1>1, <1>2, <1>3, <1>4, <1>5, <1>6, <1>7, <1>8, <1>9, <1>10 DEF Next

LEMMA Carrying ==
  ASSUME TypeOK, [Next]_vars, NEW q \in Link
  PROVE  Carries(q)
<1> USE DEF TypeOK, Abort, Session
<1>1. ASSUME NEW n \in Node, NEW x \in Node, SetAdmin(n, x) PROVE Carries(q)
  BY <1>1, RebootCarries DEF SetAdmin, Carries
<1>2. ASSUME NEW n \in Node, NEW a \in Author, NEW k \in PubKey, AddKey(n, a, k)
      PROVE  Carries(q)
  BY <1>2, RebootCarries DEF AddKey, Stop, Carries
<1>3. ASSUME NEW l \in Link, GetHeader(l) PROVE Carries(q)
  <2>1. \A x : FromPeer(l, Header(l[2], x))
    BY NodeAssumption DEF FromPeer, Header, Idle, NoKeys, Public
  <2>2. Reboot(l[2]) \/ \E x \in Node : pull' = [pull EXCEPT ![l] = Header(l[2], x)]
    BY <1>3 DEF GetHeader
  <2> QED BY <2>1, <2>2, RebootCarries, SettingCarries
<1>4. ASSUME NEW l \in Link, GetRequest(l) PROVE Carries(q)
  <2> DEFINE request == [pull[l] EXCEPT !.phase = "request"]
  <2>1. request.version = pull[l].version /\ request.keys = pull[l].keys
    <3>1. pull[l] \in Session
      OBVIOUS
    <3> QED BY <3>1
  <2>3. \/ Reboot(l[1])
        \/ pull' = [pull EXCEPT ![l] = Idle]
        \/ pull' = [pull EXCEPT ![l] = request]
    BY <1>4 DEF GetRequest, LocalHeaderAborts
  <2> HIDE DEF request
  <2> QED BY <2>1, <2>3, IdleEmpty, RebootCarries, SettingCarries
<1>5. ASSUME NEW l \in Link, GetUpdate(l) PROVE Carries(q)
  <2> DEFINE p == l[2]
             update(t) == [phase |-> "update", author |-> pull[l].author,
                           version |-> version[p], keys |-> t, sign |-> sign[p]]
  <2>1. ASSUME NEW t \in PublicKeys(keys[p]), pull' = [pull EXCEPT ![l] = update(t)]
        PROVE  Carries(q)
    <3>1. \A a \in Public : t[a] \in {NoKey, keys[p][a]}
      BY NodeAssumption DEF PublicKeys, RowsFor, Public
    <3>2. FromPeer(l, update(t))
      BY <3>1 DEF FromPeer
    <3> HIDE DEF update
    <3> QED BY <2>1, <3>2, SettingCarries
  <2>2. CASE pull' = [k \in Link |-> IF k[1] = p \/ k = l THEN Idle ELSE pull[k]]
    BY <2>2, IdleEmpty DEF Carries
  <2> QED BY <1>5, <2>1, <2>2 DEF GetUpdate
<1>6. ASSUME NEW l \in Link, Merge(l) PROVE Carries(q)
  <2>1. Reboot(l[1]) \/ pull' = [pull EXCEPT ![l] = Idle] \/ UNCHANGED pull
    BY <1>6 DEF Merge, LocalHeaderAborts
  <2> QED BY <2>1, IdleEmpty, RebootCarries DEF Carries
<1>7. ASSUME NEW l \in Link, CrashInMerge(l) PROVE Carries(q)
  BY <1>7, RebootCarries DEF CrashInMerge
<1>8. ASSUME NEW l \in Link, Drop(l) PROVE Carries(q)
  BY <1>8, IdleEmpty DEF Drop, Carries
<1>9. CASE UNCHANGED vars
  BY <1>9 DEF vars, Carries
<1>10. ASSUME NEW n \in Node, Restart(n) PROVE Carries(q)
  BY <1>10, RebootCarries DEF Restart
<1> QED
  BY <1>1, <1>2, <1>3, <1>4, <1>5, <1>6, <1>7, <1>8, <1>9, <1>10 DEF Next

\* merge stores a version only over a lower one and addKey counts up, so as long
\* as the counter does not wrap no order of steps takes a version back.
THEOREM VersionKept ==
  ASSUME MaxVersion < Versions
  PROVE  Spec => VersionNeverFalls
<1>1. TypeOK /\ [Next]_vars => [\A n \in Node : version'[n] >= version[n]]_vars
  <2> SUFFICES ASSUME TypeOK, [Next]_vars, NEW n \in Node
               PROVE  version'[n] >= version[n]
    OBVIOUS
  <2>1. version[n] \in Int /\ \A l \in Link : pull[l].version \in Int
    BY DEF TypeOK, Session, Version
  <2>2. Stays(n) \/ Adds(n) \/ Applied(n)
    BY Storing
  <2> QED BY <2>1, <2>2 DEF Stays, Adds, Applied
<1> QED BY <1>1, TypeCorrect, PTL DEF Spec, VersionNeverFalls

\* The version at n wraps around in addKey.
Wraps(n) == n \in Adders /\ version[n] = Versions - 1 /\ version'[n] = 0

\* No step takes the version of a replica back but the wrap-around of its counter.
FallsOnlyByWrap == [][\A n \in Node : version'[n] < version[n] => Wraps(n)]_vars

LEMMA CountsOrWraps ==
  ASSUME NEW v \in Version
  PROVE  NextVersion(v) = v + 1 \/ (v = Versions - 1 /\ NextVersion(v) = 0)
<1>1. v \in Nat /\ v <= Versions - 1 /\ Versions \in Nat \ {0}
  BY BoundAssumption DEF Version
<1>2. CASE v + 1 < Versions
  BY <1>1, <1>2 DEF NextVersion
<1>3. CASE v + 1 = Versions
  BY <1>1, <1>3 DEF NextVersion
<1> QED BY <1>1, <1>2, <1>3

\* Also with a counter of any width, and callers that change keys more often than
\* it can count, a version falls in one place only: from the largest number to 0,
\* in addKey, at a replica whose callers add keys.  No merge, abort or stop takes
\* one back, however often the counters of others have wrapped.
THEOREM OnlyTheCounterFalls == Spec => FallsOnlyByWrap
<1>1. ASSUME TypeOK, [Next]_vars, NEW n \in Node, version'[n] < version[n] PROVE Wraps(n)
  <2> USE <1>1 DEF stored
  <2>1. /\ version[n] \in Int /\ version \in [Node -> Version]
        /\ \A l \in Link : pull[l].version \in Int
    BY DEF TypeOK, Session, Version
  <2>2. CASE UNCHANGED version
    BY <2>1, <2>2
  <2>3. ASSUME NEW m \in Node, NEW a \in Author, NEW k \in PubKey, AddKey(m, a, k)
        PROVE  Wraps(n)
    <3>1. /\ m \in Adders
          /\ version' = [version EXCEPT ![m] = NextVersion(@)] \/ version' = version
      BY <2>3 DEF AddKey
    <3>2. m = n /\ version'[n] = NextVersion(version[n])
      BY <2>1, <3>1
    <3>3. NextVersion(version[n]) = version[n] + 1
            \/ (version[n] = Versions - 1 /\ NextVersion(version[n]) = 0)
      BY <2>1, CountsOrWraps
    <3> QED BY <2>1, <3>1, <3>2, <3>3 DEF Wraps
  <2>4. ASSUME NEW l \in Link, NEW v \in BOOLEAN, NEW s, NEW A,
               Applies(l[1], pull[l]), MergeWrites(l[1], pull[l], v, s, A)
        PROVE  Wraps(n)
    <3>1. Stays(n) \/ Applied(n)
      BY <2>4, MergeStores
    <3> QED BY <2>1, <3>1 DEF Stays, Applied
  <2>5. ASSUME NEW l \in Link, Merge(l) PROVE Wraps(n)
    BY <2>2, <2>4, <2>5 DEF Merge
  <2>6. ASSUME NEW l \in Link, CrashInMerge(l) PROVE Wraps(n)
    BY <2>4, <2>6 DEF CrashInMerge
  <2>7. ASSUME NEW m \in Node, NEW x \in Node, SetAdmin(m, x) PROVE Wraps(n)
    BY <2>2, <2>7 DEF SetAdmin
  <2>8. ASSUME NEW l \in Link, GetHeader(l) \/ GetRequest(l) \/ GetUpdate(l) \/ Drop(l)
        PROVE  Wraps(n)
    BY <2>2, <2>8 DEF GetHeader, GetRequest, GetUpdate, Drop
  <2>9. ASSUME NEW m \in Node, Restart(m) PROVE Wraps(n)
    BY <2>2, <2>9 DEF Restart
  <2>10. CASE UNCHANGED vars
    BY <2>2, <2>10 DEF vars
  <2> QED BY <2>3, <2>5, <2>6, <2>7, <2>8, <2>9, <2>10 DEF Next
<1>2. TypeOK /\ [Next]_vars => [\A n \in Node : version'[n] < version[n] => Wraps(n)]_vars
  BY <1>1
<1> QED BY <1>2, TypeCorrect, PTL DEF Spec, FallsOnlyByWrap

----------------------------------------------------------------------------
(* Nobody is ahead of the admin. *)

\* The table t with version v is not ahead of the admin's.
Behind(t, v) == v <= version[Admin] /\ \A a \in Public : t[a] <= keys[Admin][a]

StoredBehind == \A n \in Node : Behind(keys[n], version[n])
InFlightBehind == \A l \in Link : Behind(pull[l].keys, pull[l].version)

IInv == TypeOK /\ StoredBehind /\ InFlightBehind

LEMMA TableNumbers ==
  ASSUME TypeOK
  PROVE  /\ \A n \in Node : version[n] \in Nat /\ \A a \in Public : keys[n][a] \in Nat
         /\ \A l \in Link : pull[l].version \in Nat /\ \A a \in Public : pull[l].keys[a] \in Nat
BY NodeAssumption DEF TypeOK, Session, Version, KeyMap, PubKey, NoKey, Public

LEMMA InvInit == Init => IInv
<1> SUFFICES ASSUME Init PROVE StoredBehind /\ InFlightBehind
  BY TypeInit DEF IInv
<1> QED BY NodeAssumption DEF Init, StoredBehind, InFlightBehind, Behind, Public, Idle, NoKeys, NoKey

\* The admin's own table has nothing to learn, so it only grows.
LEMMA AdminGrows ==
  ASSUME IInv, [Next]_vars, MaxVersion < Versions
  PROVE  /\ version[Admin] <= version'[Admin]
         /\ \A a \in Public : keys[Admin][a] <= keys'[Admin][a]
<1>1. TypeOK /\ Admin \in Node
  BY NodeAssumption DEF IInv
<1>2. Stays(Admin) \/ Adds(Admin) \/ Applied(Admin)
  BY <1>1, Storing
<1>3. ~ Applied(Admin)
  BY <1>1, TableNumbers DEF Applied, IInv, InFlightBehind, Behind
<1> QED BY <1>1, <1>2, <1>3, TableNumbers DEF Stays, Adds

LEMMA InvStep ==
  ASSUME IInv, [Next]_vars, MaxVersion < Versions, Adders \subseteq {Admin}
  PROVE  IInv'
<1>1. TypeOK /\ TypeOK' /\ Admin \in Node
  BY TypeStep, NodeAssumption DEF IInv
<1>2. \A n \in Node : version'[n] \in Nat /\ \A a \in Public : keys'[n][a] \in Nat
  BY <1>1, NodeAssumption DEF TypeOK, Version, KeyMap, PubKey, NoKey, Public
<1>3. ASSUME NEW t, NEW v \in Nat, \A a \in Public : t[a] \in Nat, Behind(t, v)
      PROVE  v <= version'[Admin] /\ \A a \in Public : t[a] <= keys'[Admin][a]
  BY <1>1, <1>2, <1>3, AdminGrows, TableNumbers DEF Behind
<1>4. StoredBehind'
  <2> SUFFICES ASSUME NEW n \in Node
               PROVE  /\ version'[n] <= version'[Admin]
                      /\ \A a \in Public : keys'[n][a] <= keys'[Admin][a]
    BY DEF StoredBehind, Behind, Public
  <2>1. version[n] <= version'[Admin] /\ \A a \in Public : keys[n][a] <= keys'[Admin][a]
    BY <1>1, <1>3, TableNumbers DEF IInv, StoredBehind
  <2>2. CASE Stays(n)
    BY <2>1, <2>2 DEF Stays
  <2>3. CASE Adds(n)
    BY <1>2, <2>3 DEF Adds
  <2>4. CASE Applied(n)
    <3>1. PICK l \in Link :
            /\ version'[n] \in {version[n], pull[l].version}
            /\ \A a \in Public : keys'[n][a] \in {keys[n][a], pull[l].keys[a]}
      BY <2>4 DEF Applied
    <3>2. /\ pull[l].version <= version'[Admin]
          /\ \A a \in Public : pull[l].keys[a] <= keys'[Admin][a]
      BY <1>1, <1>3, TableNumbers DEF IInv, InFlightBehind
    <3> QED BY <2>1, <3>1, <3>2
  <2> QED BY <1>1, <2>2, <2>3, <2>4, Storing
<1>5. InFlightBehind'
  <2> SUFFICES ASSUME NEW l \in Link
               PROVE  /\ pull'[l].version <= version'[Admin]
                      /\ \A a \in Public : pull'[l].keys[a] <= keys'[Admin][a]
    BY DEF InFlightBehind, Behind, Public
  <2>1. /\ pull[l].version <= version'[Admin]
        /\ \A a \in Public : pull[l].keys[a] <= keys'[Admin][a]
    BY <1>1, <1>3, TableNumbers DEF IInv, InFlightBehind
  <2>2. /\ version[l[2]] <= version'[Admin]
        /\ \A a \in Public : keys[l[2]][a] <= keys'[Admin][a]
    BY <1>1, <1>3, TableNumbers, LinkType DEF IInv, StoredBehind
  <2>3. 0 <= version'[Admin] /\ \A a \in Public : NoKey <= keys'[Admin][a]
    BY <1>1, <1>2 DEF NoKey
  <2> QED BY <1>1, <2>1, <2>2, <2>3, Carrying DEF Carries, Empty, FromPeer
<1> QED BY <1>1, <1>4, <1>5 DEF IInv

\* When addKey is called at the admin only and the counter does not wrap, no
\* replica gets ahead of the admin, in its version or in a key, over any number
\* of relays and whatever stops or fails in the middle of a merge or of addKey.
THEOREM AheadOfNobody ==
  ASSUME MaxVersion < Versions, Adders \subseteq {Admin}
  PROVE  Spec => []NeverAheadOfAdmin
<1>1. IInv => NeverAheadOfAdmin
  BY DEF IInv, StoredBehind, Behind, Public, NeverAheadOfAdmin
<1>2. IInv /\ [Next]_vars => IInv'
  BY InvStep
<1> QED BY InvInit, <1>1, <1>2, PTL DEF Spec
=============================================================================
