------------------------------ MODULE KeysCrdt ------------------------------
(***************************************************************************)
(* The key table, replikon::crdt::KeysCrdt over dao::SecurityDao and       *)
(* dao::KeyValueDao: an admin stores the public keys of the authors,       *)
(* counts the changes in a version, and signs the table; the other         *)
(* replicas pull the whole table whenever a peer's version is higher, in   *)
(* the four calls getHeader, getRequest, getUpdate, merge.                 *)
(*                                                                         *)
(* Every statement commits on its own, so a stop of the process between    *)
(* two of them leaves the first ones done.  With Faults a statement may     *)
(* fail, which an assertion notices, or nobody does.  An assertion that     *)
(* fails aborts the process; failed is the one the last step aborted on.    *)
(***************************************************************************)
EXTENDS Integers, FiniteSets

CONSTANTS
  Node,         \* the replicas; a replica's name is also its author name
  Link,         \* the pulls <<n, p>>, or <<n, p, i>> when n may have several
                \* from its peer p at once
  Author,       \* the authors whose keys addKey is called for
  Admin,        \* the replica all callers mean to be the admin
  Appointments, \* the pairs <<n, x>> such that setAdmin is called at n for author x
  Adders,       \* the replicas addKey is called at
  MaxKey,       \* bound: the keys an author goes through
  Versions,     \* the versions a Version can tell apart (2^16 in the code)
  MaxVersion,   \* bound: addKey is not called from this version on
  Provider,     \* "ED25519", or "Lenient": isValid says yes, as NoSecurityProvider's
  Redeliver,    \* the replicas whose callers may merge an update again
  Crashes,      \* TRUE: the process may stop between two statements
  Faults        \* TRUE: a statement may fail to prepare or to step

ASSUME NodeAssumption ==
  /\ IsFiniteSet(Node)
  /\ \A l \in Link : l[1] \in Node /\ l[2] \in Node /\ l[1] # l[2]
  /\ Author \subseteq Node /\ Adders \subseteq Node /\ Appointments \subseteq Node \X Node
  /\ Admin \in Node
ASSUME BoundAssumption ==
  MaxKey \in Nat \ {0} /\ MaxVersion \in Nat /\ Versions \in Nat \ {0}
ASSUME ProviderAssumption == Provider \in {"ED25519", "Lenient"}
ASSUME RegimeAssumption == {Crashes, Faults} \subseteq BOOLEAN /\ Redeliver \subseteq Node

Appointees == {k[2] : k \in Appointments}

NoKey == 0
PubKey == 1..MaxKey              \* the successive keys of an author
SelfKey == 1                     \* the key a replica was started with
Version == 0..(Versions - 1)
KeyMap == [Node -> PubKey \cup {NoKey}]

\* What is signed and what is verified: addKey serializes the pairs of the
\* table, merge the author, the version and the pairs.  Of a vector, serialize
\* writes the number of its elements and as many bytes of its memory; the
\* memory, which does not tell the keys, is left out.
Rows(table) == {x \in Node : table[x] # NoKey}
Pairs(table) == Cardinality(Rows(table))
PairsPayload(table) == <<Pairs(table)>>
UpdatePayload(author, v, table) == <<author, v, Pairs(table)>>
Signature == [signer : Node, payload : {<<k>> : k \in 0..Cardinality(Node)}]
NoSign == [signer |-> "none", payload |-> <<>>]

VARIABLES
  keys,      \* keys[n]: the public keys in n's security table (persistent)
  admins,    \* admins[n]: the authors marked is_admin there (persistent)
  version,   \* version[n]: keys_crdt_version, 0 when there is none (persistent)
  sign,      \* sign[n]: keys_crdt_sign, or NoSign (persistent)
  pull,      \* pull[l]: how far the pull l is (in flight)
  failed     \* the assertion on which the last step aborted, or "none"

vars == <<keys, admins, version, sign, pull, failed>>
stored == <<keys, admins, version, sign>>

\* A header and a request are an author and a version; an update adds the
\* table and its signature.
Session == [phase : {"idle", "header", "request", "update"},
            author : Node, version : Version,
            keys : KeyMap, sign : Signature \cup {NoSign}]

NoKeys == [a \in Node |-> NoKey]
Idle == [phase |-> "idle", author |-> Admin, version |-> 0,
         keys |-> NoKeys, sign |-> NoSign]

Assertion == {"none", "status", "oneAdmin", "sameAdmin", "signature"}

----------------------------------------------------------------------------
TypeOK ==
  /\ keys \in [Node -> KeyMap]
  /\ admins \in [Node -> SUBSET Node]
  /\ version \in [Node -> Version]
  /\ sign \in [Node -> Signature \cup {NoSign}]
  /\ pull \in [Link -> Session]
  /\ failed \in Assertion

Init ==
  /\ keys = [n \in Node |-> NoKeys]
  /\ admins = [n \in Node |-> {}]
  /\ version = [n \in Node |-> 0]
  /\ sign = [n \in Node |-> NoSign]
  /\ pull = [l \in Link |-> Idle]
  /\ failed = "none"

\* The process of n stops and is started again: its pulls are gone.
Reboot(n) == pull' = [l \in Link |-> IF l[1] = n THEN Idle ELSE pull[l]]

\* Assertion c fails in a call at n; Runs: none does.
Abort(n, c) == Reboot(n) /\ failed' = c
Runs == failed' = "none"

\* The rows of table t whose author is in A.
RowsFor(t, A) == [x \in Node |-> IF x \in A THEN t[x] ELSE NoKey]

\* SecurityDao::getAllPublicKeys over the table t: an error ends the loop like
\* the end of the rows does.
PublicKeys(t) == IF Faults THEN {RowsFor(t, A) : A \in SUBSET Rows(t)} ELSE {t}

\* An insert the caller does not look at, of new where old is stored.
Insert(old, new) == IF Faults THEN {old, new} ELSE {new}

\* KeysCrdt::getAdmin finds x marked and no other: getAdminsUserInfo, too, may
\* take an error for the end.
GetsAdmin(n, x) == IF Faults THEN x \in admins[n] ELSE admins[n] = {x}

\* getAdmin, or getPersistedVersion, fails with assertion c: no admin is stored
\* at n, as before setAdmin, or more than one.
GetHeaderFails(n, c) ==
  \/ c = "oneAdmin" /\ (Faults \/ \A x \in Node : admins[n] # {x})
  \/ c = "status" /\ Faults

\* The local getHeader that getRequest and merge begin with fails at n, or names
\* another admin than author.
LocalHeaderFails(n, author, c) ==
  \/ GetHeaderFails(n, c)
  \/ c = "sameAdmin" /\ \E x \in Node : GetsAdmin(n, x) /\ x # author
LocalHeaderAborts(n, author) ==
  \E c \in Assertion : LocalHeaderFails(n, author, c) /\ Abort(n, c)

\* What getUpdate at p fails with, when request names author: also the stored
\* signature may not be there.
GetUpdateFails(p, author, c) ==
  \/ LocalHeaderFails(p, author, c)
  \/ c = "signature" /\ GetsAdmin(p, author) /\ (sign[p] = NoSign \/ Faults)

\* SecurityProvider::sign at n; a lenient provider's signature tells nothing.
Signed(n, payload) ==
  [signer |-> n, payload |-> IF Provider = "ED25519" THEN payload ELSE <<0>>]

\* SecurityProvider::isValid at n.
IsValid(n, s, author, payload) ==
  \/ Provider = "Lenient"
  \/ /\ s.payload = payload
     /\ s.signer = author /\ keys[n][author] = SelfKey

\* getHeader's result at n, with admin x.
Header(n, x) == [Idle EXCEPT !.phase = "header", !.author = x, !.version = version[n]]

\* Faulty variants of Upsert: a key that is there already is kept; the table
\* is replaced by the rows of the update.
InsertOrIgnore(t, update) == [x \in Node |-> IF t[x] = NoKey THEN update[x] ELSE t[x]]
ReplaceTable(t, update) == [x \in {y \in Node : update[y] # NoKey} |-> update[x]]

\* insertPublicKey for every pair of update, in the table t.
Upsert(t, update) == [x \in Node |-> IF update[x] = NoKey THEN t[x] ELSE update[x]]

----------------------------------------------------------------------------
\* Instance::setAdmin: the row is stored, and nothing takes the mark off
\* another author.  The status the assertion looks at is or-ed into a variable
\* that was never set, so the assertion may fail although the row is stored.
SetAdmin(n, x) ==
  /\ <<n, x>> \in Appointments
  /\ \/ /\ admins' = [admins EXCEPT ![n] = @ \cup {x}]
        /\ keys' = [keys EXCEPT ![n][x] = SelfKey]
        /\ \/ Runs /\ UNCHANGED pull
           \/ Abort(n, "status")
     \/ Faults /\ Abort(n, "status") /\ UNCHANGED <<admins, keys>>
  /\ UNCHANGED <<version, sign>>

\* A faulty variant of NextVersion: the version is too narrow.
NarrowVersion(v) == (v + 1) % 2

\* version++ on a uint16_t.
NextVersion(v) == (v + 1) % Versions

\* A faulty variant of AddKey: the table is not signed.
AddKeyUnsigned(n, a, k) ==
  /\ n \in Adders
  /\ version[n] < MaxVersion
  /\ keys[n][a] <= k
  /\ keys' = [keys EXCEPT ![n][a] = k]
  /\ version' = [version EXCEPT ![n] = NextVersion(@)]
  /\ Runs
  /\ UNCHANGED <<admins, sign, pull>>

\* The process stops between two statements, or aborts on the status of one.
Stop(n) ==
  \/ Crashes /\ Reboot(n) /\ Runs
  \/ Faults /\ Abort(n, "status")

\* KeysCrdt::addKey: store the key, count, sign the table.  The caller passes
\* the author's present key or a later one.  Only the statements on the version
\* and the query of the table are looked at.
AddKey(n, a, k) ==
  /\ n \in Adders
  /\ version[n] < MaxVersion
  /\ keys[n][a] <= k
  /\ \E table \in Insert(keys[n], [keys[n] EXCEPT ![a] = k]) :
       /\ keys' = [keys EXCEPT ![n] = table]
       /\ \/ /\ version' = [version EXCEPT ![n] = NextVersion(@)]
             /\ \E t \in PublicKeys(table) :
                \E s \in Insert(sign[n], Signed(n, PairsPayload(t))) :
                  sign' = [sign EXCEPT ![n] = s]
             /\ Runs
             /\ UNCHANGED pull
          \/ /\ version' = [version EXCEPT ![n] = NextVersion(@)]
             /\ UNCHANGED sign
             /\ Stop(n)
          \/ UNCHANGED <<version, sign>> /\ Stop(n)
  /\ UNCHANGED admins

\* KeysCrdt::getHeader at the peer, which aborts when setAdmin was not called there.
GetHeader(l) ==
  LET p == l[2]
  IN /\ pull[l].phase = "idle"
     /\ \/ /\ \E x \in Node : GetsAdmin(p, x) /\ pull' = [pull EXCEPT ![l] = Header(p, x)]
           /\ Runs
        \/ \E c \in Assertion : GetHeaderFails(p, c) /\ Abort(p, c)
     /\ UNCHANGED stored

\* KeysCrdt::getRequest at the puller: nothing to ask for ends the pull.
GetRequest(l) ==
  LET n == l[1]
      header == pull[l]
  IN /\ header.phase = "header"
     /\ \/ LocalHeaderAborts(n, header.author)
        \/ /\ GetsAdmin(n, header.author)
           /\ pull' = [pull EXCEPT ![l] =
                IF version[n] >= header.version THEN Idle ELSE [@ EXCEPT !.phase = "request"]]
           /\ Runs
     /\ UNCHANGED stored

\* KeysCrdt::getUpdate at the peer: the table as it is by now.  When the peer
\* aborts, the pull has no answer.
GetUpdate(l) ==
  LET p == l[2]
      author == pull[l].author
  IN /\ pull[l].phase = "request"
     /\ \/ \E c \in Assertion :
             /\ GetUpdateFails(p, author, c)
             /\ pull' = [k \in Link |-> IF k[1] = p \/ k = l THEN Idle ELSE pull[k]]
             /\ failed' = c
        \/ /\ GetsAdmin(p, author) /\ sign[p] # NoSign
           /\ \E t \in PublicKeys(keys[p]) :
                pull' = [pull EXCEPT ![l] =
                  [phase |-> "update", author |-> author, version |-> version[p],
                   keys |-> t, sign |-> sign[p]]]
           /\ Runs
     /\ UNCHANGED stored

\* Faulty variants of Applies: the stored version is not compared again; the
\* update has to be the very next version.
AppliesAnyVersion(n, update) ==
  IsValid(n, update.sign, update.author,
          UpdatePayload(update.author, update.version, update.keys))
AppliesNextVersion(n, update) ==
  /\ version[n] + 1 = update.version
  /\ IsValid(n, update.sign, update.author,
             UpdatePayload(update.author, update.version, update.keys))

\* merge gets past its assertion and its two early returns.
Applies(n, update) ==
  /\ version[n] < update.version
  /\ IsValid(n, update.sign, update.author,
             UpdatePayload(update.author, update.version, update.keys))

\* The inserts of merge that take effect at n: the version's if v, the
\* signature's if s, and those of the keys of the authors in A.
MergeWrites(n, update, v, s, A) ==
  /\ version' = [version EXCEPT ![n] = IF v THEN update.version ELSE @]
  /\ sign' = [sign EXCEPT ![n] = IF s THEN update.sign ELSE @]
  /\ keys' = [keys EXCEPT ![n] = Upsert(@, RowsFor(update.keys, A))]

\* KeysCrdt::merge at the puller, to its end: version, signature, keys.  Nobody
\* looks at the status of an insert; a key that cannot be read verifies nothing.
\* A caller in Redeliver may keep the update and merge it again.
Merge(l) ==
  LET n == l[1]
      update == pull[l]
      skips == ~ Applies(n, update) \/ (Faults /\ Provider = "ED25519")
  IN /\ update.phase = "update"
     /\ UNCHANGED admins
     /\ \/ LocalHeaderAborts(n, update.author) /\ UNCHANGED <<keys, version, sign>>
        \/ /\ GetsAdmin(n, update.author)
           /\ \/ skips /\ UNCHANGED <<keys, version, sign>>
              \/ /\ Applies(n, update)
                 /\ \E v, s \in BOOLEAN, A \in SUBSET Rows(update.keys) :
                      /\ Faults \/ (v /\ s /\ A = Rows(update.keys))
                      /\ MergeWrites(n, update, v, s, A)
           /\ \/ pull' = [pull EXCEPT ![l] = Idle]
              \/ l[1] \in Redeliver /\ UNCHANGED pull
           /\ Runs

\* The caller merges an update for the last time.
LastMerge(l) == Merge(l) /\ pull'[l] = Idle

\* The process stops inside merge: after the version, or after the signature
\* and some of the keys.
CrashInMerge(l) ==
  LET n == l[1]
      update == pull[l]
  IN /\ Crashes
     /\ update.phase = "update"
     /\ GetsAdmin(n, update.author)
     /\ Applies(n, update)
     /\ \E v, s \in BOOLEAN, A \in SUBSET Rows(update.keys) :
          /\ Faults \/ ((s => v) /\ (A # {} => s))
          /\ MergeWrites(n, update, v, s, A)
     /\ Reboot(n)
     /\ Runs
     /\ UNCHANGED admins

\* The value in flight is lost, or the caller gives the pull up.
Drop(l) ==
  /\ pull[l].phase # "idle"
  /\ pull' = [pull EXCEPT ![l] = Idle]
  /\ Runs
  /\ UNCHANGED stored

\* The process stops between two calls and keeps nothing but its database.
Restart(n) ==
  /\ Reboot(n)
  /\ Runs
  /\ UNCHANGED stored

Next ==
  \/ \E n, x \in Node : SetAdmin(n, x)
  \/ \E n \in Node, a \in Author, k \in PubKey : AddKey(n, a, k)
  \/ \E l \in Link : GetHeader(l)
  \/ \E l \in Link : GetRequest(l)
  \/ \E l \in Link : GetUpdate(l)
  \/ \E l \in Link : Merge(l)
  \/ \E l \in Link : CrashInMerge(l)
  \/ \E l \in Link : Drop(l)
  \/ \E n \in Node : Restart(n)

Spec == Init /\ [][Next]_vars

\* The callers name the admin, keep running pulls over every link, and end each
\* of them.
Fairness ==
  /\ \A n \in Node : WF_vars(SetAdmin(n, Admin))
  /\ \A l \in Link : /\ SF_vars(GetHeader(l))
                     /\ SF_vars(GetRequest(l))
                     /\ SF_vars(GetUpdate(l))
                     /\ SF_vars(LastMerge(l))

FairSpec == Spec /\ Fairness

----------------------------------------------------------------------------
(* Properties. *)

\* Once getRequest has answered, only a caller that names a second admin can make
\* the rest of the pull abort, and only at the replica where it does: getUpdate
\* finds a signature and the admin of the request, merge the admin of the update,
\* although header, request and update were made at other times, and replicas
\* without an admin or with another one abort all around.
OnlySecondAdminAborts ==
  \A l \in Link : \A c \in Assertion :
    LET SecondAdmin(n) == c = "oneAdmin" /\ Cardinality(admins[n]) > 1
    IN /\ pull[l].phase = "request" /\ GetUpdateFails(l[2], pull[l].author, c)
            => SecondAdmin(l[2])
       /\ pull[l].phase = "update" /\ LocalHeaderFails(l[1], pull[l].author, c)
            => SecondAdmin(l[1])

\* Replicas with the same version have the same table: the version is all a
\* replica compares before it decides it has nothing to learn.
VersionMeansKeys ==
  \A n, o \in Node :
    version[n] = version[o] /\ version[n] > 0 =>
      \A a \in Author : keys[n][a] = keys[o][a]

\* An update a replica would apply, sent by the admin itself to a replica that
\* has the admin's key, is one the replica finds correctly signed.
HonestUpdateIsValid ==
  \A l \in Link :
    LET n == l[1]
        update == pull[l]
    IN (update.phase = "update" /\ l[2] = Admin /\ update.author = Admin
          /\ keys[n][Admin] = SelfKey)
       => IsValid(n, update.sign, Admin,
                  UpdatePayload(update.author, update.version, update.keys))

\* No order of pulls, stale updates, crashes and aborts takes a version back:
\* merge compares with the version stored when it runs, not with the one the
\* request was made from.
VersionNeverFalls == [][\A n \in Node : version'[n] >= version[n]]_vars

\* A replica addKey is not called at never gets ahead of the admin, in its
\* version or in the key of any author, though it may apply half an update.
NeverAheadOfAdmin ==
  \A n \in Node \ Adders :
    /\ version[n] <= version[Admin]
    /\ \A a \in Author \ Appointees : keys[n][a] <= keys[Admin][a]

\* What the admin publishes reaches every replica that pulls, over relays, unless
\* a caller names another admin somewhere.
KeysPropagate ==
  \A n \in {l[1] : l \in Link} : \A v \in Version :
    version[Admin] = v
      ~> version[n] >= v \/ \E o \in Node : ~ admins[o] \subseteq {Admin}
=============================================================================
