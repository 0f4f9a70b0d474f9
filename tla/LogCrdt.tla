------------------------------ MODULE LogCrdt ------------------------------
(***************************************************************************)
(* The message log, replikon::crdt::Log over dao::MessagesDao: every       *)
(* replica keeps its rows in the SQLite table "messages", writes messages  *)
(* of its own with the next lamport number, and pulls the rows it lacks    *)
(* from a peer in four calls that the caller of the library makes one      *)
(* after another:                                                          *)
(*                                                                         *)
(*   header  := peer.getHeader()           request := self.getRequest(header) *)
(*   update  := peer.getUpdate(request)    self.merge(update)              *)
(*                                                                         *)
(* Each call is one atomic action (the library has no threads), and        *)
(* whatever the replicas do between two calls is interleaved.  A value in  *)
(* flight between two calls can be lost, the process can stop and start    *)
(* again on its database file, and merge, which commits row by row, can be *)
(* cut short.  With Faults an SQLite statement may fail: a loop over the   *)
(* rows of a query takes that for the end of the rows, and an insert that  *)
(* fails is not noticed.                                                   *)
(***************************************************************************)
EXTENDS Integers, FiniteSets

CONSTANTS
  Node,        \* the replicas; a replica's name is also its author name
  Link,        \* the pulls <<n, p>>, or <<n, p, i>> when n may have several
               \* from its peer p at once
  Writer,      \* the replicas that write messages of their own
  Keyring,     \* the pairs <<n, a>> such that the caller gives a's key to n
  Body,        \* what a message says (body and origin_ts)
  MaxLamport,  \* bound: messages an author writes
  MaxEpoch,    \* bound: key pairs a replica goes through, minus one
  MaxCopies,   \* bound: rows holding the same message in one table
  Serial,      \* TRUE: a replica finishes or drops a pull before the next one
  Redeliver,   \* the replicas whose callers may merge an update again
  FreshKeys,   \* TRUE: every start generates a new key pair (app/main.cpp)
  Faults       \* TRUE: a statement may fail to prepare or to step

ASSUME LinkAssumption ==
  \A l \in Link : l[1] \in Node /\ l[2] \in Node /\ l[1] # l[2]
ASSUME KeyringAssumption == Keyring \subseteq Node \X Node /\ Writer \subseteq Node
ASSUME BoundAssumption ==
  MaxLamport \in Nat /\ MaxEpoch \in Nat /\ MaxCopies \in Nat \ {0}
ASSUME RegimeAssumption ==
  {Serial, FreshKeys, Faults} \subseteq BOOLEAN /\ Redeliver \subseteq Node

Lamport == 1..MaxLamport
Epoch == 0..MaxEpoch      \* the e-th key pair of a replica
NoKey == -1               \* no row for the author in the security table

\* A signed message: key is the key pair of its author that signed it.
Message == [author : Node, lamport : Lamport, body : Body, key : Epoch]

\* A row of the table; copy tells rows that hold the same message apart.
Row == [msg : Message, copy : 1..MaxCopies]

VARIABLES
  messages,   \* messages[n]: the rows of replica n's table (persistent)
  security,   \* security[n][a]: the key n verifies a's messages with (persistent)
  keyEpoch,   \* keyEpoch[n]: the key pair replica n signs with (in memory)
  pull        \* pull[l]: how far the pull l is (in flight)

vars == <<messages, security, keyEpoch, pull>>

----------------------------------------------------------------------------
(* The table, as dao::MessagesDao queries it. *)

RowsOf(table, a) == {r \in table : r.msg.author = a}
Lamports(table, a) == {r.msg.lamport : r \in RowsOf(table, a)}

\* Faulty variants of IsNextLamport: the "+ 1" is forgotten; COALESCE falls back
\* to 1 where it has to fall back to 0.
LastLamport(table, a, l) ==
  \/ l = 1 /\ Lamports(table, a) = {}
  \/ l \in Lamports(table, a) /\ \A k \in Lamports(table, a) : k <= l
LamportFromTwo(table, a, l) ==
  /\ \A k \in Lamports(table, a) : k < l
  /\ l = 2 \/ l - 1 \in Lamports(table, a)

\* GET_NEXT_LAMPORT: l is one more than the largest lamport of a, or 1.
IsNextLamport(table, a, l) ==
  /\ \A k \in Lamports(table, a) : k < l
  /\ l = 1 \/ l - 1 \in Lamports(table, a)

Copies(table, m) == Cardinality({r \in table : r.msg = m})

\* The table has a message in two rows.
Doubled(table) == \E r, q \in table : r # q /\ r.msg = q.msg

\* INSERT_MESSAGE for every row of batch.  The unique index is on (id, lamport)
\* and id is the row's own key, so no insert is ever ignored.
Insert(table, batch) ==
  table \cup UNION {
    {[msg |-> m, copy |-> c] :
       c \in Copies(table, m) + 1 .. Copies(table, m) + Copies(batch, m)} :
    m \in {r.msg : r \in batch}}

\* The pairs <<lamport, row_number>> of a's rows in lamport order.
Numbered(table, a) ==
  UNION {
    {<<l, k>> :
       k \in Cardinality({r \in RowsOf(table, a) : r.msg.lamport < l}) + 1
          .. Cardinality({r \in RowsOf(table, a) : r.msg.lamport <= l})} :
    l \in Lamports(table, a)}

\* An interval of a header, with the shift of its island: a header lists the
\* intervals of an author in the order of their shifts.
Interval == [shift : Int, start : Lamport, len : 1..MaxLamport]

\* Faulty variants of GetHeaders: the length lacks its "+ 1"; rows are not
\* grouped into islands.
ShortHeaders(table) ==
  [a \in Node |-> {[shift |-> l - 1, start |-> l, len |-> 0] : l \in Lamports(table, a)}]
OneIsland(table) ==
  [a \in Node |->
    {[shift |-> 0, start |-> e[1], len |-> e[2] - e[1] + 1] :
      e \in {x \in Lamports(table, a) \X Lamports(table, a) :
               \A l \in Lamports(table, a) : x[1] <= l /\ l <= x[2]}}]

\* GET_HEADERS: the islands of equal lamport - row_number, each from its
\* smallest to its largest lamport.
GetHeaders(table) ==
  [a \in Node |->
    LET shift(p) == p[1] - p[2]
        numbered == Numbered(table, a)
        IsIsland(p, q) ==
          /\ shift(q) = shift(p)
          /\ \A x \in numbered : shift(x) = shift(p) => p[1] <= x[1] /\ x[1] <= q[1]
    IN {[shift |-> shift(e[1]), start |-> e[1][1], len |-> e[2][1] - e[1][1] + 1] :
          e \in {x \in numbered \X numbered : IsIsland(x[1], x[2])}}]

\* The rows of GET_HEADERS come in the order of shift and author: the header
\* that those of them make which come before shift s, or with s and for A.
Before(header, s, A) ==
  [a \in Node |-> {i \in header[a] : i.shift < s \/ (i.shift = s /\ a \in A)}]

\* What MessagesDao::getHeaders reads: a step that fails ends the loop like the
\* end of the rows does.
HeadersRead(table) ==
  LET header == GetHeaders(table)
      shifts == {i.shift : i \in UNION {header[a] : a \in Node}}
  IN {header} \cup {Before(header, s, A) : s \in {t \in shifts : Faults}, A \in SUBSET Node}

\* A faulty variant of Covered: the end of an interval is one too small.
CoveredButLast(v) ==
  {l \in Lamport : \E i \in v : i.start <= l /\ l < i.start + i.len - 1}

\* The lamports inside the intervals of v.
Covered(v) == {l \in Lamport : \E i \in v : i.start <= l /\ l < i.start + i.len}

\* utils.h: each interval ends before the next one of the vector starts.
IsMonotonicNonColliding(v) ==
  \A i, j \in v :
    (i.shift < j.shift /\ ~ \E k \in v : i.shift < k.shift /\ k.shift < j.shift)
      => i.start + i.len - 1 < j.start

----------------------------------------------------------------------------
(* A pull and what is in flight between its calls. *)

NoHeader == [a \in Node |-> {}]
NoRequest == [a \in Node |-> {}]
NoUpdate == [a \in Node |-> {}]

\* An update maps authors to signed messages, as the rows they come from.
Carried(update) == UNION {update[a] : a \in Node}

Session == [phase : {"idle", "header", "request", "update"},
            header : [Node -> SUBSET Interval],
            request : [Node -> SUBSET Lamport],
            update : [Node -> SUBSET Row]]

Idle == [phase |-> "idle", header |-> NoHeader, request |-> NoRequest,
         update |-> NoUpdate]

\* A faulty variant of Difference: what is there already is asked for again.
NoDifference(v, w) == Covered(v)

\* The intervals intervalsDifference leaves, as the lamports they hold
\* (module IntervalsDifference has the loop itself).
Difference(v, w) == Covered(v) \ Covered(w)

\* A faulty variant of Requested: the join compares with the start only.
FromStart(table, request) ==
  [a \in Node |-> {r \in RowsOf(table, a) : \E l \in request[a] : l <= r.msg.lamport}]

\* GET_MSGS_BY_INTERVALS: the rows of each author whose lamport is requested.
Requested(table, request) ==
  [a \in Node |-> {r \in RowsOf(table, a) : r.msg.lamport \in request[a]}]

\* SecurityProvider::isValid at n: the signature verifies under the key stored for
\* k.  The author signed the message, so the key has to be of a pair of his.
IsValid(n, k, m) == m.author = k /\ security[n][k] = m.key

\* Log::merge inserts what the update has under k and the stored key of k verifies.
Accepted(n, update) ==
  UNION {{r \in update[k] : IsValid(n, k, r.msg)} : k \in Node}

\* Stop the process of n and start it again: pulls of n are gone, the database
\* is not, and with FreshKeys the caller passes a newly generated key pair.
Reboot(n) ==
  /\ IF FreshKeys
       THEN /\ keyEpoch[n] < MaxEpoch
            /\ keyEpoch' = [keyEpoch EXCEPT ![n] = @ + 1]
       ELSE UNCHANGED keyEpoch
  /\ pull' = [l \in Link |-> IF l[1] = n THEN Idle ELSE pull[l]]

----------------------------------------------------------------------------
TypeOK ==
  /\ messages \in [Node -> SUBSET Row]
  /\ security \in [Node -> [Node -> Epoch \cup {NoKey}]]
  /\ keyEpoch \in [Node -> Epoch]
  /\ pull \in [Link -> Session]

Init ==
  /\ messages = [n \in Node |-> {}]
  /\ security = [n \in Node |-> [a \in Node |-> NoKey]]
  /\ keyEpoch = [n \in Node |-> 0]
  /\ pull = [l \in Link |-> Idle]

\* Log::addNewMessage: number, sign and store a message of n's own.  When the
\* insert fails, nothing tells the caller and the log is as before; when the
\* number cannot be read, an assertion aborts (Restart).
AddNewMessage(n, b) ==
  /\ n \in Writer
  /\ \E l \in Lamport :
       LET m == [author |-> n, lamport |-> l, body |-> b, key |-> keyEpoch[n]]
       IN /\ IsNextLamport(messages[n], n, l)
          /\ messages' = [messages EXCEPT ![n] = Insert(@, {[msg |-> m, copy |-> 1]})]
          /\ UNCHANGED <<security, keyEpoch, pull>>

\* Instance::setAdmin, KeysCrdt::addKey or KeysCrdt::merge stores keys at n: of
\* each author the present one, or one it has replaced since.  setAdmin may
\* abort the process after it has stored the key (instance.h:70).
InstallKeys(n) ==
  /\ \E keys \in [Node -> Epoch \cup {NoKey}] :
       /\ \A a \in Node :
            keys[a] # security[n][a] => <<n, a>> \in Keyring /\ keys[a] \in 0..keyEpoch[a]
       /\ security[n] # keys
       /\ security' = [security EXCEPT ![n] = keys]
  /\ Reboot(n) \/ UNCHANGED <<keyEpoch, pull>>
  /\ UNCHANGED messages

\* Log::getHeader at the peer opens a pull.
GetHeader(l) ==
  /\ pull[l].phase = "idle"
  /\ Serial => \A k \in Link : k[1] = l[1] => pull[k].phase = "idle"
  /\ \E header \in HeadersRead(messages[l[2]]) :
       pull' = [pull EXCEPT ![l] = [Idle EXCEPT !.phase = "header", !.header = header]]
  /\ UNCHANGED <<messages, security, keyEpoch>>

\* The assertions of intervalsDifference, evaluated for the authors of header.
Comparable(header, local) ==
  \A a \in Node : header[a] # {} =>
    IsMonotonicNonColliding(header[a]) /\ IsMonotonicNonColliding(local[a])

\* Log::getRequest at the puller.
GetRequest(l) ==
  LET header == pull[l].header
  IN /\ pull[l].phase = "header"
     /\ \E local \in HeadersRead(messages[l[1]]) :
          /\ Comparable(header, local)
          /\ pull' = [pull EXCEPT ![l] =
               [Idle EXCEPT !.phase = "request",
                            !.request = [a \in Node |-> Difference(header[a], local[a])]]]
     /\ UNCHANGED <<messages, security, keyEpoch>>

\* An assertion of intervalsDifference fails in Log::getRequest: the process
\* of the puller aborts, and is started again on the same database.
GetRequestAborts(l) ==
  /\ pull[l].phase = "header"
  /\ \E local \in HeadersRead(messages[l[1]]) : ~ Comparable(pull[l].header, local)
  /\ Reboot(l[1])
  /\ UNCHANGED <<messages, security>>

\* The part of S a loop goes through: all of it, or any part when the statements
\* of the loop, which nobody looks at, may fail.
Part(S) == {T \in SUBSET S : T = S \/ Faults}

\* Log::getUpdate at the peer: an author whose rows cannot be queried is skipped,
\* and the rows end where a step fails.
GetUpdate(l) ==
  LET requested == Requested(messages[l[2]], pull[l].request)
  IN /\ pull[l].phase = "request"
     /\ \E rows \in Part(Carried(requested)) :
          LET update == [a \in Node |-> requested[a] \cap rows]
          IN pull' = [pull EXCEPT ![l] = [Idle EXCEPT !.phase = "update", !.update = update]]
     /\ UNCHANGED <<messages, security, keyEpoch>>

\* Log::merge at the puller, to its end; a row whose key cannot be read or whose
\* insert fails is passed over.  A caller in Redeliver may keep the update
\* and merge it again.
Merge(l) ==
  LET n == l[1]
  IN /\ pull[l].phase = "update"
     /\ \E S \in Part(Accepted(n, pull[l].update)) :
          /\ Insert(messages[n], S) \subseteq Row
          /\ messages' = [messages EXCEPT ![n] = Insert(@, S)]
     /\ \/ pull' = [pull EXCEPT ![l] = Idle]
        \/ l[1] \in Redeliver /\ UNCHANGED pull
     /\ UNCHANGED <<security, keyEpoch>>

\* merge goes through the authors one after another: when it is cut short at
\* most one author is left with some of its rows inserted and some not.
IsPrefix(S, accepted) ==
  LET partial(a) == RowsOf(S, a) \notin {{}, RowsOf(accepted, a)}
  IN \A a, c \in Node : partial(a) /\ partial(c) => a = c

\* The process stops inside Log::merge: every row inserted so far is committed.
CrashInMerge(l) ==
  LET n == l[1]
      accepted == Accepted(n, pull[l].update)
  IN /\ pull[l].phase = "update"
     /\ \E S \in SUBSET accepted :
          /\ Faults \/ IsPrefix(S, accepted)
          /\ Insert(messages[n], S) \subseteq Row
          /\ messages' = [messages EXCEPT ![n] = Insert(@, S)]
     /\ Reboot(n)
     /\ UNCHANGED security

\* The value in flight is lost, or the caller gives the pull up.
Drop(l) ==
  /\ pull[l].phase # "idle"
  /\ pull' = [pull EXCEPT ![l] = Idle]
  /\ UNCHANGED <<messages, security, keyEpoch>>

\* The process stops between two calls, or aborts in one that has changed
\* nothing yet, and is started again.
Restart(n) ==
  /\ Reboot(n)
  /\ UNCHANGED <<messages, security>>

Next ==
  \/ \E n \in Node, b \in Body : AddNewMessage(n, b)
  \/ \E n \in Node : InstallKeys(n)
  \/ \E l \in Link : GetHeader(l)
  \/ \E l \in Link : GetRequest(l)
  \/ \E l \in Link : GetRequestAborts(l)
  \/ \E l \in Link : GetUpdate(l)
  \/ \E l \in Link : Merge(l)
  \/ \E l \in Link : CrashInMerge(l)
  \/ \E l \in Link : Drop(l)
  \/ \E n \in Node : Restart(n)

Spec == Init /\ [][Next]_vars

----------------------------------------------------------------------------
(* Properties. *)

\* Every message of replica n, and every message in flight to it.
Held(n) ==
  {r.msg : r \in messages[n] \cup
                UNION {Carried(pull[l].update) : l \in {k \in Link : k[1] = n}}}

\* An (author, lamport) pair names the same message at every replica and in
\* every update in flight, whatever was lost, cut short, repeated or restarted:
\* getNextLamport never hands out a number again, and merge never alters a row.
LamportIdentifiesMessage ==
  \A n, o \in Node : \A p \in Held(n), q \in Held(o) :
    p.author = q.author /\ p.lamport = q.lamport => p = q

\* Every message, stored or in flight, is in its author's own table, and an
\* author's own lamports have no gap and no two messages of the same number:
\* relays, merges that are repeated or cut short and statements that fail neither
\* make a message up nor mix two into one, and no author skips a number.
NothingInvented ==
  \A n \in Node :
    /\ \A m \in Held(n) : \E r \in messages[m.author] : r.msg = m
    /\ \A k \in Lamports(messages[n], n) : 1..k \subseteq Lamports(messages[n], n)
    /\ \A r, q \in RowsOf(messages[n], n) :
         r.msg.lamport = q.msg.lamport => r.msg = q.msg

\* No table has a message in two rows, though nothing in it would refuse the
\* second: others relay a replica's own messages back to it, and merges cut short
\* are made up for by pulls that overlap with what is there.
RowsOnce == \A n \in Node : ~ Doubled(messages[n])

\* The assertions of intervalsDifference (utils.h) hold of every header a
\* replica would report.
HeadersMonotonic ==
  \A n, a \in Node : IsMonotonicNonColliding(GetHeaders(messages[n])[a])

\* No getRequest ever aborts: the header in flight and the one the puller reads
\* from its own table, which has changed since, pass the assertions together.
RequestsAnswerable ==
  \A l \in Link : pull[l].phase = "header" =>
    \A local \in HeadersRead(messages[l[1]]) : Comparable(pull[l].header, local)

\* In whatever way pulls are made, a getRequest aborts only where a message is in
\* two rows, at the puller or at its peer.
AbortsOnlyOnDoubles ==
  \A l \in Link :
    (pull[l].phase = "header" /\ ~ Doubled(messages[l[1]]) /\ ~ Doubled(messages[l[2]])) =>
      \A local \in HeadersRead(messages[l[1]]) : Comparable(pull[l].header, local)

\* What a request asks for is still missing when the update it brings is merged,
\* although the replica wrote messages since, and the peer still has it.
InFlightStillMissing ==
  \A l \in Link : \A a \in Node :
    LET asked == pull[l].request[a] \cup Lamports(pull[l].update[a], a)
    IN /\ asked \cap Lamports(messages[l[1]], a) = {}
       /\ asked \subseteq Lamports(messages[l[2]], a)

\* The gaps-and-islands query is exact on every table that pulls leave behind,
\* whatever its holes: the intervals hold the stored lamports and no other.  (It
\* is not on a table with rows stored twice: 1, 1, 3 make an interval 1..3.)
HeaderIsExact ==
  \A n, a \in Node :
    Covered(GetHeaders(messages[n])[a]) = Lamports(messages[n], a)

\* Two replicas that report the same intervals hold the same messages: the
\* header alone tells getRequest all it has to know.
SameHeaderSameLog ==
  \A n, o \in Node : \A a \in Node :
    Covered(GetHeaders(messages[n])[a]) = Covered(GetHeaders(messages[o])[a])
      => {r.msg : r \in RowsOf(messages[n], a)} = {r.msg : r \in RowsOf(messages[o], a)}

\* What the tables show of the rows is a grow-only log (module GrowOnlyLog).
Abstract == INSTANCE GrowOnlyLog WITH
  Key <- Epoch,
  view <- [n \in Node |-> {r.msg : r \in messages[n]}]

ImplementsGrowOnlyLog == Abstract!Spec
=============================================================================
