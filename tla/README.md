# Verification of replikon

replikon is a C++ header library (`src/include`) that keeps replicated data in
SQLite databases and brings replicas together by state exchange: a replica asks
a peer what it has (*header*), works out what it lacks (*request*), gets it
(*update*) and merges it. The library has no network, no threads and no timers:
the program that uses it calls the four functions one after another and carries
the values between the replicas. This directory holds TLA+ models of the
protocols, of their composition in one process and of the SQLite wrapper below them,
TLC runs on small instances, and TLAPS proofs.

## 1. Inventory

| Part | State | Operations | Talks to |
|---|---|---|---|
| `crdt::Log`, `dao::MessagesDao` | table `messages` | `addNewMessage`, `getHeader`, `getRequest`, `getUpdate`, `merge`; queries GET_NEXT_LAMPORT, GET_HEADERS, GET_MSGS_BY_INTERVALS, INSERT_MESSAGE | `intervalsDifference`, security provider, peers |
| `intervalsDifference` (`utils.h`) | two iterators, the copy of `a_vec`, the result | the loop | called by `Log::getRequest` |
| `crdt::KeysCrdt`, `dao::SecurityDao`, `dao::KeyValueDao` | table `security` (key and `is_admin` per author), rows `keys_crdt_version`, `keys_crdt_sign` | `addKey`, `getHeader`, `getRequest`, `getUpdate`, `merge` | security provider, peers; shares `security` with the log |
| `SecurityProvider` (ED25519, none) | the key pair, in memory | `sign`, `isValid` | reads `security` |
| `Instance` | one connection, both CRDTs | constructor, `setAdmin` | everything |
| `MapCRDT`, `Register` | in memory | the four calls again, generically | nothing instantiates them |
| `Sqlite`, `PreparedStatement`, `Expected` | the connection, statement handles, the rows of the temporary table `search_intervals` | `connect`, `prepareStatement`, `bind*`, `step`, `reset`, `column*`, moves, swaps, destructors | used by every dao; vendored SQLite |
| `serde`, traits, logging, hashing | none | conversion, output | |
| `app/main.cpp`, `tests/test_log_crdt.cpp` | | show how a caller drives the library | |

The library is small and single-threaded; what is hard about it:

* **What is in flight is old.** Header, request and update are values computed
  from a database that goes on changing on both sides. The caller may run two
  pulls at once, lose a value or hand one in twice.
* **There are no transactions.** Every `INSERT` commits on its own
  (`keys.h:88` says "this better be a tx"), so a stop of the process inside
  `merge` or `addKey` leaves the statements done so far.
* **A failed step looks like the end.** The loops that read rows
  (`message.h:93`, `message.h:146`, `security.h`) stop at anything that is not a row and report
  success, and the status of most inserts is ignored: the caller gets, or
  stores, a part and is not told.
* **Two CRDTs share a table and a process.** Whether the log accepts a message depends
  on what `setAdmin`, `addKey` or `KeysCrdt::merge` stored; an assertion of one ends the pulls
  of the other.
* **Assertions abort.** `REPLIKON_ASSERT` ends the process unless `NDEBUG` is
  defined (`CMakeLists.txt` sets no build type, so by default it is not); a table
  that makes an assertion fail once makes it fail again after every restart. The
  models are of this build.
* **Keys change under the messages.** `main.cpp:28` generates a key pair at each
  start, on a database that persists; messages are verified against whatever
  key the receiver has by then, and dropped without notice when it does not fit.
* **Uninitialised statuses.** `insertMessage` (`message.h:113`) and the inserts of
  `SecurityDao` (`security.h:59`, `74`, `89`) or statuses into a variable that
  was never set.
* **Interval arithmetic on unsigned numbers** with holes, neighbours and
  overlaps.
* **Lookups that write.** `MapCRDT` finds entries with `operator[]`, which makes
  them.

What makes each part correct:

* log: a number names one message everywhere; nothing is stored that its author
  did not write; the header describes the table exactly; every message gets
  wherever links and keys allow. For callers who make one pull at a time and merge each update
  once, moreover: the request asks for what is missing and still is when the answer comes, no row
  comes twice, no assertion fails. The code promises none of the three to other callers;
* interval difference: terminates with exactly the set difference, in order,
  without underflow;
* key table: a version stands for one table; no version goes back; nobody is
  ahead of the admin; an honest update is accepted; the admin's table reaches
  everybody; once a request was answered, nothing but a second admin aborts the rest of the pull
  (before `setAdmin` its four calls abort, `keys.h:131`);
* map and register: a pull asks for what the peer has, what was written stays written, values
  arrive, and none goes back to an older one where a replica has one peer and one pull at a time;
* Instance: what spreads when both CRDTs run at once; the log does nothing that it would not do
  alone;
* SQLite wrapper: every handle has one owner and is finalized once, on every path; SQLite is called
  as it allows; nothing of a failed call leaks into a later one; an OK means done.

`PROJECT.json` lists the hazards line by line with the property that covers each.

## 2. Modules

```
GrowOnlyLog            what the log promises (abstract)
   ^ implemented by
LogCrdt                the log: tables, keys, pulls, crashes, failing statements
   ^ EXTENDS           MCLogCrdt (TLC), LogCrdtProofs <- LogSerialProofs (TLAPS)
KeysCrdt               the key table: versions, admin, signatures, crashes, failing statements
   ^ EXTENDS           MCKeysCrdt (TLC), KeysCrdtProofs <- KeysSyncProofs (TLAPS)
Instance               both, over one security table and in one process; implements LogCrdt
   ^ EXTENDS           MCInstance (TLC), InstanceProofs (TLAPS)
IntervalsDifference    the loop of utils.h, branch by branch
   ^ EXTENDS           IntervalsDifferenceProofs (TLAPS)
MapCrdt                a map of registers
   ^ EXTENDS           MCMapCrdt (TLC), MapCrdtProofs (TLAPS)
Statements             the SQLite wrapper under every dao function
   ^ EXTENDS           MCStatements (TLC), StatementsProofs (TLAPS)
```

### LogCrdt

| TLA+ | Code |
|---|---|
| `messages[n]` | rows of `messages`; `copy` tells rows with the same content apart, as the primary key `id` does |
| `security[n][a]` | `pub_key` of `a` in `n`'s table, as the number of the key pair, or `NoKey` |
| `keyEpoch[n]` | the key pair given to `n`'s provider |
| `pull[l]` | the value the caller holds between two of the four calls; `l` is `<<n, p>>`, or `<<n, p, i>>` where `n` may have several pulls from `p` at once |
| `Accepted`, `IsValid` | the loop of `Log::merge`: the key is looked up under the map key `k` of the update, and a message is stored under the author it names itself (`log.h:61-66`, `message.h`) |
| `AddNewMessage` | `Log::addNewMessage` |
| `GetHeader`, `GetRequest`, `GetUpdate`, `Merge` | the functions of these names, run to their end |
| `GetRequestAborts` | `getRequest` when an assertion of `intervalsDifference` fails |
| `CrashInMerge` | `merge` cut short: one author's rows may be partly in |
| `InstallKeys` | `setAdmin`, `addKey` or `KeysCrdt::merge` seen from the log: keys of some authors, each one the author has or had, are stored; `setAdmin` may abort after it |
| `Drop`, `Restart` | the caller: a value lost, a process stopped and started |

The SQL is translated to sets: `GetHeaders` has the `ROW_NUMBER` and
the grouping by `lamport - row_number` of GET_HEADERS, on tables with holes and
doubled rows. With `Faults`, `HeadersRead` adds every beginning of that list of rows
(`Before`: the rows come by shift and author), since `getHeaders` takes a step that fails for the
end; `Part` does the same for the rows of `getUpdate` and the inserts of `merge`. No query has an outer `ORDER BY`; an author's intervals are taken
in the order of their islands, which is how SQLite's grouping returns them. `Insert` never ignores a row, because the unique index is on
`(id, lamport)` and `id` is the row's key. An update maps authors
to rows of the peer. `Difference` is the set difference; that the loop of `utils.h` computes it
is what `IntervalsDifference` shows.

`Writer` are the replicas that write; `Keyring` says whose keys a replica may be given.
Regimes: `Faults` — a statement may fail to prepare or to step (binds do not fail, see
section 6); `Serial` — a replica finishes or drops one pull before it opens the
next, as the test does (`test_log_crdt.cpp:60-73`); `Redeliver` — the replicas whose callers may
merge an update again; `FreshKeys` — each start makes a new key pair, as
`main.cpp` does (otherwise the caller passes the same one).

### IntervalsDifference

One action per branch of one iteration: `TakeWhole` (`b` exhausted, or `a`
before `b`), `SkipB`, `Split`, `CutRight`, `Swallow`, `CutLeft`. `a_vec` is
shortened in place, as in the code; `header` remembers the argument.
The arithmetic is that of the integers: `TypeOK` (and its proof) shows that no
subtraction goes below zero, so `uint64_t` gives the same values as long as the
end of an interval is below 2^64.

### KeysCrdt

State: `keys`, `admins`, `version`, `sign` (persistent), `pull` (in flight),
`failed` (the assertion on which the last step aborted). Actions: `SetAdmin`
(which demotes nobody), `AddKey`, `GetHeader`, `GetRequest`, `GetUpdate`,
`Merge`, each with its early returns and aborts, `CrashInMerge`, `Drop` and `Restart`. `Stop` is
a stop, or an abort on a status, between two statements of `addKey`; `MergeWrites` is what of the
inserts of `merge` took effect: version, signature, and the keys of some authors. With `Faults`,
`PublicKeys` and `GetsAdmin` may see a part of the rows, and `Insert` may do nothing.
`GetHeaderFails`, `LocalHeaderFails` and `GetUpdateFails` say which assertions fail when: so
`getHeader`, and `getRequest` and `merge`, which begin with one of their own, abort at a replica
where `setAdmin` was not called yet, or was called for two authors (`keys.h:131`). `Redeliver` are
the replicas whose callers may merge an update again; `LastMerge` is the merge after which the
caller lets go of it.
Signatures are records of the signer and
of the payload: `addKey` signs the pairs of the table, `merge` verifies author,
version and pairs. Of a vector, `serialize` writes the number of elements and that
many *bytes* of its memory (`serde.h:104-106`), so a payload has the number of pairs
only; the bytes of memory are left out, since the two payloads differ without them.

`Provider` selects what `isValid` does: `"ED25519"` as in `provider.h`, or
`"Lenient"`, yes to everything, as in `no_sec_provider.h`. `KeysCrdt` is a template
over its provider; with `NoSecurityProvider` itself `addKey` does not compile
(`std::monostate` has no `begin`), so `"Lenient"` stands for any provider with a
signature of bytes that accepts what it is shown. With `"ED25519"` no update is ever
applied (`keys_signature`), so the protocol behind the check is examined with
`"Lenient"`. `Adders` says at which replicas callers call `addKey`, and
`Appointments` at which, and for whom, `setAdmin`: the code refuses nobody. The
callers of `addKey` are taken to pass an author's present key or a later one.

### MapCrdt

`values[n][k]` is the register of `k` at `n`, `Absent` when the `std::map` has no entry.
A value is the number of the write it comes from, counted in `written`, which is
not in the code; 0 is the value-initialized register. `GetRequest` and `GetUpdate`
make entries as `operator[]` does (`Touched`), `Merge` overwrites, whatever the update's age:
`register.h:24` takes any value. A caller in `Redeliver` keeps an update and merges it again, while
its peer has newer values; a caller with two pulls from a peer, or with two peers, merges in either
order. `ReadsForward` is about callers of the first kind only: its hypothesis `Forest` gives each
replica one peer and one pull at a time. For the others it is false of the code.

### Instance

Instantiates `LogCrdt` and `KeysCrdt` over shared state: the log's `security[n][a]` is
`keys[n][a] - 1` (keys count from 1 with 0 for none, key pairs from 0 with -1 for none), and its
`Keyring` is what the users of the replicas may give them. How callers make pulls of the log is
open here too: `Serial` and `Redeliver` are parameters of `Instance` as they are of `LogCrdt`. Each action is an action of the one
module and what it does to the other: a call of the key table leaves the rows of the log alone and,
when an assertion fails (`failed`), ends the log's pulls of the same process (`LogAfter`);
`LogCrash`, `LogRequestAborts` (the assertions of `utils.h` in `Log::getRequest`) and `Restart` end
the pulls of both. Both CRDTs have the ED25519 provider, as in
`instance.h`. The constructor on an existing database is `Restart`: its
`CREATE ... IF NOT EXISTS` statements change nothing; their failures are in `Statements`.

### Statements

One state machine runs every function that uses the wrapper. `Program` lists, per function, the
operations on statements and results in source order (`prepare`, `check`, `take`, `bind`,
`orStep`, `whileRow`, ...); functions that do the same with the wrapper share one list. The actions
are what an operation does: `Prepare` initializes or assigns an `Expected` (destroying what it
held), `Take` is `std::move(res.value())` (a move into a new statement or a swap with a live one,
`sqlite.h:50`), `Return` destroys the objects of the call, `Abort` ends the process without
destructors. Every `prepare`, `bind` and `step` may fail.

| TLA+ | Code |
|---|---|
| `conn`, `closes` | `Sqlite::_db` and how often it has been passed to `sqlite3_close` |
| `slot[s]` | an `Expected<PreparedStatement>` and up to two statements of the call |
| `stmt[h]` | what is behind handle `h`: its SQL, and whether it is ready, in a row, done or failed |
| `res` | the `SqliteResult` variable, which has any value until it is assigned |
| `search`, `asked`, `todo` | table `search_intervals`, the argument of `getAllMessages`, the rest of it |

## 3. Runs

| Run | What it shows |
|---|---|
| `log_faults` | the worst a log may meet, but for binds: any statement in a loop fails, updates are merged again, every start has a new key pair. Rows are doubled and `getRequest` aborts, yet the tables still implement `GrowOnlyLog`, nothing is made up or mixed, and a number names one message everywhere. One link each way: pulls of one replica do not overlap here |
| `log_holes` | two writers of three messages, merges cut short, two pulls each way of which a caller runs one at a time (`Serial`): headers describe logs with holes exactly, what is in flight is still missing when merged, no row comes twice, and no `getRequest` aborts. Without `Serial` the second pull is the other merge between request and merge that breaks it, see `log_duplicates` |
| `log_duplicates` | **violation**: two overlapping pulls from one peer, each merged once, make the header overlap itself |
| `instance_spread` | a line of three with keys that come late: what the first writes reaches the last over the relay once both have its key, although values are lost, merges cut short, and processes aborted by the one CRDT or the other; the relay's caller merges updates again, which doubles rows, and `Spread` then promises nothing more. To the log, the key table is one more way keys come and processes end |
| `difference` | all pairs of vectors of up to 3 intervals over 1..6 |
| `keys_sync` | no crash, lenient provider, calls before `setAdmin` that abort, a caller who names a second admin, updates merged again: once `getRequest` has answered, only a second admin aborts the rest of a pull; one version is one table; the key table reaches a replica behind a relay unless a second admin was named |
| `keys_crash` | crashes between statements, statements that fail, two pulls into one replica, which merges updates again, a caller that names another admin: no version goes back, nobody is ahead of the admin |
| `keys_torn_merge` | **violation**: a stop inside `merge` leaves a new version with old keys |
| `keys_signature` | **violation**: with ED25519 the admin's own update is turned down |
| `map_downstream` | a line below one writer, updates merged again at any time: values only go forward and arrive, requests ask for keys the peer has |
| `map_defaults` | **violation**: two replicas that pull from each other lose a written value to a default one |
| `statements` | every sequence of dao calls with any prepare, bind or step failing: each open handle has one owner, SQLite is called as it allows, a join sees exactly the intervals of its call, an OK insert was bound and stored, the connection is closed once |

The four violations are real disagreements, recorded under `findings`:

1. *Doubled rows* (`constants.h:18`). `INSERT OR IGNORE` with a unique index on
   `(id, lamport)` ignores nothing. Two overlapping pulls store rows twice, as the trace of the run
   shows, and so does an update that is merged twice, as in `log_faults`; `lamport - row_number` then falls, the islands
   overlap, and `REPLIKON_ASSERT(isMonotonicNonColliding(...))` aborts this
   replica and every peer that gets its header. The rows stay, and so do the
   aborts.
2. *Torn merge* (`keys.h:89`). The version is stored before the keys.
3. *Signature* (`keys.h:109` and `keys.h:83`). What is signed is not what is
   verified, so with the real provider no key table is ever merged; the test
   makes this call and does not look at its result.
4. *Defaults* (`map.h:33`). `getRequest` makes a default entry, and a peer that
   pulls before the value has come takes the default over what it wrote.

### Bounds

* `MaxLamport` 2 or 3: three rows are the fewest with a hole between two islands
  (1 and 3), which is what `log_holes` needs; two are enough for order,
  prefixes and a hole at the start.
* `MaxEpoch` 1 where keys change: one replaced key pair. `MaxCopies` 2: one doubled row, enough
  for a falling shift; it is above one in every run, so a row that came twice would be stored
  and seen, never held back by the bound.
* `Writer` is one replica in `log_faults`, whose faults make each step many: the rows the other
  may hold are then all relayed. `log_holes` has two.
* `Keyring` and `Link`: all pairs of two replicas, or the keys of the writer; two slots for a pair
  where pulls from one peer may overlap, or where it is to be seen that they do not.
* `Redeliver` is everybody in `log_faults`, `keys_sync` and `map_downstream`, the relay in
  `instance_spread`, the last replica, which has two peers, in `keys_crash`; the proofs have any set.
* `instance_spread`: two messages, so that a later one may come first; keys pulled from the reader,
  so that an assertion of the key table can end a pull of the relay. `Versions` is 65536 as in the
  code, `MaxVersion` 1.
* `MaxPoint` 6, `MaxIntervals` 3: intervals that are adjacent, apart, enclosing
  and enclosed, a split that is split again, and either vector exhausted first. The
  proofs need no bound on the vectors.
* `MaxKey` 2, `MaxVersion` 2 for the key table: one change of a key after the first; `keys_crash`
  has one key, for the time it takes with a fault or stop at every statement: there the half of
  `NeverAheadOfAdmin` that is about keys says only that no replica has a key before the admin, and
  the theorem has the rest. `Versions` 8: the
  wrap-around of `uint16_t` lies beyond `MaxVersion`; `NextVersion` has it, the
  runs do not reach it; `OnlyTheCounterFalls` is proved with it.
* `MaxWrites` 2: an older and a newer value of a key, which is what going back takes;
  two keys, so that a header can lack one of them.
* `Handle` has three, one more than a function ever has open; `Interval` two, so that one may be
  left over, missing or in twice. Both are symmetric, as SQLite gives out any free handle. Here no
  number is bounded by anything but the code.
* Replicas are symmetric in `log_holes`, which checks only invariants over all of them; runs with
  temporal properties use no symmetry.

### Fairness

The library schedules nothing; the caller does. `instance_spread`, `keys_sync` and
`map_downstream` assume a caller that keeps running pulls: strong fairness on each of the four
calls per link, since a pull may be dropped again and again; the fourth is `LastMerge`, so a caller
that merges an update again does so finitely often in a row. `keys_sync` adds weak fairness on
naming the intended admin. `instance_spread` assumes nothing of the key table or of the writers:
`Spread` is about replicas that have the key. Nothing is assumed of `Drop`,
`Restart`, `CrashInMerge` or of an abort, which may happen whenever enabled. In the
loop of `IntervalsDifference` weak fairness says that it is executed.

`CHECK_DEADLOCK` is off only for `difference`, whose loop ends.

## 4. Proofs

`LogCrdtProofs`, for all sets of replicas, links, keyrings and bodies, all bounds
and all regimes (so also with doubled rows, crashes, failing statements and changing keys):

* `TypeCorrect`: `Spec => []TypeOK`;
* `Provenance`: `Spec => []NothingInvented`;
* `Agreement`: `Spec => []LamportIdentifiesMessage`;
* `Refinement`: `Spec => ImplementsGrowOnlyLog`;
* `AbstractLogPromises`: `Abstract!Spec => [](OneMessagePerNumber /\ NumbersTell)`, that is, what a
  reader may take from the abstract log: one message for a number, nothing that its author does not
  have, and numbers without gaps. `Refinement` makes it true of the tables read as sets.

The inductive invariant is `IInv`: `TypeOK`; `StoredPublished` and
`InFlightPublished` (what a replica has, and what an update in flight holds, is
in its author's own table); `OwnContiguous` and `OwnDistinct` (an author's own
numbers are 1..k, and each names one message). `LamportIdentifiesMessage` is not
inductive by itself: two replicas agree because both agree with the author,
which is what `StoredPublished` and `OwnDistinct` say. A step
that writes needs that `IsNextLamport` gives a number that is not used; the
other steps need only that nobody's table loses a row and that a row merged at
`n` was published. The refinement maps `AddNewMessage` to `Write`, `Merge` and
`CrashInMerge` to `Learn`, and everything else to a stutter.

`LogSerialProofs`, where a replica finishes or drops one pull before the next, merges an update
once, and its statements do not fail (`SerialRegime`; crashes inside `merge`, lost values and
new key pairs are included):

* `RowsStayOnce`: `Spec => []RowsOnce`;
* `RequestsStayFresh`: `Spec => []InFlightStillMissing`;
* `HeadersStayExact`: `Spec => []HeaderIsExact`;
* `HeadersStayMonotonic`: `Spec => []HeadersMonotonic`;
* `NoGetRequestAborts`: `Spec => []RequestsAnswerable`;
* `HeadersTellLogs`: `Spec => []SameHeaderSameLog`, which is in no run: on two replicas and one
  body it follows from `HeaderIsExact`, and what it adds (equal numbers are equal messages) is
  `LamportIdentifiesMessage`.

And without that hypothesis, so also with overlapping pulls, repeated updates and failing statements:

* `OnlyDoublesAbort`: `Spec => []AbortsOnlyOnDoubles`: a `getRequest` aborts only where a message is
  in two rows, at the puller or its peer. It is in no run; TLC confirmed it under the constants of
  `log_duplicates` and of `log_faults` before the proof.

No index of the database forbids two rows for one `(author, lamport)`. That there are none
(`NoneTwice`) needs requests to ask for nothing that is there, so headers to be exact; and the
gaps-and-islands query is exact because there are none. Both, with what a pull knows of the two
tables (`PullsSound`) and the one pull at a time (`OnePull`), make up `SerialInv`. The heart of
the query is a counting fact, `RankGap`: two numbers of a set whose ranks differ by as
much as they do have all numbers between them in the set.

`HeadersFitLoop` joins the log to the loop of `utils.h`: the intervals of a header, listed by their
shifts, are a vector that satisfies the loop's precondition and holds the author's lamports. By
`Correct` below, the loop then ends with what `LogCrdt` calls `Difference`.

`IntervalsDifferenceProofs`, for vectors of any length over any range:

* `TypeCorrect`: `Spec => []TypeOK` (no underflow, no empty interval);
* `Correct`: `Spec => []ResultIsDifference`;
* `InOrder`: `Spec => []ResultSorted`;
* `EachIterationAdvances`: an iteration passes exactly one interval of the two vectors, so the loop
  runs at most once for each; `Terminates` itself, with its fairness, is TLC's.

Here `IInv` adds to `TypeOK` that both vectors are sorted as a whole, and
`LoopInvariant`: what was put out, together with what is left of `a` without what
is left of `b`, is the difference. The code's assertion looks at neighbours only;
`AdjacentSorted` shows that it implies the order of any two intervals, by
taking the least pair that would break it (well-founded minimum), as no
induction principle with an operator parameter can be used.

`KeysCrdtProofs`, for all replicas, links and authors, both providers, with
crashes and failing statements:

* `TypeCorrect`: `Spec => []TypeOK`;
* `VersionKept`: `Spec => VersionNeverFalls`, if `MaxVersion < Versions`;
* `OnlyTheCounterFalls`: `Spec => FallsOnlyByWrap`, with no hypothesis: where versions do wrap
  around, one falls only from `Versions - 1` to 0, in `addKey`, and no `merge` takes one back;
* `AheadOfNobody`: `Spec => []NeverAheadOfAdmin`, if moreover only the admin's callers
  call `addKey`.

The hypothesis `MaxVersion < Versions` is the absence of the wrap-around of `uint16_t`: without
it `VersionKept` and `AheadOfNobody` are false of the code. The invariant `IInv` puts what is
in flight on a par with what is stored, since an update that left the admin long ago may be
merged now; `Storing` and `Carrying` sum up what a step does to a table and to a pull, so that
the induction goes over four cases and not over all actions. That the admin's own table never
takes an update (`AdminGrows`) is where the version check of `merge` is needed.

`KeysSyncProofs`, for `addKey` called at the admin only, no crash, no failing statement
and no wrap-around (`SyncRegime`), over any links, whomever callers name as admins, with lost values,
repeated updates and restarts:

* `AbortsNeedSecondAdmin`: `Spec => []OnlySecondAdminAborts`. That `getHeader` and `getRequest` abort
  before `setAdmin` is in the model and no property denies it;
* `AbortsComeBeforeSetAdmin`: where all callers name one admin, `getHeader` and `getRequest` abort
  at replicas where `setAdmin` was not called yet and nowhere else, `getUpdate` and `merge` never
  (`OnlyBeforeSetAdmin`, in no run: `keys_sync` has two admins);
* `VersionStandsForTable`: `Spec => []VersionMeansKeys`, for authors that are not admins
  (`setAdmin` stores a key without a version);
* `ReplacedKeyStaysReplaced`: `Spec => KeyNeverFalls`, for the same authors: nobody goes back to a
  key that was replaced. TLC confirmed it over three replicas linked as a triangle before the proof,
  and refuted it there with the version check of `merge` dropped. It is in no run: over the
  chain of `keys_sync` updates reach a replica by one way only, so that the check does not matter,
  and over a triangle the liveness of that run takes TLC too long.

For the first, `SyncInv` says what a pull takes for granted of its two ends (`Grounded`: the admin
it names is one there), and that a replica with a version has a signature. `VersionStandsForTable` is not inductive as it stands, since `merge`
keeps rows that an update lacks: `TablesOrdered` says that tables, stored and in flight, are
ordered as their versions are, so an update lacks no row the puller has;
`ReplacedKeyStaysReplaced` follows from it. A step makes no new table, or the admin's next one (`Old`, `New`).

`InstanceProofs`, for all replicas, links, writers and users:

* `OnlyByOwnKey`: `Spec => []HeldByOwnKey`: whatever a replica holds of another author came in under
  a key its own user gave it. By `SignsUnmergeable` no signature there is, stored or in flight, is
  one of the payload that `merge` verifies, so keys are stored by `setAdmin` and `addKey` only
  (`KeysWritten`);
* `LogAlone`: `Spec => ImplementsLog`.

That the key table is not disturbed by the log either (`KeysAlone`) is a lemma: each action of
`Instance` is one of `KeysCrdt`, `Restart` among them, or leaves it alone. With it and `LogAlone`,
what is proved of each CRDT is carried over to the Instance, where the other
one stores keys and aborts the process in between. `InstanceProofs` instantiates `LogSerialProofs`
and `KeysSyncProofs` with the substitution that `Instance` makes (`LogOf`, `KeysOf`), shows that the
constants satisfy their assumptions, and concludes, however callers make their pulls:

* `LogAbortsOnlyOnDoubles`: `Spec => []Log!AbortsOnlyOnDoubles`;
* `LogKeepsItsPromises`: `NothingInvented` and `LamportIdentifiesMessage` of the log;
  `InstanceIsGrowOnlyLog`: the refinement of `GrowOnlyLog`;

for callers who make one pull of messages at a time and merge each update once (`Serial`,
`Redeliver = {}`, which the code does not enforce):

* `LogKeepsRowsOnce`: `RowsOnce`, `InFlightStillMissing` and `RequestsAnswerable` of the log;

and for the key table:

* `KeysAbortOnlyBeforeSetAdmin`: `OnlyBeforeSetAdmin`, if `addKey` is called at the admin only and
  the version stays below 65536; `VersionsKept`: `VersionNeverFalls`, if it stays below 65536.

`MapCrdtProofs`: `AsksForKnown` (`Spec => []RequestsKnown`, any links) and
`NeverBackwards` (`Spec => ReadsForward`, if `Forest`: one peer and one pull at a time each, none for writers),
both with updates merged again. `IInv` says that what is in flight lies `Between` what the two ends
have.

`StatementsProofs`, for any number of handles SQLite may give out and of intervals a call may be
about:

* `EveryHandleOwned`: `Spec => []OneOwner`; `SqliteUsedLegally`: `Spec => []LegalUse`;
* `SearchIsExact`: `Spec => []SearchExact`; `OkMeansStored`: `Spec => []OkMeansDone`;
* `ConnectionClosedOnce`: `Spec => []ClosedOnce`.

None of the five is inductive: what an operation does is right only because of the operations
before it in its function. The proof is a proof outline, as one writes for a sequential program.
`After(o)` are the operations that may come next after `o`, and `ProgramShape` shows, function by
function, that the seven lists of `Program` go from each operation to one of those. `Found(o)` says
what operation `o` finds when it is next: which objects have a handle, what was bound, what the
variable `result` holds. `IInv` is that (`Ready`), together with `Owned` (each open handle is in one
object), `Connected`, and `Gathered` (the temporary table of `getAllMessages` has the
intervals the loop has been through, place by place, when all went well so far). Each action of
the module then needs one lemma: it leaves what the operations after it find. `IInv` was checked by
TLC on the instance of run `statements` before it was proved.

Only model-checked: the liveness properties (`Spread`, `KeysPropagate`, `Arrives`,
`Terminates`), since fairness and `ENABLED` are beyond the prover. Every other property
of a passing run is a theorem. No module uses a `RECURSIVE` operator.

## 5. Abstractions

* A message's body and time stamp are one value; `type` is not kept by the code
  either. An author's identity is the replica's name, as in the test; callers that give
  two replicas one name are not modelled.
* Cryptography: a signature verifies exactly under the key of the pair that made
  it, over the payload it was made for.
* SQLite executes each statement atomically and durably, or it fails and does nothing. Where it
  may fail is `Faults` in `LogCrdt` and `KeysCrdt`, and every operation in `Statements`.
* `insertMessage`'s uninitialised status only decides whether `merge` returns `MERGED` or
  `SKIPPED`, which nobody looks at; it is left out of `LogCrdt`. `setAdmin`'s decides
  whether an assertion fails, and `SetAdmin` has both outcomes. `Statements` has the variable itself.
* What callers carry between replicas are values the four functions made: all peers run this code.
  So a message of an update is one of the author it is under, signed by him, or was signed with a key
  pair he has replaced; that `merge` stores a message under the author it names itself, whatever
  map key its signature was checked for, shows in no behaviour of the model.
* `failed` is the assertion of the last step, for the properties; the code has no such variable.

## 6. Not modelled

* The vendored SQLite (`src/depends/sqlite3`), 236 000 of the repository's 238 000 lines:
  third-party. What the code requires of it is in `Statements`.
* The byte layout that `serialize` writes, beyond what it keeps of a vector, and `deserialize`, which
  nobody calls. That two messages never serialize alike is taken for granted by `LogCrdt`.
* The build with `NDEBUG`, where assertions check nothing: no build file defines it.
* `insertAllKeys`, `insertTextValue`, `getStringValue`: called by nobody. `Statements` has how they
  use the wrapper, no module what they store.
* What is stored after a bind that fails and is not noticed: in `getNextLamport` (`message.h:130`
  drops the status; the query would then find no row of the author, and number 1 would be given out
  again) and in `getIntegerValue` (`key_value.h:90`). `Faults` fails no bind; `Statements` fails all
  of them, but stores no numbers.
* A body with a NUL, which `columnText` cuts (`sqlite.cpp:70`); a second `connect` on an open
  connection.
* Logging, hashing, type aliases and traits: no state. The printing of `app/main.cpp`.

## 7. Plan

Done: the modules of section 2, with their runs and proofs. What a continuation would add,
in this order:

1. `Serde`: `serialize` as a function to sequences of bytes, with the theorem that it is injective
   on messages, on which `LogCrdt`'s signatures rest.
2. The loop of `IntervalsDifference` run inside `GetRequest`, author by author, instead of
   the two theorems that join them.
3. Failing binds in `Faults` of `LogCrdt` and `KeysCrdt`, and what then is left of
   `LamportIdentifiesMessage`.
4. A run of `KeysCrdt` with two replicas that call `addKey`, and a run over the wrap-around of the
   version (of which `OnlyTheCounterFalls` says only where versions fall), to show what else then
   remains true.
5. `Statements` with `Program` as a constant, and the theorems of `StatementsProofs` for every
   program whose operations follow one another as `After` allows.
