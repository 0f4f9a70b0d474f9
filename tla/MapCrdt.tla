------------------------------ MODULE MapCrdt ------------------------------
(***************************************************************************)
(* crdt::MapCRDT over crdt::Register: a map in memory whose entries are    *)
(* registers that take whatever value comes.  A replica pulls all entries  *)
(* of a peer in the four calls getHeader, getRequest, getUpdate, merge.    *)
(* Both getRequest and getUpdate look entries up with operator[], which    *)
(* makes an entry with the default value when there is none.               *)
(* Nothing in merge tells a new update from an old one: a caller in        *)
(* Redeliver may merge an update again, and one with two pulls from a peer *)
(* at once may merge their updates in either order.                        *)
(*                                                                         *)
(* A value is the number of the write it comes from: 0 is the default      *)
(* value, which nobody wrote.                                              *)
(***************************************************************************)
EXTENDS Integers

CONSTANTS Node,       \* the replicas
          Link,       \* the pulls <<n, p>>, or <<n, p, i>> when n may have several
                      \* from its peer p at once
          Writer,     \* the replicas localUpdate is called at
          Key,        \* the keys of the map
          MaxWrites,  \* bound: the writes to a key
          Redeliver   \* the replicas whose callers may merge an update again

ASSUME NodeAssumption ==
  /\ \A l \in Link : l[1] \in Node /\ l[2] \in Node /\ l[1] # l[2]
  /\ Writer \subseteq Node /\ Redeliver \subseteq Node
ASSUME BoundAssumption == MaxWrites \in Nat

Default == 0
Absent == -1
Value == 0..MaxWrites
Entry == Value \cup {Absent}

VARIABLES values,    \* values[n][k]: n's entry for k, or Absent
          written,   \* written[k]: how often k was written (not in the code)
          pull       \* pull[l]: how far the pull l is (in flight)

vars == <<values, written, pull>>

Keys(map) == {k \in Key : map[k] # Absent}

\* A header and a request are a set of keys, an update has a value for each.
Session == [phase : {"idle", "header", "request", "update"},
            keys : SUBSET Key, update : [Key -> Entry]]

Empty == [k \in Key |-> Absent]
Idle == [phase |-> "idle", keys |-> {}, update |-> Empty]

\* A faulty variant of Touched: an entry that is there already is made anew.
Renewed(map, ks) == [k \in Key |-> IF k \in ks THEN Default ELSE map[k]]

\* operator[] for every key of ks.
Touched(map, ks) ==
  [k \in Key |-> IF k \in ks /\ map[k] = Absent THEN Default ELSE map[k]]

TypeOK ==
  /\ values \in [Node -> [Key -> Entry]]
  /\ written \in [Key -> 0..MaxWrites]
  /\ pull \in [Link -> Session]

Init ==
  /\ values = [n \in Node |-> Empty]
  /\ written = [k \in Key |-> 0]
  /\ pull = [l \in Link |-> Idle]

\* MapCRDT::localUpdate: Register::merge takes the new value.
LocalUpdate(n, k) ==
  /\ written[k] < MaxWrites
  /\ written' = [written EXCEPT ![k] = @ + 1]
  /\ values' = [values EXCEPT ![n][k] = written[k] + 1]
  /\ UNCHANGED pull

\* MapCRDT::getHeader at the peer.
GetHeader(l) ==
  /\ pull[l].phase = "idle"
  /\ pull' = [pull EXCEPT ![l] =
       [Idle EXCEPT !.phase = "header", !.keys = Keys(values[l[2]])]]
  /\ UNCHANGED <<values, written>>

\* Faulty variants of GetRequest: no entry is made; only keys the replica has
\* are asked for.
GetRequestOnly(l) ==
  /\ pull[l].phase = "header"
  /\ pull' = [pull EXCEPT ![l].phase = "request"]
  /\ UNCHANGED <<values, written>>
GetRequestKnown(l) ==
  /\ pull[l].phase = "header"
  /\ pull' = [pull EXCEPT ![l].phase = "request",
                          ![l].keys = @ \cap Keys(values[l[1]])]
  /\ UNCHANGED <<values, written>>

\* MapCRDT::getRequest at the puller: an entry for every key of the header.
GetRequest(l) ==
  /\ pull[l].phase = "header"
  /\ values' = [values EXCEPT ![l[1]] = Touched(@, pull[l].keys)]
  /\ pull' = [pull EXCEPT ![l].phase = "request"]
  /\ UNCHANGED written

\* MapCRDT::getUpdate at the peer: an entry, and its value, for every key.
GetUpdate(l) ==
  LET keys == pull[l].keys
      map == Touched(values[l[2]], keys)
      update == [k \in Key |-> IF k \in keys THEN map[k] ELSE Absent]
  IN /\ pull[l].phase = "request"
     /\ values' = [values EXCEPT ![l[2]] = map]
     /\ pull' = [pull EXCEPT ![l] = [Idle EXCEPT !.phase = "update", !.update = update]]
     /\ UNCHANGED written

\* MapCRDT::merge at the puller: every register takes the value of the update,
\* and the caller may keep the update.
Merge(l) ==
  LET update == pull[l].update
  IN /\ pull[l].phase = "update"
     /\ values' = [values EXCEPT ![l[1]] =
          [k \in Key |-> IF update[k] = Absent THEN @[k] ELSE update[k]]]
     /\ \/ pull' = [pull EXCEPT ![l] = Idle]
        \/ l[1] \in Redeliver /\ UNCHANGED pull
     /\ UNCHANGED written

\* The caller merges an update for the last time.
LastMerge(l) == Merge(l) /\ pull'[l] = Idle

\* The value in flight is lost, or the caller gives the pull up.
Drop(l) ==
  /\ pull[l].phase # "idle"
  /\ pull' = [pull EXCEPT ![l] = Idle]
  /\ UNCHANGED <<values, written>>

Next ==
  \/ \E n \in Writer, k \in Key : LocalUpdate(n, k)
  \/ \E l \in Link : GetHeader(l)
  \/ \E l \in Link : GetRequest(l)
  \/ \E l \in Link : GetUpdate(l)
  \/ \E l \in Link : Merge(l)
  \/ \E l \in Link : Drop(l)

Spec == Init /\ [][Next]_vars

\* The callers keep running pulls over every link, and end each of them.
Fairness ==
  \A l \in Link : /\ SF_vars(GetHeader(l))
                  /\ SF_vars(GetRequest(l))
                  /\ SF_vars(GetUpdate(l))
                  /\ SF_vars(LastMerge(l))

FairSpec == Spec /\ Fairness

----------------------------------------------------------------------------
(* Properties. *)

\* Values flow down from the writers: no replica has two peers, nor two pulls
\* at once, and writers have none.
Forest ==
  /\ \A l, q \in Link : l[1] = q[1] => l = q
  /\ \A l \in Link : l[1] \notin Writer

\* What a pull asks for is in the peer's map when getUpdate looks it up, so the
\* peer never makes an entry for it; what it brings is in the puller's map.
RequestsKnown ==
  \A l \in Link :
    /\ pull[l].keys \subseteq Keys(values[l[2]])
    /\ Keys(pull[l].update) \subseteq Keys(values[l[1]])

\* Where values flow down from the writers, one pull of a replica at a time
\* (Forest), no entry ever goes back to an older value, nor to the default value
\* once it has another: also when an update is merged again, late, after the
\* peer has newer values.  The code promises it to no other caller.
ReadsForward == [][\A n \in Node, k \in Key : values'[n][k] >= values[n][k]]_vars

\* Where values flow down, each value or a later one gets to whoever pulls.
Arrives ==
  \A l \in Link, k \in Key : \A v \in 1..MaxWrites :
    values[l[2]][k] = v ~> values[l[1]][k] >= v

\* An entry somebody wrote never falls back to the default value nobody wrote.
WrittenStays ==
  [][\A n \in Node, k \in Key : values[n][k] > Default => values'[n][k] > Default]_vars
=============================================================================
