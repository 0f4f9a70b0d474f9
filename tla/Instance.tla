------------------------------ MODULE Instance ------------------------------
(***************************************************************************)
(* replikon::Instance: one process, one database file, and on it both the  *)
(* message log (module LogCrdt) and the key table (module KeysCrdt).  They *)
(* share the table "security": Log::merge verifies a message with the key  *)
(* that setAdmin, addKey or KeysCrdt::merge stored for its author, and     *)
(* drops the message when there is none.  They share the process: what     *)
(* aborts a call of the one also ends the pulls of the other.              *)
(*                                                                         *)
(* Fixed here: the ED25519 provider, as in instance.h; key pairs that the  *)
(* caller keeps across restarts; one key per author; statements that do    *)
(* not fail; a process that stops inside Log::merge, but inside no other   *)
(* call.  LogCrdt and KeysCrdt alone have the other choices.  How a caller *)
(* makes its pulls is left to Serial and Redeliver, as it is there: with   *)
(* overlapping pulls or repeated updates rows of the log may come twice,   *)
(* and Log::getRequest may then abort.                                     *)
(***************************************************************************)
EXTENDS Integers, FiniteSets

CONSTANTS
  Node,        \* the replicas
  LogLink,     \* the pulls <<n, p>>, or <<n, p, i>>, of messages of p by n
  KeyLink,     \* the pulls <<n, p>>, or <<n, p, i>>, of keys of p by n
  Writer,      \* the replicas that write messages
  Body,        \* what a message says
  Admin,       \* the author that the callers of setAdmin name
  Appointing,  \* the replicas setAdmin is called at
  Adders,      \* the replicas addKey is called at
  Author,      \* the authors it is called for
  MaxLamport,  \* bound: messages a writer writes
  MaxVersion,  \* bound: calls of addKey at a replica
  Serial,      \* TRUE: a replica finishes or drops a pull of messages before the next
  Redeliver    \* the replicas whose callers may merge an update again

ASSUME InstanceAssumption ==
  /\ \A l \in LogLink \cup KeyLink : l[1] \in Node /\ l[2] \in Node /\ l[1] # l[2]
  /\ Writer \cup Appointing \cup Adders \cup Author \cup {Admin} \subseteq Node
  /\ IsFiniteSet(Node) /\ {MaxLamport, MaxVersion} \subseteq Nat
  /\ Serial \in BOOLEAN /\ Redeliver \subseteq Node

VARIABLES
  messages, logPull,           \* of the log: see LogCrdt
  keys, admins, version, sign, \* of the key table: see KeysCrdt
  keyPull, failed

\* The user of n may give it the key of author a.
HasKeyFromUser(n, a) ==
  (n \in Appointing /\ a = Admin) \/ (n \in Adders /\ a \in Author)

Keys == INSTANCE KeysCrdt WITH
  Link <- KeyLink, pull <- keyPull,
  Appointments <- {<<n, Admin>> : n \in Appointing}, MaxKey <- 1,
  Versions <- 65536, Provider <- "ED25519", Crashes <- FALSE, Faults <- FALSE

\* The log numbers the key pairs of a replica from 0, and has -1 for no row; it
\* may see, in the shared table, whatever a user may have stored there.
Log == INSTANCE LogCrdt WITH
  Link <- LogLink, pull <- logPull,
  security <- [n \in Node |-> [a \in Node |-> keys[n][a] - 1]],
  keyEpoch <- [n \in Node |-> 0],
  Keyring <- {k \in Node \X Node : HasKeyFromUser(k[1], k[2])},
  MaxEpoch <- 0, MaxCopies <- 2, FreshKeys <- FALSE, Faults <- FALSE

logVars == <<messages, logPull>>
keyVars == <<keys, admins, version, sign, keyPull, failed>>
vars == <<messages, logPull, keys, admins, version, sign, keyPull, failed>>

Init == Keys!Init /\ Log!Init

----------------------------------------------------------------------------
(* Calls of setAdmin and of the key table. *)

\* What such a call at n does to the log: it keeps every row, and the pulls of n
\* unless an assertion has aborted the process.
LogAfter(n) ==
  /\ UNCHANGED messages
  /\ IF failed' = "none" THEN UNCHANGED logPull ELSE Log!Reboot(n)

SetAdmin(n) == Keys!SetAdmin(n, Admin) /\ LogAfter(n)
AddKey(n, a) == Keys!AddKey(n, a, Keys!SelfKey) /\ LogAfter(n)
KeyHeader(l) == Keys!GetHeader(l) /\ LogAfter(l[2])
KeyRequest(l) == Keys!GetRequest(l) /\ LogAfter(l[1])
KeyUpdate(l) == Keys!GetUpdate(l) /\ LogAfter(l[2])
KeyMerge(l) == Keys!Merge(l) /\ LogAfter(l[1])
KeyDrop(l) == Keys!Drop(l) /\ UNCHANGED logVars

----------------------------------------------------------------------------
(* Calls of the log.  An abort in its getRequest ends the pulls of both crdts. *)

AddNewMessage(n, b) == UNCHANGED keyVars /\ Log!AddNewMessage(n, b)
LogHeader(l) == UNCHANGED keyVars /\ Log!GetHeader(l)
LogRequest(l) == UNCHANGED keyVars /\ Log!GetRequest(l)
LogRequestAborts(l) == Keys!Restart(l[1]) /\ Log!GetRequestAborts(l)
LogUpdate(l) == UNCHANGED keyVars /\ Log!GetUpdate(l)
LogMerge(l) == UNCHANGED keyVars /\ Log!Merge(l)
LastMerge(l) == LogMerge(l) /\ logPull'[l] = Log!Idle
LogCrash(l) == Keys!Restart(l[1]) /\ Log!CrashInMerge(l)
LogDrop(l) == UNCHANGED keyVars /\ Log!Drop(l)

\* A faulty variant of Restart: the constructor makes the table of messages anew.
RestartWithoutMessages(n) ==
  /\ Keys!Restart(n)
  /\ messages' = [messages EXCEPT ![n] = {}]
  /\ Log!Reboot(n)

\* The process of n stops and the constructor opens the database again: its
\* CREATE ... IF NOT EXISTS statements leave the tables as they are.
Restart(n) == Keys!Restart(n) /\ Log!Restart(n)

Next ==
  \/ \E n \in Node : SetAdmin(n)
  \/ \E n \in Node, a \in Author : AddKey(n, a)
  \/ \E l \in KeyLink : KeyHeader(l)
  \/ \E l \in KeyLink : KeyRequest(l)
  \/ \E l \in KeyLink : KeyUpdate(l)
  \/ \E l \in KeyLink : KeyMerge(l)
  \/ \E l \in KeyLink : KeyDrop(l)
  \/ \E n \in Node, b \in Body : AddNewMessage(n, b)
  \/ \E l \in LogLink : LogHeader(l)
  \/ \E l \in LogLink : LogRequest(l)
  \/ \E l \in LogLink : LogRequestAborts(l)
  \/ \E l \in LogLink : LogUpdate(l)
  \/ \E l \in LogLink : LogMerge(l)
  \/ \E l \in LogLink : LogCrash(l)
  \/ \E l \in LogLink : LogDrop(l)
  \/ \E n \in Node : Restart(n)

Spec == Init /\ [][Next]_vars

\* The callers keep running pulls of the log over every link, and end each of
\* them: nothing is assumed of the key table, of the writers, or of what is lost.
Fairness ==
  \A l \in LogLink : /\ SF_vars(LogHeader(l))
                     /\ SF_vars(LogRequest(l))
                     /\ SF_vars(LogUpdate(l))
                     /\ SF_vars(LastMerge(l))

FairSpec == Spec /\ Fairness

----------------------------------------------------------------------------
(* Properties. *)

\* Once every replica that pulls has the key of an author, every message of that
\* author reaches all of them, over relays: also a message dropped while the key
\* was missing, and although pulls are cut short, lost, or ended by an abort of
\* the other crdt.  Only a row that is stored twice can keep a message from going
\* on, and where callers finish a pull before the next and merge an update once
\* there is none.  (LogLink has to lead from the author to each of them.)
Spread ==
  \A a \in Writer : \A k \in 1..MaxLamport :
    LET pullers == {l[1] : l \in LogLink} \ {a}
    IN (/\ k \in Log!Lamports(messages[a], a)
        /\ \A n \in pullers : keys[n][a] # Keys!NoKey)
         ~> \/ \A n \in pullers : k \in Log!Lamports(messages[n], a)
            \/ ~ (Serial /\ Redeliver = {}) /\ \E n \in Node : Log!Doubled(messages[n])

\* Seen from the log, the key table is only one more way its keys come about.
ImplementsLog == Log!Spec
=============================================================================
