---------------------------- MODULE GrowOnlyLog ----------------------------
(***************************************************************************)
(* What the message log promises, without headers, requests, updates, keys *)
(* or database rows: every replica sees a set of messages that only grows, *)
(* each author numbers its own messages 1, 2, 3, ... and writes them at    *)
(* its own replica, and every other replica only ever learns messages      *)
(* their author has written.  LogCrdt is shown to implement this module.   *)
(***************************************************************************)
EXTENDS Integers

CONSTANTS Node,        \* the replicas; a replica's name is also its author name
          Body,        \* what a message says
          Key,         \* the signing keys
          MaxLamport   \* bound on the numbers an author uses

VARIABLE view          \* view[n]: the messages replica n has

Lamport == 1..MaxLamport
Message == [author : Node, lamport : Lamport, body : Body, key : Key]

\* The numbers author a has used in the set of messages v.
Used(v, a) == {m.lamport : m \in {x \in v : x.author = a}}

\* l is the number that follows those in the set used.
Follows(used, l) == /\ \A k \in used : k < l
                    /\ l = 1 \/ l - 1 \in used

Init == view = [n \in Node |-> {}]

\* Author n writes its next message.
Write(n) ==
  \E m \in Message :
    /\ m.author = n
    /\ Follows(Used(view[n], n), m.lamport)
    /\ view' = [view EXCEPT ![n] = @ \cup {m}]

\* Replica n learns some of what the authors have written.
Learn(n) ==
  \E S \in SUBSET Message :
    /\ \A m \in S : m \in view[m.author]
    /\ view' = [view EXCEPT ![n] = @ \cup S]

Next == \E n \in Node : Write(n) \/ Learn(n)

Spec == Init /\ [][Next]_view

----------------------------------------------------------------------------
(* What a reader of such a log may rely on. *)

\* A number of an author names one message, whatever replica it is read at.
OneMessagePerNumber ==
  \A n, o \in Node : \A p \in view[n], q \in view[o] :
    p.author = q.author /\ p.lamport = q.lamport => p = q

\* A replica has nothing its author does not have, and an author's own messages
\* are numbered from 1 without a gap: what a replica lacks, and who has it, can be
\* told from numbers alone.
NumbersTell ==
  \A n \in Node :
    /\ \A m \in view[n] : m \in view[m.author]
    /\ \A k \in Used(view[n], n) : 1..k \subseteq Used(view[n], n)
=============================================================================
