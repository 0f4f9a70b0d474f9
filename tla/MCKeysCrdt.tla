----------------------------- MODULE MCKeysCrdt -----------------------------
(* An admin and two replicas: one pulls from the admin, the other from both. *)
EXTENDS KeysCrdt

CONSTANTS n1, n2, n3

Three == {n1, n2, n3}
Relay == {<<n2, n1>>, <<n3, n2>>}
Triangle == {<<n2, n1>>, <<n3, n2>>, <<n3, n1>>}

Two == {n1, n2}
Direct == {<<n2, n1>>}

TheAdmin == {n1}
AllAppointAdmin == {<<n, n1>> : n \in Node}
OneMistaken == AllAppointAdmin \cup {<<n2, n2>>}
Last == {n3}
Second == {n2}
=============================================================================
