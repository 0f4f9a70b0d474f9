----------------------------- MODULE MCInstance -----------------------------
(***************************************************************************)
(* An instance of Instance for TLC: the messages of the admin n1 go over   *)
(* the relay n2 to the reader n3.  The users of n2 and n3 name the admin;  *)
(* the user of n3 may also add the admin's key itself, which gives n3 a    *)
(* version of its own that n2 then pulls.  The caller of the relay may     *)
(* merge an update again.                                                  *)
(***************************************************************************)
EXTENDS Instance

CONSTANTS n1, n2, n3, b1

Three == {n1, n2, n3}
UpTheRelay == {<<n2, n1>>, <<n3, n2>>}
FromTheReader == {<<n2, n3>>}
TheAdmin == {n1}
TheOthers == {n2, n3}
TheRelay == {n2}
TheReader == {n3}
OneBody == {b1}
=============================================================================
