--------------------------- MODULE InstanceProofs ---------------------------
(***************************************************************************)
(* What TLAPS proves about Instance, for every set of replicas and links,  *)
(* any writers, and any users that name the admin or add keys.             *)
(*                                                                         *)
(* Under ED25519 no update of the key table is ever applied: a signature   *)
(* made by addKey is over one thing, one that merge verifies over three.   *)
(* All that a replica knows of an author then comes from its own user, and *)
(* so does every message it holds of another author.                       *)
(*                                                                         *)
(* Each of the two crdts, seen alone, does what its own module says; so    *)
(* what is proved of it there holds of an Instance.  What that needs of    *)
(* the callers, the theorems name: nothing, or that they finish a pull of  *)
(* messages before the next (Serial) and merge an update once (Redeliver   *)
(* is empty).                                                              *)
(***************************************************************************)
EXTENDS Instance, TLAPS

\* f is a function on S.
OnSet(f, S) == f = [x \in S |-> f[x]]

\* s is not a signature of the payload that merge verifies.
Unmergeable(s) == \A a, v, k : s.payload # <<a, v, k>>

SignsUnmergeable ==
  /\ \A n \in Node : Unmergeable(sign[n])
  /\ \A l \in KeyLink : Unmergeable(keyPull[l].sign)

KeysByUser ==
  \A n, a \in Node : keys[n][a] # Keys!NoKey => HasKeyFromUser(n, a)

KeysInv ==
  /\ keys \in [Node -> [Node -> {0, 1}]]
  /\ OnSet(sign, Node) /\ OnSet(keyPull, KeyLink)
  /\ SignsUnmergeable /\ KeysByUser

\* A message has an author, and is signed with the key pair there is.
Real(table) == \A r \in table : r.msg.author \in Node /\ r.msg.key = 0

LogInv ==
  /\ OnSet(messages, Node) /\ OnSet(logPull, LogLink)
  /\ \A n \in Node : Real(messages[n])
  /\ \A l \in LogLink : Real(Log!Carried(logPull[l].update))

LEMMA LinkEnds ==
  /\ \A l \in LogLink : l[1] \in Node /\ l[2] \in Node
  /\ \A l \in KeyLink : l[1] \in Node /\ l[2] \in Node
BY InstanceAssumption

LEMMA ShortPayloads ==
  /\ Unmergeable(Keys!NoSign)
  /\ \A n, t : Unmergeable(Keys!Signed(n, Keys!PairsPayload(t)))
<1>1. \A a, v, k : <<>> # <<a, v, k>>
  OBVIOUS
<1>2. \A p, a, v, k : <<p>> # <<a, v, k>>
  OBVIOUS
<1> QED BY <1>1, <1>2 DEF Unmergeable, Keys!NoSign, Keys!Signed, Keys!PairsPayload

\* merge finds no update correctly signed.
LEMMA NothingApplies ==
  ASSUME NEW n, NEW u, Unmergeable(u.sign)
  PROVE  ~ Keys!Applies(n, u)
BY DEF Unmergeable, Keys!Applies, Keys!IsValid, Keys!UpdatePayload

LEMMA KeysInit == Init => KeysInv
<1> SUFFICES ASSUME Init PROVE KeysInv
  OBVIOUS
<1>1. Keys!Init
  BY DEF Init
<1>2. keys \in [Node -> [Node -> {0, 1}]] /\ KeysByUser
  BY <1>1 DEF Keys!Init, Keys!NoKeys, Keys!NoKey, KeysByUser
<1>3. OnSet(sign, Node) /\ OnSet(keyPull, KeyLink) /\ SignsUnmergeable
  BY <1>1, ShortPayloads DEF Keys!Init, Keys!Idle, OnSet, SignsUnmergeable
<1> QED BY <1>2, <1>3 DEF KeysInv

\* The user of n gives it the key of a.
Learns(n, a) == HasKeyFromUser(n, a) /\ keys' = [keys EXCEPT ![n][a] = 1]

\* A step that changes a key is a call by the replica's user.
LEMMA KeysWritten ==
  ASSUME KeysInv, [Next]_vars
  PROVE  UNCHANGED keys \/ \E n, a \in Node : Learns(n, a) /\ LogAfter(n)
<1> USE DEF Keys!stored
<1>1. ASSUME NEW n \in Node, SetAdmin(n)
      PROVE  UNCHANGED keys \/ (Learns(n, Admin) /\ LogAfter(n))
  <2>1. <<n, Admin>> \in {<<m, Admin>> : m \in Appointing}
    BY <1>1 DEF SetAdmin, Keys!SetAdmin
  <2>2. n \in Appointing
    BY <2>1
  <2> QED BY <1>1, <2>2 DEF SetAdmin, Keys!SetAdmin, Keys!SelfKey, Learns, HasKeyFromUser
<1>2. ASSUME NEW n \in Node, NEW a \in Author, AddKey(n, a)
      PROVE  Learns(n, a) /\ LogAfter(n)
  <2>1. n \in Adders /\ keys' = [keys EXCEPT ![n] = [keys[n] EXCEPT ![a] = 1]]
    BY <1>2 DEF AddKey, Keys!AddKey, Keys!Insert, Keys!SelfKey
  <2>2. keys' = [keys EXCEPT ![n][a] = 1]
    BY <2>1
  <2> QED BY <1>2, <2>1, <2>2 DEF AddKey, Learns, HasKeyFromUser
<1>3. ASSUME NEW l \in KeyLink, KeyMerge(l) PROVE UNCHANGED keys
  <2>1. ~ Keys!Applies(l[1], keyPull[l])
    BY NothingApplies DEF KeysInv, SignsUnmergeable
  <2> QED BY <1>3, <2>1 DEF KeyMerge, Keys!Merge
<1>4. ASSUME NEW n \in Node, Keys!Restart(n) PROVE UNCHANGED keys
  BY <1>4 DEF Keys!Restart
<1>5. CASE UNCHANGED keyVars
  BY <1>5 DEF keyVars
<1>6. ASSUME NEW l \in KeyLink, KeyHeader(l) \/ KeyRequest(l) \/ KeyUpdate(l) \/ KeyDrop(l)
      PROVE  UNCHANGED keys
  BY <1>6 DEF KeyHeader, Keys!GetHeader, KeyRequest, Keys!GetRequest, KeyUpdate, Keys!GetUpdate,
       KeyDrop, Keys!Drop
<1>7. Author \subseteq Node /\ Admin \in Node
  BY InstanceAssumption
<1> QED
  BY <1>1, <1>2, <1>3, <1>4, <1>5, <1>6, <1>7, LinkEnds DEF Next, vars, keyVars, AddNewMessage,
     LogHeader, LogRequest, LogRequestAborts, LogUpdate, LogMerge, LogCrash, LogDrop, Restart

\* Signatures are made by addKey, and travel.
LEMMA SignsStep ==
  ASSUME KeysInv, [Next]_vars
  PROVE  OnSet(sign, Node)' /\ OnSet(keyPull, KeyLink)' /\ SignsUnmergeable'
<1> DEFINE Good == OnSet(sign, Node) /\ OnSet(keyPull, KeyLink) /\ SignsUnmergeable
<1> USE DEF Keys!stored
<1>1. Good /\ Unmergeable(Keys!Idle.sign)
  BY ShortPayloads DEF KeysInv, Keys!Idle
<1>2. ASSUME UNCHANGED sign, OnSet(keyPull, KeyLink)',
             \A l \in KeyLink : Unmergeable(keyPull'[l].sign)
      PROVE  Good'
  BY <1>1, <1>2 DEF OnSet, SignsUnmergeable
<1>3. ASSUME UNCHANGED sign, NEW n, Keys!Reboot(n) PROVE Good'
  <2>1. OnSet(keyPull, KeyLink)' /\ \A l \in KeyLink : Unmergeable(keyPull'[l].sign)
    BY <1>1, <1>3 DEF Keys!Reboot, OnSet, SignsUnmergeable
  <2> QED BY <1>2, <1>3, <2>1
<1>4. ASSUME UNCHANGED sign, NEW l \in KeyLink, NEW u, keyPull' = [keyPull EXCEPT ![l] = u],
             Unmergeable(u.sign)
      PROVE  Good'
  <2>1. OnSet(keyPull, KeyLink)' /\ \A k \in KeyLink : Unmergeable(keyPull'[k].sign)
    BY <1>1, <1>4 DEF OnSet, SignsUnmergeable
  <2> QED BY <1>2, <1>4, <2>1
<1>5. CASE UNCHANGED <<sign, keyPull>>
  BY <1>1, <1>5 DEF OnSet, SignsUnmergeable
<1>6. ASSUME NEW n \in Node, SetAdmin(n) PROVE Good'
  BY <1>3, <1>5, <1>6 DEF SetAdmin, Keys!SetAdmin, Keys!Abort
<1>7. ASSUME NEW n \in Node, NEW a \in Author, AddKey(n, a) PROVE Good'
  <2>1. PICK t : /\ sign' = [sign EXCEPT ![n] = Keys!Signed(n, Keys!PairsPayload(t))]
                 /\ UNCHANGED keyPull
    BY <1>7 DEF AddKey, Keys!AddKey, Keys!Stop, Keys!Insert
  <2>2. Unmergeable(Keys!Signed(n, Keys!PairsPayload(t)))
    BY ShortPayloads
  <2>3. OnSet(sign, Node)' /\ \A m \in Node : Unmergeable(sign'[m])
    BY <1>1, <2>1, <2>2 DEF OnSet, SignsUnmergeable
  <2> QED BY <1>1, <2>1, <2>3 DEF OnSet, SignsUnmergeable
<1>8. ASSUME NEW l \in KeyLink, KeyHeader(l) PROVE Good'
  <2>1. \A x : Unmergeable(Keys!Header(l[2], x).sign)
    BY ShortPayloads DEF Keys!Header, Keys!Idle
  <2> QED BY <1>3, <1>4, <1>8, <2>1 DEF KeyHeader, Keys!GetHeader, Keys!Abort
<1>9. ASSUME NEW l \in KeyLink, KeyRequest(l) PROVE Good'
  <2> DEFINE request == [keyPull[l] EXCEPT !.phase = "request"]
  <2>1. Unmergeable(keyPull[l].sign) /\ Unmergeable(Keys!Idle.sign)
    BY <1>1 DEF SignsUnmergeable
  <2>2. request.sign = keyPull[l].sign
    OBVIOUS
  <2> HIDE DEF request
  <2> QED BY <1>3, <1>4, <1>9, <2>1, <2>2
     DEF KeyRequest, Keys!GetRequest, Keys!LocalHeaderAborts, Keys!Abort, request
<1>10. ASSUME NEW l \in KeyLink, KeyUpdate(l) PROVE Good'
  <2>1. Unmergeable(sign[l[2]])
    BY <1>1, LinkEnds DEF SignsUnmergeable
  <2>2. CASE keyPull' = [k \in KeyLink |-> IF k[1] = l[2] \/ k = l THEN Keys!Idle ELSE keyPull[k]]
    <3>1. OnSet(keyPull, KeyLink)' /\ \A k \in KeyLink : Unmergeable(keyPull'[k].sign)
      BY <1>1, <2>2 DEF OnSet, SignsUnmergeable
    <3> QED BY <1>2, <1>10, <3>1 DEF KeyUpdate, Keys!GetUpdate
  <2>3. ASSUME NEW t, keyPull' = [keyPull EXCEPT ![l] =
                 [phase |-> "update", author |-> keyPull[l].author,
                  version |-> version[l[2]], keys |-> t, sign |-> sign[l[2]]]]
        PROVE  Good'
    <3> DEFINE u == [phase |-> "update", author |-> keyPull[l].author,
                     version |-> version[l[2]], keys |-> t, sign |-> sign[l[2]]]
    <3>1. Unmergeable(u.sign) /\ keyPull' = [keyPull EXCEPT ![l] = u] /\ UNCHANGED sign
      BY <1>10, <2>1, <2>3 DEF KeyUpdate, Keys!GetUpdate
    <3> HIDE DEF u
    <3> QED BY <1>4, <3>1
  <2> QED BY <1>10, <2>2, <2>3 DEF KeyUpdate, Keys!GetUpdate
<1>11. ASSUME NEW l \in KeyLink, KeyMerge(l) PROVE Good'
  <2>1. ~ Keys!Applies(l[1], keyPull[l])
    BY <1>1, NothingApplies DEF SignsUnmergeable
  <2> QED BY <1>1, <1>3, <1>4, <1>5, <1>11, <2>1
     DEF KeyMerge, Keys!Merge, Keys!LocalHeaderAborts, Keys!Abort
<1>12. ASSUME NEW l \in KeyLink, KeyDrop(l) PROVE Good'
  BY <1>1, <1>4, <1>12 DEF KeyDrop, Keys!Drop
<1>13. ASSUME NEW n \in Node, Keys!Restart(n) PROVE Good'
  BY <1>3, <1>13 DEF Keys!Restart
<1>14. CASE UNCHANGED keyVars
  BY <1>5, <1>14 DEF keyVars
<1> QED
  BY <1>6, <1>7, <1>8, <1>9, <1>10, <1>11, <1>12, <1>13, <1>14, LinkEnds
     DEF Next, vars, keyVars, AddNewMessage,
     LogHeader, LogRequest, LogRequestAborts, LogUpdate, LogMerge, LogCrash, LogDrop, Restart

LEMMA KeysStep ==
  ASSUME KeysInv, [Next]_vars
  PROVE  KeysInv'
<1>1. keys \in [Node -> [Node -> {0, 1}]]
  BY DEF KeysInv
<1>2. ASSUME NEW n \in Node, NEW a \in Node, Learns(n, a)
      PROVE  keys' \in [Node -> [Node -> {0, 1}]] /\ KeysByUser'
  BY <1>1, <1>2 DEF Learns, KeysInv, KeysByUser, Keys!NoKey, HasKeyFromUser
<1>3. ASSUME UNCHANGED keys
      PROVE  keys' \in [Node -> [Node -> {0, 1}]] /\ KeysByUser'
  BY <1>1, <1>3 DEF KeysInv, KeysByUser, Keys!NoKey, HasKeyFromUser
<1>4. keys' \in [Node -> [Node -> {0, 1}]] /\ KeysByUser'
  BY <1>2, <1>3, KeysWritten
<1> QED BY <1>4, SignsStep DEF KeysInv

----------------------------------------------------------------------------
(* The log. *)

LEMMA Inserted ==
  ASSUME NEW table, NEW batch, NEW r \in Log!Insert(table, batch)
  PROVE  r \in table \/ \E x \in batch : r.msg = x.msg
BY DEF Log!Insert

\* What merge accepts, the replica has the author's key for.
LEMMA AcceptedHasKey ==
  ASSUME KeysInv, NEW n \in Node, NEW update, Real(Log!Carried(update)),
         NEW r \in Log!Accepted(n, update)
  PROVE  /\ r.msg.author \in Node /\ r.msg.key = 0
         /\ keys[n][r.msg.author] # Keys!NoKey /\ HasKeyFromUser(n, r.msg.author)
<1>1. PICK k \in Node : r \in update[k] /\ Log!IsValid(n, k, r.msg)
  BY DEF Log!Accepted
<1>2. r.msg.author \in Node /\ r.msg.key = 0 /\ r.msg.author = k
  BY <1>1 DEF Log!Carried, Real, Log!IsValid
<1>3. keys[n][k] - 1 = 0 /\ keys[n][k] \in {0, 1}
  BY <1>1, <1>2 DEF Log!IsValid, KeysInv
<1>4. keys[n][k] # Keys!NoKey
  BY <1>3 DEF Keys!NoKey
<1> QED BY <1>2, <1>4 DEF KeysInv, KeysByUser

\* No step takes a key away.
LEMMA KeysStay ==
  ASSUME KeysInv, [Next]_vars, NEW n \in Node, NEW a \in Node, keys[n][a] # Keys!NoKey
  PROVE  keys'[n][a] # Keys!NoKey
<1>1. keys \in [Node -> [Node -> {0, 1}]]
  BY DEF KeysInv
<1>2. ASSUME NEW m \in Node, NEW b \in Node, Learns(m, b) PROVE keys'[n][a] # Keys!NoKey
  BY <1>1, <1>2 DEF Learns, Keys!NoKey
<1> QED BY <1>2, KeysWritten

\* What a step does to the tables of messages and to the updates: a replica may
\* store a message of its own, or what merge accepts; an update is a part of the
\* peer's table.
Writes(n) ==
  \E batch :
    /\ messages' = [messages EXCEPT ![n] = Log!Insert(@, batch)]
    /\ \A r \in batch :
         \/ r.msg.author = n /\ r.msg.key = 0
         \/ \E l \in LogLink : l[1] = n /\ r \in Log!Accepted(n, logPull[l].update)

Ships(l) ==
  \E u : /\ logPull' = [logPull EXCEPT ![l] = u]
         /\ Log!Carried(u.update) \subseteq messages[l[2]] \cup Log!Carried(logPull[l].update)

LEMMA NothingCarried == Log!Carried(Log!Idle.update) = {}
BY DEF Log!Idle, Log!NoUpdate, Log!Carried

LEMMA LogWritten ==
  ASSUME [Next]_vars
  PROVE  /\ UNCHANGED messages \/ \E n \in Node : Writes(n)
         /\ \/ UNCHANGED logPull
            \/ \E n \in Node : Log!Reboot(n)
            \/ \E l \in LogLink : Ships(l)
<1> DEFINE Pulls == \/ UNCHANGED logPull
                    \/ \E n \in Node : Log!Reboot(n)
                    \/ \E l \in LogLink : Ships(l)
<1>1. ASSUME NEW l \in LogLink, logPull' = [logPull EXCEPT ![l] = Log!Idle] PROVE Pulls
  BY <1>1, NothingCarried DEF Ships
<1>2. ASSUME NEW n \in Node, LogAfter(n) PROVE UNCHANGED messages /\ Pulls
  BY <1>2 DEF LogAfter
<1>3. ASSUME NEW n \in Node, NEW b \in Body, AddNewMessage(n, b) PROVE Writes(n) /\ Pulls
  <2> DEFINE row(k) == [msg |-> [author |-> n, lamport |-> k, body |-> b, key |-> 0],
                        copy |-> 1]
  <2>1. PICK k : /\ UNCHANGED logPull
                 /\ messages' = [messages EXCEPT ![n] = Log!Insert(@, {row(k)})]
    BY <1>3 DEF AddNewMessage, Log!AddNewMessage
  <2>2. \A r \in {row(k)} : r.msg.author = n /\ r.msg.key = 0
    OBVIOUS
  <2> DEFINE own == {row(k)}
  <2>3. /\ messages' = [messages EXCEPT ![n] = Log!Insert(@, own)]
        /\ \A r \in own : r.msg.author = n /\ r.msg.key = 0
    BY <2>1, <2>2
  <2> HIDE DEF own
  <2>4. Writes(n)
    BY <2>3 DEF Writes
  <2> QED BY <2>1, <2>4
<1>4. ASSUME NEW l \in LogLink, LogHeader(l) PROVE UNCHANGED messages /\ Pulls
  <2>1. PICK h : /\ UNCHANGED messages
                 /\ logPull' = [logPull EXCEPT ![l] =
                      [Log!Idle EXCEPT !.phase = "header", !.header = h]]
    BY <1>4 DEF LogHeader, Log!GetHeader
  <2>2. [Log!Idle EXCEPT !.phase = "header", !.header = h].update = Log!Idle.update
    BY DEF Log!Idle
  <2> QED BY <2>1, <2>2, NothingCarried DEF Ships
<1>5. ASSUME NEW l \in LogLink, LogRequest(l) PROVE UNCHANGED messages /\ Pulls
  <2>1. PICK q : /\ UNCHANGED messages
                 /\ logPull' = [logPull EXCEPT ![l] =
                      [Log!Idle EXCEPT !.phase = "request", !.request = q]]
    BY <1>5 DEF LogRequest, Log!GetRequest
  <2>2. [Log!Idle EXCEPT !.phase = "request", !.request = q].update = Log!Idle.update
    BY DEF Log!Idle
  <2> QED BY <2>1, <2>2, NothingCarried DEF Ships
<1>6. ASSUME NEW l \in LogLink, LogUpdate(l) PROVE UNCHANGED messages /\ Pulls
  <2> DEFINE requested == Log!Requested(messages[l[2]], logPull[l].request)
  <2>1. PICK rows :
          /\ UNCHANGED messages
          /\ logPull' = [logPull EXCEPT ![l] = [Log!Idle EXCEPT !.phase = "update",
               !.update = [a \in Node |-> requested[a] \cap rows]]]
    BY <1>6 DEF LogUpdate, Log!GetUpdate
  <2> DEFINE u == [a \in Node |-> requested[a] \cap rows]
  <2>2. \A a \in Node : u[a] \subseteq messages[l[2]]
    BY DEF Log!Requested, Log!RowsOf
  <2>3. logPull' = [logPull EXCEPT ![l] = [Log!Idle EXCEPT !.phase = "update", !.update = u]]
    BY <2>1
  <2> HIDE DEF u
  <2>4. [Log!Idle EXCEPT !.phase = "update", !.update = u].update = u
    BY DEF Log!Idle
  <2>5. Log!Carried(u) \subseteq messages[l[2]]
    BY <2>2 DEF Log!Carried
  <2> QED BY <2>1, <2>3, <2>4, <2>5 DEF Ships
<1>7. ASSUME NEW l \in LogLink, LogMerge(l) PROVE Writes(l[1]) /\ Pulls
  <2>1. Writes(l[1])
    BY <1>7 DEF LogMerge, Log!Merge, Log!Part, Writes
  <2>2. UNCHANGED logPull \/ logPull' = [logPull EXCEPT ![l] = Log!Idle]
    BY <1>7 DEF LogMerge, Log!Merge
  <2> QED BY <1>1, <2>1, <2>2
<1>8. ASSUME NEW l \in LogLink, LogCrash(l) PROVE Writes(l[1]) /\ Pulls
  <2>1. Writes(l[1])
    BY <1>8 DEF LogCrash, Log!CrashInMerge, Writes
  <2>2. Log!Reboot(l[1])
    BY <1>8 DEF LogCrash, Log!CrashInMerge
  <2> QED BY <2>1, <2>2, LinkEnds
<1>9. ASSUME NEW l \in LogLink, LogDrop(l) PROVE UNCHANGED messages /\ Pulls
  BY <1>1, <1>9 DEF LogDrop, Log!Drop
<1>10. ASSUME NEW n \in Node, Restart(n) PROVE UNCHANGED messages /\ Pulls
  BY <1>10 DEF Restart, Log!Restart
<1>11. ASSUME UNCHANGED logVars PROVE UNCHANGED messages /\ Pulls
  BY <1>11 DEF logVars
<1>12. ASSUME NEW l \in LogLink, LogRequestAborts(l) PROVE UNCHANGED messages /\ Pulls
  BY <1>12, LinkEnds DEF LogRequestAborts, Log!GetRequestAborts
<1> HIDE DEF Pulls
<1>13. (UNCHANGED messages \/ \E n \in Node : Writes(n)) /\ Pulls
  BY <1>2, <1>3, <1>4, <1>5, <1>6, <1>7, <1>8, <1>9, <1>10, <1>11, <1>12, LinkEnds
     DEF Next, vars, logVars, SetAdmin, AddKey, KeyHeader, KeyRequest, KeyUpdate, KeyMerge, KeyDrop
<1> QED BY <1>13 DEF Pulls

\* Every message n holds of another author came in under that author's key, which
\* n has because its own user may give it.
HeldByOwnKey ==
  \A n \in Node : \A r \in messages[n] :
    LET a == r.msg.author
    IN a # n => keys[n][a] # Keys!NoKey /\ HasKeyFromUser(n, a)

HeldInv == KeysInv /\ LogInv /\ HeldByOwnKey

LEMMA HeldInit == Init => HeldInv
<1> SUFFICES ASSUME Init PROVE LogInv /\ HeldByOwnKey
  BY KeysInit DEF HeldInv
<1>1. Log!Init
  BY DEF Init
<1> QED BY <1>1, NothingCarried DEF Log!Init, LogInv, OnSet, Real, HeldByOwnKey

LEMMA HeldStep ==
  ASSUME HeldInv, [Next]_vars
  PROVE  HeldInv'
<1>1. KeysInv /\ LogInv /\ HeldByOwnKey /\ KeysInv'
  BY KeysStep DEF HeldInv
<1>2. ASSUME NEW n \in Node, NEW r \in messages[n]
      PROVE  /\ r.msg.author \in Node /\ r.msg.key = 0
             /\ r.msg.author # n =>
                  keys'[n][r.msg.author] # Keys!NoKey /\ HasKeyFromUser(n, r.msg.author)
  BY <1>1, KeysStay DEF LogInv, Real, HeldByOwnKey
<1>3. ASSUME NEW n \in Node, NEW r \in messages'[n]
      PROVE  /\ r.msg.author \in Node /\ r.msg.key = 0
             /\ r.msg.author # n =>
                  keys'[n][r.msg.author] # Keys!NoKey /\ HasKeyFromUser(n, r.msg.author)
  <2>1. CASE r \in messages[n]
    BY <1>2, <2>1
  <2>2. CASE r \notin messages[n]
    <3>0. PICK m \in Node : Writes(m)
      BY <2>2, LogWritten
    <3>1. PICK batch :
            /\ messages' = [messages EXCEPT ![m] = Log!Insert(@, batch)]
            /\ \A x \in batch :
                 \/ x.msg.author = m /\ x.msg.key = 0
                 \/ \E l \in LogLink : l[1] = m /\ x \in Log!Accepted(m, logPull[l].update)
      BY <3>0 DEF Writes
    <3>2. m = n /\ r \in Log!Insert(messages[n], batch)
      BY <1>1, <1>3, <2>2, <3>1 DEF LogInv, OnSet
    <3>3. PICK x \in batch : r.msg = x.msg
      BY <2>2, <3>2, Inserted
    <3>4. CASE x.msg.author = n /\ x.msg.key = 0
      BY <3>3, <3>4
    <3>5. ASSUME NEW l \in LogLink, x \in Log!Accepted(n, logPull[l].update)
          PROVE  /\ r.msg.author \in Node /\ r.msg.key = 0
                 /\ keys'[n][r.msg.author] # Keys!NoKey /\ HasKeyFromUser(n, r.msg.author)
      <4>1. Real(Log!Carried(logPull[l].update))
        BY <1>1 DEF LogInv
      <4>2. /\ x.msg.author \in Node /\ x.msg.key = 0
            /\ keys[n][x.msg.author] # Keys!NoKey /\ HasKeyFromUser(n, x.msg.author)
        BY <1>1, <3>5, <4>1, AcceptedHasKey
      <4> QED BY <1>1, <3>3, <4>2, KeysStay
    <3> QED BY <3>1, <3>2, <3>4, <3>5
  <2> QED BY <2>1, <2>2
<1>4. HeldByOwnKey'
  BY <1>3 DEF HeldByOwnKey, HasKeyFromUser, Keys!NoKey
<1>5. ASSUME NEW l \in LogLink
      PROVE  Real(Log!Carried(logPull'[l].update)) /\ OnSet(logPull', LogLink)
  <2>1. CASE UNCHANGED logPull
    BY <1>1, <2>1 DEF LogInv
  <2>2. ASSUME NEW n \in Node, Log!Reboot(n)
        PROVE  Real(Log!Carried(logPull'[l].update)) /\ OnSet(logPull', LogLink)
    BY <1>1, <2>2, NothingCarried DEF Log!Reboot, LogInv, OnSet, Real
  <2>3. ASSUME NEW k \in LogLink, Ships(k)
        PROVE  Real(Log!Carried(logPull'[l].update)) /\ OnSet(logPull', LogLink)
    <3>1. PICK u : /\ logPull' = [logPull EXCEPT ![k] = u]
                   /\ Log!Carried(u.update)
                        \subseteq messages[k[2]] \cup Log!Carried(logPull[k].update)
      BY <2>3 DEF Ships
    <3>2. /\ Real(messages[k[2]]) /\ Real(Log!Carried(logPull[k].update))
          /\ Real(Log!Carried(logPull[l].update))
      BY <1>1, LinkEnds DEF LogInv
    <3>3. Real(Log!Carried(u.update))
      BY <3>1, <3>2 DEF Real
    <3>4. logPull'[l] = IF l = k THEN u ELSE logPull[l]
      BY <1>1, <3>1 DEF LogInv, OnSet
    <3>5. OnSet(logPull', LogLink)
      BY <1>1, <3>1 DEF LogInv, OnSet
    <3> QED BY <3>2, <3>3, <3>4, <3>5
  <2> QED BY <2>1, <2>2, <2>3, LogWritten
<1>6. OnSet(messages', Node)
  BY <1>1, LogWritten DEF Writes, LogInv, OnSet
<1>7. \A n \in Node : Real(messages'[n])
  BY <1>3 DEF Real
<1>8. OnSet(logPull', LogLink)
  BY <1>1, <1>5, LogWritten DEF LogInv, OnSet, Log!Reboot, Ships
<1>9. LogInv'
  BY <1>5, <1>6, <1>7, <1>8 DEF LogInv, OnSet, Real
<1> QED BY <1>1, <1>4, <1>9 DEF HeldInv

\* Every message a replica holds of another author came in under a key that the
\* replica's own user gave it: the key table carries a key to nobody, so a relay
\* that trusts an author cannot make the next replica trust it.
THEOREM OnlyByOwnKey == Spec => []HeldByOwnKey
<1>1. HeldInv => HeldByOwnKey
  BY DEF HeldInv
<1> QED BY HeldInit, HeldStep, <1>1, PTL DEF Spec

----------------------------------------------------------------------------
(* Each CRDT seen alone. *)

\* Together with the log, the key table makes no step that KeysCrdt does not
\* have: what KeysCrdtProofs has of the table alone holds of it in an Instance.
LEMMA KeysAlone == Spec => Keys!Spec
<1>1. Init => Keys!Init
  BY DEF Init
<1>2. [Next]_vars => [Keys!Next]_(Keys!vars)
  <2> SUFFICES ASSUME [Next]_vars PROVE [Keys!Next]_(Keys!vars)
    OBVIOUS
  <2>1. CASE UNCHANGED keyVars
    BY <2>1 DEF keyVars, Keys!vars
  <2>2. ASSUME NEW n \in Node, Keys!Restart(n) PROVE Keys!Next
    BY <2>2 DEF Keys!Next
  <2>3. ASSUME NEW n \in Node, SetAdmin(n) PROVE Keys!Next
    BY <2>3, InstanceAssumption DEF SetAdmin, Keys!Next
  <2>4. ASSUME NEW n \in Node, NEW a \in Author, AddKey(n, a) PROVE Keys!Next
    <3>1. Keys!SelfKey \in Keys!PubKey
      BY DEF Keys!SelfKey, Keys!PubKey
    <3> QED BY <2>4, <3>1 DEF AddKey, Keys!Next
  <2>5. ASSUME NEW l \in KeyLink,
               \/ KeyHeader(l) \/ KeyRequest(l) \/ KeyUpdate(l) \/ KeyMerge(l) \/ KeyDrop(l)
        PROVE  Keys!Next
    BY <2>5 DEF KeyHeader, KeyRequest, KeyUpdate, KeyMerge, KeyDrop, Keys!Next
  <2> QED
    BY <2>1, <2>2, <2>3, <2>4, <2>5, LinkEnds DEF Next, vars, keyVars, AddNewMessage,
       LogHeader, LogRequest, LogRequestAborts, LogUpdate, LogMerge, LogCrash, LogDrop, Restart
<1> QED BY <1>1, <1>2, PTL DEF Spec, Keys!Spec

\* What the log sees of a step that stores a key: InstallKeys.
LEMMA LearningInstalls ==
  ASSUME KeysInv, NEW n \in Node, NEW a \in Node, Learns(n, a), LogAfter(n), ~ UNCHANGED keys
  PROVE  Log!InstallKeys(n)
<1> DEFINE table == [b \in Node |-> keys'[n][b] - 1]
           before == [m \in Node |-> [b \in Node |-> keys[m][b] - 1]]
           after == [m \in Node |-> [b \in Node |-> keys'[m][b] - 1]]
<1>1. keys \in [Node -> [Node -> {0, 1}]] /\ HasKeyFromUser(n, a)
  BY DEF KeysInv, Learns
<1>2. /\ \A b \in Node : keys'[n][b] = IF b = a THEN 1 ELSE keys[n][b]
      /\ \A m \in Node : m # n => keys'[m] = keys[m]
  BY <1>1 DEF Learns
<1>3. keys[n][a] = 0
  <2>1. CASE keys[n][a] = 1
    <3>1. keys' = keys
      BY <1>1, <2>1 DEF Learns
    <3> QED BY <3>1
  <2> QED BY <1>1, <2>1
<1>4. table \in [Node -> Log!Epoch \cup {Log!NoKey}]
  BY <1>1, <1>2 DEF Log!Epoch, Log!NoKey
<1>5. \A b \in Node : table[b] # before[n][b] =>
        /\ <<n, b>> \in {k \in Node \X Node : HasKeyFromUser(k[1], k[2])}
        /\ table[b] \in 0..0
  BY <1>1, <1>2
<1>6. before[n] # table
  <2>1. before[n][a] = -1 /\ table[a] = 0
    BY <1>2, <1>3
  <2> QED BY <2>1
<1>7. after = [before EXCEPT ![n] = table]
  BY <1>2
<1>8. UNCHANGED messages /\ (Log!Reboot(n) \/ UNCHANGED logPull)
  BY DEF LogAfter
<1>9. \A b \in Node : [m \in Node |-> 0][b] = 0
  OBVIOUS
<1> HIDE DEF table
<1> QED BY <1>4, <1>5, <1>6, <1>7, <1>8, <1>9 DEF Log!InstallKeys

\* The log sees of the key table that keys come about as its user gives them,
\* and that its process stops at times: what LogCrdtProofs has of the log alone
\* holds of it in an Instance.
THEOREM LogAlone == Spec => ImplementsLog
<1>1. Init => Log!Init
  BY DEF Init
<1>2. KeysInv /\ [Next]_vars => [Log!Next]_(Log!vars)
  <2> SUFFICES ASSUME KeysInv, [Next]_vars PROVE [Log!Next]_(Log!vars)
    OBVIOUS
  <2>1. ASSUME NEW n \in Node, LogAfter(n), UNCHANGED keys PROVE [Log!Next]_(Log!vars)
    <3>1. CASE UNCHANGED logPull
      BY <2>1, <3>1 DEF LogAfter, Log!vars
    <3>2. CASE Log!Reboot(n)
      BY <2>1, <3>2 DEF LogAfter, Log!Restart, Log!Next
    <3> QED BY <2>1, <3>1, <3>2 DEF LogAfter
  <2>2. CASE ~ UNCHANGED keys
    BY <2>2, KeysWritten, LearningInstalls DEF Log!Next
  <2>3. CASE UNCHANGED keyVars /\ UNCHANGED logVars
    BY <2>3 DEF keyVars, logVars, Log!vars
  <2>4. ASSUME NEW l \in KeyLink, KeyDrop(l) PROVE UNCHANGED <<keys, messages, logPull>>
    BY <2>4 DEF KeyDrop, Keys!Drop, Keys!stored, logVars
  <2>5. ASSUME UNCHANGED <<keys, messages, logPull>> PROVE [Log!Next]_(Log!vars)
    BY <2>5 DEF Log!vars
  <2>6. ASSUME NEW n \in Node, NEW b \in Body, AddNewMessage(n, b) PROVE Log!Next
    BY <2>6 DEF AddNewMessage, Log!Next
  <2>7. ASSUME NEW l \in LogLink,
               \/ LogHeader(l) \/ LogRequest(l) \/ LogRequestAborts(l) \/ LogUpdate(l)
               \/ LogMerge(l) \/ LogCrash(l) \/ LogDrop(l)
        PROVE  Log!Next
    BY <2>7 DEF LogHeader, LogRequest, LogRequestAborts, LogUpdate, LogMerge, LogCrash, LogDrop, Log!Next
  <2>8. ASSUME NEW n \in Node, Restart(n) PROVE Log!Next
    BY <2>8 DEF Restart, Log!Next
  <2> QED
    BY <2>1, <2>2, <2>3, <2>4, <2>5, <2>6, <2>7, <2>8, LinkEnds
       DEF Next, vars, keyVars, logVars, SetAdmin, AddKey, KeyHeader, KeyRequest, KeyUpdate, KeyMerge
<1> QED BY KeysInit, KeysStep, <1>1, <1>2, PTL DEF Spec, ImplementsLog, Log!Spec

----------------------------------------------------------------------------
(* What is proved of each CRDT alone holds of it in an Instance.  The modules  *)
(* of those proofs are instantiated like the two specifications; LogOf and Log *)
(* (KeysOf and Keys) then have the same definitions under two names.           *)

LogOf == INSTANCE LogSerialProofs WITH
  Link <- LogLink, pull <- logPull,
  security <- [n \in Node |-> [a \in Node |-> keys[n][a] - 1]],
  keyEpoch <- [n \in Node |-> 0],
  Keyring <- {k \in Node \X Node : HasKeyFromUser(k[1], k[2])},
  MaxEpoch <- 0, MaxCopies <- 2, FreshKeys <- FALSE, Faults <- FALSE

KeysOf == INSTANCE KeysSyncProofs WITH
  Link <- KeyLink, pull <- keyPull,
  Appointments <- {<<n, Admin>> : n \in Appointing}, MaxKey <- 1,
  Versions <- 65536, Provider <- "ED25519", Crashes <- FALSE, Faults <- FALSE

LEMMA LogConstants ==
  /\ LogOf!LinkAssumption /\ LogOf!KeyringAssumption
  /\ LogOf!BoundAssumption /\ LogOf!RegimeAssumption
BY InstanceAssumption DEF LogOf!LinkAssumption, LogOf!KeyringAssumption,
   LogOf!BoundAssumption, LogOf!RegimeAssumption

LEMMA KeysConstants ==
  /\ KeysOf!NodeAssumption /\ KeysOf!BoundAssumption
  /\ KeysOf!ProviderAssumption /\ KeysOf!RegimeAssumption
<1>1. KeysOf!IsFiniteSet(Node)
  BY InstanceAssumption DEF KeysOf!IsFiniteSet, IsFiniteSet
<1> QED
  BY <1>1, InstanceAssumption DEF KeysOf!NodeAssumption, KeysOf!BoundAssumption,
     KeysOf!ProviderAssumption, KeysOf!RegimeAssumption

\* What getHeaders may read of a table is the same under both names.
LEMMA HeadersAre ==
  /\ \A table : Log!GetHeaders(table) = LogOf!GetHeaders(table)
  /\ \A table : Log!HeadersRead(table) = LogOf!HeadersRead(table)
<1>1. \A table, a : Log!Numbered(table, a) = LogOf!Numbered(table, a)
  BY DEF Log!Numbered, LogOf!Numbered, Log!Lamports, LogOf!Lamports, Log!RowsOf,
     LogOf!RowsOf, Log!Cardinality, LogOf!Cardinality
<1>2. \A table : Log!GetHeaders(table) = LogOf!GetHeaders(table)
  BY <1>1 DEF Log!GetHeaders, LogOf!GetHeaders
<1>3. \A header, s, A : Log!Before(header, s, A) = LogOf!Before(header, s, A)
  BY DEF Log!Before, LogOf!Before
<1>4. \A table : Log!HeadersRead(table) = LogOf!HeadersRead(table)
  BY <1>2, <1>3 DEF Log!HeadersRead, LogOf!HeadersRead
<1> QED BY <1>2, <1>4

\* So are an idle pull, the restart of a process and what merge does to a table.
LEMMA PartsAre ==
  /\ Log!Idle = LogOf!Idle
  /\ \A n : Log!Reboot(n) <=> LogOf!Reboot(n)
  /\ \A table, batch : Log!Insert(table, batch) = LogOf!Insert(table, batch)
  /\ \A n, update : Log!Accepted(n, update) = LogOf!Accepted(n, update)
  /\ \A S : Log!Part(S) = LogOf!Part(S)
  /\ Log!Row = LogOf!Row
<1>1. Log!Idle = LogOf!Idle
  BY DEF Log!Idle, LogOf!Idle, Log!NoHeader, LogOf!NoHeader, Log!NoRequest,
     LogOf!NoRequest, Log!NoUpdate, LogOf!NoUpdate
<1>2. \A n : Log!Reboot(n) <=> LogOf!Reboot(n)
  BY <1>1 DEF Log!Reboot, LogOf!Reboot
<1>3. \A table, batch : Log!Insert(table, batch) = LogOf!Insert(table, batch)
  BY DEF Log!Insert, LogOf!Insert, Log!Copies, LogOf!Copies, Log!Cardinality,
     LogOf!Cardinality
<1>4. \A n, k, m : Log!IsValid(n, k, m) <=> LogOf!IsValid(n, k, m)
  BY DEF Log!IsValid, LogOf!IsValid
<1>5. \A n, update : Log!Accepted(n, update) = LogOf!Accepted(n, update)
  BY <1>4 DEF Log!Accepted, LogOf!Accepted
<1>6. \A S : Log!Part(S) = LogOf!Part(S)
  BY DEF Log!Part, LogOf!Part
<1>7. Log!Row = LogOf!Row
  BY DEF Log!Row, LogOf!Row, Log!Message, LogOf!Message, Log!Lamport, LogOf!Lamport,
     Log!Epoch, LogOf!Epoch
<1> QED BY <1>1, <1>2, <1>3, <1>5, <1>6, <1>7

LEMMA LogIsLog ==
  /\ Log!Init <=> LogOf!Init
  /\ [Log!Next]_(Log!vars) <=> [LogOf!Next]_(LogOf!vars)
<1>1. Log!Init <=> LogOf!Init
  BY PartsAre DEF Log!Init, LogOf!Init, Log!NoKey, LogOf!NoKey
<1>2. Log!vars = LogOf!vars /\ Log!vars' = LogOf!vars'
  BY DEF Log!vars, LogOf!vars
<1>3. \A n, b : Log!AddNewMessage(n, b) <=> LogOf!AddNewMessage(n, b)
  BY PartsAre DEF Log!AddNewMessage, LogOf!AddNewMessage, Log!IsNextLamport,
     LogOf!IsNextLamport, Log!Lamports, LogOf!Lamports, Log!RowsOf, LogOf!RowsOf,
     Log!Lamport, LogOf!Lamport
<1>4. \A n : Log!InstallKeys(n) <=> LogOf!InstallKeys(n)
  BY PartsAre DEF Log!InstallKeys, LogOf!InstallKeys, Log!Epoch, LogOf!Epoch, Log!NoKey,
     LogOf!NoKey
<1>5. \A l : Log!GetHeader(l) <=> LogOf!GetHeader(l)
  BY HeadersAre, PartsAre DEF Log!GetHeader, LogOf!GetHeader
<1>6. \A l : Log!GetRequest(l) <=> LogOf!GetRequest(l)
  BY HeadersAre, PartsAre DEF Log!GetRequest, LogOf!GetRequest, Log!Comparable,
     LogOf!Comparable, Log!IsMonotonicNonColliding, LogOf!IsMonotonicNonColliding,
     Log!Difference, LogOf!Difference, Log!Covered, LogOf!Covered, Log!Lamport, LogOf!Lamport
<1>7. \A l : Log!GetRequestAborts(l) <=> LogOf!GetRequestAborts(l)
  BY HeadersAre, PartsAre DEF Log!GetRequestAborts, LogOf!GetRequestAborts, Log!Comparable,
     LogOf!Comparable, Log!IsMonotonicNonColliding, LogOf!IsMonotonicNonColliding
<1>8. \A l : Log!GetUpdate(l) <=> LogOf!GetUpdate(l)
  BY PartsAre DEF Log!GetUpdate, LogOf!GetUpdate, Log!Carried, LogOf!Carried,
     Log!Requested, LogOf!Requested, Log!RowsOf, LogOf!RowsOf
<1>9. \A l : Log!Merge(l) <=> LogOf!Merge(l)
  BY PartsAre DEF Log!Merge, LogOf!Merge
<1>10. \A l : Log!CrashInMerge(l) <=> LogOf!CrashInMerge(l)
  <2>1. \A S, accepted : Log!IsPrefix(S, accepted) <=> LogOf!IsPrefix(S, accepted)
    BY DEF Log!IsPrefix, LogOf!IsPrefix, Log!RowsOf, LogOf!RowsOf
  <2> QED BY <2>1, PartsAre DEF Log!CrashInMerge, LogOf!CrashInMerge
<1>11. \A l : Log!Drop(l) <=> LogOf!Drop(l)
  BY PartsAre DEF Log!Drop, LogOf!Drop
<1>12. \A n : Log!Restart(n) <=> LogOf!Restart(n)
  BY PartsAre DEF Log!Restart, LogOf!Restart
<1>13. Log!Next <=> LogOf!Next
  BY <1>3, <1>4, <1>5, <1>6, <1>7, <1>8, <1>9, <1>10, <1>11, <1>12 DEF Log!Next, LogOf!Next
<1> QED BY <1>1, <1>2, <1>13

LEMMA LogPropertiesAre ==
  /\ Log!AbortsOnlyOnDoubles <=> LogOf!AbortsOnlyOnDoubles
  /\ Log!RequestsAnswerable <=> LogOf!RequestsAnswerable
  /\ Log!NothingInvented <=> LogOf!NothingInvented
  /\ Log!LamportIdentifiesMessage <=> LogOf!LamportIdentifiesMessage
  /\ Log!RowsOnce <=> LogOf!RowsOnce
  /\ Log!InFlightStillMissing <=> LogOf!InFlightStillMissing
<1>1. \A header, local : Log!Comparable(header, local) <=> LogOf!Comparable(header, local)
  BY DEF Log!Comparable, LogOf!Comparable, Log!IsMonotonicNonColliding,
     LogOf!IsMonotonicNonColliding
<1>2. \A table : Log!Doubled(table) <=> LogOf!Doubled(table)
  BY DEF Log!Doubled, LogOf!Doubled
<1>3. Log!AbortsOnlyOnDoubles <=> LogOf!AbortsOnlyOnDoubles
  BY <1>1, <1>2, HeadersAre DEF Log!AbortsOnlyOnDoubles, LogOf!AbortsOnlyOnDoubles
<1>4. Log!RequestsAnswerable <=> LogOf!RequestsAnswerable
  BY <1>1, HeadersAre DEF Log!RequestsAnswerable, LogOf!RequestsAnswerable
<1>5. Log!NothingInvented <=> LogOf!NothingInvented
  BY DEF Log!NothingInvented, LogOf!NothingInvented, Log!Held, LogOf!Held, Log!Carried,
     LogOf!Carried, Log!RowsOf, LogOf!RowsOf, Log!Lamports, LogOf!Lamports
<1>6. Log!LamportIdentifiesMessage <=> LogOf!LamportIdentifiesMessage
  BY DEF Log!LamportIdentifiesMessage, LogOf!LamportIdentifiesMessage, Log!Held, LogOf!Held,
     Log!Carried, LogOf!Carried
<1>7. Log!RowsOnce <=> LogOf!RowsOnce
  BY <1>2 DEF Log!RowsOnce, LogOf!RowsOnce
<1>8. Log!InFlightStillMissing <=> LogOf!InFlightStillMissing
  BY DEF Log!InFlightStillMissing, LogOf!InFlightStillMissing, Log!Lamports,
     LogOf!Lamports, Log!RowsOf, LogOf!RowsOf
<1> QED BY <1>3, <1>4, <1>5, <1>6, <1>7, <1>8

LEMMA LogBehaviour == Spec => LogOf!Spec
<1>1. Log!Init => LogOf!Init
  BY LogIsLog
<1>2. [Log!Next]_(Log!vars) => [LogOf!Next]_(LogOf!vars)
  BY LogIsLog
<1> QED BY LogAlone, <1>1, <1>2, PTL DEF ImplementsLog, Log!Spec, LogOf!Spec

\* In whatever way callers make their pulls, a getRequest of the log aborts the
\* process of an Instance, and with it the pulls of the key table, only where a
\* message is in two rows, at the puller or at its peer: whatever the key table and
\* its aborts interrupt, nothing else makes a header fail the assertions.
THEOREM LogAbortsOnlyOnDoubles == Spec => []Log!AbortsOnlyOnDoubles
<1>1. LogOf!Spec => []LogOf!AbortsOnlyOnDoubles
  BY LogConstants, LogOf!OnlyDoublesAbort
<1>2. LogOf!AbortsOnlyOnDoubles => Log!AbortsOnlyOnDoubles
  BY LogPropertiesAre
<1> QED BY LogBehaviour, <1>1, <1>2, PTL

\* Instances hold what their authors wrote and agree on every message, however
\* callers make their pulls: the key table, whose calls come in between and store
\* keys and abort, takes nothing of this away.
THEOREM LogKeepsItsPromises ==
  Spec => [](Log!NothingInvented /\ Log!LamportIdentifiesMessage)
<1>1. LogOf!Spec => []LogOf!NothingInvented
  BY LogConstants, LogOf!Provenance
<1>2. LogOf!Spec => []LogOf!LamportIdentifiesMessage
  BY LogConstants, LogOf!Agreement
<1>3. /\ LogOf!NothingInvented => Log!NothingInvented
      /\ LogOf!LamportIdentifiesMessage => Log!LamportIdentifiesMessage
  BY LogPropertiesAre
<1> QED BY LogBehaviour, <1>1, <1>2, <1>3, PTL

\* Where, besides, callers finish or drop a pull of messages before the next one
\* and merge an update once, as the library asks nobody to, instances hold every
\* message once, what is asked for over a link is still missing when it comes, and
\* no getRequest of the log aborts: so none ends a pull of the key table.
THEOREM LogKeepsRowsOnce ==
  ASSUME Serial, Redeliver = {}
  PROVE  Spec => [](Log!RowsOnce /\ Log!InFlightStillMissing /\ Log!RequestsAnswerable)
<1>1. LogOf!SerialRegime
  BY DEF LogOf!SerialRegime
<1>2. LogOf!Spec => []LogOf!RowsOnce
  BY <1>1, LogConstants, LogOf!RowsStayOnce
<1>3. LogOf!Spec => []LogOf!InFlightStillMissing
  BY <1>1, LogConstants, LogOf!RequestsStayFresh
<1>4. LogOf!Spec => []LogOf!RequestsAnswerable
  BY <1>1, LogConstants, LogOf!NoGetRequestAborts
<1>5. /\ LogOf!RowsOnce => Log!RowsOnce
      /\ LogOf!InFlightStillMissing => Log!InFlightStillMissing
      /\ LogOf!RequestsAnswerable => Log!RequestsAnswerable
  BY LogPropertiesAre
<1> QED BY LogBehaviour, <1>2, <1>3, <1>4, <1>5, PTL

LEMMA AbstractIsAbstract ==
  /\ Log!Abstract!Init = LogOf!Abstract!Init
  /\ [Log!Abstract!Next]_[n \in Node |-> {r.msg : r \in messages[n]}]
       = [LogOf!Abstract!Next]_[n \in Node |-> {r.msg : r \in messages[n]}]
BY DEF Log!Abstract!Init, LogOf!Abstract!Init, Log!Abstract!Next, LogOf!Abstract!Next,
   Log!Abstract!Write, LogOf!Abstract!Write, Log!Abstract!Learn, LogOf!Abstract!Learn,
   Log!Abstract!Message, LogOf!Abstract!Message, Log!Abstract!Lamport,
   LogOf!Abstract!Lamport, Log!Abstract!Used, LogOf!Abstract!Used, Log!Abstract!Follows,
   LogOf!Abstract!Follows,
   Log!Epoch, LogOf!Epoch

\* The tables of a set of instances, read as sets of messages, are a grow-only log
\* numbered by its authors: restarts, aborts and keys that come by way of the key
\* table show in it as nothing but replicas that learn later.
THEOREM InstanceIsGrowOnlyLog == Spec => Log!ImplementsGrowOnlyLog
<1>1. LogOf!Spec => LogOf!ImplementsGrowOnlyLog
  BY LogConstants, LogOf!Refinement
<1>2. LogOf!Abstract!Init => Log!Abstract!Init
  BY AbstractIsAbstract
<1>3. [LogOf!Abstract!Next]_[n \in Node |-> {r.msg : r \in messages[n]}]
        => [Log!Abstract!Next]_[n \in Node |-> {r.msg : r \in messages[n]}]
  BY AbstractIsAbstract
<1> QED
  BY LogBehaviour, <1>1, <1>2, <1>3, PTL DEF Log!ImplementsGrowOnlyLog,
     LogOf!ImplementsGrowOnlyLog, Log!Abstract!Spec, LogOf!Abstract!Spec

\* Of the key table: an idle pull, the restart of a process, and which calls fail.
LEMMA KeyPartsAre ==
  /\ Keys!Idle = KeysOf!Idle
  /\ \A n, c : Keys!Abort(n, c) <=> KeysOf!Abort(n, c)
  /\ \A n, x : Keys!GetsAdmin(n, x) <=> KeysOf!GetsAdmin(n, x)
  /\ Keys!Assertion = KeysOf!Assertion
  /\ \A n, c : Keys!GetHeaderFails(n, c) <=> KeysOf!GetHeaderFails(n, c)
  /\ \A n, a, c : Keys!LocalHeaderFails(n, a, c) <=> KeysOf!LocalHeaderFails(n, a, c)
  /\ \A n, a : Keys!LocalHeaderAborts(n, a) <=> KeysOf!LocalHeaderAborts(n, a)
  /\ \A t : Keys!Rows(t) = KeysOf!Rows(t) /\ Keys!Pairs(t) = KeysOf!Pairs(t)
  /\ \A t, A : Keys!RowsFor(t, A) = KeysOf!RowsFor(t, A)
  /\ \A t : Keys!PublicKeys(t) = KeysOf!PublicKeys(t)
<1>1. Keys!Idle = KeysOf!Idle
  BY DEF Keys!Idle, KeysOf!Idle, Keys!NoKeys, KeysOf!NoKeys, Keys!NoSign, KeysOf!NoSign,
     Keys!NoKey, KeysOf!NoKey
<1>2. \A n, c : Keys!Abort(n, c) <=> KeysOf!Abort(n, c)
  BY <1>1 DEF Keys!Abort, KeysOf!Abort, Keys!Reboot, KeysOf!Reboot
<1>3. \A n, x : Keys!GetsAdmin(n, x) <=> KeysOf!GetsAdmin(n, x)
  BY DEF Keys!GetsAdmin, KeysOf!GetsAdmin
<1>4. Keys!Assertion = KeysOf!Assertion
  BY DEF Keys!Assertion, KeysOf!Assertion
<1>5. \A n, c : Keys!GetHeaderFails(n, c) <=> KeysOf!GetHeaderFails(n, c)
  BY DEF Keys!GetHeaderFails, KeysOf!GetHeaderFails
<1>6. \A n, a, c : Keys!LocalHeaderFails(n, a, c) <=> KeysOf!LocalHeaderFails(n, a, c)
  BY <1>3, <1>5 DEF Keys!LocalHeaderFails, KeysOf!LocalHeaderFails
<1>7. \A n, a : Keys!LocalHeaderAborts(n, a) <=> KeysOf!LocalHeaderAborts(n, a)
  BY <1>2, <1>4, <1>6 DEF Keys!LocalHeaderAborts, KeysOf!LocalHeaderAborts
<1>8. \A t : Keys!Rows(t) = KeysOf!Rows(t) /\ Keys!Pairs(t) = KeysOf!Pairs(t)
  BY DEF Keys!Rows, KeysOf!Rows, Keys!NoKey, KeysOf!NoKey, Keys!Pairs, KeysOf!Pairs,
     Keys!Cardinality, KeysOf!Cardinality
<1>9. \A t, A : Keys!RowsFor(t, A) = KeysOf!RowsFor(t, A)
  BY DEF Keys!RowsFor, KeysOf!RowsFor, Keys!NoKey, KeysOf!NoKey
<1>10. \A t : Keys!PublicKeys(t) = KeysOf!PublicKeys(t)
  BY <1>8, <1>9 DEF Keys!PublicKeys, KeysOf!PublicKeys
<1> QED BY <1>1, <1>2, <1>3, <1>4, <1>5, <1>6, <1>7, <1>8, <1>9, <1>10

LEMMA KeysIsKeys ==
  /\ Keys!Init <=> KeysOf!Init
  /\ [Keys!Next]_(Keys!vars) <=> [KeysOf!Next]_(KeysOf!vars)
  /\ [\A n \in Node : version'[n] >= version[n]]_(Keys!vars)
       <=> [\A n \in Node : version'[n] >= version[n]]_(KeysOf!vars)
<1>1. Keys!Init <=> KeysOf!Init
  BY KeyPartsAre DEF Keys!Init, KeysOf!Init, Keys!NoKeys, KeysOf!NoKeys, Keys!NoSign,
     KeysOf!NoSign, Keys!NoKey, KeysOf!NoKey
<1>2. Keys!vars = KeysOf!vars /\ Keys!vars' = KeysOf!vars'
  BY DEF Keys!vars, KeysOf!vars
<1> USE KeyPartsAre DEF Keys!Runs, KeysOf!Runs, Keys!stored, KeysOf!stored
<1>3. \A n, x : Keys!SetAdmin(n, x) <=> KeysOf!SetAdmin(n, x)
  BY DEF Keys!SetAdmin, KeysOf!SetAdmin, Keys!SelfKey, KeysOf!SelfKey
<1>4. \A n, a, k : Keys!AddKey(n, a, k) <=> KeysOf!AddKey(n, a, k)
  BY DEF Keys!AddKey, KeysOf!AddKey, Keys!Insert, KeysOf!Insert, Keys!NextVersion,
     KeysOf!NextVersion, Keys!Signed, KeysOf!Signed, Keys!PairsPayload,
     KeysOf!PairsPayload, Keys!Stop, KeysOf!Stop, Keys!Reboot, KeysOf!Reboot
<1>5. \A l : Keys!GetHeader(l) <=> KeysOf!GetHeader(l)
  BY DEF Keys!GetHeader, KeysOf!GetHeader, Keys!Header, KeysOf!Header
<1>6. \A l : Keys!GetRequest(l) <=> KeysOf!GetRequest(l)
  BY DEF Keys!GetRequest, KeysOf!GetRequest
<1>7. \A l : Keys!GetUpdate(l) <=> KeysOf!GetUpdate(l)
  BY DEF Keys!GetUpdate, KeysOf!GetUpdate, Keys!GetUpdateFails, KeysOf!GetUpdateFails,
     Keys!NoSign, KeysOf!NoSign
<1>8. \A n, u : Keys!Applies(n, u) <=> KeysOf!Applies(n, u)
  BY DEF Keys!Applies, KeysOf!Applies, Keys!IsValid, KeysOf!IsValid, Keys!UpdatePayload,
     KeysOf!UpdatePayload, Keys!SelfKey, KeysOf!SelfKey
<1>9. \A n, u, v, s, A : Keys!MergeWrites(n, u, v, s, A) <=> KeysOf!MergeWrites(n, u, v, s, A)
  BY DEF Keys!MergeWrites, KeysOf!MergeWrites, Keys!Upsert, KeysOf!Upsert, Keys!NoKey,
     KeysOf!NoKey
<1>10. \A l : Keys!Merge(l) <=> KeysOf!Merge(l)
  BY <1>8, <1>9 DEF Keys!Merge, KeysOf!Merge
<1>11. \A l : Keys!CrashInMerge(l) <=> KeysOf!CrashInMerge(l)
  BY DEF Keys!CrashInMerge, KeysOf!CrashInMerge
<1>12. \A l : Keys!Drop(l) <=> KeysOf!Drop(l)
  BY DEF Keys!Drop, KeysOf!Drop
<1>13. \A n : Keys!Restart(n) <=> KeysOf!Restart(n)
  BY DEF Keys!Restart, KeysOf!Restart, Keys!Reboot, KeysOf!Reboot
<1>14. Keys!Next <=> KeysOf!Next
  BY <1>3, <1>4, <1>5, <1>6, <1>7, <1>10, <1>11, <1>12, <1>13
     DEF Keys!Next, KeysOf!Next, Keys!PubKey, KeysOf!PubKey
<1> QED BY <1>1, <1>2, <1>14

LEMMA KeysBehaviour == Spec => KeysOf!Spec
<1>1. Keys!Init => KeysOf!Init
  BY KeysIsKeys
<1>2. [Keys!Next]_(Keys!vars) => [KeysOf!Next]_(KeysOf!vars)
  BY KeysIsKeys
<1> QED BY KeysAlone, <1>1, <1>2, PTL DEF Keys!Spec, KeysOf!Spec

\* The callers of an Instance name one admin.  When addKey is called at the admin
\* alone and its 16-bit version does not wrap, getHeader and getRequest of the key
\* table abort the process where setAdmin was not called yet, and nowhere else, and
\* getUpdate and merge never do.  (setAdmin itself may, on the status it never set.)
THEOREM KeysAbortOnlyBeforeSetAdmin ==
  ASSUME MaxVersion < 65536, Adders \subseteq {Admin}
  PROVE  Spec => []KeysOf!OnlyBeforeSetAdmin
<1>1. KeysOf!SyncRegime
  BY DEF KeysOf!SyncRegime
<1>2. KeysOf!Appointees \subseteq {Admin}
  BY DEF KeysOf!Appointees
<1>3. KeysOf!Spec => []KeysOf!OnlyBeforeSetAdmin
  BY <1>1, <1>2, KeysConstants, KeysOf!AbortsComeBeforeSetAdmin
<1> QED BY KeysBehaviour, <1>3, PTL

\* Whatever the log does to the process in between, no version falls unless the
\* 16-bit counter wraps.
THEOREM VersionsKept ==
  ASSUME MaxVersion < 65536
  PROVE  Spec => Keys!VersionNeverFalls
<1>1. KeysOf!Spec => KeysOf!VersionNeverFalls
  BY KeysConstants, KeysOf!VersionKept
<1>2. [\A n \in Node : version'[n] >= version[n]]_(KeysOf!vars)
        => [\A n \in Node : version'[n] >= version[n]]_(Keys!vars)
  BY KeysIsKeys
<1> QED BY KeysBehaviour, <1>1, <1>2, PTL DEF Keys!VersionNeverFalls, KeysOf!VersionNeverFalls
=============================================================================
