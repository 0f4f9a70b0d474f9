----------------------------- MODULE Statements -----------------------------
(***************************************************************************)
(* The SQLite wrapper: one connection (db::Sqlite), the handles of its     *)
(* statements, and the C++ objects that own them: a PreparedStatement, or  *)
(* the PreparedStatement inside an Expected.  What the constructor of      *)
(* Instance and the functions of the daos do with them is a program of     *)
(* steps, and any statement may fail to prepare, to bind or to step.       *)
(* REPLIKON_ASSERT aborts: no build file defines NDEBUG.                   *)
(*                                                                         *)
(* sqlite3_prepare_v2, _bind, _step, _reset, _finalize and _close are      *)
(* SQLite's: the state of a handle stands for what these calls require.    *)
(***************************************************************************)
EXTENDS Integers, Sequences, FiniteSets

CONSTANTS
  Handle,    \* the statement handles SQLite gives out, and gives out again
  Interval   \* the intervals getAllMessages may be asked for

\* A handle is not one of the strings in Empty below.
ASSUME HandleAssumption == Handle \cap {"absent", "null", "error"} = {}

\* The objects of a call: an Expected<PreparedStatement>, up to two statements.
Slot == {"res", "s1", "s2"}

\* A slot holds a handle or one of these: there is no such object; its handle
\* was moved away (nullptr); the Expected holds an error.
Empty == {"absent", "null", "error"}

VARIABLES
  conn,    \* the connection: "none", "open", "failed" (to open) or "closed"
  closes,  \* how often it has been passed to sqlite3_close
  call,    \* the function in progress, or "none"
  pc,      \* how far it is
  slot,    \* slot[s]: what the object s of the call holds
  stmt,    \* stmt[h]: the statement behind handle h
  res,     \* the SqliteResult variable of the call
  search,  \* search[i]: the rows of the temporary table for interval i
  asked,   \* the vector of intervals getAllMessages was called with
  todo     \* what its loop has not gone through yet

vars == <<conn, closes, call, pc, slot, stmt, res, search, asked, todo>>
tables == <<search, asked, todo>>

Free == [sql |-> "none", state |-> "free", bound |-> FALSE]
Sql == {"CREATE", "INSERT", "SELECT", "CLEAR", "INSERT_INTO_INTERVALS", "GET_MSGS"}
Query == {"SELECT", "GET_MSGS"}
Result == {"OK", "ERROR", "ROW"}
Vector == UNION {{v \in [1..k -> Interval] : \A i, j \in 1..k : v[i] = v[j] => i = j} :
                 k \in 0..Cardinality(Interval)}

----------------------------------------------------------------------------
(* The functions, as what they do with the wrapper. *)

\* Instance::Instance: the last statement stays in the variable "statement"
\* while the next one is prepared, and goes to "exp" when they are swapped.
Create == <<<<"prepare", "CREATE">>, <<"expect", "res">>, <<"take", "s1">>,
            <<"step", "s1">>, <<"okOrAbort", "s1">>>>
Constructor == <<<<"connect", "res">>, <<"okOrAbort", "res">>>>
                 \o Create \o Create \o Create \o Create \o Create \o <<<<"return", "res">>>>

Begin(sql) == <<<<"prepare", sql>>, <<"check", "res">>, <<"take", "s1">>>>

\* insertMessage, insertPublicKey, insertAdminPublicKey, insertAllKeys: the
\* variable the statuses are or-ed into has no first value.
InsertUnset ==
  Begin("INSERT") \o <<<<"unset", "s1">>, <<"orBind", "s1">>, <<"orStep", "s1">>,
                       <<"report", "s1">>>>

\* KeyValueDao's insertTextValue, insertIntegerValue and insertBlobValue.
InsertValue ==
  Begin("INSERT") \o <<<<"bind", "s1">>, <<"orStep", "s1">>, <<"report", "s1">>>>

\* getNextLamport, and KeyValueDao's getters: the status of bindText is dropped.
GetValue ==
  Begin("SELECT") \o <<<<"bind", "s1">>, <<"step", "s1">>, <<"columnsIfRow", "s1">>,
                       <<"return", "s1">>>>

\* SecurityDao::getUserInfo.
GetUserInfo ==
  Begin("SELECT") \o <<<<"bind", "s1">>, <<"okOrReturn", "s1">>, <<"step", "s1">>,
                       <<"columnsIfRow", "s1">>, <<"return", "s1">>>>

\* getHeaders, getAllPublicKeys, getAdminsUserInfo.
GetRows == Begin("SELECT") \o <<<<"whileRow", "s1">>, <<"return", "s1">>>>

\* Faulty variants of GetAllMessages: the status of CLEAR_INTERVALS is not
\* looked at; the statement is not reset between two intervals.
ClearUnchecked ==
  <<<<"prepare", "CLEAR">>, <<"check", "res">>, <<"step", "res">>, <<"unset", "res">>,
    <<"prepare", "INSERT_INTO_INTERVALS">>, <<"check", "res">>, <<"take", "s1">>,
    <<"each", "s1">>, <<"orBind", "s1">>, <<"orStep", "s1">>, <<"reset", "s1">>,
    <<"okOrReturn", "s1">>, <<"again", "s1">>,
    <<"prepare", "GET_MSGS">>, <<"check", "res">>, <<"take", "s2">>,
    <<"orBind", "s2">>, <<"whileRow", "s2">>, <<"return", "s2">>>>
ResetForgotten ==
  <<<<"prepare", "CLEAR">>, <<"check", "res">>, <<"step", "res">>, <<"okOrReturn", "res">>,
    <<"prepare", "INSERT_INTO_INTERVALS">>, <<"check", "res">>, <<"take", "s1">>,
    <<"each", "s1">>, <<"orBind", "s1">>, <<"orStep", "s1">>, <<"okOrReturn", "s1">>,
    <<"okOrReturn", "s1">>, <<"again", "s1">>,
    <<"prepare", "GET_MSGS">>, <<"check", "res">>, <<"take", "s2">>,
    <<"orBind", "s2">>, <<"whileRow", "s2">>, <<"return", "s2">>>>

\* MessagesDao::getAllMessages: clear the temporary table, insert every
\* interval, and join the table with the messages.
GetAllMessages ==
  <<<<"prepare", "CLEAR">>, <<"check", "res">>, <<"step", "res">>, <<"okOrReturn", "res">>,
    <<"prepare", "INSERT_INTO_INTERVALS">>, <<"check", "res">>, <<"take", "s1">>,
    <<"each", "s1">>, <<"orBind", "s1">>, <<"orStep", "s1">>, <<"reset", "s1">>,
    <<"okOrReturn", "s1">>, <<"again", "s1">>,
    <<"prepare", "GET_MSGS">>, <<"check", "res">>, <<"take", "s2">>,
    <<"orBind", "s2">>, <<"whileRow", "s2">>, <<"return", "s2">>>>

Function == {"Constructor", "InsertUnset", "InsertValue", "GetValue", "GetUserInfo",
             "GetRows", "GetAllMessages"}

Program ==
  [f \in Function |->
    CASE f = "Constructor" -> Constructor
      [] f = "InsertUnset" -> InsertUnset
      [] f = "InsertValue" -> InsertValue
      [] f = "GetValue" -> GetValue
      [] f = "GetUserInfo" -> GetUserInfo
      [] f = "GetRows" -> GetRows
      [] f = "GetAllMessages" -> GetAllMessages]

----------------------------------------------------------------------------
(* The objects. *)

NoObjects == [s \in Slot |-> "absent"]
NoHandles == [h \in Handle |-> Free]

\* The handles after the destructors of the objects in S: each is finalized.
Destroyed(S) == [h \in Handle |-> IF \E s \in S : slot[s] = h THEN Free ELSE stmt[h]]

\* A faulty variant of Moved: the source keeps its pointer.
Copied(s) == [slot EXCEPT ![s] = slot["res"]]

\* s = std::move(res.value()): a new statement takes the handle and leaves
\* nullptr behind; a statement that is there already is swapped with it.
Moved(s) ==
  [slot EXCEPT ![s] = slot["res"],
               !["res"] = IF slot[s] = "absent" THEN "null" ELSE slot[s]]

\* A faulty variant of Or: the last status wins.
OrLast(a, b) == b

\* operator| of SqliteResult.
Or(a, b) == IF a = "OK" /\ b = "OK" THEN "OK" ELSE "ERROR"

Op == Program[call][pc]
Does(op) == call \in Function /\ Op[1] = op
This == slot[Op[2]]                  \* the handle the operation is about
Goto(k) == pc' = k /\ UNCHANGED call

Init ==
  /\ conn = "none" /\ closes = 0
  /\ call = "Constructor" /\ pc = 1
  /\ slot = NoObjects /\ stmt = NoHandles
  /\ res = "OK"
  /\ search = [i \in Interval |-> 0]
  /\ asked = <<>> /\ todo = <<>>

\* The function returns: its objects are destroyed.
Return ==
  /\ call' = "none" /\ pc' = 1
  /\ slot' = NoObjects /\ stmt' = Destroyed(Slot)
  /\ UNCHANGED <<conn, closes, res, tables>>

\* A faulty variant of Abort: the stack is unwound, which destroys the objects
\* and the connection.
Unwind ==
  /\ conn' = "closed" /\ closes' = closes + 1
  /\ call' = "none" /\ pc' = 1
  /\ slot' = NoObjects /\ stmt' = Destroyed(Slot)
  /\ UNCHANGED <<res, tables>>

\* The process ends with all that SQLite keeps in it, and no destructor runs;
\* another one starts.
Abort ==
  /\ conn' = "none" /\ closes' = 0
  /\ call' = "Constructor" /\ pc' = 1
  /\ slot' = NoObjects /\ stmt' = NoHandles
  /\ res' = "OK"
  /\ search' = [i \in Interval |-> 0]
  /\ asked' = <<>> /\ todo' = <<>>

----------------------------------------------------------------------------
(* The steps of a function. *)

\* A call from outside, on the constructed Instance.
Call(f, v) ==
  /\ call = "none" /\ conn = "open"
  /\ call' = f /\ pc' = 1
  /\ asked' = v /\ todo' = v
  /\ UNCHANGED <<conn, closes, slot, stmt, res, search>>

\* Sqlite::connect; when SQLite cannot open the file, the connection is closed
\* and its pointer kept.
Connect ==
  /\ Does("connect")
  /\ \/ conn' = "open" /\ res' = "OK" /\ UNCHANGED closes
     \/ conn' = "failed" /\ res' = "ERROR" /\ closes' = closes + 1
  /\ Goto(pc + 1)
  /\ UNCHANGED <<slot, stmt, tables>>

\* Sqlite::prepareStatement, whose result initializes the Expected or is
\* assigned to it: then what it held is destroyed.
Prepare ==
  /\ Does("prepare")
  /\ \/ \E h \in Handle :
          /\ stmt[h] = Free
          /\ stmt' = [Destroyed({"res"}) EXCEPT
                        ![h] = [sql |-> Op[2], state |-> "ready", bound |-> FALSE]]
          /\ slot' = [slot EXCEPT !["res"] = h]
     \/ stmt' = Destroyed({"res"}) /\ slot' = [slot EXCEPT !["res"] = "error"]
  /\ Goto(pc + 1)
  /\ UNCHANGED <<conn, closes, res, tables>>

\* RETURN_IF_ERROR and hasValue; value() asserts that there is a value.
Check ==
  \/ /\ Does("check") \/ Does("expect")
     /\ slot["res"] # "error"
     /\ Goto(pc + 1)
     /\ UNCHANGED <<conn, closes, slot, stmt, res, tables>>
  \/ Does("check") /\ slot["res"] = "error" /\ Return
  \/ Does("expect") /\ slot["res"] = "error" /\ Abort

Take ==
  /\ Does("take")
  /\ slot' = Moved(Op[2])
  /\ Goto(pc + 1)
  /\ UNCHANGED <<conn, closes, stmt, res, tables>>

\* "db::SqliteResult res;"
Unset ==
  /\ Does("unset")
  /\ res' \in Result
  /\ Goto(pc + 1)
  /\ UNCHANGED <<conn, closes, slot, stmt, tables>>

\* bindText, bindInt64 and bindBlob for every parameter of the statement.
Bind ==
  /\ Does("bind") \/ Does("orBind")
  /\ \E r \in {"OK", "ERROR"} :
       /\ res' = IF Does("bind") THEN r ELSE Or(res, r)
       /\ stmt' = [stmt EXCEPT ![This].bound = (r = "OK")]
  /\ Goto(pc + 1)
  /\ UNCHANGED <<conn, closes, slot, tables>>

\* What sqlite3_step may answer for the statement of handle h, and the state it
\* leaves the statement in.
Answer(h) ==
  {<<"OK", "done">>, <<"ERROR", "failed">>}
    \cup {<<"ROW", "row">> : q \in Query \cap {stmt[h].sql}}

\* What a statement that is done has done to the temporary table.
SearchAfter(h) ==
  CASE stmt[h].sql = "CLEAR" -> [i \in Interval |-> 0]
    [] stmt[h].sql = "INSERT_INTO_INTERVALS" -> [search EXCEPT ![Head(todo)] = @ + 1]
    [] OTHER -> search

Step ==
  /\ Does("step") \/ Does("orStep") \/ Does("whileRow")
  /\ \E a \in Answer(This) :
       /\ stmt' = [stmt EXCEPT ![This].state = a[2]]
       /\ res' = IF Does("step") THEN a[1] ELSE IF Does("orStep") THEN Or(res, a[1]) ELSE res
       /\ search' = IF a[1] = "OK" THEN SearchAfter(This) ELSE search
       /\ Goto(IF Does("whileRow") /\ a[1] = "ROW" THEN pc ELSE pc + 1)
  /\ UNCHANGED <<conn, closes, slot, asked, todo>>

\* sqlite3_reset repeats the status of the step before it, which is or-ed in.
Reset ==
  /\ Does("reset")
  /\ stmt' = [stmt EXCEPT ![This].state = "ready"]
  /\ Goto(pc + 1)
  /\ UNCHANGED <<conn, closes, slot, res, tables>>

\* columnText, columnInt64 and columnBlob, only when the step gave a row.
Columns ==
  /\ Does("columnsIfRow")
  /\ Goto(pc + 1)
  /\ UNCHANGED <<conn, closes, slot, stmt, res, tables>>

\* RETURN_IF_RESULT_ERROR and the assertions of the constructor.
Status ==
  \/ /\ Does("okOrReturn") \/ Does("okOrAbort")
     /\ res = "OK"
     /\ Goto(pc + 1)
     /\ UNCHANGED <<conn, closes, slot, stmt, res, tables>>
  \/ Does("okOrReturn") /\ res # "OK" /\ Return
  \/ Does("okOrAbort") /\ res # "OK" /\ Abort

\* The loop over the intervals: the number of operations in its body is 5.
Loop ==
  /\ \/ Does("each") /\ Goto(IF todo = <<>> THEN pc + 6 ELSE pc + 1) /\ UNCHANGED todo
     \/ Does("again") /\ Goto(pc - 5) /\ todo' = Tail(todo)
  /\ UNCHANGED <<conn, closes, slot, stmt, res, search, asked>>

Finish == (Does("return") \/ Does("report")) /\ Return

\* The Instance is destroyed, and with it the connection.
Close ==
  /\ call = "none" /\ conn = "open"
  /\ conn' = "closed" /\ closes' = closes + 1
  /\ UNCHANGED <<call, pc, slot, stmt, res, tables>>

\* Another Instance is constructed.
Start == call = "none" /\ conn = "closed" /\ Abort

Next ==
  \/ \E f \in Function \ {"Constructor", "GetAllMessages"} : Call(f, <<>>)
  \/ \E v \in Vector : Call("GetAllMessages", v)
  \/ Connect
  \/ Prepare
  \/ Check
  \/ Take
  \/ Unset
  \/ Bind
  \/ Step
  \/ Reset
  \/ Columns
  \/ Status
  \/ Loop
  \/ Finish
  \/ Close
  \/ Start

Spec == Init /\ [][Next]_vars

----------------------------------------------------------------------------
(* Properties. *)

\* A handle that is not finalized belongs to exactly one object, and one that is
\* to none: no path of any function, through moves, swaps, assignments and early
\* returns, finalizes a statement twice or leaves one behind.
OneOwner ==
  \A h \in Handle :
    Cardinality({s \in Slot : slot[s] = h}) = IF stmt[h] = Free THEN 0 ELSE 1

\* SQLite is used as it allows: statements are prepared on an open connection;
\* parameters are bound, and a statement is stepped first, only when it is ready;
\* columns are read only in a row; and nothing is done to a null or finalized one.
LegalUse ==
  LET state == IF This \in Handle THEN stmt[This].state ELSE "none"
  IN /\ Does("prepare") => conn = "open"
     /\ Does("bind") \/ Does("orBind") \/ Does("step") \/ Does("orStep")
          => state = "ready"
     /\ Does("whileRow") => state \in {"ready", "row"}
     /\ Does("columnsIfRow") /\ res = "ROW" => state = "row"
     /\ Does("reset") => state \in {"done", "failed"}

\* When getAllMessages joins the messages with the temporary table, which lives
\* as long as the connection, the table has every interval of this call once and
\* none of an earlier call, whatever failed in those.
SearchExact ==
  Does("whileRow") /\ Op[2] = "s2" =>
    search = [i \in Interval |-> Cardinality({k \in DOMAIN asked : asked[k] = i})]

\* An insert that reports OK has bound every parameter and stored its row, also
\* where the variable of the status had no first value.
OkMeansDone ==
  Does("report") /\ res = "OK" => stmt[This].bound /\ stmt[This].state = "done"

\* A connection is closed once, though connect closes one that fails and the
\* destructor would close it again; and never under a statement.
ClosedOnce == closes <= 1 /\ (conn = "closed" => stmt = NoHandles)
=============================================================================
