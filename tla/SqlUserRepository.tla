-------------------------- MODULE SqlUserRepository --------------------------
(***************************************************************************)
(* SqlServerUserRepository: Create, Update and Delete as transactions, one *)
(* SQL statement at a time.  A user is stored in three parts, the row of   *)
(* the table User and its rows in UserSecurityCode and UserPasswordHistory *)
(* (both with a foreign key to User).  Update writes the row, deletes and  *)
(* inserts the codes, then the history; Delete removes the codes, the      *)
(* history and the row.  So the two lock a user in opposite orders.        *)
(*                                                                         *)
(* The database.  A statement that changes a part of a user locks it until *)
(* the transaction ends, at the isolation level of the unit of work        *)
(* (READ UNCOMMITTED) as at any other.  A statement that finds no row      *)
(* locks nothing.  UserSecurityCode has no index by user, so deleting from *)
(* it reads the codes of everybody and waits for all locks on them.        *)
(* Sessions that wait for each other are noticed, and one is rolled back.  *)
(*                                                                         *)
(* Data abstraction.  Each part is the set of its rows; an object in       *)
(* memory is one set for each part.                                        *)
(***************************************************************************)
EXTENDS Naturals

CONSTANTS
  Sessions,   \* requests that are inside a call of the repository
  Users,      \* the ids of users
  Rows,       \* the rows a part may have
  Objects,    \* the User objects that are saved
  NoCall,     \* a session outside a call
  NoSession,  \* the owner of a lock that is free
  MayFail     \* statements may fail: a timeout, a lost connection

Parts  == {"row", "codes", "past"}
Absent == [p \in Parts |-> {}]
Items  == Parts \X Users

ASSUME ObjectsAssumption ==
  /\ Objects \subseteq [Parts -> SUBSET Rows]
  /\ \A o \in Objects : o["row"] # {}
ASSUME NullsAssumption ==
  /\ NoSession \notin Sessions
  /\ NoCall \notin [op : {"create", "update", "delete"}, user : Users,
                    object : Objects]
ASSUME FaultAssumption == MayFail \in BOOLEAN

VARIABLES
  disk,    \* per part and user: the committed rows
  data,    \* per part and user: the rows as changed by open transactions
  lock,    \* per part and user: the session that changed it and is still open
  known,   \* ids whose row has ever been inserted
  call,    \* per session: the operation
  pc,      \* per session: the next statement
  left,    \* per session: the rows its loop has still to insert
  answer   \* per session: how its last call ended

vars == <<disk, data, lock, known, call, pc, left, answer>>

Stored(u) == [p \in Parts |-> disk[<<p, u>>]]
Calls == [op : {"create", "update", "delete"}, user : Users, object : Objects]

\* An object without child rows: a user that was deleted between the query for its row
\* and those for its codes and its history is loaded as one.
Bare == {o \in Objects : o["codes"] = {} /\ o["past"] = {}}

TypeOK ==
  /\ disk \in [Items -> SUBSET Rows]
  /\ data \in [Items -> SUBSET Rows]
  /\ lock \in [Items -> Sessions \cup {NoSession}]
  /\ known \subseteq Users
  /\ call \in [Sessions -> Calls \cup {NoCall}]
  /\ pc \in [Sessions -> {"idle", "row", "codes", "addCodes", "past", "addPast",
                          "children", "commit"}]
  /\ left \in [Sessions -> SUBSET Rows]
  /\ \A s \in Sessions :
       /\ pc[s] = "addCodes" => left[s] \subseteq call[s].object["codes"]
       /\ pc[s] = "addPast" => left[s] \subseteq call[s].object["past"]
  /\ answer \in [Sessions -> {"none", "ok", "error"}]

Init ==
  /\ disk \in [Items -> SUBSET Rows]
  /\ \A u \in Users : Stored(u) \in Objects \cup {Absent}
  /\ data = disk
  /\ lock = [i \in Items |-> NoSession]
  /\ known = {u \in Users : Stored(u) # Absent}
  /\ call = [s \in Sessions |-> NoCall]
  /\ pc = [s \in Sessions |-> "idle"]
  /\ left = [s \in Sessions |-> {}]
  /\ answer = [s \in Sessions |-> "none"]

----------------------------------------------------------------------------
(* Locks. *)

Op(s)  == call[s].op
Who(s) == call[s].user

\* The items whose locks the next statement has to wait for.  Inserting a child row
\* looks up the user's row; a deleted row is locked before its child rows are looked
\* for.
Needs(s) ==
  CASE pc[s] = "codes"    -> {"codes"} \X Users
    [] pc[s] = "past"     -> {<<"past", Who(s)>>}
    [] pc[s] = "children" -> {<<"past", Who(s)>>} \cup ({"codes"} \X Users)
    [] pc[s] \in {"row", "addCodes", "addPast"} -> {<<"row", Who(s)>>}
    [] OTHER -> {}

Free(s) == \A i \in Needs(s) : lock[i] \in {s, NoSession}
WaitsFor(s) == {lock[i] : i \in Needs(s)} \ {s, NoSession}

\* Session s is one of a set of sessions that all wait for each other.
Deadlocked(s) ==
  \E S \in SUBSET Sessions :
    /\ s \in S
    /\ \A t \in S : WaitsFor(t) \cap S # {} /\ \E q \in S : t \in WaitsFor(q)

\* Statement: part p of the user becomes R.  Only rows that are there get locked.
Write(s, p, R) ==
  /\ data' = [data EXCEPT ![<<p, Who(s)>>] = R]
  /\ lock' = IF data[<<p, Who(s)>>] = R THEN lock
                                        ELSE [lock EXCEPT ![<<p, Who(s)>>] = s]

Goto(s, where, rows) ==
  /\ pc' = [pc EXCEPT ![s] = where]
  /\ left' = [left EXCEPT ![s] = rows]
  /\ UNCHANGED <<disk, call, answer>>

----------------------------------------------------------------------------
(* The unit of work. *)

\* An id is made for one Create; the other calls name a user that was found.
Begin(s) ==
  /\ pc[s] = "idle"
  /\ \E c \in Calls :
       /\ (c.op = "create") = (c.user \notin known)
       /\ \A t \in Sessions : c.op = "create" /\ call[t] # NoCall => Who(t) # c.user
       /\ call' = [call EXCEPT ![s] = c]
       /\ pc' = [pc EXCEPT ![s] = IF c.op = "delete" THEN "codes" ELSE "row"]
  /\ answer' = [answer EXCEPT ![s] = "none"]
  /\ UNCHANGED <<disk, data, lock, known, left>>

Release(s) ==
  lock' = [i \in Items |-> IF lock[i] = s THEN NoSession ELSE lock[i]]
Restore(s) ==
  data' = [i \in Items |-> IF lock[i] = s THEN disk[i] ELSE data[i]]

Answer(s, how) ==
  /\ pc' = [pc EXCEPT ![s] = "idle"]
  /\ call' = [call EXCEPT ![s] = NoCall]
  /\ left' = [left EXCEPT ![s] = {}]
  /\ answer' = [answer EXCEPT ![s] = how]

End(s, how) == Release(s) /\ Answer(s, how)

\* Variants: the unit of work is not disposed of; the exception of a statement is not
\* thrown on.
RollBackUndisposed(s) ==
  /\ Answer(s, "error")
  /\ UNCHANGED <<disk, data, lock, known>>
RollBackSwallowed(s) ==
  /\ Restore(s)
  /\ End(s, "ok")
  /\ UNCHANGED <<disk, known>>

\* Dispose without CommitChanges.
RollBack(s) ==
  /\ Restore(s)
  /\ End(s, "error")
  /\ UNCHANGED <<disk, known>>

\* If the connection is lost here, the caller gets an error for what was committed.
Commit(s) ==
  /\ pc[s] = "commit"
  /\ disk' = [i \in Items |-> IF lock[i] = s THEN data[i] ELSE disk[i]]
  /\ End(s, "ok") \/ (MayFail /\ End(s, "error"))
  /\ UNCHANGED <<data, known>>

StatementFails(s) ==
  /\ MayFail
  /\ pc[s] # "idle"
  /\ RollBack(s)

EndDeadlock(s) ==
  /\ Deadlocked(s)
  /\ RollBack(s)

----------------------------------------------------------------------------
(* The statements. *)

\* CreateUser.
InsertRow(s) ==
  /\ pc[s] = "row" /\ Op(s) = "create"
  /\ Free(s)
  /\ Write(s, "row", call[s].object["row"])
  /\ known' = known \cup {Who(s)}
  /\ Goto(s, "codes", {})

\* UpdateUser.  The statement does not mind if it finds no row.
UpdateRow(s) ==
  /\ pc[s] = "row" /\ Op(s) = "update"
  /\ Free(s)
  /\ IF data[<<"row", Who(s)>>] = {} THEN UNCHANGED <<data, lock>>
     ELSE /\ data' = [data EXCEPT ![<<"row", Who(s)>>] = call[s].object["row"]]
          /\ lock' = [lock EXCEPT ![<<"row", Who(s)>>] = s]
  /\ Goto(s, "codes", {})
  /\ UNCHANGED known

\* DeleteAllUserSecurityCodes, DeleteUserPasswordHistory, and the same statements in
\* DeleteUser.
DeleteCodes(s) ==
  /\ pc[s] = "codes"
  /\ Free(s)
  /\ Write(s, "codes", {})
  /\ IF Op(s) = "delete" THEN Goto(s, "past", {})
                         ELSE Goto(s, "addCodes", call[s].object["codes"])
  /\ UNCHANGED known

\* Variant: the loop that saves the history goes over the codes.
DeletePastAddCodes(s) ==
  /\ pc[s] = "past"
  /\ Free(s)
  /\ Write(s, "past", {})
  /\ IF Op(s) = "delete" THEN Goto(s, "row", {})
                         ELSE Goto(s, "addPast", call[s].object["codes"])
  /\ UNCHANGED known

DeletePast(s) ==
  /\ pc[s] = "past"
  /\ Free(s)
  /\ Write(s, "past", {})
  /\ IF Op(s) = "delete" THEN Goto(s, "row", {})
                         ELSE Goto(s, "addPast", call[s].object["past"])
  /\ UNCHANGED known

\* CreateUserSecurityCode, CreateHistoricalPassword: one statement for each row.
InsertChild(s, p) ==
  /\ Free(s)
  /\ data[<<"row", Who(s)>>] # {}
  /\ \E x \in left[s] :
       /\ Write(s, p, data[<<p, Who(s)>>] \cup {x})
       /\ Goto(s, pc[s], left[s] \ {x})
  /\ UNCHANGED known

InsertCode(s) == pc[s] = "addCodes" /\ InsertChild(s, "codes")
InsertPast(s) == pc[s] = "addPast" /\ InsertChild(s, "past")

\* Variant: Update saves the codes and forgets the history.
LoopEndsEarly(s) ==
  /\ pc[s] \in {"addCodes", "addPast"}
  /\ left[s] = {}
  /\ Goto(s, "commit", {})
  /\ UNCHANGED <<data, lock, known>>

LoopEnds(s) ==
  /\ pc[s] \in {"addCodes", "addPast"}
  /\ left[s] = {}
  /\ Goto(s, IF pc[s] = "addCodes" THEN "past" ELSE "commit", {})
  /\ UNCHANGED <<data, lock, known>>

\* A user without a row cannot get child rows.  If there are none to insert the update
\* of a deleted user is committed, and answered as if it had taken effect.
NoUserForChild(s) ==
  /\ pc[s] \in {"addCodes", "addPast"}
  /\ Free(s)
  /\ left[s] # {} /\ data[<<"row", Who(s)>>] = {}
  /\ RollBack(s)

HasChildren(u) == data[<<"codes", u>>] # {} \/ data[<<"past", u>>] # {}

\* The last statement of DeleteUser.  Without a row there are no children either.
DeleteRow(s) ==
  /\ pc[s] = "row" /\ Op(s) = "delete"
  /\ Free(s)
  /\ Write(s, "row", {})
  /\ Goto(s, IF data[<<"row", Who(s)>>] = {} THEN "commit" ELSE "children", {})
  /\ UNCHANGED known

NoChildren(s) ==
  /\ pc[s] = "children"
  /\ Free(s)
  /\ ~HasChildren(Who(s))
  /\ Goto(s, "commit", {})
  /\ UNCHANGED <<data, lock, known>>

ChildrenForRow(s) ==
  /\ pc[s] = "children"
  /\ Free(s)
  /\ HasChildren(Who(s))
  /\ RollBack(s)

Statement(s) ==
  \/ InsertRow(s) \/ UpdateRow(s) \/ DeleteCodes(s) \/ DeletePast(s)
  \/ InsertCode(s) \/ InsertPast(s) \/ LoopEnds(s) \/ NoUserForChild(s)
  \/ DeleteRow(s) \/ NoChildren(s) \/ ChildrenForRow(s) \/ Commit(s)

Next ==
  \E s \in Sessions :
    Begin(s) \/ Statement(s) \/ StatementFails(s) \/ EndDeadlock(s)

Spec == Init /\ [][Next]_vars

\* Locks are granted in the order in which they were asked for, so a statement that
\* could go on again and again does; deadlocks are looked for all the time.
FairSpec ==
  Spec /\ \A s \in Sessions : SF_vars(Statement(s)) /\ SF_vars(EndDeadlock(s))
----------------------------------------------------------------------------
\* To the handlers this is the atomic store: an operation takes effect with the
\* COMMIT of its transaction and leaves nothing behind when it fails, although the
\* unit of work runs READ UNCOMMITTED (UnitOfWork.cs, 19).
Store == INSTANCE UserStore WITH table <- [u \in Users |-> Stored(u)]
Implements == Store!Spec

\* Every user on disk has the row, the codes and the history of one object: never
\* the codes of one save with the row of another, and no codes without a user.
UsersAreWhole == \A u \in Users : Stored(u) \in Objects \cup {Absent}

\* Every call is answered, also when an update and a deletion of one user wait for
\* each other.
CallsEnd == \A s \in Sessions : pc[s] # "idle" ~> pc[s] = "idle"
=============================================================================
