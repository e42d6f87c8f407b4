---------------------- MODULE SqlUserRepositoryProofs ----------------------
(***************************************************************************)
(* Proofs about SqlUserRepository, for every set of sessions, users and    *)
(* objects: that it implements UserStore, and the invariant this rests on. *)
(***************************************************************************)
EXTENDS SqlUserRepository, TLAPS

----------------------------------------------------------------------------
(* The invariant.  First, where a call can be.                               *)

ControlInv ==
  \A s \in Sessions :
    /\ pc[s] = "idle" <=> call[s] = NoCall
    /\ call[s] # NoCall /\ Op(s) = "delete" =>
         pc[s] \in {"codes", "past", "row", "children", "commit"}
    /\ call[s] # NoCall /\ Op(s) # "delete" =>
         pc[s] \in {"row", "codes", "addCodes", "past", "addPast", "commit"}

TypeInv == TypeOK /\ ControlInv

\* The user is not there, and nobody is about to change that.
Gone(u) == lock[<<"row", u>>] = NoSession /\ disk[<<"row", u>>] = {}

\* Where the row is gone or was never there, nothing is locked.
GoneInv == \A u \in Users : Gone(u) => \A p \in Parts : lock[<<p, u>>] = NoSession

\* Only the one session that creates a user works on an id that is not known.
KnownInv ==
  /\ \A u \in Users \ known : Gone(u)
  /\ \A s \in Sessions : call[s] # NoCall =>
       (Who(s) \notin known <=> Op(s) = "create" /\ pc[s] = "row")
  /\ \A s, t \in Sessions :
       call[s] # NoCall /\ call[t] # NoCall /\ Who(s) = Who(t) /\ Who(s) \notin known
         => s = t

Now(s, p) == data[<<p, Who(s)>>]
Held(s, p) == lock[<<p, Who(s)>>] = s
Unshared(s, p) == lock[<<p, Who(s)>>] \in {s, NoSession}

\* What session s has put into part p stays there until it commits.
Ours(s, p) == Unshared(s, p) /\ (Now(s, p) # {} => Held(s, p))

\* How far a session that holds the row has replaced the parts of the user.
Saved(s) ==
  LET new == call[s].object
  IN /\ Now(s, "row") = new["row"]
     /\ pc[s] = "addCodes" =>
          Ours(s, "codes") /\ Now(s, "codes") \cup left[s] = new["codes"]
     /\ pc[s] \in {"past", "addPast", "commit"} =>
          Ours(s, "codes") /\ Now(s, "codes") = new["codes"]
     /\ pc[s] = "addPast" =>
          Ours(s, "past") /\ Now(s, "past") \cup left[s] = new["past"]
     /\ pc[s] = "commit" => Ours(s, "past") /\ Now(s, "past") = new["past"]

CreateInv(s) ==
  IF pc[s] = "row" THEN \A p \in Parts : ~Held(s, p)
  ELSE /\ Held(s, "row") /\ Saved(s)
       /\ \A p \in Parts : disk[<<p, Who(s)>>] = {} /\ Unshared(s, p)

\* An update of a user that has been deleted gets past its loops only without rows to
\* insert.
Overlooked(s) ==
  LET new == call[s].object
  IN /\ Gone(Who(s))
     /\ pc[s] = "addCodes" => left[s] = new["codes"]
     /\ pc[s] \in {"past", "addPast", "commit"} => new["codes"] = {}
     /\ pc[s] = "addPast" => left[s] = new["past"]
     /\ pc[s] = "commit" => new["past"] = {}

UpdateInv(s) ==
  IF pc[s] = "row" THEN \A p \in Parts : ~Held(s, p)
  ELSE \/ Held(s, "row") /\ Saved(s) /\ disk[<<"row", Who(s)>>] # {}
       \/ Overlooked(s)

DeleteInv(s) ==
  CASE pc[s] = "children" ->
         Held(s, "row") /\ Now(s, "row") = {} /\ disk[<<"row", Who(s)>>] # {}
    [] pc[s] = "commit" ->
         \/ Gone(Who(s))
         \/ /\ Held(s, "row") /\ disk[<<"row", Who(s)>>] # {}
            /\ \A p \in Parts : Now(s, p) = {} /\ Unshared(s, p)
    [] OTHER -> ~Held(s, "row")

CallInv(s) ==
  call[s] # NoCall =>
    /\ Op(s) = "create" => CreateInv(s)
    /\ Op(s) = "update" => UpdateInv(s)
    /\ Op(s) = "delete" => DeleteInv(s)

\* A lock belongs to a session that works on that user, and what is not locked is as
\* it was committed.
NothingLeftOpen ==
  \A i \in Items :
    IF lock[i] = NoSession THEN data[i] = disk[i]
    ELSE call[lock[i]] # NoCall /\ Who(lock[i]) = i[2]

RepositoryInv ==
  /\ TypeInv
  /\ NothingLeftOpen
  /\ UsersAreWhole
  /\ GoneInv
  /\ KnownInv
  /\ \A s \in Sessions : CallInv(s)

----------------------------------------------------------------------------
(* Types.                                                                    *)

\* A session inside a call works on a user, with an object of three typed parts.
LEMMA CallType ==
  ASSUME TypeInv, NEW s \in Sessions, pc[s] # "idle"
  PROVE  /\ call[s] # NoCall /\ call[s] \in Calls
         /\ Op(s) \in {"create", "update", "delete"} /\ Who(s) \in Users
         /\ \A p \in Parts : <<p, Who(s)>> \in Items
         /\ call[s].object \in Objects
         /\ \A p \in Parts : call[s].object[p] \in SUBSET Rows
<1>1. call[s] # NoCall /\ call[s] \in Calls
  BY DEF TypeInv, TypeOK, ControlInv
<1>2. Op(s) \in {"create", "update", "delete"} /\ Who(s) \in Users
        /\ call[s].object \in Objects
  BY <1>1 DEF Calls, Op, Who
<1>3. \A p \in Parts : <<p, Who(s)>> \in Items
  BY <1>2 DEF Items
<1>4. \A p \in Parts : call[s].object[p] \in SUBSET Rows
  BY <1>2, ObjectsAssumption
<1> QED
  BY <1>1, <1>2, <1>3, <1>4

\* Writing rows into a part keeps the tables and the locks typed.
LEMMA WriteType ==
  ASSUME TypeInv, NEW s \in Sessions, pc[s] # "idle", NEW p \in Parts,
         NEW R \in SUBSET Rows, Write(s, p, R)
  PROVE  data' \in [Items -> SUBSET Rows] /\ lock' \in [Items -> Sessions \cup {NoSession}]
<1>1. <<p, Who(s)>> \in Items
  BY CallType
<1> QED
  BY <1>1 DEF Write, TypeInv, TypeOK

\* Going on inside a call to a statement that its operation has.
LEMMA GotoType ==
  ASSUME TypeInv, NEW s \in Sessions, pc[s] # "idle",
         NEW where \in {"row", "codes", "addCodes", "past", "addPast", "children", "commit"},
         NEW R \in SUBSET Rows, Goto(s, where, R),
         where = "addCodes" => R \subseteq call[s].object["codes"],
         where = "addPast" => R \subseteq call[s].object["past"],
         Op(s) = "delete" => where \in {"codes", "past", "row", "children", "commit"},
         Op(s) # "delete" => where # "children",
         data' \in [Items -> SUBSET Rows], lock' \in [Items -> Sessions \cup {NoSession}],
         known' \subseteq Users
  PROVE  TypeInv'
<1>1. TypeOK'
  <2>1. ASSUME NEW t \in Sessions
        PROVE  /\ pc'[t] = "addCodes" => left'[t] \subseteq call'[t].object["codes"]
               /\ pc'[t] = "addPast" => left'[t] \subseteq call'[t].object["past"]
    <3>1. CASE t = s
      BY <3>1 DEF TypeInv, TypeOK, Goto
    <3>2. CASE t # s
      BY <3>2 DEF TypeInv, TypeOK, Goto
    <3> QED
      BY <3>1, <3>2
  <2>2. /\ pc' \in [Sessions -> {"idle", "row", "codes", "addCodes", "past", "addPast",
                                 "children", "commit"}]
        /\ left' \in [Sessions -> SUBSET Rows]
        /\ UNCHANGED <<disk, call, answer>>
    BY DEF TypeInv, TypeOK, Goto
  <2> QED
    BY <2>1, <2>2 DEF TypeInv, TypeOK
<1>2. call' = call /\ call[s] # NoCall
  BY CallType DEF Goto
<1>3. pc' = [pc EXCEPT ![s] = where] /\ pc \in [Sessions -> {"idle", "row", "codes",
        "addCodes", "past", "addPast", "children", "commit"}]
  BY DEF Goto, TypeInv, TypeOK
<1>4. ASSUME NEW t \in Sessions
      PROVE  /\ pc'[t] = "idle" <=> call'[t] = NoCall
             /\ call'[t] # NoCall /\ Op(t)' = "delete" =>
                  pc'[t] \in {"codes", "past", "row", "children", "commit"}
             /\ call'[t] # NoCall /\ Op(t)' # "delete" =>
                  pc'[t] \in {"row", "codes", "addCodes", "past", "addPast", "commit"}
  <2>1. CASE t = s
    BY <1>2, <1>3, <2>1 DEF Op
  <2>2. CASE t # s
    BY <1>2, <1>3, <2>2 DEF Op, TypeInv, ControlInv
  <2> QED
    BY <2>1, <2>2
<1> QED
  BY <1>1, <1>4 DEF TypeInv, ControlInv

\* A call that ends leaves an idle session.
LEMMA EndType ==
  ASSUME TypeInv, NEW s \in Sessions, NEW how \in {"ok", "error"}, End(s, how),
         disk' \in [Items -> SUBSET Rows], data' \in [Items -> SUBSET Rows],
         UNCHANGED known
  PROVE  TypeInv'
<1>1. TypeOK'
  <2>1. /\ lock' \in [Items -> Sessions \cup {NoSession}]
        /\ call' \in [Sessions -> Calls \cup {NoCall}]
        /\ pc' \in [Sessions -> {"idle", "row", "codes", "addCodes", "past", "addPast",
                                 "children", "commit"}]
        /\ left' \in [Sessions -> SUBSET Rows]
        /\ answer' \in [Sessions -> {"none", "ok", "error"}]
    BY DEF TypeInv, TypeOK, End, Answer, Release
  <2>2. ASSUME NEW t \in Sessions
        PROVE  /\ pc'[t] = "addCodes" => left'[t] \subseteq call'[t].object["codes"]
               /\ pc'[t] = "addPast" => left'[t] \subseteq call'[t].object["past"]
    BY DEF TypeInv, TypeOK, End, Answer
  <2> QED
    BY <2>1, <2>2 DEF TypeInv, TypeOK
<1>2. \A t \in Sessions :
        IF t = s THEN pc'[t] = "idle" /\ call'[t] = NoCall
        ELSE pc'[t] = pc[t] /\ call'[t] = call[t]
  BY DEF TypeInv, TypeOK, End, Answer
<1>3. ControlInv'
  BY <1>2 DEF TypeInv, ControlInv, Op
<1> QED
  BY <1>1, <1>3 DEF TypeInv

\* A roll-back keeps the types.
LEMMA RollBackType ==
  ASSUME TypeInv, NEW s \in Sessions, RollBack(s)
  PROVE  TypeInv'
<1>1. disk' \in [Items -> SUBSET Rows] /\ data' \in [Items -> SUBSET Rows]
  BY DEF RollBack, Restore, TypeInv, TypeOK
<1> QED
  BY <1>1, EndType DEF RollBack

\* A commit keeps them.
LEMMA CommitType ==
  ASSUME TypeInv, NEW s \in Sessions, Commit(s)
  PROVE  TypeInv'
<1>1. disk' \in [Items -> SUBSET Rows] /\ data' \in [Items -> SUBSET Rows]
  BY DEF Commit, TypeInv, TypeOK
<1> QED
  BY <1>1, EndType DEF Commit

\* The beginning of a call keeps them.
LEMMA BeginType ==
  ASSUME TypeInv, NEW s \in Sessions, Begin(s)
  PROVE  TypeInv'
<1>1. PICK c \in Calls :
        /\ call' = [call EXCEPT ![s] = c]
        /\ pc' = [pc EXCEPT ![s] = IF c.op = "delete" THEN "codes" ELSE "row"]
  BY DEF Begin
<1>2. c # NoCall
  BY NullsAssumption DEF Calls
<1>4. \A t \in Sessions :
        IF t = s THEN pc'[t] = (IF c.op = "delete" THEN "codes" ELSE "row") /\ call'[t] = c
        ELSE pc'[t] = pc[t] /\ call'[t] = call[t]
  BY <1>1 DEF TypeInv, TypeOK
<1>3. TypeOK'
  <2>1. ASSUME NEW t \in Sessions
        PROVE  /\ pc'[t] = "addCodes" => left'[t] \subseteq call'[t].object["codes"]
               /\ pc'[t] = "addPast" => left'[t] \subseteq call'[t].object["past"]
    BY <1>4 DEF Begin, TypeInv, TypeOK
  <2>2. /\ call' \in [Sessions -> Calls \cup {NoCall}]
        /\ pc' \in [Sessions -> {"idle", "row", "codes", "addCodes", "past", "addPast",
                                 "children", "commit"}]
        /\ answer' \in [Sessions -> {"none", "ok", "error"}]
    BY <1>1 DEF Begin, TypeInv, TypeOK
  <2> QED
    BY <2>1, <2>2 DEF Begin, TypeInv, TypeOK
<1>5. ControlInv'
  BY <1>2, <1>4 DEF TypeInv, ControlInv, Op
<1> QED
  BY <1>3, <1>5 DEF TypeInv

\* Sessions that are in a deadlock are inside a call.
LEMMA DeadlockedCall ==
  ASSUME NEW s \in Sessions, Deadlocked(s)
  PROVE  pc[s] # "idle"
<1>1. Needs(s) # {}
  BY DEF Deadlocked, WaitsFor
<1> QED
  BY <1>1 DEF Needs

\* Every statement keeps them.
LEMMA StatementType ==
  ASSUME TypeInv, NEW s \in Sessions, Statement(s)
  PROVE  TypeInv'
<1> USE DEF Parts
<1>a. known \subseteq Users
  BY DEF TypeInv, TypeOK
<1>b. \A i \in Items : data[i] \in SUBSET Rows
  BY DEF TypeInv, TypeOK
<1>t. data \in [Items -> SUBSET Rows] /\ lock \in [Items -> Sessions \cup {NoSession}]
  BY DEF TypeInv, TypeOK
<1>1. CASE InsertRow(s)
  <2>1. pc[s] # "idle" /\ Op(s) = "create"
    BY <1>1 DEF InsertRow
  <2>2. known' \subseteq Users
    BY <1>1, <1>a, <2>1, CallType DEF InsertRow
  <2>3. Write(s, "row", call[s].object["row"]) /\ Goto(s, "codes", {})
    BY <1>1 DEF InsertRow
  <2>4. call[s].object["row"] \in SUBSET Rows
    BY <2>1, CallType
  <2>5. data' \in [Items -> SUBSET Rows] /\ lock' \in [Items -> Sessions \cup {NoSession}]
    BY <2>1, <2>3, <2>4, WriteType
  <2> QED
    BY <2>1, <2>2, <2>3, <2>5, GotoType
<1>2. CASE UpdateRow(s)
  <2>1. pc[s] # "idle" /\ Op(s) = "update" /\ known' = known /\ Goto(s, "codes", {})
    BY <1>2 DEF UpdateRow
  <2>2. <<"row", Who(s)>> \in Items /\ call[s].object["row"] \in SUBSET Rows
    BY <2>1, CallType
  <2>3. data' \in [Items -> SUBSET Rows] /\ lock' \in [Items -> Sessions \cup {NoSession}]
    BY <1>2, <1>t, <2>2 DEF UpdateRow
  <2> QED
    BY <1>a, <2>1, <2>3, GotoType
<1>3. CASE DeleteCodes(s)
  <2>1. pc[s] # "idle" /\ known' = known /\ Write(s, "codes", {})
    BY <1>3 DEF DeleteCodes
  <2>2. IF Op(s) = "delete" THEN Goto(s, "past", {})
                            ELSE Goto(s, "addCodes", call[s].object["codes"])
    BY <1>3 DEF DeleteCodes
  <2>3. data' \in [Items -> SUBSET Rows] /\ lock' \in [Items -> Sessions \cup {NoSession}]
    BY <2>1, WriteType
  <2>4. call[s].object["codes"] \in SUBSET Rows
    BY <2>1, CallType
  <2>5. CASE Op(s) = "delete"
    BY <1>a, <2>1, <2>2, <2>3, <2>5, GotoType
  <2>6. CASE Op(s) # "delete"
    BY <1>a, <2>1, <2>2, <2>3, <2>4, <2>6, GotoType
  <2> QED
    BY <2>5, <2>6
<1>4. CASE DeletePast(s)
  <2>1. pc[s] # "idle" /\ known' = known /\ Write(s, "past", {})
    BY <1>4 DEF DeletePast
  <2>2. IF Op(s) = "delete" THEN Goto(s, "row", {})
                            ELSE Goto(s, "addPast", call[s].object["past"])
    BY <1>4 DEF DeletePast
  <2>3. data' \in [Items -> SUBSET Rows] /\ lock' \in [Items -> Sessions \cup {NoSession}]
    BY <2>1, WriteType
  <2>4. call[s].object["past"] \in SUBSET Rows
    BY <2>1, CallType
  <2>5. CASE Op(s) = "delete"
    BY <1>a, <2>1, <2>2, <2>3, <2>5, GotoType
  <2>6. CASE Op(s) # "delete"
    BY <1>a, <2>1, <2>2, <2>3, <2>4, <2>6, GotoType
  <2> QED
    BY <2>5, <2>6
<1>5. ASSUME NEW p \in Parts, InsertChild(s, p), pc[s] \in {"addCodes", "addPast"}
      PROVE  TypeInv'
  <2>1. PICK x \in left[s] : /\ Write(s, p, data[<<p, Who(s)>>] \cup {x})
                             /\ Goto(s, pc[s], left[s] \ {x})
    BY <1>5 DEF InsertChild
  <2>2. /\ left[s] \in SUBSET Rows
        /\ pc[s] = "addCodes" => left[s] \ {x} \subseteq call[s].object["codes"]
        /\ pc[s] = "addPast" => left[s] \ {x} \subseteq call[s].object["past"]
    BY DEF TypeInv, TypeOK
  <2>3. pc[s] # "idle" /\ known' = known /\ Op(s) # "delete"
    BY <1>5, CallType DEF InsertChild, TypeInv, ControlInv
  <2>4. data[<<p, Who(s)>>] \cup {x} \in SUBSET Rows
    BY <1>b, <2>2, <2>3, CallType
  <2> QED
    BY <1>5, <1>a, <2>1, <2>2, <2>3, <2>4, WriteType, GotoType
<1>6. CASE LoopEnds(s)
  <2>1. pc[s] \in {"addCodes", "addPast"} /\ UNCHANGED <<data, lock, known>>
    BY <1>6 DEF LoopEnds
  <2>2. Op(s) # "delete"
    BY <2>1, CallType DEF TypeInv, ControlInv
  <2>3. PICK where \in {"past", "commit"} : Goto(s, where, {})
    BY <1>6 DEF LoopEnds
  <2> QED
    BY <1>a, <1>t, <2>1, <2>2, <2>3, GotoType
<1>7. CASE DeleteRow(s)
  <2>1. pc[s] # "idle" /\ known' = known /\ Write(s, "row", {}) /\ Op(s) = "delete"
    BY <1>7 DEF DeleteRow
  <2>2. PICK where \in {"children", "commit"} : Goto(s, where, {})
    BY <1>7 DEF DeleteRow
  <2> QED
    BY <1>a, <2>1, <2>2, WriteType, GotoType
<1>8. CASE NoChildren(s)
  <2>1. pc[s] = "children" /\ UNCHANGED <<data, lock, known>> /\ Goto(s, "commit", {})
    BY <1>8 DEF NoChildren
  <2> QED
    BY <1>a, <1>t, <2>1, GotoType
<1>9. CASE NoUserForChild(s) \/ ChildrenForRow(s)
  BY <1>9, RollBackType DEF NoUserForChild, ChildrenForRow
<1>10. CASE Commit(s)
  BY <1>10, CommitType
<1> QED
  BY <1>1, <1>2, <1>3, <1>4, <1>5, <1>6, <1>7, <1>8, <1>9, <1>10
  DEF Statement, InsertCode, InsertPast

\* Every step keeps the types.
LEMMA NextType == TypeInv /\ [Next]_vars => TypeInv'
<1> SUFFICES ASSUME TypeInv, [Next]_vars PROVE TypeInv'
  OBVIOUS
<1>1. ASSUME NEW s \in Sessions, Begin(s) PROVE TypeInv'
  BY <1>1, BeginType
<1>2. ASSUME NEW s \in Sessions, Statement(s) PROVE TypeInv'
  BY <1>2, StatementType
<1>3. ASSUME NEW s \in Sessions, StatementFails(s) \/ EndDeadlock(s) PROVE TypeInv'
  BY <1>3, RollBackType DEF StatementFails, EndDeadlock
<1>4. CASE UNCHANGED vars
  BY <1>4 DEF vars, TypeInv, TypeOK, ControlInv, Op
<1> QED
  BY <1>1, <1>2, <1>3, <1>4 DEF Next

\* The types hold at the start.
LEMMA InitType == Init => TypeInv
<1> SUFFICES ASSUME Init PROVE TypeInv
  OBVIOUS
<1>1. TypeOK
  BY DEF Init, TypeOK
<1>2. ControlInv
  BY DEF Init, ControlInv
<1> QED
  BY <1>1, <1>2 DEF TypeInv

\* Every variable of the repository keeps its type, whatever statements fail.
THEOREM TypeCorrect == Spec => []TypeOK
<1>1. TypeInv => TypeOK
  BY DEF TypeInv
<1> QED
  BY <1>1, InitType, NextType, PTL DEF Spec

----------------------------------------------------------------------------
(* One statement of a session and the calls of the others.                   *)

Same(s, p) ==
  data'[<<p, Who(s)>>] = data[<<p, Who(s)>>] /\ lock'[<<p, Who(s)>>] = lock[<<p, Who(s)>>]

\* Session s changes part p of its user, if anything, and holds the lock afterwards.
\* It puts a row only where there is none for good if the id is new, takes rows only
\* where there are some, and adds some only below a row that is not another's.
Touches(s, p) ==
  /\ UNCHANGED <<disk, call>>
  /\ \A t \in Sessions : t # s => pc'[t] = pc[t] /\ left'[t] = left[t]
  /\ \A i \in Items : i # <<p, Who(s)>> => data'[i] = data[i] /\ lock'[i] = lock[i]
  /\ \/ Same(s, p)
     \/ /\ Unshared(s, p) /\ Held(s, p)'
        /\ IF p = "row" THEN Gone(Who(s)) => Who(s) \notin known
           ELSE Now(s, p) # {} \/ (Unshared(s, "row") /\ Now(s, "row") # {})

\* Of a user that has gone there is nothing left, on disk or in a transaction.
LEMMA GoneEmpty ==
  ASSUME RepositoryInv, NEW u \in Users, Gone(u)
  PROVE  \A p \in Parts : /\ lock[<<p, u>>] = NoSession
                          /\ disk[<<p, u>>] = {} /\ data[<<p, u>>] = {}
<1>1. \A p \in Parts : lock[<<p, u>>] = NoSession
  BY DEF RepositoryInv, GoneInv
<1>2. Stored(u) \in Objects \cup {Absent} /\ "row" \in Parts
  BY DEF RepositoryInv, UsersAreWhole, Parts
<1>3. Stored(u)["row"] = {}
  BY <1>2 DEF Stored, Gone
<1>4. Stored(u) = Absent
  BY <1>2, <1>3, ObjectsAssumption
<1>5. \A p \in Parts : Stored(u)[p] = disk[<<p, u>>] /\ Absent[p] = {}
  BY DEF Stored, Absent
<1>6. \A p \in Parts : disk[<<p, u>>] = {}
  BY <1>4, <1>5
<1>7. \A p \in Parts : data[<<p, u>>] = disk[<<p, u>>]
  BY <1>1 DEF RepositoryInv, NothingLeftOpen, Items
<1> QED
  BY <1>1, <1>6, <1>7

\* Writing one part of a user does not disturb the call of another session.
LEMMA OthersKept ==
  ASSUME RepositoryInv, NEW s \in Sessions, NEW t \in Sessions, t # s, pc[s] # "idle",
         NEW p \in Parts, Touches(s, p), CallInv(t)
  PROVE  CallInv(t)'
<1> SUFFICES ASSUME call[t] # NoCall PROVE CallInv(t)'
  BY DEF Touches, CallInv
<1>1. /\ TypeInv /\ Who(s) \in Users /\ call[s] # NoCall
      /\ Who(t) \in Users /\ Op(t) \in {"create", "update", "delete"}
  BY CallType DEF RepositoryInv, TypeInv, ControlInv
<1>2. /\ UNCHANGED <<disk, Op(t), Who(t), call[t], pc[t], left[t]>>
      /\ \A i \in Items : i # <<p, Who(s)>> => data'[i] = data[i] /\ lock'[i] = lock[i]
  BY DEF Touches, Op, Who
<1>3. \A q \in Parts : <<q, Who(t)>> \in Items
  BY <1>1 DEF Items
<1>4. CASE \A q \in Parts : /\ data'[<<q, Who(t)>>] = data[<<q, Who(t)>>]
                            /\ lock'[<<q, Who(t)>>] = lock[<<q, Who(t)>>]
  <2>1. UNCHANGED <<Gone(Who(t)), Saved(t), Overlooked(t)>>
    BY <1>2, <1>4 DEF Gone, Saved, Overlooked, Ours, Unshared, Held, Now, Parts
  <2> QED
    BY <1>2, <1>4, <2>1
    DEF CallInv, CreateInv, UpdateInv, DeleteInv, Unshared, Held, Now, Parts
<1>5. CASE Who(t) = Who(s) /\ ~Same(s, p)
  <2>1. /\ lock[<<p, Who(t)>>] \in {s, NoSession} /\ lock'[<<p, Who(t)>>] = s
        /\ \A q \in Parts \ {p} : /\ data'[<<q, Who(t)>>] = data[<<q, Who(t)>>]
                                  /\ lock'[<<q, Who(t)>>] = lock[<<q, Who(t)>>]
    BY <1>2, <1>3, <1>5 DEF Touches, Unshared, Held, Who
  <2>2. t # NoSession /\ s # NoSession
    BY NullsAssumption
  <2>3. ~(Op(t) = "create" /\ pc[t] = "row")
    BY <1>1, <1>5 DEF RepositoryInv, KnownInv
  <2>4. Who(t) \in known
    BY <2>3 DEF RepositoryInv, KnownInv
  <2>5. ~Gone(Who(t))
    <3> SUFFICES ASSUME Gone(Who(t)) PROVE FALSE
      OBVIOUS
    <3>1. data[<<p, Who(t)>>] = {} /\ data[<<"row", Who(t)>>] = {}
      BY <1>1, GoneEmpty DEF Parts
    <3> QED
      BY <1>5, <2>4, <3>1 DEF Touches, Now
  <2>6. lock[<<p, Who(t)>>] # t /\ lock'[<<p, Who(t)>>] # t
    BY <2>1, <2>2
  <2>7. CASE p = "row"
    BY <1>1, <1>2, <2>1, <2>3, <2>5, <2>6, <2>7
    DEF CallInv, CreateInv, UpdateInv, DeleteInv, Overlooked, Held, Parts
  <2>8. CASE p # "row"
    <3>1. Held(t, "row") => data[<<p, Who(t)>>] # {}
      BY <1>5, <2>2, <2>8 DEF Touches, Held, Unshared, Now
    <3>2. /\ lock'[<<"row", Who(t)>>] = lock[<<"row", Who(t)>>]
          /\ data'[<<"row", Who(t)>>] = data[<<"row", Who(t)>>]
          /\ p \in {"codes", "past"}
      BY <2>1, <2>8 DEF Parts
    <3>3. CASE Op(t) = "create"
      <4>1. Held(t, "row") /\ disk[<<p, Who(t)>>] = {} /\ Unshared(t, p)
        BY <2>3, <3>3 DEF CallInv, CreateInv
      <4>2. data[<<p, Who(t)>>] = disk[<<p, Who(t)>>]
        BY <1>3, <2>1, <2>6, <4>1 DEF Unshared, RepositoryInv, NothingLeftOpen
      <4> QED
        BY <3>1, <4>1, <4>2
    <3>4. CASE Op(t) = "update"
      <4>1. CASE pc[t] = "row"
        BY <1>2, <2>1, <2>6, <3>4, <4>1 DEF CallInv, UpdateInv, Held
      <4>2. CASE pc[t] # "row"
        <5>1. Held(t, "row") /\ Saved(t) /\ disk[<<"row", Who(t)>>] # {}
          BY <2>5, <3>4, <4>2 DEF CallInv, UpdateInv, Overlooked
        <5>2. ~Ours(t, p)
          BY <2>6, <3>1, <5>1 DEF Ours, Held, Now
        <5>3. Saved(t)'
          BY <1>2, <2>1, <3>2, <5>1, <5>2 DEF Saved, Ours, Unshared, Held, Now, Parts
        <5> QED
          BY <1>2, <3>2, <3>4, <4>2, <5>1, <5>3 DEF CallInv, UpdateInv, Held
      <4> QED
        BY <4>1, <4>2
    <3>5. CASE Op(t) = "delete"
      <4>1. pc[t] # "commit"
        BY <2>5, <3>1, <3>5 DEF CallInv, DeleteInv, Now
      <4> QED
        BY <1>2, <3>2, <3>5, <4>1 DEF CallInv, DeleteInv, Held, Now
    <3> QED
      BY <1>1, <3>3, <3>4, <3>5
  <2> QED
    BY <2>7, <2>8
<1>6. CASE Who(t) # Who(s) \/ Same(s, p)
  <2>1. \A q \in Parts : <<q, Who(t)>> # <<p, Who(s)>> \/ Same(s, p)
    BY <1>6
  <2>2. \A q \in Parts : /\ data'[<<q, Who(t)>>] = data[<<q, Who(t)>>]
                         /\ lock'[<<q, Who(t)>>] = lock[<<q, Who(t)>>]
    BY <1>2, <1>3, <2>1 DEF Same
  <2> QED
    BY <1>4, <2>2
<1> QED
  BY <1>5, <1>6

\* So a statement keeps the invariant if it keeps that of its own call.
LEMMA StatementKeeps ==
  ASSUME RepositoryInv, NEW s \in Sessions, pc[s] # "idle", NEW p \in Parts,
         Touches(s, p), known' = known \cup {Who(s)},
         ~(Op(s) = "create" /\ pc'[s] = "row"), TypeInv', CallInv(s)'
  PROVE  RepositoryInv'
<1>1. /\ TypeInv /\ Who(s) \in Users /\ call[s] # NoCall
      /\ \A q \in Parts : <<q, Who(s)>> \in Items
  BY CallType DEF RepositoryInv
<1>2. /\ UNCHANGED <<disk, call>>
      /\ \A i \in Items : i # <<p, Who(s)>> => data'[i] = data[i] /\ lock'[i] = lock[i]
      /\ s # NoSession
  BY NullsAssumption DEF Touches
<1>3. NothingLeftOpen'
  <2> SUFFICES ASSUME NEW i \in Items
               PROVE  IF lock'[i] = NoSession THEN data'[i] = disk[i]
                      ELSE call[lock'[i]] # NoCall /\ Who(lock'[i]) = i[2]
    BY <1>2 DEF NothingLeftOpen, Who
  <2>1. CASE data'[i] = data[i] /\ lock'[i] = lock[i]
    BY <2>1 DEF RepositoryInv, NothingLeftOpen
  <2>2. CASE i = <<p, Who(s)>> /\ ~Same(s, p)
    <3>1. lock'[i] = s
      BY <2>2 DEF Touches, Held, Who
    <3> QED
      BY <1>1, <1>2, <2>2, <3>1
  <2> QED
    BY <1>2, <2>1, <2>2 DEF Same
<1>4. UsersAreWhole'
  BY <1>2 DEF RepositoryInv, UsersAreWhole, Stored
<1>5. ASSUME NEW u \in Users, Gone(u)', NEW q \in Parts
      PROVE  Gone(u) /\ lock'[<<q, u>>] = NoSession
  <2>1. \A r \in Parts : <<r, u>> \in Items
    BY DEF Items
  <2>2. CASE Same(s, p) \/ u # Who(s)
    <3>1. \A r \in Parts : lock'[<<r, u>>] = lock[<<r, u>>]
      BY <1>2, <2>1, <2>2 DEF Same
    <3>2. Gone(u)
      BY <1>2, <1>5, <3>1 DEF Gone, Parts
    <3> QED
      BY <3>1, <3>2, GoneEmpty
  <2>3. CASE ~Same(s, p) /\ u = Who(s)
    <3>1. p # "row"
      BY <1>2, <1>5, <2>3 DEF Touches, Held, Gone, Who
    <3>2. Gone(u)
      BY <1>2, <1>5, <2>1, <3>1 DEF Gone, Parts
    <3>3. data[<<p, u>>] = {} /\ data[<<"row", u>>] = {}
      BY <3>2, GoneEmpty DEF Parts
    <3> QED
      BY <2>3, <3>1, <3>3 DEF Touches, Now
  <2> QED
    BY <2>2, <2>3
<1>6. GoneInv'
  BY <1>5 DEF GoneInv
<1>7. KnownInv'
  <2>1. ASSUME NEW u \in Users \ known' PROVE Gone(u)'
    <3>1. u # Who(s) /\ Gone(u) /\ <<"row", u>> \in Items
      BY <2>1 DEF RepositoryInv, KnownInv, Items, Parts
    <3> QED
      BY <1>2, <3>1 DEF Gone
  <2>2. ASSUME NEW t \in Sessions, call'[t] # NoCall
        PROVE  Who(t)' \notin known' <=> Op(t)' = "create" /\ pc'[t] = "row"
    <3>1. Who(t)' = Who(t) /\ Op(t)' = Op(t) /\ call[t] # NoCall
      BY <1>2, <2>2 DEF Who, Op
    <3>2. Who(t) \notin known <=> Op(t) = "create" /\ pc[t] = "row"
      BY <3>1 DEF RepositoryInv, KnownInv
    <3>3. CASE t = s
      BY <3>1, <3>3
    <3>4. CASE t # s
      <4>1. pc'[t] = pc[t]
        BY <3>4 DEF Touches
      <4>2. ~(Who(t) = Who(s) /\ Who(t) \notin known)
        BY <1>1, <3>1, <3>4 DEF RepositoryInv, KnownInv
      <4> QED
        BY <3>1, <3>2, <4>1, <4>2
    <3> QED
      BY <3>3, <3>4
  <2>3. ASSUME NEW t \in Sessions, NEW v \in Sessions, call'[t] # NoCall, call'[v] # NoCall,
               Who(t)' = Who(v)', Who(t)' \notin known'
        PROVE  t = v
    BY <1>2, <2>3 DEF RepositoryInv, KnownInv, Who
  <2> QED
    BY <2>1, <2>2, <2>3 DEF KnownInv
<1>8. \A t \in Sessions : CallInv(t)'
  BY OthersKept DEF RepositoryInv
<1> QED
  BY <1>3, <1>4, <1>6, <1>7, <1>8 DEF RepositoryInv

----------------------------------------------------------------------------
(* The statements, one by one.                                               *)

\* Session s can make R of part p without a claim of another session being broken.
MayWrite(s, p, R) ==
  /\ Unshared(s, p)
  /\ \/ R = Now(s, p)
     \/ IF p = "row" THEN Gone(Who(s)) => Who(s) \notin known
        ELSE Now(s, p) # {} \/ (Unshared(s, "row") /\ Now(s, "row") # {})

\* It has done so, and goes on at where, with the rows L to insert.
Wrote(s, p, R, where, L) ==
  /\ Touches(s, p)
  /\ UNCHANGED <<disk, call>>
  /\ pc'[s] = where /\ left'[s] = L
  /\ data'[<<p, Who(s)>>] = R
  /\ \/ lock'[<<p, Who(s)>>] = s
     \/ R = data[<<p, Who(s)>>] /\ lock'[<<p, Who(s)>>] = lock[<<p, Who(s)>>]
  /\ \A q \in Parts \ {p} : /\ data'[<<q, Who(s)>>] = data[<<q, Who(s)>>]
                             /\ lock'[<<q, Who(s)>>] = lock[<<q, Who(s)>>]

\* Writing part p and going on touches nothing else.
LEMMA WriteTouches ==
  ASSUME TypeInv, NEW s \in Sessions, pc[s] # "idle", NEW p \in Parts, NEW R,
         Write(s, p, R), NEW where, NEW L, Goto(s, where, L), MayWrite(s, p, R)
  PROVE  Wrote(s, p, R, where, L)
<1>1. /\ UNCHANGED <<disk, call, Who(s)>>
      /\ pc' = [pc EXCEPT ![s] = where] /\ left' = [left EXCEPT ![s] = L]
  BY DEF Goto, Who
<1>2. /\ DOMAIN pc = Sessions /\ DOMAIN left = Sessions
      /\ data \in [Items -> SUBSET Rows] /\ lock \in [Items -> Sessions \cup {NoSession}]
      /\ pc \in [Sessions -> {"idle", "row", "codes", "addCodes", "past", "addPast",
                              "children", "commit"}]
      /\ left \in [Sessions -> SUBSET Rows]
  BY DEF TypeInv, TypeOK
<1>3. \A q \in Parts : <<q, Who(s)>> \in Items
  BY CallType
<1>4. /\ \A i \in Items : i # <<p, Who(s)>> => data'[i] = data[i] /\ lock'[i] = lock[i]
      /\ data'[<<p, Who(s)>>] = R
      /\ \/ lock'[<<p, Who(s)>>] = s
         \/ R = data[<<p, Who(s)>>] /\ lock'[<<p, Who(s)>>] = lock[<<p, Who(s)>>]
  BY <1>2, <1>3 DEF Write
<1>5. \A q \in Parts \ {p} : /\ data'[<<q, Who(s)>>] = data[<<q, Who(s)>>]
                             /\ lock'[<<q, Who(s)>>] = lock[<<q, Who(s)>>]
  BY <1>3, <1>4
<1>6. /\ \A t \in Sessions : t # s => pc'[t] = pc[t] /\ left'[t] = left[t]
      /\ pc'[s] = where /\ left'[s] = L
  BY <1>1, <1>2
<1>7. Held(s, p)' <=> lock'[<<p, Who(s)>>] = s
  BY <1>1 DEF Held
<1>8. R = data[<<p, Who(s)>>] => Same(s, p)
  BY <1>2, <1>3 DEF Write, Same
<1>9. Touches(s, p)
  BY <1>1, <1>4, <1>6, <1>7, <1>8 DEF Touches, MayWrite, Now
<1> QED
  BY <1>1, <1>4, <1>5, <1>6, <1>9 DEF Wrote

\* So does going on without a write.
LEMMA GotoTouches ==
  ASSUME TypeInv, NEW s \in Sessions, NEW where, NEW L, Goto(s, where, L),
         UNCHANGED <<data, lock>>, NEW p \in Parts
  PROVE  Touches(s, p) /\ pc'[s] = where /\ left'[s] = L
BY DEF TypeInv, TypeOK, Goto, Touches, Same

\* The session that works on a user it has found leaves known as it is.
LEMMA KnownUser ==
  ASSUME RepositoryInv, NEW s \in Sessions, pc[s] # "idle",
         ~(Op(s) = "create" /\ pc[s] = "row")
  PROVE  known = known \cup {Who(s)}
BY CallType DEF RepositoryInv, KnownInv

\* Each of the statements keeps the invariant; first the insert of CreateUser.
LEMMA InsertRowKeeps ==
  ASSUME RepositoryInv, NEW s \in Sessions, InsertRow(s), TypeInv'
  PROVE  RepositoryInv'
<1> DEFINE new == call[s].object["row"]
<1>1. /\ TypeInv /\ pc[s] = "row" /\ Op(s) = "create" /\ "row" \in Parts
      /\ Write(s, "row", new) /\ Goto(s, "codes", {}) /\ known' = known \cup {Who(s)}
  BY DEF InsertRow, RepositoryInv, Parts
<1>2. Who(s) \in Users \ known /\ Gone(Who(s)) /\ new \in SUBSET Rows /\ new # {}
  BY <1>1, CallType, ObjectsAssumption DEF RepositoryInv, KnownInv
<1>3. \A p \in Parts : /\ lock[<<p, Who(s)>>] = NoSession
                       /\ disk[<<p, Who(s)>>] = {} /\ data[<<p, Who(s)>>] = {}
  BY <1>2, GoneEmpty
<1>4. MayWrite(s, "row", new)
  BY <1>1, <1>2, <1>3 DEF MayWrite, Unshared
<1>w. Wrote(s, "row", new, "codes", {})
  BY <1>1, <1>4, WriteTouches
<1>5. /\ Touches(s, "row") /\ UNCHANGED <<disk, call>> /\ pc'[s] = "codes"
      /\ data'[<<"row", Who(s)>>] = new /\ lock'[<<"row", Who(s)>>] = s
      /\ \A q \in Parts \ {"row"} : lock'[<<q, Who(s)>>] = NoSession
  <2>1. /\ new # data[<<"row", Who(s)>>]
        /\ \A q \in Parts \ {"row"} : lock[<<q, Who(s)>>] = NoSession
    BY <1>1, <1>2, <1>3
  <2> QED
    BY <1>w, <2>1 DEF Wrote
<1>6. CallInv(s)'
  BY <1>1, <1>3, <1>5
  DEF CallInv, CreateInv, Saved, Held, Now, Unshared, Op, Who
<1> QED
  BY <1>1, <1>5, <1>6, StatementKeeps

\* The update of UpdateUser.
LEMMA UpdateRowKeeps ==
  ASSUME RepositoryInv, NEW s \in Sessions, UpdateRow(s), TypeInv'
  PROVE  RepositoryInv'
<1> DEFINE new == call[s].object["row"]
           row == <<"row", Who(s)>>
<1>1. /\ TypeInv /\ pc[s] = "row" /\ Op(s) = "update" /\ "row" \in Parts
      /\ Free(s) /\ Goto(s, "codes", {}) /\ UNCHANGED <<known, disk, call>>
  BY DEF UpdateRow, RepositoryInv, Parts, Goto
<1>2. Who(s) \in Users /\ row \in Items /\ call[s] # NoCall /\ s # NoSession
  BY <1>1, CallType, NullsAssumption
<1>3. lock[row] = NoSession
  BY <1>1, <1>2 DEF Free, Needs, RepositoryInv, CallInv, UpdateInv, Held
<1>4. disk[row] = data[row]
  BY <1>2, <1>3 DEF RepositoryInv, NothingLeftOpen
<1>5. known' = known \cup {Who(s)}
  BY <1>1, KnownUser
<1>6. CASE data[row] = {}
  <2>1. Touches(s, "row") /\ pc'[s] = "codes" /\ lock' = lock
    BY <1>1, <1>6, GotoTouches DEF UpdateRow
  <2>2. CallInv(s)'
    BY <1>1, <1>3, <1>4, <1>6, <2>1 DEF CallInv, UpdateInv, Overlooked, Gone, Op, Who
  <2> QED
    BY <1>1, <1>5, <2>1, <2>2, StatementKeeps
<1>7. CASE data[row] # {}
  <2>1. data' = [data EXCEPT ![row] = new] /\ lock' = [lock EXCEPT ![row] = s]
    BY <1>7 DEF UpdateRow
  <2>2. data'[row] = new /\ lock'[row] = s /\ pc'[s] = "codes"
    BY <1>1, <1>2, <2>1 DEF Goto, TypeInv, TypeOK
  <2>3. /\ \A i \in Items : i # row => data'[i] = data[i] /\ lock'[i] = lock[i]
        /\ \A t \in Sessions : t # s => pc'[t] = pc[t] /\ left'[t] = left[t]
    BY <1>1, <2>1 DEF Goto, TypeInv, TypeOK
  <2>4. Touches(s, "row")
    BY <1>1, <1>3, <1>4, <1>7, <2>2, <2>3 DEF Touches, Unshared, Held, Gone, Who
  <2>5. CallInv(s)'
    BY <1>1, <1>4, <1>7, <2>2 DEF CallInv, UpdateInv, Saved, Held, Now, Op, Who
  <2> QED
    BY <1>1, <1>5, <2>2, <2>4, <2>5, StatementKeeps
<1> QED
  BY <1>6, <1>7

\* The deletion of the codes.
LEMMA DeleteCodesKeeps ==
  ASSUME RepositoryInv, NEW s \in Sessions, DeleteCodes(s), TypeInv'
  PROVE  RepositoryInv'
<1>1. /\ TypeInv /\ pc[s] = "codes" /\ Free(s) /\ Write(s, "codes", {})
      /\ known' = known /\ {"row", "codes", "past"} = Parts
  BY DEF DeleteCodes, RepositoryInv, Parts
<1>2. /\ Who(s) \in Users /\ call[s] # NoCall /\ Op(s) \in {"create", "update", "delete"}
      /\ \A p \in Parts : <<p, Who(s)>> \in Items
  BY <1>1, CallType
<1>3. Unshared(s, "codes")
  BY <1>1, <1>2 DEF Free, Needs, Unshared
<1>4. known' = known \cup {Who(s)}
  BY <1>1, KnownUser
<1>5. MayWrite(s, "codes", {})
  BY <1>3 DEF MayWrite
<1>6. CASE Op(s) = "delete"
  <2>1. Goto(s, "past", {})
    BY <1>6 DEF DeleteCodes
  <2>9. Wrote(s, "codes", {}, "past", {})
    BY <1>1, <1>5, <2>1, WriteTouches
  <2>2. /\ Touches(s, "codes") /\ pc'[s] = "past" /\ call' = call
        /\ lock'[<<"row", Who(s)>>] = lock[<<"row", Who(s)>>]
    BY <1>1, <2>9 DEF Wrote
  <2>3. CallInv(s)'
    BY <1>1, <1>2, <1>6, <2>2 DEF RepositoryInv, CallInv, DeleteInv, Held, Op, Who
  <2> QED
    BY <1>1, <1>4, <1>6, <2>2, <2>3, StatementKeeps
<1>7. CASE Op(s) # "delete"
  <2> DEFINE new == call[s].object["codes"]
  <2>1. Goto(s, "addCodes", new)
    BY <1>7 DEF DeleteCodes
  <2>9. Wrote(s, "codes", {}, "addCodes", new)
    BY <1>1, <1>5, <2>1, WriteTouches
  <2>2. /\ Touches(s, "codes") /\ pc'[s] = "addCodes" /\ UNCHANGED <<call, disk>>
        /\ left'[s] = new /\ data'[<<"codes", Who(s)>>] = {}
        /\ lock'[<<"codes", Who(s)>>] \in {s, lock[<<"codes", Who(s)>>]}
        /\ \A q \in Parts \ {"codes"} : /\ data'[<<q, Who(s)>>] = data[<<q, Who(s)>>]
                                        /\ lock'[<<q, Who(s)>>] = lock[<<q, Who(s)>>]
    BY <1>1, <2>9 DEF Wrote
  <2>3. Unshared(s, "codes")' /\ Now(s, "codes")' = {} /\ UNCHANGED <<Op(s), Who(s)>>
    BY <1>3, <2>2 DEF Unshared, Now, Op, Who
  <2>4. Saved(s) => Saved(s)'
    BY <1>1, <2>2, <2>3 DEF Saved, Ours, Now
  <2>5. /\ Held(s, "row") => Held(s, "row")'
        /\ Unshared(s, "past") => Unshared(s, "past")'
        /\ Unshared(s, "row") => Unshared(s, "row")'
        /\ Gone(Who(s)) => Gone(Who(s))'
    BY <1>1, <2>2, <2>3 DEF Held, Unshared, Gone
  <2>6. CASE Op(s) = "create"
    <3>1. CreateInv(s)
      BY <1>2, <2>6 DEF RepositoryInv, CallInv
    <3>2. CreateInv(s)'
      BY <1>1, <2>2, <2>3, <2>4, <2>5, <3>1 DEF CreateInv
    <3> QED
      BY <1>1, <1>4, <2>2, <2>3, <2>6, <3>2, StatementKeeps DEF CallInv
  <2>7. CASE Op(s) = "update"
    <3>1. UpdateInv(s)
      BY <1>2, <2>7 DEF RepositoryInv, CallInv
    <3>2. UpdateInv(s)'
      BY <1>1, <2>2, <2>3, <2>4, <2>5, <3>1 DEF UpdateInv, Overlooked
    <3> QED
      BY <1>1, <1>4, <2>2, <2>3, <2>7, <3>2, StatementKeeps DEF CallInv
  <2> QED
    BY <1>2, <1>7, <2>6, <2>7
<1> QED
  BY <1>6, <1>7

\* The deletion of the password history.
LEMMA DeletePastKeeps ==
  ASSUME RepositoryInv, NEW s \in Sessions, DeletePast(s), TypeInv'
  PROVE  RepositoryInv'
<1>1. /\ TypeInv /\ pc[s] = "past" /\ Free(s) /\ Write(s, "past", {})
      /\ known' = known /\ {"row", "codes", "past"} = Parts
  BY DEF DeletePast, RepositoryInv, Parts
<1>2. /\ Who(s) \in Users /\ call[s] # NoCall /\ Op(s) \in {"create", "update", "delete"}
      /\ call[s].object \in Objects
  BY <1>1, CallType
<1>3. Unshared(s, "past")
  BY <1>1, <1>2 DEF Free, Needs, Unshared
<1>4. known' = known \cup {Who(s)}
  BY <1>1, KnownUser
<1>5. MayWrite(s, "past", {})
  BY <1>3 DEF MayWrite
<1>6. CASE Op(s) = "delete"
  <2>1. Goto(s, "row", {})
    BY <1>6 DEF DeletePast
  <2>2. Wrote(s, "past", {}, "row", {})
    BY <1>1, <1>5, <2>1, WriteTouches
  <2>3. /\ Touches(s, "past") /\ pc'[s] = "row" /\ call' = call
        /\ lock'[<<"row", Who(s)>>] = lock[<<"row", Who(s)>>]
    BY <1>1, <2>2 DEF Wrote
  <2>4. CallInv(s)'
    BY <1>1, <1>2, <1>6, <2>3 DEF RepositoryInv, CallInv, DeleteInv, Held, Op, Who
  <2> QED
    BY <1>1, <1>4, <1>6, <2>3, <2>4, StatementKeeps
<1>7. CASE Op(s) # "delete"
  <2> DEFINE new == call[s].object["past"]
  <2>1. Goto(s, "addPast", new)
    BY <1>7 DEF DeletePast
  <2>2. Wrote(s, "past", {}, "addPast", new)
    BY <1>1, <1>5, <2>1, WriteTouches
  <2>3. /\ Touches(s, "past") /\ pc'[s] = "addPast" /\ UNCHANGED <<call, disk>>
        /\ left'[s] = new /\ data'[<<"past", Who(s)>>] = {}
        /\ lock'[<<"past", Who(s)>>] \in {s, lock[<<"past", Who(s)>>]}
        /\ \A q \in Parts \ {"past"} : /\ data'[<<q, Who(s)>>] = data[<<q, Who(s)>>]
                                       /\ lock'[<<q, Who(s)>>] = lock[<<q, Who(s)>>]
    BY <1>1, <2>2 DEF Wrote
  <2>4. Unshared(s, "past")' /\ Now(s, "past")' = {} /\ UNCHANGED <<Op(s), Who(s)>>
    BY <1>3, <2>3 DEF Unshared, Now, Op, Who
  <2>5. Ours(s, "codes") => Ours(s, "codes")'
    BY <1>1, <2>3, <2>4 DEF Ours, Unshared, Held, Now
  <2>6. Saved(s) => Saved(s)'
    BY <1>1, <2>3, <2>4, <2>5 DEF Saved, Ours, Now
  <2>7. /\ Held(s, "row") => Held(s, "row")'
        /\ Unshared(s, "codes") => Unshared(s, "codes")'
        /\ Unshared(s, "row") => Unshared(s, "row")'
        /\ Gone(Who(s)) => Gone(Who(s))'
    BY <1>1, <2>3, <2>4 DEF Held, Unshared, Gone
  <2>8. CASE Op(s) = "create"
    <3>1. CreateInv(s)
      BY <1>2, <2>8 DEF RepositoryInv, CallInv
    <3>2. CreateInv(s)'
      BY <1>1, <2>3, <2>4, <2>6, <2>7, <3>1 DEF CreateInv
    <3> QED
      BY <1>1, <1>4, <2>3, <2>4, <2>8, <3>2, StatementKeeps DEF CallInv
  <2>9. CASE Op(s) = "update"
    <3>1. UpdateInv(s)
      BY <1>2, <2>9 DEF RepositoryInv, CallInv
    <3>2. UpdateInv(s)'
      BY <1>1, <2>3, <2>4, <2>6, <2>7, <3>1 DEF UpdateInv, Overlooked
    <3> QED
      BY <1>1, <1>4, <2>3, <2>4, <2>9, <3>2, StatementKeeps DEF CallInv
  <2> QED
    BY <1>2, <1>7, <2>8, <2>9
<1> QED
  BY <1>6, <1>7

\* The insert of one code or one password.
LEMMA InsertChildKeeps ==
  ASSUME RepositoryInv, NEW s \in Sessions, NEW p \in Parts, InsertChild(s, p), TypeInv',
         \/ pc[s] = "addCodes" /\ p = "codes"
         \/ pc[s] = "addPast" /\ p = "past"
  PROVE  RepositoryInv'
<1>1. PICK x \in left[s] : /\ Write(s, p, Now(s, p) \cup {x})
                           /\ Goto(s, pc[s], left[s] \ {x})
  BY DEF InsertChild, Now
<1>2. /\ TypeInv /\ Free(s) /\ Now(s, "row") # {} /\ known' = known
      /\ {"row", "codes", "past"} = Parts /\ pc[s] # "idle"
  BY DEF InsertChild, RepositoryInv, Parts, Now
<1>3. /\ Who(s) \in Users /\ call[s] # NoCall /\ Op(s) \in {"create", "update"}
      /\ \A q \in Parts : <<q, Who(s)>> \in Items
  BY <1>2, CallType DEF TypeInv, ControlInv
<1>4. Unshared(s, "row")
  BY <1>2 DEF Free, Needs, Unshared
<1>5. ~Gone(Who(s))
  BY <1>2, <1>3, GoneEmpty DEF Now
<1>6. Held(s, "row") /\ Saved(s)
  BY <1>2, <1>3, <1>5 DEF RepositoryInv, CallInv, CreateInv, UpdateInv, Overlooked
<1>7. Ours(s, p)
  BY <1>6 DEF Saved
<1> DEFINE R == Now(s, p) \cup {x}
           L == left[s] \ {x}
<1>8. MayWrite(s, p, R)
  BY <1>2, <1>4, <1>7 DEF MayWrite, Ours
<1>9. Wrote(s, p, R, pc[s], L)
  BY <1>1, <1>2, <1>8, WriteTouches
<1>10. /\ Touches(s, p) /\ UNCHANGED <<disk, call>> /\ pc'[s] = pc[s] /\ left'[s] = L
       /\ data'[<<p, Who(s)>>] = R
       /\ lock'[<<p, Who(s)>>] \in {s, lock[<<p, Who(s)>>]}
       /\ R # data[<<p, Who(s)>>] => lock'[<<p, Who(s)>>] = s
       /\ \A q \in Parts \ {p} : /\ data'[<<q, Who(s)>>] = data[<<q, Who(s)>>]
                                 /\ lock'[<<q, Who(s)>>] = lock[<<q, Who(s)>>]
  BY <1>9 DEF Wrote
<1>11. UNCHANGED <<Op(s), Who(s)>> /\ Now(s, p)' = R
  BY <1>10 DEF Op, Who, Now
<1>12. Ours(s, p)'
  BY <1>7, <1>10, <1>11 DEF Ours, Unshared, Held, Now
<1>13. \A q \in Parts \ {p} :
         /\ Now(s, q)' = Now(s, q) /\ (Held(s, q)' <=> Held(s, q))
         /\ Unshared(s, q)' <=> Unshared(s, q)
  BY <1>10, <1>11 DEF Held, Unshared, Now
<1>14. R \cup L = Now(s, p) \cup left[s]
  OBVIOUS
<1>15. Saved(s)'
  BY <1>2, <1>6, <1>10, <1>11, <1>12, <1>13, <1>14 DEF Saved, Ours
<1>16. known' = known \cup {Who(s)}
  BY <1>2, KnownUser
<1>17. CASE Op(s) = "create"
  <2>1. CreateInv(s)
    BY <1>3, <1>17 DEF RepositoryInv, CallInv
  <2>2. \A q \in Parts : Unshared(s, q)'
    BY <1>2, <1>12, <1>13, <2>1 DEF CreateInv, Ours
  <2>3. CreateInv(s)'
    BY <1>2, <1>6, <1>10, <1>11, <1>13, <1>15, <2>1, <2>2 DEF CreateInv
  <2> QED
    BY <1>2, <1>10, <1>11, <1>16, <1>17, <2>3, StatementKeeps DEF CallInv
<1>18. CASE Op(s) = "update"
  <2>1. disk[<<"row", Who(s)>>] # {}
    BY <1>2, <1>3, <1>5, <1>18 DEF RepositoryInv, CallInv, UpdateInv, Overlooked
  <2>2. Held(s, "row")'
    BY <1>2, <1>6, <1>13
  <2>3. UpdateInv(s)'
    BY <1>2, <1>10, <1>11, <1>15, <2>1, <2>2 DEF UpdateInv
  <2> QED
    BY <1>2, <1>10, <1>11, <1>16, <1>18, <2>3, StatementKeeps DEF CallInv
<1> QED
  BY <1>3, <1>17, <1>18

\* What a call claims outlives a step that only moves its program counter.
LEMMA LoopEndsKeeps ==
  ASSUME RepositoryInv, NEW s \in Sessions, LoopEnds(s), TypeInv'
  PROVE  RepositoryInv'
<1>1. /\ TypeInv /\ pc[s] \in {"addCodes", "addPast"} /\ left[s] = {}
      /\ Goto(s, IF pc[s] = "addCodes" THEN "past" ELSE "commit", {})
      /\ UNCHANGED <<data, lock, known, disk, call>> /\ "row" \in Parts
  BY DEF LoopEnds, RepositoryInv, Parts, Goto
<1>2. call[s] # NoCall /\ Op(s) \in {"create", "update"}
  BY <1>1, CallType DEF TypeInv, ControlInv
<1>3. Touches(s, "row") /\ pc'[s] = IF pc[s] = "addCodes" THEN "past" ELSE "commit"
  BY <1>1, GotoTouches
<1>4. UNCHANGED <<Op(s), Who(s)>>
  BY <1>1 DEF Op, Who
<1>5. \A p : /\ Now(s, p)' = Now(s, p) /\ (Held(s, p)' <=> Held(s, p))
             /\ (Unshared(s, p)' <=> Unshared(s, p)) /\ (Ours(s, p)' <=> Ours(s, p))
  BY <1>1, <1>4 DEF Held, Unshared, Now, Ours
<1>6. Saved(s) => Saved(s)'
  BY <1>1, <1>3, <1>5 DEF Saved
<1>7. CallInv(s)
  BY DEF RepositoryInv
<1>8. CASE Op(s) = "create"
  <2>1. CreateInv(s)'
    BY <1>1, <1>2, <1>3, <1>4, <1>5, <1>6, <1>7, <1>8 DEF CallInv, CreateInv
  <2> QED
    BY <1>1, <1>3, <1>4, <1>8, <2>1, KnownUser, StatementKeeps DEF CallInv
<1>9. CASE Op(s) = "update"
  <2>1. UpdateInv(s)'
    BY <1>1, <1>2, <1>3, <1>4, <1>5, <1>6, <1>7, <1>9
    DEF CallInv, UpdateInv, Overlooked, Gone
  <2> QED
    BY <1>1, <1>3, <1>4, <1>9, <2>1, KnownUser, StatementKeeps DEF CallInv
<1> QED
  BY <1>2, <1>8, <1>9

\* The deletion of the row, before its foreign keys are checked.
LEMMA DeleteRowKeeps ==
  ASSUME RepositoryInv, NEW s \in Sessions, DeleteRow(s), TypeInv'
  PROVE  RepositoryInv'
<1> DEFINE row == <<"row", Who(s)>>
           where == IF data[row] = {} THEN "commit" ELSE "children"
<1>1. /\ TypeInv /\ pc[s] = "row" /\ Op(s) = "delete" /\ Free(s) /\ "row" \in Parts
      /\ Write(s, "row", {}) /\ Goto(s, where, {}) /\ known' = known
  BY DEF DeleteRow, RepositoryInv, Parts
<1>2. /\ Who(s) \in Users /\ call[s] # NoCall /\ s # NoSession /\ row \in Items
  BY <1>1, CallType, NullsAssumption
<1>3. ~Held(s, "row")
  BY <1>1, <1>2 DEF RepositoryInv, CallInv, DeleteInv
<1>4. lock[row] = NoSession /\ Unshared(s, "row")
  BY <1>1, <1>3 DEF Free, Needs, Held, Unshared
<1>5. disk[row] = data[row]
  BY <1>2, <1>4 DEF RepositoryInv, NothingLeftOpen
<1>6. MayWrite(s, "row", {})
  BY <1>4, <1>5 DEF MayWrite, Now, Gone
<1>7. Wrote(s, "row", {}, where, {})
  BY <1>1, <1>6, WriteTouches
<1>8. /\ Touches(s, "row") /\ UNCHANGED <<disk, call>> /\ pc'[s] = where
      /\ data'[row] = {} /\ (lock'[row] = s \/ ({} = data[row] /\ lock'[row] = lock[row]))
  BY <1>7 DEF Wrote
<1>9. UNCHANGED <<Op(s), Who(s)>>
  BY <1>8 DEF Op, Who
<1>10. CASE data[row] = {}
  <2>1. lock' = lock
    BY <1>1, <1>10 DEF Write
  <2>2. Gone(Who(s))'
    BY <1>4, <1>5, <1>8, <1>9, <1>10, <2>1 DEF Gone
  <2> QED
    BY <1>1, <1>8, <1>9, <1>10, <2>2, KnownUser, StatementKeeps DEF CallInv, DeleteInv
<1>11. CASE data[row] # {}
  <2>1. Held(s, "row")' /\ Now(s, "row")' = {} /\ disk'[<<"row", Who(s)'>>] # {}
    BY <1>5, <1>8, <1>9, <1>11 DEF Held, Now
  <2> QED
    BY <1>1, <1>8, <1>9, <1>11, <2>1, KnownUser, StatementKeeps DEF CallInv, DeleteInv
<1> QED
  BY <1>10, <1>11

\* The check of the foreign keys that finds nothing.
LEMMA NoChildrenKeeps ==
  ASSUME RepositoryInv, NEW s \in Sessions, NoChildren(s), TypeInv'
  PROVE  RepositoryInv'
<1>1. /\ TypeInv /\ pc[s] = "children" /\ Free(s) /\ ~HasChildren(Who(s))
      /\ Goto(s, "commit", {}) /\ UNCHANGED <<data, lock, known, disk, call>>
      /\ {"row", "codes", "past"} = Parts
  BY DEF NoChildren, RepositoryInv, Parts, Goto
<1>2. Who(s) \in Users /\ call[s] # NoCall /\ Op(s) = "delete"
  BY <1>1, CallType DEF TypeInv, ControlInv
<1>3. Touches(s, "row") /\ pc'[s] = "commit"
  BY <1>1, GotoTouches
<1>4. Held(s, "row") /\ Now(s, "row") = {} /\ disk[<<"row", Who(s)>>] # {}
  BY <1>1, <1>2 DEF RepositoryInv, CallInv, DeleteInv
<1>5. \A p \in Parts : Now(s, p) = {} /\ Unshared(s, p)
  BY <1>1, <1>2, <1>4 DEF HasChildren, Now, Free, Needs, Unshared, Held
<1>6. CallInv(s)'
  BY <1>1, <1>2, <1>3, <1>4, <1>5
  DEF CallInv, DeleteInv, Held, Unshared, Now, Op, Who
<1> QED
  BY <1>1, <1>2, <1>3, <1>6, KnownUser, StatementKeeps

----------------------------------------------------------------------------
(* Calls begin and end.                                                      *)

\* A session that is in no call holds no lock.
LEMMA BeginKeeps ==
  ASSUME RepositoryInv, NEW s \in Sessions, Begin(s), TypeInv'
  PROVE  RepositoryInv'
<1>1. PICK c \in Calls :
        /\ (c.op = "create") = (c.user \notin known)
        /\ \A t \in Sessions : c.op = "create" /\ call[t] # NoCall => Who(t) # c.user
        /\ call' = [call EXCEPT ![s] = c]
        /\ pc' = [pc EXCEPT ![s] = IF c.op = "delete" THEN "codes" ELSE "row"]
  BY DEF Begin
<1>2. /\ UNCHANGED <<disk, data, lock, known, left>> /\ pc[s] = "idle"
      /\ c # NoCall /\ c.op \in {"create", "update", "delete"} /\ s # NoSession
  BY NullsAssumption DEF Begin, Calls
<1>3. call[s] = NoCall /\ TypeInv
  BY <1>2 DEF RepositoryInv, TypeInv, ControlInv
<1>4. \A t \in Sessions :
        IF t = s THEN call'[t] = c /\ pc'[t] = IF c.op = "delete" THEN "codes" ELSE "row"
                 ELSE call'[t] = call[t] /\ pc'[t] = pc[t]
  BY <1>1, <1>3 DEF TypeInv, TypeOK
<1>5. \A i \in Items : lock[i] \in Sessions \cup {NoSession} /\ lock[i] # s
  BY <1>2, <1>3 DEF RepositoryInv, NothingLeftOpen, TypeInv, TypeOK
<1>6. NothingLeftOpen'
  BY <1>2, <1>4, <1>5 DEF RepositoryInv, NothingLeftOpen, Who
<1>7. UsersAreWhole' /\ GoneInv'
  BY <1>2 DEF RepositoryInv, UsersAreWhole, GoneInv, Stored, Gone
<1>8. KnownInv'
  <2>1. \A u \in Users \ known' : Gone(u)'
    BY <1>2 DEF RepositoryInv, KnownInv, Gone
  <2>2. ASSUME NEW t \in Sessions, call'[t] # NoCall
        PROVE  Who(t)' \notin known' <=> Op(t)' = "create" /\ pc'[t] = "row"
    BY <1>1, <1>2, <1>4, <2>2 DEF RepositoryInv, KnownInv, Who, Op
  <2>3. ASSUME NEW t \in Sessions, NEW v \in Sessions, call'[t] # NoCall, call'[v] # NoCall,
               Who(t)' = Who(v)', Who(t)' \notin known'
        PROVE  t = v
    BY <1>1, <1>2, <1>4, <2>3 DEF RepositoryInv, KnownInv, Who
  <2> QED
    BY <2>1, <2>2, <2>3 DEF KnownInv
<1>9. ASSUME NEW t \in Sessions PROVE CallInv(t)'
  <2>1. CASE t = s
    <3>1. c.user \in Users
      BY DEF Calls
    <3>2. Who(s)' = c.user /\ Op(s)' = c.op
      BY <1>4 DEF Who, Op
    <3>3. \A p \in Parts : ~Held(s, p)'
      BY <1>2, <1>5, <3>1, <3>2 DEF Held, Items
    <3> QED
      BY <1>2, <1>4, <2>1, <3>2, <3>3 DEF CallInv, CreateInv, UpdateInv, DeleteInv, Parts
  <2>2. CASE t # s
    <3>1. UNCHANGED <<call[t], pc[t], left[t], Who(t), Op(t)>>
      BY <1>2, <1>4, <2>2 DEF Who, Op
    <3>2. CallInv(t)
      BY DEF RepositoryInv
    <3>3. Saved(t)' <=> Saved(t)
      BY <1>2, <3>1 DEF Saved, Ours, Unshared, Held, Now
    <3> QED
      BY <1>2, <3>1, <3>2, <3>3
      DEF CallInv, CreateInv, UpdateInv, Overlooked, DeleteInv, Held, Unshared, Now, Gone
  <2> QED
    BY <2>1, <2>2
<1> QED
  BY <1>6, <1>7, <1>8, <1>9 DEF RepositoryInv

\* Session s ends its call, and what it had locked is what is stored now.
Ended(s) ==
  /\ call'[s] = NoCall /\ pc'[s] = "idle" /\ known' = known
  /\ \A t \in Sessions \ {s} :
       call'[t] = call[t] /\ pc'[t] = pc[t] /\ left'[t] = left[t]
  /\ \A i \in Items :
       IF lock[i] = s THEN lock'[i] = NoSession /\ data'[i] = disk'[i]
       ELSE lock'[i] = lock[i] /\ data'[i] = data[i] /\ disk'[i] = disk[i]

\* No other call is about what a session had locked.
LEMMA OthersOutlive ==
  ASSUME RepositoryInv, NEW s \in Sessions, call[s] # NoCall, Ended(s),
         NEW t \in Sessions, t # s
  PROVE  CallInv(t)'
<1> SUFFICES ASSUME call[t] # NoCall PROVE CallInv(t)'
  BY DEF Ended, CallInv
<1>1. UNCHANGED <<call[t], pc[t], left[t], Who(t), Op(t)>>
  BY DEF Ended, Who, Op
<1>2. /\ s # NoSession /\ t # NoSession /\ TypeInv /\ CallInv(t)
      /\ {"row", "codes", "past"} = Parts
  BY NullsAssumption DEF RepositoryInv, Parts
<1>3. pc[t] # "idle"
  BY <1>2 DEF TypeInv, ControlInv
<1>4. /\ Who(t) \in Users /\ Op(t) \in {"create", "update", "delete"}
      /\ \A p \in Parts : <<p, Who(t)>> \in Items
  BY <1>2, <1>3, CallType
<1>5. \A p \in Parts : lock[<<p, Who(t)>>] # s =>
        /\ lock'[<<p, Who(t)>>] = lock[<<p, Who(t)>>]
        /\ data'[<<p, Who(t)>>] = data[<<p, Who(t)>>]
        /\ disk'[<<p, Who(t)>>] = disk[<<p, Who(t)>>]
  BY <1>4 DEF Ended
<1>6. \A p \in Parts : ~Held(t, p) => ~Held(t, p)'
  BY <1>1, <1>2, <1>4 DEF Held, Ended
<1>7. \A p \in Parts : Unshared(t, p) =>
        /\ Unshared(t, p)' /\ Now(t, p)' = Now(t, p) /\ (Held(t, p) => Held(t, p)')
        /\ disk'[<<p, Who(t)>>] = disk[<<p, Who(t)>>]
  BY <1>1, <1>2, <1>5, <1>6 DEF Unshared, Held, Now
<1>8. \A p \in Parts : Held(t, p) => Unshared(t, p)
  BY DEF Held, Unshared
<1>9. Gone(Who(t)) => Gone(Who(t))'
  BY <1>1, <1>2, <1>5 DEF Gone
<1>10. \A p \in Parts : Ours(t, p) => Ours(t, p)'
  BY <1>7 DEF Ours
<1>11. Held(t, "row") /\ Saved(t) => Saved(t)'
  <2> SUFFICES ASSUME Held(t, "row"), Saved(t) PROVE Saved(t)'
    OBVIOUS
  <2>1. Now(t, "row")' = Now(t, "row")
    BY <1>2, <1>7, <1>8
  <2>2. \A p \in Parts : Ours(t, p) => Now(t, p)' = Now(t, p)
    BY <1>7 DEF Ours
  <2> QED
    BY <1>1, <1>2, <1>10, <2>1, <2>2 DEF Saved
<1>12. CASE Op(t) = "create"
  <2>1. CreateInv(t)
    BY <1>2, <1>12 DEF CallInv
  <2>2. CreateInv(t)'
    BY <1>1, <1>2, <1>6, <1>7, <1>8, <1>11, <2>1 DEF CreateInv
  <2> QED
    BY <1>1, <1>12, <2>2 DEF CallInv
<1>13. CASE Op(t) = "update"
  <2>1. UpdateInv(t)
    BY <1>2, <1>13 DEF CallInv
  <2>2. UpdateInv(t)'
    BY <1>1, <1>2, <1>6, <1>7, <1>8, <1>9, <1>11, <2>1 DEF UpdateInv, Overlooked
  <2> QED
    BY <1>1, <1>13, <2>2 DEF CallInv
<1>14. CASE Op(t) = "delete"
  <2>1. DeleteInv(t)
    BY <1>2, <1>14 DEF CallInv
  <2>2. DeleteInv(t)'
    BY <1>1, <1>2, <1>6, <1>7, <1>8, <1>9, <2>1 DEF DeleteInv
  <2> QED
    BY <1>1, <1>14, <2>2 DEF CallInv
<1> QED
  BY <1>4, <1>12, <1>13, <1>14

\* A transaction that ends, if what it leaves committed is whole.
LEMMA EndKeeps ==
  ASSUME RepositoryInv, NEW s \in Sessions, call[s] # NoCall, Ended(s), TypeInv',
         UsersAreWhole',
         Held(s, "row") /\ disk'[<<"row", Who(s)>>] = {} => \A p \in Parts : Unshared(s, p)
  PROVE  RepositoryInv'
<1>1. /\ s # NoSession /\ known' = known /\ call'[s] = NoCall
      /\ \A p \in Parts, u \in Users : <<p, u>> \in Items
      /\ "row" \in Parts
  BY NullsAssumption DEF Ended, Items, Parts
<1>2. \A t \in Sessions \ {s} : UNCHANGED <<call[t], pc[t], Who(t), Op(t)>>
  BY DEF Ended, Who, Op
<1>3. \A i \in Items : lock[i] \in Sessions \cup {NoSession}
  BY DEF RepositoryInv, TypeInv, TypeOK
<1>4. NothingLeftOpen'
  BY <1>1, <1>2, <1>3 DEF Ended, RepositoryInv, NothingLeftOpen, Who
<1>5. ASSUME NEW u \in Users, Gone(u) PROVE Gone(u)'
  BY <1>1, <1>5 DEF Gone, Ended
<1>6. ASSUME NEW u \in Users, Gone(u)', NEW p \in Parts PROVE lock'[<<p, u>>] = NoSession
  <2>1. CASE Gone(u)
    BY <1>1, <2>1, GoneEmpty DEF Ended
  <2>2. CASE ~Gone(u)
    <3>1. lock[<<"row", u>>] = s
      BY <1>1, <1>6, <2>2 DEF Gone, Ended
    <3>2. u = Who(s)
      BY <1>1, <3>1 DEF RepositoryInv, NothingLeftOpen
    <3>3. Unshared(s, p)
      BY <1>6, <3>1, <3>2 DEF Held, Gone
    <3> QED
      BY <1>1, <3>2, <3>3 DEF Unshared, Ended
  <2> QED
    BY <2>1, <2>2
<1>7. GoneInv'
  BY <1>6 DEF GoneInv
<1>8. KnownInv'
  BY <1>1, <1>2, <1>5 DEF RepositoryInv, KnownInv
<1>9. \A t \in Sessions : CallInv(t)'
  BY <1>1, OthersOutlive DEF CallInv
<1> QED
  BY <1>4, <1>7, <1>8, <1>9 DEF RepositoryInv

\* An update that is committed saved its object to a user that is there, or it found
\* nobody and had nothing to insert.
LEMMA CommitUpdates ==
  ASSUME RepositoryInv, NEW s \in Sessions, Commit(s), Op(s) = "update"
  PROVE  \/ Held(s, "row") /\ Saved(s) /\ disk[<<"row", Who(s)>>] # {}
         \/ Gone(Who(s)) /\ call[s].object \in Bare
<1>1. pc[s] = "commit" /\ call[s] # NoCall /\ call[s].object \in Objects
  BY CallType DEF Commit, RepositoryInv
<1> QED
  BY <1>1 DEF RepositoryInv, CallInv, UpdateInv, Overlooked, Bare

\* What a COMMIT stores: after a save the object and nothing else, after a deletion
\* nothing, and in both cases nothing of another user.
LEMMA CommitStores ==
  ASSUME RepositoryInv, NEW s \in Sessions, Commit(s),
         Op(s) = "update" => ~Gone(Who(s))
  PROVE  /\ \A u \in Users : Stored(u)' = IF u # Who(s) THEN Stored(u)
                                          ELSE IF Op(s) = "delete" THEN Absent
                                          ELSE call[s].object
         /\ Op(s) = "create" => Stored(Who(s)) = Absent
         /\ Op(s) = "update" => Stored(Who(s)) # Absent
         /\ Op(s) # "delete" => disk'[<<"row", Who(s)>>] # {}
         /\ Op(s) = "delete" /\ Held(s, "row") => \A p \in Parts : Unshared(s, p)
<1> DEFINE u0 == Who(s)
           new == call[s].object
<1>1. /\ TypeInv /\ pc[s] = "commit" /\ {"row", "codes", "past"} = Parts
      /\ disk' = [i \in Items |-> IF lock[i] = s THEN data[i] ELSE disk[i]]
      /\ \A p \in Parts, u \in Users : <<p, u>> \in Items
  BY DEF Commit, RepositoryInv, Items, Parts
<1>2. /\ u0 \in Users /\ call[s] # NoCall /\ s # NoSession /\ CallInv(s)
      /\ Op(s) \in {"create", "update", "delete"} /\ new \in Objects
  BY <1>1, CallType, NullsAssumption DEF RepositoryInv
<1>3. \A p \in Parts, u \in Users :
        disk'[<<p, u>>] = IF lock[<<p, u>>] = s THEN data[<<p, u>>] ELSE disk[<<p, u>>]
  BY <1>1
<1>4. ASSUME NEW u \in Users \ {u0} PROVE Stored(u)' = Stored(u)
  <2>1. \A p \in Parts : lock[<<p, u>>] # s
    BY <1>1, <1>2, <1>4 DEF RepositoryInv, NothingLeftOpen
  <2>2. \A p \in Parts : disk'[<<p, u>>] = disk[<<p, u>>]
    BY <1>3, <2>1
  <2> QED
    BY <2>2 DEF Stored
<1>5. \A p \in Parts : Unshared(s, p) => disk'[<<p, u0>>] = Now(s, p)
  BY <1>1, <1>2, <1>3 DEF Unshared, Now, RepositoryInv, NothingLeftOpen
<1>6. Stored(u0)["row"] = disk[<<"row", u0>>] /\ Absent["row"] = {}
  BY <1>1 DEF Stored, Absent
<1>7. CASE Op(s) # "delete"
  <2>1. Held(s, "row") /\ Saved(s)
    BY <1>1, <1>2, <1>7, CommitUpdates DEF CallInv, CreateInv
  <2>2. \A p \in Parts : Unshared(s, p) /\ Now(s, p) = new[p]
    BY <1>1, <2>1 DEF Saved, Ours, Held, Unshared
  <2>3. \A p \in Parts : disk'[<<p, u0>>] = new[p]
    BY <1>5, <2>2
  <2>4. new = [p \in Parts |-> new[p]] /\ new["row"] # {}
    BY <1>2, ObjectsAssumption
  <2>5. [p \in Parts |-> disk'[<<p, u0>>]] = new
    BY <2>3, <2>4
  <2>6. \A u \in Users : u = u0 => Stored(u)' = new
    BY <2>5 DEF Stored
  <2>7. CASE Op(s) = "create"
    <3>1. \A p \in Parts : disk[<<p, u0>>] = {}
      BY <1>1, <1>2, <2>7 DEF CallInv, CreateInv
    <3>2. Stored(u0) = Absent
      BY <3>1 DEF Stored, Absent
    <3> QED
      BY <1>1, <1>4, <2>3, <2>4, <2>6, <2>7, <3>2
  <2>8. CASE Op(s) = "update"
    <3>1. disk[<<"row", u0>>] # {}
      BY <2>8, CommitUpdates
    <3> QED
      BY <1>1, <1>4, <1>6, <2>3, <2>4, <2>6, <2>8, <3>1
  <2> QED
    BY <1>2, <1>7, <2>7, <2>8
<1>8. CASE Op(s) = "delete"
  <2>1. DeleteInv(s)
    BY <1>2, <1>8 DEF CallInv
  <2>2. Held(s, "row") => \A p \in Parts : Unshared(s, p)
    BY <1>1, <1>2, <2>1 DEF DeleteInv, Gone, Held
  <2>3. \A p \in Parts : disk'[<<p, u0>>] = {}
    <3>1. CASE Gone(u0)
      BY <1>2, <1>3, <3>1, GoneEmpty
    <3>2. CASE ~Gone(u0)
      BY <1>1, <1>5, <2>1, <3>2 DEF DeleteInv
    <3> QED
      BY <3>1, <3>2
  <2>4. [p \in Parts |-> disk'[<<p, u0>>]] = Absent
    BY <2>3 DEF Absent
  <2>5. \A u \in Users : u = u0 => Stored(u)' = Absent
    BY <2>4 DEF Stored
  <2> QED
    BY <1>4, <1>8, <2>2, <2>5
<1> QED
  BY <1>7, <1>8

\* The commit of an update that found no user stores nothing.
LEMMA CommitOverlooks ==
  ASSUME RepositoryInv, NEW s \in Sessions, Commit(s), Op(s) = "update", Gone(Who(s))
  PROVE  /\ call[s].object \in Bare /\ Stored(Who(s)) = Absent /\ ~Held(s, "row")
         /\ \A u \in Users : Stored(u)' = Stored(u)
<1>1. /\ TypeInv /\ pc[s] = "commit" /\ s # NoSession
      /\ disk' = [i \in Items |-> IF lock[i] = s THEN data[i] ELSE disk[i]]
      /\ \A p \in Parts, u \in Users : <<p, u>> \in Items
  BY NullsAssumption DEF Commit, RepositoryInv, Items
<1>2. Who(s) \in Users
  BY <1>1, CallType
<1>3. ~Held(s, "row") /\ call[s].object \in Bare
  BY <1>1, CommitUpdates DEF Gone, Held
<1>4. \A p \in Parts : lock[<<p, Who(s)>>] # s /\ disk[<<p, Who(s)>>] = {}
  BY <1>1, <1>2, GoneEmpty
<1>5. Stored(Who(s)) = Absent
  BY <1>4 DEF Stored, Absent
<1>6. \A p \in Parts, u \in Users : lock[<<p, u>>] # s
  BY <1>1, <1>4 DEF RepositoryInv, NothingLeftOpen
<1>7. \A p \in Parts, u \in Users : disk'[<<p, u>>] = disk[<<p, u>>]
  BY <1>1, <1>6
<1> QED
  BY <1>3, <1>5, <1>7 DEF Stored

\* A commit leaves whole users.
LEMMA CommitKeeps ==
  ASSUME RepositoryInv, NEW s \in Sessions, Commit(s), TypeInv'
  PROVE  RepositoryInv'
<1>1. /\ TypeInv /\ pc[s] = "commit" /\ UNCHANGED <<data, known>> /\ Release(s)
      /\ disk' = [i \in Items |-> IF lock[i] = s THEN data[i] ELSE disk[i]]
      /\ \E how \in {"ok", "error"} : End(s, how)
  BY DEF Commit, RepositoryInv, End
<1>2. /\ Who(s) \in Users /\ call[s] # NoCall /\ call[s].object \in Objects
      /\ s # NoSession
  BY <1>1, CallType, NullsAssumption
<1>3. Ended(s)
  BY <1>1, <1>2 DEF Ended, End, Answer, Release, TypeInv, TypeOK
<1>4. UsersAreWhole'
  <2>1. CASE Op(s) = "update" /\ Gone(Who(s))
    BY <2>1, CommitOverlooks DEF RepositoryInv, UsersAreWhole, Absent
  <2>2. CASE Op(s) = "update" => ~Gone(Who(s))
    BY <1>2, <2>2, CommitStores DEF RepositoryInv, UsersAreWhole, Absent
  <2> QED
    BY <2>1, <2>2
<1>5. Held(s, "row") /\ disk'[<<"row", Who(s)>>] = {} => \A p \in Parts : Unshared(s, p)
  BY CommitStores, CommitOverlooks
<1> QED
  BY <1>2, <1>3, <1>4, <1>5, EndKeeps

\* A roll-back leaves what was committed.
LEMMA RollBackKeeps ==
  ASSUME RepositoryInv, NEW s \in Sessions, pc[s] # "idle", RollBack(s), TypeInv'
  PROVE  RepositoryInv'
<1>1. /\ TypeInv /\ UNCHANGED <<disk, known>> /\ Release(s) /\ End(s, "error")
      /\ data' = [i \in Items |-> IF lock[i] = s THEN disk[i] ELSE data[i]]
  BY DEF RollBack, Restore, RepositoryInv, End
<1>2. /\ call[s] # NoCall /\ s # NoSession /\ Op(s) \in {"create", "update", "delete"}
      /\ {"row", "codes", "past"} = Parts /\ CallInv(s)
  BY <1>1, CallType, NullsAssumption DEF Parts, RepositoryInv
<1>3. Ended(s)
  BY <1>1, <1>2 DEF Ended, End, Answer, Release, TypeInv, TypeOK
<1>4. UsersAreWhole'
  BY <1>1 DEF RepositoryInv, UsersAreWhole, Stored
<1>5. Held(s, "row") /\ disk[<<"row", Who(s)>>] = {} => \A p \in Parts : Unshared(s, p)
  <2> SUFFICES ASSUME Held(s, "row"), disk[<<"row", Who(s)>>] = {}
               PROVE  \A p \in Parts : Unshared(s, p)
    OBVIOUS
  <2>1. ~Gone(Who(s))
    BY <1>2 DEF Gone, Held
  <2>2. Op(s) = "create"
    BY <1>2, <2>1 DEF CallInv, UpdateInv, Overlooked, DeleteInv
  <2> QED
    BY <1>2, <2>2 DEF CallInv, CreateInv
<1> QED
  BY <1>1, <1>2, <1>3, <1>4, <1>5, EndKeeps

\* Every step keeps the invariant.
LEMMA NextKeeps == RepositoryInv /\ [Next]_vars => RepositoryInv'
<1> SUFFICES ASSUME RepositoryInv, [Next]_vars PROVE RepositoryInv'
  OBVIOUS
<1>1. TypeInv /\ TypeInv'
  BY NextType DEF RepositoryInv
<1>2. ASSUME NEW s \in Sessions, Begin(s) PROVE RepositoryInv'
  BY <1>1, <1>2, BeginKeeps
<1>3. ASSUME NEW s \in Sessions, Statement(s) PROVE RepositoryInv'
  <2>1. CASE InsertRow(s)
    BY <1>1, <2>1, InsertRowKeeps
  <2>2. CASE UpdateRow(s)
    BY <1>1, <2>2, UpdateRowKeeps
  <2>3. CASE DeleteCodes(s)
    BY <1>1, <2>3, DeleteCodesKeeps
  <2>4. CASE DeletePast(s)
    BY <1>1, <2>4, DeletePastKeeps
  <2>5. CASE InsertCode(s)
    BY <1>1, <2>5, InsertChildKeeps DEF InsertCode, Parts
  <2>6. CASE InsertPast(s)
    BY <1>1, <2>6, InsertChildKeeps DEF InsertPast, Parts
  <2>7. CASE LoopEnds(s)
    BY <1>1, <2>7, LoopEndsKeeps
  <2>8. CASE DeleteRow(s)
    BY <1>1, <2>8, DeleteRowKeeps
  <2>9. CASE NoChildren(s)
    BY <1>1, <2>9, NoChildrenKeeps
  <2>10. CASE NoUserForChild(s) \/ ChildrenForRow(s)
    BY <1>1, <2>10, RollBackKeeps DEF NoUserForChild, ChildrenForRow
  <2>11. CASE Commit(s)
    BY <1>1, <2>11, CommitKeeps
  <2> QED
    BY <1>3, <2>1, <2>2, <2>3, <2>4, <2>5, <2>6, <2>7, <2>8, <2>9, <2>10, <2>11
    DEF Statement
<1>4. ASSUME NEW s \in Sessions, StatementFails(s) PROVE RepositoryInv'
  BY <1>1, <1>4, RollBackKeeps DEF StatementFails
<1>5. ASSUME NEW s \in Sessions, EndDeadlock(s) PROVE RepositoryInv'
  BY <1>1, <1>5, DeadlockedCall, RollBackKeeps DEF EndDeadlock
<1>6. CASE UNCHANGED vars
  <2>1. NothingLeftOpen' /\ UsersAreWhole' /\ GoneInv' /\ KnownInv'
    BY <1>6 DEF vars, RepositoryInv, NothingLeftOpen, UsersAreWhole, Stored, GoneInv,
                KnownInv, Gone, Who, Op
  <2>2. ASSUME NEW s \in Sessions PROVE CallInv(s)'
    <3>1. UNCHANGED <<disk, data, lock, known, call, pc, left>>
      BY <1>6 DEF vars
    <3>2. UNCHANGED <<Op(s), Who(s), Gone(Who(s)), Saved(s), Overlooked(s)>>
      BY <3>1 DEF Saved, Overlooked, Ours, Unshared, Held, Now, Gone, Who, Op
    <3>3. UNCHANGED <<CreateInv(s), UpdateInv(s), DeleteInv(s)>>
      BY <3>1, <3>2 DEF CreateInv, UpdateInv, DeleteInv, Unshared, Held, Now
    <3> QED
      BY <3>1, <3>2, <3>3 DEF CallInv, RepositoryInv
  <2> QED
    BY <1>1, <2>1, <2>2 DEF RepositoryInv
<1> QED
  BY <1>2, <1>3, <1>4, <1>5, <1>6 DEF Next

\* The invariant holds at the start.
LEMMA InitKeeps == Init => RepositoryInv
<1> SUFFICES ASSUME Init PROVE RepositoryInv
  OBVIOUS
<1>1. /\ \A p \in Parts, u \in Users : lock[<<p, u>>] = NoSession
      /\ \A i \in Items : lock[i] = NoSession /\ data[i] = disk[i]
      /\ \A s \in Sessions : call[s] = NoCall
      /\ "row" \in Parts
  BY DEF Init, Items, Parts
<1>2. NothingLeftOpen /\ GoneInv
  BY <1>1 DEF NothingLeftOpen, GoneInv
<1>7. UsersAreWhole
  BY DEF Init, UsersAreWhole
<1>3. \A u \in Users \ known : Stored(u) = Absent
  BY DEF Init
<1>4. \A u \in Users : Stored(u)["row"] = disk[<<"row", u>>] /\ Absent["row"] = {}
  BY <1>1 DEF Stored, Absent
<1>5. KnownInv
  BY <1>1, <1>3, <1>4 DEF KnownInv, Gone
<1>6. \A s \in Sessions : CallInv(s)
  BY <1>1 DEF CallInv
<1> QED
  BY <1>2, <1>5, <1>6, <1>7, InitType DEF RepositoryInv

----------------------------------------------------------------------------
(* The theorems.                                                             *)

\* Whatever saves and deletions of one user run at once, and whichever of their
\* statements fail, what is on disk of a user is one object that was saved, with its
\* row, its codes and its passwords.
THEOREM UsersStayWhole == Spec => []UsersAreWhole
<1>1. RepositoryInv => UsersAreWhole
  BY DEF RepositoryInv
<1> QED
  BY <1>1, InitKeeps, NextKeeps, PTL DEF Spec

----------------------------------------------------------------------------
(* The refinement.                                                           *)

\* A step of a call before its end does nothing to the atomic store.
LEMMA StatementStutters ==
  ASSUME NEW s \in Sessions, Statement(s), ~NoUserForChild(s), ~ChildrenForRow(s),
         ~Commit(s)
  PROVE  UNCHANGED <<disk, call, answer>>
BY DEF Statement, InsertRow, UpdateRow, DeleteCodes, DeletePast, InsertCode, InsertPast,
       InsertChild, LoopEnds, DeleteRow, NoChildren, Goto

\* A call that is rolled back is one that the store refuses.
LEMMA RollBackRefuses ==
  ASSUME RepositoryInv, NEW s \in Sessions, pc[s] # "idle", RollBack(s)
  PROVE  Store!Refuse(s)
<1>1. call[s] # NoCall
  BY CallType DEF RepositoryInv
<1>2. [u \in Users |-> Stored(u)]' = [u \in Users |-> Stored(u)]
  BY DEF RollBack, Stored
<1> QED
  BY <1>1, <1>2 DEF RollBack, End, Answer, Store!Refuse, Store!End

\* The moment at which a call takes effect is its COMMIT.
LEMMA CommitPerforms ==
  ASSUME RepositoryInv, NEW s \in Sessions, Commit(s), Op(s) = "update" => ~Gone(Who(s))
  PROVE  Store!Perform(s)
<1> DEFINE table == [u \in Users |-> Stored(u)]
           new == IF call[s].op = "delete" THEN Absent ELSE call[s].object
<1>1. call[s] # NoCall /\ Who(s) \in Users
  BY CallType DEF RepositoryInv, Commit
<1>2. /\ call[s].op = "create" => table[call[s].user] = Absent
      /\ call[s].op = "update" => table[call[s].user] # Absent
  BY <1>1, CommitStores DEF Who, Op
<1>3. \A u \in Users : Stored(u)' = IF u = call[s].user THEN new ELSE Stored(u)
  BY CommitStores DEF Who, Op
<1>4. table' = [table EXCEPT ![call[s].user] = new]
  BY <1>3
<1>5. \E how \in {"ok", "error"} : Store!End(s, how)
  BY DEF Commit, End, Answer, Store!End
<1> QED
  BY <1>1, <1>2, <1>4, <1>5 DEF Store!Perform

\* The COMMIT of an update that found no user does nothing, or tells that it failed.
LEMMA CommitDoesNothing ==
  ASSUME RepositoryInv, NEW s \in Sessions, Commit(s), Op(s) = "update", Gone(Who(s))
  PROVE  Store!Overlook(s) \/ Store!Refuse(s)
<1> DEFINE table == [u \in Users |-> Stored(u)]
<1>1. call[s] # NoCall /\ Who(s) \in Users
  BY CallType DEF RepositoryInv, Commit
<1>2. /\ call[s].op = "update" /\ call[s].object \in Bare
      /\ table[call[s].user] = Absent /\ table' = table
  BY <1>1, CommitOverlooks DEF Who, Op
<1>3. Store!End(s, "ok") \/ Store!End(s, "error")
  BY DEF Commit, End, Answer, Store!End
<1> QED
  BY <1>1, <1>2, <1>3 DEF Store!Overlook, Store!Refuse

\* The repository, with its transactions of many statements, is the atomic store that
\* the handlers of the other modules take it to be, with the one update that it answers
\* as a success although its user is gone.
THEOREM ImplementsStore == Spec => Implements
<1>1. Init => Store!Init
  <2> SUFFICES ASSUME Init PROVE Store!Init
    OBVIOUS
  <2>1. [u \in Users |-> Stored(u)] \in [Users -> Objects \cup {Absent}]
    BY DEF Init
  <2> QED
    BY <2>1 DEF Init, Store!Init
<1>2. RepositoryInv /\ [Next]_vars
        => [Store!Next]_<<[u \in Users |-> Stored(u)], call, answer>>
  <2> SUFFICES ASSUME RepositoryInv, [Next]_vars
               PROVE  [Store!Next]_<<[u \in Users |-> Stored(u)], call, answer>>
    OBVIOUS
  <2>1. ASSUME UNCHANGED <<disk, call, answer>>
        PROVE  UNCHANGED <<[u \in Users |-> Stored(u)], call, answer>>
    BY <2>1 DEF Stored
  <2>2. ASSUME NEW s \in Sessions, Begin(s) PROVE Store!Begin(s)
    <3>1. call[s] = NoCall
      BY <2>2 DEF Begin, RepositoryInv, TypeInv, ControlInv
    <3>2. [u \in Users |-> Stored(u)]' = [u \in Users |-> Stored(u)]
      BY <2>2 DEF Begin, Stored
    <3>3. \E c \in Store!Calls : call' = [call EXCEPT ![s] = c]
      BY <2>2 DEF Begin, Calls, Store!Calls
    <3> QED
      BY <2>2, <3>1, <3>2, <3>3 DEF Begin, Store!Begin
  <2>3. ASSUME NEW s \in Sessions, Statement(s)
        PROVE  \/ UNCHANGED <<disk, call, answer>>
               \/ Store!Refuse(s) \/ Store!Perform(s) \/ Store!Overlook(s)
    <3>1. CASE NoUserForChild(s) \/ ChildrenForRow(s)
      BY <3>1, RollBackRefuses DEF NoUserForChild, ChildrenForRow
    <3>2. CASE Commit(s)
      BY <3>2, CommitPerforms, CommitDoesNothing
    <3>3. CASE ~NoUserForChild(s) /\ ~ChildrenForRow(s) /\ ~Commit(s)
      BY <2>3, <3>3, StatementStutters
    <3> QED
      BY <3>1, <3>2, <3>3
  <2>4. ASSUME NEW s \in Sessions, StatementFails(s) \/ EndDeadlock(s)
        PROVE  Store!Refuse(s)
    BY <2>4, DeadlockedCall, RollBackRefuses DEF StatementFails, EndDeadlock
  <2>5. CASE UNCHANGED vars
    BY <2>1, <2>5 DEF vars
  <2> QED
    BY <2>1, <2>2, <2>3, <2>4, <2>5 DEF Next, Store!Next
<1> QED
  BY <1>1, <1>2, InitKeeps, NextKeeps, PTL DEF Spec, Implements, Store!Spec
=============================================================================
