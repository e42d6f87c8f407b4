------------------------ MODULE AccountLockoutProofs ------------------------
(***************************************************************************)
(* Proofs about AccountLockout, for every set of requests, every limit on  *)
(* failed sign-ins, every budget of codes and every combination of faults. *)
(***************************************************************************)
EXTENDS AccountLockout, TLAPS

USE DEF store, clock, control, saves, tally, history, vars

----------------------------------------------------------------------------
(* Type correctness.  The control part of TypeOK is named, so that the      *)
(* operators every action ends with are dealt with once.                    *)

ControlOK ==
  /\ job \in [Requests -> Job]
  /\ pc \in [Requests -> {"idle", "loadRow", "loadCodes", "decide", "save", "mail",
                          "signIn"}]
  /\ phase \in [Requests -> {"main", "event", "activate"}]
  /\ user \in [Requests -> User]
  /\ signedIn \in [Requests -> {"no", "password", "reset"}]

\* A request that ends leaves well-typed control state behind.
LEMMA FinishType ==
  ASSUME ControlOK, NEW r \in Requests, Finish(r)
  PROVE  ControlOK'
BY DEF ControlOK, Finish, End, NoJob, NoUser, Job, User, Row

\* So does one that ends by signing the user in.
LEMMA LoginUserType ==
  ASSUME ControlOK, NEW r \in Requests, NEW how \in {"password", "reset"},
         LoginUser(r, how)
  PROVE  ControlOK'
BY DEF ControlOK, LoginUser, End, NoJob, NoUser, Job, User, Row

\* Entering a nested handler keeps the control state well typed.
LEMMA EnterType ==
  ASSUME ControlOK, NEW r \in Requests,
         NEW ph \in {"main", "event", "activate"}, Enter(r, ph)
  PROVE  ControlOK'
BY DEF ControlOK, Enter, NoUser, User, Row

\* Moving on inside a handler, with a new object in memory.
LEMMA GotoType ==
  ASSUME ControlOK, NEW r \in Requests,
         NEW where \in {"loadRow", "loadCodes", "decide", "save", "mail", "signIn"},
         Goto(r, where), user' \in [Requests -> User]
  PROVE  ControlOK'
BY DEF ControlOK, Goto

\* Changing the row of one loaded object to another row.
LEMMA UserRowType ==
  ASSUME ControlOK, NEW r \in Requests, NEW u \in Row,
         user' = [user EXCEPT ![r].row = u]
  PROVE  user' \in [Requests -> User]
BY DEF ControlOK, User

\* Counting a failure turns a row into a row.
LEMMA FailedLoginType ==
  ASSUME NEW u \in Row
  PROVE  FailedLogin(u) \in Row
<1> DEFINE b == u.locked \/ u.attempts + 1 >= Allowed
<1>1. b \in BOOLEAN  OBVIOUS
<1>2. u.attempts + 1 \in Nat  BY DEF Row
<1>3. FailedLogin(u) = [u EXCEPT !.attempts = u.attempts + 1, !.locked = b]
  BY DEF FailedLogin
<1> HIDE DEF b
<1>4. QED  BY <1>1, <1>2, <1>3 DEF Row

\* Saving writes a well-typed object.
LEMMA UpdateType ==
  ASSUME TypeOK, NEW r \in Requests, UpdateUser(r)
  PROVE  /\ row' \in Row
         /\ codes' \subseteq Nat
         /\ stored' \subseteq Nat
         /\ unlockedDuring' \subseteq Requests
         /\ stale' \subseteq Requests
         /\ overwritten' \in BOOLEAN
BY DEF TypeOK, UpdateUser, User, InFlight, Holding

\* A request that arrives is well typed.
LEMMA SubmitType ==
  ASSUME TypeOK, NEW r \in Requests, NEW j \in Job,
         NEW ph \in {"main", "event", "activate"}, Submit(r, j, ph)
  PROVE  TypeOK'
BY DEF TypeOK, Submit

\* Types are preserved by every arrival.
LEMMA ArriveType ==
  ASSUME TypeOK, NEW r \in Requests, Arrive(r)
  PROVE  TypeOK'
<1>1. CASE SubmitLogin(r)
  <2>1. PICK ok \in Passwords, url \in Urls :
          Submit(r, [NoJob EXCEPT !.cmd = "login", !.passwordOk = ok, !.hasUrl = url],
                 "main")
    BY <1>1 DEF SubmitLogin
  <2>2. [NoJob EXCEPT !.cmd = "login", !.passwordOk = ok, !.hasUrl = url] \in Job
    BY PasswordsAssumption DEF NoJob, Job, Urls
  <2>3. QED  BY <2>1, <2>2, SubmitType
<1>2. CASE SubmitUnlock(r)
  <2>1. PICK c \in 0..lastCode, url \in Urls :
          Submit(r, [NoJob EXCEPT !.cmd = "unlock", !.code = c, !.hasUrl = url], "main")
    BY <1>2 DEF SubmitUnlock
  <2>a. c \in Nat  BY DEF TypeOK
  <2>b. url \in BOOLEAN  BY DEF Urls
  <2>2. [NoJob EXCEPT !.cmd = "unlock", !.code = c, !.hasUrl = url] \in Job
    BY <2>a, <2>b DEF NoJob, Job
  <2>3. QED  BY <2>1, <2>2, SubmitType
<1>3. CASE SubmitResend(r)
  <2>1. PICK url \in Urls :
          Submit(r, [NoJob EXCEPT !.cmd = "resend", !.hasUrl = url], "event")
    BY <1>3 DEF SubmitResend
  <2>2. [NoJob EXCEPT !.cmd = "resend", !.hasUrl = url] \in Job
    BY DEF NoJob, Job, Urls
  <2>3. QED  BY <2>1, <2>2, SubmitType
<1>4. CASE SubmitEdit(r)
  <2>1. PICK c \in {"edit", "reset"} : Submit(r, [NoJob EXCEPT !.cmd = c], "main")
    BY <1>4 DEF SubmitEdit
  <2>2. [NoJob EXCEPT !.cmd = c] \in Job  BY DEF NoJob, Job
  <2>3. QED  BY <2>1, <2>2, SubmitType
<1>5. QED  BY <1>1, <1>2, <1>3, <1>4 DEF Arrive

\* Types are preserved by every step of a handler.
LEMMA StepType ==
  ASSUME TypeOK, NEW r \in Requests, Step(r)
  PROVE  TypeOK'
<1> USE DEF TypeOK
<1>0. ControlOK  BY DEF ControlOK
<1>u. user[r] \in User /\ user[r].row \in Row /\ user[r].codes \in SUBSET Nat
  BY DEF User
<1>a. ASSUME ControlOK', UNCHANGED <<store, clock, sent, history>>
      PROVE  TypeOK'
  BY <1>a DEF ControlOK
<1>b. ASSUME ControlOK', UpdateUser(r), used' \subseteq Nat, failures' \in Nat,
             uncounted' \in BOOLEAN, stranded' \in BOOLEAN, UNCHANGED <<clock, sent>>
      PROVE  TypeOK'
  BY <1>b, UpdateType DEF ControlOK
<1>1. CASE LoadRow(r)
  <2>1. user' \in [Requests -> User]  BY <1>0, <1>1, UserRowType DEF LoadRow
  <2>2. ControlOK'  BY <1>0, <1>1, <2>1, GotoType DEF LoadRow
  <2>3. QED  BY <1>1, <2>2 DEF LoadRow, ControlOK
<1>2. CASE LoadCodes(r)
  <2>1. user' \in [Requests -> User]  BY <1>2 DEF LoadCodes, User
  <2>2. ControlOK'  BY <1>0, <1>2, <2>1, GotoType DEF LoadCodes
  <2>3. QED  BY <1>2, <1>a, <2>2 DEF LoadCodes
<1>3. CASE RejectLocked(r)
  <2>1. ControlOK'  BY <1>0, <1>3, FinishType DEF RejectLocked
  <2>2. QED  BY <1>3, <1>a, <2>1 DEF RejectLocked
<1>4. CASE CountFailure(r)
  <2>1. FailedLogin(user[r].row) \in Row  BY <1>u, FailedLoginType
  <2>2. user' \in [Requests -> User]
    BY <1>0, <1>4, <2>1, UserRowType DEF CountFailure
  <2>3. ControlOK'  BY <1>0, <1>4, <2>2, GotoType DEF CountFailure
  <2>4. QED  BY <1>4, <2>3 DEF CountFailure, ControlOK
<1>5. CASE AcceptPassword(r)
  <2>1. CASE user[r].row.attempts > 0
    <3>1. SignedIn(user[r].row) \in Row  BY <1>u DEF SignedIn, Row
    <3>2. user' \in [Requests -> User]
      BY <1>0, <1>5, <2>1, <3>1, UserRowType DEF AcceptPassword
    <3>3. ControlOK'  BY <1>0, <1>5, <2>1, <3>2, GotoType DEF AcceptPassword
    <3>4. QED  BY <1>5, <1>a, <3>3 DEF AcceptPassword
  <2>2. CASE ~(user[r].row.attempts > 0)
    <3>1. ControlOK'  BY <1>0, <1>5, <2>2, LoginUserType DEF AcceptPassword
    <3>2. QED  BY <1>5, <1>a, <3>1 DEF AcceptPassword
  <2>3. QED  BY <2>1, <2>2
<1>6. CASE SaveSignIn(r)
  <2>1. ControlOK'  BY <1>0, <1>6, FinishType, LoginUserType DEF SaveSignIn
  <2>2. QED  BY <1>6, <1>b, <2>1 DEF SaveSignIn
<1>7. CASE SaveFailure(r)
  <2>1. ControlOK'
    BY <1>0, <1>7, FinishType, EnterType DEF SaveFailure, AfterFailure
  <2>2. QED  BY <1>7, <1>b, <2>1 DEF SaveFailure
<1>8. CASE AlreadyUnlocked(r)
  <2>1. ControlOK'  BY <1>0, <1>8, EnterType DEF AlreadyUnlocked
  <2>2. QED  BY <1>8, <1>a, <2>1 DEF AlreadyUnlocked
<1>9. CASE RejectUnlock(r)
  <2>1. ControlOK'  BY <1>0, <1>9, EnterType DEF RejectUnlock
  <2>2. QED  BY <1>9, <1>a, <2>1 DEF RejectUnlock
<1>10. CASE AcceptUnlock(r)
  <2>1. Unlocked(user[r].row) \in Row  BY <1>u DEF Unlocked, Row
  <2>2. user' \in [Requests -> User]
    BY <1>10, <2>1 DEF AcceptUnlock, ExpireUnlockCodes, User
  <2>3. ControlOK'  BY <1>0, <1>10, <2>2, GotoType DEF AcceptUnlock
  <2>4. QED  BY <1>10, <1>a, <2>3 DEF AcceptUnlock
<1>11. CASE SaveUnlock(r)
  <2>1. ControlOK'  BY <1>0, <1>11, EnterType DEF SaveUnlock
  <2>2. used' \subseteq Nat  BY <1>11 DEF SaveUnlock, Job
  <2>3. QED  BY <1>11, <1>b, <2>1, <2>2 DEF SaveUnlock
<1>12. CASE AlreadyActive(r)
  <2>1. ControlOK'  BY <1>0, <1>12, FinishType DEF AlreadyActive
  <2>2. QED  BY <1>12, <1>a, <2>1 DEF AlreadyActive
<1>13. CASE Activate(r)
  <2>1. user' \in [Requests -> User]  BY <1>13, <1>u DEF Activate, User, Row
  <2>2. ControlOK'  BY <1>0, <1>13, <2>1, GotoType DEF Activate
  <2>3. QED  BY <1>13, <1>a, <2>2 DEF Activate
<1>14. CASE SaveActivation(r)
  <2>1. ControlOK'  BY <1>0, <1>14, FinishType DEF SaveActivation
  <2>2. QED  BY <1>14, <1>b, <2>1 DEF SaveActivation
<1>15. CASE GenerateCode(r)
  <2>1. user' \in [Requests -> User]
    BY <1>15, <1>u DEF GenerateCode, AddCode, User
  <2>2. ControlOK'  BY <1>0, <1>15, <2>1, GotoType DEF GenerateCode, AddCode
  <2>3. QED  BY <1>15, <2>2 DEF GenerateCode, AddCode, ControlOK
<1>16. CASE FailWithoutUrl(r)
  <2>1. ControlOK'  BY <1>0, <1>16, FinishType DEF FailWithoutUrl
  <2>2. QED  BY <1>16, <2>1 DEF FailWithoutUrl, Strands, ControlOK
<1>17. CASE KeepCode(r)
  <2>1. ControlOK'
    BY <1>0, <1>17, GotoType, FinishType DEF KeepCode, AfterEvent
  <2>2. QED  BY <1>17, <1>a, <2>1 DEF KeepCode
<1>18. CASE SaveCode(r)
  <2>1. ControlOK'  BY <1>0, <1>18, GotoType DEF SaveCode
  <2>2. QED  BY <1>18, <1>b, <2>1 DEF SaveCode
<1>19. CASE SendMail(r)
  <2>1. ControlOK'  BY <1>0, <1>19, FinishType DEF SendMail, AfterEvent
  <2>2. sent' \subseteq Nat  BY <1>19, <1>u DEF SendMail
  <2>3. QED  BY <1>19, <2>1, <2>2 DEF SendMail, ControlOK
<1>20. CASE LoseMail(r)
  <2>1. ControlOK'  BY <1>0, <1>20, FinishType DEF LoseMail, AfterEvent
  <2>2. QED  BY <1>20, <1>a, <2>1 DEF LoseMail
<1>21. CASE Edit(r)
  <2>1. user' \in [Requests -> User]  BY <1>21, <1>u DEF Edit, User, Row
  <2>2. ControlOK'  BY <1>0, <1>21, <2>1, GotoType DEF Edit
  <2>3. QED  BY <1>21, <1>a, <2>2 DEF Edit
<1>22. CASE SaveEdit(r)
  <2>1. ControlOK'  BY <1>0, <1>22, FinishType, GotoType DEF SaveEdit
  <2>2. QED  BY <1>22, <1>b, <2>1 DEF SaveEdit
<1>23. CASE SignInAfterReset(r)
  <2>1. ControlOK'  BY <1>0, <1>23, LoginUserType DEF SignInAfterReset
  <2>2. QED  BY <1>23, <1>a, <2>1 DEF SignInAfterReset
<1>24. QED
  BY <1>1, <1>2, <1>3, <1>4, <1>5, <1>6, <1>7, <1>8, <1>9, <1>10, <1>11, <1>12,
     <1>13, <1>14, <1>15, <1>16, <1>17, <1>18, <1>19, <1>20, <1>21, <1>22, <1>23
     DEF Step

\* Every variable keeps its type: the loaded objects are users, the stored row is
\* a row, whatever the requests do and wherever they fail.
THEOREM TypeCorrect == Spec => []TypeOK
<1>1. Init => TypeOK
  <2>1. NoJob \in Job  BY DEF NoJob, Job
  <2>2. NoUser \in User  BY DEF NoUser, User, Row
  <2>3. [attempts : {0}, locked : {FALSE}, active : BOOLEAN] \subseteq Row
    <3>1. {0} \subseteq Nat /\ {FALSE} \subseteq BOOLEAN  OBVIOUS
    <3>2. QED  BY <3>1, Zenon DEF Row
  <2>4. SUFFICES ASSUME Init PROVE TypeOK  OBVIOUS
  <2>5. row \in Row  BY <2>3, <2>4 DEF Init
  <2>6. ControlOK  BY <2>1, <2>2, <2>4 DEF Init, ControlOK
  <2>7. QED  BY <2>4, <2>5, <2>6 DEF Init, ControlOK, TypeOK
<1>2. ASSUME TypeOK, [Next]_vars
      PROVE  TypeOK'
  <2>1. ASSUME NEW r \in Requests, Abort(r)
        PROVE  TypeOK'
    <3>1. ControlOK  BY <1>2 DEF TypeOK, ControlOK
    <3>2. ControlOK'  BY <2>1, <3>1, FinishType DEF Abort
    <3>3. QED  BY <1>2, <2>1, <3>2 DEF Abort, Strands, TypeOK, ControlOK
  <2>2. CASE Expire  BY <1>2, <2>2 DEF Expire, TypeOK
  <2>3. CASE UNCHANGED vars  BY <1>2, <2>3 DEF TypeOK
  <2>4. QED  BY <1>2, <2>1, <2>2, <2>3, ArriveType, StepType DEF Next
<1>3. QED  BY <1>1, <1>2, PTL DEF Spec

----------------------------------------------------------------------------
(* The lock and the counter.  The row alone is not inductive: what is saved  *)
(* next is the object some request has in memory, so the two columns have to *)
(* agree in every loaded object as well.                                     *)

RowsWellFormed ==
  /\ WellFormed(row)
  /\ \A r \in Requests : WellFormed(user[r].row)

\* A counted failure of an account that was loaded unlocked keeps the columns
\* in agreement: the lock is set exactly when the counter reaches the limit.
LEMMA FailedLoginWellFormed ==
  ASSUME NEW u \in Row, WellFormed(u), ~u.locked
  PROVE  WellFormed(FailedLogin(u))
<1>1. u.attempts \in Nat /\ Allowed \in Nat /\ u.attempts < Allowed
  BY AllowedAssumption DEF WellFormed, Row
<1>2. FailedLogin(u).attempts = u.attempts + 1  BY DEF FailedLogin, Row
<1>3. FailedLogin(u).locked <=> u.attempts + 1 >= Allowed  BY DEF FailedLogin, Row
<1>4. QED  BY <1>1, <1>2, <1>3 DEF WellFormed

\* The empty object of a request that has not loaded the user.
LEMMA NoUserWellFormed == WellFormed(NoUser.row)
BY AllowedAssumption DEF WellFormed, NoUser

\* An object that changes in one place changes nothing else.
LEMMA OneRowChanges ==
  ASSUME TypeOK, RowsWellFormed, NEW r \in Requests, NEW v \in User,
         WellFormed(v.row), user' = [user EXCEPT ![r] = v], UNCHANGED row
  PROVE  RowsWellFormed'
BY DEF TypeOK, RowsWellFormed, WellFormed

\* Ending a request or entering a nested handler drops its object.
LEMMA DropUser ==
  ASSUME TypeOK, RowsWellFormed, NEW r \in Requests, WellFormed(row'),
         user' = [user EXCEPT ![r] = NoUser]
  PROVE  RowsWellFormed'
BY NoUserWellFormed DEF TypeOK, RowsWellFormed, WellFormed

\* Saving an object that agrees leaves a row that agrees.
LEMMA SaveWellFormed ==
  ASSUME RowsWellFormed, NEW r \in Requests, UpdateUser(r)
  PROVE  WellFormed(row')
BY DEF RowsWellFormed, UpdateUser

\* Every step of a handler keeps the columns in agreement, stored and in memory.
LEMMA StepWellFormed ==
  ASSUME TypeOK, RowsWellFormed, NEW r \in Requests, Step(r)
  PROVE  RowsWellFormed'
<1>u. user[r] \in User /\ user[r].row \in Row /\ row \in Row
  BY DEF TypeOK, User
<1>w. WellFormed(user[r].row) /\ WellFormed(row)  BY DEF RowsWellFormed
<1>f. ASSUME End(r), WellFormed(row')
      PROVE  RowsWellFormed'
  BY <1>f, DropUser DEF End
<1>e. ASSUME NEW ph, Enter(r, ph), WellFormed(row')
      PROVE  RowsWellFormed'
  BY <1>e, DropUser DEF Enter
<1>c. ASSUME NEW u \in Row, WellFormed(u), user' = [user EXCEPT ![r].row = u],
             UNCHANGED row
      PROVE  RowsWellFormed'
  BY <1>c DEF TypeOK, RowsWellFormed, WellFormed, User
<1>s. UpdateUser(r) => WellFormed(row')  BY SaveWellFormed
<1>1. CASE LoadRow(r)
  BY <1>1, <1>c, <1>u, <1>w DEF LoadRow
<1>2. CASE LoadCodes(r)
  BY <1>2 DEF LoadCodes, TypeOK, RowsWellFormed, WellFormed, User
<1>3. CASE RejectLocked(r) \/ AlreadyActive(r) \/ FailWithoutUrl(r)
  BY <1>3, <1>f, <1>w DEF RejectLocked, AlreadyActive, FailWithoutUrl, Finish
<1>4. CASE CountFailure(r)
  <2>1. WellFormed(FailedLogin(user[r].row))
    BY <1>4, <1>u, <1>w, FailedLoginWellFormed DEF CountFailure, WrongPassword
  <2>2. QED  BY <1>4, <1>c, <1>u, <2>1, FailedLoginType DEF CountFailure
<1>5. CASE AcceptPassword(r)
  <2>1. CASE user[r].row.attempts > 0
    <3>1. SignedIn(user[r].row) \in Row  BY <1>u DEF SignedIn, Row
    <3>2. WellFormed(SignedIn(user[r].row))
      BY <1>5, <1>u, AllowedAssumption
         DEF AcceptPassword, RightPassword, SignedIn, WellFormed, Row
    <3>3. QED  BY <1>5, <1>c, <2>1, <3>1, <3>2 DEF AcceptPassword
  <2>2. CASE ~(user[r].row.attempts > 0)
    BY <1>5, <1>f, <1>w, <2>2 DEF AcceptPassword, LoginUser
  <2>3. QED  BY <2>1, <2>2
<1>6. CASE SaveSignIn(r) \/ SaveActivation(r)
  BY <1>6, <1>f, <1>s DEF SaveSignIn, SaveActivation, Finish, LoginUser
<1>7. CASE SaveFailure(r)
  BY <1>7, <1>e, <1>f, <1>s DEF SaveFailure, AfterFailure, Finish
<1>8. CASE AlreadyUnlocked(r) \/ RejectUnlock(r)
  BY <1>8, <1>e, <1>w DEF AlreadyUnlocked, RejectUnlock
<1>9. CASE AcceptUnlock(r)
  <2> DEFINE v == [row   |-> Unlocked(user[r].row),
                   codes |-> ExpireUnlockCodes(user[r].codes)]
  <2>1. v \in User  BY <1>u DEF Unlocked, ExpireUnlockCodes, User, Row
  <2>2. WellFormed(v.row)
    <3>1. v.row = Unlocked(user[r].row)  OBVIOUS
    <3>2. Unlocked(user[r].row).attempts = 0 /\ Unlocked(user[r].row).locked = FALSE
      BY <1>u DEF Unlocked, Row
    <3>3. QED  BY <3>1, <3>2, AllowedAssumption DEF WellFormed
  <2>3. user' = [user EXCEPT ![r] = v] /\ UNCHANGED row  BY <1>9 DEF AcceptUnlock
  <2> HIDE DEF v
  <2>4. QED  BY <2>1, <2>2, <2>3, OneRowChanges
<1>10. CASE SaveUnlock(r)  BY <1>10, <1>e, <1>s DEF SaveUnlock
<1>11. CASE Activate(r) \/ Edit(r)
  <2>1. PICK a : user' = [user EXCEPT ![r].row.active = a]
    BY <1>11 DEF Activate, Edit
  <2>2. QED
    BY <1>11, <1>u, <2>1
       DEF Activate, Edit, TypeOK, RowsWellFormed, WellFormed, User, Row
<1>12. CASE GenerateCode(r)
  BY <1>12 DEF GenerateCode, AddCode, TypeOK, RowsWellFormed, WellFormed, User
<1>13. CASE KeepCode(r)
  <2>1. CASE UNCHANGED user
    BY <1>13, <2>1 DEF KeepCode, RowsWellFormed, WellFormed
  <2>2. CASE AfterEvent(r)
    BY <1>13, <1>f, <1>w, <2>2 DEF KeepCode, AfterEvent, Finish
  <2>3. QED  BY <1>13, <2>1, <2>2 DEF KeepCode
<1>14. CASE SaveCode(r)
  BY <1>14, <1>s DEF SaveCode, RowsWellFormed, WellFormed
<1>15. CASE SendMail(r) \/ LoseMail(r) \/ SignInAfterReset(r)
  BY <1>15, <1>f, <1>w
     DEF SendMail, LoseMail, SignInAfterReset, AfterEvent, Finish, LoginUser
<1>16. CASE SaveEdit(r)
  <2>1. CASE UNCHANGED user
    BY <1>16, <1>s, <2>1 DEF SaveEdit, RowsWellFormed, WellFormed
  <2>2. CASE Finish(r)  BY <1>16, <1>f, <1>s, <2>2 DEF SaveEdit, Finish
  <2>3. QED  BY <1>16, <2>1, <2>2 DEF SaveEdit
<1>17. QED
  BY <1>1, <1>2, <1>3, <1>4, <1>5, <1>6, <1>7, <1>8, <1>9, <1>10, <1>11, <1>12,
     <1>13, <1>14, <1>15, <1>16 DEF Step

\* The two columns agree at all times, in the table and in every loaded object.
LEMMA RowsAgree == Spec => []RowsWellFormed
<1>1. ASSUME Init
      PROVE  RowsWellFormed
  <2>1. row.attempts = 0 /\ row.locked = FALSE  BY <1>1 DEF Init
  <2>2. WellFormed(row)  BY <2>1, AllowedAssumption DEF WellFormed
  <2>3. \A r \in Requests : user[r] = NoUser  BY <1>1 DEF Init
  <2>4. QED  BY <2>2, <2>3, NoUserWellFormed DEF RowsWellFormed
<1>2. ASSUME TypeOK, RowsWellFormed, [Next]_vars
      PROVE  RowsWellFormed'
  <2>1. ASSUME NEW r \in Requests, Arrive(r)
        PROVE  RowsWellFormed'
    BY <1>2, <2>1 DEF Arrive, SubmitLogin, SubmitUnlock, SubmitResend, SubmitEdit,
                      Submit, RowsWellFormed, WellFormed
  <2>2. ASSUME NEW r \in Requests, Abort(r)
        PROVE  RowsWellFormed'
    BY <1>2, <2>2, DropUser DEF Abort, Finish, End, RowsWellFormed, WellFormed
  <2>3. CASE Expire  BY <1>2, <2>3 DEF Expire, RowsWellFormed, WellFormed
  <2>4. CASE UNCHANGED vars  BY <1>2, <2>4 DEF RowsWellFormed, WellFormed
  <2>5. QED  BY <1>2, <2>1, <2>2, <2>3, <2>4, StepWellFormed DEF Next
<1>3. QED  BY <1>1, <1>2, TypeCorrect, PTL DEF Spec

\* The stored lock and the stored counter always agree, although concurrent
\* requests overwrite each other's saves and may stop at any point.
THEOREM LockAndCounterAgree == Spec => []LockMatchesCounter
<1>1. RowsWellFormed => LockMatchesCounter  BY DEF RowsWellFormed, LockMatchesCounter
<1>2. QED  BY <1>1, RowsAgree, PTL

----------------------------------------------------------------------------
(* Codes.  A code is in the mails only if it was stored; until then it is in *)
(* the object of the one request that generated it and is about to save it.  *)

\* A step of one request leaves the control state of the others alone.
LEMMA OthersUnchanged ==
  ASSUME TypeOK, NEW r \in Requests, Step(r) \/ Abort(r),
         NEW q \in Requests \ {r}
  PROVE  /\ pc'[q] = pc[q] /\ phase'[q] = phase[q] /\ user'[q] = user[q]
         /\ job'[q] = job[q] /\ signedIn'[q] = signedIn[q]
<1> DEFINE Same == /\ pc'[q] = pc[q] /\ phase'[q] = phase[q] /\ user'[q] = user[q]
                   /\ job'[q] = job[q] /\ signedIn'[q] = signedIn[q]
<1>f. ASSUME NEW how, Finish(r) \/ LoginUser(r, how)
      PROVE  Same
  BY <1>f DEF TypeOK, Finish, LoginUser, End
<1>e. ASSUME NEW ph, Enter(r, ph)
      PROVE  Same
  BY <1>e DEF TypeOK, Enter
<1>g. ASSUME NEW where, Goto(r, where), user'[q] = user[q]
      PROVE  Same
  BY <1>g DEF TypeOK, Goto
<1>u. user \in [Requests -> User]  BY DEF TypeOK
<1> SUFFICES Same  OBVIOUS
<1> HIDE DEF Same
<1>1. CASE LoadRow(r) \/ LoadCodes(r)
  BY <1>1, <1>g, <1>u DEF LoadRow, LoadCodes
<1>2. CASE CountFailure(r) \/ AcceptPassword(r)
  BY <1>2, <1>f, <1>g, <1>u DEF CountFailure, AcceptPassword
<1>3. CASE AcceptUnlock(r) \/ Activate(r) \/ Edit(r) \/ GenerateCode(r)
  BY <1>3, <1>g, <1>u DEF AcceptUnlock, Activate, Edit, GenerateCode, AddCode
<1>4. CASE RejectLocked(r) \/ AlreadyActive(r) \/ FailWithoutUrl(r) \/ Abort(r)
  BY <1>4, <1>f DEF RejectLocked, AlreadyActive, FailWithoutUrl, Abort
<1>5. CASE AlreadyUnlocked(r) \/ RejectUnlock(r) \/ SaveUnlock(r)
  BY <1>5, <1>e DEF AlreadyUnlocked, RejectUnlock, SaveUnlock
<1>6. CASE SaveSignIn(r) \/ SaveFailure(r) \/ SaveActivation(r)
  BY <1>6, <1>e, <1>f DEF SaveSignIn, SaveFailure, SaveActivation, AfterFailure
<1>7. CASE KeepCode(r) \/ SaveCode(r) \/ SaveEdit(r)
  BY <1>7, <1>f, <1>g DEF KeepCode, SaveCode, SaveEdit, AfterEvent
<1>8. CASE SendMail(r) \/ LoseMail(r) \/ SignInAfterReset(r)
  BY <1>8, <1>f DEF SendMail, LoseMail, SignInAfterReset, AfterEvent
<1>9. QED
  BY <1>1, <1>2, <1>3, <1>4, <1>5, <1>6, <1>7, <1>8 DEF Step

Generated(r) == pc[r] = "save" /\ phase[r] = "event"

CodesInv ==
  /\ codes \subseteq stored
  /\ sent \subseteq stored
  /\ \A r \in Requests : Generated(r) \/ user[r].codes \subseteq stored

\* A step of one request keeps the invariant if it does so for that request.
LEMMA CodesOfOne ==
  ASSUME TypeOK, CodesInv, NEW r \in Requests, Step(r) \/ Abort(r),
         codes' \subseteq stored', sent' \subseteq stored', stored \subseteq stored',
         Generated(r)' \/ user'[r].codes \subseteq stored'
  PROVE  CodesInv'
<1>1. ASSUME NEW q \in Requests
      PROVE  Generated(q)' \/ user'[q].codes \subseteq stored'
  <2>1. CASE q = r  BY <2>1
  <2>2. CASE q # r  BY <2>2, OthersUnchanged DEF CodesInv, Generated
  <2>3. QED  BY <2>1, <2>2
<1>2. QED  BY <1>1 DEF CodesInv

\* A request that ends or enters another handler has no codes in memory.
LEMMA NoCodes ==
  ASSUME TypeOK, NEW r \in Requests, NEW ph, End(r) \/ Enter(r, ph)
  PROVE  user'[r].codes = {}
<1>1. user' = [user EXCEPT ![r] = NoUser]  BY DEF End, Enter
<1>2. QED  BY <1>1 DEF TypeOK, NoUser

\* Every step of a handler keeps the invariant.
LEMMA StepCodes ==
  ASSUME TypeOK, CodesInv, NEW r \in Requests, Step(r)
  PROVE  CodesInv'
<1>u. user \in [Requests -> User] /\ user[r] \in User  BY DEF TypeOK
<1>a. ASSUME UNCHANGED <<store, sent, stored>>,
             user'[r].codes \subseteq stored \/ Generated(r)'
      PROVE  CodesInv'
  BY <1>a, CodesOfOne DEF CodesInv
<1>s. ASSUME UpdateUser(r), user'[r].codes \subseteq stored \cup user[r].codes,
             UNCHANGED sent
      PROVE  CodesInv'
  BY <1>s, CodesOfOne DEF CodesInv, UpdateUser
<1>1. CASE LoadRow(r)
  BY <1>1, <1>a, <1>u DEF LoadRow, CodesInv, Generated, User
<1>2. CASE LoadCodes(r)
  BY <1>2, <1>a, <1>u DEF LoadCodes, CodesInv, User
<1>e. ASSUME NEW how, Finish(r) \/ LoginUser(r, how) \/ AfterEvent(r)
      PROVE  user'[r].codes = {}
  BY <1>e, NoCodes DEF Finish, LoginUser, AfterEvent
<1>3. CASE RejectLocked(r) \/ AlreadyActive(r) \/ FailWithoutUrl(r)
  BY <1>3, <1>a, <1>e DEF RejectLocked, AlreadyActive, FailWithoutUrl
<1>4. CASE CountFailure(r)
  BY <1>4, <1>a, <1>u DEF CountFailure, At, CodesInv, Generated, User
<1>5. CASE AcceptPassword(r)
  BY <1>5, <1>a, <1>e, <1>u DEF AcceptPassword, At, CodesInv, Generated, User
<1>6. CASE SaveSignIn(r) \/ SaveFailure(r)
  BY <1>6, <1>e, <1>s, NoCodes DEF SaveSignIn, SaveFailure, AfterFailure
<1>7. CASE AlreadyUnlocked(r) \/ RejectUnlock(r)
  BY <1>7, <1>a, NoCodes DEF AlreadyUnlocked, RejectUnlock
<1>8. CASE AcceptUnlock(r)
  BY <1>8, <1>a, <1>u DEF AcceptUnlock, ExpireUnlockCodes
<1>9. CASE SaveUnlock(r)  BY <1>9, <1>s, NoCodes DEF SaveUnlock
<1>10. CASE Activate(r)
  BY <1>10, <1>a, <1>u DEF Activate, At, CodesInv, Generated, User
<1>11. CASE SaveActivation(r)  BY <1>11, <1>e, <1>s DEF SaveActivation
<1>12. CASE GenerateCode(r)
  <2>1. Generated(r)'
    BY <1>12 DEF GenerateCode, AddCode, At, Goto, Generated, TypeOK
  <2>2. QED  BY <1>12, <1>a, <2>1 DEF GenerateCode
<1>13. CASE KeepCode(r)
  BY <1>13, <1>a, <1>e DEF KeepCode, At, CodesInv, Generated
<1>14. CASE SaveCode(r)  BY <1>14, <1>s DEF SaveCode
<1>15. CASE SendMail(r)
  <2>1. user'[r].codes = {}  BY <1>15, <1>e DEF SendMail
  <2>2. user[r].codes \subseteq stored  BY <1>15 DEF SendMail, CodesInv, Generated
  <2>3. sent' \subseteq stored /\ UNCHANGED <<codes, stored>>
    BY <1>15, <2>2 DEF SendMail, CodesInv
  <2>4. QED  BY <2>1, <2>3, CodesOfOne DEF CodesInv
<1>16. CASE LoseMail(r) \/ SignInAfterReset(r)
  BY <1>16, <1>a, <1>e DEF LoseMail, SignInAfterReset
<1>17. CASE Edit(r)
  BY <1>17, <1>a, <1>u DEF Edit, At, CodesInv, Generated, User
<1>18. CASE SaveEdit(r)  BY <1>18, <1>e, <1>s DEF SaveEdit
<1>19. QED
  BY <1>1, <1>2, <1>3, <1>4, <1>5, <1>6, <1>7, <1>8, <1>9, <1>10, <1>11, <1>12,
     <1>13, <1>14, <1>15, <1>16, <1>17, <1>18 DEF Step

\* Whatever is mailed was stored before: no interleaving, failed audit or lost
\* mail lets a message announce a code that was never in the database.
THEOREM OnlyStoredCodesAreMailed == Spec => []MailedCodesWereStored
<1>1. Init => CodesInv  BY DEF Init, CodesInv, NoUser
<1>2. ASSUME TypeOK, CodesInv, [Next]_vars
      PROVE  CodesInv'
  <2>1. ASSUME NEW r \in Requests, Arrive(r)
        PROVE  CodesInv'
    <3>1. PICK j, ph : Submit(r, j, ph)
      BY <2>1 DEF Arrive, SubmitLogin, SubmitUnlock, SubmitResend, SubmitEdit
    <3>2. QED  BY <1>2, <3>1 DEF Submit, TypeOK, CodesInv, Generated
  <2>2. ASSUME NEW r \in Requests, Abort(r)
        PROVE  CodesInv'
    BY <1>2, <2>2, CodesOfOne, NoCodes DEF Abort, Finish, CodesInv
  <2>3. CASE Expire \/ UNCHANGED vars
    BY <1>2, <2>3 DEF Expire, CodesInv, Generated
  <2>4. QED  BY <1>2, <2>1, <2>2, <2>3, StepCodes DEF Next
<1>3. CodesInv => MailedCodesWereStored  BY DEF CodesInv, MailedCodesWereStored
<1>4. QED  BY <1>1, <1>2, <1>3, TypeCorrect, PTL DEF Spec

----------------------------------------------------------------------------
(* Signing in.  A handler decides on a copy of the row.  That the copy shows *)
(* no lock is evidence about the time of the request, not about now: the     *)
(* invariant carries it from the load to the decision and to the save.       *)

Decided(r) ==
  /\ pc[r] = "save" /\ phase[r] = "main"
  /\ job[r].cmd = "login" /\ job[r].passwordOk

\* What request r knows, provided it knows it of an account seen unlocked.
Evidence(r) ==
  \/ signedIn[r] = "password"
  \/ pc[r] \in {"loadCodes", "decide"} /\ ~user[r].row.locked
  \/ Decided(r)

SignInInv ==
  /\ ~row.locked => InFlight \subseteq unlockedDuring
  /\ \A r \in Requests : Evidence(r) => r \in unlockedDuring

\* A step of one request keeps the invariant if it does so for that request and
\* a row it leaves unlocked is recorded for all requests under way.
LEMMA EvidenceOfOne ==
  ASSUME TypeOK, SignInInv, NEW r \in Requests, Step(r) \/ Abort(r),
         pc[r] # "idle", unlockedDuring \subseteq unlockedDuring',
         ~row'.locked => InFlight \subseteq unlockedDuring',
         Evidence(r)' => r \in unlockedDuring'
  PROVE  SignInInv'
<1>1. \A q \in Requests \ {r} : Evidence(q)' <=> Evidence(q)
  BY OthersUnchanged DEF Evidence, Decided
<1>2. \A q \in Requests : Evidence(q)' => q \in unlockedDuring'
  BY <1>1 DEF SignInInv
<1>3. InFlight' \subseteq InFlight
  BY OthersUnchanged DEF InFlight
<1>4. QED  BY <1>2, <1>3 DEF SignInInv

\* A request that ends without accepting a password, or enters another handler,
\* knows nothing.
LEMMA NoEvidence ==
  ASSUME TypeOK, NEW r \in Requests, NEW ph, signedIn[r] # "password",
         Finish(r) \/ LoginUser(r, "reset") \/ AfterEvent(r) \/ Enter(r, ph)
  PROVE  ~Evidence(r)'
BY DEF Finish, LoginUser, AfterEvent, End, Enter, Evidence, Decided, TypeOK

\* A step either leaves the row and the record alone, or saves the object of the
\* request and records everybody if that object is not locked.
LEMMA RowAndRecord ==
  ASSUME TypeOK, SignInInv, NEW r \in Requests, Step(r)
  PROVE  /\ pc[r] # "idle"
         /\ unlockedDuring \subseteq unlockedDuring'
         /\ ~row'.locked => InFlight \subseteq unlockedDuring'
<1>1. pc[r] # "idle"
  BY DEF Step, LoadRow, LoadCodes, RejectLocked, CountFailure, AcceptPassword,
     SaveSignIn, SaveFailure, AlreadyUnlocked, RejectUnlock, AcceptUnlock,
     SaveUnlock, AlreadyActive, Activate, SaveActivation, GenerateCode,
     FailWithoutUrl, KeepCode, SaveCode, SendMail, LoseMail, Edit, SaveEdit,
     SignInAfterReset, Mistakes, At
<1>2. UpdateUser(r) \/ UNCHANGED <<row, unlockedDuring>>
  BY DEF Step, LoadRow, LoadCodes, RejectLocked, CountFailure, AcceptPassword,
     SaveSignIn, SaveFailure, AlreadyUnlocked, RejectUnlock, AcceptUnlock,
     SaveUnlock, AlreadyActive, Activate, SaveActivation, GenerateCode,
     FailWithoutUrl, KeepCode, SaveCode, SendMail, LoseMail, Edit, SaveEdit,
     SignInAfterReset, Mistakes
<1>3. CASE UpdateUser(r)  BY <1>3, <1>1 DEF UpdateUser
<1>4. CASE UNCHANGED <<row, unlockedDuring>>  BY <1>1, <1>4 DEF SignInInv
<1>5. QED  BY <1>2, <1>3, <1>4

\* Every step of a handler that has not signed in yet is covered by what it knew.
LEMMA StepEvidence ==
  ASSUME TypeOK, SignInInv, NEW r \in Requests, Step(r), signedIn[r] # "password"
  PROVE  Evidence(r)' => r \in unlockedDuring
<1>u. user \in [Requests -> User] /\ user[r] \in User  BY DEF TypeOK
<1>i. r \in Requests /\ pc[r] # "idle" => r \in InFlight  BY DEF InFlight
<1>k. Evidence(r) => r \in unlockedDuring  BY DEF SignInInv
<1>n. ASSUME NEW where, where \notin {"loadCodes", "decide"}, Goto(r, where),
             ~(job[r].cmd = "login" /\ phase[r] = "main")
      PROVE  ~Evidence(r)'
  BY <1>n DEF Goto, Evidence, Decided, TypeOK
<1>1. CASE LoadRow(r)
  <2>1. user'[r].row = row  BY <1>1, <1>u DEF LoadRow
  <2>2. Evidence(r)' => ~row.locked
    BY <1>1, <2>1 DEF LoadRow, Goto, Evidence, Decided, TypeOK
  <2>3. r \in InFlight  BY <1>1, <1>i DEF LoadRow
  <2>4. QED  BY <2>2, <2>3 DEF SignInInv
<1>2. CASE LoadCodes(r)
  <2>1. user'[r].row = user[r].row  BY <1>2, <1>u DEF LoadCodes, User
  <2>2. Evidence(r)' => Evidence(r)
    BY <1>2, <2>1 DEF LoadCodes, Goto, Evidence, Decided, TypeOK
  <2>3. QED  BY <2>2, <1>k
<1>3. CASE RejectLocked(r) \/ AlreadyActive(r) \/ FailWithoutUrl(r)
  BY <1>3, NoEvidence DEF RejectLocked, AlreadyActive, FailWithoutUrl
<1>4. CASE CountFailure(r)
  BY <1>4 DEF CountFailure, WrongPassword, Goto, Evidence, Decided, TypeOK
<1>5. CASE AcceptPassword(r)
  BY <1>5, <1>k DEF AcceptPassword, RightPassword, At, Evidence
<1>6. CASE SaveSignIn(r)
  BY <1>6, <1>k DEF SaveSignIn, Evidence, Decided
<1>7. CASE SaveFailure(r)
  BY <1>7, NoEvidence DEF SaveFailure, AfterFailure
<1>8. CASE AlreadyUnlocked(r) \/ RejectUnlock(r) \/ SaveUnlock(r)
  BY <1>8, NoEvidence DEF AlreadyUnlocked, RejectUnlock, SaveUnlock
<1>9. CASE AcceptUnlock(r)  BY <1>9, <1>n DEF AcceptUnlock, At
<1>10. CASE Activate(r)  BY <1>10, <1>n DEF Activate, At
<1>11. CASE SaveActivation(r)  BY <1>11, NoEvidence DEF SaveActivation
<1>12. CASE GenerateCode(r)  BY <1>12, <1>n DEF GenerateCode, AddCode, At
<1>13. CASE KeepCode(r)  BY <1>13, <1>n, NoEvidence DEF KeepCode, At
<1>14. CASE SaveCode(r)  BY <1>14, <1>n DEF SaveCode
<1>15. CASE SendMail(r) \/ LoseMail(r) \/ SignInAfterReset(r)
  BY <1>15, NoEvidence DEF SendMail, LoseMail, SignInAfterReset
<1>16. CASE Edit(r)  BY <1>16, <1>n DEF Edit, At
<1>17. CASE SaveEdit(r)  BY <1>17, <1>n, NoEvidence DEF SaveEdit
<1>18. QED
  BY <1>1, <1>2, <1>3, <1>4, <1>5, <1>6, <1>7, <1>8, <1>9, <1>10, <1>11, <1>12,
     <1>13, <1>14, <1>15, <1>16, <1>17 DEF Step

\* A request whose password is accepted saw the account unlocked at some moment of
\* its life, although it decides on a copy and other requests lock the account
\* meanwhile.  Sign-ins after a reset are outside of this: they look at no lock.
THEOREM SignInOnlyIfSeenUnlocked == Spec => []SignInSawUnlocked
<1>1. Init => SignInInv
  BY DEF Init, SignInInv, Evidence, Decided, InFlight
<1>2. ASSUME TypeOK, SignInInv, [Next]_vars
      PROVE  SignInInv'
  <2>1. ASSUME NEW r \in Requests, Arrive(r)
        PROVE  SignInInv'
    <3>1. PICK j, ph : Submit(r, j, ph)
      BY <2>1 DEF Arrive, SubmitLogin, SubmitUnlock, SubmitResend, SubmitEdit
    <3>2. \A q \in Requests \ {r} :
            (Evidence(q)' <=> Evidence(q)) /\ (q \in InFlight' <=> q \in InFlight)
      BY <1>2, <3>1 DEF Submit, Evidence, Decided, InFlight, TypeOK
    <3>3. ~Evidence(r)'
      BY <1>2, <3>1 DEF Submit, Evidence, Decided, TypeOK
    <3>4. /\ row' = row
          /\ unlockedDuring \ {r} \subseteq unlockedDuring'
          /\ ~row.locked => r \in unlockedDuring'
      BY <3>1 DEF Submit
    <3>5. InFlight' \subseteq Requests  BY DEF InFlight
    <3>6. QED  BY <1>2, <3>2, <3>3, <3>4, <3>5 DEF SignInInv
  <2>2. ASSUME NEW r \in Requests, Step(r)
        PROVE  SignInInv'
    <3>1. CASE signedIn[r] = "password"
      BY <1>2, <2>2, <3>1, EvidenceOfOne, RowAndRecord DEF SignInInv, Evidence
    <3>2. CASE signedIn[r] # "password"
      BY <1>2, <2>2, <3>2, EvidenceOfOne, RowAndRecord, StepEvidence
    <3>3. QED  BY <3>1, <3>2
  <2>3. ASSUME NEW r \in Requests, Abort(r)
        PROVE  SignInInv'
    <3>1. Evidence(r)' => Evidence(r)
      BY <1>2, <2>3 DEF Abort, Finish, End, Evidence, Decided, TypeOK
    <3>2. Evidence(r)' => r \in unlockedDuring'
      BY <1>2, <2>3, <3>1 DEF SignInInv, Abort
    <3>3. QED  BY <1>2, <2>3, <3>2, EvidenceOfOne DEF Abort, SignInInv
  <2>4. CASE Expire \/ UNCHANGED vars
    BY <1>2, <2>4 DEF Expire, SignInInv, Evidence, Decided, InFlight
  <2>5. QED  BY <1>2, <2>1, <2>2, <2>3, <2>4 DEF Next
<1>3. SignInInv => SignInSawUnlocked  BY DEF SignInInv, Evidence, SignInSawUnlocked
<1>4. QED  BY <1>1, <1>2, <1>3, TypeCorrect, PTL DEF Spec

----------------------------------------------------------------------------
(* Requests that overlap.  Any number of requests load and save the account  *)
(* at the same time.  A request that is not stale holds what is on record,   *)
(* and what it is about to save differs from that in one of five ways; about *)
(* a stale one nothing is known.                                             *)

SameLock(r) ==
  user[r].row.attempts = row.attempts /\ user[r].row.locked = row.locked

\* The five ways in which an object about to be saved can differ from the tables.
SavesSignIn(r) ==
  /\ phase[r] = "main" /\ job[r].cmd = "login" /\ job[r].passwordOk
  /\ ~row.locked /\ user[r].row.attempts = 0 /\ ~user[r].row.locked
  /\ user[r].codes = codes

SavesFailure(r) ==
  /\ phase[r] = "main" /\ job[r].cmd = "login" /\ ~job[r].passwordOk
  /\ ~row.locked /\ user[r].row.attempts = row.attempts + 1
  /\ user[r].codes = codes

SavesUnlock(r) ==
  /\ phase[r] = "main" /\ job[r].cmd = "unlock" /\ job[r].code \in codes
  /\ row.locked /\ user[r].row.attempts = 0 /\ ~user[r].row.locked
  /\ user[r].codes = {}

SavesSame(r) ==
  /\ phase[r] = "main" => job[r].cmd \in {"edit", "reset"}
  /\ phase[r] # "event"
  /\ SameLock(r) /\ user[r].codes = codes

SavesCode(r) ==
  /\ phase[r] = "event"
  /\ SameLock(r)
  /\ \E c \in Nat \ used : user[r].codes = codes \cup {c}

Saves(r) ==
  \/ SavesSignIn(r) \/ SavesFailure(r) \/ SavesUnlock(r)
  \/ SavesSame(r) \/ SavesCode(r)

CopyInv(r) ==
  /\ pc[r] \in {"loadCodes", "decide"} => user[r].row = row
  /\ pc[r] = "decide" => user[r].codes = codes
  /\ pc[r] = "save" => Saves(r)

CopiesInv == \A r \in Requests \ stale : CopyInv(r)

\* No code has a number that was not given out yet.
Numbers ==
  /\ \A c \in codes \cup used : c <= lastCode
  /\ \A r \in Requests : /\ job[r].code <= lastCode
                         /\ \A c \in user[r].codes : c <= lastCode

\* Types used over and over: the row and the object in memory.
LEMMA Typed ==
  ASSUME TypeOK, NEW r \in Requests
  PROVE  /\ user \in [Requests -> User] /\ user[r] \in User
         /\ user[r].row \in Row /\ user[r].codes \in SUBSET Nat
         /\ user[r].row.attempts \in Nat /\ user[r].row.locked \in BOOLEAN
         /\ row \in Row /\ row.attempts \in Nat /\ row.locked \in BOOLEAN
         /\ lastCode \in Nat /\ failures \in Nat /\ Allowed \in Nat
         /\ codes \subseteq Nat /\ used \subseteq Nat /\ job[r].code \in Nat
BY AllowedAssumption DEF TypeOK, User, Row, Job

\* Moving on inside a handler.
LEMMA GotoOne ==
  ASSUME TypeOK, NEW r \in Requests, NEW where, Goto(r, where)
  PROVE  pc'[r] = where /\ UNCHANGED <<job, phase>>
BY DEF Goto, TypeOK

\* A request that ends or enters another handler holds nothing.
LEMMA EndsEmpty ==
  ASSUME TypeOK, NEW r \in Requests, NEW ph, End(r) \/ Enter(r, ph)
  PROVE  /\ pc'[r] \in {"idle", "loadRow"}
         /\ user'[r] = NoUser
         /\ job'[r].code \in {0, job[r].code}
BY DEF End, Enter, TypeOK, NoJob

\* A step saves the object of its request, or leaves the tables and the staleness of
\* the others alone.
LEMMA StepKinds ==
  ASSUME TypeOK, NEW r \in Requests, Step(r)
  PROVE  \/ /\ pc[r] = "save" /\ UpdateUser(r) /\ UNCHANGED lastCode
            /\ pc'[r] \in {"idle", "loadRow", "mail", "signIn"}
         \/ /\ pc[r] # "save"
            /\ UNCHANGED <<row, codes, used, overwritten>>
            /\ \/ stale' = stale
               \/ pc[r] = "loadRow" /\ stale' = stale \ {r}
            /\ lastCode' \in {lastCode, lastCode + 1}
<1>1. CASE SaveSignIn(r) \/ SaveFailure(r) \/ SaveUnlock(r) \/ SaveActivation(r)
  BY <1>1 DEF SaveSignIn, SaveFailure, SaveUnlock, SaveActivation, AfterFailure,
     Mistakes, Finish, LoginUser, End, Enter, TypeOK
<1>2. CASE SaveCode(r) \/ SaveEdit(r)
  BY <1>2 DEF SaveCode, SaveEdit, Goto, Finish, End, TypeOK
<1>3. CASE LoadRow(r) \/ LoadCodes(r)  BY <1>3 DEF LoadRow, LoadCodes
<1>4. CASE \/ RejectLocked(r) \/ CountFailure(r) \/ AcceptPassword(r)
           \/ AlreadyUnlocked(r) \/ RejectUnlock(r) \/ AcceptUnlock(r)
           \/ AlreadyActive(r) \/ Activate(r) \/ GenerateCode(r)
           \/ FailWithoutUrl(r) \/ KeepCode(r) \/ Edit(r)
  BY <1>4 DEF RejectLocked, CountFailure, AcceptPassword, AlreadyUnlocked,
     RejectUnlock, AcceptUnlock, AlreadyActive, Activate, GenerateCode, AddCode,
     FailWithoutUrl, KeepCode, Edit, At
<1>5. CASE SendMail(r) \/ LoseMail(r) \/ SignInAfterReset(r)
  BY <1>5 DEF SendMail, LoseMail, SignInAfterReset
<1>6. QED  BY <1>1, <1>2, <1>3, <1>4, <1>5 DEF Step

\* Where the codes that a step stores, uses and keeps in memory come from.
LEMMA StepNumbers ==
  ASSUME TypeOK, NEW r \in Requests, Step(r)
  PROVE  /\ codes' \subseteq codes \cup user[r].codes
         /\ used' \subseteq used \cup {job[r].code}
         /\ job'[r].code \in {0, job[r].code}
         /\ user'[r].codes \subseteq user[r].codes \cup codes \cup {lastCode'}
<1>t. user \in [Requests -> User] /\ user[r] \in User  BY Typed
<1>e. ASSUME NEW how, NEW ph, Finish(r) \/ LoginUser(r, how) \/ Enter(r, ph)
      PROVE  user'[r].codes = {} /\ job'[r].code \in {0, job[r].code}
  BY <1>e, EndsEmpty DEF Finish, LoginUser, NoUser
<1>1. CASE LoadRow(r) \/ LoadCodes(r)
  BY <1>1, <1>t DEF LoadRow, LoadCodes, Goto, User
<1>2. CASE CountFailure(r) \/ AcceptPassword(r)
  BY <1>2, <1>e, <1>t DEF CountFailure, AcceptPassword, Goto, User
<1>3. CASE AcceptUnlock(r) \/ GenerateCode(r)
  BY <1>3, <1>t DEF AcceptUnlock, ExpireUnlockCodes, GenerateCode, AddCode, Goto, User
<1>4. CASE Activate(r) \/ Edit(r)
  BY <1>4, <1>t DEF Activate, Edit, Goto, User
<1>5. CASE \/ RejectLocked(r) \/ AlreadyUnlocked(r) \/ RejectUnlock(r)
           \/ AlreadyActive(r) \/ FailWithoutUrl(r) \/ KeepCode(r)
  BY <1>5, <1>e DEF RejectLocked, AlreadyUnlocked, RejectUnlock, AlreadyActive,
     FailWithoutUrl, KeepCode, AfterEvent, Goto
<1>6. CASE SendMail(r) \/ LoseMail(r) \/ SignInAfterReset(r)
  BY <1>6, <1>e DEF SendMail, LoseMail, SignInAfterReset, AfterEvent
<1>7. CASE SaveSignIn(r) \/ SaveFailure(r) \/ SaveUnlock(r) \/ SaveActivation(r)
  BY <1>7, <1>e DEF SaveSignIn, SaveFailure, SaveUnlock, SaveActivation,
     AfterFailure, UpdateUser
<1>8. CASE SaveCode(r) \/ SaveEdit(r)
  BY <1>8, <1>e DEF SaveCode, SaveEdit, UpdateUser, Goto
<1>9. QED
  BY <1>1, <1>2, <1>3, <1>4, <1>5, <1>6, <1>7, <1>8 DEF Step

\* Codes that are stored, used, typed or in memory have been given out.
LEMMA NumbersInvariant == Spec => []Numbers
<1>1. Init => Numbers  BY DEF Init, Numbers, NoJob, NoUser
<1>2. ASSUME TypeOK, Numbers, [Next]_vars
      PROVE  Numbers'
  <2>t. lastCode \in Nat /\ codes \subseteq Nat /\ used \subseteq Nat
    BY <1>2 DEF TypeOK
  <2>1. ASSUME NEW r \in Requests, Arrive(r)
        PROVE  Numbers'
    <3>1. PICK j, ph : Submit(r, j, ph) /\ j.code <= lastCode
      <4>0. 0 <= lastCode  BY <2>t
      <4>1. CASE SubmitLogin(r)
        <5>1. PICK ok \in Passwords, url \in Urls :
                Submit(r, [NoJob EXCEPT !.cmd = "login", !.passwordOk = ok,
                                        !.hasUrl = url], "main")
          BY <4>1 DEF SubmitLogin
        <5>2. [NoJob EXCEPT !.cmd = "login", !.passwordOk = ok, !.hasUrl = url].code = 0
          BY DEF NoJob
        <5>3. QED  BY <4>0, <5>1, <5>2
      <4>2. CASE SubmitUnlock(r)
        <5>1. PICK c \in 0..lastCode, url \in Urls :
                Submit(r, [NoJob EXCEPT !.cmd = "unlock", !.code = c, !.hasUrl = url],
                       "main")
          BY <4>2 DEF SubmitUnlock
        <5>2. [NoJob EXCEPT !.cmd = "unlock", !.code = c, !.hasUrl = url].code = c
          BY DEF NoJob
        <5>3. c <= lastCode  BY <2>t
        <5>4. QED  BY <5>1, <5>2, <5>3
      <4>3. CASE SubmitResend(r)
        <5>1. PICK url \in Urls :
                Submit(r, [NoJob EXCEPT !.cmd = "resend", !.hasUrl = url], "event")
          BY <4>3 DEF SubmitResend
        <5>2. [NoJob EXCEPT !.cmd = "resend", !.hasUrl = url].code = 0  BY DEF NoJob
        <5>3. QED  BY <4>0, <5>1, <5>2
      <4>4. CASE SubmitEdit(r)
        <5>1. PICK c \in {"edit", "reset"} : Submit(r, [NoJob EXCEPT !.cmd = c], "main")
          BY <4>4 DEF SubmitEdit
        <5>2. [NoJob EXCEPT !.cmd = c].code = 0  BY DEF NoJob
        <5>3. QED  BY <4>0, <5>1, <5>2
      <4>5. QED  BY <2>1, <4>1, <4>2, <4>3, <4>4 DEF Arrive
    <3>2. /\ job'[r] = j /\ \A q \in Requests \ {r} : job'[q] = job[q]
          /\ UNCHANGED <<user, codes, used, lastCode>>
      BY <1>2, <3>1 DEF Submit, TypeOK
    <3>3. QED  BY <1>2, <3>1, <3>2 DEF Numbers
  <2>2. ASSUME NEW r \in Requests, Step(r)
        PROVE  Numbers'
    <3>1. lastCode' \in Nat /\ lastCode <= lastCode'
      BY <1>2, <2>2, <2>t, StepKinds
    <3>2. \A c \in Nat : c <= lastCode => c <= lastCode'
      BY <2>t, <3>1
    <3>3. user[r].codes \subseteq Nat /\ job[r].code \in Nat
      BY <1>2, Typed
    <3>4. /\ \A c \in user[r].codes \cup codes \cup used : c <= lastCode'
          /\ job[r].code <= lastCode'
      BY <1>2, <2>t, <3>2, <3>3 DEF Numbers
    <3>5. /\ \A c \in codes' \cup used' : c <= lastCode'
          /\ job'[r].code <= lastCode'
          /\ \A c \in user'[r].codes : c <= lastCode'
      BY <1>2, <2>2, <3>1, <3>4, StepNumbers
    <3>6. ASSUME NEW q \in Requests \ {r}
          PROVE  job'[q].code <= lastCode' /\ \A c \in user'[q].codes : c <= lastCode'
      <4>1. job'[q] = job[q] /\ user'[q] = user[q]
        BY <1>2, <2>2, OthersUnchanged
      <4>2. user[q].codes \subseteq Nat /\ job[q].code \in Nat  BY <1>2, Typed
      <4>3. QED  BY <1>2, <3>2, <4>1, <4>2 DEF Numbers
    <3>7. QED  BY <3>5, <3>6 DEF Numbers
  <2>3. ASSUME NEW r \in Requests, Abort(r)
        PROVE  Numbers'
    <3>1. /\ user'[r] = NoUser /\ job'[r].code \in {0, job[r].code}
          /\ UNCHANGED <<codes, used, lastCode>>
      BY <1>2, <2>3, EndsEmpty DEF Abort, Finish
    <3>2. \A q \in Requests \ {r} : job'[q] = job[q] /\ user'[q] = user[q]
      BY <1>2, <2>3, OthersUnchanged
    <3>3. QED  BY <1>2, <2>t, <3>1, <3>2 DEF Numbers, NoUser
  <2>4. CASE Expire \/ UNCHANGED vars  BY <1>2, <2>4 DEF Expire, Numbers
  <2>5. QED  BY <1>2, <2>1, <2>2, <2>3, <2>4 DEF Next
<1>3. QED  BY <1>1, <1>2, TypeCorrect, PTL DEF Spec

\* A step makes the others stale or leaves their copies right.
LEMMA OtherCopies ==
  ASSUME TypeOK, CopiesInv, NEW r \in Requests, Step(r) \/ Abort(r),
         NEW q \in Requests \ {r}, q \notin stale'
  PROVE  CopyInv(q)'
<1>1. /\ pc'[q] = pc[q] /\ phase'[q] = phase[q] /\ user'[q] = user[q]
      /\ job'[q] = job[q]
  BY OthersUnchanged
<1>2. CASE pc[r] = "save" /\ UpdateUser(r)
  BY <1>1, <1>2 DEF UpdateUser, Holding, CopyInv
<1>3. CASE UNCHANGED <<row, codes, used>> /\ stale \ {r} \subseteq stale'
  BY <1>1, <1>3 DEF CopiesInv, CopyInv, Saves, SavesSignIn, SavesFailure, SavesUnlock,
     SavesSame, SavesCode, SameLock
<1>4. Abort(r) => UNCHANGED <<row, codes, used>> /\ stale \ {r} \subseteq stale'
  BY DEF Abort
<1>5. QED  BY <1>2, <1>3, <1>4, StepKinds

\* A step leaves its own request with a right copy or with a known difference to it.
LEMMA OwnCopy ==
  ASSUME TypeOK, Numbers, CopiesInv, NEW r \in Requests, Step(r), r \notin stale'
  PROVE  CopyInv(r)'
<1>t. /\ user \in [Requests -> User] /\ user[r] \in User /\ user[r].row \in Row
      /\ row \in Row /\ codes \subseteq Nat /\ used \subseteq Nat /\ lastCode \in Nat
  BY Typed
<1>i. pc[r] # "loadRow" /\ pc[r] # "save" => CopyInv(r)
  BY StepKinds DEF CopiesInv
<1>n. ASSUME pc'[r] \notin {"loadCodes", "decide", "save"}
      PROVE  CopyInv(r)'
  BY <1>n DEF CopyInv
<1>1. CASE LoadRow(r)
  <2>1. user'[r] = [user[r] EXCEPT !.row = row]  BY <1>1, <1>t DEF LoadRow
  <2>2. user'[r].row = row  BY <2>1, <1>t DEF User
  <2>3. pc'[r] = "loadCodes"  BY <1>1, GotoOne DEF LoadRow
  <2>4. QED  BY <1>1, <2>2, <2>3 DEF CopyInv, LoadRow
<1>2. CASE LoadCodes(r)
  <2>1. user'[r] = [user[r] EXCEPT !.codes = codes]  BY <1>2, <1>t DEF LoadCodes
  <2>2. user'[r].row = user[r].row /\ user'[r].codes = codes
    BY <2>1, <1>t DEF User
  <2>3. pc'[r] = "decide"  BY <1>2, GotoOne DEF LoadCodes
  <2>4. QED  BY <1>2, <1>i, <2>2, <2>3 DEF CopyInv, LoadCodes
<1>d. ASSUME pc[r] = "decide"
      PROVE  /\ user[r].row = row /\ user[r].codes = codes
             /\ UNCHANGED <<row, codes, used>>
  BY <1>d, <1>i, StepKinds DEF CopyInv
<1>s. ASSUME pc'[r] = "save", Saves(r)'
      PROVE  CopyInv(r)'
  BY <1>s DEF CopyInv
<1>3. CASE CountFailure(r)
  <2>1. /\ pc[r] = "decide" /\ phase[r] = "main" /\ job[r].cmd = "login"
        /\ ~user[r].row.locked /\ ~job[r].passwordOk
    BY <1>3 DEF CountFailure, At, WrongPassword
  <2>2. user'[r] = [user[r] EXCEPT !.row = FailedLogin(row)]
    BY <1>3, <1>t, <1>d, <2>1 DEF CountFailure
  <2>3. user'[r].row.attempts = row.attempts + 1 /\ user'[r].codes = codes
    BY <2>1, <2>2, <1>t, <1>d DEF FailedLogin, User, Row
  <2>4. pc'[r] = "save" /\ UNCHANGED <<job, phase>>
    BY <1>3, GotoOne DEF CountFailure
  <2>5. SavesFailure(r)'  BY <1>d, <2>1, <2>3, <2>4 DEF SavesFailure
  <2>6. QED  BY <1>s, <2>4, <2>5 DEF Saves
<1>4. CASE AcceptPassword(r)
  <2>1. /\ pc[r] = "decide" /\ phase[r] = "main" /\ job[r].cmd = "login"
        /\ ~user[r].row.locked /\ job[r].passwordOk
    BY <1>4 DEF AcceptPassword, At, RightPassword
  <2>2. CASE user[r].row.attempts > 0
    <3>1. user'[r] = [user[r] EXCEPT !.row = SignedIn(row)]
      BY <1>4, <1>t, <1>d, <2>1, <2>2 DEF AcceptPassword
    <3>2. /\ user'[r].row.attempts = 0 /\ user'[r].row.locked = row.locked
          /\ user'[r].codes = codes
      BY <2>1, <3>1, <1>t, <1>d DEF SignedIn, User, Row
    <3>3. pc'[r] = "save" /\ UNCHANGED <<job, phase>>
      BY <1>4, <2>2, GotoOne DEF AcceptPassword
    <3>4. SavesSignIn(r)'  BY <1>d, <2>1, <3>2, <3>3 DEF SavesSignIn
    <3>5. QED  BY <1>s, <3>3, <3>4 DEF Saves
  <2>3. CASE ~(user[r].row.attempts > 0)
    BY <1>4, <1>n, <2>3, EndsEmpty DEF AcceptPassword, LoginUser
  <2>4. QED  BY <2>2, <2>3
<1>5. CASE AcceptUnlock(r)
  <2>1. /\ pc[r] = "decide" /\ phase[r] = "main" /\ job[r].cmd = "unlock"
        /\ user[r].row.locked /\ job[r].code \in user[r].codes
    BY <1>5 DEF AcceptUnlock, At, ValidUnlockCode
  <2>2. user'[r] = [row |-> Unlocked(row), codes |-> {}]
    BY <1>5, <1>t, <1>d, <2>1 DEF AcceptUnlock, ExpireUnlockCodes
  <2>3. Unlocked(row).attempts = 0 /\ Unlocked(row).locked = FALSE
    BY <1>t DEF Unlocked, Row
  <2>4. user'[r].row = Unlocked(row) /\ user'[r].codes = {}  BY <2>2
  <2>5. pc'[r] = "save" /\ UNCHANGED <<job, phase>>
    BY <1>5, GotoOne DEF AcceptUnlock
  <2>6. SavesUnlock(r)'  BY <1>d, <2>1, <2>3, <2>4, <2>5 DEF SavesUnlock
  <2>7. QED  BY <1>s, <2>5, <2>6 DEF Saves
<1>6. CASE Activate(r) \/ Edit(r)
  <2>1. /\ pc[r] = "decide"
        /\ (phase[r] = "main" /\ job[r].cmd \in {"edit", "reset"}) \/ phase[r] = "activate"
    BY <1>6 DEF Activate, Edit, At
  <2>a. ASSUME Activate(r)
        PROVE  /\ user'[r].row.attempts = row.attempts
               /\ user'[r].row.locked = row.locked
               /\ user'[r].codes = codes
    <3>1. user'[r] = [user[r] EXCEPT !.row = [row EXCEPT !.active = TRUE]]
      BY <1>t, <1>d, <2>1, <2>a DEF Activate
    <3>2. QED  BY <3>1, <2>1, <1>t, <1>d DEF User, Row
  <2>b. ASSUME Edit(r)
        PROVE  /\ user'[r].row.attempts = row.attempts
               /\ user'[r].row.locked = row.locked
               /\ user'[r].codes = codes
    <3> DEFINE a == row.active \/ job[r].cmd = "reset"
    <3>1. user'[r] = [user[r] EXCEPT !.row = [row EXCEPT !.active = a]]
      BY <1>t, <1>d, <2>1, <2>b DEF Edit
    <3> HIDE DEF a
    <3>2. QED  BY <3>1, <2>1, <1>t, <1>d DEF User, Row
  <2>3. /\ user'[r].row.attempts = row.attempts
        /\ user'[r].row.locked = row.locked
        /\ user'[r].codes = codes
    BY <1>6, <2>a, <2>b
  <2>4. pc'[r] = "save" /\ UNCHANGED <<job, phase>>
    BY <1>6, GotoOne DEF Activate, Edit
  <2>5. SavesSame(r)'  BY <1>d, <2>1, <2>3, <2>4 DEF SavesSame, SameLock
  <2>6. QED  BY <1>s, <2>4, <2>5 DEF Saves
<1>7. CASE GenerateCode(r)
  <2>1. pc[r] = "decide" /\ phase[r] = "event"  BY <1>7 DEF GenerateCode, At
  <2>2. user'[r] = [user[r] EXCEPT !.codes = codes \cup {lastCode + 1}]
    BY <1>7, <1>t, <1>d, <2>1 DEF GenerateCode, AddCode
  <2>3. user'[r].row = row /\ user'[r].codes = codes \cup {lastCode + 1}
    BY <2>1, <2>2, <1>t, <1>d DEF User
  <2>4. lastCode + 1 \in Nat \ used  BY <1>t DEF Numbers
  <2>5. pc'[r] = "save" /\ UNCHANGED <<job, phase>>
    BY <1>7, GotoOne DEF GenerateCode, AddCode
  <2>6. SavesCode(r)'
    BY <1>d, <2>1, <2>3, <2>4, <2>5 DEF SavesCode, SameLock
  <2>7. QED  BY <1>s, <2>5, <2>6 DEF Saves
<1>8. CASE \/ RejectLocked(r) \/ AlreadyActive(r) \/ AlreadyUnlocked(r)
           \/ RejectUnlock(r) \/ FailWithoutUrl(r) \/ KeepCode(r)
  BY <1>8, <1>n, EndsEmpty, GotoOne
     DEF RejectLocked, AlreadyActive, AlreadyUnlocked, RejectUnlock, FailWithoutUrl,
         KeepCode, AfterEvent, Finish
<1>9. CASE SendMail(r) \/ LoseMail(r) \/ SignInAfterReset(r)
  BY <1>9, <1>n, EndsEmpty
     DEF SendMail, LoseMail, SignInAfterReset, AfterEvent, Finish, LoginUser
<1>10. CASE pc[r] = "save"
  BY <1>10, <1>n, StepKinds
<1>11. QED
  BY <1>1, <1>2, <1>3, <1>4, <1>5, <1>6, <1>7, <1>8, <1>9, <1>10
     DEF Step, SaveSignIn, SaveFailure, SaveUnlock, SaveActivation, SaveCode, SaveEdit,
         Mistakes

\* A copy that is not stale is right.
LEMMA CopiesInvariant == Spec => []CopiesInv
<1>1. Init => CopiesInv  BY DEF Init, CopiesInv, CopyInv
<1>2. ASSUME TypeOK, Numbers, CopiesInv, [Next]_vars
      PROVE  CopiesInv'
  <2>1. ASSUME NEW r \in Requests, Arrive(r)
        PROVE  CopiesInv'
    <3>1. PICK j, ph : Submit(r, j, ph)
      BY <2>1 DEF Arrive, SubmitLogin, SubmitUnlock, SubmitResend, SubmitEdit
    <3>2. /\ UNCHANGED <<user, row, codes, used, stale>>
          /\ pc'[r] = "loadRow"
          /\ \A q \in Requests \ {r} :
               pc'[q] = pc[q] /\ phase'[q] = phase[q] /\ job'[q] = job[q]
      BY <1>2, <3>1 DEF Submit, TypeOK
    <3>3. QED
      BY <1>2, <3>2 DEF CopiesInv, CopyInv, Saves, SavesSignIn, SavesFailure,
         SavesUnlock, SavesSame, SavesCode, SameLock
  <2>2. ASSUME NEW r \in Requests, Step(r)
        PROVE  CopiesInv'
    BY <1>2, <2>2, OtherCopies, OwnCopy DEF CopiesInv
  <2>3. ASSUME NEW r \in Requests, Abort(r)
        PROVE  CopiesInv'
    <3>1. pc'[r] = "idle"  BY <1>2, <2>3 DEF Abort, Finish, End, TypeOK
    <3>2. CopyInv(r)'  BY <3>1 DEF CopyInv
    <3>3. QED  BY <1>2, <2>3, <3>2, OtherCopies DEF CopiesInv
  <2>4. CASE Expire \/ UNCHANGED vars
    BY <1>2, <2>4 DEF Expire, CopiesInv, CopyInv, Saves, SavesSignIn, SavesFailure,
       SavesUnlock, SavesSame, SavesCode, SameLock
  <2>5. QED  BY <1>2, <2>1, <2>2, <2>3, <2>4 DEF Next
<1>3. QED  BY <1>1, <1>2, TypeCorrect, NumbersInvariant, PTL DEF Spec

\* Who changes the tables, and what the new row and codes can be.
LEMMA WhatIsSaved ==
  ASSUME TypeOK, CopiesInv, NEW r \in Requests, Step(r), pc[r] = "save"
  PROVE  UpdateUser(r) /\ Saver(r) /\ (r \in stale \/ Saves(r))
<1>1. UpdateUser(r) /\ pc'[r] # "save"  BY StepKinds
<1>2. r \notin stale => Saves(r)  BY DEF CopiesInv, CopyInv
<1>3. QED  BY <1>1, <1>2 DEF Saver

\* Only a save changes the row.
LEMMA OnlySaversChangeTheRow ==
  ASSUME TypeOK, CopiesInv, [Next]_vars, row' # row
  PROVE  \E r \in Requests : UpdateUser(r) /\ Saver(r) /\ (r \in stale \/ Saves(r))
<1>1. PICK r \in Requests : Step(r)
  <2>1. ASSUME NEW r \in Requests, Arrive(r)
        PROVE  row' = row
    BY <2>1 DEF Arrive, SubmitLogin, SubmitUnlock, SubmitResend, SubmitEdit, Submit
  <2>2. Expire => row' = row  BY DEF Expire
  <2>3. \A r \in Requests : Abort(r) => row' = row  BY DEF Abort
  <2>4. QED  BY <2>1, <2>2, <2>3 DEF Next
<1>2. pc[r] = "save"  BY <1>1, StepKinds
<1>3. QED  BY <1>1, <1>2, WhatIsSaved

\* Among requests that overlap in any way the lock is lifted by an unlock with a
\* stored code, or by a save of a copy from before the lock.
THEOREM OnlyCodesUnlock == Spec => LockLiftedOnlyByCode
<1>1. ASSUME TypeOK, CopiesInv, [Next]_vars, row.locked, ~row'.locked
      PROVE  \E r \in Requests :
               /\ Saver(r)
               /\ \/ r \in stale
                  \/ job[r].cmd = "unlock" /\ job[r].code \in codes
  <2>1. PICK r \in Requests : UpdateUser(r) /\ Saver(r) /\ (r \in stale \/ Saves(r))
    BY <1>1, OnlySaversChangeTheRow
  <2>2. ~user[r].row.locked  BY <1>1, <2>1 DEF UpdateUser
  <2>3. Saves(r) => job[r].cmd = "unlock" /\ job[r].code \in codes
    BY <1>1, <2>2 DEF Saves, SavesSignIn, SavesFailure, SavesUnlock, SavesSame,
       SavesCode, SameLock
  <2>4. QED  BY <2>1, <2>3
<1>2. TypeOK /\ CopiesInv /\ [Next]_vars
        => [(row.locked /\ ~row'.locked)
              => \E r \in Requests :
                   /\ Saver(r)
                   /\ \/ r \in stale
                      \/ job[r].cmd = "unlock" /\ job[r].code \in codes]_vars
  BY <1>1
<1>3. QED
  BY <1>2, TypeCorrect, CopiesInvariant, PTL DEF Spec, LockLiftedOnlyByCode

\* Among requests that overlap in any way, the handler of AccountLockedEvent
\* included, an account becomes locked by a wrong password or by a save of a copy
\* from before an unlock.
THEOREM OnlyMistakesLock == Spec => LockedOnlyByWrongPassword
<1>1. ASSUME TypeOK, CopiesInv, [Next]_vars, ~row.locked, row'.locked
      PROVE  \E r \in Requests :
               /\ Saver(r)
               /\ \/ r \in stale
                  \/ phase[r] = "main" /\ job[r].cmd = "login" /\ ~job[r].passwordOk
  <2>1. PICK r \in Requests : UpdateUser(r) /\ Saver(r) /\ (r \in stale \/ Saves(r))
    BY <1>1, OnlySaversChangeTheRow
  <2>2. user[r].row.locked  BY <1>1, <2>1 DEF UpdateUser
  <2>3. Saves(r) => phase[r] = "main" /\ job[r].cmd = "login" /\ ~job[r].passwordOk
    BY <1>1, <2>2 DEF Saves, SavesSignIn, SavesFailure, SavesUnlock, SavesSame,
       SavesCode, SameLock
  <2>4. QED  BY <2>1, <2>3
<1>2. TypeOK /\ CopiesInv /\ [Next]_vars
        => [(~row.locked /\ row'.locked)
              => \E r \in Requests :
                   /\ Saver(r)
                   /\ \/ r \in stale
                      \/ phase[r] = "main" /\ job[r].cmd = "login" /\ ~job[r].passwordOk
             ]_vars
  BY <1>1
<1>3. QED
  BY <1>2, TypeCorrect, CopiesInvariant, PTL DEF Spec, LockedOnlyByWrongPassword

----------------------------------------------------------------------------
(* What holds until an update is lost.  A step that saves is then the step of a *)
(* request that is not stale, and OwnCopy says what it changes.              *)

\* What a step does to the record of failures and of used codes.
LEMMA StepTally ==
  ASSUME TypeOK, NEW r \in Requests, Step(r)
  PROVE  /\ \/ UNCHANGED <<failures, uncounted>>
            \/ CountFailure(r) /\ UNCHANGED uncounted
            \/ (SaveSignIn(r) \/ SaveUnlock(r)) /\ failures' = 0
         /\ used' = used \/ SaveUnlock(r)
         /\ \/ stranded' = stranded
            \/ SaveCode(r)
            \/ FailWithoutUrl(r) /\ Strands(r)
<1>1. CASE LoadRow(r) \/ LoadCodes(r)  BY <1>1 DEF LoadRow, LoadCodes
<1>2. CASE \/ RejectLocked(r) \/ CountFailure(r) \/ AcceptPassword(r)
           \/ SaveSignIn(r) \/ SaveFailure(r)
  BY <1>2 DEF RejectLocked, CountFailure, AcceptPassword, SaveSignIn, SaveFailure
<1>3. CASE \/ AlreadyUnlocked(r) \/ RejectUnlock(r) \/ AcceptUnlock(r) \/ SaveUnlock(r)
           \/ AlreadyActive(r) \/ Activate(r) \/ SaveActivation(r)
  BY <1>3 DEF AlreadyUnlocked, RejectUnlock, AcceptUnlock, SaveUnlock, AlreadyActive,
     Activate, SaveActivation
<1>4. CASE \/ GenerateCode(r) \/ FailWithoutUrl(r) \/ KeepCode(r) \/ SaveCode(r)
           \/ SendMail(r) \/ LoseMail(r)
  BY <1>4 DEF GenerateCode, FailWithoutUrl, KeepCode, SaveCode, SendMail, LoseMail
<1>5. CASE Edit(r) \/ SaveEdit(r) \/ SignInAfterReset(r)
  BY <1>5 DEF Edit, SaveEdit, SignInAfterReset
<1>6. QED  BY <1>1, <1>2, <1>3, <1>4, <1>5 DEF Step

\* Only a step of a handler, or the end of a request, touches tables and records.
LEMMA QuietSteps ==
  ASSUME TypeOK,
         (\E r \in Requests : Arrive(r)) \/ Expire \/ UNCHANGED vars
  PROVE  /\ UNCHANGED <<row, codes, stale, overwritten, tally>>
         /\ Mistakes' = Mistakes
<1>1. ASSUME NEW r \in Requests, Arrive(r)
      PROVE  /\ UNCHANGED <<row, codes, stale, overwritten, tally>>
             /\ Mistakes' = Mistakes
  <2>1. PICK j, ph : Submit(r, j, ph)
    BY <1>1 DEF Arrive, SubmitLogin, SubmitUnlock, SubmitResend, SubmitEdit
  <2>2. /\ pc[r] = "idle" /\ pc'[r] = "loadRow"
        /\ \A q \in Requests \ {r} :
             pc'[q] = pc[q] /\ phase'[q] = phase[q] /\ job'[q] = job[q]
    BY <2>1 DEF Submit, TypeOK
  <2>3. Mistakes' = Mistakes  BY <2>2 DEF Mistakes
  <2>4. QED  BY <2>1, <2>3 DEF Submit
<1>2. CASE Expire \/ UNCHANGED vars  BY <1>2 DEF Expire, Mistakes
<1>3. QED  BY <1>1, <1>2

\* A used code is on record only after a lost update.
LEMMA UsedAreGoneStep ==
  ASSUME TypeOK, CopiesInv, UsedCodesAreGone, [Next]_vars
  PROVE  UsedCodesAreGone'
<1>1. ASSUME NEW r \in Requests, Step(r)
      PROVE  UsedCodesAreGone'
  <2>1. CASE pc[r] # "save"
    <3>1. UNCHANGED <<codes, used, overwritten>>  BY <1>1, <2>1, StepKinds
    <3>2. QED  BY <3>1 DEF UsedCodesAreGone
  <2>2. CASE pc[r] = "save" /\ ~overwritten'
    <3>1. UpdateUser(r) /\ (r \in stale \/ Saves(r))  BY <1>1, <2>2, WhatIsSaved
    <3>2. /\ codes' = user[r].codes /\ Saves(r) /\ ~overwritten
      BY <2>2, <3>1, StepKinds DEF UpdateUser, TypeOK
    <3>3. CASE SaveUnlock(r)
      <4>1. SavesUnlock(r)
        BY <3>2, <3>3 DEF SaveUnlock, Saves, SavesSignIn, SavesFailure, SavesSame,
           SavesCode
      <4>2. QED  BY <3>2, <4>1 DEF SavesUnlock, UsedCodesAreGone
    <3>4. CASE used' = used
      BY <3>2, <3>4 DEF UsedCodesAreGone, Saves, SavesSignIn, SavesFailure,
         SavesUnlock, SavesSame, SavesCode
    <3>5. QED  BY <1>1, <3>3, <3>4, StepTally
  <2>3. QED  BY <2>1, <2>2 DEF UsedCodesAreGone
<1>2. ASSUME NEW r \in Requests, Abort(r)
      PROVE  UsedCodesAreGone'
  BY <1>2 DEF Abort, UsedCodesAreGone
<1>3. CASE (\E r \in Requests : Arrive(r)) \/ Expire \/ UNCHANGED vars
  BY <1>3, QuietSteps DEF UsedCodesAreGone
<1>4. QED  BY <1>1, <1>2, <1>3 DEF Next

\* An unlock code works once, unless a save is overwritten by an older copy.
THEOREM CodesWorkOnce == Spec => []UsedCodesAreGone
<1>1. Init => UsedCodesAreGone  BY DEF Init, UsedCodesAreGone
<1>2. QED  BY <1>1, UsedAreGoneStep, TypeCorrect, CopiesInvariant, PTL DEF Spec

----------------------------------------------------------------------------
(* The counter and the wrong passwords.                                    *)

\* Whom a step makes a request with an unsaved failure.
LEMMA StepMistakes ==
  ASSUME TypeOK, NEW r \in Requests, Step(r)
  PROVE  /\ CountFailure(r) => Mistakes' = Mistakes \cup {r} /\ r \notin Mistakes
         /\ ~CountFailure(r) => Mistakes' = Mistakes \ {r}
         /\ pc[r] = "save" => Mistakes' \subseteq stale'
<1>o. ASSUME NEW q \in Requests \ {r}
      PROVE  q \in Mistakes' <=> q \in Mistakes
  BY OthersUnchanged DEF Mistakes
<1>1. ASSUME CountFailure(r)
      PROVE  r \in Mistakes' /\ r \notin Mistakes /\ pc[r] # "save"
  <2>1. pc'[r] = "save" /\ UNCHANGED <<job, phase>>
    BY <1>1, GotoOne DEF CountFailure
  <2>2. QED  BY <1>1, <2>1 DEF CountFailure, At, WrongPassword, Mistakes
<1>2. ASSUME ~CountFailure(r)
      PROVE  r \notin Mistakes'
  <2>1. CASE pc[r] = "save"  BY <2>1, StepKinds DEF Mistakes
  <2>2. CASE LoadRow(r) \/ LoadCodes(r)
    BY <2>2, GotoOne DEF LoadRow, LoadCodes, Mistakes
  <2>3. CASE AcceptPassword(r) \/ AcceptUnlock(r) \/ Activate(r) \/ GenerateCode(r)
             \/ Edit(r)
    BY <2>3, GotoOne, EndsEmpty
       DEF AcceptPassword, RightPassword, AcceptUnlock, Activate, GenerateCode, AddCode,
           Edit, At, LoginUser, Mistakes
  <2>4. CASE \/ RejectLocked(r) \/ AlreadyActive(r) \/ AlreadyUnlocked(r)
             \/ RejectUnlock(r) \/ FailWithoutUrl(r) \/ KeepCode(r)
    BY <2>4, EndsEmpty, GotoOne
       DEF RejectLocked, AlreadyActive, AlreadyUnlocked, RejectUnlock, FailWithoutUrl,
           KeepCode, AfterEvent, Finish, Mistakes
  <2>5. CASE SendMail(r) \/ LoseMail(r) \/ SignInAfterReset(r)
    BY <2>5, EndsEmpty
       DEF SendMail, LoseMail, SignInAfterReset, AfterEvent, Finish, LoginUser, Mistakes
  <2>6. QED
    BY <1>2, <2>1, <2>2, <2>3, <2>4, <2>5
       DEF Step, SaveSignIn, SaveFailure, SaveUnlock, SaveActivation, SaveCode,
           SaveEdit, Mistakes
<1>3. Mistakes \subseteq Requests /\ Mistakes' \subseteq Requests  BY DEF Mistakes
<1>4. ASSUME pc[r] = "save"
      PROVE  Mistakes' \subseteq stale'
  <2>1. UpdateUser(r) /\ ~CountFailure(r)
    BY <1>4, StepKinds DEF CountFailure, At
  <2>2. \A q \in Mistakes' : q \in Requests \ {r} /\ q \in Mistakes
    BY <1>2, <1>3, <1>o, <2>1
  <2>3. QED  BY <2>1, <2>2 DEF UpdateUser, Mistakes, Holding
<1>5. QED  BY <1>o, <1>1, <1>2, <1>3, <1>4

\* Every failure that a fresh copy carries is one that the record has counted.
CountedInv ==
  ~overwritten =>
    /\ row.attempts <= failures
    /\ \A q \in Mistakes \ stale : row.attempts + 1 <= failures

\* If nothing went uncounted the record has no other failures than these.
ExactInv ==
  (~overwritten /\ ~uncounted) =>
    /\ Mistakes = {} => row.attempts = failures
    /\ \A q \in Requests \ stale : Mistakes = {q} => failures = row.attempts + 1

\* What a step that is not a save does to the counter and the record.
LEMMA FreshFailure ==
  ASSUME TypeOK, CopiesInv, WellFormed(row), NEW r \in Requests, Step(r),
         CountFailure(r)
  PROVE  /\ r \notin stale => row.attempts < Allowed
         /\ failures' = (IF failures < Allowed THEN failures + 1 ELSE failures)
         /\ UNCHANGED <<row, overwritten, uncounted, stale>>
<1>1. /\ pc[r] = "decide" /\ ~user[r].row.locked
      /\ failures' = (IF failures < Allowed THEN failures + 1 ELSE failures)
      /\ UNCHANGED <<row, overwritten, uncounted, stale>>
  BY DEF CountFailure, At, WrongPassword
<1>2. r \notin stale => ~row.locked  BY <1>1 DEF CopiesInv, CopyInv
<1>3. row.attempts \in Nat /\ Allowed \in Nat  BY Typed
<1>4. QED  BY <1>1, <1>2, <1>3 DEF WellFormed

\* What a save of a fresh copy does to the counter and the record.
LEMMA FreshSave ==
  ASSUME TypeOK, CopiesInv, NEW r \in Requests, Step(r), pc[r] = "save", ~overwritten'
  PROVE  /\ ~overwritten /\ r \notin stale
         /\ \/ row'.attempts = 0 /\ failures' = 0
            \/ /\ row'.attempts = row.attempts + 1 /\ r \in Mistakes
               /\ UNCHANGED <<failures, uncounted>>
            \/ /\ row'.attempts = row.attempts /\ r \notin Mistakes
               /\ UNCHANGED <<failures, uncounted>>
<1>1. UpdateUser(r) /\ (r \in stale \/ Saves(r))  BY WhatIsSaved
<1>2. row' = user[r].row /\ ~overwritten /\ r \notin stale /\ Saves(r)
  BY <1>1 DEF UpdateUser, TypeOK
<1>3. ~CountFailure(r)  BY DEF CountFailure, At
<1>4. CASE SaveSignIn(r) \/ SaveUnlock(r)
  <2>1. SavesSignIn(r) \/ SavesUnlock(r)
    BY <1>2, <1>4 DEF SaveSignIn, SaveUnlock, Saves, SavesSignIn, SavesFailure,
       SavesUnlock, SavesSame, SavesCode
  <2>2. failures' = 0  BY <1>4 DEF SaveSignIn, SaveUnlock
  <2>3. QED  BY <1>2, <2>1, <2>2 DEF SavesSignIn, SavesUnlock
<1>5. CASE ~(SaveSignIn(r) \/ SaveUnlock(r))
  <2>1. UNCHANGED <<failures, uncounted>>  BY <1>3, <1>5, StepTally
  <2>2. CASE SaveFailure(r)
    <3>1. SavesFailure(r)
      BY <1>2, <2>2 DEF SaveFailure, Mistakes, Saves, SavesSignIn, SavesFailure,
         SavesUnlock, SavesSame, SavesCode
    <3>2. QED  BY <1>2, <2>1, <2>2, <3>1 DEF SavesFailure, SaveFailure
  <2>3. CASE SaveActivation(r) \/ SaveCode(r) \/ SaveEdit(r)
    <3>1. SavesSame(r) \/ SavesCode(r)
      BY <1>2, <2>3 DEF SaveActivation, SaveCode, SaveEdit, Saves, SavesSignIn,
         SavesFailure, SavesUnlock, SavesSame, SavesCode
    <3>2. r \notin Mistakes
      BY <2>3 DEF SaveActivation, SaveCode, SaveEdit, Mistakes
    <3>3. QED  BY <1>2, <2>1, <3>1, <3>2 DEF SavesSame, SavesCode, SameLock
  <2>4. QED
    BY <1>5, <2>2, <2>3
       DEF Step, At, LoadRow, LoadCodes, RejectLocked, CountFailure, AcceptPassword,
           AlreadyUnlocked, RejectUnlock, AcceptUnlock, AlreadyActive, Activate,
           GenerateCode, FailWithoutUrl, KeepCode, SendMail, LoseMail, Edit,
           SignInAfterReset
<1>6. QED  BY <1>4, <1>5

\* The record keeps up with the counter.
LEMMA CountedStep ==
  ASSUME TypeOK, CopiesInv, WellFormed(row), CountedInv, [Next]_vars
  PROVE  CountedInv'
<1>t. row.attempts \in Nat /\ failures \in Nat /\ Allowed \in Nat
  BY AllowedAssumption DEF TypeOK, Row
<1>1. ASSUME NEW r \in Requests, Step(r), ~overwritten'
      PROVE  CountedInv'
  <2>1. CASE pc[r] = "save"
    <3>1. Mistakes' \ stale' = {}  BY <1>1, <2>1, StepMistakes
    <3>2. row'.attempts <= failures'
      BY <1>1, <1>t, <2>1, FreshSave DEF CountedInv
    <3>3. QED  BY <3>1, <3>2 DEF CountedInv
  <2>2. CASE CountFailure(r)
    <3>1. /\ r \notin stale => row.attempts < Allowed
          /\ failures' = (IF failures < Allowed THEN failures + 1 ELSE failures)
          /\ UNCHANGED <<row, overwritten, stale>>
          /\ Mistakes' = Mistakes \cup {r}
      BY <1>1, <2>2, FreshFailure, StepMistakes
    <3>2. ~overwritten /\ row.attempts <= failures /\ failures <= failures'
      BY <1>1, <1>t, <3>1 DEF CountedInv
    <3>3. r \notin stale => row.attempts + 1 <= failures'  BY <1>t, <3>1, <3>2
    <3>4. \A q \in Mistakes \ stale : row.attempts + 1 <= failures'
      BY <1>t, <3>1, <3>2 DEF CountedInv
    <3>5. row'.attempts <= failures'  BY <1>t, <3>1, <3>2
    <3>6. QED  BY <3>1, <3>3, <3>4, <3>5 DEF CountedInv
  <2>3. CASE pc[r] # "save" /\ ~CountFailure(r)
    <3>1. /\ UNCHANGED <<row, overwritten>> /\ stale \ {r} \subseteq stale'
          /\ Mistakes' = Mistakes \ {r}
      BY <1>1, <2>3, StepKinds, StepMistakes
    <3>2. failures' = failures
      BY <1>1, <2>3, StepTally DEF SaveSignIn, SaveUnlock
    <3>3. QED  BY <3>1, <3>2 DEF CountedInv
  <2>4. QED  BY <2>1, <2>2, <2>3
<1>2. ASSUME NEW r \in Requests, Abort(r)
      PROVE  CountedInv'
  <2>1. UNCHANGED <<row, overwritten, stale, failures>>  BY <1>2 DEF Abort
  <2>2. pc'[r] = "idle"  BY <1>2 DEF Abort, Finish, End, TypeOK
  <2>3. \A q \in Mistakes' : q \in Requests \ {r} /\ q \in Mistakes
    BY <1>2, <2>2, OthersUnchanged DEF Mistakes
  <2>4. QED  BY <2>1, <2>3 DEF CountedInv
<1>3. CASE (\E r \in Requests : Arrive(r)) \/ Expire \/ UNCHANGED vars
  BY <1>3, QuietSteps DEF CountedInv
<1>4. overwritten' => CountedInv'  BY DEF CountedInv
<1>5. QED  BY <1>1, <1>2, <1>3, <1>4 DEF Next

\* As long as nothing goes uncounted the two stay equal.
LEMMA ExactStep ==
  ASSUME TypeOK, CopiesInv, WellFormed(row), ExactInv, [Next]_vars
  PROVE  ExactInv'
<1>t. row.attempts \in Nat /\ failures \in Nat /\ Allowed \in Nat
  BY AllowedAssumption DEF TypeOK, Row
<1>m. Mistakes \subseteq Requests /\ Mistakes' \subseteq Requests  BY DEF Mistakes
<1>1. ASSUME NEW r \in Requests, Step(r), ~overwritten', ~uncounted'
      PROVE  ExactInv'
  <2>1. CASE pc[r] = "save"
    <3>1. /\ Mistakes' = Mistakes \ {r}
          /\ \A q \in Requests \ stale' : Mistakes' # {q}
      BY <1>1, <2>1, StepMistakes DEF CountFailure, At
    <3>2. ~overwritten /\ r \notin stale  BY <1>1, <2>1, FreshSave
    <3>3. ASSUME Mistakes' = {}
          PROVE  row'.attempts = failures'
      <4>1. Mistakes = {} \/ Mistakes = {r}  BY <3>1, <3>3
      <4>2. CASE row'.attempts = 0 /\ failures' = 0  BY <4>2
      <4>3. CASE /\ row'.attempts = row.attempts + 1 /\ r \in Mistakes
                 /\ UNCHANGED <<failures, uncounted>>
        <5>1. Mistakes = {r}  BY <4>1, <4>3
        <5>2. failures = row.attempts + 1  BY <1>1, <3>2, <4>3, <5>1 DEF ExactInv
        <5>3. QED  BY <4>3, <5>2
      <4>4. CASE /\ row'.attempts = row.attempts /\ r \notin Mistakes
                 /\ UNCHANGED <<failures, uncounted>>
        <5>1. Mistakes = {}  BY <4>1, <4>4
        <5>2. failures = row.attempts  BY <1>1, <3>2, <4>4, <5>1 DEF ExactInv
        <5>3. QED  BY <4>4, <5>2
      <4>5. QED  BY <1>1, <2>1, <4>2, <4>3, <4>4, FreshSave
    <3>4. QED  BY <3>1, <3>3 DEF ExactInv
  <2>2. CASE CountFailure(r)
    <3>1. /\ r \notin stale => row.attempts < Allowed
          /\ failures' = (IF failures < Allowed THEN failures + 1 ELSE failures)
          /\ UNCHANGED <<row, overwritten, uncounted, stale>>
          /\ Mistakes' = Mistakes \cup {r} /\ r \notin Mistakes
      BY <1>1, <2>2, FreshFailure, StepMistakes
    <3>2. ASSUME NEW q \in Requests \ stale', Mistakes' = {q}
          PROVE  failures' = row'.attempts + 1
      <4>1. q = r /\ Mistakes = {}  BY <3>1, <3>2
      <4>2. row.attempts = failures /\ failures < Allowed
        BY <1>1, <3>1, <3>2, <4>1 DEF ExactInv
      <4>3. QED  BY <1>t, <3>1, <4>2
    <3>3. Mistakes' # {}  BY <3>1
    <3>4. QED  BY <3>2, <3>3 DEF ExactInv
  <2>3. CASE pc[r] # "save" /\ ~CountFailure(r)
    <3>1. /\ UNCHANGED <<row, overwritten>> /\ stale \ {r} \subseteq stale'
          /\ Mistakes' = Mistakes \ {r}
      BY <1>1, <2>3, StepKinds, StepMistakes
    <3>2. r \notin Mistakes
      <4>1. r \in Mistakes => pc[r] = "save"  BY DEF Mistakes
      <4>2. QED  BY <2>3, <4>1
    <3>3. Mistakes' = Mistakes  BY <3>1, <3>2
    <3>4. UNCHANGED <<failures, uncounted>>
      BY <1>1, <2>3, StepTally DEF SaveSignIn, SaveUnlock
    <3>5. \A q \in Requests \ stale' : Mistakes = {q} => q \in Requests \ stale
      BY <3>1, <3>2
    <3>6. QED  BY <1>1, <3>1, <3>3, <3>4, <3>5 DEF ExactInv
  <2>4. QED  BY <2>1, <2>2, <2>3
<1>2. ASSUME NEW r \in Requests, Abort(r), ~uncounted'
      PROVE  ExactInv'
  <2>1. /\ UNCHANGED <<row, overwritten, stale, failures>>
        /\ ~uncounted /\ r \notin Mistakes
    BY <1>2 DEF Abort, TypeOK
  <2>2. pc'[r] = "idle"  BY <1>2 DEF Abort, Finish, End, TypeOK
  <2>3. \A q \in Requests \ {r} : q \in Mistakes' <=> q \in Mistakes
    BY <1>2, OthersUnchanged DEF Mistakes
  <2>4. r \notin Mistakes'  BY <2>2 DEF Mistakes
  <2>5. Mistakes' = Mistakes  BY <1>m, <2>1, <2>3, <2>4
  <2>6. QED  BY <2>1, <2>5 DEF ExactInv
<1>3. CASE (\E r \in Requests : Arrive(r)) \/ Expire \/ UNCHANGED vars
  BY <1>3, QuietSteps DEF ExactInv
<1>4. overwritten' \/ uncounted' => ExactInv'  BY DEF ExactInv
<1>5. QED  BY <1>1, <1>2, <1>3, <1>4 DEF Next

\* Until an update is lost the stored counter never shows more mistakes than were
\* made, although requests overlap and fail half way.
THEOREM NothingOvercounted == Spec => []NeverOvercounts
<1>1. Init => CountedInv  BY DEF Init, CountedInv, Mistakes
<1>2. RowsWellFormed => WellFormed(row)  BY DEF RowsWellFormed
<1>3. CountedInv => NeverOvercounts  BY DEF CountedInv, NeverOvercounts
<1>4. QED
  BY <1>1, <1>2, <1>3, CountedStep, TypeCorrect, CopiesInvariant, RowsAgree, PTL
     DEF Spec

\* A wrong password goes uncounted only by a lost update or by the end of the request
\* that found it.
THEOREM CounterExact == Spec => []CounterIsExact
<1>1. Init => ExactInv  BY DEF Init, ExactInv, Mistakes
<1>2. RowsWellFormed => WellFormed(row)  BY DEF RowsWellFormed
<1>3. ExactInv => CounterIsExact  BY DEF ExactInv, CounterIsExact
<1>4. QED
  BY <1>1, <1>2, <1>3, ExactStep, TypeCorrect, CopiesInvariant, RowsAgree, PTL
     DEF Spec

----------------------------------------------------------------------------
(* A lock and its code.                                                    *)

\* A request that stores a code if it is not stopped, whatever it finds.
Storing(r) ==
  /\ phase[r] = "event"
  /\ \/ pc[r] \in {"loadRow", "loadCodes", "save"}
     \/ pc[r] = "decide" /\ user[r].codes = {}

\* A code is on its way, and the object a code was put into has one.
CodeComes ==
  /\ (~overwritten /\ ~stranded /\ row.locked /\ codes = {})
       => \E r \in Requests : Storing(r)
  /\ \A r \in Requests : pc[r] = "save" /\ phase[r] = "event" => user[r].codes # {}

\* A step of a request that is storing a code leaves it storing, stores the code,
\* or goes on record as having left the account without one.
LEMMA StoringGoesOn ==
  ASSUME TypeOK, CopiesInv, CodeComes, NEW r \in Requests, Step(r), Storing(r),
         codes = {}, codes' = {}, row.locked, ~stranded'
  PROVE  Storing(r)'
<1>t. user \in [Requests -> User] /\ user[r] \in User  BY Typed
<1>1. phase[r] = "event"  BY DEF Storing
<1>2. CASE LoadRow(r)
  <2>1. pc'[r] = "loadCodes" /\ phase' = phase  BY <1>2, GotoOne DEF LoadRow
  <2>2. QED  BY <1>1, <2>1 DEF Storing
<1>3. CASE LoadCodes(r)
  <2>1. pc'[r] = "decide" /\ phase' = phase  BY <1>3, GotoOne DEF LoadCodes
  <2>2. user'[r].codes = {}  BY <1>3, <1>t DEF LoadCodes, User
  <2>3. QED  BY <1>1, <2>1, <2>2 DEF Storing
<1>4. CASE GenerateCode(r)
  <2>1. pc'[r] = "save" /\ phase' = phase  BY <1>4, GotoOne DEF GenerateCode, AddCode
  <2>2. QED  BY <1>1, <2>1 DEF Storing
<1>5. ~FailWithoutUrl(r)  BY <1>1 DEF FailWithoutUrl, Strands
<1>6. ~KeepCode(r)  BY DEF KeepCode, At, Storing, Live
<1>7. ~SaveCode(r)  BY DEF SaveCode, UpdateUser, CodeComes
<1>8. QED
  BY <1>1, <1>2, <1>3, <1>4, <1>5, <1>6, <1>7
     DEF Step, At, RejectLocked, CountFailure, AcceptPassword, SaveSignIn, SaveFailure,
         Mistakes, AlreadyUnlocked, RejectUnlock, AcceptUnlock, SaveUnlock,
         AlreadyActive, Activate, SaveActivation, SendMail, LoseMail, Edit, SaveEdit,
         SignInAfterReset, Storing

\* The object that is about to be saved by the event handler has a code in it.
LEMMA StepHasCode ==
  ASSUME TypeOK, CodeComes, NEW r \in Requests, Step(r),
         pc'[r] = "save", phase'[r] = "event"
  PROVE  user'[r].codes # {}
<1>t. user \in [Requests -> User] /\ user[r] \in User  BY Typed
<1>1. CASE GenerateCode(r)
  BY <1>1, <1>t DEF GenerateCode, AddCode, User
<1>2. CASE CountFailure(r) \/ AcceptPassword(r) \/ AcceptUnlock(r) \/ Activate(r) \/ Edit(r)
  BY <1>2, GotoOne, EndsEmpty
     DEF CountFailure, AcceptPassword, LoginUser, AcceptUnlock, Activate, Edit, At
<1>3. CASE LoadRow(r) \/ LoadCodes(r)  BY <1>3, GotoOne DEF LoadRow, LoadCodes
<1>4. CASE pc[r] = "save"  BY <1>4, StepKinds
<1>5. CASE \/ RejectLocked(r) \/ AlreadyActive(r) \/ AlreadyUnlocked(r)
           \/ RejectUnlock(r) \/ FailWithoutUrl(r) \/ KeepCode(r)
  BY <1>5, EndsEmpty, GotoOne
     DEF RejectLocked, AlreadyActive, AlreadyUnlocked, RejectUnlock, FailWithoutUrl,
         KeepCode, AfterEvent, Finish
<1>6. CASE SendMail(r) \/ LoseMail(r) \/ SignInAfterReset(r)
  BY <1>6, EndsEmpty DEF SendMail, LoseMail, SignInAfterReset, AfterEvent, Finish,
     LoginUser
<1>7. QED
  BY <1>1, <1>2, <1>3, <1>4, <1>5, <1>6
     DEF Step, SaveSignIn, SaveFailure, SaveUnlock, SaveActivation, SaveCode, SaveEdit,
         Mistakes

\* Somebody is storing a code after every step that leaves the lock without one.
LEMMA StepCodeComes ==
  ASSUME TypeOK, CopiesInv, CodeComes, NEW r \in Requests, Step(r),
         ~overwritten', ~stranded', row'.locked, codes' = {}
  PROVE  \E q \in Requests : Storing(q)'
<1>o. ASSUME NEW q \in Requests, Storing(q), row.locked, codes = {}
      PROVE  Storing(q)'
  <2>1. CASE q = r  BY <1>o, <2>1, StoringGoesOn
  <2>2. CASE q # r
    <3>1. /\ pc'[q] = pc[q] /\ phase'[q] = phase[q] /\ user'[q] = user[q]
      BY <2>2, OthersUnchanged
    <3>2. QED  BY <1>o, <3>1 DEF Storing
  <2>3. QED  BY <2>1, <2>2
<1>c. ~SaveCode(r)  BY DEF SaveCode, UpdateUser, CodeComes
<1>s. ~stranded
  BY <1>c, StepTally DEF Strands, TypeOK
<1>1. CASE pc[r] # "save"
  <2>1. UNCHANGED <<row, codes, overwritten>>  BY <1>1, StepKinds
  <2>2. QED  BY <1>o, <1>s, <2>1 DEF CodeComes
<1>2. CASE pc[r] = "save"
  <2>1. UpdateUser(r) /\ (r \in stale \/ Saves(r))  BY <1>2, WhatIsSaved
  <2>2. row' = user[r].row /\ codes' = user[r].codes /\ ~overwritten /\ Saves(r)
    BY <2>1 DEF UpdateUser, TypeOK
  <2>3. CASE SavesFailure(r)
    <3>1. SaveFailure(r)
      BY <1>2, <2>3
         DEF SavesFailure, Step, At, LoadRow, LoadCodes, RejectLocked, CountFailure,
             AcceptPassword, SaveSignIn, SaveFailure, Mistakes, AlreadyUnlocked,
             RejectUnlock, AcceptUnlock, SaveUnlock, AlreadyActive, Activate,
             SaveActivation, GenerateCode, FailWithoutUrl, KeepCode, SaveCode, SendMail,
             LoseMail, Edit, SaveEdit, SignInAfterReset
    <3>2. Enter(r, "event")  BY <2>2, <3>1 DEF SaveFailure, AfterFailure
    <3>3. pc'[r] = "loadRow" /\ phase'[r] = "event"  BY <3>2 DEF Enter, TypeOK
    <3>4. QED  BY <3>3 DEF Storing
  <2>4. CASE ~SavesFailure(r)
    <3>1. row.locked /\ codes = {}
      BY <2>2, <2>4 DEF Saves, SavesSignIn, SavesUnlock, SavesSame, SavesCode, SameLock
    <3>2. QED  BY <1>o, <1>s, <2>2, <3>1 DEF CodeComes
  <2>5. QED  BY <2>3, <2>4
<1>3. QED  BY <1>1, <1>2

\* Every lock has its code, or one on its way, or the record says why not.
LEMMA CodeComesStep ==
  ASSUME TypeOK, CopiesInv, CodeComes, [Next]_vars
  PROVE  CodeComes'
<1>1. ASSUME NEW r \in Requests, Step(r)
      PROVE  CodeComes'
  <2>1. ASSUME NEW q \in Requests, (pc[q] = "save" /\ phase[q] = "event")'
        PROVE  user'[q].codes # {}
    <3>1. CASE q = r  BY <1>1, <2>1, <3>1, StepHasCode
    <3>2. CASE q # r  BY <1>1, <2>1, <3>2, OthersUnchanged DEF CodeComes
    <3>3. QED  BY <3>1, <3>2
  <2>2. QED  BY <1>1, <2>1, StepCodeComes DEF CodeComes
<1>2. ASSUME NEW r \in Requests, Arrive(r)
      PROVE  CodeComes'
  <2>1. PICK j, ph : Submit(r, j, ph)
    BY <1>2 DEF Arrive, SubmitLogin, SubmitUnlock, SubmitResend, SubmitEdit
  <2>2. /\ UNCHANGED <<user, row, codes, overwritten, stranded>>
        /\ pc[r] = "idle" /\ pc'[r] = "loadRow"
        /\ \A q \in Requests \ {r} : pc'[q] = pc[q] /\ phase'[q] = phase[q]
    BY <2>1 DEF Submit, TypeOK
  <2>3. \A q \in Requests : Storing(q) => Storing(q)'  BY <2>2 DEF Storing
  <2>4. QED  BY <2>2, <2>3 DEF CodeComes
<1>3. ASSUME NEW r \in Requests, Abort(r)
      PROVE  CodeComes'
  <2>1. /\ UNCHANGED <<row, codes, overwritten>> /\ Strands(r) /\ pc'[r] = "idle"
    BY <1>3 DEF Abort, Finish, End, TypeOK
  <2>2. \A q \in Requests \ {r} :
          pc'[q] = pc[q] /\ phase'[q] = phase[q] /\ user'[q] = user[q]
    BY <1>3, OthersUnchanged
  <2>3. \A q \in Requests \ {r} : Storing(q) => Storing(q)'  BY <2>2 DEF Storing
  <2>4. (~stranded' /\ row.locked /\ codes = {}) => ~Storing(r) /\ ~stranded
    BY <2>1 DEF Strands, Storing, TypeOK
  <2>5. QED  BY <2>1, <2>2, <2>3, <2>4 DEF CodeComes
<1>4. CASE Expire \/ UNCHANGED vars
  BY <1>4 DEF Expire, CodeComes, Storing
<1>5. QED  BY <1>1, <1>2, <1>3, <1>4 DEF Next

\* Until an update is lost a locked account has a code on record or a request about
\* to store one, unless the request that was to store it has ended before.
THEOREM LockedHasCode == Spec => []LockedAccountHasCode
<1>1. Init => CodeComes  BY DEF Init, CodeComes
<1>2. CodeComes => LockedAccountHasCode
  BY DEF CodeComes, Storing, LockedAccountHasCode, AboutToStore
<1>3. QED  BY <1>1, <1>2, CodeComesStep, TypeCorrect, CopiesInvariant, PTL DEF Spec

=============================================================================
