------------------------- MODULE RegistrationProofs -------------------------
(***************************************************************************)
(* Proofs about Registration, for every set of requests and e-mail         *)
(* addresses, every bound and every combination of commands and faults.    *)
(***************************************************************************)
EXTENDS Registration, TLAPS

USE DEF table, numbers, control, post, jobs, copies, history, vars

----------------------------------------------------------------------------
(* Type correctness.  It needs one fact about control: a handler that has    *)
(* got past its look-up has a user in memory wherever it uses one.           *)

HasUser ==
  \A r \in Requests :
    pc[r] \in {"loadCodes", "loadHistory", "create", "save", "mail"}
      => user[r].id \in Ids

TypeInv == TypeOK /\ HasUser

\* The control part of both, for the operators every action ends with.
ControlOK ==
  /\ job \in [Requests -> Job]
  /\ pc \in [Requests -> {"idle", "loadRow", "loadCodes", "loadHistory", "decide",
                          "create", "save", "signIn", "mail"}]
  /\ user \in [Requests -> User]
  /\ HasUser

\* Types of everything but the control state.
DataOK ==
  /\ users \subseteq Ids
  /\ email \in [Ids -> Emails \cup {Nobody}]
  /\ active \in [Ids -> BOOLEAN]
  /\ codes \in [Ids -> SUBSET Nat]
  /\ lastId \in 0..MaxUsers
  /\ lastCode \in Nat
  /\ expired \in Nat
  /\ tasks \subseteq Message
  /\ mailed \subseteq Message
  /\ todo \subseteq Ids
  /\ deleted \subseteq Ids
  /\ confirmed \subseteq Ids
  /\ raced \subseteq Ids
  /\ crossed \subseteq Emails
  /\ stale \subseteq Requests
  /\ overwritten \subseteq Ids

\* The two parts together are the invariant, before a step and after it.
LEMMA TypeInvParts ==
  /\ TypeInv <=> ControlOK /\ DataOK
  /\ TypeInv' <=> ControlOK' /\ DataOK'
BY DEF TypeInv, TypeOK, ControlOK, DataOK

\* A request that ends leaves well-typed control state behind.
LEMMA FinishType ==
  ASSUME ControlOK, NEW r \in Requests, Finish(r)
  PROVE  ControlOK'
BY DEF ControlOK, HasUser, Finish, NoJob, NoUser, Job, User

\* Moving on with an object that fits the place the handler moves to.
LEMMA GotoType ==
  ASSUME ControlOK, NEW r \in Requests,
         NEW where \in {"loadCodes", "loadHistory", "decide", "create", "save", "signIn",
                        "mail"},
         NEW u \in User, user' = [user EXCEPT ![r] = u], Goto(r, where),
         where \in {"loadCodes", "loadHistory", "create", "save", "mail"} => u.id \in Ids
  PROVE  ControlOK'
BY DEF ControlOK, HasUser, Goto

\* Moving on with the object unchanged.
LEMMA GotoSameType ==
  ASSUME ControlOK, NEW r \in Requests,
         NEW where \in {"decide", "save", "signIn", "mail"},
         UNCHANGED user, Goto(r, where),
         where \in {"save", "mail"} => user[r].id \in Ids
  PROVE  ControlOK'
BY DEF ControlOK, HasUser, Goto

\* Saving an object of the right type keeps the tables typed.
LEMMA SaveUserType ==
  ASSUME DataOK, NEW r \in Requests, user[r] \in User, user[r].id \in Ids, SaveUser(r)
  PROVE  /\ users' \subseteq Ids /\ email' \in [Ids -> Emails \cup {Nobody}]
         /\ active' \in [Ids -> BOOLEAN] /\ codes' \in [Ids -> SUBSET Nat]
         /\ stale' \subseteq Requests /\ overwritten' \subseteq Ids
BY DEF DataOK, SaveUser, User, Holding

\* A message is addressed to the user whose codes it is made of.
LEMMA MessageType ==
  ASSUME NEW u \in User, u.id \in Ids
  PROVE  MessageTo(u) \subseteq Message
BY DEF MessageTo, Message, User

\* A request that arrives is well typed.
LEMMA SubmitType ==
  ASSUME TypeInv, NEW r \in Requests, NEW j \in Job, Submit(r, j),
         crossed' \subseteq Emails
  PROVE  TypeInv'
BY DEF TypeInv, TypeOK, HasUser, Submit

\* Types are preserved by every arrival.
LEMMA ArriveType ==
  ASSUME TypeInv, NEW r \in Requests, Arrive(r)
  PROVE  TypeInv'
<1>0. 1..lastId \subseteq Ids /\ 0..lastCode \subseteq Nat
  BY BoundsAssumption DEF TypeInv, TypeOK, Ids
<1>c. crossed \subseteq Emails  BY DEF TypeInv, TypeOK
<1>1. CASE SubmitRegister(r)
  <2>1. PICK e \in Emails : Submit(r, [NoJob EXCEPT !.email = e])
    BY <1>1 DEF SubmitRegister
  <2>2. [NoJob EXCEPT !.email = e] \in Job  BY DEF NoJob, Job
  <2>3. crossed' \subseteq Emails  BY <1>1, <1>c DEF SubmitRegister
  <2>4. QED  BY <2>1, <2>2, <2>3, SubmitType
<1>2. CASE SubmitActivate(r)
  <2>1. PICK i \in 1..lastId, c \in 0..lastCode :
          Submit(r, [NoJob EXCEPT !.cmd = "activate", !.id = i, !.code = c])
    BY <1>2 DEF SubmitActivate
  <2>2. i \in Ids /\ c \in Nat  BY <1>0
  <2>3. [NoJob EXCEPT !.cmd = "activate", !.id = i, !.code = c] \in Job
    BY <2>2 DEF NoJob, Job
  <2>4. QED  BY <1>2, <1>c, <2>1, <2>3, SubmitType DEF SubmitActivate
<1>3. CASE SubmitConfirm(r)
  <2>1. PICK e \in Emails : Submit(r, [NoJob EXCEPT !.cmd = "confirm", !.email = e])
    BY <1>3 DEF SubmitConfirm
  <2>2. [NoJob EXCEPT !.cmd = "confirm", !.email = e] \in Job  BY DEF NoJob, Job
  <2>3. QED  BY <1>3, <1>c, <2>1, <2>2, SubmitType DEF SubmitConfirm
<1>4. CASE SubmitResend(r)
  <2>1. PICK i \in 1..lastId : Submit(r, [NoJob EXCEPT !.cmd = "resend", !.id = i])
    BY <1>4 DEF SubmitResend
  <2>2. [NoJob EXCEPT !.cmd = "resend", !.id = i] \in Job
    BY <1>0, <2>1 DEF NoJob, Job
  <2>3. QED  BY <1>4, <1>c, <2>1, <2>2, SubmitType DEF SubmitResend
<1>5. QED  BY <1>1, <1>2, <1>3, <1>4 DEF Arrive

\* Types are preserved by every step of a handler.
LEMMA StepType ==
  ASSUME TypeInv, NEW r \in Requests, Step(r)
  PROVE  TypeInv'
<1>0. ControlOK /\ DataOK  BY TypeInvParts
<1>u. user[r] \in User  BY <1>0 DEF ControlOK
<1>a. ASSUME ControlOK', UNCHANGED <<table, numbers, post, todo, history>>
      PROVE  TypeInv'
  BY <1>0, <1>a, TypeInvParts DEF DataOK
<1>f. ASSUME Finish(r)
      PROVE  ControlOK'
  BY <1>0, <1>f, FinishType
<1>m. ASSUME SendUserRegistrationMessage(r), user[r].id \in Ids
      PROVE  ControlOK' /\ tasks' \subseteq Message /\ mailed' \subseteq Message
  <2>1. NoUser \in User  BY DEF NoUser, User
  <2>2. ControlOK'
    BY <1>0, <1>m, <2>1, GotoType DEF SendUserRegistrationMessage
  <2>3. MessageTo(user[r]) \subseteq Message  BY <1>m, <1>u, MessageType
  <2>4. QED  BY <1>0, <1>m, <2>2, <2>3 DEF SendUserRegistrationMessage, DataOK
<1>1. CASE LoadRow(r)
  <2>1. PICK i \in Wanted(r) :
          user' = [user EXCEPT ![r].id = i, ![r].active = active[i]]
    BY <1>1 DEF LoadRow
  <2>2. i \in Ids  BY <1>0, <2>1 DEF Wanted, Registered, DataOK
  <2>3. [user[r] EXCEPT !.id = i, !.active = active[i]] \in User
    BY <1>0, <1>u, <2>2 DEF User, DataOK
  <2>4. user' = [user EXCEPT ![r] = [user[r] EXCEPT !.id = i, !.active = active[i]]]
    BY <1>0, <2>1 DEF ControlOK
  <2>5. [user[r] EXCEPT !.id = i, !.active = active[i]].id \in Ids
    BY <1>u, <2>2 DEF User
  <2>6. ControlOK'  BY <1>0, <1>1, <2>3, <2>4, <2>5, GotoType DEF LoadRow
  <2>7. QED  BY <1>1, <1>a, <2>6 DEF LoadRow
<1>2. CASE LoadNull(r)
  <2>1. ControlOK'  BY <1>0, <1>2, GotoSameType DEF LoadNull
  <2>2. QED  BY <1>2, <1>a, <2>1 DEF LoadNull
<1>3. CASE LoadSeveral(r)  BY <1>3, <1>a, <1>f DEF LoadSeveral
<1>4. CASE LoadCodes(r)
  <2>1. user[r].id \in Ids  BY <1>0, <1>4 DEF LoadCodes, ControlOK, HasUser
  <2>2. [user[r] EXCEPT !.codes = codes[user[r].id]] \in User
    BY <1>0, <1>u, <2>1 DEF User, DataOK
  <2>3. user' = [user EXCEPT ![r] = [user[r] EXCEPT !.codes = codes[user[r].id]]]
    BY <1>0, <1>4 DEF LoadCodes, ControlOK
  <2>4. ControlOK'
    BY <1>0, <1>4, <1>u, <2>1, <2>2, <2>3, GotoType DEF LoadCodes, User
  <2>5. QED  BY <1>4, <1>a, <2>4 DEF LoadCodes
<1>4h. CASE LoadHistory(r)
  <2>b. (user[r].id \in users) \in BOOLEAN  OBVIOUS
  <2>1. PICK p \in BOOLEAN : user' = [user EXCEPT ![r].past = p]
    BY <1>4h, <2>b, Zenon DEF LoadHistory
  <2> DEFINE u == [user[r] EXCEPT !.past = p]
  <2>2. user' = [user EXCEPT ![r] = u]  BY <1>0, <2>1 DEF ControlOK
  <2>3. u \in User /\ u.id = user[r].id  BY <1>u DEF User
  <2>4. ControlOK'  BY <1>0, <1>4h, <2>2, <2>3, GotoType DEF LoadHistory
  <2>5. QED  BY <1>4h, <1>a, <2>4 DEF LoadHistory
<1>5. CASE SaveFails(r)  BY <1>5, <1>a, <1>f DEF SaveFails
<1>6. CASE RejectRegistered(r)  BY <1>6, <1>a, <1>f DEF RejectRegistered
<1>7. CASE MakeUser(r)
  <2>1. lastId + 1 \in Ids /\ lastId' \in 0..MaxUsers /\ lastCode' \in Nat
    BY <1>0, <1>7, BoundsAssumption DEF MakeUser, DataOK, Ids
  <2>2. NewUser(lastId + 1, lastCode + 1) \in User
    BY <1>0, <2>1 DEF NewUser, User, DataOK
  <2>3. NewUser(lastId + 1, lastCode + 1).id \in Ids  BY <2>1 DEF NewUser
  <2>4. ControlOK'  BY <1>0, <1>7, <2>2, <2>3, GotoType DEF MakeUser
  <2>5. DataOK'  BY <1>0, <1>7, <2>1 DEF MakeUser, DataOK
  <2>6. QED  BY <2>4, <2>5, TypeInvParts
<1>8. CASE UpdateRegistration(r)
  <2>1. user' = [user EXCEPT ![r] = [user[r] EXCEPT !.past = TRUE]]
    BY <1>0, <1>8 DEF UpdateRegistration, ControlOK
  <2>2. [user[r] EXCEPT !.past = TRUE] \in User  BY <1>u DEF User
  <2>3. [user[r] EXCEPT !.past = TRUE].id \in Ids
    BY <1>8, <1>u DEF UpdateRegistration, User
  <2>4. ControlOK'  BY <1>0, <1>8, <2>1, <2>2, <2>3, GotoType DEF UpdateRegistration
  <2>5. QED  BY <1>8, <1>a, <2>4 DEF UpdateRegistration
<1>9. CASE SaveNewUser(r)
  <2>1. user[r].id \in Ids  BY <1>0, <1>9 DEF SaveNewUser, ControlOK, HasUser
  <2>2. ControlOK' /\ tasks' \subseteq Message /\ mailed' \subseteq Message
    BY <1>9, <1>m, <2>1 DEF SaveNewUser
  <2>4. job[r].email \in Emails \cup {Nobody}  BY <1>0 DEF ControlOK, Job
  <2>5. DataOK'
    BY <1>0, <1>9, <1>u, <2>1, <2>2, <2>4 DEF SaveNewUser, DataOK, User
  <2>6. QED  BY <2>2, <2>5, TypeInvParts
<1>10. CASE SaveRegistration(r)
  <2>1. user[r].id \in Ids  BY <1>0, <1>10 DEF SaveRegistration, ControlOK, HasUser
  <2>2. ControlOK' /\ tasks' \subseteq Message /\ mailed' \subseteq Message
    BY <1>10, <1>m, <2>1 DEF SaveRegistration
  <2>4. DataOK'
    BY <1>0, <1>10, <1>u, <2>1, <2>2, SaveUserType DEF SaveRegistration, DataOK
  <2>5. QED  BY <2>2, <2>4, TypeInvParts
<1>11. CASE SignIn(r)
  <2>1. ControlOK'  BY <1>11, <1>f DEF SignIn
  <2>2. QED  BY <1>11, <1>a, <2>1 DEF SignIn
<1>12. CASE ActivateNobody(r)  BY <1>12, <1>a, <1>f DEF ActivateNobody
<1>13. CASE RejectCode(r)  BY <1>13, <1>a, <1>f DEF RejectCode
<1>14. CASE AlreadyActive(r)  BY <1>14, <1>a, <1>f DEF AlreadyActive
<1>15. CASE Activate(r)
  <2>1. user' = [user EXCEPT ![r] = [user[r] EXCEPT !.active = TRUE, !.codes = {}]]
    BY <1>0, <1>15 DEF Activate, ControlOK
  <2>2. [user[r] EXCEPT !.active = TRUE, !.codes = {}] \in User  BY <1>u DEF User
  <2>3. [user[r] EXCEPT !.active = TRUE, !.codes = {}].id \in Ids
    BY <1>15, <1>u DEF Activate, User
  <2>4. ControlOK'  BY <1>0, <1>15, <2>1, <2>2, <2>3, GotoType DEF Activate
  <2>5. QED  BY <1>15, <1>a, <2>4 DEF Activate
<1>16. CASE SaveActivation(r)
  <2>1. user[r].id \in Ids  BY <1>0, <1>16 DEF SaveActivation, ControlOK, HasUser
  <2>2. ControlOK'  BY <1>16, <1>f DEF SaveActivation
  <2>3. DataOK'
    BY <1>0, <1>16, <1>u, <2>1, SaveUserType DEF SaveActivation, DataOK
  <2>4. QED  BY <2>2, <2>3, TypeInvParts
<1>17. CASE ResendNothing(r)
  <2>1. ControlOK'  BY <1>17, <1>f DEF ResendNothing
  <2>2. QED  BY <1>17, <1>a, <2>1 DEF ResendNothing
<1>18. CASE RenewCode(r)
  <2> DEFINE u == [user[r] EXCEPT !.codes = user[r].codes \cup {lastCode + 1}]
  <2>1. user' = [user EXCEPT ![r] = u]  BY <1>0, <1>18 DEF RenewCode, ControlOK
  <2>2. u \in User /\ u.id \in Ids
    BY <1>0, <1>18, <1>u DEF RenewCode, User, DataOK
  <2>3. ControlOK'  BY <1>0, <1>18, <2>1, <2>2, GotoType DEF RenewCode
  <2>4. DataOK'  BY <1>0, <1>18 DEF RenewCode, DataOK
  <2>5. QED  BY <2>3, <2>4, TypeInvParts
<1>19. CASE KeepCode(r)
  <2>1. user[r].id \in Ids  BY <1>19, <1>u DEF KeepCode, User
  <2>2. ControlOK'  BY <1>0, <1>19, <2>1, GotoSameType DEF KeepCode
  <2>3. QED  BY <1>19, <1>a, <2>2 DEF KeepCode
<1>20. CASE SaveRenewedCode(r)
  <2>1. user[r].id \in Ids  BY <1>0, <1>20 DEF SaveRenewedCode, ControlOK, HasUser
  <2>2. ControlOK'  BY <1>0, <1>20, <2>1, GotoSameType DEF SaveRenewedCode
  <2>3. DataOK'
    BY <1>0, <1>20, <1>u, <2>1, SaveUserType DEF SaveRenewedCode, DataOK
  <2>4. QED  BY <2>2, <2>3, TypeInvParts
<1>21. CASE SendMail(r)
  <2>1. user[r].id \in Ids  BY <1>0, <1>21 DEF SendMail, ControlOK, HasUser
  <2>2. ControlOK'  BY <1>21, <1>f DEF SendMail
  <2>3. mailed' \subseteq Message
    BY <1>0, <1>21, <1>u, <2>1, MessageType DEF SendMail, Send, DataOK
  <2>4. DataOK'  BY <1>0, <1>21, <2>3 DEF SendMail, DataOK
  <2>5. QED  BY <2>2, <2>4, TypeInvParts
<1>22. QED
  BY <1>1, <1>2, <1>3, <1>4, <1>4h, <1>5, <1>6, <1>7, <1>8, <1>9, <1>10, <1>11,
     <1>12, <1>13, <1>14, <1>15, <1>16, <1>17, <1>18, <1>19, <1>20, <1>21 DEF Step

\* The job, the mail tasks and the clock preserve the types.
LEMMA OtherType ==
  ASSUME TypeInv, RunTask \/ ListExpired \/ DeleteListed \/ DeletionFails \/ Expire
  PROVE  TypeInv'
<1>1. CASE ListExpired
  BY <1>1 DEF ListExpired, ExpiredRegistrations, TypeInv, TypeOK, HasUser
<1>2. CASE DeleteListed
  BY <1>2 DEF DeleteListed, DeleteUser, TypeInv, TypeOK, HasUser
<1>3. CASE DeletionFails \/ Expire
  BY <1>3 DEF DeletionFails, Expire, TypeInv, TypeOK, HasUser
<1>4. CASE RunTask  BY <1>4 DEF RunTask, Send, TypeInv, TypeOK, HasUser
<1>5. QED  BY <1>1, <1>2, <1>3, <1>4

\* The invariant of the types, which the other theorems build on.
THEOREM TypeInvariance == Spec => []TypeInv
<1>1. Init => TypeInv
  <2>1. NoJob \in Job /\ NoUser \in User  BY DEF NoJob, Job, NoUser, User
  <2>2. 0 \in 0..MaxUsers  BY BoundsAssumption
  <2>3. QED  BY <2>1, <2>2 DEF Init, TypeInv, TypeOK, HasUser
<1>2. ASSUME TypeInv, [Next]_vars
      PROVE  TypeInv'
  <2>1. ASSUME NEW r \in Requests, Abort(r)
        PROVE  TypeInv'
    <3>1. ControlOK /\ DataOK  BY <1>2, TypeInvParts
    <3>2. ControlOK'  BY <2>1, <3>1, FinishType DEF Abort
    <3>3. DataOK'  BY <2>1, <3>1 DEF Abort, DataOK
    <3>4. QED  BY <3>2, <3>3, TypeInvParts
  <2>2. CASE UNCHANGED vars  BY <1>2, <2>2 DEF TypeInv, TypeOK, HasUser
  <2>3. QED  BY <1>2, <2>1, <2>2, ArriveType, StepType, OtherType DEF Next
<1>3. QED  BY <1>1, <1>2, PTL DEF Spec

\* Every variable of the registration component keeps its type.
THEOREM TypeCorrect == Spec => []TypeOK
<1>1. TypeInv => TypeOK  BY DEF TypeInv
<1>2. QED  BY <1>1, TypeInvariance, PTL

----------------------------------------------------------------------------
(* Deletion is final.  The only step that adds a row is the save of a new    *)
(* user, so the invariant is about the id such a request holds in memory: it *)
(* is in use nowhere else.                                                   *)

FreshIds ==
  /\ users \cup todo \cup deleted \subseteq 1..lastId
  /\ \A r \in Requests :
       pc[r] = "create" => user[r].id \in (1..lastId) \ (users \cup todo \cup deleted)
  /\ \A r, q \in Requests :
       (pc[r] = "create" /\ pc[q] = "create" /\ r # q) => user[r].id # user[q].id

DeletionInv == FreshIds /\ DeletedStaysDeleted

\* A step that neither moves ids about nor brings a request to its creation.
LEMMA FreshStays ==
  ASSUME DeletionInv, UNCHANGED <<users, todo, deleted, lastId>>,
         \A q \in Requests : pc'[q] = "create" => pc[q] = "create" /\ user'[q] = user[q]
  PROVE  DeletionInv'
BY DEF DeletionInv, FreshIds, DeletedStaysDeleted

\* The end of a request brings no request to its creation.
LEMMA FinishFresh ==
  ASSUME TypeInv, NEW r \in Requests, Finish(r)
  PROVE  \A q \in Requests :
           pc'[q] = "create" => pc[q] = "create" /\ user'[q] = user[q]
BY DEF TypeInv, TypeOK, Finish

\* Nor does moving on to any other place.
LEMMA GotoFresh ==
  ASSUME TypeInv, NEW r \in Requests, NEW where, where # "create", Goto(r, where),
         \A q \in Requests \ {r} : user'[q] = user[q]
  PROVE  \A q \in Requests :
           pc'[q] = "create" => pc[q] = "create" /\ user'[q] = user[q]
BY DEF TypeInv, TypeOK, Goto

\* Saving a user that exists adds no row.
LEMMA SaveAddsNoRow ==
  ASSUME NEW r, SaveUser(r)
  PROVE  UNCHANGED users
BY DEF SaveUser

\* A new id differs from every id that is in use.
LEMMA MakeUserFresh ==
  ASSUME TypeInv, DeletionInv, NEW r \in Requests, MakeUser(r)
  PROVE  DeletionInv'
<1>1. lastId \in Nat /\ lastId' = lastId + 1
  BY BoundsAssumption DEF MakeUser, TypeInv, TypeOK
<1>2. lastId + 1 \notin 1..lastId /\ 1..lastId \subseteq 1..(lastId + 1)
  BY <1>1
<1>3. /\ user'[r].id = lastId + 1
      /\ \A q \in Requests \ {r} : user'[q] = user[q] /\ pc'[q] = pc[q]
  BY DEF MakeUser, NewUser, Goto, TypeInv, TypeOK
<1>4. UNCHANGED <<users, todo, deleted>>  BY DEF MakeUser
<1>5. \A q \in Requests \ {r} : pc'[q] = "create" => user'[q].id \in 1..lastId
  BY <1>3 DEF DeletionInv, FreshIds
<1>6. lastId + 1 \in 1..lastId'  BY <1>1
<1>7. FreshIds'
  <2>1. (users \cup todo \cup deleted)' \subseteq 1..lastId'
    BY <1>1, <1>2, <1>4 DEF DeletionInv, FreshIds
  <2>2. ASSUME NEW q \in Requests, pc'[q] = "create"
        PROVE  user'[q].id \in (1..lastId') \ (users \cup todo \cup deleted)'
    <3>1. CASE q = r
      BY <1>2, <1>3, <1>4, <1>6, <3>1 DEF DeletionInv, FreshIds
    <3>2. CASE q # r
      BY <1>1, <1>2, <1>3, <1>4, <2>2, <3>2 DEF DeletionInv, FreshIds
    <3>3. QED  BY <3>1, <3>2
  <2>3. ASSUME NEW p \in Requests, NEW q \in Requests,
               pc'[p] = "create", pc'[q] = "create", p # q
        PROVE  user'[p].id # user'[q].id
    BY <1>2, <1>3, <1>5, <2>3 DEF DeletionInv, FreshIds
  <2>4. QED  BY <2>1, <2>2, <2>3 DEF FreshIds
<1>8. QED  BY <1>4, <1>7 DEF DeletionInv, DeletedStaysDeleted

\* Creating a row uses up the id: it was in no list and nobody else holds it.
LEMMA SaveNewUserFresh ==
  ASSUME TypeInv, DeletionInv, NEW r \in Requests, SaveNewUser(r)
  PROVE  DeletionInv'
<1>1. pc[r] = "create" /\ pc'[r] = "signIn"
  BY DEF SaveNewUser, SendUserRegistrationMessage, Goto, TypeInv, TypeOK
<1>2. /\ users' = users \cup {user[r].id}
      /\ UNCHANGED <<todo, deleted, lastId>>
      /\ \A q \in Requests \ {r} : pc'[q] = pc[q] /\ user'[q] = user[q]
  BY DEF SaveNewUser, SendUserRegistrationMessage, Goto, TypeInv, TypeOK
<1>3. QED  BY <1>1, <1>2 DEF DeletionInv, FreshIds, DeletedStaysDeleted

\* A row the job deletes is on no list and in no table afterwards.
LEMMA DeleteFresh ==
  ASSUME TypeInv, DeletionInv, DeleteListed
  PROVE  DeletionInv'
<1>1. PICK i \in todo :
        /\ users' = users \ {i}
        /\ deleted' = deleted \cup {i}
        /\ todo' \subseteq todo
        /\ UNCHANGED <<lastId, pc, user>>
  BY DEF DeleteListed, DeleteUser
<1>2. QED  BY <1>1 DEF DeletionInv, FreshIds, DeletedStaysDeleted

\* Every step of a handler keeps the invariant.
LEMMA StepFresh ==
  ASSUME TypeInv, DeletionInv, NEW r \in Requests, Step(r)
  PROVE  DeletionInv'
<1>f. ASSUME Finish(r), UNCHANGED <<users, todo, deleted, lastId>>
      PROVE  DeletionInv'
  BY <1>f, FinishFresh, FreshStays
<1>g. ASSUME NEW where, where # "create", Goto(r, where),
             \A q \in Requests \ {r} : user'[q] = user[q],
             UNCHANGED <<users, todo, deleted, lastId>>
      PROVE  DeletionInv'
  BY <1>g, GotoFresh, FreshStays
<1>t. user \in [Requests -> User]  BY DEF TypeInv, TypeOK
<1>1. CASE LoadRow(r)  BY <1>1, <1>g, <1>t DEF LoadRow
<1>2. CASE LoadNull(r)  BY <1>2, <1>g DEF LoadNull
<1>3. CASE LoadSeveral(r)  BY <1>3, <1>f DEF LoadSeveral
<1>4. CASE LoadCodes(r)  BY <1>4, <1>g, <1>t DEF LoadCodes
<1>4h. CASE LoadHistory(r)  BY <1>4h, <1>g, <1>t DEF LoadHistory
<1>5. CASE SaveFails(r)  BY <1>5, <1>f DEF SaveFails
<1>6. CASE RejectRegistered(r)  BY <1>6, <1>f DEF RejectRegistered
<1>7. CASE MakeUser(r)  BY <1>7, MakeUserFresh
<1>8. CASE UpdateRegistration(r)  BY <1>8, <1>g, <1>t DEF UpdateRegistration
<1>9. CASE SaveNewUser(r)  BY <1>9, SaveNewUserFresh
<1>10. CASE SaveRegistration(r)
  BY <1>10, <1>g, <1>t, SaveAddsNoRow
     DEF SaveRegistration, SendUserRegistrationMessage
<1>11. CASE SignIn(r)  BY <1>11, <1>f DEF SignIn
<1>12. CASE ActivateNobody(r)  BY <1>12, <1>f DEF ActivateNobody
<1>13. CASE RejectCode(r)  BY <1>13, <1>f DEF RejectCode
<1>14. CASE AlreadyActive(r)  BY <1>14, <1>f DEF AlreadyActive
<1>15. CASE Activate(r)  BY <1>15, <1>g, <1>t DEF Activate
<1>16. CASE SaveActivation(r)  BY <1>16, <1>f, SaveAddsNoRow DEF SaveActivation
<1>17. CASE ResendNothing(r)  BY <1>17, <1>f DEF ResendNothing
<1>18. CASE RenewCode(r)  BY <1>18, <1>g, <1>t DEF RenewCode
<1>19. CASE KeepCode(r)  BY <1>19, <1>g DEF KeepCode
<1>20. CASE SaveRenewedCode(r)  BY <1>20, <1>g, SaveAddsNoRow DEF SaveRenewedCode
<1>21. CASE SendMail(r)  BY <1>21, <1>f DEF SendMail
<1>22. QED
  BY <1>1, <1>2, <1>3, <1>4, <1>4h, <1>5, <1>6, <1>7, <1>8, <1>9, <1>10, <1>11,
     <1>12, <1>13, <1>14, <1>15, <1>16, <1>17, <1>18, <1>19, <1>20, <1>21 DEF Step

\* Ids are handed out once, and those of deleted users are never used again.
LEMMA DeletionInvariance == Spec => []DeletionInv
<1>1. Init => DeletionInv
  BY DEF Init, DeletionInv, FreshIds, DeletedStaysDeleted
<1>2. ASSUME TypeInv, DeletionInv, [Next]_vars
      PROVE  DeletionInv'
  <2>1. ASSUME NEW r \in Requests, Arrive(r)
        PROVE  DeletionInv'
    <3>1. PICK j : Submit(r, j)
      BY <2>1 DEF Arrive, SubmitRegister, SubmitActivate, SubmitConfirm, SubmitResend
    <3>2. \A q \in Requests :
            pc'[q] = "create" => pc[q] = "create" /\ user'[q] = user[q]
      BY <1>2, <3>1 DEF Submit, TypeInv, TypeOK
    <3>3. QED  BY <1>2, <3>1, <3>2, FreshStays DEF Submit
  <2>2. ASSUME NEW r \in Requests, Abort(r)
        PROVE  DeletionInv'
    BY <1>2, <2>2, FinishFresh, FreshStays DEF Abort
  <2>3. CASE ListExpired
    BY <1>2, <2>3 DEF ListExpired, ExpiredRegistrations, DeletionInv, FreshIds,
                      DeletedStaysDeleted
  <2>4. CASE DeleteListed  BY <1>2, <2>4, DeleteFresh
  <2>5. CASE Expire \/ RunTask
    BY <1>2, <2>5 DEF Expire, RunTask, DeletionInv, FreshIds, DeletedStaysDeleted
  <2>8. CASE DeletionFails
    BY <1>2, <2>8 DEF DeletionFails, DeletionInv, FreshIds, DeletedStaysDeleted
  <2>6. CASE UNCHANGED vars
    BY <1>2, <2>6 DEF DeletionInv, FreshIds, DeletedStaysDeleted
  <2>7. QED  BY <1>2, <2>1, <2>2, <2>3, <2>4, <2>5, <2>6, <2>8, StepFresh DEF Next
<1>3. QED  BY <1>1, <1>2, TypeInvariance, PTL DEF Spec

\* A user the job has deleted never comes back, whatever the requests that had
\* loaded it before do afterwards.
THEOREM DeletionIsFinal == Spec => []DeletedStaysDeleted
<1>1. DeletionInv => DeletedStaysDeleted  BY DEF DeletionInv
<1>2. QED  BY <1>1, DeletionInvariance, PTL

----------------------------------------------------------------------------
(* The steps that change the table.  There are three, and each of them      *)
(* treats the row and its codes together.                                    *)

\* A step of a handler creates a user, saves one, or leaves the table alone.
LEMMA StepTable ==
  ASSUME TypeInv, NEW r \in Requests, Step(r)
  PROVE  \/ SaveNewUser(r)
         \/ pc[r] = "save" /\ SaveUser(r) /\ pc'[r] # "save"
         \/ UNCHANGED <<table, copies, confirmed, raced>>
<1>1. CASE SaveRegistration(r) \/ SaveActivation(r) \/ SaveRenewedCode(r)
  BY <1>1 DEF SaveRegistration, SaveActivation, SaveRenewedCode,
     SendUserRegistrationMessage, Finish, Goto, TypeInv, TypeOK
<1>2. CASE ~(SaveRegistration(r) \/ SaveActivation(r) \/ SaveRenewedCode(r))
  BY <1>2 DEF Step, LoadRow, LoadNull, LoadSeveral, LoadCodes, LoadHistory, SaveFails,
       RejectRegistered, MakeUser, UpdateRegistration, SignIn, ActivateNobody,
       RejectCode, AlreadyActive, Activate, ResendNothing, RenewCode, KeepCode,
       SendMail
<1>3. QED  BY <1>1, <1>2

\* A request writes the object of one user that has a row afterwards, or the job
\* removes a user with all codes; every other step leaves the table alone.
LEMMA TableSteps ==
  ASSUME TypeInv, [Next]_vars
  PROVE  \/ UNCHANGED table
         \/ \E r \in Requests : SaveNewUser(r)
         \/ \E r \in Requests : pc[r] = "save" /\ SaveUser(r) /\ pc'[r] # "save"
         \/ \E i \in todo : DeleteUser(i)
<1>1. ASSUME NEW r \in Requests, Arrive(r) \/ Abort(r)
      PROVE  UNCHANGED table
  BY <1>1 DEF Arrive, SubmitRegister, SubmitActivate, SubmitConfirm, SubmitResend,
       Submit, Abort
<1>2. ASSUME RunTask \/ ListExpired \/ DeletionFails \/ Expire \/ UNCHANGED vars
      PROVE  UNCHANGED table
  BY <1>2 DEF RunTask, ListExpired, DeletionFails, Expire
<1>3. ASSUME DeleteListed
      PROVE  \E i \in todo : DeleteUser(i)
  BY <1>3 DEF DeleteListed
<1>4. QED  BY <1>1, <1>2, <1>3, StepTable DEF Next

----------------------------------------------------------------------------
(* Activation.  An object in memory may be active for two reasons only: its  *)
(* user was confirmed before, or the request is about to save exactly that.  *)

Activating(r) == pc[r] = "save" /\ job[r].cmd \in {"activate", "confirm"}

ActivationInv ==
  /\ ActiveMeansConfirmed
  /\ \A r \in Requests :
       user[r].active => user[r].id \in confirmed \/ Activating(r)

\* A step that leaves the table alone and gives one request a new object.
LEMMA ObjectChanges ==
  ASSUME TypeInv, ActivationInv, NEW r \in Requests, NEW u,
         user' = [user EXCEPT ![r] = u], UNCHANGED <<users, active>>,
         confirmed \subseteq confirmed',
         u.active => u.id \in confirmed' \/ Activating(r)',
         \A q \in Requests \ {r} : pc'[q] = pc[q] /\ job'[q] = job[q]
  PROVE  ActivationInv'
BY DEF TypeInv, TypeOK, ActivationInv, ActiveMeansConfirmed, Activating

\* Saving what is in memory, when the object in memory is justified by confirmed'.
LEMMA ObjectSaved ==
  ASSUME TypeInv, ActivationInv, NEW r \in Requests, pc[r] \in {"create", "save"},
         user[r].active => user[r].id \in confirmed',
         users' \subseteq users \cup {user[r].id},
         \/ active' = [active EXCEPT ![user[r].id] = user[r].active]
         \/ UNCHANGED <<users, active>>,
         confirmed \subseteq confirmed',
         user' = [user EXCEPT ![r] = NoUser] \/ UNCHANGED user,
         \A q \in Requests \ {r} : pc'[q] = pc[q] /\ job'[q] = job[q]
  PROVE  ActivationInv'
<1>0. user[r].id \in Ids /\ users \subseteq Ids /\ active \in [Ids -> BOOLEAN]
  BY DEF TypeInv, TypeOK, HasUser
<1>1. ASSUME NEW i \in users', active'[i]
      PROVE  i \in confirmed'
  <2>1. CASE i = user[r].id /\ active' = [active EXCEPT ![user[r].id] = user[r].active]
    BY <1>0, <1>1, <2>1
  <2>2. CASE i # user[r].id \/ UNCHANGED <<users, active>>
    <3>1. i \in users /\ active[i]  BY <1>0, <1>1, <2>2
    <3>2. QED  BY <3>1 DEF ActivationInv, ActiveMeansConfirmed
  <2>3. QED  BY <2>1, <2>2
<1>2. ASSUME NEW q \in Requests, user'[q].active
      PROVE  user'[q].id \in confirmed' \/ Activating(q)'
  <2>1. user \in [Requests -> User]  BY DEF TypeInv, TypeOK
  <2>2. CASE q = r  BY <1>2, <2>1, <2>2 DEF NoUser
  <2>3. CASE q # r
    <3>1. user'[q] = user[q]  BY <2>1, <2>3
    <3>2. user[q].id \in confirmed \/ Activating(q)
      BY <1>2, <3>1 DEF ActivationInv
    <3>3. QED  BY <2>3, <3>1, <3>2 DEF Activating
  <2>4. QED  BY <2>2, <2>3
<1>3. ActiveMeansConfirmed'  BY <1>1 DEF ActiveMeansConfirmed
<1>4. QED  BY <1>2, <1>3 DEF ActivationInv

\* Every step of a handler keeps the reasons.
LEMMA StepActivation ==
  ASSUME TypeInv, ActivationInv, NEW r \in Requests, Step(r)
  PROVE  ActivationInv'
<1>p. pc = [q \in Requests |-> pc[q]]  BY DEF TypeInv, TypeOK
<1>t. /\ user \in [Requests -> User] /\ job \in [Requests -> Job]
      /\ user[r] \in User
  BY DEF TypeInv, TypeOK
<1>s. user[r] = user[r] /\ [user EXCEPT ![r] = user[r]] = user
  BY <1>t
<1>f. ASSUME Finish(r), UNCHANGED <<users, active, confirmed>>
      PROVE  ActivationInv'
  <2>1. user' = [user EXCEPT ![r] = NoUser]  BY <1>f DEF Finish
  <2>2. \A q \in Requests \ {r} : pc'[q] = pc[q] /\ job'[q] = job[q]
    BY <1>f, <1>p, <1>t DEF Finish
  <2>3. ~NoUser.active  BY DEF NoUser
  <2>4. QED  BY <1>f, <2>1, <2>2, <2>3, ObjectChanges
<1>g. ASSUME NEW where, Goto(r, where), NEW u, user' = [user EXCEPT ![r] = u],
             u.active => u.id \in confirmed \/ Activating(r)',
             UNCHANGED <<users, active, confirmed>>
      PROVE  ActivationInv'
  <2>1. \A q \in Requests \ {r} : pc'[q] = pc[q] /\ job'[q] = job[q]
    BY <1>g, <1>p, <1>t DEF Goto
  <2>2. QED  BY <1>g, <2>1, ObjectChanges
<1>n. ASSUME NEW where, Goto(r, where), UNCHANGED <<user, users, active, confirmed>>,
             ~Activating(r) \/ ~user[r].active
      PROVE  ActivationInv'
  BY <1>n, <1>g, <1>s DEF ActivationInv
<1>1. CASE LoadRow(r)
  <2>1. PICK i \in users :
          user' = [user EXCEPT ![r] = [user[r] EXCEPT !.id = i, !.active = active[i]]]
    BY <1>1, <1>t DEF LoadRow, Wanted, Registered
  <2> DEFINE u == [user[r] EXCEPT !.id = i, !.active = active[i]]
  <2>2. u.active => u.id \in confirmed
    BY <1>t DEF ActivationInv, ActiveMeansConfirmed, User
  <2>3. QED  BY <1>1, <1>g, <2>1, <2>2 DEF LoadRow
<1>2. CASE LoadNull(r)  BY <1>2, <1>n DEF LoadNull, Activating
<1>3. CASE LoadSeveral(r)  BY <1>3, <1>f DEF LoadSeveral
<1>4. CASE LoadCodes(r)
  <2> DEFINE u == [user[r] EXCEPT !.codes = codes[user[r].id]]
  <2>1. user' = [user EXCEPT ![r] = u]  BY <1>4, <1>t DEF LoadCodes
  <2>2. u.active => u.id \in confirmed
    BY <1>4, <1>t DEF LoadCodes, ActivationInv, Activating, User
  <2>3. QED  BY <1>4, <1>g, <2>1, <2>2 DEF LoadCodes
<1>4h. CASE LoadHistory(r)
  <2> DEFINE u == [user[r] EXCEPT !.past = user[r].id \in users]
  <2>1. user' = [user EXCEPT ![r] = u]  BY <1>4h, <1>t DEF LoadHistory
  <2>2. u.active => u.id \in confirmed
    BY <1>4h, <1>t DEF LoadHistory, ActivationInv, Activating, User
  <2>3. QED  BY <1>4h, <1>g, <2>1, <2>2 DEF LoadHistory
<1>5. CASE SaveFails(r)  BY <1>5, <1>f DEF SaveFails
<1>6. CASE RejectRegistered(r)  BY <1>6, <1>f DEF RejectRegistered
<1>7. CASE MakeUser(r)
  <2>1. ~NewUser(lastId + 1, lastCode + 1).active  BY DEF NewUser
  <2>2. QED  BY <1>7, <1>g, <2>1 DEF MakeUser
<1>8. CASE UpdateRegistration(r)
  <2> DEFINE u == [user[r] EXCEPT !.past = TRUE]
  <2>1. user' = [user EXCEPT ![r] = u]  BY <1>8, <1>t DEF UpdateRegistration
  <2>2. ~u.active  BY <1>8, <1>t DEF UpdateRegistration, User
  <2>3. QED  BY <1>8, <1>g, <2>1, <2>2 DEF UpdateRegistration
<1>9. CASE SaveNewUser(r)
  <2>1. user[r].active => user[r].id \in confirmed
    BY <1>9 DEF SaveNewUser, ActivationInv, Activating
  <2>2. \A q \in Requests \ {r} : pc'[q] = pc[q] /\ job'[q] = job[q]
    BY <1>9, <1>p, <1>t DEF SaveNewUser, SendUserRegistrationMessage, Goto
  <2>3. QED
    BY <1>9, <2>1, <2>2, ObjectSaved DEF SaveNewUser, SendUserRegistrationMessage
<1>10. CASE SaveRegistration(r)
  <2>1. user[r].active => user[r].id \in confirmed
    BY <1>10 DEF SaveRegistration, ActivationInv, Activating
  <2>2. \A q \in Requests \ {r} : pc'[q] = pc[q] /\ job'[q] = job[q]
    BY <1>10, <1>p, <1>t DEF SaveRegistration, SendUserRegistrationMessage, Goto
  <2>3. QED
    BY <1>10, <2>1, <2>2, ObjectSaved
       DEF SaveRegistration, SendUserRegistrationMessage, SaveUser
<1>11. CASE SignIn(r)  BY <1>11, <1>f DEF SignIn
<1>12. CASE ActivateNobody(r)  BY <1>12, <1>f DEF ActivateNobody
<1>13. CASE RejectCode(r)  BY <1>13, <1>f DEF RejectCode
<1>14. CASE AlreadyActive(r)  BY <1>14, <1>f DEF AlreadyActive
<1>15. CASE Activate(r)
  <2> DEFINE u == [user[r] EXCEPT !.active = TRUE, !.codes = {}]
  <2>1. user' = [user EXCEPT ![r] = u]  BY <1>15, <1>t DEF Activate
  <2>2. Activating(r)'  BY <1>15, <1>p, <1>t DEF Activate, At, Goto, Activating
  <2>3. QED  BY <1>15, <1>g, <2>1, <2>2 DEF Activate
<1>16. CASE SaveActivation(r)
  <2>2. \A q \in Requests \ {r} : pc'[q] = pc[q] /\ job'[q] = job[q]
    BY <1>16, <1>p, <1>t DEF SaveActivation, Finish
  <2>3. user' = [user EXCEPT ![r] = NoUser]
    BY <1>16 DEF SaveActivation, Finish
  <2>4. CASE user[r].id \in users
    <3>1. user[r].id \in confirmed' /\ confirmed \subseteq confirmed'
      BY <1>16, <2>4 DEF SaveActivation
    <3>2. QED  BY <1>16, <2>2, <2>3, <2>4, <3>1, ObjectSaved DEF SaveActivation, SaveUser
  <2>5. CASE user[r].id \notin users
    <3>1. UNCHANGED <<users, active, confirmed>> /\ Finish(r)
      BY <1>16, <2>5 DEF SaveActivation, SaveUser
    <3>2. QED  BY <1>f, <3>1
  <2>6. QED  BY <2>4, <2>5
<1>17. CASE ResendNothing(r)  BY <1>17, <1>f DEF ResendNothing
<1>18. CASE RenewCode(r)
  <2> DEFINE u == [user[r] EXCEPT !.codes = user[r].codes \cup {lastCode + 1}]
  <2>1. user' = [user EXCEPT ![r] = u]  BY <1>18, <1>t DEF RenewCode
  <2>2. ~u.active  BY <1>18, <1>t DEF RenewCode, User
  <2>3. QED  BY <1>18, <1>g, <2>1, <2>2 DEF RenewCode
<1>19. CASE KeepCode(r)  BY <1>19, <1>n DEF KeepCode
<1>20. CASE SaveRenewedCode(r)
  <2>1. user[r].active => user[r].id \in confirmed
    BY <1>20 DEF SaveRenewedCode, ActivationInv, Activating
  <2>2. \A q \in Requests \ {r} : pc'[q] = pc[q] /\ job'[q] = job[q]
    BY <1>20, <1>p, <1>t DEF SaveRenewedCode, Goto
  <2>3. QED  BY <1>20, <2>1, <2>2, ObjectSaved DEF SaveRenewedCode, SaveUser
<1>21. CASE SendMail(r)  BY <1>21, <1>f DEF SendMail
<1>22. QED
  BY <1>1, <1>2, <1>3, <1>4, <1>4h, <1>5, <1>6, <1>7, <1>8, <1>9, <1>10, <1>11,
     <1>12, <1>13, <1>14, <1>15, <1>16, <1>17, <1>18, <1>19, <1>20, <1>21 DEF Step

\* An account is active only after an activation of it was saved: no stale copy,
\* second registration or resend makes it so.
THEOREM OnlyActivationActivates == Spec => []ActiveMeansConfirmed
<1>1. Init => ActivationInv
  BY DEF Init, ActivationInv, ActiveMeansConfirmed, NoUser
<1>2. ASSUME TypeInv, ActivationInv, [Next]_vars
      PROVE  ActivationInv'
  <2>1. ASSUME NEW r \in Requests, Arrive(r)
        PROVE  ActivationInv'
    <3>1. PICK j : Submit(r, j)
      BY <2>1 DEF Arrive, SubmitRegister, SubmitActivate, SubmitConfirm, SubmitResend
    <3>2. QED
      BY <1>2, <3>1 DEF Submit, TypeInv, TypeOK, ActivationInv,
                        ActiveMeansConfirmed, Activating
  <2>2. ASSUME NEW r \in Requests, Abort(r)
        PROVE  ActivationInv'
    <3>1. ~NoUser.active  BY DEF NoUser
    <3>2. \A q \in Requests \ {r} : pc'[q] = pc[q] /\ job'[q] = job[q]
      BY <1>2, <2>2 DEF Abort, Finish, TypeInv, TypeOK
    <3>3. QED  BY <1>2, <2>2, <3>1, <3>2, ObjectChanges DEF Abort, Finish
  <2>3. CASE RunTask \/ ListExpired \/ DeletionFails \/ Expire \/ UNCHANGED vars
    BY <1>2, <2>3 DEF RunTask, ListExpired, DeletionFails, Expire, ActivationInv,
                      ActiveMeansConfirmed, Activating
  <2>4. CASE DeleteListed
    BY <1>2, <2>4 DEF DeleteListed, DeleteUser, TypeInv, TypeOK, ActivationInv,
                      ActiveMeansConfirmed, Activating
  <2>5. QED  BY <1>2, <2>1, <2>2, <2>3, <2>4, StepActivation DEF Next
<1>3. ActivationInv => ActiveMeansConfirmed  BY DEF ActivationInv
<1>4. QED  BY <1>1, <1>2, <1>3, TypeInvariance, PTL DEF Spec

----------------------------------------------------------------------------
(* Overlapping requests.  Between the load and the save of a request any      *)
(* other request and the job may change or remove the row.  The invariants    *)
(* below say how far the object in memory may be away from it: a request that *)
(* is not stale holds what the row holds, or what it is about to write.       *)

\* Registrations of the same address that are in flight together are recorded.
CrossedInv ==
  \A q, r \in Requests :
    \A e \in Emails :
      q # r /\ q \in Registering(e) /\ r \in Registering(e) => e \in crossed

\* Ids in memory, in messages and in the history are ids of users with a row or
\* deleted ones: an id that is still to be created is known to nobody else.
KnownInv ==
  /\ confirmed \subseteq users \cup deleted
  /\ \A m \in mailed \cup tasks : m.id \in users \cup deleted

\* An object without an id was looked for and not found.
LookInv(r) ==
  /\ pc[r] # "create" => user[r].id \in {0} \cup users \cup deleted
  /\ pc[r] \in {"idle", "loadRow"} => user[r].id = 0
  /\ pc[r] = "create" => job[r].cmd = "register"
  /\ job[r].cmd = "register" => job[r].id = 0
  /\ job[r].cmd = "register" /\ pc[r] # "idle" => job[r].email \in Emails
  /\ pc[r] = "create" \/ (At(r, {"register"}) /\ user[r].id = 0)
       => \A i \in users : email[i] = job[r].email => email[i] \in crossed

\* The object of a request that is not stale, and the row of its user.
CopyInv(r) ==
  r \notin stale /\ user[r].id \in users =>
    /\ pc[r] \in {"loadCodes", "loadHistory", "decide"}
         => user[r].active = active[user[r].id]
    /\ pc[r] \in {"loadHistory", "decide"} => user[r].codes = codes[user[r].id]
    /\ pc[r] = "save" =>
         /\ active[user[r].id] => user[r].active
         /\ ~user[r].active => codes[user[r].id] \subseteq user[r].codes

\* Stale or not, no code in memory is missing on record without a lost update.
KeptCodes(r) ==
  pc[r] \in {"loadHistory", "decide", "mail"} =>
    (user[r].id \in users \ overwritten /\ ~active[user[r].id]
       => user[r].codes \subseteq codes[user[r].id])

\* An activation writes an active user.
WritesActive(r) == Activating(r) => user[r].active

LocalInv(r) == LookInv(r) /\ CopyInv(r) /\ KeptCodes(r) /\ WritesActive(r)

\* Activated accounts, in the table and on the list of the job.
KeptInv ==
  /\ \A i \in users \cap confirmed : active[i] \/ i \in overwritten
  /\ todo \cap confirmed \subseteq raced \cup overwritten
  /\ ActivatedAreKept

SharedInv ==
  CrossedInv /\ KnownInv /\ KeptInv /\ EmailsUnique /\ MailedCodesAreStored

OverlapInv == SharedInv /\ \A r \in Requests : LocalInv(r)

\* What is known in every state the lemmas below start from.
Known == TypeInv /\ DeletionInv /\ OverlapInv

\* Types used over and over.
LEMMA Typed ==
  ASSUME TypeInv
  PROVE  /\ user \in [Requests -> User] /\ job \in [Requests -> Job]
         /\ pc = [q \in Requests |-> pc[q]]
         /\ \A r \in Requests : /\ user[r] \in User /\ user[r].id \in Nat
                                /\ user[r].active \in BOOLEAN
                                /\ user[r].codes \in SUBSET Nat /\ job[r] \in Job
         /\ users \subseteq Ids /\ lastId \in Nat /\ lastCode \in Nat /\ 0 \notin Ids
         /\ active \in [Ids -> BOOLEAN] /\ codes \in [Ids -> SUBSET Nat]
         /\ email \in [Ids -> Emails \cup {Nobody}]
BY BoundsAssumption DEF TypeInv, TypeOK, User, Ids

\* A step of one request leaves the control state of the others alone.
Apart(r) ==
  \A q \in Requests \ {r} : pc'[q] = pc[q] /\ user'[q] = user[q] /\ job'[q] = job[q]

LEMMA EndsApart ==
  ASSUME TypeInv, NEW r \in Requests, Finish(r)
  PROVE  Apart(r) /\ pc'[r] = "idle" /\ user'[r] = NoUser /\ job'[r] = NoJob
BY Typed DEF Finish, Apart

LEMMA GoesApart ==
  ASSUME TypeInv, NEW r \in Requests, NEW where, Goto(r, where)
  PROVE  /\ pc'[r] = where /\ job' = job
         /\ (\A q \in Requests \ {r} : user'[q] = user[q]) => Apart(r)
BY Typed DEF Goto, Apart

LEMMA StepApart ==
  ASSUME TypeInv, NEW r \in Requests, Step(r)
  PROVE  Apart(r)
<1>t. user \in [Requests -> User] /\ job \in [Requests -> Job]
  BY Typed
<1>1. ASSUME Finish(r)
      PROVE  Apart(r)
  BY <1>1, EndsApart
<1>2. ASSUME NEW where, Goto(r, where), \A q \in Requests \ {r} : user'[q] = user[q]
      PROVE  Apart(r)
  BY <1>2, GoesApart
<1>3. CASE LoadRow(r) \/ LoadCodes(r) \/ LoadHistory(r)
  BY <1>3, <1>2, <1>t DEF LoadRow, LoadCodes, LoadHistory
<1>4. CASE LoadNull(r) \/ KeepCode(r) \/ SaveRenewedCode(r)
  BY <1>4, <1>2 DEF LoadNull, KeepCode, SaveRenewedCode
<1>5. CASE MakeUser(r) \/ UpdateRegistration(r) \/ Activate(r) \/ RenewCode(r)
  BY <1>5, <1>2, <1>t DEF MakeUser, UpdateRegistration, Activate, RenewCode
<1>6. CASE SaveNewUser(r) \/ SaveRegistration(r)
  BY <1>6, <1>2, <1>t DEF SaveNewUser, SaveRegistration, SendUserRegistrationMessage
<1>7. CASE \/ LoadSeveral(r) \/ SaveFails(r) \/ RejectRegistered(r) \/ SignIn(r)
           \/ ActivateNobody(r) \/ RejectCode(r) \/ AlreadyActive(r)
           \/ SaveActivation(r) \/ ResendNothing(r) \/ SendMail(r)
  BY <1>7, <1>1 DEF LoadSeveral, SaveFails, RejectRegistered, SignIn, ActivateNobody,
     RejectCode, AlreadyActive, SaveActivation, ResendNothing, SendMail
<1>8. QED  BY <1>3, <1>4, <1>5, <1>6, <1>7 DEF Step

\* The id a request is about to create is used by nobody else.
LEMMA NewIdIsFresh ==
  ASSUME Known, NEW r \in Requests, pc[r] = "create"
  PROVE  /\ user[r].id \in Ids /\ user[r].id \notin users \cup todo \cup deleted \cup confirmed
         /\ \A m \in mailed \cup tasks : m.id # user[r].id
         /\ \A q \in Requests \ {r} : user[q].id # user[r].id
<1>1. user[r].id \in Ids /\ user[r].id \notin users \cup todo \cup deleted
  BY DEF Known, TypeInv, HasUser, DeletionInv, FreshIds
<1>2. user[r].id # 0  BY <1>1, Typed DEF Known
<1>3. \A q \in Requests \ {r} : user[q].id # user[r].id
  BY <1>1, <1>2 DEF Known, DeletionInv, FreshIds, OverlapInv, LocalInv, LookInv
<1>4. user[r].id \notin confirmed /\ \A m \in mailed \cup tasks : m.id # user[r].id
  BY <1>1 DEF Known, OverlapInv, SharedInv, KnownInv
<1>5. QED  BY <1>1, <1>3, <1>4

\* Creating a row changes no other.
LEMMA CreationLeavesRows ==
  ASSUME Known, NEW r \in Requests, SaveNewUser(r)
  PROVE  /\ pc[r] = "create" /\ user[r].id \notin users
         /\ users' = users \cup {user[r].id}
         /\ email'[user[r].id] = job[r].email
         /\ active'[user[r].id] = user[r].active /\ codes'[user[r].id] = user[r].codes
         /\ \A i \in users : /\ active'[i] = active[i] /\ codes'[i] = codes[i]
                             /\ email'[i] = email[i]
BY NewIdIsFresh, Typed DEF SaveNewUser, Known

\* Saving a user changes no other row, and its own only if there is one.
LEMMA SaveChangesOneRow ==
  ASSUME TypeInv, NEW r \in Requests, SaveUser(r)
  PROVE  /\ users' = users /\ email' = email
         /\ \A i \in users \ {user[r].id} : active'[i] = active[i] /\ codes'[i] = codes[i]
         /\ user[r].id \in users => /\ active'[user[r].id] = user[r].active
                                    /\ codes'[user[r].id] = user[r].codes
BY Typed DEF SaveUser

\* A save that is not a lost update deactivates nobody and, unless it activates the
\* user, drops no code.
LEMMA SaveKeepsRow ==
  ASSUME Known, NEW r \in Requests, pc[r] = "save", SaveUser(r)
  PROVE  \A i \in users \ overwritten' :
           ~active'[i] => ~active[i] /\ codes[i] \subseteq codes'[i]
<1>1. SUFFICES ASSUME NEW i \in users \ overwritten', ~active'[i]
               PROVE  ~active[i] /\ codes[i] \subseteq codes'[i]
  OBVIOUS
<1>2. CASE i # user[r].id  BY <1>1, <1>2, SaveChangesOneRow DEF Known
<1>3. CASE i = user[r].id
  <2>1. r \notin stale  BY <1>1, <1>3 DEF SaveUser
  <2>2. CopyInv(r)  BY DEF Known, OverlapInv, LocalInv
  <2>3. ~user[r].active /\ codes'[i] = user[r].codes
    BY <1>1, <1>3, SaveChangesOneRow DEF Known
  <2>4. QED  BY <1>1, <1>3, <2>1, <2>2, <2>3 DEF CopyInv
<1>4. QED  BY <1>2, <1>3

\* What a request knows survives any step in which it takes no part.
LEMMA OtherStays ==
  ASSUME Known, NEW q \in Requests,
         pc'[q] = pc[q], user'[q] = user[q], job'[q] = job[q],
         q \in stale => q \in stale', overwritten \subseteq overwritten',
         crossed \subseteq crossed', UNCHANGED <<table, deleted>>
  PROVE  LocalInv(q)'
<1>1. LocalInv(q)  BY DEF Known, OverlapInv
<1>2. LookInv(q)'  BY <1>1 DEF LocalInv, LookInv, At
<1>3. CopyInv(q)'  BY <1>1 DEF LocalInv, CopyInv
<1>4. KeptCodes(q)'  BY <1>1 DEF LocalInv, KeptCodes
<1>5. WritesActive(q)'  BY <1>1 DEF LocalInv, WritesActive, Activating
<1>6. QED  BY <1>2, <1>3, <1>4, <1>5 DEF LocalInv

\* Another registration creates its user: the look-up of this one may be outdated
\* then, which crossed says.
LEMMA OtherCreates ==
  ASSUME Known, NEW q \in Requests, NEW r \in Requests \ {q}, SaveNewUser(r)
  PROVE  LocalInv(q)'
<1>1. LocalInv(q)  BY DEF Known, OverlapInv
<1>2. Apart(r)
  BY GoesApart, Typed DEF SaveNewUser, SendUserRegistrationMessage, Known
<1>3. pc'[q] = pc[q] /\ user'[q] = user[q] /\ job'[q] = job[q]  BY <1>2 DEF Apart
<1>4. UNCHANGED <<deleted, crossed, stale, overwritten>>  BY DEF SaveNewUser
<1>5. pc[q] # "create" => user[q].id \in {0} \cup users \cup deleted
  BY <1>1 DEF LocalInv, LookInv
<1>6. user[q].id \in users' => user[q].id \in users
  <2>1. user[q].id # user[r].id  BY NewIdIsFresh, CreationLeavesRows
  <2>2. QED  BY <2>1, CreationLeavesRows
<1>7. LookInv(q)'
  <2>1. ASSUME pc[q] = "create" \/ (At(q, {"register"}) /\ user[q].id = 0),
               NEW i \in users', email'[i] = job[q].email
        PROVE  email'[i] \in crossed
    <3>1. CASE i \in users
      BY <1>1, <2>1, <3>1, CreationLeavesRows DEF LocalInv, LookInv
    <3>2. CASE i \notin users
      <4>1. i = user[r].id /\ email'[i] = job[r].email
        BY <2>1, <3>2, CreationLeavesRows
      <4>2. job[r].cmd = "register" /\ pc[r] = "create"
        BY CreationLeavesRows DEF Known, OverlapInv, LocalInv, LookInv
      <4>3. job[q].cmd = "register" /\ pc[q] # "idle"
        BY <1>1, <2>1 DEF At, LocalInv, LookInv
      <4>4. job[r].email \in Emails
        BY <4>2 DEF Known, OverlapInv, LocalInv, LookInv
      <4>5. q \in Registering(job[r].email) /\ r \in Registering(job[r].email)
        BY <2>1, <4>1, <4>2, <4>3 DEF Registering, InFlight
      <4>6. QED
        BY <4>1, <4>4, <4>5 DEF Known, OverlapInv, SharedInv, CrossedInv
    <3>3. QED  BY <3>1, <3>2
  <2>2. QED  BY <1>1, <1>3, <1>4, <2>1, CreationLeavesRows DEF LocalInv, LookInv, At
<1>8. CopyInv(q)'
  BY <1>1, <1>3, <1>4, <1>6, CreationLeavesRows DEF LocalInv, CopyInv
<1>9. KeptCodes(q)'
  BY <1>1, <1>3, <1>4, <1>6, CreationLeavesRows DEF LocalInv, KeptCodes
<1>10. WritesActive(q)'  BY <1>1, <1>3 DEF LocalInv, WritesActive, Activating
<1>11. QED  BY <1>7, <1>8, <1>9, <1>10 DEF LocalInv

\* Another request saves a user: whoever holds a copy of it is stale from now on.
LEMMA OtherSaves ==
  ASSUME Known, NEW q \in Requests, NEW r \in Requests \ {q}, pc[r] = "save", SaveUser(r),
         pc'[q] = pc[q], user'[q] = user[q], job'[q] = job[q],
         UNCHANGED <<deleted, crossed>>
  PROVE  LocalInv(q)'
<1>1. LocalInv(q)  BY DEF Known, OverlapInv
<1>2. LookInv(q)'
  BY <1>1, SaveChangesOneRow DEF LocalInv, LookInv, At, Known
<1>3. CopyInv(q)'
  <2>1. SUFFICES ASSUME q \notin stale', user[q].id \in users,
                        pc[q] \in {"loadCodes", "loadHistory", "decide", "save"}
                 PROVE  CopyInv(q)'
    BY SaveChangesOneRow DEF CopyInv, Known
  <2>2. user[q].id # user[r].id /\ q \notin stale
    BY <2>1 DEF SaveUser, Holding
  <2>3. QED
    BY <1>1, <2>1, <2>2, SaveChangesOneRow DEF LocalInv, CopyInv, Known
<1>4. KeptCodes(q)'
  <2>1. SUFFICES ASSUME pc[q] \in {"loadHistory", "decide", "mail"},
                        user[q].id \in users \ overwritten', ~active'[user[q].id]
                 PROVE  user[q].codes \subseteq codes'[user[q].id]
    BY SaveChangesOneRow DEF KeptCodes, Known
  <2>2. ~active[user[q].id] /\ codes[user[q].id] \subseteq codes'[user[q].id]
    BY <2>1, SaveKeepsRow
  <2>3. overwritten \subseteq overwritten'  BY DEF SaveUser
  <2>4. QED  BY <1>1, <2>1, <2>2, <2>3 DEF LocalInv, KeptCodes
<1>5. WritesActive(q)'  BY <1>1 DEF LocalInv, WritesActive, Activating
<1>6. QED  BY <1>2, <1>3, <1>4, <1>5 DEF LocalInv

\* The job deletes a user.
LEMMA OtherDeleted ==
  ASSUME Known, NEW q \in Requests, NEW i \in Ids, DeleteUser(i),
         deleted' = deleted \cup {i}, UNCHANGED <<control, crossed, copies>>
  PROVE  LocalInv(q)'
<1>1. LocalInv(q)  BY DEF Known, OverlapInv
<1>2. /\ users' = users \ {i} /\ email' = email
      /\ \A k \in users' : active'[k] = active[k] /\ codes'[k] = codes[k]
  BY Typed DEF DeleteUser, Known
<1>3. LookInv(q)'  BY <1>1, <1>2 DEF LocalInv, LookInv, At
<1>4. CopyInv(q)'  BY <1>1, <1>2 DEF LocalInv, CopyInv
<1>5. KeptCodes(q)'  BY <1>1, <1>2 DEF LocalInv, KeptCodes
<1>6. WritesActive(q)'  BY <1>1 DEF LocalInv, WritesActive, Activating
<1>7. QED  BY <1>3, <1>4, <1>5, <1>6 DEF LocalInv

\* A request that has ended knows nothing.
LEMMA EndsLocal ==
  ASSUME Known, TypeInv', NEW r \in Requests, Finish(r)
  PROVE  LocalInv(r)'
<1>1. pc'[r] = "idle" /\ user'[r].id = 0 /\ job'[r] = NoJob
  BY EndsApart DEF Known, NoUser
<1>2. 0 \notin users'  BY Typed DEF TypeInv, TypeOK, Known
<1>3. QED
  BY <1>1, <1>2 DEF LocalInv, LookInv, CopyInv, KeptCodes, WritesActive, Activating,
     At, NoJob

\* The three queries of a look-up.
LEMMA LoadLocal ==
  ASSUME Known, NEW r \in Requests,
         LoadRow(r) \/ LoadNull(r) \/ LoadCodes(r) \/ LoadHistory(r)
  PROVE  LocalInv(r)'
<1>t. /\ user \in [Requests -> User] /\ user[r] \in User /\ 0 \notin users
      /\ active \in [Ids -> BOOLEAN] /\ codes \in [Ids -> SUBSET Nat]
  BY Typed DEF Known
<1>i. LookInv(r) /\ CopyInv(r)  BY DEF Known, OverlapInv, LocalInv
<1>u. UNCHANGED <<table, deleted, crossed, copies>>
  BY DEF LoadRow, LoadNull, LoadCodes, LoadHistory
<1>1. CASE LoadRow(r)
  <2>1. PICK i \in users :
          user' = [user EXCEPT ![r].id = i, ![r].active = active[i]]
    BY <1>1 DEF LoadRow, Wanted, Registered
  <2>2. user'[r].id = i /\ user'[r].active = active[i]  BY <2>1, <1>t DEF User
  <2>3. pc[r] = "loadRow" /\ pc'[r] = "loadCodes" /\ UNCHANGED job
    BY <1>1, GoesApart DEF LoadRow, Known
  <2>4. LookInv(r)'  BY <1>i, <1>u, <2>2, <2>3 DEF LookInv, At
  <2>5. CopyInv(r)'  BY <1>u, <2>2, <2>3 DEF CopyInv
  <2>6. QED  BY <2>3, <2>4, <2>5 DEF LocalInv, KeptCodes, WritesActive, Activating
<1>2. CASE LoadNull(r)
  <2>1. /\ pc[r] = "loadRow" /\ pc'[r] = "decide"
        /\ UNCHANGED <<job, user>> /\ Wanted(r) = {}
    BY <1>2, GoesApart DEF LoadNull, Known
  <2>2. user[r].id = 0  BY <1>2, <1>i DEF LoadNull, LookInv
  <2>3. job[r].cmd = "register" => \A i \in users : email[i] # job[r].email
    BY <1>i, <2>1 DEF LookInv, Wanted, Registered
  <2>4. LookInv(r)'  BY <1>i, <1>u, <2>1, <2>2, <2>3 DEF LookInv, At
  <2>5. CopyInv(r)' /\ KeptCodes(r)'
    BY <1>t, <1>u, <2>1, <2>2 DEF CopyInv, KeptCodes
  <2>6. QED  BY <2>1, <2>4, <2>5 DEF LocalInv, WritesActive, Activating
<1>3. CASE LoadCodes(r)
  <2>1. pc[r] = "loadCodes" /\ pc'[r] = "loadHistory" /\ UNCHANGED job
    BY <1>3, GoesApart DEF LoadCodes, Known
  <2>2. /\ user'[r].id = user[r].id /\ user'[r].active = user[r].active
        /\ user'[r].codes = codes[user[r].id]
    BY <1>3, <1>t DEF LoadCodes, User
  <2>3. LookInv(r)'  BY <1>i, <1>u, <2>1, <2>2 DEF LookInv, At
  <2>4. CopyInv(r)'  BY <1>i, <1>u, <2>1, <2>2 DEF CopyInv
  <2>5. KeptCodes(r)'  BY <1>u, <2>2 DEF KeptCodes
  <2>6. QED  BY <2>1, <2>3, <2>4, <2>5 DEF LocalInv, WritesActive, Activating
<1>4. CASE LoadHistory(r)
  <2>1. pc[r] = "loadHistory" /\ pc'[r] = "decide" /\ UNCHANGED job
    BY <1>4, GoesApart DEF LoadHistory, Known
  <2>2. /\ user'[r].id = user[r].id /\ user'[r].active = user[r].active
        /\ user'[r].codes = user[r].codes
    BY <1>4, <1>t DEF LoadHistory, User
  <2>3. user[r].id # 0
    BY <2>1, Typed DEF Known, TypeInv, HasUser
  <2>4. LookInv(r)'  BY <1>i, <1>u, <2>1, <2>2, <2>3 DEF LookInv, At
  <2>5. CopyInv(r)'  BY <1>i, <1>u, <2>1, <2>2 DEF CopyInv
  <2>6. KeptCodes(r)'
    BY <1>u, <2>1, <2>2 DEF KeptCodes, Known, OverlapInv, LocalInv
  <2>7. QED  BY <2>1, <2>4, <2>5, <2>6 DEF LocalInv, WritesActive, Activating
<1>5. QED  BY <1>1, <1>2, <1>3, <1>4

\* The statements of a handler between its look-up and its save.
LEMMA DecideLocal ==
  ASSUME Known, NEW r \in Requests,
         \/ MakeUser(r) \/ UpdateRegistration(r) \/ Activate(r) \/ RenewCode(r)
         \/ KeepCode(r)
  PROVE  LocalInv(r)'
<1>t. user \in [Requests -> User] /\ user[r] \in User  BY Typed DEF Known
<1>i. LookInv(r) /\ CopyInv(r) /\ KeptCodes(r)  BY DEF Known, OverlapInv, LocalInv
<1>u. /\ UNCHANGED <<table, deleted, crossed, copies, job>>
      /\ pc[r] = "decide"
  BY GoesApart DEF MakeUser, UpdateRegistration, Activate, RenewCode, KeepCode, At, Known
<1>s. ASSUME pc'[r] = "save", user'[r].id = user[r].id,
             job[r].cmd \in {"activate", "confirm"} => user'[r].active,
             \/ user'[r].active
             \/ ~user[r].active /\ user[r].codes \subseteq user'[r].codes
      PROVE  LocalInv(r)'
  <2>1. LookInv(r)'  BY <1>i, <1>u, <1>s DEF LookInv, At
  <2>2. CopyInv(r)'  BY <1>i, <1>u, <1>s DEF CopyInv
  <2>3. QED
    BY <1>u, <1>s, <2>1, <2>2 DEF LocalInv, KeptCodes, WritesActive, Activating
<1>1. CASE MakeUser(r)
  <2>1. pc'[r] = "create" /\ job[r].cmd = "register" /\ user[r].id = 0
    BY <1>1, GoesApart DEF MakeUser, At, Known
  <2>2. LookInv(r)'  BY <1>i, <1>u, <2>1 DEF LookInv, At
  <2>3. QED
    BY <2>1, <2>2 DEF LocalInv, CopyInv, KeptCodes, WritesActive, Activating
<1>2. CASE UpdateRegistration(r)
  <2>1. /\ user'[r].id = user[r].id /\ user'[r].active = user[r].active
        /\ user'[r].codes = user[r].codes
    BY <1>2, <1>t DEF UpdateRegistration, User
  <2>2. pc'[r] = "save" /\ job[r].cmd = "register" /\ ~user[r].active
    BY <1>2, GoesApart DEF UpdateRegistration, At, Known
  <2>3. QED  BY <1>s, <2>1, <2>2
<1>3. CASE Activate(r)
  <2>1. user'[r].id = user[r].id /\ user'[r].active
    BY <1>3, <1>t DEF Activate, User
  <2>2. pc'[r] = "save"  BY <1>3, GoesApart DEF Activate, Known
  <2>3. QED  BY <1>s, <2>1, <2>2
<1>4. CASE RenewCode(r)
  <2>1. /\ user'[r].id = user[r].id
        /\ user'[r].codes = user[r].codes \cup {lastCode + 1}
    BY <1>4, <1>t DEF RenewCode, User
  <2>2. pc'[r] = "save" /\ job[r].cmd = "resend" /\ ~user[r].active
    BY <1>4, GoesApart DEF RenewCode, At, Known
  <2>3. QED  BY <1>s, <2>1, <2>2
<1>5. CASE KeepCode(r)
  <2>1. pc'[r] = "mail" /\ UNCHANGED user
    BY <1>5, GoesApart DEF KeepCode, Known
  <2>2. LookInv(r)'  BY <1>i, <1>u, <2>1 DEF LookInv, At
  <2>3. KeptCodes(r)'  BY <1>i, <1>u, <2>1 DEF KeptCodes
  <2>4. QED
    BY <2>1, <2>2, <2>3 DEF LocalInv, CopyInv, WritesActive, Activating
<1>6. QED  BY <1>1, <1>2, <1>3, <1>4, <1>5

\* The saves after which the handler goes on.
LEMMA SaveLocal ==
  ASSUME Known, TypeInv', NEW r \in Requests,
         SaveNewUser(r) \/ SaveRegistration(r) \/ SaveRenewedCode(r)
  PROVE  LocalInv(r)'
<1>t. user \in [Requests -> User] /\ 0 \notin users'
  BY Typed DEF TypeInv, TypeOK, Known
<1>i. LookInv(r)  BY DEF Known, OverlapInv, LocalInv
<1>1. CASE SaveNewUser(r) \/ SaveRegistration(r)
  <2>1. /\ pc[r] # "idle" /\ pc'[r] = "signIn"
        /\ UNCHANGED job /\ user'[r].id = 0
    BY <1>1, <1>t, GoesApart
       DEF SaveNewUser, SaveRegistration, SendUserRegistrationMessage, NoUser, Known
  <2>2. QED
    BY <1>i, <1>t, <2>1 DEF LocalInv, LookInv, CopyInv, KeptCodes, WritesActive,
       Activating, At
<1>2. CASE SaveRenewedCode(r)
  <2>1. /\ pc[r] = "save" /\ SaveUser(r) /\ UNCHANGED <<user, job, deleted>>
        /\ pc'[r] = "mail"
    BY <1>2, GoesApart DEF SaveRenewedCode, Known
  <2>2. users' = users /\ (user[r].id \in users => codes'[user[r].id] = user[r].codes)
    BY <2>1, SaveChangesOneRow DEF Known
  <2>3. LookInv(r)'  BY <1>i, <2>1, <2>2 DEF LookInv, At
  <2>4. KeptCodes(r)'  BY <2>1, <2>2 DEF KeptCodes
  <2>5. QED
    BY <2>1, <2>3, <2>4 DEF LocalInv, CopyInv, WritesActive, Activating
<1>3. QED  BY <1>1, <1>2

\* Every step of a handler keeps what the request itself knows.
LEMMA OwnStays ==
  ASSUME Known, TypeInv', NEW r \in Requests, Step(r)
  PROVE  LocalInv(r)'
<1>1. ASSUME Finish(r)
      PROVE  LocalInv(r)'
  BY <1>1, EndsLocal
<1>2. CASE \/ LoadSeveral(r) \/ SaveFails(r) \/ RejectRegistered(r) \/ SignIn(r)
           \/ ActivateNobody(r) \/ RejectCode(r) \/ AlreadyActive(r)
           \/ SaveActivation(r) \/ ResendNothing(r) \/ SendMail(r)
  BY <1>2, <1>1 DEF LoadSeveral, SaveFails, RejectRegistered, SignIn, ActivateNobody,
     RejectCode, AlreadyActive, SaveActivation, ResendNothing, SendMail
<1>3. QED  BY <1>2, LoadLocal, DecideLocal, SaveLocal DEF Step

\* A step of a handler changes neither the list of the job nor what it has deleted,
\* and the request either ends or keeps its command.
LEMMA StepFrame ==
  ASSUME TypeInv, NEW r \in Requests, Step(r)
  PROVE  /\ UNCHANGED <<todo, deleted, crossed>>
         /\ pc[r] # "idle" /\ (pc'[r] = "idle" \/ job' = job)
<1>1. UNCHANGED <<todo, deleted, crossed>>
  BY DEF Step, LoadRow, LoadNull, LoadSeveral, LoadCodes, LoadHistory, SaveFails,
     RejectRegistered, MakeUser, UpdateRegistration, SaveNewUser, SaveRegistration,
     SignIn, ActivateNobody, RejectCode, AlreadyActive, Activate, SaveActivation,
     ResendNothing, RenewCode, KeepCode, SaveRenewedCode, SendMail
<1>2. pc[r] # "idle"
  BY DEF Step, At, LoadRow, LoadNull, LoadSeveral, LoadCodes, LoadHistory, SaveFails,
     RejectRegistered, MakeUser, UpdateRegistration, SaveNewUser, SaveRegistration,
     SignIn, ActivateNobody, RejectCode, AlreadyActive, Activate, SaveActivation,
     ResendNothing, RenewCode, KeepCode, SaveRenewedCode, SendMail
<1>3. ASSUME Finish(r)
      PROVE  pc'[r] = "idle"
  BY <1>3, EndsApart
<1>4. pc'[r] = "idle" \/ job' = job
  BY <1>3 DEF Step, LoadRow, LoadNull, LoadSeveral, LoadCodes, LoadHistory, SaveFails,
     RejectRegistered, MakeUser, UpdateRegistration, SaveNewUser, SaveRegistration,
     SendUserRegistrationMessage, SignIn, ActivateNobody, RejectCode, AlreadyActive,
     Activate, SaveActivation, ResendNothing, RenewCode, KeepCode, SaveRenewedCode,
     SendMail, Goto
<1>5. QED  BY <1>1, <1>2, <1>4

\* Where a step of a handler makes a message, and for whom.
LEMMA StepMessages ==
  ASSUME TypeInv, NEW r \in Requests, Step(r), NEW m \in mailed' \cup tasks'
  PROVE  \/ m \in mailed \cup tasks
         \/ /\ m.id = user[r].id /\ m.code \in user[r].codes
            /\ \/ pc[r] = "mail" /\ UNCHANGED <<table, copies>>
               \/ SaveNewUser(r) \/ SaveRegistration(r)
<1>1. ASSUME NEW u, NEW n \in MessageTo(u)
      PROVE  n.id = u.id /\ n.code \in u.codes
  BY <1>1 DEF MessageTo
<1>2. CASE SendMail(r)  BY <1>1, <1>2 DEF SendMail, Send
<1>3. CASE SaveNewUser(r) \/ SaveRegistration(r)
  BY <1>1, <1>3 DEF SaveNewUser, SaveRegistration, SendUserRegistrationMessage
<1>4. CASE ~(SendMail(r) \/ SaveNewUser(r) \/ SaveRegistration(r))
  <2>1. UNCHANGED post
    BY <1>4 DEF Step, LoadRow, LoadNull, LoadSeveral, LoadCodes, LoadHistory, SaveFails,
       RejectRegistered, MakeUser, UpdateRegistration, SignIn, ActivateNobody,
       RejectCode, AlreadyActive, Activate, SaveActivation, ResendNothing, RenewCode,
       KeepCode, SaveRenewedCode
  <2>2. QED  BY <2>1
<1>5. QED  BY <1>2, <1>3, <1>4

\* Among requests that only end or go on, none becomes a registration.
LEMMA CrossedStays ==
  ASSUME Known, crossed \subseteq crossed',
         \A q \in Requests : pc'[q] # "idle" => pc[q] # "idle" /\ job'[q] = job[q]
  PROVE  CrossedInv'
BY DEF Known, OverlapInv, SharedInv, CrossedInv, Registering, InFlight

\* What is known of the ids in use.
LEMMA StepKnown ==
  ASSUME Known, NEW r \in Requests, Step(r)
  PROVE  KnownInv'
<1>1. users \subseteq users' /\ UNCHANGED deleted
  BY StepTable, StepFrame, SaveAddsNoRow DEF Known, SaveNewUser
<1>2. confirmed' \subseteq confirmed \cup users
  <2>1. CASE SaveActivation(r)  BY <2>1 DEF SaveActivation
  <2>2. CASE ~SaveActivation(r)
    BY <2>2 DEF Step, LoadRow, LoadNull, LoadSeveral, LoadCodes, LoadHistory, SaveFails,
       RejectRegistered, MakeUser, UpdateRegistration, SaveNewUser, SaveRegistration,
       SignIn, ActivateNobody, RejectCode, AlreadyActive, Activate, ResendNothing,
       RenewCode, KeepCode, SaveRenewedCode, SendMail
  <2>3. QED  BY <2>1, <2>2
<1>3. ASSUME NEW m \in mailed' \cup tasks'
      PROVE  m.id \in users' \cup deleted
  <2>1. CASE m \in mailed \cup tasks
    BY <1>1, <2>1 DEF Known, OverlapInv, SharedInv, KnownInv
  <2>2. CASE m.id = user[r].id /\ SaveNewUser(r)
    BY <2>2, CreationLeavesRows
  <2>3. CASE m.id = user[r].id /\ pc[r] \in {"mail", "save"}
    <3>1. user[r].id \in Ids  BY <2>3 DEF Known, TypeInv, HasUser
    <3>2. user[r].id \in {0} \cup users \cup deleted
      BY <2>3 DEF Known, OverlapInv, LocalInv, LookInv
    <3>3. QED  BY <1>1, <2>3, <3>1, <3>2, Typed DEF Known
  <2>4. QED  BY <2>1, <2>2, <2>3, StepMessages DEF Known, SaveRegistration
<1>4. QED  BY <1>1, <1>2, <1>3 DEF KnownInv, Known, OverlapInv, SharedInv

\* Activated accounts stay active unless an update of theirs is lost.
LEMMA StepKept ==
  ASSUME Known, NEW r \in Requests, Step(r)
  PROVE  KeptInv'
<1>k. KeptInv /\ UNCHANGED <<todo, deleted>>
  BY StepFrame DEF Known, OverlapInv, SharedInv
<1>1. CASE SaveNewUser(r)
  <2>1. UNCHANGED <<confirmed, raced, overwritten>>  BY <1>1 DEF SaveNewUser
  <2>2. users' \cap confirmed = users \cap confirmed
    BY <1>1, CreationLeavesRows, NewIdIsFresh
  <2>3. QED
    BY <1>k, <1>1, <2>1, <2>2, CreationLeavesRows DEF KeptInv, ActivatedAreKept
<1>2. CASE UNCHANGED <<table, copies, confirmed, raced>>
  BY <1>k, <1>2 DEF KeptInv, ActivatedAreKept
<1>3. CASE pc[r] = "save" /\ SaveUser(r) /\ ~SaveNewUser(r)
  <2>1. overwritten \subseteq overwritten' /\ users' = users
    BY <1>3 DEF SaveUser
  <2>2. \/ UNCHANGED <<confirmed, raced>>
        \/ /\ Activating(r)
           /\ confirmed' = confirmed \cup ({user[r].id} \cap users)
           /\ raced' = raced \cup ({user[r].id} \cap users \cap todo)
    <3>1. CASE SaveActivation(r)  BY <3>1 DEF SaveActivation, Activating
    <3>2. CASE ~SaveActivation(r)
      BY <1>3, <3>2 DEF Step, LoadRow, LoadNull, LoadSeveral, LoadCodes, LoadHistory,
         SaveFails, RejectRegistered, MakeUser, UpdateRegistration, SaveRegistration,
         SignIn, ActivateNobody, RejectCode, AlreadyActive, Activate, ResendNothing,
         RenewCode, KeepCode, SaveRenewedCode, SendMail
    <3>3. QED  BY <3>1, <3>2
  <2>3. ASSUME NEW i \in users \cap confirmed'
        PROVE  active'[i] \/ i \in overwritten'
    <3>1. CASE i \in confirmed
      BY <1>k, <1>3, <2>1, <2>3, <3>1, SaveKeepsRow DEF KeptInv
    <3>2. CASE i \notin confirmed
      <4>1. Activating(r) /\ i = user[r].id  BY <2>2, <2>3, <3>2
      <4>2. user[r].active  BY <4>1 DEF Known, OverlapInv, LocalInv, WritesActive
      <4>3. QED  BY <1>3, <2>3, <4>1, <4>2, SaveChangesOneRow DEF Known
    <3>3. QED  BY <3>1, <3>2
  <2>4. todo' \cap confirmed' \subseteq raced' \cup overwritten'
    BY <1>k, <2>1, <2>2 DEF KeptInv
  <2>5. ActivatedAreKept'
    <3>1. deleted \cap users = {}
      BY DEF Known, DeletionInv, DeletedStaysDeleted
    <3>2. QED  BY <1>k, <2>1, <2>2, <3>1 DEF KeptInv, ActivatedAreKept
  <2>6. QED  BY <2>1, <2>3, <2>4, <2>5 DEF KeptInv
<1>4. QED  BY <1>1, <1>2, <1>3, StepTable DEF Known

\* Addresses stay apart unless registrations crossed.
LEMMA StepEmails ==
  ASSUME Known, NEW r \in Requests, Step(r)
  PROVE  EmailsUnique'
<1>e. EmailsUnique /\ UNCHANGED crossed
  BY StepFrame DEF Known, OverlapInv, SharedInv
<1>1. CASE SaveNewUser(r)
  <2>1. \A i \in users : email[i] = job[r].email => email[i] \in crossed
    BY <1>1, CreationLeavesRows DEF Known, OverlapInv, LocalInv, LookInv
  <2>2. QED  BY <1>e, <1>1, <2>1, CreationLeavesRows DEF EmailsUnique
<1>2. CASE UNCHANGED <<users, email>>  BY <1>e, <1>2 DEF EmailsUnique
<1>3. QED  BY <1>1, <1>2, StepTable, SaveChangesOneRow DEF Known

\* The codes of messages stay on record.
LEMMA StepMailed ==
  ASSUME Known, NEW r \in Requests, Step(r)
  PROVE  MailedCodesAreStored'
<1>1. SUFFICES ASSUME NEW m \in mailed' \cup tasks',
                      m.id \in users' \ overwritten', ~active'[m.id]
               PROVE  m.code \in codes'[m.id]
  BY DEF MailedCodesAreStored
<1>2. CASE m \in mailed \cup tasks
  <2>1. m.id \in users /\ m.id \notin overwritten /\ ~active[m.id]
           => m.code \in codes[m.id]
    BY <1>2 DEF Known, OverlapInv, SharedInv, MailedCodesAreStored
  <2>2. CASE SaveNewUser(r)
    <3>1. m.id # user[r].id /\ overwritten' = overwritten
      BY <1>2, <2>2, CreationLeavesRows, NewIdIsFresh DEF SaveNewUser
    <3>2. QED  BY <1>1, <2>1, <2>2, <3>1, CreationLeavesRows
  <2>3. CASE pc[r] = "save" /\ SaveUser(r)
    <3>1. overwritten \subseteq overwritten' /\ users' = users
      BY <2>3 DEF SaveUser
    <3>2. QED  BY <1>1, <2>1, <2>3, <3>1, SaveKeepsRow
  <2>4. CASE UNCHANGED <<table, copies>>  BY <1>1, <2>1, <2>4
  <2>5. QED  BY <2>2, <2>3, <2>4, StepTable DEF Known
<1>3. CASE m.id = user[r].id /\ m.code \in user[r].codes /\ SaveNewUser(r)
  BY <1>3, CreationLeavesRows
<1>4. CASE m.id = user[r].id /\ m.code \in user[r].codes /\ SaveRegistration(r)
  BY <1>1, <1>4, SaveChangesOneRow DEF SaveRegistration, Known
<1>5. CASE /\ m.id = user[r].id /\ m.code \in user[r].codes
           /\ pc[r] = "mail" /\ UNCHANGED <<table, copies>>
  BY <1>1, <1>5 DEF Known, OverlapInv, LocalInv, KeptCodes
<1>6. QED  BY <1>2, <1>3, <1>4, <1>5, StepMessages DEF Known

\* A request that arrives knows nothing yet, and whether it crosses another
\* registration is recorded.
LEMMA ArriveOverlap ==
  ASSUME Known, NEW r \in Requests, Arrive(r)
  PROVE  OverlapInv'
<1>1. \E j : /\ Submit(r, j)
             /\ j.cmd = "register" =>
                  SubmitRegister(r) /\ j.id = 0 /\ j.email \in Emails
  <2>1. CASE SubmitRegister(r)
    <3>1. PICK e \in Emails : Submit(r, [NoJob EXCEPT !.email = e])
      BY <2>1 DEF SubmitRegister
    <3>2. [NoJob EXCEPT !.email = e].id = 0 /\ [NoJob EXCEPT !.email = e].email = e
      BY DEF NoJob
    <3>3. QED  BY <2>1, <3>1, <3>2
  <2>2. CASE SubmitActivate(r)
    <3>1. PICK i \in 1..lastId, c \in 0..lastCode :
            Submit(r, [NoJob EXCEPT !.cmd = "activate", !.id = i, !.code = c])
      BY <2>2 DEF SubmitActivate
    <3>2. [NoJob EXCEPT !.cmd = "activate", !.id = i, !.code = c].cmd = "activate"
      BY DEF NoJob
    <3>3. QED  BY <3>1, <3>2
  <2>3. CASE SubmitConfirm(r)
    <3>1. PICK e \in Emails :
            Submit(r, [NoJob EXCEPT !.cmd = "confirm", !.email = e])
      BY <2>3 DEF SubmitConfirm
    <3>2. [NoJob EXCEPT !.cmd = "confirm", !.email = e].cmd = "confirm"
      BY DEF NoJob
    <3>3. QED  BY <3>1, <3>2
  <2>4. CASE SubmitResend(r)
    <3>1. PICK i \in 1..lastId : Submit(r, [NoJob EXCEPT !.cmd = "resend", !.id = i])
      BY <2>4 DEF SubmitResend
    <3>2. [NoJob EXCEPT !.cmd = "resend", !.id = i].cmd = "resend"  BY DEF NoJob
    <3>3. QED  BY <3>1, <3>2
  <2>5. QED  BY <2>1, <2>2, <2>3, <2>4 DEF Arrive
<1>j. PICK j : /\ Submit(r, j)
               /\ j.cmd = "register" =>
                    SubmitRegister(r) /\ j.id = 0 /\ j.email \in Emails
  BY <1>1
<1>2. /\ Apart(r) /\ pc[r] = "idle" /\ pc'[r] = "loadRow" /\ job'[r] = j
      /\ UNCHANGED <<table, user, post, todo, jobs, overwritten>>
      /\ stale' = stale \ {r}
  <2>1. job \in [Requests -> Job] /\ pc = [q \in Requests |-> pc[q]]
    BY Typed DEF Known
  <2>2. /\ pc[r] = "idle" /\ pc' = [pc EXCEPT ![r] = "loadRow"]
        /\ job' = [job EXCEPT ![r] = j]
        /\ UNCHANGED <<table, user, post, todo, jobs, overwritten>>
        /\ stale' = stale \ {r}
    BY <1>j DEF Submit
  <2>3. pc'[r] = "loadRow" /\ job'[r] = j  BY <2>1, <2>2
  <2>4. Apart(r)  BY <2>1, <2>2 DEF Apart
  <2>5. QED  BY <2>2, <2>3, <2>4
<1>3. crossed \subseteq crossed'
  BY DEF Arrive, SubmitRegister, SubmitActivate, SubmitConfirm, SubmitResend
<1>4. CrossedInv'
  <2>1. ASSUME NEW e \in Emails, NEW q \in Requests \ {r},
               q \in Registering(e)', r \in Registering(e)'
        PROVE  e \in crossed'
    <3>1. q \in Registering(e)
      <4>1. pc'[q] # "idle" /\ job'[q].cmd = "register" /\ job'[q].email = e
        BY <2>1 DEF Registering, InFlight
      <4>2. QED  BY <1>2, <4>1 DEF Apart, Registering, InFlight
    <3>2. SubmitRegister(r) /\ job'[r].email = e
      BY <1>2, <1>j, <2>1 DEF Registering
    <3>3. PICK d \in Emails :
            /\ Submit(r, [NoJob EXCEPT !.email = d])
            /\ crossed' = IF Registering(d) = {} THEN crossed ELSE crossed \cup {d}
      BY <3>2 DEF SubmitRegister
    <3>4. d = e  BY <3>2, <3>3, Typed DEF Submit, NoJob, Known
    <3>5. QED  BY <3>1, <3>3, <3>4
  <2>2. ASSUME NEW e \in Emails, NEW p \in Requests \ {r}, NEW q \in Requests \ {r},
               p # q, p \in Registering(e)', q \in Registering(e)'
        PROVE  e \in crossed'
    <3>1. /\ pc'[p] # "idle" /\ job'[p].cmd = "register" /\ job'[p].email = e
          /\ pc'[q] # "idle" /\ job'[q].cmd = "register" /\ job'[q].email = e
      BY <2>2 DEF Registering, InFlight
    <3>2. p \in Registering(e) /\ q \in Registering(e)
      BY <1>2, <3>1 DEF Apart, Registering, InFlight
    <3>3. QED
      BY <1>3, <2>2, <3>2 DEF Known, OverlapInv, SharedInv, CrossedInv
  <2>3. QED  BY <2>1, <2>2 DEF CrossedInv
<1>5. LocalInv(r)'
  <2>1. user'[r].id = 0 /\ 0 \notin users
    BY <1>2, Typed DEF Known, OverlapInv, LocalInv, LookInv
  <2>2. QED
    BY <1>2, <1>j, <2>1 DEF LocalInv, LookInv, CopyInv, KeptCodes, WritesActive,
       Activating, At
<1>6. ASSUME NEW q \in Requests \ {r}
      PROVE  LocalInv(q)'
  BY <1>2, <1>3, OtherStays DEF Apart
<1>7. (KnownInv /\ KeptInv /\ EmailsUnique /\ MailedCodesAreStored)'
  BY <1>2, <1>3 DEF Known, OverlapInv, SharedInv, KnownInv, KeptInv, ActivatedAreKept,
     EmailsUnique, MailedCodesAreStored
<1>8. QED  BY <1>4, <1>5, <1>6, <1>7 DEF OverlapInv, SharedInv

\* Every step of a handler keeps what is known, by its own request and the others.
LEMMA StepOverlap ==
  ASSUME Known, TypeInv', NEW r \in Requests, Step(r)
  PROVE  OverlapInv'
<1>1. Apart(r)  BY StepApart DEF Known
<1>2. UNCHANGED <<deleted, crossed>>  BY StepFrame DEF Known
<1>3. CrossedInv'
  <2>1. \A q \in Requests : pc'[q] # "idle" => pc[q] # "idle" /\ job'[q] = job[q]
    BY <1>1, StepFrame DEF Apart, Known
  <2>2. QED  BY <1>2, <2>1, CrossedStays
<1>4. ASSUME NEW q \in Requests \ {r}
      PROVE  LocalInv(q)'
  <2>1. pc'[q] = pc[q] /\ user'[q] = user[q] /\ job'[q] = job[q]  BY <1>1 DEF Apart
  <2>2. CASE SaveNewUser(r)  BY <2>2, OtherCreates
  <2>3. CASE pc[r] = "save" /\ SaveUser(r)  BY <1>2, <2>1, <2>3, OtherSaves
  <2>4. CASE UNCHANGED <<table, copies>>  BY <1>2, <2>1, <2>4, OtherStays
  <2>5. QED  BY <2>2, <2>3, <2>4, StepTable DEF Known
<1>5. LocalInv(r)'  BY OwnStays
<1>6. QED
  BY <1>3, <1>4, <1>5, StepKnown, StepKept, StepEmails, StepMailed
     DEF OverlapInv, SharedInv

\* The end of a request that fails.
LEMMA AbortOverlap ==
  ASSUME Known, TypeInv', NEW r \in Requests, Abort(r)
  PROVE  OverlapInv'
<1>1. /\ Apart(r) /\ pc[r] # "idle" /\ pc'[r] = "idle"
      /\ UNCHANGED <<table, post, todo, history>>
  BY EndsApart DEF Abort, Known
<1>2. CrossedInv'  BY <1>1, CrossedStays DEF Apart
<1>3. LocalInv(r)'  BY EndsLocal DEF Abort
<1>4. ASSUME NEW q \in Requests \ {r}
      PROVE  LocalInv(q)'
  BY <1>1, OtherStays DEF Apart
<1>5. (KnownInv /\ KeptInv /\ EmailsUnique /\ MailedCodesAreStored)'
  BY <1>1 DEF Known, OverlapInv, SharedInv, KnownInv, KeptInv, ActivatedAreKept,
     EmailsUnique, MailedCodesAreStored
<1>6. QED  BY <1>2, <1>3, <1>4, <1>5 DEF OverlapInv, SharedInv

\* The job, the mail tasks and the clock.
LEMMA OtherOverlap ==
  ASSUME Known, RunTask \/ ListExpired \/ DeleteListed \/ DeletionFails \/ Expire
  PROVE  OverlapInv'
<1>c. UNCHANGED <<control, crossed, copies, confirmed, raced>>
  BY DEF RunTask, ListExpired, DeleteListed, DeletionFails, Expire
<1>x. CrossedInv'  BY <1>c, CrossedStays
<1>k. KnownInv /\ KeptInv /\ EmailsUnique /\ MailedCodesAreStored
  BY DEF Known, OverlapInv, SharedInv
<1>1. CASE DeleteListed
  <2>1. PICK i \in todo : /\ DeleteUser(i) /\ deleted' = deleted \cup {i}
                          /\ todo' \subseteq todo /\ UNCHANGED post
    BY <1>1 DEF DeleteListed
  <2>2. i \in Ids  BY <2>1 DEF Known, TypeInv, TypeOK
  <2>3. /\ users' = users \ {i} /\ email' = email
        /\ \A k \in users' : active'[k] = active[k] /\ codes'[k] = codes[k]
    BY <2>1, <2>2, Typed DEF DeleteUser, Known
  <2>4. \A q \in Requests : LocalInv(q)'  BY <1>c, <2>1, <2>2, OtherDeleted
  <2>5. KnownInv' /\ KeptInv'
    BY <1>c, <1>k, <2>1, <2>3 DEF KnownInv, KeptInv, ActivatedAreKept
  <2>6. EmailsUnique' /\ MailedCodesAreStored'
    BY <1>c, <1>k, <2>1, <2>3 DEF EmailsUnique, MailedCodesAreStored
  <2>7. QED  BY <1>x, <2>4, <2>5, <2>6 DEF OverlapInv, SharedInv
<1>2. CASE RunTask \/ ListExpired \/ DeletionFails \/ Expire
  <2>1. UNCHANGED <<table, deleted>> /\ mailed' \cup tasks' \subseteq mailed \cup tasks
    BY <1>2 DEF RunTask, Send, ListExpired, DeletionFails, Expire
  <2>2. \A q \in Requests : LocalInv(q)'  BY <1>c, <2>1, OtherStays
  <2>3. KnownInv' /\ EmailsUnique' /\ MailedCodesAreStored'
    BY <1>c, <1>k, <2>1 DEF KnownInv, EmailsUnique, MailedCodesAreStored
  <2>4. todo' \cap confirmed \subseteq raced \cup overwritten
    <3>1. CASE ListExpired
      BY <1>k, <3>1 DEF ListExpired, ExpiredRegistrations, KeptInv
    <3>2. CASE RunTask \/ DeletionFails \/ Expire
      BY <1>k, <3>2 DEF RunTask, DeletionFails, Expire, KeptInv
    <3>3. QED  BY <1>2, <3>1, <3>2
  <2>5. KeptInv'  BY <1>c, <1>k, <2>1, <2>4 DEF KeptInv, ActivatedAreKept
  <2>6. QED  BY <1>x, <2>2, <2>3, <2>5 DEF OverlapInv, SharedInv
<1>3. QED  BY <1>1, <1>2

\* The invariant of overlapping requests.
LEMMA OverlapInvariance == Spec => []OverlapInv
<1>1. Init => OverlapInv
  BY DEF Init, OverlapInv, SharedInv, CrossedInv, Registering, InFlight, KnownInv,
     KeptInv, ActivatedAreKept, EmailsUnique, MailedCodesAreStored, LocalInv, LookInv,
     CopyInv, KeptCodes, WritesActive, Activating, At, NoJob, NoUser
<1>2. ASSUME TypeInv, TypeInv', DeletionInv, OverlapInv, [Next]_vars
      PROVE  OverlapInv'
  <2>1. Known  BY <1>2 DEF Known
  <2>2. CASE UNCHANGED vars
    BY <1>2, <2>2 DEF OverlapInv, SharedInv, CrossedInv, Registering, InFlight,
       KnownInv, KeptInv, ActivatedAreKept, EmailsUnique, MailedCodesAreStored,
       LocalInv, LookInv, CopyInv, KeptCodes, WritesActive, Activating, At
  <2>3. QED
    BY <1>2, <2>1, <2>2, ArriveOverlap, StepOverlap, AbortOverlap, OtherOverlap DEF Next
<1>3. QED  BY <1>1, <1>2, TypeInvariance, DeletionInvariance, PTL DEF Spec

\* Two users share an address only if two registrations with it overlapped: the
\* look-up before the insert is all there is to prevent it.
THEOREM EmailsStayUnique == Spec => []EmailsUnique
<1>1. OverlapInv => EmailsUnique  BY DEF OverlapInv, SharedInv
<1>2. QED  BY <1>1, OverlapInvariance, PTL

\* A code that was mailed, or is waiting to be, stays on record until the account
\* is active or gone, or an update of it is lost.
THEOREM MailedCodesWork == Spec => []MailedCodesAreStored
<1>1. OverlapInv => MailedCodesAreStored  BY DEF OverlapInv, SharedInv
<1>2. QED  BY <1>1, OverlapInvariance, PTL

\* The job deletes no activated account but in the two races it is exposed to.
THEOREM ActivatedUsersAreKept == Spec => []ActivatedAreKept
<1>1. OverlapInv => ActivatedAreKept  BY DEF OverlapInv, SharedInv, KeptInv
<1>2. QED  BY <1>1, OverlapInvariance, PTL

\* Only the save of a copy that is older than another save deactivates an account.
THEOREM ActivationLasts == Spec => ActiveStaysActive
<1>1. ASSUME TypeInv, DeletionInv, OverlapInv, [Next]_vars,
             NEW i \in users \cap users', active[i], ~active'[i]
      PROVE  \E r \in stale : Saver(r, i)
  <2>k. Known  BY <1>1 DEF Known
  <2>1. PICK r \in Requests : pc[r] = "save" /\ SaveUser(r) /\ pc'[r] # "save"
    <3>1. ~ \E r \in Requests : SaveNewUser(r)  BY <1>1, <2>k, CreationLeavesRows
    <3>2. ~ \E k \in todo : DeleteUser(k)
      <4>1. ASSUME NEW k \in todo, DeleteUser(k)
            PROVE  FALSE
        BY <1>1, <4>1, Typed DEF DeleteUser
      <4>2. QED  BY <4>1
    <3>3. QED  BY <1>1, <3>1, <3>2, TableSteps
  <2>2. i = user[r].id /\ ~user[r].active
    BY <1>1, <2>1, SaveChangesOneRow
  <2>3. r \in stale
    BY <1>1, <2>1, <2>2 DEF OverlapInv, LocalInv, CopyInv
  <2>4. QED  BY <2>1, <2>2, <2>3 DEF Saver
<1>2. TypeInv /\ DeletionInv /\ OverlapInv /\ [Next]_vars =>
        [\A i \in users \cap users' :
           active[i] /\ ~active'[i] => \E r \in stale : Saver(r, i)]_vars
  BY <1>1
<1>3. QED
  BY <1>2, TypeInvariance, DeletionInvariance, OverlapInvariance, PTL
     DEF Spec, ActiveStaysActive
=============================================================================
