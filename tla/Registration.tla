---------------------------- MODULE Registration ----------------------------
(***************************************************************************)
(* Registering, activating and tidying up user records.                    *)
(*                                                                         *)
(* Requests run RegisterUserCommandHandler, ActivateUserCommandHandler (by *)
(* id with an access code, or by e-mail after the unlock page) and         *)
(* ResendActivationCodeCommandHandler.  Next to them RegistrationTidyUpJob *)
(* lists the users that were never activated and have no valid code, and   *)
(* deletes them one by one.  Nothing locks a user between the load and the *)
(* save of a request, or between the list of the job and its deletions,    *)
(* and the e-mail column has an index but no unique constraint.            *)
(*                                                                         *)
(* Data abstraction.  User ids and access codes are numbered in the order  *)
(* in which they are generated.  An access code lives for a week and is    *)
(* only generated for a user without a valid one, so codes expire in the   *)
(* order of generation: 1..expired are past their ExpiryTime.  Codes of    *)
(* the other types (they only keep a user off the job's list for longer),  *)
(* names, passwords, the lock and the answers to requests are not          *)
(* represented; of the password history only whether there is one.         *)
(***************************************************************************)
EXTENDS Naturals, FiniteSets

CONSTANTS
  Requests,     \* slots for requests that run at the same time
  Emails,       \* the e-mail addresses people register with
  Nobody,       \* the e-mail of an id that has no row yet
  Commands,     \* the kinds of request submitted in this instance
  MaxUsers,     \* bound: how many user records may ever be created
  MaxCodes,     \* bound: how many access codes may ever be generated
  MayAbort,     \* requests and deletions may fail; the audit service may fail
  MayLoseMail   \* the notification service may fail, a mail task may be dropped

ASSUME CommandsAssumption ==
  Commands \subseteq {"register", "activate", "confirm", "resend"}
ASSUME NobodyAssumption == Nobody \notin Emails
ASSUME BoundsAssumption == MaxUsers \in Nat /\ MaxCodes \in Nat
ASSUME FaultAssumption == MayAbort \in BOOLEAN /\ MayLoseMail \in BOOLEAN

VARIABLES
  users,      \* the User table: the ids with a row
  email,      \* User.Email of every id that was ever created
  active,     \* User.IsActive
  codes,      \* UserSecurityCode: the access codes of every id
  lastId,     \* how many ids have been generated
  lastCode,   \* how many access codes have been generated
  expired,    \* codes 1..expired are past their ExpiryTime
  job,        \* per request: the command and its inputs
  pc,         \* per request: the next statement of its handler
  user,       \* per request: the User object in memory; id 0 is null
  tasks,      \* registration messages of which the sending has not begun
  mailed,     \* the codes handed to the notification service, and for whom
  todo,       \* the tidy-up job: users it has listed and not yet deleted
  \* History variables: no guard reads them.
  deleted,    \* users the job has deleted
  confirmed,  \* users for which an activation was saved
  raced,      \* those of them that were on the job's list at that moment
  crossed,    \* addresses that two registrations in flight at once have named
  stale,      \* requests that hold a user of which another one has been saved since
  overwritten \* users that such a request has saved: an update was lost

table   == <<users, email, active, codes>>
numbers == <<lastId, lastCode, expired>>
control == <<job, pc, user>>
post    == <<tasks, mailed>>
jobs    == <<deleted, confirmed, raced>>
copies  == <<stale, overwritten>>
history == <<jobs, crossed, copies>>
vars    == <<table, numbers, control, post, todo, history>>

Ids == 1..MaxUsers

\* A request names its user by e-mail (id 0) or by id (no e-mail).
Job  == [cmd : {"register", "activate", "confirm", "resend"},
         email : Emails \cup {Nobody}, id : {0} \cup Ids, code : Nat]
User == [id : {0} \cup Ids, active : BOOLEAN, codes : SUBSET Nat, past : BOOLEAN]
Message == [id : Ids, code : Nat]

NoJob   == [cmd |-> "register", email |-> Nobody, id |-> 0, code |-> 0]
NoUser  == [id |-> 0, active |-> FALSE, codes |-> {}, past |-> FALSE]

InFlight == {r \in Requests : pc[r] # "idle"}
Newest(c, S) == c \in S /\ \A d \in S : d <= c
Live(S) == \E c \in S : c > expired
Registered(e) == {i \in users : email[i] = e}
Registering(e) ==
  {r \in InFlight : job[r].cmd = "register" /\ job[r].email = e}

\* Requests with a copy of user i in memory that they may still save.
Holding(i) ==
  {r \in Requests : /\ pc[r] \in {"loadCodes", "loadHistory", "decide", "save"}
                    /\ user[r].id = i}
Overdue == {i \in users : ~active[i] /\ ~Live(codes[i])}

TypeOK ==
  /\ users \subseteq Ids
  /\ email \in [Ids -> Emails \cup {Nobody}]
  /\ active \in [Ids -> BOOLEAN]
  /\ codes \in [Ids -> SUBSET Nat]
  /\ lastId \in 0..MaxUsers
  /\ lastCode \in Nat
  /\ expired \in Nat
  /\ job \in [Requests -> Job]
  /\ pc \in [Requests -> {"idle", "loadRow", "loadCodes", "loadHistory", "decide",
                          "create", "save", "signIn", "mail"}]
  /\ user \in [Requests -> User]
  /\ tasks \subseteq Message
  /\ mailed \subseteq Message
  /\ todo \subseteq Ids
  /\ deleted \subseteq Ids
  /\ confirmed \subseteq Ids
  /\ raced \subseteq Ids
  /\ crossed \subseteq Emails
  /\ stale \subseteq Requests
  /\ overwritten \subseteq Ids

Init ==
  /\ users = {}
  /\ email = [i \in Ids |-> Nobody]
  /\ active = [i \in Ids |-> FALSE]
  /\ codes = [i \in Ids |-> {}]
  /\ lastId = 0
  /\ lastCode = 0
  /\ expired = 0
  /\ job = [r \in Requests |-> NoJob]
  /\ pc = [r \in Requests |-> "idle"]
  /\ user = [r \in Requests |-> NoUser]
  /\ tasks = {}
  /\ mailed = {}
  /\ todo = {}
  /\ deleted = {}
  /\ confirmed = {}
  /\ raced = {}
  /\ crossed = {}
  /\ stale = {}
  /\ overwritten = {}

----------------------------------------------------------------------------
(* Control flow shared by the handlers. *)

\* The request ends, with an answer or an error: an audit record that cannot be
\* written turns the answer into an error and changes nothing else.
Finish(r) ==
  /\ pc' = [pc EXCEPT ![r] = "idle"]
  /\ job' = [job EXCEPT ![r] = NoJob]
  /\ user' = [user EXCEPT ![r] = NoUser]

Goto(r, where) ==
  /\ pc' = [pc EXCEPT ![r] = where]
  /\ UNCHANGED job

At(r, cmds) == pc[r] = "decide" /\ job[r].cmd \in cmds

----------------------------------------------------------------------------
(* Requests arrive.  A registration creates at most one user, and it or a  *)
(* resend one code: the budgets are checked when the request starts.       *)

\* Requests that may still generate an id or a code.
Undecided ==
  {r \in Requests :
     /\ pc[r] \in {"loadRow", "loadCodes", "loadHistory", "decide"}
     /\ job[r].cmd \in {"register", "resend"}}

CodeBudget == lastCode + Cardinality(Undecided) < MaxCodes
UserBudget == lastId + Cardinality(Undecided) < MaxUsers

Submit(r, j) ==
  /\ pc[r] = "idle"
  /\ j.cmd \in Commands
  /\ job' = [job EXCEPT ![r] = j]
  /\ pc' = [pc EXCEPT ![r] = "loadRow"]
  /\ stale' = stale \ {r}
  /\ UNCHANGED <<table, numbers, user, post, todo, jobs, overwritten>>

SubmitRegister(r) ==
  /\ UserBudget /\ CodeBudget
  /\ \E e \in Emails :
       /\ Submit(r, [NoJob EXCEPT !.email = e])
       /\ crossed' = IF Registering(e) = {} THEN crossed ELSE crossed \cup {e}

\* The id is the one in the cookie: of any user that was ever registered.
SubmitActivate(r) ==
  /\ \E i \in 1..lastId, c \in 0..lastCode :
       Submit(r, [NoJob EXCEPT !.cmd = "activate", !.id = i, !.code = c])
  /\ UNCHANGED crossed

\* The unlock page activates the account it was used for, without a code.
SubmitConfirm(r) ==
  /\ \E e \in Emails : Submit(r, [NoJob EXCEPT !.cmd = "confirm", !.email = e])
  /\ UNCHANGED crossed

SubmitResend(r) ==
  /\ CodeBudget
  /\ \E i \in 1..lastId : Submit(r, [NoJob EXCEPT !.cmd = "resend", !.id = i])
  /\ UNCHANGED crossed

----------------------------------------------------------------------------
(* SqlServerUserRepository. *)

\* The rows a request asks for: QuerySingle takes one, maps none to null and
\* throws when there are several.
Wanted(r) ==
  IF job[r].id = 0 THEN Registered(job[r].email) ELSE users \cap {job[r].id}

\* Variant: the query does not return the column IsActive, which is then FALSE.
LoadRowInactive(r) ==
  /\ pc[r] = "loadRow"
  /\ \E i \in Wanted(r) :
       Wanted(r) = {i} /\ user' = [user EXCEPT ![r].id = i]
  /\ Goto(r, "loadCodes")
  /\ UNCHANGED <<table, numbers, post, todo, history>>

LoadRow(r) ==
  /\ pc[r] = "loadRow"
  /\ \E i \in Wanted(r) :
       /\ Wanted(r) = {i}
       /\ user' = [user EXCEPT ![r].id = i, ![r].active = active[i]]
  /\ Goto(r, "loadCodes")
  /\ UNCHANGED <<table, numbers, post, todo, history>>

LoadNull(r) ==
  /\ pc[r] = "loadRow"
  /\ Wanted(r) = {}
  /\ Goto(r, "decide")
  /\ UNCHANGED <<table, numbers, user, post, todo, history>>

LoadSeveral(r) ==
  /\ pc[r] = "loadRow"
  /\ \E i, k \in Wanted(r) : i # k
  /\ Finish(r)
  /\ UNCHANGED <<table, numbers, post, todo, history>>

LoadCodes(r) ==
  /\ pc[r] = "loadCodes"
  /\ user' = [user EXCEPT ![r].codes = codes[user[r].id]]
  /\ Goto(r, "loadHistory")
  /\ UNCHANGED <<table, numbers, post, todo, history>>

\* Every user has a password history from the day of the registration on; one that
\* was deleted since the query for the row has none.
LoadHistory(r) ==
  /\ pc[r] = "loadHistory"
  /\ user' = [user EXCEPT ![r].past = user[r].id \in users]
  /\ Goto(r, "decide")
  /\ UNCHANGED <<table, numbers, post, todo, history>>

\* Variant: a save brings a deleted row back.
SaveAnyway(r) ==
  /\ users' = users \cup {user[r].id}
  /\ active' = [active EXCEPT ![user[r].id] = user[r].active]
  /\ codes' = [codes EXCEPT ![user[r].id] = user[r].codes]
  /\ stale' = (stale \cup Holding(user[r].id)) \ {r}
  /\ overwritten' = IF r \in stale THEN overwritten \cup {user[r].id} ELSE overwritten
  /\ UNCHANGED email

\* There is a row to insert next to the User row.
Inserts(u) == u.codes # {} \/ u.past

\* Update replaces the row, the codes and the history.  Without a row there is
\* nothing to replace: inserting a code or a password fails on the foreign key, and
\* a save that has nothing to insert commits without any effect.
SaveUser(r) ==
  /\ \/ /\ user[r].id \in users
        /\ active' = [active EXCEPT ![user[r].id] = user[r].active]
        /\ codes' = [codes EXCEPT ![user[r].id] = user[r].codes]
     \/ /\ user[r].id \notin users
        /\ ~Inserts(user[r])
        /\ UNCHANGED <<active, codes>>
  /\ stale' = (stale \cup Holding(user[r].id)) \ {r}
  /\ overwritten' = IF r \in stale THEN overwritten \cup {user[r].id} ELSE overwritten
  /\ UNCHANGED <<users, email>>

\* The stored procedure DeleteUser, in a transaction; an id without a row is fine.
DeleteUser(i) ==
  /\ users' = users \ {i}
  /\ active' = [active EXCEPT ![i] = FALSE]
  /\ codes' = [codes EXCEPT ![i] = {}]
  /\ UNCHANGED email

SaveFails(r) ==
  /\ pc[r] = "save"
  /\ user[r].id \notin users
  /\ Inserts(user[r])
  /\ Finish(r)
  /\ UNCHANGED <<table, numbers, post, todo, history>>

----------------------------------------------------------------------------
(* RegisterUserCommandHandler. *)

RejectRegistered(r) ==
  /\ At(r, {"register"})
  /\ user[r].active
  /\ Finish(r)
  /\ UNCHANGED <<table, numbers, post, todo, history>>

\* Variants: the new user is created active; the id of the request is not copied.
NewUserActive(i, c) == [id |-> i, active |-> TRUE, codes |-> {c}, past |-> TRUE]
NewUserWithoutId(i, c) == [id |-> 0, active |-> FALSE, codes |-> {c}, past |-> TRUE]

NewUser(i, c) == [id |-> i, active |-> FALSE, codes |-> {c}, past |-> TRUE]

\* Variant: a registration that was not activated is made once more.
MakeUserAgain(r) ==
  /\ At(r, {"register"})
  /\ ~user[r].active
  /\ lastId < MaxUsers
  /\ lastId' = lastId + 1
  /\ lastCode' = lastCode + 1
  /\ user' = [user EXCEPT ![r] = NewUser(lastId + 1, lastCode + 1)]
  /\ Goto(r, "create")
  /\ UNCHANGED <<table, expired, post, todo, history>>

\* The id was generated by the orchestrator for this request.  (The bound on ids
\* repeats what the budget has made sure of.)
MakeUser(r) ==
  /\ At(r, {"register"})
  /\ user[r].id = 0
  /\ lastId < MaxUsers
  /\ lastId' = lastId + 1
  /\ lastCode' = lastCode + 1
  /\ user' = [user EXCEPT ![r] = NewUser(lastId + 1, lastCode + 1)]
  /\ Goto(r, "create")
  /\ UNCHANGED <<table, expired, post, todo, history>>

\* Name and password are replaced and the password joins the history; the codes
\* and IsActive stay as loaded.
UpdateRegistration(r) ==
  /\ At(r, {"register"})
  /\ user[r].id # 0
  /\ ~user[r].active
  /\ user' = [user EXCEPT ![r].past = TRUE]
  /\ Goto(r, "save")
  /\ UNCHANGED <<table, numbers, post, todo, history>>

\* A message carries the newest access code of the object in memory; without one
\* composing it fails.
MessageTo(u) ==
  {[id |-> u.id, code |-> c] : c \in {c \in u.codes : Newest(c, u.codes)}}

\* CommunicationService swallows the errors of the notification service.
Send(messages) ==
  mailed' = mailed \cup messages \/ (MayLoseMail /\ UNCHANGED mailed)

\* The registration message is left to a task of its own that nobody waits for.
\* Then the audit record is written and the handler of the object ends.
SendUserRegistrationMessage(r) ==
  /\ tasks' = tasks \cup MessageTo(user[r])
  /\ user' = [user EXCEPT ![r] = NoUser]
  /\ Goto(r, "signIn")
  /\ UNCHANGED mailed

\* The task runs when the thread pool gets to it, or never: the process is recycled.
RunTask ==
  \E t \in tasks :
    /\ tasks' = tasks \ {t}
    /\ Send({t})
    /\ UNCHANGED <<table, numbers, control, todo, history>>

SaveNewUser(r) ==
  /\ pc[r] = "create"
  /\ users' = users \cup {user[r].id}
  /\ email' = [email EXCEPT ![user[r].id] = job[r].email]
  /\ active' = [active EXCEPT ![user[r].id] = user[r].active]
  /\ codes' = [codes EXCEPT ![user[r].id] = user[r].codes]
  /\ SendUserRegistrationMessage(r)
  /\ UNCHANGED <<numbers, todo, history>>

SaveRegistration(r) ==
  /\ pc[r] = "save" /\ job[r].cmd = "register"
  /\ SaveUser(r)
  /\ SendUserRegistrationMessage(r)
  /\ UNCHANGED <<numbers, todo, jobs, crossed>>

\* The orchestrator looks the user up once more to sign it in; the look-up throws
\* when there are two users with the address.
SignIn(r) ==
  /\ pc[r] = "signIn"
  /\ Finish(r)
  /\ UNCHANGED <<table, numbers, post, todo, history>>

----------------------------------------------------------------------------
(* ActivateUserCommandHandler. *)

ValidCode(r) ==
  \/ job[r].cmd = "confirm"
  \/ job[r].code \in user[r].codes /\ job[r].code > expired

\* The handler dereferences the user it did not find.
ActivateNobody(r) ==
  /\ At(r, {"activate", "confirm"})
  /\ user[r].id = 0
  /\ Finish(r)
  /\ UNCHANGED <<table, numbers, post, todo, history>>

RejectCode(r) ==
  /\ At(r, {"activate", "confirm"})
  /\ user[r].id # 0
  /\ ~ValidCode(r)
  /\ Finish(r)
  /\ UNCHANGED <<table, numbers, post, todo, history>>

AlreadyActive(r) ==
  /\ At(r, {"activate", "confirm"})
  /\ user[r].id # 0
  /\ ValidCode(r)
  /\ user[r].active
  /\ Finish(r)
  /\ UNCHANGED <<table, numbers, post, todo, history>>

Activate(r) ==
  /\ At(r, {"activate", "confirm"})
  /\ user[r].id # 0
  /\ ValidCode(r)
  /\ ~user[r].active
  /\ user' = [user EXCEPT ![r].active = TRUE, ![r].codes = {}]
  /\ Goto(r, "save")
  /\ UNCHANGED <<table, numbers, post, todo, history>>

SaveActivation(r) ==
  /\ pc[r] = "save" /\ job[r].cmd \in {"activate", "confirm"}
  /\ SaveUser(r)
  /\ Finish(r)
  /\ confirmed' = confirmed \cup ({user[r].id} \cap users)
  /\ raced' = raced \cup ({user[r].id} \cap users \cap todo)
  /\ UNCHANGED <<numbers, post, todo, deleted, crossed>>

----------------------------------------------------------------------------
(* ResendActivationCodeCommandHandler. *)

ResendNothing(r) ==
  /\ At(r, {"resend"})
  /\ user[r].id = 0 \/ user[r].active
  /\ Finish(r)
  /\ UNCHANGED <<table, numbers, post, todo, history>>

NeedsCode(u) == ~Live(u.codes)

\* Variant: the new code is mailed and not saved.
RenewCodeUnsaved(r) ==
  /\ At(r, {"resend"})
  /\ user[r].id # 0 /\ ~user[r].active
  /\ NeedsCode(user[r])
  /\ lastCode' = lastCode + 1
  /\ user' = [user EXCEPT ![r].codes = user[r].codes \cup {lastCode + 1}]
  /\ Goto(r, "mail")
  /\ UNCHANGED <<table, lastId, expired, post, todo, history>>

RenewCode(r) ==
  /\ At(r, {"resend"})
  /\ user[r].id # 0 /\ ~user[r].active
  /\ NeedsCode(user[r])
  /\ lastCode' = lastCode + 1
  /\ user' = [user EXCEPT ![r].codes = user[r].codes \cup {lastCode + 1}]
  /\ Goto(r, "save")
  /\ UNCHANGED <<table, lastId, expired, post, todo, history>>

KeepCode(r) ==
  /\ At(r, {"resend"})
  /\ user[r].id # 0 /\ ~user[r].active
  /\ ~NeedsCode(user[r])
  /\ Goto(r, "mail")
  /\ UNCHANGED <<table, numbers, user, post, todo, history>>

SaveRenewedCode(r) ==
  /\ pc[r] = "save" /\ job[r].cmd = "resend"
  /\ SaveUser(r)
  /\ Goto(r, "mail")
  /\ UNCHANGED <<numbers, user, post, todo, jobs, crossed>>

\* The message is the last statement, after the audit record.
SendMail(r) ==
  /\ pc[r] = "mail"
  /\ Send(MessageTo(user[r]))
  /\ Finish(r)
  /\ UNCHANGED <<table, numbers, tasks, todo, history>>

----------------------------------------------------------------------------
(* RegistrationTidyUpJob, started every night. *)

\* Variants: the query forgets IsActive, or the expiry of the codes.
ExpiredRegistrationsActiveToo == {i \in users : ~Live(codes[i])}
ExpiredRegistrationsWithoutCode == {i \in users : ~active[i] /\ codes[i] = {}}

ExpiredRegistrations == {i \in users : ~active[i] /\ ~Live(codes[i])}

ListExpired ==
  /\ todo = {}
  /\ ExpiredRegistrations # {}
  /\ todo' = ExpiredRegistrations
  /\ UNCHANGED <<table, numbers, control, post, history>>

\* DeleteUserCommandHandler deletes first and writes the audit record then; if
\* that fails the job stops and leaves the rest of its list.
DeleteListed ==
  \E i \in todo :
    /\ DeleteUser(i)
    /\ deleted' = deleted \cup {i}
    /\ todo' = todo \ {i} \/ (MayAbort /\ todo' = {})
    /\ UNCHANGED <<numbers, control, post, confirmed, raced, crossed, copies>>

\* A deletion that throws ends the run as well, with nothing deleted.
DeletionFails ==
  /\ MayAbort
  /\ todo # {}
  /\ todo' = {}
  /\ UNCHANGED <<table, numbers, control, post, history>>

----------------------------------------------------------------------------
(* The environment. *)

Abort(r) ==
  /\ MayAbort
  /\ pc[r] # "idle"
  /\ Finish(r)
  /\ UNCHANGED <<table, numbers, post, todo, history>>

\* Time passes and the oldest valid code expires.  A code is valid for a week, so
\* no request takes long enough to save a code that has expired unsaved.
Expire ==
  /\ expired < lastCode
  /\ \A r \in Requests :
       pc[r] \in {"create", "save"} =>
         expired + 1 \notin user[r].codes \ codes[user[r].id]
  /\ expired' = expired + 1
  /\ UNCHANGED <<table, lastId, lastCode, control, post, todo, history>>

Step(r) ==
  \/ LoadRow(r) \/ LoadNull(r) \/ LoadSeveral(r)
  \/ LoadCodes(r) \/ LoadHistory(r) \/ SaveFails(r)
  \/ RejectRegistered(r) \/ MakeUser(r) \/ UpdateRegistration(r)
  \/ SaveNewUser(r) \/ SaveRegistration(r) \/ SignIn(r)
  \/ ActivateNobody(r) \/ RejectCode(r) \/ AlreadyActive(r) \/ Activate(r)
  \/ SaveActivation(r)
  \/ ResendNothing(r) \/ RenewCode(r) \/ KeepCode(r) \/ SaveRenewedCode(r)
  \/ SendMail(r)

Arrive(r) ==
  SubmitRegister(r) \/ SubmitActivate(r) \/ SubmitConfirm(r) \/ SubmitResend(r)

Next ==
  \/ \E r \in Requests : Arrive(r) \/ Step(r) \/ Abort(r)
  \/ RunTask
  \/ ListExpired \/ DeleteListed \/ DeletionFails
  \/ Expire

Spec == Init /\ [][Next]_vars

\* The job is started every night.  A deletion may fail, and the audit of one, but
\* not every one for ever.
FairSpec == Spec /\ WF_vars(ListExpired) /\ SF_vars(DeleteListed)

----------------------------------------------------------------------------
(* What holds however requests and the job interleave and fail. *)

\* A user the job has deleted stays deleted: a request that loaded the user before
\* the deletion, or in the middle of it, cannot bring the row back when it saves.
DeletedStaysDeleted == deleted \cap users = {}

\* Among these handlers and the job only an activation makes an account active, with
\* one of its codes or from the unlock page; registering twice, asking for a new
\* code or saving a stale object never does.  (The other way to activate an account,
\* a password reset, is not one of these handlers.)
ActiveMeansConfirmed == {i \in users : active[i]} \subseteq confirmed

\* The job deletes no activated account, with two exceptions that the code does not
\* keep from happening: the activation was saved while the user was on the list of
\* a run (RegistrationManager, 30-36), or it was undone by the save of an older copy.
ActivatedAreKept == deleted \cap confirmed \subseteq raced \cup overwritten

\* No two users share an e-mail address unless two registrations with the address
\* were in flight at the same moment: all look-ups by e-mail rely on it, for Query-
\* Single throws when there are two rows, and nothing but the look-up of Register-
\* UserCommandHandler (64) keeps the addresses apart.
EmailsUnique ==
  \A i, k \in users : email[i] = email[k] => i = k \/ email[i] \in crossed

\* A code that was mailed to somebody who has not activated the account yet, or is
\* waiting to be mailed, is on record until a save of an older copy drops it.  It
\* may have expired all the same: re-registering mails the code there is.
MailedCodesAreStored ==
  \A m \in mailed \cup tasks :
    m.id \in users \ overwritten /\ ~active[m.id] => m.code \in codes[m.id]

\* The request whose save of user i this step is.
Saver(r, i) == pc[r] = "save" /\ pc'[r] # "save" /\ user[r].id = i

\* An activated account stays active for as long as it exists, also when its address
\* is registered again, until a copy from before the activation is saved over it.
ActiveStaysActive ==
  [][\A i \in users \cap users' :
       active[i] /\ ~active'[i] => \E r \in stale : Saver(r, i)]_vars

\* An expired registration does not stay: it is deleted or activated, or gets a
\* new code, also when deletions and audit records fail again and again.
TidyUpProgress == \A i \in Ids : i \in Overdue ~> i \notin Overdue

----------------------------------------------------------------------------
(* What a text says and the code does not keep. *)

\* The job deletes "expired registrations" (RegistrationManager.cs:24): a user it
\* deletes is, at that moment, not active and without a valid code.
OnlyExpiredDeleted == [][users \ users' \subseteq Overdue]_vars
=============================================================================
