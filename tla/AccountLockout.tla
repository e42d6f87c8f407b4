--------------------------- MODULE AccountLockout ---------------------------
(***************************************************************************)
(* Locking one account after failed sign-ins and unlocking it with a code. *)
(*                                                                         *)
(* Every HTTP request is a slot of Requests that runs one command handler  *)
(* of the application layer.  A handler loads the user (SqlServerUser-     *)
(* Repository reads the User row and the security codes with two separate  *)
(* queries), changes the object in memory, and saves the whole object back *)
(* in one SQL transaction without checking that the row is still the one   *)
(* it loaded.  Locking an account publishes AccountLockedEvent, whose      *)
(* handler loads and saves the same user again inside the same request.    *)
(*                                                                         *)
(* Data abstraction.  Unlock codes are numbered in the order in which they *)
(* are generated; every code lives for one day, so the order of expiry is  *)
(* the order of generation and "expired" is one number: the newest code    *)
(* that is past its expiry.  Codes of the other three types, the names and *)
(* the password are not represented: no step of this component reads them. *)
(***************************************************************************)
EXTENDS Naturals, FiniteSets

CONSTANTS
  Requests,          \* slots for requests that run at the same time
  Allowed,           \* AccountConfiguration.AllowedFailedLoginAttempts
  Commands,          \* the kinds of request submitted in this instance
  Passwords,         \* may the passwords given be wrong (FALSE), right (TRUE)
  MaxCodes,          \* bound: how many unlock codes may ever be generated
  UrlMayBeMissing,   \* requests may arrive without a ReturnUrl
  MayAbort,          \* requests may die half way (audit or SQL error, recycle)
  MayLoseMail        \* the notification service may fail

ASSUME AllowedAssumption == Allowed \in Nat \ {0}
ASSUME CommandsAssumption == Commands \subseteq {"login", "unlock", "resend", "edit", "reset"}
ASSUME PasswordsAssumption == Passwords \subseteq BOOLEAN
ASSUME BoundAssumption == MaxCodes \in Nat
ASSUME FaultAssumption ==
  /\ UrlMayBeMissing \in BOOLEAN
  /\ MayAbort \in BOOLEAN
  /\ MayLoseMail \in BOOLEAN

VARIABLES
  row,        \* the stored User row
  codes,      \* the stored UserSecurityCode rows of type UnlockCode
  lastCode,   \* how many unlock codes have been generated
  expired,    \* codes 1..expired are past their ExpiryTime
  job,        \* per request: the command and its inputs
  pc,         \* per request: the next statement of its handler
  phase,      \* per request: which handler is running
  user,       \* per request: the User object in memory
  signedIn,   \* per request: whether it has signed the user in, and after what
  sent,       \* codes the notification service has been handed
  \* History variables: no guard reads them.
  stored,     \* every code that was ever saved
  unlockedDuring, \* requests during which the stored row was seen unlocked
  stale,      \* requests that hold a copy which another save has replaced since
  overwritten,    \* such a copy has been saved: an update was lost
  used,       \* codes that have unlocked the account
  failures,   \* wrong passwords since the last saved sign-in or unlock (capped)
  uncounted,  \* since then a request has died with a failure it had not saved
  stranded    \* a request has ended short of storing the code it was to store

store   == <<row, codes>>
clock   == <<lastCode, expired>>
control == <<job, pc, phase, user, signedIn>>
saves   == <<stored, unlockedDuring, stale, overwritten>>
tally   == <<used, failures, uncounted, stranded>>
history == <<saves, tally>>
vars    == <<store, clock, control, sent, history>>

----------------------------------------------------------------------------
(* The data. *)

Row  == [attempts : Nat, locked : BOOLEAN, active : BOOLEAN]
User == [row : Row, codes : SUBSET Nat]
Job  == [cmd : {"login", "unlock", "resend", "edit", "reset"},
         passwordOk : BOOLEAN, hasUrl : BOOLEAN, code : Nat]

NoJob  == [cmd |-> "edit", passwordOk |-> FALSE, hasUrl |-> FALSE, code |-> 0]
NoUser == [row |-> [attempts |-> 0, locked |-> FALSE, active |-> FALSE],
           codes |-> {}]

InFlight == {r \in Requests : pc[r] # "idle"}

\* Requests with a copy of the row in memory that they may still save.
Holding == {r \in Requests : pc[r] \in {"loadCodes", "decide", "save"}}

\* Requests that have found a wrong password and not saved the failure yet.
Mistakes ==
  {r \in Requests : /\ pc[r] = "save" /\ phase[r] = "main"
                    /\ job[r].cmd = "login" /\ ~job[r].passwordOk}

Newest(c, S) == c \in S /\ \A d \in S : d <= c
Live(S) == \E c \in S : c > expired

TypeOK ==
  /\ row \in Row
  /\ codes \subseteq Nat
  /\ lastCode \in Nat
  /\ expired \in Nat
  /\ job \in [Requests -> Job]
  /\ pc \in [Requests -> {"idle", "loadRow", "loadCodes", "decide", "save", "mail",
                          "signIn"}]
  /\ phase \in [Requests -> {"main", "event", "activate"}]
  /\ user \in [Requests -> User]
  /\ signedIn \in [Requests -> {"no", "password", "reset"}]
  /\ sent \subseteq Nat
  /\ stored \subseteq Nat
  /\ unlockedDuring \subseteq Requests
  /\ stale \subseteq Requests
  /\ overwritten \in BOOLEAN
  /\ used \subseteq Nat
  /\ failures \in Nat
  /\ uncounted \in BOOLEAN
  /\ stranded \in BOOLEAN

Init ==
  /\ row \in [attempts : {0}, locked : {FALSE}, active : BOOLEAN]
  /\ codes = {}
  /\ lastCode = 0
  /\ expired = 0
  /\ job = [r \in Requests |-> NoJob]
  /\ pc = [r \in Requests |-> "idle"]
  /\ phase = [r \in Requests |-> "main"]
  /\ user = [r \in Requests |-> NoUser]
  /\ signedIn = [r \in Requests |-> "no"]
  /\ sent = {}
  /\ stored = {}
  /\ unlockedDuring = {}
  /\ stale = {}
  /\ overwritten = FALSE
  /\ used = {}
  /\ failures = 0
  /\ uncounted = FALSE
  /\ stranded = FALSE

----------------------------------------------------------------------------
(* Control flow shared by the handlers. *)

\* The request ends, with an answer or an error.  Its inputs and its object are
\* garbage from here on.
End(r) ==
  /\ pc' = [pc EXCEPT ![r] = "idle"]
  /\ phase' = [phase EXCEPT ![r] = "main"]
  /\ job' = [job EXCEPT ![r] = NoJob]
  /\ user' = [user EXCEPT ![r] = NoUser]

Finish(r) == End(r) /\ UNCHANGED signedIn

\* The request ends by signing the user in, with a new session cookie.
LoginUser(r, how) == End(r) /\ signedIn' = [signedIn EXCEPT ![r] = how]

\* Another handler starts inside the same request and loads the user afresh.
Enter(r, ph) ==
  /\ pc' = [pc EXCEPT ![r] = "loadRow"]
  /\ phase' = [phase EXCEPT ![r] = ph]
  /\ user' = [user EXCEPT ![r] = NoUser]
  /\ UNCHANGED <<job, signedIn>>

Goto(r, where) ==
  /\ pc' = [pc EXCEPT ![r] = where]
  /\ UNCHANGED <<job, phase, signedIn>>

At(r, ph, cmds) ==
  /\ pc[r] = "decide"
  /\ phase[r] = ph
  /\ job[r].cmd \in cmds

----------------------------------------------------------------------------
(* Requests arrive.  Each can generate at most one code, so the budget of  *)
(* MaxCodes codes is checked when a request starts.                        *)

CodeBudget == lastCode + Cardinality(InFlight) < MaxCodes
Urls == IF UrlMayBeMissing THEN BOOLEAN ELSE {TRUE}

Submit(r, j, ph) ==
  /\ pc[r] = "idle"
  /\ j.cmd \in Commands
  /\ job' = [job EXCEPT ![r] = j]
  /\ pc' = [pc EXCEPT ![r] = "loadRow"]
  /\ phase' = [phase EXCEPT ![r] = ph]
  /\ signedIn' = [signedIn EXCEPT ![r] = "no"]
  /\ unlockedDuring' = IF row.locked THEN unlockedDuring \ {r}
                                     ELSE unlockedDuring \cup {r}
  /\ UNCHANGED <<store, clock, user, sent, stored, stale, overwritten, tally>>

SubmitLogin(r) ==
  /\ CodeBudget
  /\ \E ok \in Passwords, url \in Urls :
       Submit(r, [NoJob EXCEPT !.cmd = "login", !.passwordOk = ok, !.hasUrl = url],
              "main")

SubmitUnlock(r) ==
  /\ CodeBudget
  /\ \E c \in 0..lastCode, url \in Urls :
       Submit(r, [NoJob EXCEPT !.cmd = "unlock", !.code = c, !.hasUrl = url],
              "main")

\* ResendUnlockCodeCommandHandler only publishes the event.
SubmitResend(r) ==
  /\ CodeBudget
  /\ \E url \in Urls :
       Submit(r, [NoJob EXCEPT !.cmd = "resend", !.hasUrl = url], "event")

\* A command of another component that loads and saves the same user: one that
\* leaves the row alone, or a password reset.
SubmitEdit(r) ==
  \E c \in {"edit", "reset"} : Submit(r, [NoJob EXCEPT !.cmd = c], "main")

----------------------------------------------------------------------------
(* SqlServerUserRepository. *)

LoadRow(r) ==
  /\ pc[r] = "loadRow"
  /\ user' = [user EXCEPT ![r].row = row]
  /\ Goto(r, "loadCodes")
  /\ stale' = stale \ {r}
  /\ UNCHANGED <<store, clock, sent, stored, unlockedDuring, overwritten, tally>>

LoadCodes(r) ==
  /\ pc[r] = "loadCodes"
  /\ user' = [user EXCEPT ![r].codes = codes]
  /\ Goto(r, "decide")
  /\ UNCHANGED <<store, clock, sent, history>>

\* Update: the row and all codes are replaced by the object in memory.  Whoever
\* else holds a copy is stale from now on.
UpdateUser(r) ==
  /\ row' = user[r].row
  /\ codes' = user[r].codes
  /\ stored' = stored \cup user[r].codes
  /\ unlockedDuring' = IF user[r].row.locked THEN unlockedDuring
                                             ELSE unlockedDuring \cup InFlight
  /\ stale' = Holding \ {r}
  /\ overwritten' = (overwritten \/ r \in stale)

----------------------------------------------------------------------------
(* AuthenticateUserCommandHandler. *)

RejectLocked(r) ==
  /\ At(r, "main", {"login"})
  /\ user[r].row.locked
  /\ Finish(r)
  /\ UNCHANGED <<store, clock, sent, history>>

\* Variants: the counter runs the wrong way; the failure is counted, or the
\* password accepted, without looking at the other condition; a sign-in leaves
\* the counter alone; the lock is saved and the event is not published.
FailedLoginCountsDown(u) == [u EXCEPT !.attempts = u.attempts - 1]
WrongPasswordUnchecked(r) == ~user[r].row.locked
RightPasswordOfLocked(r) == job[r].passwordOk
SignedInKeepsCounter(u) == u
AfterFailureUnpublished(r) == Finish(r)

\* Each password check is made only on an account that was loaded unlocked.
WrongPassword(r) == ~user[r].row.locked /\ ~job[r].passwordOk
RightPassword(r) == ~user[r].row.locked /\ job[r].passwordOk
SignedIn(u) == [u EXCEPT !.attempts = 0]

\* A failure that locked the account publishes AccountLockedEvent.
AfterFailure(r) ==
  IF user[r].row.locked THEN Enter(r, "event") ELSE Finish(r)

FailedLogin(u) ==
  [u EXCEPT !.attempts = u.attempts + 1,
            !.locked = u.locked \/ u.attempts + 1 >= Allowed]

CountFailure(r) ==
  /\ At(r, "main", {"login"})
  /\ WrongPassword(r)
  /\ user' = [user EXCEPT ![r].row = FailedLogin(user[r].row)]
  /\ Goto(r, "save")
  /\ failures' = IF failures < Allowed THEN failures + 1 ELSE failures
  /\ UNCHANGED <<store, clock, sent, saves, used, uncounted, stranded>>

\* The counter is only written when there is something to reset.
AcceptPassword(r) ==
  /\ At(r, "main", {"login"})
  /\ RightPassword(r)
  /\ IF user[r].row.attempts > 0
     THEN /\ user' = [user EXCEPT ![r].row = SignedIn(user[r].row)]
          /\ Goto(r, "save")
     ELSE LoginUser(r, "password")
  /\ UNCHANGED <<store, clock, sent, history>>

\* A sign-in is audited after the save; if that fails nobody is signed in.
SaveSignIn(r) ==
  /\ pc[r] = "save" /\ phase[r] = "main"
  /\ job[r].cmd = "login" /\ job[r].passwordOk
  /\ UpdateUser(r)
  /\ LoginUser(r, "password") \/ (MayAbort /\ Finish(r))
  /\ failures' = 0
  /\ uncounted' = FALSE
  /\ UNCHANGED <<clock, sent, used, stranded>>

SaveFailure(r) ==
  /\ r \in Mistakes
  /\ UpdateUser(r)
  /\ AfterFailure(r)
  /\ UNCHANGED <<clock, sent, tally>>

----------------------------------------------------------------------------
(* UnlockUserCommandHandler, then ActivateUserCommandHandler by e-mail.    *)

AlreadyUnlocked(r) ==
  /\ At(r, "main", {"unlock"})
  /\ ~user[r].row.locked
  /\ Enter(r, "activate")
  /\ UNCHANGED <<store, clock, sent, history>>

\* Variants: any number that has not expired passes for a code; the lock is
\* lifted and the counter stays; the unlock codes survive the unlock.
ValidUnlockCodeUnchecked(r) == job[r].code > expired
UnlockedKeepsCounter(u) == [u EXCEPT !.locked = FALSE]
ExpireUnlockCodesNever(S) == S

Unlocked(u) == [u EXCEPT !.attempts = 0, !.locked = FALSE]
ExpireUnlockCodes(S) == {}

ValidUnlockCode(r) ==
  job[r].code \in user[r].codes /\ job[r].code > expired

RejectUnlock(r) ==
  /\ At(r, "main", {"unlock"})
  /\ user[r].row.locked
  /\ ~ValidUnlockCode(r)
  /\ Enter(r, "event")
  /\ UNCHANGED <<store, clock, sent, history>>

AcceptUnlock(r) ==
  /\ At(r, "main", {"unlock"})
  /\ user[r].row.locked
  /\ ValidUnlockCode(r)
  /\ user' = [user EXCEPT ![r] = [row   |-> Unlocked(user[r].row),
                                 codes |-> ExpireUnlockCodes(user[r].codes)]]
  /\ Goto(r, "save")
  /\ UNCHANGED <<store, clock, sent, history>>

SaveUnlock(r) ==
  /\ pc[r] = "save" /\ phase[r] = "main" /\ job[r].cmd = "unlock"
  /\ UpdateUser(r)
  /\ Enter(r, "activate")
  /\ used' = used \cup {job[r].code}
  /\ failures' = 0
  /\ uncounted' = FALSE
  /\ UNCHANGED <<clock, sent, stranded>>

AlreadyActive(r) ==
  /\ At(r, "activate", {"unlock"})
  /\ user[r].row.active
  /\ Finish(r)
  /\ UNCHANGED <<store, clock, sent, history>>

Activate(r) ==
  /\ At(r, "activate", {"unlock"})
  /\ ~user[r].row.active
  /\ user' = [user EXCEPT ![r].row.active = TRUE]
  /\ Goto(r, "save")
  /\ UNCHANGED <<store, clock, sent, history>>

SaveActivation(r) ==
  /\ pc[r] = "save" /\ phase[r] = "activate"
  /\ UpdateUser(r)
  /\ Finish(r)
  /\ UNCHANGED <<clock, sent, tally>>

----------------------------------------------------------------------------
(* GenerateAndEmailAccountLockedEmailHandler. *)

\* Variant: the new code is mailed and not saved.
AddCodeUnsaved(r) ==
  /\ lastCode' = lastCode + 1
  /\ user' = [user EXCEPT ![r].codes = user[r].codes \cup {lastCode + 1}]
  /\ Goto(r, "mail")

AddCode(r) ==
  /\ lastCode' = lastCode + 1
  /\ user' = [user EXCEPT ![r].codes = user[r].codes \cup {lastCode + 1}]
  /\ Goto(r, "save")

\* The event handler has ended: what the publisher has left to do saves nothing.
AfterEvent(r) == Finish(r)

\* A request ends without having stored the code that the account has none of.
Strands(r) ==
  stranded' = (stranded \/ (phase[r] = "event" /\ row.locked /\ codes = {}))

GenerateCode(r) ==
  /\ At(r, "event", {"login", "unlock", "resend"})
  /\ ~Live(user[r].codes)
  /\ job[r].hasUrl \/ user[r].codes # {}
  /\ AddCode(r)
  /\ UNCHANGED <<store, expired, sent, history>>

\* A missing ReturnUrl is taken from the previous code; without one the
\* handler fails on the null reference and nothing is saved.
FailWithoutUrl(r) ==
  /\ At(r, "event", {"login", "unlock", "resend"})
  /\ user[r].codes = {} /\ ~job[r].hasUrl
  /\ Finish(r)
  /\ Strands(r)
  /\ UNCHANGED <<store, clock, sent, saves, used, failures, uncounted>>

\* A code that is still valid is kept, and mailed again only on request.
KeepCode(r) ==
  /\ At(r, "event", {"login", "unlock", "resend"})
  /\ Live(user[r].codes)
  /\ IF job[r].cmd = "resend" THEN Goto(r, "mail") /\ UNCHANGED user
                              ELSE AfterEvent(r)
  /\ UNCHANGED <<store, clock, sent, history>>

SaveCode(r) ==
  /\ pc[r] = "save" /\ phase[r] = "event"
  /\ UpdateUser(r)
  /\ Goto(r, "mail") /\ UNCHANGED user
  /\ stranded' = FALSE
  /\ UNCHANGED <<clock, sent, used, failures, uncounted>>

\* The message carries the newest unlock code of the object in memory.
SendMail(r) ==
  /\ pc[r] = "mail"
  /\ \E c \in user[r].codes : Newest(c, user[r].codes) /\ sent' = sent \cup {c}
  /\ AfterEvent(r)
  /\ UNCHANGED <<store, clock, history>>

\* CommunicationService swallows the errors of the notification service.
LoseMail(r) ==
  /\ MayLoseMail
  /\ pc[r] = "mail"
  /\ AfterEvent(r)
  /\ UNCHANGED <<store, clock, sent, history>>

----------------------------------------------------------------------------
(* The other commands leave the lock, the counter and the unlock codes of  *)
(* the loaded object alone.  A password reset activates the account, and   *)
(* the orchestrator then signs the user in, locked or not.                 *)

Edit(r) ==
  /\ At(r, "main", {"edit", "reset"})
  /\ user' = [user EXCEPT ![r].row.active = @ \/ job[r].cmd = "reset"]
  /\ Goto(r, "save")
  /\ UNCHANGED <<store, clock, sent, history>>

SaveEdit(r) ==
  /\ pc[r] = "save" /\ phase[r] = "main" /\ job[r].cmd \in {"edit", "reset"}
  /\ UpdateUser(r)
  /\ IF job[r].cmd = "reset" THEN Goto(r, "signIn") /\ UNCHANGED user
                             ELSE Finish(r)
  /\ UNCHANGED <<clock, sent, tally>>

\* The user is looked up once more for the name on the session.
SignInAfterReset(r) ==
  /\ pc[r] = "signIn"
  /\ LoginUser(r, "reset")
  /\ UNCHANGED <<store, clock, sent, history>>

----------------------------------------------------------------------------
(* The environment. *)

\* The audit service or the database throws, or the process is recycled: the
\* request stops where it is and what it has saved stays saved.
Abort(r) ==
  /\ MayAbort
  /\ pc[r] # "idle"
  /\ Finish(r)
  /\ uncounted' = (uncounted \/ r \in Mistakes)
  /\ Strands(r)
  /\ UNCHANGED <<store, clock, sent, saves, used, failures>>

\* Time passes and the oldest code that is still valid expires.
Expire ==
  /\ expired < lastCode
  /\ expired' = expired + 1
  /\ UNCHANGED <<store, lastCode, control, sent, history>>

Step(r) ==
  \/ LoadRow(r) \/ LoadCodes(r)
  \/ RejectLocked(r) \/ CountFailure(r) \/ AcceptPassword(r)
  \/ SaveSignIn(r) \/ SaveFailure(r)
  \/ AlreadyUnlocked(r) \/ RejectUnlock(r) \/ AcceptUnlock(r) \/ SaveUnlock(r)
  \/ AlreadyActive(r) \/ Activate(r) \/ SaveActivation(r)
  \/ GenerateCode(r) \/ FailWithoutUrl(r) \/ KeepCode(r) \/ SaveCode(r)
  \/ SendMail(r) \/ LoseMail(r)
  \/ Edit(r) \/ SaveEdit(r) \/ SignInAfterReset(r)

Arrive(r) == SubmitLogin(r) \/ SubmitUnlock(r) \/ SubmitResend(r) \/ SubmitEdit(r)

Next ==
  \/ \E r \in Requests : Arrive(r) \/ Step(r) \/ Abort(r)
  \/ Expire

Spec == Init /\ [][Next]_vars

----------------------------------------------------------------------------
(* What holds however the requests interleave and fail. *)

\* The lock and the counter agree, in the table: an account is locked exactly
\* when the allowed number of failed sign-ins has been used up, and the counter
\* never goes past it.  Every handler writes both columns from the object it
\* loaded, however stale, so one that changed only one of them would show here.
WellFormed(u) ==
  /\ u.attempts <= Allowed
  /\ u.locked <=> u.attempts = Allowed

LockMatchesCounter == WellFormed(row)

\* A password is never accepted on an account that was locked during the whole
\* of the request: AuthenticateUserCommandHandler works on a copy, and the copy
\* is of a moment at which the request had already arrived.  A sign-in without a
\* password check is not covered: after a reset the user is signed in also when
\* the account is locked (AccountOrchestrator, 419).
SignInSawUnlocked ==
  \A r \in Requests : signedIn[r] = "password" => r \in unlockedDuring

\* No e-mail announces an unlock code that was never in the database: the event
\* handler saves the new code before it asks for the message to be sent, and a
\* request that dies in between leaves a code without a mail, not the reverse.
MailedCodesWereStored == sent \subseteq stored

\* The request whose save this step is.
Saver(r) == pc[r] = "save" /\ pc'[r] # "save"

\* The lock is lifted by an unlock with a stored code, or by a request that saves
\* a copy from before the lock over it: every other command that saves the user
\* leaves a locked account locked.
LockLiftedOnlyByCode ==
  [][(row.locked /\ ~row'.locked)
       => \E r \in Requests :
            /\ Saver(r)
            /\ \/ r \in stale
               \/ job[r].cmd = "unlock" /\ job[r].code \in codes]_vars

\* An account becomes locked by a sign-in with a wrong password, or by a request
\* that saves a copy from before an unlock over it.  The handler of AccountLocked-
\* Event can be such a request, for it saves the whole user it has loaded; with
\* a copy that is up to date it locks nobody.
LockedOnlyByWrongPassword ==
  [][(~row.locked /\ row'.locked)
       => \E r \in Requests :
            /\ Saver(r)
            /\ \/ r \in stale
               \/ phase[r] = "main" /\ job[r].cmd = "login" /\ ~job[r].passwordOk]_vars

----------------------------------------------------------------------------
(* What holds until an update is lost, that is until some request saves a   *)
(* copy over a newer save.  Requests overlap and die all the same.         *)

\* The counter is never ahead of the wrong passwords given since the last saved
\* sign-in or unlock, so nobody is locked out for fewer than Allowed mistakes,
\* also when requests fail half way.
NeverOvercounts == ~overwritten => row.attempts <= failures

\* Two things alone keep a wrong password from being counted: a lost update, and
\* the end of a request between its password check and its save, as when writing
\* the audit record fails (AuthenticateUserCommandHandler, 97).  Without either
\* the counter is exact as soon as the failures found have been saved.
CounterIsExact ==
  (~overwritten /\ ~uncounted /\ Mistakes = {}) => row.attempts = failures

\* An unlock code works once: what unlocked the account is no longer stored
\* (WhenHandlingTheCommand.cs of UnlockUserTests, 119).
UsedCodesAreGone == ~overwritten => used \cap codes = {}

AboutToStore(r) ==
  phase[r] = "event" /\ pc[r] \in {"loadRow", "loadCodes", "decide", "save"}

\* A locked account has an unlock code on record, or a request is about to store
\* one, or the request that was to do so has ended before: the process died after
\* the lock was saved, or the handler tripped over a missing ReturnUrl.  No other
\* course of events leaves a lock without a code.
LockedAccountHasCode ==
  (~overwritten /\ row.locked /\ codes = {})
    => stranded \/ \E r \in Requests : AboutToStore(r)
=============================================================================
