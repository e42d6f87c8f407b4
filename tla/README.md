# Verification of SFA employer users

This directory holds TLA+ models of the employer-users service (`src/src`), the
TLC configurations that check them and TLAPS proofs about them. The service lets
people register, activate an account by a code, sign in, get locked out and
unlocked, reset and change passwords and change their e-mail address. It is an
ASP.NET site in front of a SQL Server database, with a nightly clean-up job and a
read API beside it.

## 1. Inventory

"App" below is `src/src/SFA.DAS.EmployerUsers.Application`.

| Component | State it keeps | Operations | What is hard | What makes it correct |
|---|---|---|---|---|
| Sign-in and account lock (App `AuthenticateUser`, `UnlockUser`, `ResendUnlockCode`, `Events/AccountLocked`) | `FailedLoginAttempts`, `IsLocked`, unlock codes | sign in, unlock, ask for a new code; the lock publishes an event whose handler runs inside the same request | overlapping requests save whole stale objects; a request may stop after any step; mail and audit may fail | lock and counter agree; only a code lifts a lock; only wrong passwords set it; a locked account can be unlocked |
| Registration and activation (App `RegisterUser`, `ActivateUser`, `ResendActivationCode`) | `User` rows, `IsActive`, access codes | register, register again, activate by code, activate by e-mail after the unlock page, resend | look-up before create; stale save over an activation; the registration mail is sent by a task nobody waits for | one user per address; activation lasts; mailed codes are on record |
| Registration tidy-up job (`RegistrationTidyUpJob`) | the list it works from | list expired registrations, delete each | the list is old when it is used; a failed deletion or audit record ends the run | deletes expired registrations, all of them in the end, and nothing else; deletions are final |
| Password lifecycle (App `RequestPasswordResetCode`, `PasswordReset`, `ChangePassword`) | password, history, reset codes | request a code, reset, change | the audit record precedes the save; the current password is compared with a copy; a reset is not added to the history | no reset without a record; a recent password is not chosen again; a code works once; only who knows the password changes it |
| E-mail change (App `RequestChangeEmail`, `ChangeEmail`) | `Email`, confirm-e-mail codes with the pending address | request, confirm | address checked at the request, used at the confirmation; several changes pending | an address is one whose mail the user reads; addresses stay unique |
| User repository (`Infrastructure/Data/SqlServer`, `Users.Database`) | tables `User`, `UserSecurityCode`, `UserPasswordHistory` | load by id or e-mail, create, update, delete, lists | three queries per load; whole-object update without a version; READ UNCOMMITTED; opposite lock orders of update and delete | an update is all or nothing; every call ends |
| Account web layer (`Web/Orchestrators`, `Web/Controllers`) | cookies | chains commands: unlock then activate, register then sign in, reset then sign in | the second command may fail | what the page says is what happened |
| Notification (App `Services/Notification`) | none | sends a mail with the newest code of the object in memory | errors are swallowed | the code in a mail works |
| Authorization code store (`Web/Plumbing/Ids`) | Redis keys | store, get, remove, list, revoke | keys disappear between listing and reading; a revocation collects first and deletes later | a revocation that succeeds leaves nothing behind and takes nothing else along |
| Read API (`Api`) | none | page of users, search | count and page are read apart while users come and go; page arithmetic | a caller that reads all pages sees everybody |
| API client, password hashing, bulk user creator, IdentityServer hosting and relying parties, web-job host, relying-party components, older SQL | none of interest | | | not modelled, see section 8 |

### How they interact

A browser request runs a controller action, which calls `AccountOrchestrator`,
which sends one or more commands through the mediator. A command handler loads a
`User` through `IUserRepository`, changes the object and saves it. Handlers share
state only through the database. `AccountLockedEvent` is a synchronous callback:
`PublishAsync` runs the handler of the event before the publisher goes on.
Audit records and mails go to external services; an audit failure is an exception
in the handler, a mail failure is swallowed. The clean-up job is a process of its
own on the same database.

`SqlServerUserRepository.Update` writes every column and replaces all codes and the
whole password history, inside one transaction and without a version check. This
makes every pair of handlers that touch the same user a possible lost update, and
it is the reason why all models here are built the same way: *load row*, *load
codes*, *decide*, *save*, one step each, with other requests in between.

## 2. Modules

| Module | What it is |
|---|---|
| `AccountLockout` | one account, any number of overlapping requests: sign-in, unlock, resend, password reset and "another command that saves the user" |
| `Registration` | many users, overlapping requests to register, activate, confirm and resend, and the clean-up job |
| `Credentials` | many users, overlapping requests to reset and change the password and to change the e-mail address |
| `UserStore` | the abstract store the three modules above assume: a save happens at one moment, whole or not at all, but for one update that is overlooked |
| `SqlUserRepository` | the repository statement by statement, with locks, roll-back and deadlocks; refines `UserStore` |
| `AuthCodeStore` | the Redis store of authorization codes |
| `Paging` | reading the user list page by page |
| `MC...` | instances of these for TLC |
| `AccountLockoutProofs`, `RegistrationProofs`, `CredentialsProofs`, `SqlUserRepositoryProofs`, `AuthCodeStoreProofs`, `PagingProofs` | theorems about them |

The three modules of handlers have the same form. A handler is a request slot `r`
with a program counter `pc[r]`, its inputs `job[r]` and the loaded object `user[r]`;
each query and each save is one step. They differ in which columns of the user they
keep: lock and counter, existence and activation, password and address. A save is
one step in them because of the refinement `SqlUserRepository!Implements`.

All three also keep the same two history variables. `stale` holds the requests whose
copy of a user another save has replaced since it was loaded, and `overwritten` (a flag,
or the set of users) remembers that such a copy was saved: an update was lost.
Nothing in the code prevents that, and it is the main way in which requests that
overlap disturb each other; the properties say what holds until then, or who may
break them. A slot is used again as soon as its request has been answered.

### AccountLockout

| TLA+ | Code |
|---|---|
| `row`, `codes` | the columns `FailedLoginAttempts`, `IsLocked`, `IsActive` of the account, and its unlock codes |
| `job`, `pc`, `phase`, `user` | of one HTTP request: the command, the next statement, which handler is running (`main`, the event handler, or the activation after an unlock), the loaded object |
| `signedIn` | whether the request has signed the user in, and whether with a password or after a reset |
| `LoadRow`, `LoadCodes`, `UpdateUser` | `SqlServerUserRepository.GetByEmailAddress`, `GetById`, `Update` |
| `RejectLocked` ... `SaveFailure`, `LoginUser` | `AuthenticateUserCommandHandler`, and the session cookie of `AccountOrchestrator.Login` |
| `AlreadyUnlocked` ... `SaveUnlock` | `UnlockUserCommandHandler` and its validator |
| `AlreadyActive`, `Activate`, `SaveActivation` | `ActivateUserCommandHandler`, as the unlock page runs it |
| `GenerateCode`, `FailWithoutUrl`, `KeepCode`, `SaveCode`, `SendMail`, `LoseMail` | `GenerateAndEmailAccountLockedEmailHandler`, `CommunicationService` |
| `Edit`, `SaveEdit` | a password reset, or any other command that loads and saves this user |
| `SignInAfterReset` | `AccountOrchestrator.ResetPassword`, which signs the user in whether the account is locked or not |
| `Abort` | an exception from the audit service or the database, or a recycled process |
| `Expire` | a day goes by |

Codes are numbered in the order of generation. All unlock codes live for one day,
so one number, `expired`, tells which are too old. The password check is an input
of the request (`passwordOk`). The setting `UseStaticCodeGenerator` is taken to be
`"false"`, as in production. `ReturnUrl` is present or missing, which is what the
event handler tells apart. `failures` counts the wrong passwords since the last saved
sign-in or unlock; `uncounted` and `stranded` remember that a request has ended with
a failure it had not saved, or short of storing the code a locked account has none of.

### Registration

| TLA+ | Code |
|---|---|
| `users`, `email`, `active`, `codes` | tables `User` and `UserSecurityCode` (access codes) |
| `Wanted`, `LoadRow`, `LoadNull`, `LoadSeveral`, `LoadCodes`, `LoadHistory` | look-up by id or by e-mail, in three queries; `QuerySingle` throws on two rows |
| `SaveUser`, `SaveFails`, `DeleteUser` | `Update`, stored procedure `DeleteUser`. The save of a deleted user fails on a foreign key if it has a code or a password to insert; a user loaded while it was being deleted has none, and its save is answered as a success |
| `RejectRegistered` ... `SignIn` | `RegisterUserCommandHandler` and the sign-in of `AccountOrchestrator.Register` |
| `tasks`, `RunTask` | the registration message: a task of its own that nobody waits for, run later or never |
| `ActivateNobody` ... `SaveActivation` | `ActivateUserCommandHandler` and its validator |
| `ResendNothing` ... `SendMail` | `ResendActivationCodeCommandHandler` |
| `ListExpired`, `DeleteListed`, `DeletionFails` | `RegistrationManager`, `GetUsersWithExpiredRegistrations`, `DeleteUserCommandHandler` |

The three clocks the code compares (`DateTime.Now`, `DateTime.UtcNow`, `GETDATE()`)
are one clock here: the site and the database run in UTC. An access code
is valid for a week, so a request is taken to save a new code before it expires;
every other expiry may fall between any two steps.

### Credentials

| TLA+ | Code |
|---|---|
| `rows`, `codes`, `history` | the columns `Email`, `Password`, `IsActive`; security codes with their type and `PendingValue`; password history |
| `Wanted`, `LoadRow`, `LoadNull`, `LoadSeveral`, `LoadCodes`, `LoadHistory` | `GetById`, `GetByEmailAddress`: three queries; `QuerySingle` throws on two rows |
| `UpdateUser` | `SqlServerUserRepository.Update` |
| `RequestResetUnknown`, `AddResetCode`, `KeepResetCode` | `RequestPasswordResetCodeCommandHandler` |
| `RejectReset`, `Reset`, `AuditReset`, `SaveReset`, `SignIn` | `PasswordResetCommandHandler`, its validator, and the sign-in of the orchestrator |
| `RejectChange`, `Change`, `SaveChange` | `ChangePasswordCommandHandler` and its validator |
| `RejectAddress`, `AddressIsFree`, `AddConfirmCode` | `RequestChangeEmailCommandValidator` (which looks the address up first) and its handler |
| `SaveNewCode`, `SendMail` | the save and the message of both requests; `CommunicationService` |
| `RejectConfirmation`, `ConfirmEmail`, `SaveEmail` | `ChangeEmailCommandHandler` and its validator |
| `Abort`, `Expire` | an exception or a recycled process; a day goes by |

What is set, audited, used, confirmed and voided is kept in history variables
(`chosen`, `audited`, `used`, `confirmed`, `voided`), and `knew` holds the requests
whose password was the stored one at some moment while they ran.

### UserStore and SqlUserRepository

| TLA+ | Code |
|---|---|
| `disk`, `data`, `lock` | the three tables by user: as committed, as changed by open transactions, and who changed them |
| `Begin`, `Commit`, `RollBack` | `UnitOfWork`: `BeginTransaction`, `CommitChanges`, `Dispose` |
| `InsertRow`, `UpdateRow`, `DeleteRow`, `NoChildren`, `ChildrenForRow` | procedures `CreateUser`, `UpdateUser`, the end of `DeleteUser` with its foreign-key check |
| `DeleteCodes`, `DeletePast`, `InsertCode`, `InsertPast`, `LoopEnds`, `NoUserForChild` | `UpdateUserSecurityCodes`, `UpdateUserPasswordHistory` and the first statements of `DeleteUser` |
| `Needs`, `Free`, `Deadlocked`, `EndDeadlock` | the locks of SQL Server and its deadlock monitor (external) |
| `StatementFails` | a timeout or a lost connection |

`UserStore` has four steps: a call begins, takes effect (`Perform`), is refused, or is
overlooked (`Overlook`). The refinement maps `table` to the committed rows, so `Commit`
is `Perform`, a roll-back is `Refuse`, and all other statements are stutters.
`Overlook` is the `Commit` of an update that found no row and had no code and no
password to insert: a user deleted between the queries of its load is such an
object (`Bare`), and its update is answered "ok" without effect. The store answers
"error" to some calls that took effect, since a connection can be lost during COMMIT.
Data of open transactions may be read at the isolation level READ UNCOMMITTED, and
foreign-key checks and updates do read it in the model; the loads of the handlers'
modules read committed data only.

### AuthCodeStore

| TLA+ | Code |
|---|---|
| `StoreAsync`, `GetAsync`, `RemoveAsync` | the methods of that name |
| `Call`, `FetchPage`, `ReadKey`, `ReadNull`, `ScanEnds` | `GetAllAsync` and the first loop of `RevokeAsync`: `Keys()` is a SCAN that fetches pages ahead; each value is read by a call of its own, and null is dereferenced |
| `RemoveFound`, `RevokeEnds` | the second loop of `RevokeAsync` |
| `Evict`, `Fail` | Redis drops a key; a command fails |

### Paging

| TLA+ | Code |
|---|---|
| `PageOf` | `GetUsers.sql`, `SearchUsers.sql`: `OFFSET ... FETCH NEXT` |
| `GetUsers`, `GetUserCount`, `IndexPages` | `UserOrchestrator.UsersIndex` and its two queries |
| `SearchUsers`, `SearchPages` | `SearchOrchestrator.UserSearch` |
| `CallFails`, `WalkAgain` | a caller of the API that retries, or starts from page one |
| `Register`, `Delete` | other users of the table |

## 3. Runs

| Run | Result | What it shows |
|---|---|---|
| `lockout_concurrent` | holds | two overlapping requests of sign-in, unlock, resend and reset that may stop anywhere, lack a `ReturnUrl` or lose a mail: `LockMatchesCounter`, `SignInSawUnlocked`, `MailedCodesWereStored`, `LockLiftedOnlyByCode`, `LockedOnlyByWrongPassword`, and until an update is lost `NeverOvercounts`, `CounterIsExact`, `UsedCodesAreGone`, `LockedAccountHasCode` |
| `registration_concurrent` | holds | two overlapping requests, the detached mails and the job, all failures: `DeletedStaysDeleted`, `ActiveMeansConfirmed`, `ActivatedAreKept`, `MailedCodesAreStored`, `ActiveStaysActive` |
| `registration_duplicates` | holds | two overlapping requests to register one address or to confirm it from the unlock page, with the job and all failures: `EmailsUnique`, `ActiveStaysActive`, also when there are two users with the address |
| `registration_serial` | holds | one request at a time, confirmation from the unlock page and lost mails included, next to the job: `TidyUpProgress` under fairness of the job, and `ActivatedAreKept` over longer histories |
| `registration_stale_list` | violated | finding 1 |
| `credentials_concurrent` | holds | two overlapping requests of all five kinds on one user, any of which may stop anywhere: `ResetsAreAudited`, `ChangerKnewPassword`, and until an update of the user is lost `LatestPasswordStands`, `ResetCodesWorkOnce`, `RecentChangesBarred` |
| `credentials_pending` | holds | two overlapping requests for changes of one user to two free addresses, both pending at once: `AddressesAreProven`, and until an update is lost `OlderChangesAreVoid` |
| `credentials_two_users` | holds | two users, one request at a time that may stop anywhere; both may move to one address, and reset codes are asked for twice: `ResetCodesWorkOnce`, `AddressesAreProven` |
| `credentials_email_taken` | violated | finding 2 |
| `repository` | holds | two transactions on two users with failures and deadlocks: `UsersAreWhole`, the refinement `Implements`, and `CallsEnd` under fairness |
| `auth_codes` | holds | one listing or revoking call while codes are stored, redeemed and dropped: `RevokedAreGone`, `OthersAreKept`, `GoneKeyRevokesNothing`, `ListingIsComplete` |
| `paging` | holds | a caller reads page after page while users come and go: `NobodySkipped`; the two page counts, `PageCountsAgree` |

`registration_serial` and `credentials_two_users` have one request slot for reasons
of size; their properties are checked or proved for overlapping requests as well,
but for `TidyUpProgress`, which is about the job. Where overlap breaks a property,
the property names what it is broken by: a lost update (`overwritten`, or for an
action property a saver that is `stale`), two registrations of one address in flight
at once (`crossed`), an activation saved while the user was on the list of the job
(`raced`), a failure or a code that a request died with (`uncounted`, `stranded`).
Without these exceptions TLC finds each of them violated, and with them the
properties say that there is no other way. Type invariants are checked in the
concurrent runs and in `repository`; those of `AuthCodeStore` and `Paging` are
proved.

### Findings

1. The job deletes users who got a new code, or activated, after the list was made
   (`RegistrationManager.cs:36`).
2. Two users can end up with one e-mail address: whether an address is free is
   looked up when the change is requested and not again when it is confirmed
   (`ChangeEmailCommandHandler.cs:36`). No two requests need overlap.

### Other observations

These are the exceptions that the properties make, and what the models show besides.

* Two wrong passwords at once count as one, and a failed audit record loses a
  failure (`AuthenticateUserCommandHandler.cs:88-96`): `CounterIsExact` says that
  nothing else does.
* A first lock by a sign-in without a `ReturnUrl` fails in the event handler after
  the lock has been saved: no code, no mail
  (`GenerateAndEmailAccountLockedEmailHandler.cs:63`). So does a request that dies
  between the two saves. The next resend or wrong unlock code with a `ReturnUrl`
  stores one.
* The handler of the lock event can lock an account again that was unlocked after
  the handler had loaded it (`GenerateAndEmailAccountLockedEmailHandler.cs:66`).
* A password reset signs the user in without looking at the lock, which stays
  (`AccountOrchestrator.cs:419`).
* Two registrations at once create two users with one address
  (`RegisterUserCommandHandler.cs:75`), and a registration that loaded the user
  before its activation saves it inactive again (line 84).
* Registering again with an expired registration that the job has not removed yet
  mails the expired code (`RegisterUserCommandHandler.cs:82`).
* The update of a user who was deleted in the middle of its load is answered as a
  success (`SqlServerUserRepository.cs:94-98`): an activation then ends without an
  error and without effect.
* A deletion of the job that throws leaves the rest of the list to another night
  (`RegistrationManager.cs:42`); if it throws every night, all users after it stay.
* The rule of the last N passwords does not see passwords set by a reset, which are
  not added to the history (`ChangePasswordCommandValidator.cs:73`), so
  `RecentChangesBarred` speaks of registration and changes only.
* A request that overlaps a password reset or change can save the old password, or a
  used code, back with the rest of its copy.
* A caller of the read API can miss a user when another one is deleted meanwhile.

## 4. Bounds

`Requests` has two members in the concurrent runs: the known ways to disturb a
handler need two actors at most, and the job, a mail task or the event handler is a
third in effect. With three the state space is out of reach of a five-minute run; the
theorems are for any number.

Lockout: `Allowed = 2` is the smallest limit at which a failure can be counted
without locking. `MaxCodes = 2` bounds the codes ever generated, an old one and a
new one. Of the commands that save the user besides, the run has the reset: another
command writes back what it has loaded, as the reset of an active account does.

Registration: `MaxUsers` is the number of rows ever created, two for one duplicate.
One e-mail address is enough, since users with different addresses never touch the
same row. The concurrent run has two access codes and leaves out confirmation from
the unlock page, which saves what an activation by code saves, and lost mails. The
run with duplicates has confirmation in place of activation by code and of new
codes: it looks users up by e-mail, and so meets two of them. The serial run has all
commands, lost mails and three codes.

Credentials: the concurrent run has one user, two addresses (the second is free),
two passwords, one code of either type and three passwords ever set, so that two
resets or changes can overlap and a code can be used while the password changes
under it. The pending run has one user, two free addresses and two codes, so that two
changes to different addresses are pending at once and their messages and
confirmations cross. Two users who both move to one address are in the run of two
users, where requests come one at a time, and in that of finding 2.
`Remembered` is 1 with two passwords. Longer histories behave alike, since `Recent`
looks at the end of the list only.

Repository: two sessions, two users, one object without codes and history, which a
load that is torn by a deletion makes, and one with rows in both, so that a
loop can be interrupted half way and a deadlock over two users and over one are both
reached. The proof assumes of an object only that it has a row.

Authorization codes: four keys, of which two match a revocation and two share only
its subject or its client; one scanning call, for which eviction stands in for the
deletions of others. The theorems hold for any number of calls. Paging: six ids, a
search that finds four, pages of two: full, partial and empty last pages.

Budgets are tested when a request arrives, and count the requests under way that
may use them up, so that no request is ever stuck half way for lack of numbers.
Where symmetry is used (requests, passwords, the two matching keys), no action
names a member of the set; it is not used in runs with liveness properties.

## 5. Fairness

`TidyUpProgress` assumes that the job is started again and again (its `settings.job`
says every night): weak fairness of `ListExpired`; and that the deletions of its
lists do not all fail for ever: strong fairness of `DeleteListed`. Every single
deletion and audit record may fail, any number of times, and each failure ends a run
(`RegistrationManager.cs:36-46`). Without that assumption the property is false, for
a database that refuses every deletion leaves every user. Requests are not assumed
to make progress there. `CallsEnd` assumes strong fairness of a session's
statements: SQL Server grants locks in the order in which they were asked for, so a
statement that waits for a lock that is free again and again gets it; and that the
deadlock monitor, which never rests, ends a deadlock.

## 6. Proofs

Every invariant and action property of section 3 that holds is also proved, for all
values of the constants that satisfy the assumptions of its module, and so is the
refinement. Each module of proofs has the same course: an inductive invariant (checked
by TLC on the instance of a run before it was proved), one lemma per action or group
of actions, and the theorems.

No theorem restricts how requests overlap, fail or run beside the job. What
overlap breaks is an exception in the property ("Runs"), and the invariants carry
the same exception: they relate the object of a request to the tables for as long
as the request is not in `stale`.

`AccountLockoutProofs`, for any set of requests and all failures:

* `TypeCorrect`: `Spec => []TypeOK`.
* `LockAndCounterAgree`: `Spec => []LockMatchesCounter`. The stored row alone is not
  inductive, because the row after a save is an object some request loaded earlier.
  The invariant `RowsWellFormed` says that lock and counter agree in the stored row
  and in the object of every request; each handler changes both columns together.
* `OnlyStoredCodesAreMailed`: `Spec => []MailedCodesWereStored`. What is mailed comes
  from memory, so `CodesInv` adds that every code in memory was stored, except in a
  request that has just generated one and saves next.
* `SignInOnlyIfSeenUnlocked`: `Spec => []SignInSawUnlocked`. The handler decides on a
  copy. `SignInInv` carries what the copy is evidence of from the load to the save: a
  request whose copy shows no lock, or that is about to save a sign-in, is one during
  which the stored row was unlocked; and while the row is unlocked, this is recorded
  for every request under way. A sign-in after a reset
  is none of these.

For requests that overlap, `CopiesInv` says of every request that is not `stale`
that its object is what is on record, or differs from it in one of five ways when it
is about to be saved: `SavesSignIn`, `SavesFailure`, `SavesUnlock`, `SavesSame`,
`SavesCode`. It is inductive because a save makes every other holder of a copy
stale.

* `OnlyCodesUnlock` (`LockLiftedOnlyByCode`) and `OnlyMistakesLock`
  (`LockedOnlyByWrongPassword`): action properties about every step that saves; of the
  five ways only an unlock lifts a lock and only a failure sets one.
* `CodesWorkOnce` (`UsedCodesAreGone`): what a request that is not stale saves holds no
  used code, and a new code has a number that was never given out (`Numbers`).
* `NothingOvercounted` (`NeverOvercounts`) and `CounterExact` (`CounterIsExact`).
  `CountedInv` and `ExactInv` extend the properties into a request: a failure that was
  found and not saved is in `failures` already, and if it is the only one, the
  counter is behind by exactly one. A second failure found at the same time is stale
  as soon as the first is saved, so either it is never saved or an update is lost.
* `LockedHasCode` (`LockedAccountHasCode`). `CodeComes` says that an account locked
  without a code is in the hands of a request that stores one unless it is stopped
  (`Storing`); the lemma `StoringGoesOn` shows that each step keeps it so, stores the
  code or goes on record in `stranded`.

`RegistrationProofs`, for any set of requests and all failures:

* `TypeCorrect`. `TypeOK` alone is not inductive: the next user a handler saves must
  be a user. `TypeInv` adds `HasUser`, that a request past its look-up has one.
* `DeletionIsFinal`: `Spec => []DeletedStaysDeleted`. The only step that adds a row
  is the save of a new user, so `FreshIds` says that ids in use, listed or deleted
  are at most `lastId`, and that the id of a user still to be created is none of
  these and is not shared with another request.
* `OnlyActivationActivates`: `Spec => []ActiveMeansConfirmed`. `ActivationInv` adds
  that an active object in memory is of a user whose activation was saved before, or
  is in a request that saves exactly that next.

For requests that overlap, next to the job, `OverlapInv` is the conjunction of what
is shared and, for each request, `LocalInv`. `CopyInv`: a request that is not stale
holds what the row holds, or what it is about to write, unless the job has deleted
the user. `KeptCodes`: stale or not, a code in memory is on record as long as no
update of the user was lost and it is not active. `LookInv`: a user who was looked
for and not found is still not there when the new one is created, or the address is
in `crossed`.

* `EmailsStayUnique` (`EmailsUnique`): two registrations under way for one address
  are recorded when the later one arrives (`CrossedInv`).
* `MailedCodesWork` (`MailedCodesAreStored`), the messages included that wait in
  `tasks`: an id that is still to be created is in no message (`KnownInv`).
* `ActivatedUsersAreKept` (`ActivatedAreKept`): `KeptInv` says the same of whom the
  job has listed and not reached yet.
* `ActivationLasts` (`ActiveStaysActive`), an action property, from `CopyInv`.

`CredentialsProofs`, for any set of requests, users and addresses, and all failures:

* `TypeCorrect`. `TypeInv` adds to `TypeOK` where each command can be and what it
  then has in memory (`JobInv`, `UserInv`).
* `ResetsAudited` (`ResetsAreAudited`). `AuditInv`: a reset about to be saved has
  its record.
* `ChangersKnew` (`ChangerKnewPassword`). `KnewInv`: the password a request has
  loaded was stored while it ran, so a request that has compared it with its own is
  in `knew`.
* `AddressesProven` (`AddressesAreProven`). Any request saves the address of its
  copy, so `AddressInv` says that it is proven in every object in memory, except in
  the confirmation that is about to save it. `CodesInv` says that a number belongs
  to one code of one user, in the tables, in memory and in the mails, so that the
  code that is confirmed is the one that was mailed to that address.

For requests that overlap, until an update of the user is lost:

* `LatestStands` (`LatestPasswordStands`), `ResetCodesOnce` (`ResetCodesWorkOnce`),
  `OlderChangesVoid` (`OlderChangesAreVoid`) and `RecentBarred`
  (`RecentChangesBarred`). `OverlapInv` is the conjunction of `PasswordsInv` (a copy
  that is not stale and whose password the request has not changed has the stored
  one), `UsedInv` (such a copy holds no code that was used, and of pending changes
  of address none that was there when one was confirmed) and `HistoryInv` (the
  history is the list of the passwords set at registration and by changes, and what
  a change appends is none of the recent ones). The last proof compares two counts,
  the entries of the history between two passwords and the positions of `chosen`
  that were not set by a reset (`Kept`), which uses the library's facts about
  cardinality.

`SqlUserRepositoryProofs`, for any set of users, sessions and objects:

* `TypeCorrect` and `UsersStayWhole` (`UsersAreWhole`) follow from `RepositoryInv`.
  It says for each operation what its session has locked and written by each
  statement (`CreateInv`, `UpdateInv`, `DeleteInv`, `Saved`), and that a session
  that is idle holds no lock and nothing uncommitted is left without one
  (`NothingLeftOpen`, which is SQL Server's doing and no result about the
  repository). Two things were less clear than the code suggests. A session that
  creates a user is alone with its id (`KnownInv`), and an update of a user who has
  been deleted runs on without its row: the first code or password it inserts fails
  on the foreign key, and without either it commits (`Overlooked`). The invariant
  has to carry that nothing of such a user is locked (`GoneInv`) and what is still
  to be inserted.
* `ImplementsStore`: `Spec => Implements`, of objects of which only a row is assumed
  (`ObjectsAssumption`). The start of a call is `Begin`. `Commit` is `Perform` of
  the abstract store, which needs `Saved`: at that point the three parts the session
  has written are those of one object; or it is the `Overlook` of an update that
  found no user, whose object is then `Bare`. A failure is `Refuse`, and every other
  statement leaves the committed tables alone and is a stutter.

`AuthCodeStoreProofs`, for any keys, grants and numbers of calls:

* `TypeCorrect`, `RevocationIsComplete` (`RevokedAreGone`), `RevocationIsExact`
  (`OthersAreKept`), `GoneKeyIsHarmless` (`GoneKeyRevokesNothing`) and
  `ListingIsExact` (`ListingIsComplete`) all follow from one invariant, `CallInv`:
  while a call scans, every key that SCAN has given, that is still there and that
  matches is either found or on the page; when the scan is over this holds of all
  keys that were there at the start; nothing is removed before that; and what is
  removed matches. It needs that keys, once deleted, never come back, which is
  `made` in the model.

`PagingProofs`, for any finite set of ids and any page size:

* `TypeCorrect`.
* `WalkIsComplete`: `Spec => []NobodySkipped`. `WalkInv` says that every user who
  was there from the beginning and has not been given to the caller is on the page
  it reads next or a later one. Registrations only push users back (`IndexGrows`),
  and somebody who is still ahead is counted, so the number of pages is larger than
  the page just read (`IndexPagesSuffice`, `SearchPagesSuffice`). The invariant is
  also stated between the two queries of the index, where the rows are read and the
  count is not.
* `PageCountsCorrect`: `Spec => []PageCountsAgree`, by the arithmetic of division.

Model-checked only: `TidyUpProgress` and `CallsEnd`. They are
liveness properties under fairness, which the proof system does not support. The
properties of the two findings are violated, so there is nothing to prove.

## 7. Plan

All modules of the plan are written: the handlers (`AccountLockout`,
`Registration`, `Credentials`), the store and its refinement, the authorization
codes and the pages; and every safety property that holds is proved. What is left is
to sharpen theorems:

1. The refinement for the handlers: that each `UpdateUser` of the three modules is one
   `Perform` or `Overlook` of `UserStore` on the columns it keeps.
2. `Paging`: what a caller can miss when users are deleted during its walk, which
   `NobodySkipped` leaves out.

## 8. Not modelled

The API client (stateless HTTP calls), password hashing (its verdict is an input),
the bulk user creator (a desktop test tool), IdentityServer hosting and relying
parties (library configuration), the web-job host (empty), relying-party components
(an attribute that looks at one claim) and older SQL copies have no state or control
of their own. The JavaScript under `src` consists of third-party libraries (jQuery
and its plug-ins, respond.js, zxcvbn, the GOV.UK toolkit and template) and a few
scripts about the looks of a page (password strength, validation messages, toggles).
The program's own logic is C# and SQL, and the models cover that; nothing of the
scripts is modelled.

Of the modelled parts these are left out:

* The account web layer is modelled where it chains commands. Pages, cookies and the
  check of client id and return URL are not.
* Field validation (formats of passwords, addresses and phone numbers) happens
  before anything changes and is taken as passed.
* In `Registration`, codes of types other than access codes; they would only keep a
  user off the list of the job for longer. Password and e-mail commands do not run
  next to the job; a user who is deleted under them is covered by `SaveUser` and
  `SaveFails` there and by `NoUserForChild` and `LoopEnds` in `SqlUserRepository`.
* A reset activates an inactive user; `Credentials` has the activation, and
  `AccountLockout` has it as a case of `Edit`; the deletion of its reset and access
  codes is in `Credentials`.
* Reads of uncommitted data by the loads, which run outside the unit of work.
  Whether a pooled connection keeps READ UNCOMMITTED depends on the server version.
