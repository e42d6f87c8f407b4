----------------------------- MODULE Credentials -----------------------------
(***************************************************************************)
(* The password and the e-mail address of a user: asking for a reset code  *)
(* and resetting the password with it, changing the password, asking for a *)
(* change of e-mail address and confirming it with a code and a password.  *)
(*                                                                         *)
(* Each request loads a user with three queries (row, codes, history),     *)
(* decides on the object in memory and saves the whole object; a save is   *)
(* one step here, which SqlUserRepository justifies.  Nothing keeps two    *)
(* requests for one user apart.                                            *)
(*                                                                         *)
(* Data abstraction.  Codes are numbered in the order of generation; reset *)
(* and confirmation codes live for one day, so 1..expired are past their   *)
(* expiry.  Codes of other types matter only as the access code (number 0) *)
(* that a reset removes.  Input that breaks the format rules is rejected   *)
(* before anything happens and is not submitted here.  Users of this       *)
(* component are never deleted: the tidy-up job is part of Registration.   *)
(***************************************************************************)
EXTENDS Naturals, FiniteSets, Sequences

CONSTANTS
  Requests,      \* slots for requests that run at the same time
  Users, Emails, Passwords,
  Home,          \* the address each user registered with
  None,          \* null: no user, no address, no password
  Remembered,    \* AccountConfiguration.NumberOfPasswordsInHistory
  Commands,      \* the kinds of request submitted in this instance
  MaxCodes,      \* bound: how many codes may ever be generated
  MaxPasswords,  \* bound: how many passwords one user may ever have set
  MayAbort       \* requests may die half way; mails may get lost

AllCommands ==
  {"requestReset", "reset", "change", "requestEmail", "changeEmail"}

ASSUME CommandsAssumption == Commands \subseteq AllCommands
ASSUME NoneAssumption == None \notin Users \cup Emails \cup Passwords
ASSUME HomeAssumption ==
  /\ Home \in [Users -> Emails]
  /\ \A u, v \in Users : Home[u] = Home[v] => u = v
ASSUME BoundsAssumption ==
  Remembered \in Nat /\ MaxCodes \in Nat /\ MaxPasswords \in Nat
ASSUME FaultAssumption == MayAbort \in BOOLEAN

VARIABLES
  rows,        \* per user: the User row
  codes,       \* per user: the UserSecurityCode rows
  history,     \* per user: the UserPasswordHistory rows by DateSet
  lastCode,    \* how many codes have been generated
  expired,     \* codes 1..expired are past their ExpiryTime
  job,         \* per request: the command and its inputs
  pc,          \* per request: the next statement
  user,        \* per request: the User object in memory; id None is null
  mailed,      \* codes handed to the notification service, and to whom
  \* History variables: no step of a handler reads them.
  knew,        \* requests whose password was the stored one meanwhile
  chosen,      \* per user: the passwords that were set, in order, and how
  audited,     \* reset codes whose use the audit service has on record
  used,        \* reset codes with which a reset was saved
  confirmed,   \* per user: the codes with which an address was confirmed
  voided,      \* per user: the last code there was when that happened last
  stale,       \* requests that hold a user of which another one has been saved since
  overwritten  \* users that such a request has saved: an update was lost

store   == <<rows, codes, history>>
clock   == <<lastCode, expired>>
control == <<job, pc, user>>
copies  == <<stale, overwritten>>
ghosts  == <<knew, chosen, audited, used, confirmed, voided, copies>>
vars    == <<store, clock, control, mailed, ghosts>>

----------------------------------------------------------------------------
(* The data. *)

Row  == [email : Emails, password : Passwords, active : BOOLEAN]
Code == [n : Nat, type : {"access", "reset", "confirm"},
         pending : Emails \cup {None}]
User == [id : Users \cup {None}, codes : SUBSET Code, history : Seq(Passwords),
         row : [email : Emails \cup {None}, password : Passwords \cup {None},
                active : BOOLEAN]]
Job  == [cmd : AllCommands, user : Users \cup {None}, email : Emails \cup {None},
         code : Nat, password : Passwords \cup {None}, new : Passwords \cup {None}]

NoUser == [id |-> None, codes |-> {}, history |-> <<>>,
           row |-> [email |-> None, password |-> None, active |-> FALSE]]
NoJob  == [cmd |-> "change", user |-> None, email |-> None, code |-> 0,
           password |-> None, new |-> None]

InFlight == {r \in Requests : pc[r] # "idle"}
OfType(S, t) == {c \in S : c.type = t}
Newest(c, S) == c \in S /\ \A d \in S : d.n <= c.n

TypeOK ==
  /\ rows \in [Users -> Row]
  /\ codes \in [Users -> SUBSET Code]
  /\ history \in [Users -> Seq(Passwords)]
  /\ lastCode \in Nat
  /\ expired \in Nat
  /\ job \in [Requests -> Job]
  /\ pc \in [Requests -> {"idle", "check", "loadRow", "loadCodes", "loadHistory",
                          "decide", "audit", "save", "mail", "signIn"}]
  /\ user \in [Requests -> User]
  /\ mailed \subseteq [n : Nat, to : Emails \cup {None}]
  /\ knew \subseteq Requests
  /\ chosen \in [Users -> Seq([password : Passwords,
                               by : {"register", "change", "reset"}])]
  /\ audited \subseteq Nat
  /\ used \subseteq Nat
  /\ confirmed \in [Users -> SUBSET Nat]
  /\ voided \in [Users -> Nat]
  /\ stale \subseteq Requests
  /\ overwritten \subseteq Users

\* Registered users: an inactive one still has the access code.
Init ==
  /\ rows \in [Users -> Row]
  /\ \A u \in Users : rows[u].email = Home[u]
  /\ codes = [u \in Users |->
                IF rows[u].active THEN {}
                ELSE {[n |-> 0, type |-> "access", pending |-> None]}]
  /\ history = [u \in Users |-> <<rows[u].password>>]
  /\ lastCode = 0
  /\ expired = 0
  /\ job = [r \in Requests |-> NoJob]
  /\ pc = [r \in Requests |-> "idle"]
  /\ user = [r \in Requests |-> NoUser]
  /\ mailed = {}
  /\ knew = {}
  /\ chosen = [u \in Users |->
                 <<[password |-> rows[u].password, by |-> "register"]>>]
  /\ audited = {}
  /\ used = {}
  /\ confirmed = [u \in Users |-> {}]
  /\ voided = [u \in Users |-> 0]
  /\ stale = {}
  /\ overwritten = {}

----------------------------------------------------------------------------
(* Control flow shared by the handlers. *)

Finish(r) ==
  /\ pc' = [pc EXCEPT ![r] = "idle"]
  /\ job' = [job EXCEPT ![r] = NoJob]
  /\ user' = [user EXCEPT ![r] = NoUser]

Goto(r, where) == pc' = [pc EXCEPT ![r] = where] /\ UNCHANGED job

At(r, cmd) == pc[r] = "decide" /\ job[r].cmd = cmd
Saves(r, cmd) == pc[r] = "save" /\ job[r].cmd = cmd

----------------------------------------------------------------------------
(* Requests arrive.  The budgets are checked when they do, so that none is *)
(* stuck half way.  A code that is typed in was mailed, or is wrong (0).   *)

UnderWay(cmds) == Cardinality({r \in InFlight : job[r].cmd \in cmds})
CodeBudget == lastCode + UnderWay({"requestReset", "requestEmail"}) < MaxCodes
PasswordBudget ==
  \A u \in Users : Len(chosen[u]) + UnderWay({"reset", "change"}) < MaxPasswords
TypedIn == {0} \cup {m.n : m \in mailed}

Submit(r, j, start) ==
  /\ pc[r] = "idle"
  /\ j.cmd \in Commands
  /\ job' = [job EXCEPT ![r] = j]
  /\ pc' = [pc EXCEPT ![r] = start]
  /\ knew' = IF j.user # None /\ rows[j.user].password = j.password
             THEN knew \cup {r} ELSE knew \ {r}
  /\ stale' = stale \ {r}
  /\ UNCHANGED <<store, clock, user, mailed, chosen, audited, used, confirmed, voided,
                 overwritten>>

SubmitRequestReset(r) ==
  /\ CodeBudget
  /\ \E e \in Emails :
       Submit(r, [NoJob EXCEPT !.cmd = "requestReset", !.email = e], "loadRow")

SubmitReset(r) ==
  /\ PasswordBudget
  /\ \E e \in Emails, c \in TypedIn, p \in Passwords :
       Submit(r, [NoJob EXCEPT !.cmd = "reset", !.email = e, !.code = c, !.new = p],
              "loadRow")

SubmitChange(r) ==
  /\ PasswordBudget
  /\ \E u \in Users, old, p \in Passwords :
       Submit(r, [NoJob EXCEPT !.user = u, !.password = old, !.new = p], "loadRow")

\* The validator looks up the new address before the handler loads the user.
SubmitRequestEmail(r) ==
  /\ CodeBudget
  /\ \E u \in Users, e \in Emails :
       Submit(r, [NoJob EXCEPT !.cmd = "requestEmail", !.user = u, !.email = e],
              "check")

SubmitChangeEmail(r) ==
  \E u \in Users, c \in TypedIn, p \in Passwords :
    Submit(r, [NoJob EXCEPT !.cmd = "changeEmail", !.user = u, !.code = c,
                            !.password = p], "loadRow")

----------------------------------------------------------------------------
(* SqlServerUserRepository. *)

Registered(e) == {u \in Users : rows[u].email = e}

\* The rows a request asks for: QuerySingle takes one, maps none to null and
\* throws when there are several.
Wanted(r) ==
  IF job[r].user = None THEN Registered(job[r].email) ELSE {job[r].user}

LoadRow(r) ==
  /\ pc[r] = "loadRow"
  /\ \E u \in Wanted(r) :
       /\ Wanted(r) = {u}
       /\ user' = [user EXCEPT ![r].id = u, ![r].row = rows[u]]
  /\ Goto(r, "loadCodes")
  /\ UNCHANGED <<store, clock, mailed, ghosts>>

LoadNull(r) ==
  /\ pc[r] = "loadRow"
  /\ Wanted(r) = {}
  /\ Goto(r, "decide")
  /\ UNCHANGED <<store, clock, user, mailed, ghosts>>

LoadSeveral(r) ==
  /\ pc[r] = "loadRow"
  /\ \E u, v \in Wanted(r) : u # v
  /\ Finish(r)
  /\ UNCHANGED <<store, clock, mailed, ghosts>>

LoadCodes(r) ==
  /\ pc[r] = "loadCodes"
  /\ user' = [user EXCEPT ![r].codes = codes[user[r].id]]
  /\ Goto(r, "loadHistory")
  /\ UNCHANGED <<store, clock, mailed, ghosts>>

LoadHistory(r) ==
  /\ pc[r] = "loadHistory"
  /\ user' = [user EXCEPT ![r].history = history[user[r].id]]
  /\ Goto(r, "decide")
  /\ UNCHANGED <<store, clock, mailed, ghosts>>

\* Variant: the statement forgets the column Password.
UpdateUserNotPassword(u) ==
  /\ rows' = [rows EXCEPT ![u.id] = [u.row EXCEPT !.password = rows[u.id].password]]
  /\ codes' = [codes EXCEPT ![u.id] = u.codes]
  /\ history' = [history EXCEPT ![u.id] = u.history]
  /\ knew' = knew

\* Update: the row, the codes and the history are replaced by the object's.
UpdateUser(u) ==
  /\ rows' = [rows EXCEPT ![u.id] = u.row]
  /\ codes' = [codes EXCEPT ![u.id] = u.codes]
  /\ history' = [history EXCEPT ![u.id] = u.history]
  /\ knew' = knew \cup {r \in InFlight : /\ job[r].user = u.id
                                         /\ job[r].password = u.row.password}

\* Requests with a copy of user u in memory that they may still save.
Holding(u) ==
  {r \in Requests :
     /\ pc[r] \in {"loadCodes", "loadHistory", "decide", "audit", "save"}
     /\ user[r].id = u}

\* Whoever holds a copy of the user that request r saves has an outdated one now.
Overtake(r) ==
  /\ stale' = (stale \cup Holding(user[r].id)) \ {r}
  /\ overwritten' = IF r \in stale THEN overwritten \cup {user[r].id} ELSE overwritten

----------------------------------------------------------------------------
(* RequestPasswordResetCodeCommandHandler. *)

RequestResetUnknown(r) ==
  /\ At(r, "requestReset")
  /\ user[r].id = None
  /\ Finish(r)
  /\ UNCHANGED <<store, clock, mailed, ghosts>>

\* RequiresPasswordResetCode: no code at all is a case of no valid reset code.
NeedsResetCode(u) == \A c \in OfType(u.codes, "reset") : c.n <= expired

AddCode(r, type, address) ==
  /\ lastCode' = lastCode + 1
  /\ user' = [user EXCEPT ![r].codes = @ \cup
                {[n |-> lastCode + 1, type |-> type, pending |-> address]}]

AddResetCode(r) ==
  /\ At(r, "requestReset")
  /\ user[r].id # None
  /\ NeedsResetCode(user[r])
  /\ AddCode(r, "reset", None)
  /\ Goto(r, "save")
  /\ UNCHANGED <<store, expired, mailed, ghosts>>

KeepResetCode(r) ==
  /\ At(r, "requestReset")
  /\ user[r].id # None
  /\ ~NeedsResetCode(user[r])
  /\ Goto(r, "mail")
  /\ UNCHANGED <<store, clock, user, mailed, ghosts>>

SaveNewCode(r) ==
  /\ Saves(r, "requestReset") \/ Saves(r, "requestEmail")
  /\ UpdateUser(user[r])
  /\ Overtake(r)
  /\ Goto(r, "mail")
  /\ UNCHANGED <<clock, user, mailed, chosen, audited, used, confirmed, voided>>

----------------------------------------------------------------------------
(* PasswordResetCommandHandler. *)

\* Variant: the codes are left on record.
AfterResetKeepsCodes(u, p) == [u EXCEPT !.row.password = p, !.row.active = TRUE]

\* The password is not added to the history.
AfterReset(u, p) ==
  [u EXCEPT !.row.password = p, !.row.active = TRUE,
            !.codes = {c \in u.codes : c.type \notin {"access", "reset"}}]

ValidResetCode(r) ==
  \E c \in OfType(user[r].codes, "reset") : c.n = job[r].code /\ c.n > expired

RejectReset(r) ==
  /\ At(r, "reset")
  /\ ~ValidResetCode(r)
  /\ Finish(r)
  /\ UNCHANGED <<store, clock, mailed, ghosts>>

\* Variant: the reset is saved first and audited afterwards, if at all.
ResetUnaudited(r) ==
  /\ At(r, "reset")
  /\ ValidResetCode(r)
  /\ user' = [user EXCEPT ![r] = AfterReset(user[r], job[r].new)]
  /\ Goto(r, "save")
  /\ UNCHANGED <<store, clock, mailed, ghosts>>

Reset(r) ==
  /\ At(r, "reset")
  /\ ValidResetCode(r)
  /\ user' = [user EXCEPT ![r] = AfterReset(user[r], job[r].new)]
  /\ Goto(r, "audit")
  /\ UNCHANGED <<store, clock, mailed, ghosts>>

\* The audit record is written before the user is saved.
AuditReset(r) ==
  /\ pc[r] = "audit"
  /\ audited' = audited \cup {job[r].code}
  /\ Goto(r, "save")
  /\ UNCHANGED <<store, clock, user, mailed, knew, chosen, used, confirmed, voided,
                 copies>>

Choose(r, how) ==
  chosen' = [chosen EXCEPT ![user[r].id] =
               Append(@, [password |-> user[r].row.password, by |-> how])]

SaveReset(r) ==
  /\ Saves(r, "reset")
  /\ UpdateUser(user[r])
  /\ Overtake(r)
  /\ Goto(r, "signIn")
  /\ Choose(r, "reset")
  /\ used' = used \cup {job[r].code}
  /\ UNCHANGED <<clock, user, mailed, audited, confirmed, voided>>

\* The orchestrator looks the user up once more to sign it in; it fails if there
\* is no row, or several, but the password is set by then.
SignIn(r) ==
  /\ pc[r] = "signIn"
  /\ Finish(r)
  /\ UNCHANGED <<store, clock, mailed, ghosts>>

----------------------------------------------------------------------------
(* ChangePasswordCommandHandler and its validator. *)

\* Variant: the first passwords instead of the last ones.
RecentFromTheStart(h) == {h[i] : i \in {i \in DOMAIN h : i <= Remembered}}

Recent(h) == {h[i] : i \in {i \in DOMAIN h : i + Remembered > Len(h)}}

\* Variant: the current password is not compared.
ValidChangeUnchecked(r) == job[r].new \notin Recent(user[r].history)

ValidChange(r) ==
  /\ job[r].password = user[r].row.password
  /\ job[r].new \notin Recent(user[r].history)

RejectChange(r) ==
  /\ At(r, "change")
  /\ ~ValidChange(r)
  /\ Finish(r)
  /\ UNCHANGED <<store, clock, mailed, ghosts>>

Change(r) ==
  /\ At(r, "change")
  /\ ValidChange(r)
  /\ user' = [user EXCEPT ![r].row.password = job[r].new,
                          ![r].history = Append(@, job[r].new)]
  /\ Goto(r, "save")
  /\ UNCHANGED <<store, clock, mailed, ghosts>>

SaveChange(r) ==
  /\ Saves(r, "change")
  /\ UpdateUser(user[r])
  /\ Overtake(r)
  /\ Finish(r)
  /\ Choose(r, "change")
  /\ UNCHANGED <<clock, mailed, audited, used, confirmed, voided>>

----------------------------------------------------------------------------
(* RequestChangeEmailCommandHandler and its validator. *)

\* One row rejects the request, several make the look-up throw.
RejectAddress(r) ==
  /\ pc[r] = "check"
  /\ Registered(job[r].email) # {}
  /\ Finish(r)
  /\ UNCHANGED <<store, clock, mailed, ghosts>>

AddressIsFree(r) ==
  /\ pc[r] = "check"
  /\ Registered(job[r].email) = {}
  /\ Goto(r, "loadRow")
  /\ UNCHANGED <<store, clock, user, mailed, ghosts>>

AddConfirmCode(r) ==
  /\ At(r, "requestEmail")
  /\ AddCode(r, "confirm", job[r].email)
  /\ Goto(r, "save")
  /\ UNCHANGED <<store, expired, mailed, ghosts>>

\* A reset code goes to the user's address, a confirmation to the new one.
Recipient(u, c) == IF c.type = "confirm" THEN c.pending ELSE u.row.email

\* The message carries the newest code of the type in memory.  An audit record is
\* written before a reset code is mailed and after a confirmation code was; errors
\* of the notification service are swallowed.
SendMail(r) ==
  /\ pc[r] = "mail"
  /\ LET S == OfType(user[r].codes,
                     IF job[r].cmd = "requestReset" THEN "reset" ELSE "confirm")
     IN mailed' = mailed \cup {[n |-> c.n, to |-> Recipient(user[r], c)] :
                                 c \in {c \in S : Newest(c, S)}}
  /\ Finish(r)
  /\ UNCHANGED <<store, clock, ghosts>>

----------------------------------------------------------------------------
(* ChangeEmailCommandHandler and its validator. *)

\* Variants: codes of any type are accepted; the newest pending change is taken.
MatchingNewest(r) ==
  {c \in OfType(user[r].codes, "confirm") : Newest(c, OfType(user[r].codes, "confirm"))}
MatchingAnyType(r) == {c \in user[r].codes : c.n = job[r].code}

Matching(r) == {c \in OfType(user[r].codes, "confirm") : c.n = job[r].code}

ValidConfirmation(r) ==
  /\ job[r].password = user[r].row.password
  /\ \E c \in Matching(r) : c.n > expired

RejectConfirmation(r) ==
  /\ At(r, "changeEmail")
  /\ ~ValidConfirmation(r)
  /\ Finish(r)
  /\ UNCHANGED <<store, clock, mailed, ghosts>>

\* Variant: only the code that was typed in is removed.
WithoutUsedConfirmation(r, S) == S \ Matching(r)

WithoutConfirmations(r, S) == S \ OfType(S, "confirm")

\* That the address is still free is not checked again.
ConfirmEmail(r) ==
  /\ At(r, "changeEmail")
  /\ ValidConfirmation(r)
  /\ \E c \in Matching(r) :
       user' = [user EXCEPT ![r].row.email = c.pending,
                            ![r].codes = WithoutConfirmations(r, @)]
  /\ Goto(r, "save")
  /\ UNCHANGED <<store, clock, mailed, ghosts>>

\* The audit record comes last; without it the caller gets an error for a change
\* that was made.
SaveEmail(r) ==
  /\ Saves(r, "changeEmail")
  /\ UpdateUser(user[r])
  /\ Overtake(r)
  /\ Finish(r)
  /\ confirmed' = [confirmed EXCEPT ![user[r].id] = @ \cup {job[r].code}]
  /\ voided' = [voided EXCEPT ![user[r].id] = lastCode]
  /\ UNCHANGED <<clock, mailed, chosen, audited, used>>

----------------------------------------------------------------------------
(* The environment. *)

\* The audit service or the database throws, or the process is recycled.
Abort(r) ==
  /\ MayAbort
  /\ pc[r] # "idle"
  /\ Finish(r)
  /\ UNCHANGED <<store, clock, mailed, ghosts>>

\* Time passes and the oldest code that is still valid expires.
Expire ==
  /\ expired < lastCode
  /\ expired' = expired + 1
  /\ UNCHANGED <<store, lastCode, control, mailed, ghosts>>

Arrive(r) ==
  \/ SubmitRequestReset(r) \/ SubmitReset(r) \/ SubmitChange(r)
  \/ SubmitRequestEmail(r) \/ SubmitChangeEmail(r)

Step(r) ==
  \/ LoadRow(r) \/ LoadNull(r) \/ LoadSeveral(r) \/ LoadCodes(r) \/ LoadHistory(r)
  \/ RequestResetUnknown(r) \/ AddResetCode(r) \/ KeepResetCode(r) \/ SaveNewCode(r)
  \/ RejectReset(r) \/ Reset(r) \/ AuditReset(r) \/ SaveReset(r) \/ SignIn(r)
  \/ RejectChange(r) \/ Change(r) \/ SaveChange(r)
  \/ RejectAddress(r) \/ AddressIsFree(r) \/ AddConfirmCode(r) \/ SendMail(r)
  \/ RejectConfirmation(r) \/ ConfirmEmail(r) \/ SaveEmail(r)

Next ==
  \/ \E r \in Requests : Arrive(r) \/ Step(r) \/ Abort(r)
  \/ Expire

Spec == Init /\ [][Next]_vars
----------------------------------------------------------------------------
(* What holds however requests interleave and fail. *)

\* No password is reset without an audit record of it, wherever a request dies:
\* PasswordResetCommandHandler writes the record before it saves.
ResetsAreAudited == used \subseteq audited

\* A password or an e-mail address is changed only by someone who gave a password
\* that was stored for this user at some moment of the request.  The comparison is
\* made with a copy, and the row may have changed since it was loaded.
ChangerKnewPassword ==
  \A r \in Requests :
    (Saves(r, "change") \/ Saves(r, "changeEmail")) => r \in knew

\* The address of a user is the one it registered with, or one to which a code was
\* mailed that the user typed in: whoever changes the address can read its mail.
\* Pending changes of one user to several addresses may be open at once, and the
\* messages about them may cross.
AddressesAreProven ==
  \A u \in Users :
    \/ rows[u].email = Home[u]
    \/ \E m \in mailed : m.to = rows[u].email /\ m.n \in confirmed[u]

----------------------------------------------------------------------------
(* What holds of a user until an update of it is lost: a request that has   *)
(* loaded the user before another one saved it brings back what it loaded.  *)

\* The stored password is the last one that was set: no other command brings an
\* older one back.
LatestPasswordStands ==
  \A u \in Users \ overwritten :
    rows[u].password = chosen[u][Len(chosen[u])].password

\* A reset code works once: with the reset it is taken off the record, and none of
\* the other commands that save the user puts it back.
ResetCodesWorkOnce ==
  \A u \in Users \ overwritten : \A c \in codes[u] : c.n \notin used

\* Confirming a change of address voids every change that was asked for before it,
\* whichever of them was confirmed: none of their codes is on record afterwards.
OlderChangesAreVoid ==
  \A u \in Users \ overwritten : \A c \in OfType(codes[u], "confirm") :
    c.n > voided[u]

Kept(u, S) == {k \in S : chosen[u][k].by # "reset"}

\* Among the passwords of a user that were set at registration and by changes, the
\* last ones are not used again.
RecentChangesBarred ==
  \A u \in Users \ overwritten : \A i, j \in Kept(u, DOMAIN chosen[u]) :
    i < j /\ Cardinality(Kept(u, (i + 1)..j)) <= Remembered =>
      chosen[u][i].password # chosen[u][j].password

----------------------------------------------------------------------------
(* What a text says and the code does not keep.                            *)

\* "Email address already registered" (RequestChangeEmailCommandValidator.cs:50):
\* nobody moves to an address that another user has.
AddressesUnique ==
  \A u, v \in Users : rows[u].email = rows[v].email => u = v
=============================================================================
