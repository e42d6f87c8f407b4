-------------------------- MODULE CredentialsProofs --------------------------
(***************************************************************************)
(* Proofs about Credentials, for every set of requests, users, addresses   *)
(* and passwords: what holds however requests overlap and die, and what    *)
(* holds of a user until an update of it is lost.                          *)
(***************************************************************************)
EXTENDS Credentials, FiniteSetTheorems, SequenceTheorems, TLAPS

USE DEF store, clock, control, copies, ghosts, vars

----------------------------------------------------------------------------
(* Where a request can be, and with what in memory.                          *)

ByEmail == {"requestReset", "reset"}

JobInv(r) ==
  pc[r] # "idle" =>
    /\ job[r].cmd \in ByEmail <=> job[r].user = None
    /\ job[r].cmd = "requestEmail" => job[r].email \in Emails
    /\ job[r].cmd \in {"reset", "change"} => job[r].new \in Passwords
    /\ pc[r] = "check" => job[r].cmd = "requestEmail"
    /\ pc[r] \in {"audit", "signIn"} => job[r].cmd = "reset"
    /\ pc[r] = "mail" => job[r].cmd \in {"requestReset", "requestEmail"}

Loaded(r) ==
  \/ pc[r] \in {"loadCodes", "loadHistory", "audit", "save", "mail", "signIn"}
  \/ pc[r] = "decide" /\ user[r].id # None

UserInv(r) ==
  IF Loaded(r)
  THEN /\ user[r].id \in Users /\ user[r].row \in Row
       /\ job[r].user \in {None, user[r].id}
  ELSE user[r] = NoUser /\ (pc[r] = "decide" => job[r].user = None)

----------------------------------------------------------------------------
(* The codes of a user, on record and in the copies that requests hold.      *)

CodesOf(u) == codes[u] \cup UNION {user[r].codes : r \in {r \in Requests : user[r].id = u}}

CodeOK(c) ==
  /\ c.n <= lastCode
  /\ c.n = 0 <=> c.type = "access"
  /\ c.type = "confirm" => c.pending \in Emails

TypeInv ==
  /\ TypeOK
  /\ \A r \in Requests : JobInv(r) /\ UserInv(r)
  /\ \A u \in Users : \A c \in CodesOf(u) : CodeOK(c)

\* A number, other than that of the access codes, is given to one code of one user,
\* and is mailed to the address that the code is to confirm.
CodesInv ==
  /\ \A u, v \in Users : \A c \in CodesOf(u), d \in CodesOf(v) :
       c.n = d.n /\ c.n # 0 => u = v /\ c = d
  /\ \A m \in mailed : m.n <= lastCode
  /\ \A m \in mailed, u \in Users : \A c \in CodesOf(u) :
       c.n = m.n /\ c.type = "confirm" => m.to = c.pending

----------------------------------------------------------------------------
(* What the requests under way have shown.                                   *)

MailedTo(n, e) == \E m \in mailed : m.n = n /\ m.to = e
Proven(u, e) == e = Home[u] \/ \E n \in confirmed[u] : MailedTo(n, e)

AddressInv ==
  /\ \A u \in Users : Proven(u, rows[u].email)
  /\ \A r \in InFlight : job[r].code # 0 => \E m \in mailed : m.n = job[r].code
  /\ \A r \in Requests : Loaded(r) =>
       \/ Proven(user[r].id, user[r].row.email)
       \/ Saves(r, "changeEmail") /\ MailedTo(job[r].code, user[r].row.email)

KnewInv ==
  /\ \A r \in InFlight : \A u \in Users :
       job[r].user = u /\ job[r].password = rows[u].password => r \in knew
  /\ \A r \in Requests :
       /\ Loaded(r) /\ pc[r] \in {"loadCodes", "loadHistory", "decide"}
       /\ job[r].user # None /\ job[r].password = user[r].row.password
       => r \in knew
  /\ ChangerKnewPassword

AuditInv ==
  /\ ResetsAreAudited
  /\ \A r \in Requests : Saves(r, "reset") => job[r].code \in audited

CredentialsInv == TypeInv /\ CodesInv /\ AddressInv /\ KnewInv /\ AuditInv

----------------------------------------------------------------------------
(* What a request knows of the user it holds, until another one saves it.    *)

Holds(r) == pc[r] \in {"loadCodes", "loadHistory", "decide", "audit", "save"}

\* The request has not changed the password of its copy.
Unchanged(r) ==
  \/ pc[r] \in {"loadCodes", "loadHistory", "decide"}
  \/ pc[r] = "save" /\ job[r].cmd \notin {"reset", "change"}

PasswordsInv ==
  /\ \A u \in Users : chosen[u] # <<>>
  /\ LatestPasswordStands
  /\ \A r \in Requests \ stale : Loaded(r) /\ Unchanged(r) =>
       user[r].row.password = rows[user[r].id].password

\* What was taken off the copy of a request is what its save takes off the record.
TakenOff(r) ==
  /\ pc[r] = "audit" \/ Saves(r, "reset") =>
       /\ job[r].code <= lastCode
       /\ \A u \in Users : \A c \in CodesOf(u) :
            c.n = job[r].code => u = user[r].id /\ c.type = "reset"
       /\ \A c \in user[r].codes : c.type # "reset"
  /\ Saves(r, "changeEmail") => \A c \in user[r].codes : c.type # "confirm"

Fresh(u, S) ==
  \A c \in S : c.n \notin used /\ (c.type = "confirm" => c.n > voided[u])

UsedInv ==
  /\ \A n \in used : n <= lastCode
  /\ \A u \in Users : voided[u] <= lastCode
  /\ \A u \in Users \ overwritten : Fresh(u, codes[u])
  /\ \A r \in Requests \ stale :
       Loaded(r) /\ Holds(r) /\ user[r].id \notin overwritten =>
         Fresh(user[r].id, user[r].codes)
  /\ \A r \in Requests : TakenOff(r)

\* The history of a user is what was chosen at registration and by changes.
HistoryOf(u) ==
  /\ Len(history[u]) = Cardinality(Kept(u, 1..Len(chosen[u])))
  /\ \A k \in Kept(u, 1..Len(chosen[u])) :
       history[u][Cardinality(Kept(u, 1..k))] = chosen[u][k].password

Barred(h) == \A i, j \in DOMAIN h : i < j /\ j <= i + Remembered => h[i] # h[j]

CopiedHistory(r) ==
  /\ Loaded(r) /\ pc[r] \in {"decide", "audit", "save"} /\ ~Saves(r, "change") =>
       user[r].history = history[user[r].id]
  /\ Saves(r, "change") =>
       /\ user[r].history = Append(history[user[r].id], user[r].row.password)
       /\ user[r].row.password \notin Recent(history[user[r].id])

HistoryInv ==
  /\ \A u \in Users \ overwritten : HistoryOf(u) /\ Barred(history[u])
  /\ \A r \in Requests \ stale : CopiedHistory(r)

OverlapInv == PasswordsInv /\ UsedInv /\ HistoryInv

----------------------------------------------------------------------------
(* The steps of a request leave the other requests alone.                    *)

Moves(r) == Arrive(r) \/ Step(r) \/ Abort(r)

OthersWait(r) ==
  \A t \in Requests \ {r} : pc'[t] = pc[t] /\ job'[t] = job[t] /\ user'[t] = user[t]

\* What Finish leaves of a request.
LEMMA FinishLeaves ==
  ASSUME TypeOK, NEW r \in Requests, Finish(r)
  PROVE  /\ OthersWait(r)
         /\ pc'[r] = "idle" /\ job'[r] = NoJob /\ user'[r] = NoUser
         /\ job' \in [Requests -> Job] /\ user' \in [Requests -> User]
         /\ pc' \in [Requests -> {"idle", "check", "loadRow", "loadCodes", "loadHistory",
                                  "decide", "audit", "save", "mail", "signIn"}]
<1>1. NoUser \in User
  <2>1. <<>> \in Seq(Passwords)
    OBVIOUS
  <2> QED
    BY <2>1 DEF NoUser, User
<1>2. NoJob \in Job
  BY DEF NoJob, Job, AllCommands
<1> QED
  BY <1>1, <1>2 DEF Finish, TypeOK, OthersWait

\* What Goto does to a request whose copy of the user becomes x.
LEMMA GotoMoves ==
  ASSUME TypeOK, NEW r \in Requests, NEW x \in User, user' = [user EXCEPT ![r] = x],
         NEW where \in {"check", "loadRow", "loadCodes", "loadHistory", "decide", "audit",
                        "save", "mail", "signIn"},
         Goto(r, where)
  PROVE  /\ OthersWait(r)
         /\ pc'[r] = where /\ job' = job /\ user'[r] = x
         /\ job' \in [Requests -> Job] /\ user' \in [Requests -> User]
         /\ pc' \in [Requests -> {"idle", "check", "loadRow", "loadCodes", "loadHistory",
                                  "decide", "audit", "save", "mail", "signIn"}]
BY DEF Goto, TypeOK, OthersWait

\* The codes of a user are those on record and those that are about to be.
LEMMA CodesKept ==
  ASSUME TypeInv, NEW r \in Requests, OthersWait(r), NEW u \in Users,
         codes'[u] \subseteq CodesOf(u),
         user'[r].id = u => user'[r].codes \subseteq CodesOf(u)
  PROVE  CodesOf(u)' \subseteq CodesOf(u)
BY DEF CodesOf, OthersWait

\* The codes of a user, on record or in memory, grow at most by those of the request
\* that moves.
LEMMA CodesGrow ==
  ASSUME TypeInv, NEW r \in Requests, OthersWait(r), NEW u \in Users, NEW S,
         codes'[u] \subseteq CodesOf(u) \cup S,
         user'[r].id = u => user'[r].codes \subseteq CodesOf(u) \cup S
  PROVE  CodesOf(u)' \subseteq CodesOf(u) \cup S
BY DEF CodesOf, OthersWait

\* What is on record and what a request holds is among the codes of the user.
LEMMA InCodesOf ==
  ASSUME NEW u \in Users
  PROVE  /\ codes[u] \subseteq CodesOf(u)
         /\ \A r \in Requests : user[r].id = u => user[r].codes \subseteq CodesOf(u)
BY DEF CodesOf

\* So the types of the requests and codes are those of the request that moves.
LEMMA TypesFrom ==
  ASSUME TypeInv, NEW r \in Requests, OthersWait(r), TypeOK', JobInv(r)', UserInv(r)',
         lastCode' >= lastCode,
         \A u \in Users : \A c \in CodesOf(u)' : c \in CodesOf(u) \/ CodeOK(c)'
  PROVE  TypeInv'
<1>1. \A t \in Requests : JobInv(t)' /\ UserInv(t)'
  BY DEF TypeInv, OthersWait, JobInv, UserInv, Loaded
<1>2. ASSUME NEW u \in Users, NEW c \in CodesOf(u) PROVE CodeOK(c)'
  <2>1. CodeOK(c) /\ lastCode \in Nat /\ lastCode' \in Nat
    BY <1>2 DEF TypeInv, TypeOK
  <2>2. c.n \in Nat
    BY <1>2 DEF TypeInv, TypeOK, CodesOf, User, Code
  <2> QED
    BY <2>1, <2>2 DEF CodeOK
<1>3. \A u \in Users : \A c \in CodesOf(u)' : CodeOK(c)'
  BY <1>2
<1> QED
  BY <1>1, <1>3 DEF TypeInv

----------------------------------------------------------------------------
(* Types, action by action.                                                  *)

\* A request that arrives with inputs of its kind is well typed.
LEMMA SubmitType ==
  ASSUME TypeInv, NEW r \in Requests, NEW j \in Job, NEW start \in {"check", "loadRow"},
         Submit(r, j, start),
         j.cmd \in ByEmail <=> j.user = None,
         j.cmd = "requestEmail" => j.email \in Emails,
         j.cmd \in {"reset", "change"} => j.new \in Passwords,
         start = "check" => j.cmd = "requestEmail"
  PROVE  TypeInv'
<1>1. /\ TypeOK /\ pc[r] = "idle" /\ UNCHANGED <<store, clock, user>>
      /\ job' = [job EXCEPT ![r] = j] /\ pc' = [pc EXCEPT ![r] = start]
  BY DEF Submit, TypeInv
<1>2. OthersWait(r) /\ job'[r] = j /\ pc'[r] = start
  BY <1>1 DEF OthersWait, TypeOK
<1>3. TypeOK'
  BY <1>1 DEF Submit, TypeOK
<1>4. user[r] = NoUser
  BY <1>1 DEF TypeInv, UserInv, Loaded
<1>5. JobInv(r)' /\ UserInv(r)'
  BY <1>1, <1>2, <1>4 DEF JobInv, UserInv, Loaded
<1>6. \A u \in Users : CodesOf(u)' \subseteq CodesOf(u)
  BY <1>1 DEF CodesOf
<1>7. lastCode' >= lastCode
  BY <1>1 DEF TypeOK
<1> QED
  BY <1>2, <1>3, <1>5, <1>6, <1>7, TypesFrom

\* Every arrival keeps the types.
LEMMA ArriveType ==
  ASSUME TypeInv, NEW r \in Requests, Arrive(r)
  PROVE  TypeInv'
<1> DEFINE Is(j, cmd, u, e, c, p, n) ==
      /\ j.cmd = cmd /\ j.user = u /\ j.email = e /\ j.code = c /\ j.password = p
      /\ j.new = n /\ j \in Job
<1>1. \A c \in TypedIn : c \in Nat
  BY DEF TypedIn, TypeInv, TypeOK
<1>2. CASE SubmitRequestReset(r)
  <2>1. PICK e \in Emails :
          Submit(r, [NoJob EXCEPT !.cmd = "requestReset", !.email = e], "loadRow")
    BY <1>2 DEF SubmitRequestReset
  <2> DEFINE j == [NoJob EXCEPT !.cmd = "requestReset", !.email = e]
  <2>2. Is(j, "requestReset", None, e, 0, None, None)
    BY DEF NoJob, Job, AllCommands
  <2> QED
    BY <2>1, <2>2, SubmitType DEF ByEmail
<1>3. CASE SubmitReset(r)
  <2>1. PICK e \in Emails, c \in TypedIn, p \in Passwords :
          Submit(r, [NoJob EXCEPT !.cmd = "reset", !.email = e, !.code = c, !.new = p],
                 "loadRow")
    BY <1>3 DEF SubmitReset
  <2> DEFINE j == [NoJob EXCEPT !.cmd = "reset", !.email = e, !.code = c, !.new = p]
  <2>2. Is(j, "reset", None, e, c, None, p)
    BY <1>1 DEF NoJob, Job, AllCommands
  <2> QED
    BY <2>1, <2>2, SubmitType DEF ByEmail
<1>4. CASE SubmitChange(r)
  <2>1. PICK u \in Users, old \in Passwords, p \in Passwords :
          Submit(r, [NoJob EXCEPT !.user = u, !.password = old, !.new = p], "loadRow")
    BY <1>4 DEF SubmitChange
  <2> DEFINE j == [NoJob EXCEPT !.user = u, !.password = old, !.new = p]
  <2>2. Is(j, "change", u, None, 0, old, p)
    BY DEF NoJob, Job, AllCommands
  <2> QED
    BY <2>1, <2>2, SubmitType, NoneAssumption DEF ByEmail
<1>5. CASE SubmitRequestEmail(r)
  <2>1. PICK u \in Users, e \in Emails :
          Submit(r, [NoJob EXCEPT !.cmd = "requestEmail", !.user = u, !.email = e],
                 "check")
    BY <1>5 DEF SubmitRequestEmail
  <2> DEFINE j == [NoJob EXCEPT !.cmd = "requestEmail", !.user = u, !.email = e]
  <2>2. Is(j, "requestEmail", u, e, 0, None, None)
    BY DEF NoJob, Job, AllCommands
  <2> QED
    BY <2>1, <2>2, SubmitType, NoneAssumption DEF ByEmail
<1>6. CASE SubmitChangeEmail(r)
  <2>1. PICK u \in Users, c \in TypedIn, p \in Passwords :
          Submit(r, [NoJob EXCEPT !.cmd = "changeEmail", !.user = u, !.code = c,
                                  !.password = p], "loadRow")
    BY <1>6 DEF SubmitChangeEmail
  <2> DEFINE j == [NoJob EXCEPT !.cmd = "changeEmail", !.user = u, !.code = c,
                                !.password = p]
  <2>2. Is(j, "changeEmail", u, None, c, p, None)
    BY <1>1 DEF NoJob, Job, AllCommands
  <2> QED
    BY <2>1, <2>2, SubmitType, NoneAssumption DEF ByEmail
<1> QED
  BY <1>2, <1>3, <1>4, <1>5, <1>6 DEF Arrive

\* Whatever a request leaves behind in the outbox, its end keeps the types.
LEMMA FinishType ==
  ASSUME TypeInv, NEW r \in Requests, Finish(r), UNCHANGED <<store, clock, ghosts>>,
         mailed' \subseteq [n : Nat, to : Emails \cup {None}]
  PROVE  TypeInv'
<1>1. TypeOK
  BY DEF TypeInv
<1>2. /\ OthersWait(r) /\ pc'[r] = "idle" /\ user'[r] = NoUser /\ job'[r] = NoJob
      /\ TypeOK'
  BY <1>1, FinishLeaves DEF TypeOK
<1>3. JobInv(r)' /\ UserInv(r)'
  BY <1>2 DEF JobInv, UserInv, Loaded
<1>4. \A u \in Users : CodesOf(u)' \subseteq CodesOf(u)
  BY <1>2, CodesKept, InCodesOf DEF NoUser
<1>5. lastCode' >= lastCode
  BY <1>1 DEF TypeOK
<1> QED
  BY <1>2, <1>3, <1>4, <1>5, TypesFrom

\* Going on with a copy of the user whose codes are among those known.
LEMMA GotoType ==
  ASSUME TypeInv, NEW r \in Requests, NEW x \in User, user' = [user EXCEPT ![r] = x],
         NEW where \in {"check", "loadRow", "loadCodes", "loadHistory", "decide", "audit",
                        "save", "mail", "signIn"},
         Goto(r, where), JobInv(r)', UserInv(r)',
         lastCode' >= lastCode,
         rows' \in [Users -> Row], codes' \in [Users -> SUBSET Code],
         history' \in [Users -> Seq(Passwords)], lastCode' \in Nat, expired' = expired,
         mailed' = mailed, knew' \subseteq Requests, audited' \subseteq Nat,
         used' \subseteq Nat, confirmed' = confirmed, voided' \in [Users -> Nat],
         stale' \subseteq Requests, overwritten' \subseteq Users,
         chosen' \in [Users -> Seq([password : Passwords,
                                    by : {"register", "change", "reset"}])],
         \A u \in Users : codes'[u] \subseteq CodesOf(u),
         \A u \in Users : x.id = u => \A c \in x.codes : c \in CodesOf(u) \/ CodeOK(c)'
  PROVE  TypeInv'
<1>1. TypeOK
  BY DEF TypeInv
<1>2. /\ OthersWait(r) /\ user'[r] = x
      /\ job' \in [Requests -> Job] /\ user' \in [Requests -> User]
      /\ pc' \in [Requests -> {"idle", "check", "loadRow", "loadCodes", "loadHistory",
                               "decide", "audit", "save", "mail", "signIn"}]
  BY <1>1, GotoMoves
<1>3. TypeOK'
  BY <1>1, <1>2 DEF TypeOK
<1>4. ASSUME NEW u \in Users, NEW c \in CodesOf(u)' PROVE c \in CodesOf(u) \/ CodeOK(c)'
  <2>1. CASE c \in codes'[u]
    BY <2>1
  <2>2. ASSUME NEW t \in Requests, user'[t].id = u, c \in user'[t].codes
        PROVE  c \in CodesOf(u) \/ CodeOK(c)'
    <3>1. CASE t = r
      BY <1>2, <2>2, <3>1
    <3>2. CASE t # r
      BY <1>2, <2>2, <3>2, InCodesOf DEF OthersWait
    <3> QED
      BY <3>1, <3>2
  <2> QED
    BY <1>4, <2>1, <2>2 DEF CodesOf
<1> QED
  BY <1>2, <1>3, <1>4, TypesFrom

\* Types used over and over.
LEMMA InMemory ==
  ASSUME TypeInv, NEW r \in Requests
  PROVE  TypeOK /\ job[r] \in Job /\ user[r] \in User /\ lastCode >= lastCode
<1>1. TypeOK
  BY DEF TypeInv
<1>2. job[r] \in Job /\ user[r] \in User /\ lastCode \in Nat
  BY <1>1 DEF TypeOK
<1> QED
  BY <1>1, <1>2

\* What a request that has got past its look-up knows about itself.
LEMMA LoadedType ==
  ASSUME TypeInv, NEW r \in Requests, Loaded(r)
  PROVE  /\ TypeOK /\ JobInv(r) /\ pc[r] # "idle"
         /\ user[r] \in User /\ user[r].id \in Users /\ user[r].row \in Row
         /\ user[r].codes \subseteq CodesOf(user[r].id) /\ user[r].codes \subseteq Code
         /\ user[r].history \in Seq(Passwords)
         /\ job[r].user \in {None, user[r].id}
         /\ \A c \in user[r].codes : CodeOK(c) /\ c.n \in Nat
<1>1. /\ TypeOK /\ JobInv(r) /\ user[r] \in User /\ user[r].id \in Users
      /\ user[r].row \in Row /\ job[r].user \in {None, user[r].id}
  BY DEF TypeInv, UserInv, TypeOK
<1>2. pc[r] # "idle"
  BY DEF Loaded
<1>3. user[r].codes \subseteq CodesOf(user[r].id)
  BY <1>1, InCodesOf
<1>4. user[r].codes \subseteq Code /\ user[r].history \in Seq(Passwords)
  BY <1>1 DEF User
<1>5. \A c \in user[r].codes : CodeOK(c) /\ c.n \in Nat
  BY <1>1, <1>3, <1>4 DEF TypeInv, Code
<1> QED
  BY <1>1, <1>2, <1>3, <1>4, <1>5

\* The three queries keep the types.
LEMMA LoadType ==
  ASSUME TypeInv, NEW r \in Requests, LoadRow(r) \/ LoadCodes(r) \/ LoadHistory(r)
  PROVE  TypeInv'
<1>0. TypeOK /\ job[r] \in Job /\ user[r] \in User /\ lastCode >= lastCode
  BY InMemory
<1>c. \A u \in Users : codes[u] \subseteq CodesOf(u)
  BY InCodesOf
<1>1. CASE LoadRow(r)
  <2>1. PICK u \in Wanted(r) :
          user' = [user EXCEPT ![r].id = u, ![r].row = rows[u]]
    BY <1>1 DEF LoadRow
  <2>2. pc[r] = "loadRow" /\ ~Loaded(r) /\ JobInv(r) /\ Goto(r, "loadCodes")
        /\ UNCHANGED <<store, clock, mailed, ghosts>>
    BY <1>1 DEF LoadRow, Loaded, TypeInv
  <2>3. user[r] = NoUser
    BY <2>2 DEF TypeInv, UserInv
  <2>4. u \in Users /\ job[r].user \in {None, u}
    BY <1>0, <2>1 DEF Wanted, Registered, Job
  <2>5. rows[u] \in Row
    BY <1>0, <2>4 DEF TypeOK
  <2> DEFINE y == [user[r] EXCEPT !.id = u]
             x == [y EXCEPT !.row = rows[u]]
  <2>6. y \in User /\ y.id = u /\ y.codes = {}
    <3>1. user[r].codes = {}
      BY <2>3 DEF NoUser
    <3> QED
      BY <1>0, <2>4, <3>1 DEF User
  <2>7. x \in User /\ x.id = u /\ x.codes = {} /\ x.row = rows[u]
    BY <2>5, <2>6 DEF User, Row
  <2>8. user' = [user EXCEPT ![r] = x]
    <3> DEFINE half == [user EXCEPT ![r] = y]
    <3>1. half[r] = y
      BY <1>0 DEF TypeOK
    <3>2. user' = [half EXCEPT ![r] = [half[r] EXCEPT !.row = rows[u]]]
      BY <2>1
    <3>3. user' = [half EXCEPT ![r] = x]
      BY <3>1, <3>2
    <3> QED
      BY <3>3
  <2>9. pc'[r] = "loadCodes" /\ job' = job /\ user'[r] = x
    BY <1>0, <2>2, <2>7, <2>8, GotoMoves
  <2>10. JobInv(r)' /\ UserInv(r)'
    BY <2>2, <2>4, <2>5, <2>7, <2>9 DEF JobInv, UserInv, Loaded
  <2> QED
    BY <1>0, <1>c, <2>2, <2>7, <2>8, <2>10, GotoType DEF TypeOK
<1>2. CASE LoadCodes(r)
  <2>1. /\ pc[r] = "loadCodes" /\ Loaded(r) /\ Goto(r, "loadHistory")
        /\ UNCHANGED <<store, clock, mailed, ghosts>>
    BY <1>2 DEF LoadCodes, Loaded
  <2> DEFINE x == [user[r] EXCEPT !.codes = codes[user[r].id]]
  <2>2. user' = [user EXCEPT ![r] = x]
    BY <1>0, <1>2 DEF LoadCodes, TypeOK
  <2>3. x \in User /\ x.id = user[r].id /\ x.row = user[r].row /\ x.codes = codes[x.id]
    BY <1>0, <2>1, LoadedType DEF User, TypeOK
  <2>4. pc'[r] = "loadHistory" /\ job' = job /\ user'[r] = x
    BY <1>0, <2>1, <2>2, <2>3, GotoMoves
  <2>5. JobInv(r)' /\ UserInv(r)'
    BY <2>1, <2>3, <2>4, LoadedType DEF JobInv, UserInv, Loaded
  <2> QED
    BY <1>0, <1>c, <2>1, <2>2, <2>3, <2>5, GotoType DEF TypeOK
<1>3. CASE LoadHistory(r)
  <2>1. /\ pc[r] = "loadHistory" /\ Loaded(r) /\ Goto(r, "decide")
        /\ UNCHANGED <<store, clock, mailed, ghosts>>
    BY <1>3 DEF LoadHistory, Loaded
  <2> DEFINE x == [user[r] EXCEPT !.history = history[user[r].id]]
  <2>2. user' = [user EXCEPT ![r] = x]
    BY <1>0, <1>3 DEF LoadHistory, TypeOK
  <2>3. x \in User /\ x.id = user[r].id /\ x.row = user[r].row /\ x.codes = user[r].codes
    BY <1>0, <2>1, LoadedType DEF User, TypeOK
  <2>4. pc'[r] = "decide" /\ job' = job /\ user'[r] = x
    BY <1>0, <2>1, <2>2, <2>3, GotoMoves
  <2>5. user[r].id # None
    BY <2>1, LoadedType, NoneAssumption
  <2>6. JobInv(r)' /\ UserInv(r)'
    BY <2>1, <2>3, <2>4, <2>5, LoadedType DEF JobInv, UserInv, Loaded
  <2> QED
    BY <1>0, <1>c, <2>1, <2>2, <2>3, <2>6, GotoType, LoadedType DEF TypeOK
<1> QED
  BY <1>1, <1>2, <1>3

\* The ends that change nothing but the outbox.
LEMMA LeaveType ==
  ASSUME TypeInv, NEW r \in Requests,
         \/ LoadSeveral(r) \/ RequestResetUnknown(r) \/ RejectReset(r) \/ SignIn(r)
         \/ RejectChange(r) \/ RejectAddress(r) \/ RejectConfirmation(r)
         \/ SendMail(r) \/ Abort(r)
  PROVE  TypeInv'
<1>1. Finish(r) /\ UNCHANGED <<store, clock, ghosts>>
  BY DEF LoadSeveral, RequestResetUnknown, RejectReset, SignIn, RejectChange,
         RejectAddress, RejectConfirmation, SendMail, Abort
<1>2. mailed \subseteq [n : Nat, to : Emails \cup {None}]
  BY DEF TypeInv, TypeOK
<1>3. CASE SendMail(r)
  <2>1. Loaded(r)
    BY <1>3 DEF SendMail, Loaded
  <2>2. user[r].codes \subseteq Code /\ user[r].row.email \in Emails
    BY <2>1, LoadedType DEF Row
  <2>3. \A c \in user[r].codes : [n |-> c.n, to |-> Recipient(user[r], c)]
                                   \in [n : Nat, to : Emails \cup {None}]
    BY <2>2 DEF Code, Recipient
  <2>4. mailed' \subseteq [n : Nat, to : Emails \cup {None}]
    BY <1>2, <1>3, <2>3 DEF SendMail, OfType
  <2> QED
    BY <1>1, <2>4, FinishType
<1>4. CASE ~SendMail(r)
  <2>1. mailed' = mailed
    BY <1>4 DEF LoadSeveral, RequestResetUnknown, RejectReset, SignIn, RejectChange,
                RejectAddress, RejectConfirmation, Abort
  <2> QED
    BY <1>1, <1>2, <2>1, FinishType
<1> QED
  BY <1>3, <1>4

\* Going on with the same copy.
LEMMA PassType ==
  ASSUME TypeInv, NEW r \in Requests,
         LoadNull(r) \/ AddressIsFree(r) \/ KeepResetCode(r) \/ AuditReset(r)
  PROVE  TypeInv'
<1>1. /\ TypeOK /\ job[r] \in Job /\ user[r] \in User /\ lastCode >= lastCode
      /\ JobInv(r) /\ UserInv(r)
  BY InMemory DEF TypeInv
<1>2. /\ user' = user
      /\ UNCHANGED <<store, clock, mailed, knew, chosen, used, confirmed, voided, copies>>
  BY DEF LoadNull, AddressIsFree, KeepResetCode, AuditReset
<1>3. user' = [user EXCEPT ![r] = user[r]]
  BY <1>1, <1>2 DEF TypeOK
<1>4. PICK where \in {"decide", "loadRow", "mail", "save"} : Goto(r, where)
  BY DEF LoadNull, AddressIsFree, KeepResetCode, AuditReset
<1>5. pc'[r] = where /\ job' = job
  BY <1>1, <1>3, <1>4, GotoMoves
<1>6. where = "decide" => LoadNull(r)
  BY <1>1, <1>5 DEF AddressIsFree, KeepResetCode, AuditReset, Goto, TypeOK
<1>7. where = "loadRow" => AddressIsFree(r)
  BY <1>1, <1>5 DEF LoadNull, KeepResetCode, AuditReset, Goto, TypeOK
<1>8. where = "mail" => KeepResetCode(r)
  BY <1>1, <1>5 DEF LoadNull, AddressIsFree, AuditReset, Goto, TypeOK
<1>9. where = "save" => AuditReset(r)
  BY <1>1, <1>5 DEF LoadNull, AddressIsFree, KeepResetCode, Goto, TypeOK
<1>10. audited' \subseteq Nat
  <2>1. audited \subseteq Nat /\ job[r].code \in Nat
    BY <1>1 DEF TypeOK, Job
  <2>2. audited' \in {audited, audited \cup {job[r].code}}
    BY DEF LoadNull, AddressIsFree, KeepResetCode, AuditReset
  <2> QED
    BY <2>1, <2>2
<1>11. JobInv(r)' /\ UserInv(r)'
  <2>1. CASE LoadNull(r) /\ where = "decide"
    <3>1. user[r] = NoUser /\ job[r].user = None
      BY <1>1, <2>1 DEF LoadNull, UserInv, Loaded, Wanted
    <3> QED
      BY <1>1, <1>2, <1>5, <2>1, <3>1 DEF LoadNull, JobInv, UserInv, Loaded, NoUser
  <2>2. CASE AddressIsFree(r) /\ where = "loadRow"
    BY <1>1, <1>2, <1>5, <2>2 DEF AddressIsFree, JobInv, UserInv, Loaded
  <2>3. CASE KeepResetCode(r) /\ where = "mail"
    BY <1>1, <1>2, <1>5, <2>3 DEF KeepResetCode, At, JobInv, UserInv, Loaded
  <2>4. CASE AuditReset(r) /\ where = "save"
    BY <1>1, <1>2, <1>5, <2>4 DEF AuditReset, JobInv, UserInv, Loaded
  <2> QED
    BY <1>6, <1>7, <1>8, <1>9, <2>1, <2>2, <2>3, <2>4
<1>12. \A u \in Users : codes[u] \subseteq CodesOf(u) /\
         (user[r].id = u => user[r].codes \subseteq CodesOf(u))
  BY InCodesOf
<1>13. /\ rows' \in [Users -> Row] /\ codes' \in [Users -> SUBSET Code]
       /\ history' \in [Users -> Seq(Passwords)] /\ lastCode' \in Nat
       /\ knew' \subseteq Requests /\ used' \subseteq Nat
       /\ voided' \in [Users -> Nat] /\ stale' \subseteq Requests
       /\ overwritten' \subseteq Users
       /\ chosen' \in [Users -> Seq([password : Passwords,
                                     by : {"register", "change", "reset"}])]
  BY <1>1, <1>2 DEF TypeOK
<1> QED
  BY <1>1, <1>2, <1>3, <1>4, <1>10, <1>11, <1>12, <1>13, GotoType

\* A new code has the next number.
LEMMA AddCodeType ==
  ASSUME TypeInv, NEW r \in Requests, AddResetCode(r) \/ AddConfirmCode(r)
  PROVE  TypeInv'
<1>0. TypeOK /\ job[r] \in Job /\ user[r] \in User /\ lastCode \in Nat
  BY InMemory DEF TypeOK
<1>1. /\ At(r, "requestReset") \/ At(r, "requestEmail")
      /\ At(r, "requestReset") => user[r].id # None
      /\ Goto(r, "save") /\ UNCHANGED <<store, expired, mailed, ghosts>>
  BY DEF AddResetCode, AddConfirmCode, At
<1>2. Loaded(r) /\ JobInv(r)
  BY <1>1 DEF TypeInv, JobInv, UserInv, Loaded, At, ByEmail
<1>3. PICK type \in {"reset", "confirm"}, address \in Emails \cup {None} :
        /\ AddCode(r, type, address)
        /\ type = "confirm" => address \in Emails
  BY <1>1, <1>2 DEF AddResetCode, AddConfirmCode, JobInv, At
<1>c. PICK c \in Code : c = [n |-> lastCode + 1, type |-> type, pending |-> address]
  <2>1. [n |-> lastCode + 1, type |-> type, pending |-> address] \in Code
    BY <1>0 DEF Code
  <2> QED
    BY <2>1
<1> DEFINE x == [user[r] EXCEPT !.codes = user[r].codes \cup {c}]
<1>4. lastCode' = lastCode + 1 /\ user' = [user EXCEPT ![r] = x]
  BY <1>0, <1>3, <1>c DEF AddCode, TypeOK
<1>5. CodeOK(c)'
  <2>1. c.n = lastCode + 1 /\ c.type = type /\ c.pending = address
    BY <1>c
  <2>2. c.n \in Nat /\ c.n # 0 /\ c.n <= lastCode'
    BY <1>0, <1>4, <2>1
  <2> QED
    BY <1>3, <2>1, <2>2 DEF CodeOK
<1>6. x \in User /\ x.id = user[r].id /\ x.row = user[r].row
        /\ x.codes = user[r].codes \cup {c}
  BY <1>0, <1>5 DEF User
<1> HIDE DEF x
<1>7. pc'[r] = "save" /\ job' = job /\ user'[r] = x
  BY <1>0, <1>1, <1>4, <1>6, GotoMoves
<1>8. JobInv(r)' /\ UserInv(r)'
  BY <1>2, <1>6, <1>7, LoadedType DEF JobInv, UserInv, Loaded
<1>9. \A u \in Users : codes[u] \subseteq CodesOf(u) /\
         (user[r].id = u => user[r].codes \subseteq CodesOf(u))
  BY InCodesOf
<1>10. /\ rows' \in [Users -> Row] /\ codes' \in [Users -> SUBSET Code]
       /\ history' \in [Users -> Seq(Passwords)]
       /\ knew' \subseteq Requests /\ used' \subseteq Nat /\ audited' \subseteq Nat
       /\ voided' \in [Users -> Nat] /\ stale' \subseteq Requests
       /\ overwritten' \subseteq Users
       /\ chosen' \in [Users -> Seq([password : Passwords,
                                     by : {"register", "change", "reset"}])]
  BY <1>0, <1>1, <1>4 DEF TypeOK
<1>12. lastCode' \in Nat /\ lastCode' >= lastCode
  BY <1>0, <1>4
<1>11. \A u \in Users : /\ codes'[u] \subseteq CodesOf(u)
                        /\ x.id = u => \A d \in x.codes : d \in CodesOf(u) \/ CodeOK(d)'
  BY <1>1, <1>5, <1>6, <1>9
<1> QED
  BY <1>1, <1>4, <1>6, <1>8, <1>10, <1>11, <1>12, GotoType

\* What a save puts on record is typed, and no code is new.
LEMMA UpdateUserType ==
  ASSUME TypeInv, NEW r \in Requests, Loaded(r), UpdateUser(user[r])
  PROVE  /\ rows' \in [Users -> Row] /\ codes' \in [Users -> SUBSET Code]
         /\ history' \in [Users -> Seq(Passwords)] /\ knew' \subseteq Requests
         /\ \A u \in Users : codes'[u] \subseteq CodesOf(u)
         /\ \A u \in Users : IF u = user[r].id
              THEN /\ rows'[u] = user[r].row /\ codes'[u] = user[r].codes
                   /\ history'[u] = user[r].history
              ELSE /\ rows'[u] = rows[u] /\ codes'[u] = codes[u]
                   /\ history'[u] = history[u]
<1>1. /\ TypeOK /\ user[r].id \in Users /\ user[r].row \in Row
      /\ user[r].codes \subseteq Code /\ user[r].history \in Seq(Passwords)
      /\ user[r].codes \subseteq CodesOf(user[r].id)
  BY LoadedType
<1>2. \A u \in Users : codes[u] \subseteq CodesOf(u)
  BY InCodesOf
<1>3. /\ rows' \in [Users -> Row] /\ codes' \in [Users -> SUBSET Code]
      /\ history' \in [Users -> Seq(Passwords)]
  BY <1>1 DEF UpdateUser, TypeOK
<1>4. knew' \subseteq Requests
  BY <1>1 DEF UpdateUser, TypeOK, InFlight
<1>5. \A u \in Users : IF u = user[r].id
              THEN /\ rows'[u] = user[r].row /\ codes'[u] = user[r].codes
                   /\ history'[u] = user[r].history
              ELSE /\ rows'[u] = rows[u] /\ codes'[u] = codes[u]
                   /\ history'[u] = history[u]
  BY <1>1 DEF UpdateUser, TypeOK
<1> QED
  BY <1>1, <1>2, <1>3, <1>4, <1>5

\* The record of chosen passwords.
LEMMA ChooseType ==
  ASSUME TypeInv, NEW r \in Requests, Loaded(r), NEW how \in {"change", "reset"},
         Choose(r, how)
  PROVE  /\ chosen' \in [Users -> Seq([password : Passwords,
                                       by : {"register", "change", "reset"}])]
         /\ \A u \in Users : IF u = user[r].id
              THEN /\ chosen'[u] # <<>>
                   /\ chosen'[u][Len(chosen'[u])].password = user[r].row.password
              ELSE chosen'[u] = chosen[u]
<1> DEFINE T == [password : Passwords, by : {"register", "change", "reset"}]
           e == [password |-> user[r].row.password, by |-> how]
<1>1. /\ user[r].id \in Users /\ chosen \in [Users -> Seq(T)] /\ user[r].row.password \in Passwords
  BY LoadedType DEF TypeOK, Row
<1>2. e \in T /\ e.password = user[r].row.password
  BY <1>1
<1>3. chosen' = [chosen EXCEPT ![user[r].id] = Append(chosen[user[r].id], e)]
  BY <1>1 DEF Choose
<1> HIDE DEF e, T
<1>4. ASSUME NEW q \in Seq(T)
      PROVE  /\ Append(q, e) \in Seq(T) /\ Append(q, e) # <<>>
             /\ Append(q, e)[Len(Append(q, e))] = e
  BY <1>2, AppendProperties
<1>5. chosen' \in [Users -> Seq(T)]
  BY <1>1, <1>3, <1>4
<1>6. \A u \in Users : chosen'[u] = IF u = user[r].id THEN Append(chosen[u], e) ELSE chosen[u]
  BY <1>1, <1>3
<1>7. \A u \in Users : chosen[u] \in Seq(T)
  BY <1>1
<1> QED
  BY <1>2, <1>4, <1>5, <1>6, <1>7 DEF T

\* It grows by one at its end.
LEMMA ChooseAppends ==
  ASSUME TypeInv, NEW r \in Requests, Loaded(r), NEW how \in {"change", "reset"},
         Choose(r, how), NEW u \in Users
  PROVE  IF u = user[r].id
         THEN LET n == Len(chosen[u])
              IN /\ n \in Nat /\ Len(chosen'[u]) = n + 1
                 /\ \A k \in 1..n : chosen'[u][k] = chosen[u][k]
                 /\ chosen'[u][n + 1].password = user[r].row.password
                 /\ chosen'[u][n + 1].by = how
         ELSE chosen'[u] = chosen[u]
<1> DEFINE T == [password : Passwords, by : {"register", "change", "reset"}]
           e == [password |-> user[r].row.password, by |-> how]
<1>1. /\ user[r].id \in Users /\ chosen \in [Users -> Seq(T)]
      /\ user[r].row.password \in Passwords
  BY LoadedType DEF TypeOK, Row
<1>2. e \in T /\ e.password = user[r].row.password /\ e.by = how
  BY <1>1
<1>3. chosen' = [chosen EXCEPT ![user[r].id] = Append(chosen[user[r].id], e)]
  BY <1>1 DEF Choose
<1> HIDE DEF e, T
<1>4. ASSUME NEW q \in Seq(T)
      PROVE  /\ Len(q) \in Nat /\ Len(Append(q, e)) = Len(q) + 1
             /\ \A k \in 1..Len(q) : Append(q, e)[k] = q[k]
             /\ Append(q, e)[Len(q) + 1] = e
  BY <1>2, AppendProperties
<1>5. chosen'[u] = IF u = user[r].id THEN Append(chosen[u], e) ELSE chosen[u]
  BY <1>1, <1>3
<1> QED
  BY <1>1, <1>2, <1>4, <1>5

\* The saves keep the types.
LEMMA SaveType ==
  ASSUME TypeInv, NEW r \in Requests,
         SaveNewCode(r) \/ SaveReset(r) \/ SaveChange(r) \/ SaveEmail(r)
  PROVE  TypeInv'
<1>1. Loaded(r) /\ UpdateUser(user[r]) /\ pc[r] = "save"
  BY DEF SaveNewCode, SaveReset, SaveChange, SaveEmail, Saves, Loaded
<1>2. /\ TypeOK /\ JobInv(r) /\ UserInv(r) /\ job[r] \in Job /\ user[r] \in User
      /\ lastCode >= lastCode
  BY <1>1, LoadedType, InMemory DEF TypeInv
<1>3. /\ rows' \in [Users -> Row] /\ codes' \in [Users -> SUBSET Code]
      /\ history' \in [Users -> Seq(Passwords)] /\ knew' \subseteq Requests
      /\ \A u \in Users : codes'[u] \subseteq CodesOf(u)
  BY <1>1, UpdateUserType
<1>4. UNCHANGED <<clock, mailed, audited>>
  BY DEF SaveNewCode, SaveReset, SaveChange, SaveEmail
<1>5. chosen' \in [Users -> Seq([password : Passwords,
                                 by : {"register", "change", "reset"}])]
  BY <1>1, <1>2, ChooseType DEF SaveNewCode, SaveReset, SaveChange, SaveEmail, TypeOK
<1>6. used' \subseteq Nat
  <2>1. used \subseteq Nat /\ job[r].code \in Nat
    BY <1>2 DEF TypeOK, Job
  <2>2. used' \in {used, used \cup {job[r].code}}
    BY DEF SaveNewCode, SaveReset, SaveChange, SaveEmail
  <2> QED
    BY <2>1, <2>2
<1>7. confirmed' \in [Users -> SUBSET Nat]
  <2>1. confirmed \in [Users -> SUBSET Nat] /\ job[r].code \in Nat
    BY <1>2 DEF TypeOK, Job
  <2>2. \/ confirmed' = confirmed
        \/ confirmed' = [confirmed EXCEPT ![user[r].id] = @ \cup {job[r].code}]
    BY DEF SaveNewCode, SaveReset, SaveChange, SaveEmail
  <2> QED
    BY <2>1, <2>2
<1>v. voided' \in [Users -> Nat]
  BY <1>2 DEF SaveNewCode, SaveReset, SaveChange, SaveEmail, TypeOK
<1>o. stale' \subseteq Requests /\ overwritten' \subseteq Users
  <2>1. stale \subseteq Requests /\ overwritten \subseteq Users /\ user[r].id \in Users
    BY <1>1, <1>2, LoadedType DEF TypeOK
  <2> QED
    BY <2>1 DEF SaveNewCode, SaveReset, SaveChange, SaveEmail, Overtake, Holding
<1>8. OthersWait(r) /\ (user'[r] = user[r] \/ user'[r] = NoUser)
  <2>1. CASE SaveNewCode(r) \/ SaveReset(r)
    BY <1>2, <2>1 DEF SaveNewCode, SaveReset, Goto, OthersWait, TypeOK
  <2>2. CASE SaveChange(r) \/ SaveEmail(r)
    BY <1>2, <2>2, FinishLeaves DEF SaveChange, SaveEmail
  <2> QED
    BY <2>1, <2>2
<1>9. /\ job' \in [Requests -> Job] /\ user' \in [Requests -> User]
      /\ pc' \in [Requests -> {"idle", "check", "loadRow", "loadCodes", "loadHistory",
                               "decide", "audit", "save", "mail", "signIn"}]
      /\ JobInv(r)' /\ UserInv(r)'
  <2>1. CASE SaveNewCode(r) \/ SaveReset(r)
    <3>1. /\ user' = user /\ job' = job
          /\ \/ Saves(r, "reset") /\ pc' = [pc EXCEPT ![r] = "signIn"]
             \/ /\ Saves(r, "requestReset") \/ Saves(r, "requestEmail")
                /\ pc' = [pc EXCEPT ![r] = "mail"]
      BY <2>1 DEF SaveNewCode, SaveReset, Goto
    <3>2. /\ job' \in [Requests -> Job] /\ user' \in [Requests -> User]
          /\ pc' \in [Requests -> {"idle", "check", "loadRow", "loadCodes", "loadHistory",
                                   "decide", "audit", "save", "mail", "signIn"}]
          /\ \/ Saves(r, "reset") /\ pc'[r] = "signIn"
             \/ (Saves(r, "requestReset") \/ Saves(r, "requestEmail")) /\ pc'[r] = "mail"
      BY <1>2, <3>1 DEF TypeOK
    <3> QED
      BY <1>1, <1>2, <3>1, <3>2 DEF JobInv, UserInv, Loaded, Saves
  <2>2. CASE SaveChange(r) \/ SaveEmail(r)
    BY <1>2, <2>2, FinishLeaves DEF SaveChange, SaveEmail, JobInv, UserInv, Loaded
  <2> QED
    BY <2>1, <2>2
<1>10. TypeOK'
  BY <1>2, <1>3, <1>4, <1>5, <1>6, <1>7, <1>v, <1>o, <1>9 DEF TypeOK
<1>11. \A u \in Users : CodesOf(u)' \subseteq CodesOf(u)
  BY <1>3, <1>8, CodesKept, InCodesOf DEF NoUser
<1> QED
  BY <1>2, <1>4, <1>8, <1>9, <1>10, <1>11, TypesFrom

\* The copy after a reset: a password, an active user, and no access or reset codes.
LEMMA AfterResetType ==
  ASSUME NEW u \in User, u.row \in Row, NEW p \in Passwords
  PROVE  LET x == AfterReset(u, p)
         IN /\ x \in User /\ x.id = u.id /\ x.row \in Row
            /\ x.row.password = p /\ x.row.email = u.row.email
            /\ x.history = u.history
            /\ x.codes = {c \in u.codes : c.type \notin {"access", "reset"}}
<1> DEFINE w1 == [u.row EXCEPT !.password = p]
           w2 == [w1 EXCEPT !.active = TRUE]
           u1 == [u EXCEPT !.row = w1]
           u2 == [u1 EXCEPT !.row = w2]
           S == {c \in u.codes : c.type \notin {"access", "reset"}}
           x == [u2 EXCEPT !.codes = S]
<1>1. w1 \in Row /\ w1.password = p /\ w1.email = u.row.email
  BY DEF Row
<1> HIDE DEF w1
<1>2. w2 \in Row /\ w2.password = p /\ w2.email = u.row.email
  BY <1>1 DEF Row
<1> HIDE DEF w2
<1>3. /\ \A w \in Row : w \in [email : Emails \cup {None}, password : Passwords \cup {None},
                               active : BOOLEAN]
      /\ S \in SUBSET Code
  BY DEF Row, User
<1> HIDE DEF S
<1>4. u1 \in User /\ u1.id = u.id /\ u1.row = w1 /\ u1.codes = u.codes
        /\ u1.history = u.history
  BY <1>1, <1>3 DEF User
<1> HIDE DEF u1
<1>5. u2 \in User /\ u2.id = u.id /\ u2.row = w2 /\ u2.codes = u.codes
        /\ u2.history = u.history
  BY <1>2, <1>3, <1>4 DEF User
<1> HIDE DEF u2
<1>6. x \in User /\ x.id = u.id /\ x.row = w2 /\ x.codes = S
        /\ x.history = u.history
  BY <1>3, <1>5 DEF User
<1>7. AfterReset(u, p) = x
  BY <1>4 DEF AfterReset, x, u2, w2, u1, w1, S
<1> QED
  BY <1>2, <1>6, <1>7 DEF S

\* The copies that the decisions leave to be saved.
LEMMA ResetCopy ==
  ASSUME TypeInv, NEW r \in Requests, Reset(r)
  PROVE  /\ Loaded(r) /\ At(r, "reset") /\ Goto(r, "audit")
         /\ \E x \in User :
              /\ user' = [user EXCEPT ![r] = x]
              /\ x.id = user[r].id /\ x.row \in Row /\ x.row.email = user[r].row.email
              /\ x.history = user[r].history
              /\ x.codes = {c \in user[r].codes : c.type \notin {"access", "reset"}}
<1>1. At(r, "reset") /\ Goto(r, "audit") /\ ValidResetCode(r)
        /\ user' = [user EXCEPT ![r] = AfterReset(user[r], job[r].new)]
  BY DEF Reset
<1>2. user[r].codes # {}
  BY <1>1 DEF ValidResetCode, OfType
<1>3. Loaded(r)
  BY <1>1, <1>2 DEF TypeInv, UserInv, At, Loaded, NoUser
<1>4. user[r] \in User /\ user[r].row \in Row /\ job[r].new \in Passwords
  BY <1>1, <1>3, LoadedType DEF JobInv, At
<1> DEFINE x == AfterReset(user[r], job[r].new)
<1>5. /\ x \in User /\ x.id = user[r].id /\ x.row \in Row /\ x.row.email = user[r].row.email
      /\ x.history = user[r].history
      /\ x.codes = {c \in user[r].codes : c.type \notin {"access", "reset"}}
  BY <1>4, AfterResetType
<1> HIDE DEF x
<1>6. user' = [user EXCEPT ![r] = x]
  BY <1>1 DEF x
<1> QED
  BY <1>1, <1>3, <1>5, <1>6

\* What a change of password does to the object in memory.
LEMMA ChangeCopy ==
  ASSUME TypeInv, NEW r \in Requests, Change(r)
  PROVE  /\ Loaded(r) /\ At(r, "change") /\ Goto(r, "save")
         /\ \E x \in User :
              /\ user' = [user EXCEPT ![r] = x]
              /\ x.id = user[r].id /\ x.row \in Row /\ x.row.email = user[r].row.email
              /\ x.codes = user[r].codes /\ x.row.password = job[r].new
              /\ x.history = Append(user[r].history, job[r].new)
<1> DEFINE p == job[r].new
           w == [user[r].row EXCEPT !.password = p]
           y == [user[r] EXCEPT !.row = w]
           h == Append(user[r].history, p)
           x == [y EXCEPT !.history = h]
           half == [user EXCEPT ![r] = y]
<1>1. At(r, "change") /\ Goto(r, "save")
  BY DEF Change
<1>2. Loaded(r)
  BY <1>1 DEF TypeInv, JobInv, UserInv, At, Loaded, ByEmail
<1>3. /\ user[r] \in User /\ user[r].row \in Row /\ p \in Passwords /\ TypeOK
      /\ user[r].history \in Seq(Passwords)
  BY <1>1, <1>2, LoadedType DEF JobInv, At
<1>4. half[r] = y
  BY <1>3 DEF TypeOK
<1>5. user' = [half EXCEPT ![r] = [half[r] EXCEPT !.history = Append(half[r].history, p)]]
  BY DEF Change
<1>6. y.history = user[r].history
  BY <1>3 DEF User
<1>7. user' = [half EXCEPT ![r] = x]
  BY <1>4, <1>5, <1>6
<1>8. user' = [user EXCEPT ![r] = x]
  BY <1>7
<1>9. w \in Row /\ w.email = user[r].row.email /\ w.password = job[r].new
  BY <1>3 DEF Row
<1>10. h \in Seq(Passwords) /\ h = Append(user[r].history, job[r].new)
  BY <1>3
<1> HIDE DEF w, h
<1>11. y \in User /\ y.id = user[r].id /\ y.row = w /\ y.codes = user[r].codes
  BY <1>3, <1>9 DEF User, Row
<1> HIDE DEF y
<1>12. x \in User /\ x.id = user[r].id /\ x.row = w /\ x.codes = user[r].codes
         /\ x.history = h
  BY <1>10, <1>11 DEF User
<1> QED
  BY <1>1, <1>2, <1>8, <1>9, <1>10, <1>12

\* What a confirmed change of address does to the object in memory.
LEMMA ConfirmCopy ==
  ASSUME TypeInv, NEW r \in Requests, ConfirmEmail(r)
  PROVE  /\ Loaded(r) /\ At(r, "changeEmail") /\ Goto(r, "save")
         /\ \E x \in User, c \in Matching(r) :
              /\ user' = [user EXCEPT ![r] = x]
              /\ x.id = user[r].id /\ x.row \in Row /\ x.row.email = c.pending
              /\ x.row.password = user[r].row.password
              /\ x.history = user[r].history
              /\ x.codes = {d \in user[r].codes : d.type # "confirm"}
<1>1. At(r, "changeEmail") /\ Goto(r, "save")
  BY DEF ConfirmEmail
<1>2. Loaded(r)
  BY <1>1 DEF TypeInv, JobInv, UserInv, At, Loaded, ByEmail
<1>3. PICK c \in Matching(r) :
        user' = [user EXCEPT ![r].row.email = c.pending,
                             ![r].codes = WithoutConfirmations(r, @)]
  BY DEF ConfirmEmail
<1> DEFINE w == [user[r].row EXCEPT !.email = c.pending]
           y == [user[r] EXCEPT !.row = w]
           S == {d \in user[r].codes : d.type # "confirm"}
           x == [y EXCEPT !.codes = S]
           half == [user EXCEPT ![r] = y]
<1>4. /\ user[r] \in User /\ user[r].row \in Row /\ TypeOK
      /\ c.pending \in Emails /\ user[r].codes \subseteq Code
  BY <1>2, <1>3, LoadedType DEF Matching, OfType, CodeOK
<1>5. half[r] = y
  BY <1>4 DEF TypeOK
<1>6. y.codes = user[r].codes
  BY <1>4 DEF User
<1>7. user' = [half EXCEPT ![r] =
                 [half[r] EXCEPT !.codes = WithoutConfirmations(r, half[r].codes)]]
  BY <1>3
<1>8. WithoutConfirmations(r, user[r].codes) = S
  BY DEF WithoutConfirmations, OfType
<1>9. user' = [half EXCEPT ![r] = x]
  BY <1>5, <1>6, <1>7, <1>8
<1>10. user' = [user EXCEPT ![r] = x]
  BY <1>9
<1>11. /\ w \in Row /\ w.email = c.pending /\ w.password = user[r].row.password
       /\ S \in SUBSET Code
  BY <1>4 DEF Row
<1> HIDE DEF w, S
<1>12. y \in User /\ y.id = user[r].id /\ y.row = w /\ y.history = user[r].history
  BY <1>4, <1>11 DEF User, Row
<1> HIDE DEF y
<1>13. x \in User /\ x.id = user[r].id /\ x.row = w /\ x.codes = S
         /\ x.history = user[r].history
  BY <1>11, <1>12 DEF User
<1> QED
  BY <1>1, <1>2, <1>10, <1>11, <1>13 DEF S

\* The decisions of the handlers keep the types.
LEMMA DecideType ==
  ASSUME TypeInv, NEW r \in Requests, Reset(r) \/ Change(r) \/ ConfirmEmail(r)
  PROVE  TypeInv'
<1>1. /\ Loaded(r) /\ UNCHANGED <<store, clock, mailed, ghosts>>
      /\ \/ At(r, "reset") /\ Goto(r, "audit")
         \/ (At(r, "change") \/ At(r, "changeEmail")) /\ Goto(r, "save")
  BY ResetCopy, ChangeCopy, ConfirmCopy DEF Reset, Change, ConfirmEmail
<1>2. PICK x \in User :
        /\ user' = [user EXCEPT ![r] = x]
        /\ x.id = user[r].id /\ x.row \in Row /\ x.codes \subseteq user[r].codes
  BY ResetCopy, ChangeCopy, ConfirmCopy
<1>3. /\ TypeOK /\ JobInv(r) /\ user[r].id \in Users /\ lastCode >= lastCode
      /\ job[r].user \in {None, user[r].id}
  BY <1>1, InMemory, LoadedType
<1>4. /\ job' = job /\ user'[r] = x
      /\ \/ At(r, "reset") /\ pc'[r] = "audit"
         \/ (At(r, "change") \/ At(r, "changeEmail")) /\ pc'[r] = "save"
  BY <1>1, <1>2, <1>3, GotoMoves
<1>5. JobInv(r)' /\ UserInv(r)'
  BY <1>2, <1>3, <1>4 DEF JobInv, UserInv, Loaded, At
<1>6. /\ \A u \in Users : codes[u] \subseteq CodesOf(u)
      /\ user[r].codes \subseteq CodesOf(user[r].id)
  BY <1>3, InCodesOf
<1> QED
  BY <1>1, <1>2, <1>3, <1>5, <1>6, GotoType DEF TypeOK

\* Every step keeps the types.
LEMMA NextType == TypeInv /\ [Next]_vars => TypeInv'
<1> SUFFICES ASSUME TypeInv, [Next]_vars PROVE TypeInv'
  OBVIOUS
<1>1. ASSUME NEW r \in Requests, Arrive(r) PROVE TypeInv'
  BY <1>1, ArriveType
<1>2. ASSUME NEW r \in Requests, Step(r) \/ Abort(r) PROVE TypeInv'
  BY <1>2, LoadType, LeaveType, PassType, AddCodeType, DecideType, SaveType DEF Step
<1>3. CASE Expire \/ UNCHANGED vars
  <2>1. UNCHANGED <<store, lastCode, control, mailed, ghosts>>
    BY <1>3 DEF Expire
  <2>2. expired' \in Nat
    BY <1>3 DEF Expire, TypeInv, TypeOK
  <2>3. TypeOK'
    BY <2>1, <2>2 DEF TypeInv, TypeOK
  <2>4. \A r \in Requests : JobInv(r)' /\ UserInv(r)'
    BY <2>1 DEF TypeInv, JobInv, UserInv, Loaded
  <2>5. \A u \in Users : CodesOf(u)' = CodesOf(u)
    BY <2>1 DEF CodesOf
  <2>6. \A u \in Users : \A c \in CodesOf(u)' : CodeOK(c)'
    BY <2>1, <2>5 DEF TypeInv, CodeOK
  <2> QED
    BY <2>3, <2>4, <2>6 DEF TypeInv
<1> QED
  BY <1>1, <1>2, <1>3 DEF Next

\* The types hold at the start.
LEMMA InitType == Init => TypeInv
<1> SUFFICES ASSUME Init PROVE TypeInv
  OBVIOUS
<1>1. <<>> \in Seq(Passwords) /\ NoUser.codes = {} /\ NoUser.id = None
  BY DEF NoUser
<1>2. NoUser \in User /\ NoJob \in Job
  BY <1>1 DEF NoUser, User, NoJob, Job, AllCommands
<1>3. \A u \in Users : rows[u].password \in Passwords
  BY DEF Init, Row
<1>4. [n |-> 0, type |-> "access", pending |-> None] \in Code
  BY DEF Code
<1>5. codes \in [Users -> SUBSET Code]
  BY <1>4 DEF Init
<1>6. history \in [Users -> Seq(Passwords)]
  BY <1>3 DEF Init
<1>7. chosen \in [Users -> Seq([password : Passwords, by : {"register", "change", "reset"}])]
  BY <1>3 DEF Init
<1>8. TypeOK
  BY <1>2, <1>5, <1>6, <1>7 DEF Init, TypeOK
<1>9. \A r \in Requests : user[r] = NoUser /\ pc[r] = "idle"
  BY DEF Init
<1>10. \A r \in Requests : JobInv(r) /\ UserInv(r)
  BY <1>9 DEF JobInv, UserInv, Loaded
<1>11. ASSUME NEW u \in Users, NEW c \in CodesOf(u) PROVE CodeOK(c)
  <2>1. c \in codes[u]
    BY <1>1, <1>9, <1>11 DEF CodesOf
  <2>2. c = [n |-> 0, type |-> "access", pending |-> None]
    BY <2>1 DEF Init
  <2>3. lastCode = 0
    BY DEF Init
  <2> QED
    BY <2>2, <2>3 DEF CodeOK
<1> QED
  BY <1>8, <1>10, <1>11 DEF TypeInv

\* Every variable keeps its type, however the requests of a user overlap and end.
THEOREM TypeCorrect == Spec => []TypeOK
<1>1. TypeInv => TypeOK
  BY DEF TypeInv
<1> QED
  BY <1>1, InitType, NextType, PTL DEF Spec

----------------------------------------------------------------------------
(* What every step leaves as it is.                                          *)

Saving(r) == SaveNewCode(r) \/ SaveReset(r) \/ SaveChange(r) \/ SaveEmail(r)
Adding(r) == AddResetCode(r) \/ AddConfirmCode(r)

\* A request arrives in a free slot.
LEMMA ArriveIdle ==
  ASSUME NEW r \in Requests, Arrive(r)
  PROVE  pc[r] = "idle"
<1>1. PICK j, start : Submit(r, j, start)
  BY DEF Arrive, SubmitRequestReset, SubmitReset, SubmitChange, SubmitRequestEmail,
         SubmitChangeEmail
<1> QED
  BY <1>1 DEF Submit

\* While one request moves the others stay where they are.
LEMMA MoveWaits ==
  ASSUME TypeInv, NEW r \in Requests, Moves(r)
  PROVE  OthersWait(r)
<1>1. TypeOK
  BY DEF TypeInv
<1>2. CASE Arrive(r)
  <2>1. PICK j, start : Submit(r, j, start)
    BY <1>2 DEF Arrive, SubmitRequestReset, SubmitReset, SubmitChange, SubmitRequestEmail,
                SubmitChangeEmail
  <2> QED
    BY <1>1, <2>1 DEF Submit, OthersWait, TypeOK
<1>3. ASSUME Finish(r) PROVE OthersWait(r)
  BY <1>1, <1>3, FinishLeaves
<1>4. ASSUME NEW where, Goto(r, where), NEW x, user' = [user EXCEPT ![r] = x]
      PROVE  OthersWait(r)
  BY <1>1, <1>4 DEF Goto, OthersWait, TypeOK
<1>5. ASSUME NEW where, Goto(r, where), user' = user PROVE OthersWait(r)
  BY <1>1, <1>5 DEF Goto, OthersWait, TypeOK
<1>6. CASE LoadSeveral(r) \/ RequestResetUnknown(r) \/ RejectReset(r) \/ SignIn(r)
             \/ RejectChange(r) \/ RejectAddress(r) \/ RejectConfirmation(r)
             \/ SendMail(r) \/ Abort(r) \/ SaveChange(r) \/ SaveEmail(r)
  BY <1>3, <1>6 DEF LoadSeveral, RequestResetUnknown, RejectReset, SignIn, RejectChange,
       RejectAddress, RejectConfirmation, SendMail, Abort, SaveChange, SaveEmail
<1>7. CASE LoadNull(r) \/ KeepResetCode(r) \/ AddressIsFree(r) \/ AuditReset(r)
             \/ SaveNewCode(r) \/ SaveReset(r)
  BY <1>5, <1>7 DEF LoadNull, KeepResetCode, AddressIsFree, AuditReset, SaveNewCode,
       SaveReset
<1>8. CASE LoadRow(r)
  <2>1. PICK u \in Users :
          user' = [user EXCEPT ![r].id = u, ![r].row = rows[u]]
    BY <1>1, <1>8, InMemory DEF LoadRow, Wanted, Registered, Job
  <2> DEFINE y == [user[r] EXCEPT !.id = u]
             half == [user EXCEPT ![r] = y]
  <2>2. user' = [half EXCEPT ![r] = [half[r] EXCEPT !.row = rows[u]]]
    BY <2>1
  <2>3. user' = [user EXCEPT ![r] = [half[r] EXCEPT !.row = rows[u]]]
    BY <2>2
  <2> QED
    BY <1>4, <1>8, <2>3 DEF LoadRow
<1>9. CASE LoadCodes(r) \/ LoadHistory(r) \/ AddResetCode(r) \/ AddConfirmCode(r)
  BY <1>4, <1>9 DEF LoadCodes, LoadHistory, AddResetCode, AddConfirmCode, AddCode
<1>10. CASE Reset(r) \/ Change(r) \/ ConfirmEmail(r)
  BY <1>4, <1>10, ResetCopy, ChangeCopy, ConfirmCopy
<1> QED
  BY <1>2, <1>6, <1>7, <1>8, <1>9, <1>10 DEF Moves, Step

\* A request that goes on has the same inputs; one that arrives has typed in a code
\* that was mailed, or a wrong one.
LEMMA MoveJob ==
  ASSUME TypeInv, NEW r \in Requests, Moves(r), pc'[r] # "idle"
  PROVE  \/ pc[r] # "idle" /\ job'[r] = job[r]
         \/ /\ pc[r] = "idle" /\ Arrive(r) /\ user' = user /\ UNCHANGED store
            /\ pc'[r] \in {"check", "loadRow"} /\ job'[r].code \in TypedIn
<1>1. TypeOK /\ NoJob.code = 0 /\ 0 \in TypedIn /\ DOMAIN job = Requests
  BY DEF TypeInv, TypeOK, NoJob, TypedIn
<1>2. CASE Arrive(r)
  <2>1. PICK j, start : Submit(r, j, start) /\ start \in {"check", "loadRow"}
                          /\ j.code \in TypedIn
    <3>6. \A e : [NoJob EXCEPT !.cmd = "requestReset", !.email = e].code = 0
      BY DEF NoJob
    <3>1. CASE SubmitRequestReset(r)
      BY <1>1, <3>1, <3>6 DEF SubmitRequestReset
    <3>7. \A e, c, p :
            [NoJob EXCEPT !.cmd = "reset", !.email = e, !.code = c, !.new = p].code = c
      BY DEF NoJob
    <3>2. CASE SubmitReset(r)
      <4>1. PICK e \in Emails, c \in TypedIn, p \in Passwords :
              Submit(r, [NoJob EXCEPT !.cmd = "reset", !.email = e, !.code = c,
                                      !.new = p], "loadRow")
        BY <3>2 DEF SubmitReset
      <4> DEFINE j == [NoJob EXCEPT !.cmd = "reset", !.email = e, !.code = c, !.new = p]
      <4>2. j.code = c
        BY <3>7
      <4> HIDE DEF j
      <4>3. Submit(r, j, "loadRow")
        BY <4>1 DEF j
      <4> QED
        BY <4>2, <4>3
    <3>8. \A u, old, p : [NoJob EXCEPT !.user = u, !.password = old, !.new = p].code = 0
      BY DEF NoJob
    <3>3. CASE SubmitChange(r)
      <4>1. PICK u \in Users, old \in Passwords, p \in Passwords :
              Submit(r, [NoJob EXCEPT !.user = u, !.password = old, !.new = p], "loadRow")
        BY <3>3 DEF SubmitChange
      <4> DEFINE j == [NoJob EXCEPT !.user = u, !.password = old, !.new = p]
      <4>2. j.code = 0
        BY <3>8
      <4> HIDE DEF j
      <4>3. Submit(r, j, "loadRow")
        BY <4>1 DEF j
      <4> QED
        BY <1>1, <4>2, <4>3
    <3>9. \A u, e : [NoJob EXCEPT !.cmd = "requestEmail", !.user = u, !.email = e].code = 0
      BY DEF NoJob
    <3>4. CASE SubmitRequestEmail(r)
      BY <1>1, <3>4, <3>9 DEF SubmitRequestEmail
    <3>10. \A u, c, p : [NoJob EXCEPT !.cmd = "changeEmail", !.user = u, !.code = c,
                                      !.password = p].code = c
      BY DEF NoJob
    <3>5. CASE SubmitChangeEmail(r)
      <4>1. PICK u \in Users, c \in TypedIn, p \in Passwords :
              Submit(r, [NoJob EXCEPT !.cmd = "changeEmail", !.user = u, !.code = c,
                                      !.password = p], "loadRow")
        BY <3>5 DEF SubmitChangeEmail
      <4> DEFINE j == [NoJob EXCEPT !.cmd = "changeEmail", !.user = u, !.code = c,
                                    !.password = p]
      <4>2. j.code = c
        BY <3>10
      <4> HIDE DEF j
      <4>3. Submit(r, j, "loadRow")
        BY <4>1 DEF j
      <4> QED
        BY <4>2, <4>3
    <3> QED
      BY <1>2, <3>1, <3>2, <3>3, <3>4, <3>5 DEF Arrive
  <2> QED
    BY <1>1, <1>2, <2>1 DEF Submit, TypeOK
<1>3. CASE ~Finish(r) /\ ~Arrive(r)
  BY <1>3 DEF Moves, Step, LoadRow, LoadNull, LoadSeveral, LoadCodes, LoadHistory,
       RequestResetUnknown, AddResetCode, KeepResetCode, SaveNewCode, RejectReset, Reset,
       AuditReset, SaveReset, SignIn, RejectChange, Change, SaveChange, RejectAddress,
       AddressIsFree, AddConfirmCode, SendMail, RejectConfirmation, ConfirmEmail,
       SaveEmail, Abort, Goto, At, Saves
<1>4. CASE Finish(r)
  BY <1>1, <1>4, FinishLeaves
<1> QED
  BY <1>2, <1>3, <1>4

\* Only saves change what is on record, and only new codes and time the clock; what
\* was mailed, confirmed or audited stays so.
LEMMA MoveFrames ==
  ASSUME TypeInv, NEW r \in Requests, Moves(r)
  PROVE  /\ mailed \subseteq mailed' /\ (~SendMail(r) => mailed' = mailed)
         /\ audited \subseteq audited' /\ expired' = expired
         /\ \A u \in Users : confirmed[u] \subseteq confirmed'[u]
         /\ ~Saving(r) => UNCHANGED <<store, chosen, used, confirmed, voided, overwritten>>
         /\ ~Adding(r) => lastCode' = lastCode
         /\ ~Arrive(r) /\ ~Saving(r) => knew' = knew /\ stale' = stale
         /\ Saving(r) => UpdateUser(user[r]) /\ Overtake(r)
         /\ Arrive(r) => stale' = stale \ {r}
<1>1. CASE Arrive(r)
  <2>1. PICK j, start : Submit(r, j, start)
    BY <1>1 DEF Arrive, SubmitRequestReset, SubmitReset, SubmitChange, SubmitRequestEmail,
                SubmitChangeEmail
  <2>2. ~Saving(r)
    BY <1>1, ArriveIdle DEF Saving, SaveNewCode, SaveReset, SaveChange, SaveEmail, Saves
  <2> QED
    BY <1>1, <2>1, <2>2 DEF Submit
<1>2. CASE Saving(r)
  <2>1. UNCHANGED <<mailed, audited, clock>>
    BY <1>2 DEF Saving, SaveNewCode, SaveReset, SaveChange, SaveEmail
  <2>2. \/ confirmed' = confirmed
        \/ confirmed' = [confirmed EXCEPT ![user[r].id] = @ \cup {job[r].code}]
    BY <1>2 DEF Saving, SaveNewCode, SaveReset, SaveChange, SaveEmail
  <2>3. \A u \in Users : confirmed[u] \subseteq confirmed'[u]
    BY <2>2 DEF TypeInv, TypeOK
  <2>4. pc[r] = "save" /\ UpdateUser(user[r]) /\ Overtake(r)
    BY <1>2 DEF Saving, SaveNewCode, SaveReset, SaveChange, SaveEmail, Saves
  <2>5. ~Arrive(r)
    BY <2>4, ArriveIdle
  <2> QED
    BY <1>2, <2>1, <2>3, <2>4, <2>5
<1>3. CASE Adding(r)
  <2>1. pc[r] # "idle" /\ pc[r] # "save"
    BY <1>3 DEF Adding, AddResetCode, AddConfirmCode, At
  <2>2. ~Arrive(r) /\ ~Saving(r)
    BY <2>1, ArriveIdle DEF Saving, SaveNewCode, SaveReset, SaveChange, SaveEmail, Saves
  <2> QED
    BY <1>3, <2>2 DEF Adding, AddResetCode, AddConfirmCode
<1>4. CASE ~Arrive(r) /\ ~Saving(r) /\ ~Adding(r)
  <2>1. UNCHANGED <<store, clock, knew, chosen, used, confirmed, voided, copies>>
    BY <1>4 DEF Saving, Adding, Moves, Step, LoadRow, LoadNull, LoadSeveral, LoadCodes,
         LoadHistory, RequestResetUnknown, KeepResetCode, RejectReset, Reset, AuditReset,
         SignIn, RejectChange, Change, RejectAddress, AddressIsFree, SendMail,
         RejectConfirmation, ConfirmEmail, Abort
  <2>2. ~SendMail(r) => mailed' = mailed
    BY <1>4 DEF Saving, Adding, Moves, Step, LoadRow, LoadNull, LoadSeveral, LoadCodes,
         LoadHistory, RequestResetUnknown, KeepResetCode, RejectReset, Reset, AuditReset,
         SignIn, RejectChange, Change, RejectAddress, AddressIsFree,
         RejectConfirmation, ConfirmEmail, Abort
  <2>3. SendMail(r) => mailed \subseteq mailed'
    BY DEF SendMail
  <2>4. audited \subseteq audited'
    BY <1>4 DEF Saving, Adding, Moves, Step, LoadRow, LoadNull, LoadSeveral, LoadCodes,
         LoadHistory, RequestResetUnknown, KeepResetCode, RejectReset, Reset, AuditReset,
         SignIn, RejectChange, Change, RejectAddress, AddressIsFree, SendMail,
         RejectConfirmation, ConfirmEmail, Abort
  <2> QED
    BY <1>4, <2>1, <2>2, <2>3, <2>4
<1> QED
  BY <1>1, <1>2, <1>3, <1>4

SameRow(r) == user'[r].id = user[r].id /\ user'[r].row = user[r].row

\* A copy of a user is loaded, completed, extended by a new code, changed, or kept.
LEMMA MoveCopy ==
  ASSUME TypeInv, NEW r \in Requests, Moves(r), Loaded(r)'
  PROVE  \/ /\ LoadRow(r) /\ user'[r].id \in Users
            /\ user'[r].row = rows[user'[r].id] /\ user'[r].codes = {}
         \/ Loaded(r) /\ LoadCodes(r) /\ SameRow(r) /\ user'[r].codes = codes[user[r].id]
         \/ /\ Loaded(r) /\ Adding(r) /\ SameRow(r)
            /\ \E c : /\ c.n = lastCode + 1 /\ lastCode' = lastCode + 1
                      /\ user'[r].codes = user[r].codes \cup {c}
         \/ /\ Loaded(r) /\ SameRow(r) /\ user'[r].codes = user[r].codes
            /\ \/ LoadHistory(r) \/ KeepResetCode(r) \/ AuditReset(r)
               \/ SaveNewCode(r) \/ SaveReset(r)
         \/ /\ Loaded(r) /\ (Reset(r) \/ Change(r)) /\ user'[r].id = user[r].id
            /\ user'[r].row.email = user[r].row.email
            /\ user'[r].codes \subseteq user[r].codes
         \/ /\ Loaded(r) /\ ConfirmEmail(r) /\ user'[r].id = user[r].id
            /\ user'[r].row.password = user[r].row.password
            /\ user'[r].codes = {c \in user[r].codes : c.type # "confirm"}
            /\ \E c \in Matching(r) : user'[r].row.email = c.pending
<1>1. TypeOK /\ user[r] \in User /\ job[r] \in Job /\ DOMAIN user = Requests
  BY InMemory DEF TypeOK
<1>2. pc'[r] # "idle" /\ pc'[r] \notin {"check", "loadRow"}
  BY DEF Loaded
<1>3. ~Arrive(r)
  <2> SUFFICES ASSUME Arrive(r) PROVE FALSE
    OBVIOUS
  <2>1. PICK j, start : Submit(r, j, start) /\ start \in {"check", "loadRow"}
    BY DEF Arrive, SubmitRequestReset, SubmitReset, SubmitChange, SubmitRequestEmail,
           SubmitChangeEmail
  <2> QED
    BY <1>1, <1>2, <2>1 DEF Submit, TypeOK
<1>4. ~Finish(r)
  BY <1>1, <1>2, FinishLeaves
<1>5. CASE LoadRow(r)
  <2>1. PICK u \in Users :
          user' = [user EXCEPT ![r].id = u, ![r].row = rows[u]]
    BY <1>1, <1>5 DEF LoadRow, Wanted, Registered, Job
  <2>2. user[r].codes = {}
    BY <1>5 DEF LoadRow, TypeInv, UserInv, Loaded, NoUser
  <2> DEFINE y == [user[r] EXCEPT !.id = u]
             x == [y EXCEPT !.row = rows[u]]
             half == [user EXCEPT ![r] = y]
  <2>3. half[r] = y
    BY <1>1
  <2>4. user' = [half EXCEPT ![r] = [half[r] EXCEPT !.row = rows[u]]]
    BY <2>1
  <2>5. user'[r] = x
    BY <1>1, <2>3, <2>4
  <2>6. y.id = u /\ y.codes = {} /\ y \in User
    BY <1>1, <2>2 DEF User
  <2> HIDE DEF y
  <2>7. x.id = u /\ x.codes = {} /\ x.row = rows[u]
    BY <2>6 DEF User
  <2> QED
    BY <1>5, <2>5, <2>7
<1>6. CASE LoadCodes(r) \/ LoadHistory(r)
  <2>1. Loaded(r)
    BY <1>6 DEF LoadCodes, LoadHistory, Loaded
  <2>2. CASE LoadCodes(r)
    <3>1. user'[r] = [user[r] EXCEPT !.codes = codes[user[r].id]]
      BY <1>1, <2>2 DEF LoadCodes
    <3>2. /\ user'[r].id = user[r].id /\ user'[r].row = user[r].row
          /\ user'[r].codes = codes[user[r].id]
      BY <1>1, <3>1 DEF User
    <3> QED
      BY <2>1, <2>2, <3>2 DEF SameRow
  <2>3. CASE LoadHistory(r)
    <3>1. user'[r] = [user[r] EXCEPT !.history = history[user[r].id]]
      BY <1>1, <2>3 DEF LoadHistory
    <3>2. /\ user'[r].id = user[r].id /\ user'[r].row = user[r].row
          /\ user'[r].codes = user[r].codes
      BY <1>1, <3>1 DEF User
    <3> QED
      BY <2>1, <2>3, <3>2 DEF SameRow
  <2> QED
    BY <1>6, <2>2, <2>3
<1>7. CASE Adding(r)
  <2>1. Loaded(r)
    BY <1>7 DEF Adding, AddResetCode, AddConfirmCode, TypeInv, JobInv, UserInv, Loaded, At,
                ByEmail
  <2>2. PICK c : /\ c.n = lastCode + 1 /\ lastCode' = lastCode + 1
                 /\ user' = [user EXCEPT ![r].codes = @ \cup {c}]
    BY <1>7 DEF Adding, AddResetCode, AddConfirmCode, AddCode
  <2>3. user'[r] = [user[r] EXCEPT !.codes = user[r].codes \cup {c}]
    BY <1>1, <2>2
  <2>4. /\ user'[r].id = user[r].id /\ user'[r].row = user[r].row
        /\ user'[r].codes = user[r].codes \cup {c}
    BY <1>1, <2>3 DEF User
  <2> QED
    BY <1>7, <2>1, <2>2, <2>4 DEF SameRow
<1>8. CASE KeepResetCode(r) \/ AuditReset(r) \/ SaveNewCode(r) \/ SaveReset(r)
  BY <1>8 DEF KeepResetCode, AuditReset, SaveNewCode, SaveReset, SameRow, Loaded, At, Saves
<1>9. CASE Reset(r) \/ Change(r) \/ ConfirmEmail(r)
  <2>1. CASE Reset(r)
    BY <1>1, <2>1, ResetCopy
  <2>2. CASE Change(r)
    BY <1>1, <2>2, ChangeCopy
  <2>3. CASE ConfirmEmail(r)
    BY <1>1, <2>3, ConfirmCopy
  <2> QED
    BY <1>9, <2>1, <2>2, <2>3
<1>10. CASE LoadNull(r) \/ AddressIsFree(r)
  <2>1. CASE AddressIsFree(r)
    BY <1>1, <1>2, <2>1 DEF AddressIsFree, Goto, TypeOK
  <2>2. CASE LoadNull(r)
    <3>1. user'[r] = NoUser /\ pc'[r] = "decide"
      BY <1>1, <2>2 DEF LoadNull, TypeInv, UserInv, Loaded, Goto, TypeOK
    <3> QED
      BY <3>1 DEF Loaded, NoUser
  <2> QED
    BY <1>10, <2>1, <2>2
<1> QED
  BY <1>3, <1>4, <1>5, <1>6, <1>7, <1>8, <1>9, <1>10
  DEF Moves, Step, Adding, LoadSeveral, RequestResetUnknown, RejectReset, SignIn,
      RejectChange, RejectAddress, RejectConfirmation, SendMail, Abort, SaveChange, SaveEmail

----------------------------------------------------------------------------
(* Codes: one number, one code, one address.                                 *)

\* A code that a user gets in a step is new.
LEMMA MoveCodes ==
  ASSUME TypeInv, NEW r \in Requests, Moves(r), TypeInv'
  PROVE  IF Adding(r)
         THEN /\ Loaded(r) /\ lastCode' = lastCode + 1
              /\ \E c : /\ c.n = lastCode + 1
                        /\ \A u \in Users : CodesOf(u)' \subseteq CodesOf(u) \cup
                             IF u = user[r].id THEN {c} ELSE {}
         ELSE lastCode' = lastCode /\ \A u \in Users : CodesOf(u)' \subseteq CodesOf(u)
<1>1. OthersWait(r)
  BY MoveWaits
<1>2. \A u \in Users : codes'[u] \subseteq CodesOf(u)
  <2>1. CASE Saving(r)
    <3>1. Loaded(r) /\ UpdateUser(user[r])
      BY <2>1 DEF Saving, SaveNewCode, SaveReset, SaveChange, SaveEmail, Saves, Loaded
    <3> QED
      BY <3>1, UpdateUserType
  <2>2. CASE ~Saving(r)
    BY <2>2, MoveFrames, InCodesOf
  <2> QED
    BY <2>1, <2>2
<1>3. ~Loaded(r)' => user'[r].codes = {}
  BY DEF TypeInv, UserInv, NoUser
<1>4. CASE Adding(r)
  <2>1. Loaded(r)'
    BY <1>4 DEF Adding, AddResetCode, AddConfirmCode, Goto, TypeInv, TypeOK, Loaded
  <2>2. /\ Loaded(r) /\ SameRow(r)
        /\ \E c : /\ c.n = lastCode + 1 /\ lastCode' = lastCode + 1
                  /\ user'[r].codes = user[r].codes \cup {c}
    BY <1>4, <2>1, MoveCopy
       DEF Adding, AddResetCode, AddConfirmCode, At, LoadRow, LoadCodes, LoadHistory,
           KeepResetCode, AuditReset, SaveNewCode, SaveReset, Saves, Reset, Change,
           ConfirmEmail
  <2>3. PICK c : /\ c.n = lastCode + 1 /\ lastCode' = lastCode + 1
                 /\ user'[r].codes = user[r].codes \cup {c}
    BY <2>2
  <2>4. ASSUME NEW u \in Users, u = user[r].id
        PROVE  CodesOf(u)' \subseteq CodesOf(u) \cup {c}
    BY <1>1, <1>2, <2>3, <2>4, CodesGrow, InCodesOf
  <2>5. ASSUME NEW u \in Users, u # user[r].id
        PROVE  CodesOf(u)' \subseteq CodesOf(u)
    BY <1>1, <1>2, <2>2, <2>5, CodesKept DEF SameRow
  <2> QED
    BY <1>4, <2>2, <2>3, <2>4, <2>5
<1>5. CASE ~Adding(r)
  <2>1. ASSUME NEW u \in Users, user'[r].id = u PROVE user'[r].codes \subseteq CodesOf(u)
    <3>1. CASE ~Loaded(r)'
      BY <1>3, <3>1
    <3>2. CASE Loaded(r)'
      <4>1. \/ user'[r].codes = {}
            \/ user'[r].id = user[r].id /\ user'[r].codes = codes[user[r].id]
            \/ user'[r].id = user[r].id /\ user'[r].codes \subseteq user[r].codes
        BY <1>5, <3>2, MoveCopy DEF SameRow
      <4> QED
        BY <2>1, <4>1, InCodesOf
    <3> QED
      BY <3>1, <3>2
  <2> QED
    BY <1>1, <1>2, <1>5, <2>1, CodesKept, MoveFrames
<1> QED
  BY <1>4, <1>5

\* The codes keep their numbers: two with the same number are the same code.
LEMMA CodesInvKept ==
  ASSUME TypeInv, CodesInv, NEW r \in Requests, Moves(r), TypeInv'
  PROVE  CodesInv'
<1>1. /\ lastCode \in Nat /\ lastCode' \in Nat
      /\ \A u \in Users : \A c \in CodesOf(u) : CodeOK(c) /\ c.n <= lastCode
  BY DEF TypeInv, TypeOK, CodeOK
<1>2. ASSUME NEW u \in Users, NEW v \in Users, NEW c \in CodesOf(u)', NEW d \in CodesOf(v)',
             c.n = d.n, c.n # 0
      PROVE  u = v /\ c = d
  <2>1. CASE Adding(r)
    <3>1. PICK e : /\ e.n = lastCode + 1
                   /\ \A w \in Users : CodesOf(w)' \subseteq CodesOf(w) \cup
                        IF w = user[r].id THEN {e} ELSE {}
      BY <2>1, MoveCodes
    <3>2. c \in CodesOf(u) \/ (c = e /\ u = user[r].id)
      BY <1>2, <3>1
    <3>3. d \in CodesOf(v) \/ (d = e /\ v = user[r].id)
      BY <1>2, <3>1
    <3>4. \A w \in Users : \A f \in CodesOf(w) : f.n # e.n
      BY <1>1, <3>1
    <3> QED
      BY <1>2, <3>2, <3>3, <3>4 DEF CodesInv
  <2>2. CASE ~Adding(r)
    BY <1>2, <2>2, MoveCodes DEF CodesInv
  <2> QED
    BY <2>1, <2>2
<1>3. ASSUME NEW m \in mailed' \ mailed
      PROVE  \E u \in Users : \E e \in CodesOf(u) :
               m.n = e.n /\ (e.type = "confirm" => m.to = e.pending)
  <2>1. SendMail(r)
    BY <1>3, MoveFrames
  <2>2. Loaded(r)
    BY <2>1 DEF SendMail, Loaded
  <2>3. PICK e \in user[r].codes : m = [n |-> e.n, to |-> Recipient(user[r], e)]
    BY <1>3, <2>1 DEF SendMail, OfType
  <2>4. m.n = e.n /\ (e.type = "confirm" => m.to = e.pending)
    BY <2>3 DEF Recipient
  <2> QED
    BY <2>2, <2>4, LoadedType
<1>4. ASSUME NEW m \in mailed' PROVE m.n <= lastCode
  BY <1>1, <1>3, <1>4 DEF CodesInv
<1>5. \A m \in mailed' : m.n <= lastCode'
  <2>1. \A m \in mailed' : m.n \in Nat
    BY DEF TypeInv, TypeOK
  <2> QED
    BY <1>1, <1>4, <2>1, MoveCodes
<1>6. ASSUME NEW m \in mailed', NEW u \in Users, NEW c \in CodesOf(u)', c.n = m.n,
             c.type = "confirm"
      PROVE  m.to = c.pending
  <2>1. m.n \in Nat
    BY DEF TypeInv, TypeOK
  <2>2. c \in CodesOf(u)
    <3>1. CASE Adding(r)
      <4>1. PICK e : /\ e.n = lastCode + 1
                     /\ \A w \in Users : CodesOf(w)' \subseteq CodesOf(w) \cup
                          IF w = user[r].id THEN {e} ELSE {}
        BY <3>1, MoveCodes
      <4>2. c # e
        BY <1>1, <1>4, <1>6, <2>1, <4>1
      <4> QED
        BY <4>1, <4>2
    <3>2. CASE ~Adding(r)
      BY <3>2, MoveCodes
    <3> QED
      BY <3>1, <3>2
  <2>3. CASE m \in mailed
    BY <1>6, <2>2, <2>3 DEF CodesInv
  <2>4. CASE m \notin mailed
    <3>0. PICK v \in Users : \E e \in CodesOf(v) :
            m.n = e.n /\ (e.type = "confirm" => m.to = e.pending)
      BY <1>3, <2>4
    <3>1. PICK e \in CodesOf(v) :
            m.n = e.n /\ (e.type = "confirm" => m.to = e.pending)
      BY <3>0
    <3>2. c.n # 0
      BY <1>1, <1>6, <2>2 DEF CodeOK
    <3>3. c = e
      BY <1>6, <2>2, <3>1, <3>2 DEF CodesInv
    <3> QED
      BY <1>6, <3>1, <3>3
  <2> QED
    BY <2>3, <2>4
<1> QED
  BY <1>2, <1>5, <1>6 DEF CodesInv

----------------------------------------------------------------------------
(* Addresses.                                                                *)

\* What is proven stays proven.
LEMMA ProvenStays ==
  ASSUME TypeInv, NEW r \in Requests, Moves(r)
  PROVE  /\ \A n, e : MailedTo(n, e) => MailedTo(n, e)'
         /\ \A u \in Users : \A e : Proven(u, e) => Proven(u, e)'
<1>1. mailed \subseteq mailed' /\ \A u \in Users : confirmed[u] \subseteq confirmed'[u]
  BY MoveFrames
<1>2. \A n, e : MailedTo(n, e) => MailedTo(n, e)'
  BY <1>1 DEF MailedTo
<1>3. \A u \in Users : \A e : Proven(u, e) => Proven(u, e)'
  BY <1>1, <1>2 DEF Proven
<1> QED
  BY <1>2, <1>3

\* An address that is stored or pending under a code stays a proven one.
LEMMA AddressKept ==
  ASSUME TypeInv, CodesInv, AddressInv, NEW r \in Requests, Moves(r), TypeInv'
  PROVE  AddressInv'
<1>1. OthersWait(r) /\ TypeOK
  BY MoveWaits DEF TypeInv
<1>2. ASSUME NEW u \in Users PROVE Proven(u, rows[u].email)'
  <2>1. CASE Saving(r) /\ u = user[r].id
    <3>1. Loaded(r) /\ UpdateUser(user[r]) /\ pc[r] = "save"
      BY <2>1 DEF Saving, SaveNewCode, SaveReset, SaveChange, SaveEmail, Saves, Loaded
    <3>2. rows'[u] = user[r].row
      BY <2>1, <3>1, UpdateUserType
    <3>3. CASE Proven(u, user[r].row.email)
      BY <3>2, <3>3, ProvenStays
    <3>4. CASE Saves(r, "changeEmail") /\ MailedTo(job[r].code, user[r].row.email)
      <4>1. SaveEmail(r)
        BY <2>1, <3>4 DEF Saving, SaveNewCode, SaveReset, SaveChange, Saves
      <4>2. PICK n, e : n = job[r].code /\ e = user[r].row.email
        OBVIOUS
      <4>3. n \in confirmed'[u] /\ rows'[u].email = e
        BY <1>1, <2>1, <3>2, <4>1, <4>2 DEF SaveEmail, TypeOK
      <4>4. MailedTo(n, e)'
        BY <3>4, <4>2, ProvenStays
      <4> QED
        BY <4>3, <4>4 DEF Proven, MailedTo
    <3> QED
      BY <2>1, <3>1, <3>3, <3>4 DEF AddressInv
  <2>2. CASE Saving(r) /\ u # user[r].id
    <3>1. Loaded(r) /\ UpdateUser(user[r])
      BY <2>2 DEF Saving, SaveNewCode, SaveReset, SaveChange, SaveEmail, Saves, Loaded
    <3>2. rows'[u] = rows[u]
      BY <2>2, <3>1, UpdateUserType
    <3> QED
      BY <3>2, ProvenStays DEF AddressInv
  <2>3. CASE ~Saving(r)
    BY <2>3, MoveFrames, ProvenStays DEF AddressInv
  <2> QED
    BY <2>1, <2>2, <2>3
<1>3. ASSUME NEW t \in Requests, pc'[t] # "idle", job'[t].code # 0
      PROVE  \E m \in mailed' : m.n = job'[t].code
  <2>1. mailed \subseteq mailed'
    BY MoveFrames
  <2>2. CASE pc[t] # "idle" /\ job'[t] = job[t]
    BY <1>3, <2>1, <2>2 DEF AddressInv, InFlight
  <2>3. CASE job'[t].code \in TypedIn
    BY <1>3, <2>1, <2>3 DEF TypedIn
  <2> QED
    BY <1>1, <1>3, <2>2, <2>3, MoveJob DEF OthersWait
<1>4. ASSUME NEW t \in Requests, Loaded(t)'
      PROVE  \/ Proven(user[t].id, user[t].row.email)'
             \/ Saves(t, "changeEmail")' /\ MailedTo(job[t].code, user[t].row.email)'
  <2>1. CASE t # r
    <3>1. UNCHANGED <<pc[t], job[t], user[t]>> /\ Loaded(t)
      BY <1>1, <1>4, <2>1 DEF OthersWait, Loaded
    <3>2. user[t].id \in Users
      BY <3>1, LoadedType
    <3> QED
      BY <3>1, <3>2, ProvenStays DEF AddressInv, Saves
  <2>2. CASE t = r /\ LoadRow(r) /\ user'[r].row = rows[user'[r].id] /\ user'[r].id \in Users
    BY <2>2, ProvenStays DEF AddressInv
  <2>3. CASE /\ t = r /\ Loaded(r)
             /\ user'[r].id = user[r].id /\ user'[r].row.email = user[r].row.email
    <3>1. user[r].id \in Users
      BY <2>3, LoadedType
    <3>2. ~Saves(r, "changeEmail")
      <4> SUFFICES ASSUME Saves(r, "changeEmail") PROVE FALSE
        OBVIOUS
      <4>1. SaveEmail(r) \/ Abort(r) \/ Arrive(r)
        BY DEF Moves, Step, LoadRow, LoadNull, LoadSeveral, LoadCodes, LoadHistory,
               RequestResetUnknown, AddResetCode, KeepResetCode, SaveNewCode, RejectReset,
               Reset, AuditReset, SaveReset, SignIn, RejectChange, Change, SaveChange,
               RejectAddress, AddressIsFree, AddConfirmCode, SendMail, RejectConfirmation,
               ConfirmEmail, At, Saves
      <4> QED
        BY <1>4, <2>3, <4>1, MoveCopy
           DEF SaveEmail, Abort, Saves, LoadRow, LoadCodes, LoadHistory, Adding,
               AddResetCode, AddConfirmCode, KeepResetCode, AuditReset, SaveNewCode,
               SaveReset, Reset, Change, ConfirmEmail, At
    <3> QED
      BY <2>3, <3>1, <3>2, ProvenStays DEF AddressInv
  <2>4. CASE t = r /\ Loaded(r) /\ ConfirmEmail(r)
    <3>1. PICK c \in Matching(r) : user'[r].row.email = c.pending
      BY <1>4, <2>4, MoveCopy
         DEF LoadRow, LoadCodes, LoadHistory, Adding, AddResetCode, AddConfirmCode,
             KeepResetCode, AuditReset, SaveNewCode, SaveReset, Reset, Change, ConfirmEmail,
             At, Saves
    <3>2. /\ c \in CodesOf(user[r].id) /\ c.type = "confirm" /\ c.n = job[r].code
          /\ c.n # 0 /\ user[r].id \in Users
      BY <2>4, <3>1, LoadedType DEF Matching, OfType, CodeOK
    <3>3. PICK m \in mailed : m.n = c.n
      BY <2>4, <3>2 DEF AddressInv, InFlight, ConfirmEmail, At
    <3>4. MailedTo(job[r].code, c.pending)
      BY <3>2, <3>3 DEF CodesInv, MailedTo
    <3>5. pc'[r] = "save" /\ job' = job /\ job[r].cmd = "changeEmail"
      BY <1>1, <2>4 DEF ConfirmEmail, Goto, At, TypeOK
    <3>6. PICK n, e : n = job[r].code /\ e = c.pending
      OBVIOUS
    <3>7. MailedTo(n, e)'
      BY <3>4, <3>6, ProvenStays
    <3>8. MailedTo(job[r].code, user[r].row.email)'
      BY <3>1, <3>5, <3>6, <3>7 DEF MailedTo
    <3> QED
      BY <2>4, <3>5, <3>8 DEF Saves
  <2>5. CASE t = r
    <3>1. Loaded(r)'
      BY <1>4, <2>5
    <3> QED
      BY <2>2, <2>3, <2>4, <2>5, <3>1, MoveCopy DEF SameRow
  <2> QED
    BY <2>1, <2>5
<1> QED
  BY <1>2, <1>3, <1>4 DEF AddressInv, InFlight


----------------------------------------------------------------------------
(* Audit records and passwords that were given.                              *)

\* How a request gets to where it saves, and how it loads its copy.
LEMMA MoveTo ==
  ASSUME TypeInv, NEW r \in Requests, Moves(r), Loaded(r)'
  PROVE  /\ job' = job
         /\ pc'[r] = "save" =>
              \/ Adding(r) \/ AuditReset(r)
              \/ Loaded(r) /\ (Change(r) \/ ConfirmEmail(r))
         /\ pc'[r] \in {"loadCodes", "loadHistory", "decide"} =>
              \/ /\ LoadRow(r) /\ user'[r].id \in Users
                 /\ user'[r].row = rows[user'[r].id]
              \/ Loaded(r) /\ (LoadCodes(r) \/ LoadHistory(r)) /\ SameRow(r)
<1>1. DOMAIN pc = Requests
  BY DEF TypeInv, TypeOK
<1>2. CASE LoadRow(r) \/ LoadCodes(r) \/ LoadHistory(r)
  BY <1>1, <1>2, MoveCopy
     DEF LoadRow, LoadCodes, LoadHistory, Goto, Adding, AddResetCode, AddConfirmCode,
         KeepResetCode, AuditReset, SaveNewCode, SaveReset, Reset, Change, ConfirmEmail,
         At, Saves
<1>3. CASE Adding(r) \/ AuditReset(r) \/ Change(r) \/ ConfirmEmail(r)
  <2>1. job' = job /\ pc'[r] = "save"
    BY <1>1, <1>3
       DEF Adding, AddResetCode, AddConfirmCode, AuditReset, Change, ConfirmEmail, Goto
  <2>2. Change(r) \/ ConfirmEmail(r) => Loaded(r)
    BY MoveCopy
       DEF LoadRow, LoadCodes, LoadHistory, Adding, AddResetCode, AddConfirmCode,
           KeepResetCode, AuditReset, SaveNewCode, SaveReset, Reset, Change, ConfirmEmail,
           At, Saves
  <2> QED
    BY <1>3, <2>1, <2>2
<1>4. CASE KeepResetCode(r) \/ SaveNewCode(r) \/ SaveReset(r) \/ Reset(r)
  BY <1>1, <1>4 DEF KeepResetCode, SaveNewCode, SaveReset, Reset, Goto
<1> QED
  BY <1>2, <1>3, <1>4, MoveCopy

\* A reset that is about to be saved has its record.
LEMMA AuditKept ==
  ASSUME TypeInv, AuditInv, NEW r \in Requests, Moves(r), TypeInv'
  PROVE  AuditInv'
<1>1. audited \subseteq audited' /\ OthersWait(r)
  BY MoveFrames, MoveWaits
<1>2. ResetsAreAudited'
  <2>1. CASE SaveReset(r)
    BY <1>1, <2>1 DEF SaveReset, AuditInv, ResetsAreAudited
  <2>2. CASE ~SaveReset(r)
    <3>1. used' = used
      BY <2>2, MoveFrames DEF Saving, SaveNewCode, SaveChange, SaveEmail
    <3> QED
      BY <1>1, <3>1 DEF AuditInv, ResetsAreAudited
  <2> QED
    BY <2>1, <2>2
<1>3. ASSUME NEW t \in Requests, Saves(t, "reset")' PROVE job'[t].code \in audited'
  <2>1. CASE t = r
    <3>1. Loaded(r)' /\ pc'[r] = "save" /\ job'[r].cmd = "reset"
      BY <1>3, <2>1 DEF Saves, Loaded
    <3>2. AuditReset(r)
      BY <3>1, MoveTo DEF Adding, AddResetCode, AddConfirmCode, Change, ConfirmEmail, At
    <3> QED
      BY <2>1, <3>1, <3>2, MoveTo DEF AuditReset
  <2>2. CASE t # r
    BY <1>1, <1>3, <2>2 DEF OthersWait, Saves, AuditInv
  <2> QED
    BY <2>1, <2>2
<1> QED
  BY <1>2, <1>3 DEF AuditInv

\* Who is known to have given a password stays known until the slot is used again.
LEMMA KnewStays ==
  ASSUME TypeInv, NEW r \in Requests, Moves(r)
  PROVE  /\ \A t \in Requests : t \in knew /\ (t = r => ~Arrive(r)) => t \in knew'
         /\ Saving(r) => knew' = knew \cup {t \in InFlight :
              job[t].user = user[r].id /\ job[t].password = user[r].row.password}
<1>1. CASE Arrive(r)
  <2>1. PICK j, start : Submit(r, j, start)
    BY <1>1 DEF Arrive, SubmitRequestReset, SubmitReset, SubmitChange, SubmitRequestEmail,
                SubmitChangeEmail
  <2>2. ~Saving(r)
    BY <2>1 DEF Submit, Saving, SaveNewCode, SaveReset, SaveChange, SaveEmail, Saves
  <2> QED
    BY <1>1, <2>1, <2>2 DEF Submit
<1>2. CASE Saving(r)
  BY <1>2 DEF Saving, SaveNewCode, SaveReset, SaveChange, SaveEmail, UpdateUser
<1>3. CASE ~Arrive(r) /\ ~Saving(r)
  BY <1>3, MoveFrames
<1> QED
  BY <1>1, <1>2, <1>3

\* Whoever is under way and gave the password that is stored is known.
LEMMA StoredIsKnown ==
  ASSUME TypeInv, KnewInv, NEW r \in Requests, Moves(r), TypeInv',
         NEW t \in Requests, pc'[t] # "idle", NEW u \in Users, job'[t].user = u,
         job'[t].password = rows'[u].password
  PROVE  t \in knew'
<1>0. OthersWait(r) /\ TypeOK /\ None \notin Users
  BY MoveWaits, NoneAssumption DEF TypeInv
<1>1. CASE Arrive(r) /\ t = r
  <2>1. PICK j, start : Submit(r, j, start)
    BY <1>1 DEF Arrive, SubmitRequestReset, SubmitReset, SubmitChange, SubmitRequestEmail,
                SubmitChangeEmail
  <2>2. job'[r] = j /\ rows' = rows
    BY <1>0, <2>1 DEF Submit, TypeOK
  <2> QED
    BY <1>0, <1>1, <2>1, <2>2 DEF Submit
<1>2. CASE ~(Arrive(r) /\ t = r)
  <2>1. pc[t] # "idle" /\ job'[t] = job[t]
    BY <1>0, <1>2, MoveJob DEF OthersWait
  <2>2. CASE ~Saving(r)
    BY <1>2, <2>1, <2>2, MoveFrames, KnewStays DEF KnewInv, InFlight
  <2>3. CASE Saving(r)
    <3>1. Loaded(r) /\ UpdateUser(user[r])
      BY <2>3 DEF Saving, SaveNewCode, SaveReset, SaveChange, SaveEmail, Saves, Loaded
    <3>2. CASE u = user[r].id
      <4>1. rows'[u] = user[r].row
        BY <3>1, <3>2, UpdateUserType
      <4> QED
        BY <2>1, <2>3, <3>2, <4>1, KnewStays DEF InFlight
    <3>3. CASE u # user[r].id
      <4>1. rows'[u] = rows[u]
        BY <3>1, <3>3, UpdateUserType
      <4> QED
        BY <1>2, <2>1, <4>1, KnewStays DEF KnewInv, InFlight
    <3> QED
      BY <3>2, <3>3
  <2> QED
    BY <2>2, <2>3
<1> QED
  BY <1>1, <1>2


\* A change that is about to be saved was made by somebody who knew the password.
LEMMA KnewKept ==
  ASSUME TypeInv, KnewInv, NEW r \in Requests, Moves(r), TypeInv'
  PROVE  KnewInv'
<1>0. OthersWait(r) /\ TypeOK /\ None \notin Users
  BY MoveWaits, NoneAssumption DEF TypeInv
<1>1. \A t \in InFlight' : \A u \in Users :
        job'[t].user = u /\ job'[t].password = rows'[u].password => t \in knew'
  BY StoredIsKnown DEF InFlight
<1>2. ASSUME NEW t \in Requests, Loaded(t)', pc'[t] \in {"loadCodes", "loadHistory", "decide"},
             job'[t].user # None, job'[t].password = user'[t].row.password
      PROVE  t \in knew'
  <2>1. CASE t # r
    <3>1. UNCHANGED <<pc[t], job[t], user[t]>> /\ Loaded(t)
      BY <1>0, <1>2, <2>1 DEF OthersWait, Loaded
    <3> QED
      BY <1>2, <2>1, <3>1, KnewStays DEF KnewInv
  <2>2. CASE t = r /\ LoadRow(r) /\ user'[r].id \in Users /\ user'[r].row = rows[user'[r].id]
    <3>1. job'[r].user = user'[r].id /\ pc'[r] # "idle"
      BY <1>2, <2>2 DEF TypeInv, UserInv, Loaded
    <3>2. rows' = rows
      BY <2>2 DEF LoadRow
    <3> QED
      BY <1>2, <2>2, <3>1, <3>2, StoredIsKnown
  <2>3. CASE t = r /\ Loaded(r) /\ (LoadCodes(r) \/ LoadHistory(r)) /\ SameRow(r)
    <3>1. job' = job /\ pc[r] \in {"loadCodes", "loadHistory"}
      BY <2>3 DEF LoadCodes, LoadHistory, Goto
    <3>2. ~Arrive(r)
      BY <3>1, ArriveIdle
    <3>3. job[r].user # None /\ job[r].password = user[r].row.password
      BY <1>2, <2>3, <3>1 DEF SameRow
    <3>4. r \in knew
      BY <2>3, <3>1, <3>3 DEF KnewInv
    <3> QED
      BY <2>3, <3>2, <3>4, KnewStays
  <2> QED
    BY <1>2, <2>1, <2>2, <2>3, MoveTo
<1>3. ASSUME NEW t \in Requests, Saves(t, "change")' \/ Saves(t, "changeEmail")'
      PROVE  t \in knew'
  <2>1. CASE t # r
    BY <1>0, <1>3, <2>1, KnewStays DEF OthersWait, Saves, KnewInv, ChangerKnewPassword
  <2>2. CASE t = r
    <3>1. Loaded(r)' /\ pc'[r] = "save" /\ job'[r].cmd \in {"change", "changeEmail"}
      BY <1>3, <2>2 DEF Saves, Loaded
    <3>2. job' = job /\ Loaded(r) /\ (Change(r) \/ ConfirmEmail(r))
      BY <3>1, MoveTo DEF TypeInv, JobInv, Adding, AddResetCode, AddConfirmCode, AuditReset, At
    <3>3. pc[r] = "decide" /\ job[r].password = user[r].row.password
      BY <3>2 DEF Change, ConfirmEmail, At, ValidChange, ValidConfirmation
    <3>4. job[r].user # None
      BY <3>1, <3>2, <3>3 DEF TypeInv, JobInv, ByEmail
    <3>5. r \in knew /\ ~Arrive(r)
      BY <3>2, <3>3, <3>4, ArriveIdle DEF KnewInv
    <3> QED
      BY <2>2, <3>5, KnewStays
  <2> QED
    BY <2>1, <2>2
<1> QED
  BY <1>1, <1>2, <1>3 DEF KnewInv, ChangerKnewPassword

----------------------------------------------------------------------------
(* Whatever overlaps and fails.                                              *)

\* No part of the invariant depends on which codes have expired.
LEMMA TimeKeeps ==
  ASSUME CredentialsInv, TypeInv', Expire \/ UNCHANGED vars
  PROVE  CredentialsInv'
<1>1. UNCHANGED <<store, lastCode, control, mailed, ghosts>>
  BY DEF Expire
<1>2. CodesInv'
  BY <1>1 DEF CredentialsInv, CodesInv, CodesOf
<1>3. AddressInv'
  BY <1>1 DEF CredentialsInv, AddressInv, Proven, MailedTo, Loaded, Saves, InFlight
<1>4. KnewInv'
  BY <1>1 DEF CredentialsInv, KnewInv, ChangerKnewPassword, Loaded, Saves, InFlight
<1>5. AuditInv'
  BY <1>1 DEF CredentialsInv, AuditInv, ResetsAreAudited, Saves
<1> QED
  BY <1>2, <1>3, <1>4, <1>5 DEF CredentialsInv

\* Every step keeps the inductive invariant.
LEMMA InvNext == CredentialsInv /\ [Next]_vars => CredentialsInv'
<1> SUFFICES ASSUME CredentialsInv, [Next]_vars PROVE CredentialsInv'
  OBVIOUS
<1>1. TypeInv /\ TypeInv'
  BY NextType DEF CredentialsInv
<1>2. CASE Expire \/ UNCHANGED vars
  BY <1>1, <1>2, TimeKeeps
<1>3. ASSUME NEW r \in Requests, Moves(r) PROVE CredentialsInv'
  <2>1. CodesInv /\ AddressInv /\ KnewInv /\ AuditInv
    BY DEF CredentialsInv
  <2>2. CodesInv' /\ AddressInv' /\ KnewInv' /\ AuditInv'
    BY <1>1, <1>3, <2>1, CodesInvKept, AddressKept, KnewKept, AuditKept
  <2> QED
    BY <1>1, <2>2 DEF CredentialsInv
<1> QED
  BY <1>2, <1>3 DEF Next, Moves

\* It holds at the start.
LEMMA InvInit == Init => CredentialsInv
<1> SUFFICES ASSUME Init PROVE CredentialsInv
  OBVIOUS
<1>1. TypeInv
  BY InitType
<1>2. /\ \A r \in Requests : pc[r] = "idle" /\ user[r] = NoUser
      /\ NoUser.codes = {} /\ mailed = {} /\ used = {}
  BY DEF Init, NoUser
<1>3. CodesInv
  <2>1. \A u \in Users : \A c \in CodesOf(u) : c.n = 0
    BY <1>2 DEF CodesOf, Init
  <2> QED
    BY <1>2, <2>1 DEF CodesInv
<1>4. AddressInv /\ KnewInv /\ AuditInv
  BY <1>2 DEF Init, AddressInv, Proven, KnewInv, ChangerKnewPassword, AuditInv,
       ResetsAreAudited, Loaded, Saves, InFlight
<1> QED
  BY <1>1, <1>3, <1>4 DEF CredentialsInv

\* It holds at all times.
LEMMA InvHolds == Spec => []CredentialsInv
BY InvInit, InvNext, PTL DEF Spec

\* No password is reset without an audit record of it: the record is written before
\* PasswordResetCommandHandler saves, and a request that dies before it saves has
\* reset nothing.
THEOREM ResetsAudited == Spec => []ResetsAreAudited
<1>1. CredentialsInv => ResetsAreAudited
  BY DEF CredentialsInv, AuditInv
<1> QED
  BY <1>1, InvHolds, PTL

\* Whoever gets to save another password or address had given a password that was
\* stored while the request ran, also when the copy it was compared with was stale.
THEOREM ChangersKnew == Spec => []ChangerKnewPassword
<1>1. CredentialsInv => ChangerKnewPassword
  BY DEF CredentialsInv, KnewInv
<1> QED
  BY <1>1, InvHolds, PTL

\* A user has the address it registered with or one that received a code which it
\* typed in, whatever saves of stale copies do to the rows and the codes.
THEOREM AddressesProven == Spec => []AddressesAreProven
<1>1. CredentialsInv => AddressesAreProven
  BY DEF CredentialsInv, AddressInv, AddressesAreProven, Proven, MailedTo
<1> QED
  BY <1>1, InvHolds, PTL


----------------------------------------------------------------------------
(* Until an update is lost: who holds an outdated copy.                      *)

\* A save replaces the stored user by the copy of the request, which holds it no more.
LEMMA SavingDoes ==
  ASSUME TypeInv, NEW r \in Requests, Saving(r)
  PROVE  /\ Loaded(r) /\ Holds(r) /\ pc[r] = "save" /\ user[r].id \in Users
         /\ ~Holds(r)' /\ lastCode' = lastCode
         /\ stale' = (stale \cup Holding(user[r].id)) \ {r}
         /\ \A u \in Users : u \notin overwritten' =>
              u \notin overwritten /\ (u = user[r].id => r \notin stale)
         /\ \A u \in Users : IF u = user[r].id
              THEN /\ rows'[u] = user[r].row /\ codes'[u] = user[r].codes
                   /\ history'[u] = user[r].history
              ELSE /\ rows'[u] = rows[u] /\ codes'[u] = codes[u]
                   /\ history'[u] = history[u]
<1>1. /\ Loaded(r) /\ Holds(r) /\ pc[r] = "save" /\ UpdateUser(user[r]) /\ Overtake(r)
      /\ lastCode' = lastCode
  BY DEF Saving, SaveNewCode, SaveReset, SaveChange, SaveEmail, Saves, Loaded, Holds
<1>2. user[r].id \in Users /\ DOMAIN pc = Requests
  BY <1>1, LoadedType DEF TypeOK
<1>3. pc'[r] \in {"mail", "signIn", "idle"}
  BY <1>2 DEF Saving, SaveNewCode, SaveReset, SaveChange, SaveEmail, Goto, Finish
<1> QED
  BY <1>1, <1>2, <1>3, UpdateUserType DEF Overtake, Holds

\* A request whose copy is up to date was so before it moved, and has saved nothing.
LEMMA OwnCopy ==
  ASSUME TypeInv, NEW r \in Requests, Moves(r), r \notin stale', Holds(r)'
  PROVE  /\ r \notin stale /\ ~Saving(r)
         /\ UNCHANGED <<store, chosen, used, voided, overwritten>>
<1>1. ~Saving(r)
  BY SavingDoes
<1>2. ~Arrive(r)
  <2> SUFFICES ASSUME Arrive(r) PROVE FALSE
    OBVIOUS
  <2>1. PICK j, start : Submit(r, j, start) /\ start \in {"check", "loadRow"}
    BY DEF Arrive, SubmitRequestReset, SubmitReset, SubmitChange, SubmitRequestEmail,
           SubmitChangeEmail
  <2> QED
    BY <2>1 DEF Submit, Holds, TypeInv, TypeOK
<1> QED
  BY <1>1, <1>2, MoveFrames

\* The user of another request whose copy stays up to date is not saved meanwhile.
LEMMA OthersCopies ==
  ASSUME TypeInv, NEW r \in Requests, Moves(r), NEW t \in Requests \ {r}, t \notin stale'
  PROVE  /\ t \notin stale
         /\ pc'[t] = pc[t] /\ job'[t] = job[t] /\ user'[t] = user[t]
         /\ Loaded(t) /\ Holds(t) =>
              /\ user[t].id \in Users
              /\ Saving(r) => user[t].id # user[r].id
              /\ rows'[user[t].id] = rows[user[t].id]
              /\ codes'[user[t].id] = codes[user[t].id]
              /\ history'[user[t].id] = history[user[t].id]
<1>1. pc'[t] = pc[t] /\ job'[t] = job[t] /\ user'[t] = user[t]
  BY MoveWaits DEF OthersWait
<1>2. Loaded(t) => user[t].id \in Users
  BY LoadedType
<1>3. CASE Saving(r)
  <2>1. t \notin stale /\ t \notin Holding(user[r].id)
    BY <1>3, SavingDoes
  <2>2. Holds(t) => user[t].id # user[r].id
    BY <2>1 DEF Holding, Holds
  <2> QED
    BY <1>1, <1>2, <1>3, <2>1, <2>2, SavingDoes
<1>4. CASE ~Saving(r)
  <2>1. UNCHANGED store
    BY <1>4, MoveFrames
  <2>2. t \notin stale
    BY <1>4, MoveFrames
  <2> QED
    BY <1>1, <1>2, <1>4, <2>1, <2>2
<1> QED
  BY <1>3, <1>4

----------------------------------------------------------------------------
(* Until an update is lost: passwords.                                       *)

\* A copy that is up to date has the password that was set last.
LEMMA PasswordsKept ==
  ASSUME TypeInv, PasswordsInv, NEW r \in Requests, Moves(r), TypeInv'
  PROVE  PasswordsInv'
<1>1. \A t \in Requests : Unchanged(t) => Holds(t)
  BY DEF Unchanged, Holds
<1>2. ASSUME NEW t \in Requests \ {r}, t \notin stale', Loaded(t)', Unchanged(t)'
      PROVE  user'[t].row.password = rows'[user'[t].id].password
  <2>1. Loaded(t) /\ Unchanged(t)
    BY <1>2, OthersCopies DEF Loaded, Unchanged
  <2> QED
    BY <1>1, <1>2, <2>1, OthersCopies DEF PasswordsInv
<1>3. CASE Saving(r)
  <2>1. ASSUME NEW u \in Users
        PROVE  /\ chosen'[u] # <<>>
               /\ u \notin overwritten' =>
                    rows'[u].password = chosen'[u][Len(chosen'[u])].password
    <3>1. CASE SaveReset(r) \/ SaveChange(r)
      <4>1. Choose(r, "reset") \/ Choose(r, "change")
        BY <3>1 DEF SaveReset, SaveChange
      <4>2. IF u = user[r].id
            THEN /\ chosen'[u] # <<>>
                 /\ chosen'[u][Len(chosen'[u])].password = user[r].row.password
            ELSE chosen'[u] = chosen[u]
        BY <1>3, <4>1, ChooseType, SavingDoes
      <4> QED
        BY <1>3, <4>2, SavingDoes DEF PasswordsInv, LatestPasswordStands
    <3>2. CASE SaveNewCode(r) \/ SaveEmail(r)
      <4>1. chosen' = chosen /\ Unchanged(r)
        BY <3>2 DEF SaveNewCode, SaveEmail, Saves, Unchanged
      <4>2. r \notin stale => user[r].row.password = rows[user[r].id].password
        BY <1>3, <4>1, SavingDoes DEF PasswordsInv
      <4> QED
        BY <1>3, <4>1, <4>2, SavingDoes DEF PasswordsInv, LatestPasswordStands
    <3> QED
      BY <1>3, <3>1, <3>2 DEF Saving
  <2>2. ~Unchanged(r)'
    BY <1>3, SavingDoes DEF Unchanged, Holds
  <2> QED
    BY <1>2, <2>1, <2>2 DEF PasswordsInv, LatestPasswordStands
<1>4. CASE ~Saving(r)
  <2>1. UNCHANGED <<store, chosen, overwritten>>
    BY <1>4, MoveFrames
  <2>2. ASSUME r \notin stale', Loaded(r)', Unchanged(r)'
        PROVE  user'[r].row.password = rows[user'[r].id].password
    <3>0. r \notin stale
      BY <2>2, OwnCopy DEF Unchanged, Holds
    <3>1. CASE pc'[r] \in {"loadCodes", "loadHistory", "decide"}
      <4>1. \/ user'[r].row = rows[user'[r].id]
            \/ Loaded(r) /\ Unchanged(r) /\ SameRow(r)
        BY <2>2, <3>1, MoveTo DEF LoadCodes, LoadHistory, Unchanged
      <4> QED
        BY <3>0, <4>1 DEF PasswordsInv, SameRow
    <3>2. CASE pc'[r] = "save" /\ job'[r].cmd \notin {"reset", "change"}
      <4>1. Adding(r) \/ (Loaded(r) /\ ConfirmEmail(r))
        BY <2>2, <3>2, MoveTo DEF TypeInv, JobInv, AuditReset, Change, At
      <4>2. /\ Loaded(r) /\ user'[r].id = user[r].id
            /\ user'[r].row.password = user[r].row.password
        BY <2>2, <4>1, MoveCopy
           DEF SameRow, LoadRow, LoadCodes, LoadHistory, Adding, AddResetCode,
               AddConfirmCode, KeepResetCode, AuditReset, SaveNewCode, SaveReset, Reset,
               Change, ConfirmEmail, At, Saves
      <4>3. Unchanged(r)
        BY <4>1 DEF Adding, AddResetCode, AddConfirmCode, ConfirmEmail, At, Unchanged
      <4> QED
        BY <3>0, <4>2, <4>3 DEF PasswordsInv
    <3> QED
      BY <2>2, <3>1, <3>2 DEF Unchanged
  <2> QED
    BY <1>2, <2>1, <2>2 DEF PasswordsInv, LatestPasswordStands
<1> QED
  BY <1>3, <1>4

----------------------------------------------------------------------------
(* Until an update is lost: codes.                                           *)

\* The codes that are about to be taken off the record, of every request.
LEMMA TakenOffKept ==
  ASSUME TypeInv, CodesInv, NEW r \in Requests, \A t \in Requests : TakenOff(t), Moves(r),
         TypeInv', NEW t \in Requests
  PROVE  TakenOff(t)'
<1>0. /\ TypeOK /\ DOMAIN pc = Requests /\ DOMAIN user = Requests
      /\ lastCode \in Nat /\ lastCode' \in Nat /\ lastCode <= lastCode'
      /\ job[t].code \in Nat
  <2>1. TypeOK /\ TypeOK'
    BY DEF TypeInv
  <2>2. lastCode' = lastCode \/ lastCode' = lastCode + 1
    BY MoveCodes
  <2>3. DOMAIN pc = Requests /\ DOMAIN user = Requests /\ lastCode \in Nat
          /\ job[t].code \in Nat
    BY <2>1 DEF TypeOK, Job
  <2> QED
    BY <2>1, <2>2, <2>3
<1>1. \A u \in Users : \A c \in CodesOf(u)' : c \in CodesOf(u) \/ c.n = lastCode + 1
  BY MoveCodes
<1>2. CASE t # r
  <2>1. pc'[t] = pc[t] /\ job'[t] = job[t] /\ user'[t] = user[t]
    BY <1>2, MoveWaits DEF OthersWait
  <2>2. ASSUME pc[t] = "audit" \/ Saves(t, "reset"), NEW u \in Users, NEW c \in CodesOf(u)',
               c.n = job[t].code
        PROVE  u = user[t].id /\ c.type = "reset"
    <3>1. job[t].code <= lastCode
      BY <2>2 DEF TakenOff
    <3>2. c \in CodesOf(u)
      BY <1>0, <1>1, <2>2, <3>1
    <3> QED
      BY <2>2, <3>2 DEF TakenOff
  <2>3. TakenOff(t)
    OBVIOUS
  <2> QED
    BY <1>0, <2>1, <2>2, <2>3 DEF TakenOff, Saves
<1>3. ASSUME pc'[r] = "audit"
      PROVE  /\ job'[r].code <= lastCode'
             /\ \A u \in Users : \A c \in CodesOf(u)' :
                  c.n = job'[r].code => u = user'[r].id /\ c.type = "reset"
             /\ \A c \in user'[r].codes : c.type # "reset"
  <2>1. Loaded(r)'
    BY <1>3 DEF Loaded
  <2>2. Reset(r)
    BY <1>0, <1>3, <2>1, MoveCopy
       DEF LoadRow, LoadCodes, LoadHistory, Adding, AddResetCode, AddConfirmCode,
           KeepResetCode, AuditReset, SaveNewCode, SaveReset, Change, ConfirmEmail, Goto
  <2>3. /\ Loaded(r) /\ pc[r] = "decide" /\ job' = job /\ user'[r].id = user[r].id
        /\ user'[r].codes = {c \in user[r].codes : c.type \notin {"access", "reset"}}
    BY <1>0, <2>2, ResetCopy DEF At, Goto
  <2>4. PICK d \in user[r].codes : d.n = job[r].code /\ d.type = "reset"
    BY <2>2 DEF Reset, ValidResetCode, OfType
  <2>5. /\ user[r].id \in Users /\ d \in CodesOf(user[r].id) /\ d.n <= lastCode /\ d.n # 0
        /\ d.n \in Nat
    BY <2>3, <2>4, LoadedType DEF CodeOK
  <2>6. \A u \in Users : CodesOf(u)' \subseteq CodesOf(u)
    BY <2>2, MoveCodes DEF Reset, Adding, AddResetCode, AddConfirmCode, At
  <2>7. ASSUME NEW u \in Users, NEW c \in CodesOf(u)', c.n = job[r].code
        PROVE  u = user[r].id /\ c = d
    BY <2>4, <2>5, <2>6, <2>7 DEF CodesInv
  <2>8. job[r].code <= lastCode'
    BY <1>0, <2>4, <2>5
  <2> QED
    BY <2>3, <2>4, <2>7, <2>8
<1>4. ASSUME Saves(r, "reset")'
      PROVE  /\ job'[r].code <= lastCode'
             /\ \A u \in Users : \A c \in CodesOf(u)' :
                  c.n = job'[r].code => u = user'[r].id /\ c.type = "reset"
             /\ \A c \in user'[r].codes : c.type # "reset"
  <2>1. Loaded(r)' /\ pc'[r] = "save" /\ job'[r].cmd = "reset"
    BY <1>4 DEF Saves, Loaded
  <2>2. AuditReset(r)
    BY <2>1, MoveTo DEF Adding, AddResetCode, AddConfirmCode, Change, ConfirmEmail, At
  <2>3. pc[r] = "audit" /\ UNCHANGED <<job, user, codes, lastCode>>
    BY <2>2 DEF AuditReset, Goto
  <2>4. \A u \in Users : CodesOf(u)' = CodesOf(u)
    BY <2>3 DEF CodesOf
  <2>5. TakenOff(r)
    OBVIOUS
  <2> QED
    BY <2>3, <2>4, <2>5 DEF TakenOff
<1>5. ASSUME Saves(r, "changeEmail")' PROVE \A c \in user'[r].codes : c.type # "confirm"
  <2>1. Loaded(r)' /\ pc'[r] = "save" /\ job'[r].cmd = "changeEmail"
    BY <1>5 DEF Saves, Loaded
  <2>2. ConfirmEmail(r)
    BY <2>1, MoveTo DEF TypeInv, JobInv, Adding, AddResetCode, AddConfirmCode, AuditReset,
         Change, At
  <2> QED
    BY <1>0, <2>2, ConfirmCopy
<1> QED
  BY <1>2, <1>3, <1>4, <1>5 DEF TakenOff

\* Codes stay fresh when neither a reset nor a confirmation is saved.
LEMMA FreshStays ==
  ASSUME TypeInv, UsedInv, NEW u \in Users, NEW S, Fresh(u, S), used' = used,
         voided' = voided
  PROVE  /\ Fresh(u, S)'
         /\ \A c : c.n = lastCode + 1 => Fresh(u, S \cup {c})'
<1>1. /\ lastCode \in Nat /\ used \subseteq Nat /\ voided[u] \in Nat /\ voided[u] <= lastCode
      /\ \A n \in used : n <= lastCode
  BY DEF TypeInv, TypeOK, UsedInv
<1>2. ASSUME NEW c, c.n = lastCode + 1 PROVE c.n \notin used /\ c.n > voided[u]
  BY <1>1, <1>2
<1> QED
  BY <1>2 DEF Fresh

\* Used codes and voided changes stay off the record and out of the copies that are up
\* to date.
LEMMA UsedKept ==
  ASSUME TypeInv, CodesInv, UsedInv, NEW r \in Requests, Moves(r), TypeInv'
  PROVE  UsedInv'
<1>0. /\ TypeOK /\ lastCode \in Nat /\ lastCode' \in Nat /\ lastCode <= lastCode'
      /\ used \subseteq Nat /\ \A u \in Users : voided[u] \in Nat
  <2>1. TypeOK /\ TypeOK'
    BY DEF TypeInv
  <2>2. lastCode' = lastCode \/ lastCode' = lastCode + 1
    BY MoveCodes
  <2>3. lastCode \in Nat /\ lastCode' \in Nat /\ used \subseteq Nat
    BY <2>1 DEF TypeOK
  <2>4. \A u \in Users : voided[u] \in Nat
    BY <2>1 DEF TypeOK
  <2> QED
    BY <2>1, <2>2, <2>3, <2>4
<1>1. \A t \in Requests : TakenOff(t)'
  BY TakenOffKept DEF UsedInv
<1>2. CASE Saving(r)
  <2> PICK v \in Users : v = user[r].id
    BY <1>2, SavingDoes
  <2>1. /\ lastCode' = lastCode /\ pc[r] = "save" /\ ~Holds(r)' /\ Loaded(r) /\ Holds(r)
        /\ \A u \in Users : u \notin overwritten' =>
             u \notin overwritten /\ (u = v => r \notin stale)
        /\ \A u \in Users : codes'[u] = IF u = v THEN user[r].codes ELSE codes[u]
    BY <1>2, SavingDoes
  <2>2. CASE SaveReset(r)
    <3>1. Saves(r, "reset") /\ used' = used \cup {job[r].code} /\ voided' = voided
      BY <2>2 DEF SaveReset
    <3>2. /\ job[r].code <= lastCode
          /\ \A u \in Users : \A c \in CodesOf(u) :
               c.n = job[r].code => u = v /\ c.type = "reset"
          /\ \A c \in user[r].codes : c.type # "reset"
      BY <3>1 DEF UsedInv, TakenOff
    <3>3. \A n \in used' : n <= lastCode'
      BY <2>1, <3>1, <3>2 DEF UsedInv
    <3>4. ASSUME NEW u \in Users, NEW S, S \subseteq CodesOf(u), Fresh(u, S),
                 u # v \/ S = user[r].codes
          PROVE  Fresh(u, S)'
      <4>1. \A c \in S : c.n # job[r].code
        BY <3>2, <3>4
      <4> QED
        BY <3>1, <3>4, <4>1 DEF Fresh
    <3>5. ASSUME NEW u \in Users \ overwritten' PROVE Fresh(u, codes[u])'
      <4>1. CASE u = v
        <5>1. Fresh(u, user[r].codes) /\ user[r].codes \subseteq CodesOf(u)
          BY <2>1, <3>5, <4>1, InCodesOf DEF UsedInv
        <5> QED
          BY <2>1, <3>4, <4>1, <5>1 DEF Fresh
      <4>2. CASE u # v
        <5>1. Fresh(u, codes[u]) /\ codes[u] \subseteq CodesOf(u)
          BY <2>1, <3>5, InCodesOf DEF UsedInv
        <5> QED
          BY <2>1, <3>4, <4>2, <5>1 DEF Fresh
      <4> QED
        BY <4>1, <4>2
    <3>6. ASSUME NEW t \in Requests, t \notin stale', Loaded(t)', Holds(t)',
                 user'[t].id \notin overwritten'
          PROVE  Fresh(user[t].id, user[t].codes)'
      <4>1. t # r
        BY <2>1, <3>6
      <4>2. /\ t \notin stale /\ Loaded(t) /\ Holds(t) /\ user'[t] = user[t]
            /\ user[t].id \in Users /\ user[t].id # v
        BY <1>2, <3>6, <4>1, OthersCopies DEF Loaded, Holds
      <4>3. Fresh(user[t].id, user[t].codes) /\ user[t].codes \subseteq CodesOf(user[t].id)
        BY <2>1, <3>6, <4>2, InCodesOf DEF UsedInv
      <4> QED
        BY <3>4, <4>2, <4>3 DEF Fresh
    <3> QED
      BY <1>1, <2>1, <3>1, <3>3, <3>5, <3>6 DEF UsedInv
  <2>3. CASE SaveEmail(r)
    <3>1. /\ Saves(r, "changeEmail") /\ used' = used
          /\ voided' = [voided EXCEPT ![v] = lastCode]
      BY <2>3 DEF SaveEmail
    <3>2. \A c \in user[r].codes : c.type # "confirm"
      BY <3>1 DEF UsedInv, TakenOff
    <3>3. /\ \A u \in Users : voided'[u] = IF u = v THEN lastCode ELSE voided[u]
          /\ \A u \in Users : voided'[u] <= lastCode'
      BY <1>0, <2>1, <3>1 DEF UsedInv, TypeOK
    <3>4. ASSUME NEW u \in Users \ overwritten' PROVE Fresh(u, codes[u])'
      <4>1. CASE u = v
        <5>1. Fresh(u, user[r].codes)
          BY <2>1, <3>4, <4>1 DEF UsedInv
        <5> QED
          BY <2>1, <3>1, <3>2, <4>1, <5>1 DEF Fresh
      <4>2. CASE u # v
        BY <2>1, <3>1, <3>3, <3>4, <4>2 DEF UsedInv, Fresh
      <4> QED
        BY <4>1, <4>2
    <3>5. ASSUME NEW t \in Requests, t \notin stale', Loaded(t)', Holds(t)',
                 user'[t].id \notin overwritten'
          PROVE  Fresh(user[t].id, user[t].codes)'
      <4>1. t # r
        BY <2>1, <3>5
      <4>2. /\ t \notin stale /\ Loaded(t) /\ Holds(t) /\ user'[t] = user[t]
            /\ user[t].id \in Users /\ user[t].id # v
        BY <1>2, <3>5, <4>1, OthersCopies DEF Loaded, Holds
      <4>3. Fresh(user[t].id, user[t].codes)
        BY <2>1, <3>5, <4>2 DEF UsedInv
      <4> QED
        BY <3>1, <3>3, <4>2, <4>3 DEF Fresh
    <3> QED
      BY <1>1, <2>1, <3>1, <3>3, <3>4, <3>5 DEF UsedInv
  <2>4. CASE SaveNewCode(r) \/ SaveChange(r)
    <3>1. used' = used /\ voided' = voided
      BY <2>4 DEF SaveNewCode, SaveChange
    <3>2. ASSUME NEW u \in Users \ overwritten' PROVE Fresh(u, codes[u])'
      BY <2>1, <3>1, <3>2 DEF UsedInv, Fresh
    <3>3. ASSUME NEW t \in Requests, t \notin stale', Loaded(t)', Holds(t)',
                 user'[t].id \notin overwritten'
          PROVE  Fresh(user[t].id, user[t].codes)'
      <4>1. t # r
        BY <2>1, <3>3
      <4>2. /\ t \notin stale /\ Loaded(t) /\ Holds(t) /\ user'[t] = user[t]
            /\ user[t].id \in Users
        BY <1>2, <3>3, <4>1, OthersCopies DEF Loaded, Holds
      <4>3. Fresh(user[t].id, user[t].codes)
        BY <2>1, <3>3, <4>2 DEF UsedInv
      <4> QED
        BY <3>1, <4>2, <4>3 DEF Fresh
    <3> QED
      BY <1>1, <2>1, <3>1, <3>2, <3>3 DEF UsedInv
  <2> QED
    BY <1>2, <2>2, <2>3, <2>4 DEF Saving
<1>3. CASE ~Saving(r)
  <2>1. UNCHANGED <<store, used, voided, overwritten>>
    BY <1>3, MoveFrames
  <2>2. /\ \A n \in used' : n <= lastCode'
        /\ \A u \in Users : voided'[u] <= lastCode'
    <3>1. /\ \A n \in used : n <= lastCode
          /\ \A u \in Users : voided[u] <= lastCode
      BY DEF UsedInv
    <3> QED
      BY <1>0, <2>1, <3>1
  <2>3. \A u \in Users \ overwritten' : Fresh(u, codes[u])'
    BY <2>1 DEF UsedInv, Fresh
  <2>4. ASSUME NEW t \in Requests, t \notin stale', Loaded(t)', Holds(t)',
               user'[t].id \notin overwritten'
        PROVE  Fresh(user[t].id, user[t].codes)'
    <3>1. CASE t # r
      <4>1. /\ t \notin stale /\ Loaded(t) /\ Holds(t) /\ user'[t] = user[t]
        BY <2>4, <3>1, OthersCopies DEF Loaded, Holds
      <4>2. Fresh(user[t].id, user[t].codes)
        BY <2>1, <2>4, <4>1 DEF UsedInv
      <4> QED
        BY <2>1, <4>1, <4>2 DEF Fresh
    <3>2. CASE t = r
      <4>1. r \notin stale
        BY <2>4, <3>2, OwnCopy
      <4>2. \/ user'[r].id \in Users /\ user'[r].codes = {}
            \/ Loaded(r) /\ user'[r].id = user[r].id /\ user'[r].codes = codes[user[r].id]
            \/ /\ Loaded(r) /\ Holds(r) /\ user'[r].id = user[r].id
               /\ \E c : c.n = lastCode + 1 /\ user'[r].codes = user[r].codes \cup {c}
            \/ /\ Loaded(r) /\ Holds(r) /\ user'[r].id = user[r].id
               /\ user'[r].codes \subseteq user[r].codes
        <5>1. CASE Adding(r)
          <6>1. Holds(r)
            BY <5>1 DEF Adding, AddResetCode, AddConfirmCode, At, Holds
          <6> QED
            BY <2>4, <3>2, <5>1, <6>1, MoveCopy
               DEF SameRow, LoadRow, LoadCodes, LoadHistory, Adding, AddResetCode,
                   AddConfirmCode, KeepResetCode, AuditReset, SaveNewCode, SaveReset, Reset,
                   Change, ConfirmEmail, At, Saves
        <5>2. CASE LoadHistory(r) \/ KeepResetCode(r) \/ AuditReset(r) \/ Reset(r)
                     \/ Change(r) \/ ConfirmEmail(r)
          <6>1. Holds(r)
            BY <5>2 DEF LoadHistory, KeepResetCode, AuditReset, Reset, Change, ConfirmEmail,
                        At, Holds
          <6>2. ~LoadRow(r) /\ ~LoadCodes(r) /\ ~Adding(r)
            BY <5>2 DEF LoadRow, LoadCodes, LoadHistory, Adding, AddResetCode,
                 AddConfirmCode, KeepResetCode, AuditReset, Reset, Change, ConfirmEmail, At
          <6> QED
            BY <2>4, <3>2, <6>1, <6>2, MoveCopy DEF SameRow
        <5> QED
          BY <1>3, <2>4, <3>2, <5>1, <5>2, MoveCopy DEF SameRow, Saving
      <4>3. user'[r].id \in Users
        BY <2>4, <3>2 DEF TypeInv, UserInv
      <4>4. user'[r].id \notin overwritten
        BY <2>1, <2>4, <3>2
      <4>5. CASE user'[r].codes = {}
        BY <3>2, <4>5 DEF Fresh
      <4>6. CASE user'[r].id = user[r].id /\ user'[r].codes = codes[user[r].id]
        <5>1. Fresh(user[r].id, codes[user[r].id])
          BY <4>3, <4>4, <4>6 DEF UsedInv
        <5> QED
          BY <2>1, <3>2, <4>6, <5>1 DEF Fresh
      <4>7. ASSUME Loaded(r), Holds(r), user'[r].id = user[r].id
            PROVE  Fresh(user[r].id, user[r].codes)
        BY <4>1, <4>4, <4>7 DEF UsedInv
      <4>8. ASSUME Loaded(r), Holds(r), user'[r].id = user[r].id, NEW c, c.n = lastCode + 1,
                   user'[r].codes = user[r].codes \cup {c}
            PROVE  Fresh(user[r].id, user[r].codes)'
        <5>1. \A d \in user[r].codes \cup {c} :
                d.n \notin used /\ (d.type = "confirm" => d.n > voided[user[r].id])
          <6>1. Fresh(user[r].id, user[r].codes \cup {c})'
            BY <2>1, <4>3, <4>7, <4>8, FreshStays
          <6> QED
            BY <2>1, <4>8, <6>1 DEF Fresh
        <5> QED
          BY <2>1, <4>8, <5>1 DEF Fresh
      <4>9. ASSUME Loaded(r), Holds(r), user'[r].id = user[r].id,
                   user'[r].codes \subseteq user[r].codes
            PROVE  Fresh(user[r].id, user[r].codes)'
        BY <2>1, <4>7, <4>9 DEF Fresh
      <4> QED
        BY <3>2, <4>2, <4>5, <4>6, <4>8, <4>9
    <3> QED
      BY <3>1, <3>2
  <2> QED
    BY <1>1, <2>2, <2>3, <2>4 DEF UsedInv
<1> QED
  BY <1>2, <1>3

----------------------------------------------------------------------------
(* Until an update is lost: the history of passwords.                        *)

\* What the cardinalities that number the kept passwords are.
LEMMA KeptCounts ==
  ASSUME NEW u \in Users, NEW k \in Nat
  PROVE  /\ IsFiniteSet(Kept(u, 1..k)) /\ Cardinality(Kept(u, 1..k)) \in Nat
         /\ \A i \in 1..k : Cardinality(Kept(u, 1..i)) <= Cardinality(Kept(u, 1..k))
         /\ k \in Kept(u, 1..k) => Cardinality(Kept(u, 1..k)) >= 1
         /\ \A i \in 1..k : Cardinality(Kept(u, 1..k)) =
              Cardinality(Kept(u, 1..i)) + Cardinality(Kept(u, (i + 1)..k))
<1>1. \A i \in Nat : IsFiniteSet(Kept(u, 1..i)) /\ IsFiniteSet(Kept(u, (i + 1)..k))
  <2> TAKE i \in Nat
  <2>1. IsFiniteSet(1..i) /\ IsFiniteSet((i + 1)..k)
    BY FS_Interval
  <2>2. Kept(u, 1..i) \in SUBSET (1..i) /\ Kept(u, (i + 1)..k) \in SUBSET ((i + 1)..k)
    BY DEF Kept
  <2> QED
    BY <2>1, <2>2, FS_Subset
<1>2. \A i \in Nat : /\ Cardinality(Kept(u, 1..i)) \in Nat
                     /\ Cardinality(Kept(u, (i + 1)..k)) \in Nat
  BY <1>1, FS_CardinalityType
<1>3. ASSUME NEW i \in 1..k
      PROVE  Cardinality(Kept(u, 1..k)) =
               Cardinality(Kept(u, 1..i)) + Cardinality(Kept(u, (i + 1)..k))
  <2>1. i \in Nat
    BY <1>3
  <2>2. /\ Kept(u, 1..k) = Kept(u, 1..i) \cup Kept(u, (i + 1)..k)
        /\ Kept(u, 1..i) \cap Kept(u, (i + 1)..k) = {}
    <3>1. 1..k = (1..i) \cup ((i + 1)..k) /\ (1..i) \cap ((i + 1)..k) = {}
      BY <1>3
    <3> QED
      BY <3>1 DEF Kept
  <2>3. Cardinality(Kept(u, 1..i) \cap Kept(u, (i + 1)..k)) = 0
    BY <2>2, FS_EmptySet
  <2>4. Cardinality(Kept(u, 1..i) \cup Kept(u, (i + 1)..k)) =
          Cardinality(Kept(u, 1..i)) + Cardinality(Kept(u, (i + 1)..k))
            - Cardinality(Kept(u, 1..i) \cap Kept(u, (i + 1)..k))
    BY <1>1, <2>1, FS_Union
  <2>5. /\ Cardinality(Kept(u, 1..i)) \in Nat
        /\ Cardinality(Kept(u, (i + 1)..k)) \in Nat
    BY <1>2, <2>1
  <2>6. Cardinality(Kept(u, 1..k)) =
          Cardinality(Kept(u, 1..i)) + Cardinality(Kept(u, (i + 1)..k)) - 0
    BY <2>2, <2>3, <2>4
  <2> QED
    BY <2>5, <2>6
<1>4. ASSUME NEW i \in 1..k PROVE Cardinality(Kept(u, 1..i)) <= Cardinality(Kept(u, 1..k))
  <2>1. i \in Nat
    BY <1>4
  <2> QED
    BY <1>2, <1>3, <2>1
<1>5. k \in Kept(u, 1..k) => Cardinality(Kept(u, 1..k)) >= 1
  <2> SUFFICES ASSUME k \in Kept(u, 1..k) PROVE Cardinality(Kept(u, 1..k)) >= 1
    OBVIOUS
  <2>1. Cardinality(Kept(u, 1..k)) # 0
    BY <1>1, FS_EmptySet
  <2> QED
    BY <1>2, <2>1
<1> QED
  BY <1>1, <1>2, <1>3, <1>4, <1>5

\* A password that was not among the last ones may follow them.
LEMMA BarredAppends ==
  ASSUME NEW h \in Seq(Passwords), Barred(h), NEW p \in Passwords, p \notin Recent(h)
  PROVE  Barred(Append(h, p))
<1>1. /\ Len(h) \in Nat /\ DOMAIN h = 1..Len(h)
      /\ DOMAIN Append(h, p) = 1..(Len(h) + 1)
      /\ \A k \in 1..Len(h) : Append(h, p)[k] = h[k]
      /\ Append(h, p)[Len(h) + 1] = p
  BY AppendProperties, LenProperties
<1>2. ASSUME NEW i \in DOMAIN Append(h, p), NEW j \in DOMAIN Append(h, p), i < j,
             j <= i + Remembered
      PROVE  Append(h, p)[i] # Append(h, p)[j]
  <2>1. i \in 1..Len(h)
    BY <1>1, <1>2
  <2>2. CASE j \in 1..Len(h)
    BY <1>1, <1>2, <2>1, <2>2 DEF Barred
  <2>3. CASE j = Len(h) + 1
    <3>1. i + Remembered > Len(h)
      BY <1>1, <1>2, <2>1, <2>3, BoundsAssumption
    <3>2. h[i] \in Recent(h)
      BY <1>1, <2>1, <3>1 DEF Recent
    <3> QED
      BY <1>1, <2>1, <2>3, <3>2
  <2> QED
    BY <1>1, <1>2, <2>2, <2>3
<1> QED
  BY <1>2 DEF Barred

\* The copy of the request that moves.
LEMMA CopiedHistoryKept ==
  ASSUME TypeInv, NEW r \in Requests, CopiedHistory(r), Moves(r), TypeInv'
  PROVE  CopiedHistory(r)'
<1>0. TypeOK /\ DOMAIN pc = Requests /\ DOMAIN user = Requests /\ user[r] \in User
  BY DEF TypeInv, TypeOK
<1>1. ASSUME Loaded(r)', pc'[r] = "decide"
      PROVE  user'[r].history = history'[user'[r].id]
  <2>1. LoadHistory(r) /\ SameRow(r)
    BY <1>0, <1>1, MoveTo DEF LoadRow, LoadCodes, Goto
  <2>2. user'[r] = [user[r] EXCEPT !.history = history[user[r].id]] /\ history' = history
    BY <1>0, <2>1 DEF LoadHistory
  <2>3. user'[r].history = history[user[r].id]
    BY <1>0, <2>2 DEF User
  <2> QED
    BY <2>1, <2>2, <2>3 DEF SameRow
<1>2. ASSUME pc'[r] = "audit" PROVE user'[r].history = history'[user'[r].id]
  <2>1. Loaded(r)'
    BY <1>2 DEF Loaded
  <2>2. Reset(r)
    BY <1>0, <1>2, <2>1, MoveCopy
       DEF LoadRow, LoadCodes, LoadHistory, Adding, AddResetCode, AddConfirmCode,
           KeepResetCode, AuditReset, SaveNewCode, SaveReset, Change, ConfirmEmail, Goto
  <2>3. /\ Loaded(r) /\ pc[r] = "decide" /\ user'[r].id = user[r].id
        /\ user'[r].history = user[r].history
    BY <1>0, <2>2, ResetCopy DEF At
  <2>4. history' = history
    BY <2>2 DEF Reset
  <2> QED
    BY <2>3, <2>4 DEF CopiedHistory, Saves
<1>3. ASSUME pc'[r] = "save", ~Saves(r, "change")'
      PROVE  user'[r].history = history'[user'[r].id]
  <2>1. Loaded(r)' /\ job'[r].cmd # "change"
    BY <1>3 DEF Saves, Loaded
  <2>2. Adding(r) \/ AuditReset(r) \/ (Loaded(r) /\ ConfirmEmail(r))
    BY <1>3, <2>1, MoveTo DEF Change, At
  <2>3. CASE Adding(r)
    <3>1. Loaded(r) /\ SameRow(r) /\ pc[r] = "decide" /\ history' = history
      BY <2>1, <2>3, MoveCopy
         DEF LoadRow, LoadCodes, LoadHistory, Adding, AddResetCode, AddConfirmCode,
             KeepResetCode, AuditReset, SaveNewCode, SaveReset, Reset, Change, ConfirmEmail,
             At, Saves
    <3>2. PICK c : user' = [user EXCEPT ![r].codes = @ \cup {c}]
      BY <2>3 DEF Adding, AddResetCode, AddConfirmCode, AddCode
    <3>3. user'[r] = [user[r] EXCEPT !.codes = user[r].codes \cup {c}]
      BY <1>0, <3>2
    <3>4. user'[r].history = user[r].history
      BY <1>0, <3>3 DEF User
    <3> QED
      BY <3>1, <3>4 DEF SameRow, CopiedHistory, Saves
  <2>4. CASE AuditReset(r)
    BY <2>4 DEF AuditReset, CopiedHistory, Saves, Loaded
  <2>5. CASE Loaded(r) /\ ConfirmEmail(r)
    <3>1. /\ user'[r].id = user[r].id /\ user'[r].history = user[r].history
          /\ pc[r] = "decide" /\ history' = history
      BY <1>0, <2>5, ConfirmCopy DEF ConfirmEmail, At
    <3> QED
      BY <2>5, <3>1 DEF CopiedHistory, Saves
  <2> QED
    BY <2>2, <2>3, <2>4, <2>5
<1>4. ASSUME Saves(r, "change")'
      PROVE  /\ user'[r].history = Append(history'[user'[r].id], user'[r].row.password)
             /\ user'[r].row.password \notin Recent(history'[user'[r].id])
  <2>1. Loaded(r)' /\ pc'[r] = "save" /\ job'[r].cmd = "change"
    BY <1>4 DEF Saves, Loaded
  <2>2. Loaded(r) /\ Change(r)
    BY <2>1, MoveTo DEF TypeInv, JobInv, Adding, AddResetCode, AddConfirmCode, AuditReset,
         ConfirmEmail, At
  <2>3. /\ user'[r].id = user[r].id /\ user'[r].row.password = job[r].new
        /\ user'[r].history = Append(user[r].history, job[r].new)
    BY <1>0, <2>2, ChangeCopy
  <2>4. pc[r] = "decide" /\ ValidChange(r) /\ history' = history
    BY <2>2 DEF Change, At
  <2>5. user[r].history = history[user[r].id]
    BY <2>2, <2>4 DEF CopiedHistory, Saves
  <2> QED
    BY <2>3, <2>4, <2>5 DEF ValidChange
<1> QED
  BY <1>1, <1>2, <1>3, <1>4 DEF CopiedHistory


\* The kept positions after one more password was chosen.
LEMMA KeptAppends ==
  ASSUME NEW u \in Users, NEW n \in Nat,
         \A k \in 1..n : chosen'[u][k] = chosen[u][k]
  PROVE  /\ \A k \in 1..n : Kept(u, 1..k)' = Kept(u, 1..k)
         /\ Kept(u, 1..n)' = Kept(u, 1..n)
         /\ IF chosen'[u][n + 1].by = "reset"
            THEN Kept(u, 1..(n + 1))' = Kept(u, 1..n)
            ELSE Kept(u, 1..(n + 1))' = Kept(u, 1..n) \cup {n + 1}
<1>1. \A k \in 0..n : 1..k \subseteq 1..n
  OBVIOUS
<1>2. \A k \in 0..n : Kept(u, 1..k)' = Kept(u, 1..k)
  BY <1>1 DEF Kept
<1>3. Kept(u, 1..n)' = Kept(u, 1..n)
  BY <1>2
<1>4. 1..(n + 1) = (1..n) \cup {n + 1}
  OBVIOUS
<1>5. IF chosen'[u][n + 1].by = "reset"
      THEN Kept(u, 1..(n + 1))' = Kept(u, 1..n)'
      ELSE Kept(u, 1..(n + 1))' = Kept(u, 1..n)' \cup {n + 1}
  BY <1>4 DEF Kept
<1> QED
  BY <1>2, <1>3, <1>5

\* A reset leaves the history as it is.
LEMMA SavedByReset ==
  ASSUME NEW u \in Users, HistoryOf(u), Barred(history[u]), history'[u] = history[u],
         NEW n \in Nat, Len(chosen[u]) = n, Len(chosen'[u]) = n + 1,
         \A k \in 1..n : chosen'[u][k] = chosen[u][k],
         chosen'[u][n + 1].by = "reset"
  PROVE  HistoryOf(u)' /\ Barred(history[u])'
<1>1. /\ \A k \in 1..n : Kept(u, 1..k)' = Kept(u, 1..k)
      /\ Kept(u, 1..(n + 1))' = Kept(u, 1..n)
  BY KeptAppends
<1>2. \A k \in Kept(u, 1..n) : k \in 1..n
  BY DEF Kept
<1>3. Len(history'[u]) = Cardinality(Kept(u, 1..(n + 1))')
  BY <1>1 DEF HistoryOf
<1>4. ASSUME NEW k \in Kept(u, 1..(n + 1))'
      PROVE  history'[u][Cardinality(Kept(u, 1..k)')] = chosen'[u][k].password
  BY <1>1, <1>2, <1>4 DEF HistoryOf
<1>5. HistoryOf(u)'
  BY <1>3, <1>4 DEF HistoryOf
<1> QED
  BY <1>5 DEF Barred

\* A change adds to it what it chose.
LEMMA SavedByChange ==
  ASSUME NEW u \in Users, HistoryOf(u), Barred(history[u]),
         history[u] \in Seq(Passwords), NEW p \in Passwords, p \notin Recent(history[u]),
         history'[u] = Append(history[u], p),
         NEW n \in Nat, Len(chosen[u]) = n, Len(chosen'[u]) = n + 1,
         \A k \in 1..n : chosen'[u][k] = chosen[u][k],
         chosen'[u][n + 1].by # "reset", chosen'[u][n + 1].password = p
  PROVE  HistoryOf(u)' /\ Barred(history[u])'
<1>1. /\ \A k \in 1..n : Kept(u, 1..k)' = Kept(u, 1..k)
      /\ Kept(u, 1..(n + 1))' = Kept(u, 1..n) \cup {n + 1}
  BY KeptAppends
<1>2. \A k \in Kept(u, 1..n) : k \in 1..n
  BY DEF Kept
<1>3. IsFiniteSet(Kept(u, 1..n)) /\ n + 1 \notin Kept(u, 1..n)
  <2>1. n + 1 \notin 1..n
    OBVIOUS
  <2>2. IsFiniteSet(Kept(u, 1..n))
    BY KeptCounts
  <2> QED
    BY <1>2, <2>1, <2>2
<1>4. Cardinality(Kept(u, 1..(n + 1))') = Cardinality(Kept(u, 1..n)) + 1
  BY <1>1, <1>3, FS_AddElement
<1>5. /\ Len(history'[u]) = Len(history[u]) + 1
      /\ \A i \in 1..Len(history[u]) : history'[u][i] = history[u][i]
      /\ history'[u][Len(history[u]) + 1] = p
  BY AppendProperties
<1>6. Len(history[u]) = Cardinality(Kept(u, 1..n))
  BY DEF HistoryOf
<1>7. ASSUME NEW k \in Kept(u, 1..(n + 1))'
      PROVE  history'[u][Cardinality(Kept(u, 1..k)')] = chosen'[u][k].password
  <2>1. CASE k = n + 1
    BY <1>4, <1>5, <1>6, <2>1
  <2>2. CASE k \in Kept(u, 1..n)
    <3>1. k \in 1..n /\ k \in Nat /\ k \in Kept(u, 1..k)
      BY <1>2, <2>2 DEF Kept
    <3>2. Cardinality(Kept(u, 1..k)) \in 1..Len(history[u])
      <4>1. /\ Cardinality(Kept(u, 1..k)) \in Nat /\ Cardinality(Kept(u, 1..k)) >= 1
            /\ Cardinality(Kept(u, 1..n)) \in Nat
            /\ Cardinality(Kept(u, 1..k)) <= Cardinality(Kept(u, 1..n))
        BY <3>1, KeptCounts
      <4> QED
        BY <1>6, <4>1
    <3>3. history[u][Cardinality(Kept(u, 1..k))] = chosen[u][k].password
      BY <2>2 DEF HistoryOf
    <3>4. Cardinality(Kept(u, 1..k)') = Cardinality(Kept(u, 1..k))
      BY <1>1, <3>1
    <3> QED
      BY <1>5, <3>1, <3>2, <3>3, <3>4
  <2> QED
    BY <1>1, <1>7, <2>1, <2>2
<1>8. HistoryOf(u)'
  BY <1>4, <1>5, <1>6, <1>7 DEF HistoryOf
<1>9. Barred(Append(history[u], p))
  BY BarredAppends
<1> QED
  BY <1>8, <1>9 DEF Barred

\* The history holds the passwords that were chosen last, in the table and in the
\* copies that are up to date.
LEMMA HistoryKept ==
  ASSUME TypeInv, HistoryInv, NEW r \in Requests, Moves(r), TypeInv'
  PROVE  HistoryInv'
<1>0. TypeOK /\ TypeOK'
  BY DEF TypeInv
<1>1. ASSUME NEW t \in Requests, t \notin stale' PROVE CopiedHistory(t)'
  <2>1. CASE ~(Loaded(t)' /\ Holds(t)')
    <3>1. ~(Loaded(t)' /\ pc'[t] \in {"decide", "audit", "save"}) /\ ~Saves(t, "change")'
      BY <2>1 DEF Loaded, Holds, Saves
    <3> QED
      BY <3>1 DEF CopiedHistory
  <2>2. CASE t = r /\ Holds(t)'
    BY <1>1, <2>2, OwnCopy, CopiedHistoryKept DEF HistoryInv
  <2>3. CASE t # r /\ Loaded(t)' /\ Holds(t)'
    <3>1. /\ t \notin stale /\ pc'[t] = pc[t] /\ job'[t] = job[t] /\ user'[t] = user[t]
          /\ history'[user[t].id] = history[user[t].id]
      BY <1>1, <2>3, OthersCopies DEF Loaded, Holds
    <3>2. CopiedHistory(t)
      BY <3>1 DEF HistoryInv
    <3> QED
      BY <3>1, <3>2 DEF CopiedHistory, Loaded, Saves, Recent
  <2> QED
    BY <2>1, <2>2, <2>3
<1>2. ASSUME NEW u \in Users, u \notin overwritten, history'[u] = history[u],
             chosen'[u] = chosen[u]
      PROVE  HistoryOf(u)' /\ Barred(history[u])'
  <2>1. HistoryOf(u) /\ Barred(history[u])
    BY <1>2 DEF HistoryInv
  <2>2. \A S : Kept(u, S)' = Kept(u, S)
    BY <1>2 DEF Kept
  <2> QED
    BY <1>2, <2>1, <2>2 DEF HistoryOf, Barred
<1>3. CASE Saving(r)
  <2>1. /\ Loaded(r) /\ pc[r] = "save" /\ user[r].id \in Users
        /\ \A u \in Users : u \notin overwritten' =>
             u \notin overwritten /\ (u = user[r].id => r \notin stale)
        /\ \A u \in Users :
             history'[u] = IF u = user[r].id THEN user[r].history ELSE history[u]
    BY <1>3, SavingDoes
  <2>2. ASSUME SaveNewCode(r) \/ SaveEmail(r), NEW u \in Users, u \notin overwritten'
        PROVE  HistoryOf(u)' /\ Barred(history[u])'
    <3>1. chosen' = chosen /\ ~Saves(r, "change")
      BY <2>2 DEF SaveNewCode, SaveEmail, Saves
    <3>2. u = user[r].id => user[r].history = history[u]
      BY <2>1, <2>2, <3>1 DEF HistoryInv, CopiedHistory
    <3> QED
      BY <1>2, <2>1, <2>2, <3>1, <3>2
  <2>3. ASSUME SaveReset(r) \/ SaveChange(r), NEW u \in Users, u \notin overwritten'
        PROVE  HistoryOf(u)' /\ Barred(history[u])'
    <3>1. PICK how \in {"change", "reset"} :
            Choose(r, how) /\ (how = "change" <=> Saves(r, "change"))
      BY <2>3 DEF SaveReset, SaveChange, Saves
    <3>2. CASE u # user[r].id
      BY <1>2, <2>1, <2>3, <3>1, <3>2, ChooseAppends
    <3>3. CASE u = user[r].id
      <4> PICK n, p : n = Len(chosen[u]) /\ p = user[r].row.password
        OBVIOUS
      <4>1. /\ n \in Nat /\ Len(chosen[u]) = n /\ Len(chosen'[u]) = n + 1
            /\ \A k \in 1..n : chosen'[u][k] = chosen[u][k]
            /\ chosen'[u][n + 1].password = p /\ chosen'[u][n + 1].by = how
        BY <2>1, <3>1, <3>3, ChooseAppends
      <4>2. history[u] \in Seq(Passwords) /\ p \in Passwords
        BY <1>0, <2>1, LoadedType DEF TypeOK, Row
      <4>3. HistoryOf(u) /\ Barred(history[u]) /\ CopiedHistory(r)
        BY <2>1, <2>3, <3>3 DEF HistoryInv
      <4>4. CASE how = "reset"
        <5>1. history'[u] = history[u]
          BY <2>1, <3>1, <3>3, <4>3, <4>4 DEF CopiedHistory
        <5> QED
          BY <4>1, <4>2, <4>3, <4>4, <5>1, SavedByReset
      <4>5. CASE how = "change"
        <5>1. history'[u] = Append(history[u], p) /\ p \notin Recent(history[u])
          BY <2>1, <3>1, <3>3, <4>3, <4>5 DEF CopiedHistory
        <5> QED
          BY <4>1, <4>2, <4>3, <4>5, <5>1, SavedByChange
      <4> QED
        BY <4>4, <4>5
    <3> QED
      BY <3>2, <3>3
  <2> QED
    BY <1>1, <1>3, <2>2, <2>3 DEF HistoryInv, Saving
<1>4. CASE ~Saving(r)
  BY <1>1, <1>2, <1>4, MoveFrames DEF HistoryInv
<1> QED
  BY <1>3, <1>4


----------------------------------------------------------------------------
(* Until an update is lost.                                                  *)

\* Time that passes outdates no copy.
LEMMA OverlapTimeKeeps ==
  ASSUME OverlapInv, Expire \/ UNCHANGED vars
  PROVE  OverlapInv'
<1>1. UNCHANGED <<store, lastCode, control, mailed, ghosts>>
  BY DEF Expire
<1>2. /\ \A r \in Requests : (Loaded(r)' <=> Loaded(r)) /\ (Unchanged(r)' <=> Unchanged(r))
      /\ \A r \in Requests : Holds(r)' <=> Holds(r)
      /\ \A r \in Requests : \A cmd : Saves(r, cmd)' <=> Saves(r, cmd)
      /\ \A u \in Users : CodesOf(u)' = CodesOf(u)
  BY <1>1 DEF Loaded, Unchanged, Holds, Saves, CodesOf
<1>3. PasswordsInv'
  BY <1>1, <1>2 DEF OverlapInv, PasswordsInv, LatestPasswordStands
<1>4. \A r \in Requests : /\ TakenOff(r) => TakenOff(r)'
                          /\ CopiedHistory(r) => CopiedHistory(r)'
  BY <1>1, <1>2 DEF TakenOff, CopiedHistory
<1>5. UsedInv'
  BY <1>1, <1>2, <1>4 DEF OverlapInv, UsedInv, Fresh
<1>6. HistoryInv'
  BY <1>1, <1>4 DEF OverlapInv, HistoryInv, HistoryOf, Kept, Barred
<1> QED
  BY <1>3, <1>5, <1>6 DEF OverlapInv

\* Every step keeps it.
LEMMA OverlapNext == CredentialsInv /\ OverlapInv /\ [Next]_vars => OverlapInv'
<1> SUFFICES ASSUME CredentialsInv, OverlapInv, [Next]_vars PROVE OverlapInv'
  OBVIOUS
<1>1. CASE Expire \/ UNCHANGED vars
  BY <1>1, OverlapTimeKeeps
<1>2. ASSUME NEW r \in Requests, Moves(r) PROVE OverlapInv'
  <2>1. TypeInv /\ CodesInv /\ PasswordsInv /\ UsedInv /\ HistoryInv
    BY DEF CredentialsInv, OverlapInv
  <2>2. TypeInv'
    BY <2>1, NextType
  <2>3. PasswordsInv' /\ UsedInv' /\ HistoryInv'
    BY <1>2, <2>1, <2>2, PasswordsKept, UsedKept, HistoryKept
  <2> QED
    BY <2>3 DEF OverlapInv
<1> QED
  BY <1>1, <1>2 DEF Next, Moves

\* It holds at the start.
LEMMA OverlapInit == Init => OverlapInv
<1> SUFFICES ASSUME Init PROVE OverlapInv
  OBVIOUS
<1>1. /\ \A r \in Requests : pc[r] = "idle" /\ user[r] = NoUser
      /\ NoUser.codes = {} /\ used = {} /\ lastCode = 0
      /\ \A u \in Users : voided[u] = 0
  BY DEF Init, NoUser
<1>2. \A u \in Users : rows[u].password \in Passwords
  BY DEF Init, Row
<1>3. ASSUME NEW u \in Users
      PROVE  /\ chosen[u] # <<>> /\ Len(chosen[u]) = 1 /\ Len(history[u]) = 1
             /\ chosen[u][1].password = rows[u].password /\ chosen[u][1].by = "register"
             /\ history[u][1] = rows[u].password
  BY <1>2, <1>3 DEF Init
<1>4. \A r \in Requests : ~Loaded(r) /\ \A cmd : ~Saves(r, cmd)
  BY <1>1 DEF Loaded, Saves
<1>5. PasswordsInv
  BY <1>3, <1>4 DEF PasswordsInv, LatestPasswordStands
<1>6. UsedInv
  <2>1. \A u \in Users : \A c \in codes[u] : c.type # "confirm"
    BY DEF Init
  <2>2. \A u \in Users : Fresh(u, codes[u])
    BY <1>1, <2>1 DEF Fresh
  <2> QED
    BY <1>1, <1>4, <2>2 DEF UsedInv, TakenOff
<1>7. ASSUME NEW u \in Users PROVE HistoryOf(u) /\ Barred(history[u])
  <2>1. Kept(u, 1..1) = {1}
    BY <1>3 DEF Kept
  <2>2. Cardinality({1}) = 1
    BY FS_Singleton
  <2>3. HistoryOf(u)
    <3>1. Kept(u, 1..Len(chosen[u])) = {1} /\ Len(history[u]) = Cardinality({1})
      BY <1>3, <2>1, <2>2
    <3>2. history[u][Cardinality(Kept(u, 1..1))] = chosen[u][1].password
      BY <1>3, <2>1, <2>2
    <3> QED
      BY <3>1, <3>2 DEF HistoryOf
  <2>4. DOMAIN history[u] = {1}
    BY DEF Init
  <2> QED
    BY <2>3, <2>4 DEF Barred
<1>8. HistoryInv
  BY <1>1, <1>4, <1>7 DEF HistoryInv, CopiedHistory
<1> QED
  BY <1>5, <1>6, <1>8 DEF OverlapInv

\* It holds at all times.
LEMMA OverlapHolds == Spec => [](CredentialsInv /\ OverlapInv)
<1>1. CredentialsInv /\ OverlapInv /\ [Next]_vars => OverlapInv'
  BY OverlapNext
<1> QED
  BY <1>1, InvInit, InvNext, OverlapInit, PTL DEF Spec

\* However requests overlap, the stored password of a user is the last one that was set
\* until a request saves a copy that it loaded before another one saved the user.
THEOREM LatestStands == Spec => []LatestPasswordStands
<1>1. OverlapInv => LatestPasswordStands
  BY DEF OverlapInv, PasswordsInv
<1> QED
  BY <1>1, OverlapHolds, PTL

\* Under the same condition a reset code is off the record once a reset was saved with
\* it, and no handler puts it back.
THEOREM ResetCodesOnce == Spec => []ResetCodesWorkOnce
<1>1. OverlapInv => ResetCodesWorkOnce
  BY DEF OverlapInv, UsedInv, ResetCodesWorkOnce, Fresh
<1> QED
  BY <1>1, OverlapHolds, PTL

\* Under the same condition a confirmed change of address leaves no code on record of
\* any change that was asked for before, to whichever address.
THEOREM OlderChangesVoid == Spec => []OlderChangesAreVoid
<1>1. OverlapInv => OlderChangesAreVoid
  BY DEF OverlapInv, UsedInv, OlderChangesAreVoid, OfType, Fresh
<1> QED
  BY <1>1, OverlapHolds, PTL

\* Under the same condition a change never brings back one of the last Remembered
\* passwords that were set at registration or by a change.
THEOREM RecentBarred == Spec => []RecentChangesBarred
<1>1. ASSUME TypeOK, HistoryInv PROVE RecentChangesBarred
  <2>1. ASSUME NEW u \in Users \ overwritten, NEW i \in Kept(u, DOMAIN chosen[u]),
               NEW j \in Kept(u, DOMAIN chosen[u]), i < j,
               Cardinality(Kept(u, (i + 1)..j)) <= Remembered
        PROVE  chosen[u][i].password # chosen[u][j].password
    <3>1. HistoryOf(u) /\ Barred(history[u])
      BY <1>1 DEF HistoryInv
    <3>2. /\ Len(chosen[u]) \in Nat /\ DOMAIN chosen[u] = 1..Len(chosen[u])
          /\ DOMAIN history[u] = 1..Len(history[u])
      BY <1>1 DEF TypeOK
    <3>3. /\ i \in 1..Len(chosen[u]) /\ j \in 1..Len(chosen[u]) /\ i \in Nat /\ j \in Nat
          /\ i \in Kept(u, 1..i) /\ j \in Kept(u, 1..j) /\ j \in Kept(u, (i + 1)..j)
          /\ i \in Kept(u, 1..Len(chosen[u])) /\ j \in Kept(u, 1..Len(chosen[u]))
          /\ i \in 1..j
      BY <2>1, <3>2 DEF Kept
    <3> DEFINE count(k) == Cardinality(Kept(u, 1..k))
    <3>4. /\ count(i) \in Nat /\ count(i) >= 1 /\ count(j) \in Nat
          /\ count(Len(chosen[u])) \in Nat
          /\ count(j) <= count(Len(chosen[u])) /\ count(i) <= count(Len(chosen[u]))
          /\ count(j) = count(i) + Cardinality(Kept(u, (i + 1)..j))
      BY <3>2, <3>3, KeptCounts
    <3>5. /\ Cardinality(Kept(u, (i + 1)..j)) \in Nat
          /\ Cardinality(Kept(u, (i + 1)..j)) # 0
      <4>1. IsFiniteSet((i + 1)..j)
        BY <3>3, FS_Interval
      <4>2. IsFiniteSet(Kept(u, (i + 1)..j))
        BY <4>1, FS_Subset DEF Kept
      <4> QED
        BY <3>3, <4>2, FS_CardinalityType, FS_EmptySet
    <3>6. /\ Len(history[u]) = count(Len(chosen[u]))
          /\ history[u][count(i)] = chosen[u][i].password
          /\ history[u][count(j)] = chosen[u][j].password
      BY <3>1, <3>3 DEF HistoryOf
    <3>7. /\ count(i) \in DOMAIN history[u] /\ count(j) \in DOMAIN history[u]
          /\ count(i) < count(j) /\ count(j) <= count(i) + Remembered
      BY <2>1, <3>2, <3>4, <3>5, <3>6, BoundsAssumption
    <3> HIDE DEF count
    <3> QED
      BY <3>1, <3>6, <3>7 DEF Barred
  <2> QED
    BY <2>1 DEF RecentChangesBarred
<1>2. CredentialsInv /\ OverlapInv => RecentChangesBarred
  BY <1>1 DEF CredentialsInv, TypeInv, OverlapInv
<1> QED
  BY <1>2, OverlapHolds, PTL
=============================================================================
