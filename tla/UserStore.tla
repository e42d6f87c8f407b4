------------------------------ MODULE UserStore ------------------------------
(***************************************************************************)
(* What the handlers expect of IUserRepository: a table of users in which  *)
(* Create, Update and Delete take effect at one moment, whole or not at    *)
(* all.  A call that is answered "ok" took effect; one that is answered    *)
(* with an error, because it was refused or the answer got lost, took      *)
(* effect once or never.  There is one exception: the update of a user     *)
(* that is gone is answered "ok" without effect if the object has no child *)
(* rows.  The handlers of the other modules save a user in one step on the *)
(* strength of this.                                                       *)
(***************************************************************************)
EXTENDS Naturals

CONSTANTS
  Sessions, Users, Objects, Absent, NoCall,
  Bare   \* the objects without codes and history

VARIABLES
  table,   \* per user: the stored object, or Absent
  call,    \* per session: the operation that was called
  answer   \* per session: how its last call ended

Calls == [op : {"create", "update", "delete"}, user : Users, object : Objects]

Init ==
  /\ table \in [Users -> Objects \cup {Absent}]
  /\ call = [s \in Sessions |-> NoCall]
  /\ answer = [s \in Sessions |-> "none"]

Begin(s) ==
  /\ call[s] = NoCall
  /\ \E c \in Calls : call' = [call EXCEPT ![s] = c]
  /\ answer' = [answer EXCEPT ![s] = "none"]
  /\ UNCHANGED table

End(s, how) ==
  /\ call' = [call EXCEPT ![s] = NoCall]
  /\ answer' = [answer EXCEPT ![s] = how]

\* The operation takes effect.  A user is created once and updated while it exists;
\* deleting a user that is not there changes nothing.
Perform(s) ==
  /\ call[s] # NoCall
  /\ call[s].op = "create" => table[call[s].user] = Absent
  /\ call[s].op = "update" => table[call[s].user] # Absent
  /\ table' = [table EXCEPT ![call[s].user] =
                 IF call[s].op = "delete" THEN Absent ELSE call[s].object]
  /\ \E how \in {"ok", "error"} : End(s, how)

\* Nothing tells the caller that there was no user to update.
Overlook(s) ==
  /\ call[s] # NoCall
  /\ call[s].op = "update" /\ call[s].object \in Bare
  /\ table[call[s].user] = Absent
  /\ End(s, "ok")
  /\ UNCHANGED table

Refuse(s) ==
  /\ call[s] # NoCall
  /\ End(s, "error")
  /\ UNCHANGED table

Next == \E s \in Sessions : Begin(s) \/ Perform(s) \/ Overlook(s) \/ Refuse(s)

Spec == Init /\ [][Next]_<<table, call, answer>>
=============================================================================
