---------------------------- MODULE AuthCodeStore ----------------------------
(***************************************************************************)
(* RedisAuthorizationCodeStore: authorization codes as keys of a Redis     *)
(* database.  GetAllAsync and RevokeAsync go through all keys of the       *)
(* server and fetch each value by a call of its own; RevokeAsync collects  *)
(* the codes it wants first and deletes them one by one afterwards.        *)
(* Meanwhile IdentityServer stores codes, reads one and removes it, and    *)
(* Redis drops keys.                                                       *)
(*                                                                         *)
(* Keys() is the SCAN command of Redis behind an enumerator that fetches   *)
(* pages ahead.  SCAN gives every key that is there from its beginning to  *)
(* its end, and any other key perhaps, perhaps twice.                      *)
(***************************************************************************)
EXTENDS Naturals

CONSTANTS
  Keys,      \* the keys of authorization codes; IdentityServer makes each once
  Subjects, Clients,
  Grant,     \* per key: the subject and the client of its code
  Scanners,  \* calls of GetAllAsync and RevokeAsync
  Redeemers, \* token requests
  NoKey

ASSUME GrantAssumption == Grant \in [Keys -> Subjects \X Clients]
ASSUME NoKeyAssumption == NoKey \notin Keys

VARIABLES
  keys,     \* the keys in Redis
  made,     \* keys that were ever stored
  held,     \* per token request: the key whose code it has read
  op,       \* per call: "list" or "revoke"
  target,   \* per call: the subject and the client
  pc,       \* per call: where it is, and how it ended
  start,    \* per call: the keys that were there when SCAN began
  given,    \* per call: the keys SCAN has given so far
  page,     \* per call: those the loop has not come to
  found,    \* per call: matches of GetAllAsync, toDelete of RevokeAsync
  removed   \* per call: the keys it has deleted (history)

calls == <<op, target, pc, start, given, page, found, removed>>
vars  == <<keys, made, held, calls>>

TypeOK ==
  /\ keys \subseteq made
  /\ made \subseteq Keys
  /\ held \in [Redeemers -> Keys \cup {NoKey}]
  /\ op \in [Scanners -> {"list", "revoke"}]
  /\ target \in [Scanners -> Subjects \X Clients]
  /\ pc \in [Scanners -> {"idle", "scan", "remove", "ok", "null", "failed"}]
  /\ start \in [Scanners -> SUBSET made]
  /\ given \in [Scanners -> SUBSET made]
  /\ page \in [Scanners -> SUBSET made]
  /\ found \in [Scanners -> SUBSET made]
  /\ removed \in [Scanners -> SUBSET made]

Init ==
  /\ keys = {} /\ made = {}
  /\ held = [r \in Redeemers |-> NoKey]
  /\ op = [s \in Scanners |-> "list"]
  /\ target \in [Scanners -> Subjects \X Clients]
  /\ pc = [s \in Scanners |-> "idle"]
  /\ start = [s \in Scanners |-> {}]
  /\ given = [s \in Scanners |-> {}]
  /\ page = [s \in Scanners |-> {}]
  /\ found = [s \in Scanners |-> {}]
  /\ removed = [s \in Scanners |-> {}]

----------------------------------------------------------------------------
(* IdentityServer and Redis. *)

StoreAsync ==
  /\ \E k \in Keys \ made : keys' = keys \cup {k} /\ made' = made \cup {k}
  /\ UNCHANGED <<held, calls>>

\* A token request reads the code first and removes it then.  One that finds no code
\* is answered null and ends.
GetAsync(r) ==
  /\ held[r] = NoKey
  /\ \E k \in keys : held' = [held EXCEPT ![r] = k]
  /\ UNCHANGED <<keys, made, calls>>

RemoveAsync(r) ==
  /\ held[r] # NoKey
  /\ keys' = keys \ {held[r]}
  /\ held' = [held EXCEPT ![r] = NoKey]
  /\ UNCHANGED <<made, calls>>

\* Codes are stored without an expiry; Redis drops keys when memory is short.
Evict ==
  /\ \E k \in keys : keys' = keys \ {k}
  /\ UNCHANGED <<made, held, calls>>

----------------------------------------------------------------------------
(* GetAllAsync and RevokeAsync. *)

Running(s) == pc[s] \in {"scan", "remove"}

\* Variant: any client of the subject will do.
WantedOfSubject(s) == {k \in Keys : Grant[k][1] = target[s][1]}

Wanted(s) ==
  {k \in Keys : /\ Grant[k][1] = target[s][1]
                /\ op[s] = "revoke" => Grant[k][2] = target[s][2]}

Call(s) ==
  /\ ~Running(s)
  /\ \E o \in {"list", "revoke"}, t \in Subjects \X Clients :
       op' = [op EXCEPT ![s] = o] /\ target' = [target EXCEPT ![s] = t]
  /\ pc' = [pc EXCEPT ![s] = "scan"]
  /\ start' = [start EXCEPT ![s] = keys]
  /\ given' = [given EXCEPT ![s] = {}]
  /\ page' = [page EXCEPT ![s] = {}]
  /\ found' = [found EXCEPT ![s] = {}]
  /\ removed' = [removed EXCEPT ![s] = {}]
  /\ UNCHANGED <<keys, made, held>>

FetchPage(s) ==
  /\ pc[s] = "scan"
  /\ \E P \in SUBSET keys :
       given' = [given EXCEPT ![s] = @ \cup P] /\ page' = [page EXCEPT ![s] = @ \cup P]
  /\ UNCHANGED <<keys, made, held, op, target, pc, start, found, removed>>

\* Variant: what matches is deleted at once.
ReadKeyDeletes(s) ==
  /\ pc[s] = "scan"
  /\ \E k \in page[s] \cap keys :
       /\ page' = [page EXCEPT ![s] = @ \ {k}]
       /\ IF k \in Wanted(s) /\ op[s] = "revoke"
          THEN keys' = keys \ {k} /\ removed' = [removed EXCEPT ![s] = @ \cup {k}]
          ELSE UNCHANGED <<keys, removed>>
  /\ UNCHANGED <<made, held, op, target, pc, start, given, found>>

ReadKey(s) ==
  /\ pc[s] = "scan"
  /\ \E k \in page[s] \cap keys :
       /\ page' = [page EXCEPT ![s] = @ \ {k}]
       /\ found' = [found EXCEPT ![s] = IF k \in Wanted(s) THEN @ \cup {k} ELSE @]
  /\ UNCHANGED <<keys, made, held, op, target, pc, start, given, removed>>

\* The key is gone: GetAsync returns null, and the next line dereferences it.
ReadNull(s) ==
  /\ pc[s] = "scan"
  /\ page[s] \ keys # {}
  /\ pc' = [pc EXCEPT ![s] = "null"]
  /\ UNCHANGED <<keys, made, held, op, target, start, given, page, found, removed>>

\* Variant: the keys that are left on the last page are not read.
ScanEndsEarly(s) ==
  /\ pc[s] = "scan"
  /\ start[s] \cap keys \subseteq given[s]
  /\ pc' = [pc EXCEPT ![s] = IF op[s] = "revoke" THEN "remove" ELSE "ok"]
  /\ UNCHANGED <<keys, made, held, op, target, start, given, page, found, removed>>

ScanEnds(s) ==
  /\ pc[s] = "scan"
  /\ page[s] = {}
  /\ start[s] \cap keys \subseteq given[s]
  /\ pc' = [pc EXCEPT ![s] = IF op[s] = "revoke" THEN "remove" ELSE "ok"]
  /\ UNCHANGED <<keys, made, held, op, target, start, given, page, found, removed>>

\* Variant: the loop stops after the first key.
RemoveFirst(s) ==
  /\ pc[s] = "remove"
  /\ \E k \in found[s] :
       /\ keys' = keys \ {k}
       /\ found' = [found EXCEPT ![s] = {}]
       /\ removed' = [removed EXCEPT ![s] = @ \cup {k}]
  /\ UNCHANGED <<made, held, op, target, pc, start, given, page>>

\* Deleting a key that is gone is no error.
RemoveFound(s) ==
  /\ pc[s] = "remove"
  /\ \E k \in found[s] :
       /\ keys' = keys \ {k}
       /\ found' = [found EXCEPT ![s] = @ \ {k}]
       /\ removed' = [removed EXCEPT ![s] = @ \cup {k}]
  /\ UNCHANGED <<made, held, op, target, pc, start, given, page>>

RevokeEnds(s) ==
  /\ pc[s] = "remove"
  /\ found[s] = {}
  /\ pc' = [pc EXCEPT ![s] = "ok"]
  /\ UNCHANGED <<keys, made, held, op, target, start, given, page, found, removed>>

\* A command to Redis fails.
Fail(s) ==
  /\ Running(s)
  /\ pc' = [pc EXCEPT ![s] = "failed"]
  /\ UNCHANGED <<keys, made, held, op, target, start, given, page, found, removed>>

Next ==
  \/ StoreAsync \/ Evict
  \/ \E r \in Redeemers : GetAsync(r) \/ RemoveAsync(r)
  \/ \E s \in Scanners :
       \/ Call(s) \/ FetchPage(s) \/ ReadKey(s) \/ ReadNull(s) \/ ScanEnds(s)
       \/ RemoveFound(s) \/ RevokeEnds(s) \/ Fail(s)

Spec == Init /\ [][Next]_vars
----------------------------------------------------------------------------
\* After a revocation that succeeded, none of the codes of the subject and client is
\* left that were there when it began (RevokeAsync), whatever is stored, redeemed,
\* dropped or revoked by another call in the meantime.
RevokedAreGone ==
  \A s \in Scanners :
    pc[s] = "ok" /\ op[s] = "revoke" => start[s] \cap keys \cap Wanted(s) = {}

\* A call deletes no code of another subject or client, and a listing deletes none.
OthersAreKept ==
  \A s \in Scanners :
    /\ op[s] = "list" => removed[s] = {}
    /\ \A k \in removed[s] : Grant[k] = target[s]

\* When a key disappears between the listing and the reading, the revocation ends by a
\* NullReferenceException before it has deleted anything: what is left is all there,
\* and not a part of it.
GoneKeyRevokesNothing == \A s \in Scanners : pc[s] = "null" => removed[s] = {}

\* GetAllAsync returns codes of the subject only, and all that were there throughout.
ListingIsComplete ==
  \A s \in Scanners :
    pc[s] = "ok" /\ op[s] = "list" =>
      /\ found[s] \subseteq Wanted(s)
      /\ start[s] \cap keys \cap Wanted(s) \subseteq found[s]
=============================================================================
