------------------------- MODULE AuthCodeStoreProofs -------------------------
(***************************************************************************)
(* Theorems about AuthCodeStore, for any keys, codes and numbers of calls  *)
(* and token requests.  The invariant follows what a call knows: while it  *)
(* scans, a wanted key that SCAN has given is collected, still to be read, *)
(* or gone; afterwards every wanted key of the beginning is collected or   *)
(* gone.  A key that is gone stays gone, because keys are made once.       *)
(***************************************************************************)
EXTENDS AuthCodeStore, TLAPS

CallInv(s) ==
  /\ found[s] \subseteq Wanted(s)
  /\ removed[s] \subseteq Wanted(s)
  /\ op[s] = "list" \/ pc[s] \in {"idle", "scan", "null"} => removed[s] = {}
  /\ pc[s] = "scan" => given[s] \cap keys \cap Wanted(s) \subseteq found[s] \cup page[s]
  /\ pc[s] = "remove" => /\ op[s] = "revoke"
                         /\ start[s] \cap keys \cap Wanted(s) \subseteq found[s]
  /\ pc[s] = "ok" =>
       IF op[s] = "revoke" THEN start[s] \cap keys \cap Wanted(s) = {}
                           ELSE start[s] \cap keys \cap Wanted(s) \subseteq found[s]

StoreInv == TypeOK /\ \A s \in Scanners : CallInv(s)

----------------------------------------------------------------------------
(* Types. *)

\* The types hold at the start.
LEMMA InitTypes == Init => TypeOK
  BY DEF Init, TypeOK

\* Every step keeps the types.
LEMMA NextTypes == TypeOK /\ [Next]_vars => TypeOK'
<1> SUFFICES ASSUME TypeOK, [Next]_vars PROVE TypeOK'
  OBVIOUS
<1> USE DEF TypeOK
<1>1. CASE StoreAsync
  BY <1>1 DEF StoreAsync, calls
<1>2. CASE Evict
  BY <1>2 DEF Evict, calls
<1>3. ASSUME NEW r \in Redeemers, GetAsync(r) PROVE TypeOK'
  BY <1>3 DEF GetAsync, calls
<1>4. ASSUME NEW r \in Redeemers, RemoveAsync(r) PROVE TypeOK'
  BY <1>4 DEF RemoveAsync, calls
<1>5. ASSUME NEW s \in Scanners, Call(s) PROVE TypeOK'
  BY <1>5 DEF Call
<1>6. ASSUME NEW s \in Scanners, FetchPage(s) PROVE TypeOK'
  BY <1>6 DEF FetchPage
<1>7. ASSUME NEW s \in Scanners, ReadKey(s) PROVE TypeOK'
  BY <1>7 DEF ReadKey
<1>8. ASSUME NEW s \in Scanners, ReadNull(s) \/ ScanEnds(s) \/ RevokeEnds(s) \/ Fail(s)
      PROVE TypeOK'
  BY <1>8 DEF ReadNull, ScanEnds, RevokeEnds, Fail
<1>9. ASSUME NEW s \in Scanners, RemoveFound(s) PROVE TypeOK'
  BY <1>9 DEF RemoveFound
<1>10. CASE UNCHANGED vars
  BY <1>10 DEF vars, calls
<1> QED
  BY <1>1, <1>2, <1>3, <1>4, <1>5, <1>6, <1>7, <1>8, <1>9, <1>10 DEF Next

\* Every variable keeps its type; in particular no call is given, reads or collects a
\* key under which no code was ever stored.
THEOREM TypeCorrect == Spec => []TypeOK
  BY InitTypes, NextTypes, PTL DEF Spec

----------------------------------------------------------------------------
(* The calls. *)

\* What a call knows stays true while it rests, if no key comes back.
LEMMA RestingCall ==
  ASSUME TypeOK, NEW s \in Scanners, CallInv(s),
         \A k \in made : k \in keys' => k \in keys,
         op'[s] = op[s], target'[s] = target[s], pc'[s] = pc[s], start'[s] = start[s],
         given'[s] = given[s], page'[s] = page[s], found'[s] = found[s],
         removed'[s] = removed[s]
  PROVE  CallInv(s)'
<1>1. Wanted(s)' = Wanted(s)
  BY DEF Wanted
<1>2. start[s] \subseteq made /\ given[s] \subseteq made
  BY DEF TypeOK
<1>3. start'[s] \cap keys' \subseteq start[s] \cap keys
      /\ given'[s] \cap keys' \subseteq given[s] \cap keys
  BY <1>2
<1> QED
  BY <1>1, <1>3 DEF CallInv

\* The step of a call keeps what it knows.
LEMMA MovingCall ==
  ASSUME TypeOK, NEW s \in Scanners, CallInv(s),
         \/ Call(s) \/ FetchPage(s) \/ ReadKey(s) \/ ReadNull(s) \/ ScanEnds(s)
         \/ RemoveFound(s) \/ RevokeEnds(s) \/ Fail(s)
  PROVE  CallInv(s)'
<1> USE DEF TypeOK
<1>1. CASE Call(s)
  <2>1. /\ pc'[s] = "scan" /\ given'[s] = {} /\ found'[s] = {} /\ removed'[s] = {}
    BY <1>1 DEF Call
  <2> QED
    BY <2>1 DEF CallInv
<1>2. CASE FetchPage(s)
  <2>1. PICK P \in SUBSET keys : given'[s] = given[s] \cup P /\ page'[s] = page[s] \cup P
    BY <1>2 DEF FetchPage
  <2>2. UNCHANGED <<keys, op, target, pc, start, found, removed>> /\ pc[s] = "scan"
    BY <1>2 DEF FetchPage
  <2>3. Wanted(s)' = Wanted(s)
    BY <2>2 DEF Wanted
  <2> QED
    BY <2>1, <2>2, <2>3 DEF CallInv
<1>3. CASE ReadKey(s)
  <2>1. PICK k \in page[s] \cap keys :
          /\ page'[s] = page[s] \ {k}
          /\ found'[s] = IF k \in Wanted(s) THEN found[s] \cup {k} ELSE found[s]
    BY <1>3 DEF ReadKey
  <2>2. UNCHANGED <<keys, op, target, pc, start, given, removed>> /\ pc[s] = "scan"
    BY <1>3 DEF ReadKey
  <2>3. Wanted(s)' = Wanted(s)
    BY <2>2 DEF Wanted
  <2> QED
    BY <2>1, <2>2, <2>3 DEF CallInv
<1>4. CASE ReadNull(s) \/ Fail(s)
  <2>1. UNCHANGED <<keys, op, target, start, given, page, found, removed>>
    BY <1>4 DEF ReadNull, Fail
  <2>2. \/ pc'[s] = "null" /\ pc[s] = "scan"
        \/ pc'[s] = "failed"
    BY <1>4 DEF ReadNull, Fail
  <2>3. Wanted(s)' = Wanted(s)
    BY <2>1 DEF Wanted
  <2> QED
    BY <2>1, <2>2, <2>3 DEF CallInv
<1>5. CASE ScanEnds(s)
  <2>1. UNCHANGED <<keys, op, target, start, given, page, found, removed>>
    BY <1>5 DEF ScanEnds
  <2>2. /\ pc[s] = "scan" /\ page[s] = {} /\ start[s] \cap keys \subseteq given[s]
        /\ pc'[s] = IF op[s] = "revoke" THEN "remove" ELSE "ok"
    BY <1>5 DEF ScanEnds
  <2>3. Wanted(s)' = Wanted(s)
    BY <2>1 DEF Wanted
  <2>4. start[s] \cap keys \cap Wanted(s) \subseteq found[s]
    BY <2>2 DEF CallInv
  <2> QED
    BY <2>1, <2>2, <2>3, <2>4 DEF CallInv
<1>6. CASE RemoveFound(s)
  <2>1. PICK k \in found[s] : /\ keys' = keys \ {k}
                              /\ found'[s] = found[s] \ {k}
                              /\ removed'[s] = removed[s] \cup {k}
    BY <1>6 DEF RemoveFound
  <2>2. UNCHANGED <<op, target, pc, start, given, page>> /\ pc[s] = "remove"
    BY <1>6 DEF RemoveFound
  <2>3. Wanted(s)' = Wanted(s)
    BY <2>2 DEF Wanted
  <2> QED
    BY <2>1, <2>2, <2>3 DEF CallInv
<1>7. CASE RevokeEnds(s)
  <2>1. UNCHANGED <<keys, op, target, start, given, page, found, removed>>
    BY <1>7 DEF RevokeEnds
  <2>2. pc[s] = "remove" /\ found[s] = {} /\ pc'[s] = "ok"
    BY <1>7 DEF RevokeEnds
  <2>3. Wanted(s)' = Wanted(s)
    BY <2>1 DEF Wanted
  <2> QED
    BY <2>1, <2>2, <2>3 DEF CallInv
<1> QED
  BY <1>1, <1>2, <1>3, <1>4, <1>5, <1>6, <1>7

\* Nobody scans at the start.
LEMMA InitCalls == Init => \A s \in Scanners : CallInv(s)
  BY DEF Init, CallInv, Wanted

\* Every step keeps the invariant of all calls.
LEMMA NextCalls == StoreInv /\ [Next]_vars => StoreInv'
<1> SUFFICES ASSUME StoreInv, [Next]_vars PROVE StoreInv'
  OBVIOUS
<1>1. TypeOK /\ TypeOK'
  BY NextTypes DEF StoreInv
<1>2. \A k \in made : k \in keys' => k \in keys
  BY <1>1 DEF TypeOK, Next, vars, calls, StoreAsync, Evict, GetAsync, RemoveAsync, Call,
              FetchPage, ReadKey, ReadNull, ScanEnds, RemoveFound, RevokeEnds, Fail
<1>3. SUFFICES ASSUME NEW t \in Scanners PROVE CallInv(t)'
  BY <1>1 DEF StoreInv
<1>4. CallInv(t)
  BY DEF StoreInv
<1>5. CASE UNCHANGED calls
  BY <1>1, <1>2, <1>4, <1>5, RestingCall DEF calls
<1>6. ASSUME NEW s \in Scanners,
             \/ Call(s) \/ FetchPage(s) \/ ReadKey(s) \/ ReadNull(s) \/ ScanEnds(s)
             \/ RemoveFound(s) \/ RevokeEnds(s) \/ Fail(s)
      PROVE  CallInv(t)'
  <2>1. CASE s = t
    BY <1>1, <1>4, <1>6, <2>1, MovingCall
  <2>2. CASE s # t
    <3>1. /\ op'[t] = op[t] /\ target'[t] = target[t] /\ pc'[t] = pc[t]
          /\ start'[t] = start[t] /\ given'[t] = given[t] /\ page'[t] = page[t]
          /\ found'[t] = found[t] /\ removed'[t] = removed[t]
      BY <1>1, <1>6, <2>2 DEF TypeOK, Call, FetchPage, ReadKey, ReadNull, ScanEnds,
                              RemoveFound, RevokeEnds, Fail
    <3> QED
      BY <1>1, <1>2, <1>4, <3>1, RestingCall
  <2> QED
    BY <2>1, <2>2
<1> QED
  BY <1>5, <1>6 DEF Next, vars, StoreAsync, Evict, GetAsync, RemoveAsync

\* The invariant holds at all times.
LEMMA StoreInvHolds == Spec => []StoreInv
<1>1. Init => StoreInv
  BY InitTypes, InitCalls DEF StoreInv
<1> QED
  BY <1>1, NextCalls, PTL DEF Spec

\* After a successful RevokeAsync none of the codes of its subject and client is left
\* that were there when it began, whatever happened to the keys in the meantime.
THEOREM RevocationIsComplete == Spec => []RevokedAreGone
<1>1. StoreInv => RevokedAreGone
  BY DEF StoreInv, CallInv, RevokedAreGone
<1> QED
  BY <1>1, StoreInvHolds, PTL

\* RevokeAsync deletes codes of its subject and client only, GetAllAsync none.
THEOREM RevocationIsExact == Spec => []OthersAreKept
<1>1. StoreInv => OthersAreKept
  <2> SUFFICES ASSUME StoreInv, NEW s \in Scanners
               PROVE  /\ op[s] = "list" => removed[s] = {}
                      /\ \A k \in removed[s] : Grant[k] = target[s]
    BY DEF OthersAreKept
  <2>1. op[s] = "list" => removed[s] = {}
    BY DEF StoreInv, CallInv
  <2>2. ASSUME NEW k \in removed[s] PROVE Grant[k] = target[s]
    <3>1. op[s] = "revoke" /\ target[s] \in Subjects \X Clients
      BY <2>1, <2>2 DEF StoreInv, TypeOK
    <3>2. k \in Keys /\ Grant[k][1] = target[s][1] /\ Grant[k][2] = target[s][2]
      BY <2>2, <3>1 DEF StoreInv, CallInv, Wanted
    <3>3. Grant[k] \in Subjects \X Clients
      BY <3>2, GrantAssumption
    <3> QED
      BY <3>1, <3>2, <3>3
  <2> QED
    BY <2>1, <2>2
<1> QED
  BY <1>1, StoreInvHolds, PTL

\* A call that trips over a key that is gone has deleted nothing: RevokeAsync reads
\* all keys before it deletes the first.
THEOREM GoneKeyIsHarmless == Spec => []GoneKeyRevokesNothing
<1>1. StoreInv => GoneKeyRevokesNothing
  BY DEF StoreInv, CallInv, GoneKeyRevokesNothing
<1> QED
  BY <1>1, StoreInvHolds, PTL

\* A successful GetAllAsync returns codes of the subject only, and all of them that
\* were there from its beginning to its end.
THEOREM ListingIsExact == Spec => []ListingIsComplete
<1>1. StoreInv => ListingIsComplete
  BY DEF StoreInv, TypeOK, CallInv, ListingIsComplete
<1> QED
  BY <1>1, StoreInvHolds, PTL
=============================================================================
