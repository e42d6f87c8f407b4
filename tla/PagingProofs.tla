----------------------------- MODULE PagingProofs -----------------------------
(***************************************************************************)
(* Theorems about Paging, for any set of ids, any search and any page size *)
(* but zero.  A user the caller has not been given after n - 1 pages has   *)
(* more than (n - 1) * PageSize users before it or is itself one of the    *)
(* next; registrations only move it further back.  So there is another     *)
(* page as long as somebody is left, however the pages are counted.        *)
(***************************************************************************)
EXTENDS Paging, FiniteSetTheorems, TLAPS

Here == Listed(query, users)

Ahead(x) == Index(x, Here) + PageSize > page * PageSize

WalkInv ==
  /\ TypeOK
  /\ there \subseteq Here
  /\ ~disturbed => \A x \in there \ seen :
       /\ pc # "done"
       /\ Ahead(x)
       /\ pc = "count" => x \in rows \/ Index(x, Here) > page * PageSize

----------------------------------------------------------------------------
(* The arithmetic. *)

\* Quotient and remainder.
LEMMA Division ==
  ASSUME NEW k \in Nat
  PROVE  /\ k \div PageSize \in Nat /\ k % PageSize \in Nat
         /\ k = PageSize * (k \div PageSize) + (k % PageSize)
         /\ k % PageSize < PageSize
  BY PageSizeAssumption

\* Pages do not overlap.
LEMMA Multiples ==
  ASSUME NEW m \in Nat, NEW n \in Nat, m < n
  PROVE  m * PageSize + PageSize <= n * PageSize
<1>1. PICK d \in Nat : n = m + 1 + d
  <2>1. n - m - 1 \in Nat /\ n = m + 1 + (n - m - 1)
    OBVIOUS
  <2> QED
    BY <2>1
<1>2. n * PageSize = m * PageSize + PageSize + d * PageSize
  BY <1>1, PageSizeAssumption
<1>3. d * PageSize \in Nat /\ m * PageSize \in Nat
  BY PageSizeAssumption
<1> QED
  BY <1>2, <1>3, PageSizeAssumption

\* The division falls short of n only if there are fewer than n full pages.
LEMMA FullPages ==
  ASSUME NEW k \in Nat, NEW n \in Nat, n * PageSize <= k
  PROVE  n <= k \div PageSize
<1>1. SUFFICES ASSUME k \div PageSize < n PROVE FALSE
  BY Division
<1>2. (k \div PageSize) * PageSize + PageSize <= n * PageSize
  BY <1>1, Multiples, Division
<1>3. PageSize * (k \div PageSize) = (k \div PageSize) * PageSize
  BY Division, PageSizeAssumption
<1>4. (k \div PageSize) * PageSize \in Nat /\ n * PageSize \in Nat
  BY Division, PageSizeAssumption
<1> QED
  BY <1>2, <1>3, <1>4, Division, PageSizeAssumption

\* While users are left the index announces another page.
LEMMA IndexPagesSuffice ==
  ASSUME NEW k \in Nat, NEW n \in Nat, n * PageSize < k
  PROVE  n < IndexPages(k)
<1>1. n * PageSize \in Nat
  BY PageSizeAssumption
<1> QED
  BY <1>1, FullPages, Division DEF IndexPages

\* So does the search, after its first page.
LEMMA SearchPagesSuffice ==
  ASSUME NEW k \in Nat, NEW n \in Nat \ {0}, n * PageSize < k
  PROVE  n < SearchPages(k)
<1>1. n * PageSize \in Nat
  BY PageSizeAssumption
<1>2. n <= k \div PageSize
  BY <1>1, FullPages
<1>3. PageSize < k
  <2>1. CASE n = 1
    BY <2>1, PageSizeAssumption
  <2>2. CASE n > 1
    BY <2>2, <1>1, Multiples, PageSizeAssumption
  <2> QED
    BY <2>1, <2>2
<1>4. CASE k % PageSize > 0
  BY <1>2, <1>3, <1>4, Division DEF SearchPages
<1>5. CASE ~(k % PageSize > 0)
  <2>1. k = PageSize * (k \div PageSize)
    BY <1>5, Division, PageSizeAssumption
  <2>2. n # k \div PageSize
    BY <2>1, <1>1, PageSizeAssumption
  <2> QED
    BY <1>2, <1>3, <1>5, <2>2, Division DEF SearchPages
<1> QED
  BY <1>4, <1>5

----------------------------------------------------------------------------
(* The place of a user in the order. *)

\* Sets of ids can be counted.
LEMMA FiniteIds ==
  ASSUME NEW S \in SUBSET Ids
  PROVE  IsFiniteSet(S) /\ Cardinality(S) \in Nat
  BY IdsAssumption, FS_Subset, FS_CardinalityType

\* The place of a user in a list is a positive number.
LEMMA IndexType ==
  ASSUME NEW S \in SUBSET Ids, NEW x \in S
  PROVE  Index(x, S) \in Nat \ {0}
<1> DEFINE B == {y \in S : y <= x}
<1>1. B \in SUBSET Ids
  OBVIOUS
<1>2. IsFiniteSet(B) /\ Cardinality(B) \in Nat
  BY <1>1, FiniteIds
<1>3. x \in B
  BY IdsAssumption
<1>4. Cardinality(B) # 0
  BY <1>2, <1>3, FS_EmptySet
<1> QED
  BY <1>2, <1>4 DEF Index

\* It is at most the length of the list.
LEMMA IndexBound ==
  ASSUME NEW S \in SUBSET Ids, NEW x \in S
  PROVE  Index(x, S) <= Cardinality(S)
<1> DEFINE B == {y \in S : y <= x}
<1>1. IsFiniteSet(S) /\ B \in SUBSET S
  BY FiniteIds
<1>2. Cardinality(B) <= Cardinality(S)
  BY <1>1, FS_Subset
<1> QED
  BY <1>2 DEF Index

\* Users who are added push the others back and never forward.
LEMMA IndexGrows ==
  ASSUME NEW T \in SUBSET Ids, NEW S \in SUBSET T, NEW x \in S
  PROVE  Index(x, S) <= Index(x, T)
<1> DEFINE B == {y \in S : y <= x}
           D == {y \in T : y <= x}
<1>1. D \in SUBSET Ids /\ B \in SUBSET D
  OBVIOUS
<1>2. Cardinality(B) <= Cardinality(D)
  BY <1>1, FiniteIds, FS_Subset
<1> QED
  BY <1>2 DEF Index

----------------------------------------------------------------------------
(* The walk. *)

\* A query lists users of the table.
LEMMA ListedOfTable ==
  ASSUME NEW q, NEW S PROVE Listed(q, S) \subseteq S
  BY DEF Listed

\* The types hold at the start.
LEMMA InitTypes == Init => TypeOK
<1> SUFFICES ASSUME Init PROVE TypeOK
  OBVIOUS
<1>1. there \subseteq users
  BY ListedOfTable DEF Init
<1>2. users \subseteq Ids /\ rows \subseteq Ids /\ seen \subseteq Ids
  BY DEF Init
<1>3. page \in Nat \ {0}
  BY DEF Init
<1>4. disturbed \in BOOLEAN
  BY DEF Init
<1> QED
  BY <1>1, <1>2, <1>3, <1>4 DEF Init, TypeOK

\* Every step keeps the types.
LEMMA NextTypes == TypeOK /\ [Next]_vars => TypeOK'
<1> SUFFICES ASSUME TypeOK, [Next]_vars PROVE TypeOK'
  OBVIOUS
<1> USE DEF TypeOK
<1>1. CASE GetUsers
  BY <1>1 DEF GetUsers, PageOf
<1>2. CASE GetUserCount
  BY <1>2 DEF GetUserCount, Receive
<1>3. CASE SearchUsers
  BY <1>3 DEF SearchUsers, Receive, PageOf, Listed
<1>4. CASE CallFails
  BY <1>4 DEF CallFails
<1>5. CASE WalkAgain
  <2>1. there' \subseteq users
    BY <1>5, ListedOfTable DEF WalkAgain
  <2>2. disturbed' \in BOOLEAN
    BY <1>5 DEF WalkAgain
  <2>3. page' \in Nat \ {0} /\ seen' \subseteq Ids
    BY <1>5 DEF WalkAgain
  <2> QED
    BY <1>5, <2>1, <2>2, <2>3 DEF WalkAgain
<1>6. CASE Register
  BY <1>6 DEF Register
<1>7. CASE Delete
  BY <1>7 DEF Delete
<1>8. CASE UNCHANGED vars
  BY <1>8 DEF vars
<1> QED
  BY <1>1, <1>2, <1>3, <1>4, <1>5, <1>6, <1>7, <1>8 DEF Next

\* Every variable keeps its type; the caller is given ids of the table only.
THEOREM TypeCorrect == Spec => []TypeOK
  BY InitTypes, NextTypes, PTL DEF Spec

\* The users a query lists are ids.
LEMMA HereIds == TypeOK => Here \in SUBSET Ids
  BY DEF TypeOK, Here, Listed

\* A walk begins with everybody ahead.
LEMMA FirstPage ==
  ASSUME NEW S \in SUBSET Ids, NEW x \in S
  PROVE  Index(x, S) + PageSize > 1 * PageSize
  BY IndexType, PageSizeAssumption

\* The invariant of the walk holds at the start.
LEMMA InitWalk == Init => WalkInv
<1> SUFFICES ASSUME Init PROVE WalkInv
  OBVIOUS
<1>1. TypeOK /\ Here \in SUBSET Ids
  BY InitTypes, HereIds
<1>2. there = Here /\ page = 1 /\ pc = "ask"
  BY DEF Init, Here
<1>3. ASSUME NEW x \in there PROVE Ahead(x)
  BY <1>1, <1>2, <1>3, FirstPage DEF Ahead
<1> QED
  BY <1>1, <1>2, <1>3 DEF WalkInv

\* The caller has the answer; whoever is left is on a later page, and there is one.
LEMMA NextPage ==
  ASSUME WalkInv, TypeOK', ~disturbed, NEW R, NEW m \in Nat, Receive(R, m),
         UNCHANGED <<users, query, there, disturbed>>,
         \A x \in there \ (seen \cup R) : Index(x, Here) > page * PageSize,
         \A n \in Nat \ {0} : n * PageSize < Cardinality(Here) => n < m
  PROVE  WalkInv'
<1>1. /\ TypeOK /\ Here \in SUBSET Ids /\ there \subseteq Here
      /\ page \in Nat \ {0} /\ page' = page + 1
  BY HereIds DEF WalkInv, TypeOK, Receive
<1>2. Here' = Here
  BY DEF Here
<1>3. ASSUME NEW x \in there \ seen'
      PROVE  pc' = "ask" /\ Index(x, Here) + PageSize > (page + 1) * PageSize
  <2>1. Index(x, Here) > page * PageSize
    BY DEF Receive
  <2>2. /\ Index(x, Here) \in Nat /\ Cardinality(Here) \in Nat
        /\ Index(x, Here) <= Cardinality(Here)
    BY <1>1, IndexType, IndexBound, FiniteIds
  <2>3. page * PageSize \in Nat /\ (page + 1) * PageSize = page * PageSize + PageSize
    BY <1>1, PageSizeAssumption
  <2>4. page < m
    BY <1>1, <2>1, <2>2, <2>3
  <2> QED
    BY <2>1, <2>2, <2>3, <2>4, PageSizeAssumption DEF Receive
<1> QED
  BY <1>1, <1>2, <1>3 DEF WalkInv, Ahead

\* Every step keeps it.
LEMMA NextWalk == WalkInv /\ [Next]_vars => WalkInv'
<1> SUFFICES ASSUME WalkInv, [Next]_vars PROVE WalkInv'
  OBVIOUS
<1>1. TypeOK /\ TypeOK' /\ Here \in SUBSET Ids /\ Here' \in SUBSET Ids
  <2>1. TypeOK /\ TypeOK'
    BY NextTypes DEF WalkInv
  <2>2. Here' \subseteq users'
    BY ListedOfTable DEF Here
  <2> QED
    BY <2>1, <2>2, HereIds DEF TypeOK
<1>2. there \subseteq Here
  BY DEF WalkInv
<1>3. CASE GetUsers
  <2>1. /\ query = "index" /\ pc' = "count" /\ rows' = PageOf(Here, page)
        /\ UNCHANGED <<users, query, page, seen, there, disturbed>>
    BY <1>3 DEF GetUsers, Here, Listed
  <2>2. Here' = Here
    BY <2>1 DEF Here
  <2>3. ASSUME NEW x \in there \ seen, Ahead(x)
        PROVE  x \in rows' \/ Index(x, Here) > page * PageSize
    <3>1. Index(x, Here) \in Nat /\ page * PageSize \in Nat
      BY <1>1, <1>2, IndexType, PageSizeAssumption DEF TypeOK
    <3> QED
      BY <1>2, <2>1, <2>3, <3>1 DEF PageOf, Ahead
  <2> QED
    BY <1>1, <2>1, <2>2, <2>3 DEF WalkInv, Ahead
<1>4. CASE GetUserCount
  <2>1. /\ pc = "count" /\ UNCHANGED <<users, query, there, disturbed>>
        /\ Receive(rows, IndexPages(Cardinality(users)))
    BY <1>4 DEF GetUserCount
  <2>2. CASE disturbed
    BY <1>1, <1>2, <2>1, <2>2 DEF WalkInv, Here
  <2>3. CASE ~disturbed
    <3>1. users \in SUBSET Ids /\ Cardinality(users) \in Nat /\ Cardinality(Here) \in Nat
      BY <1>1, FiniteIds DEF TypeOK
    <3>2. Cardinality(Here) <= Cardinality(users)
      BY <3>1, FiniteIds, FS_Subset DEF Here, Listed
    <3>3. IndexPages(Cardinality(users)) \in Nat
      BY <3>1, Division DEF IndexPages
    <3>4. ASSUME NEW n \in Nat \ {0}, n * PageSize < Cardinality(Here)
          PROVE  n < IndexPages(Cardinality(users))
      <4>1. n * PageSize \in Nat
        BY PageSizeAssumption
      <4>2. n * PageSize < Cardinality(users)
        BY <3>1, <3>2, <3>4, <4>1
      <4> QED
        BY <3>1, <4>2, IndexPagesSuffice
    <3>5. \A x \in there \ (seen \cup rows) : Index(x, Here) > page * PageSize
      BY <2>1, <2>3 DEF WalkInv
    <3> QED
      BY <1>1, <2>1, <2>3, <3>3, <3>4, <3>5, NextPage
  <2> QED
    BY <2>2, <2>3
<1>5. CASE SearchUsers
  <2>1. /\ pc = "ask" /\ UNCHANGED <<users, query, there, disturbed>>
        /\ Receive(PageOf(Here, page), SearchPages(Cardinality(Here)))
    BY <1>5 DEF SearchUsers, Here
  <2>2. CASE disturbed
    BY <1>1, <1>2, <2>1, <2>2 DEF WalkInv, Here
  <2>3. CASE ~disturbed
    <3>1. Cardinality(Here) \in Nat
      BY <1>1, FiniteIds
    <3>2. SearchPages(Cardinality(Here)) \in Nat
      BY <3>1, Division DEF SearchPages
    <3>3. \A n \in Nat \ {0} :
            n * PageSize < Cardinality(Here) => n < SearchPages(Cardinality(Here))
      BY <3>1, SearchPagesSuffice
    <3>4. ASSUME NEW x \in there \ (seen \cup PageOf(Here, page))
          PROVE  Index(x, Here) > page * PageSize
      <4>1. Index(x, Here) \in Nat /\ page * PageSize \in Nat
        BY <1>1, <1>2, IndexType, PageSizeAssumption DEF TypeOK
      <4>2. Index(x, Here) + PageSize > page * PageSize
        BY <2>3 DEF WalkInv, Ahead
      <4> QED
        BY <1>2, <4>1, <4>2 DEF PageOf
    <3> QED
      BY <1>1, <2>1, <2>3, <3>2, <3>3, <3>4, NextPage
  <2> QED
    BY <2>2, <2>3
<1>6. CASE CallFails
  <2>1. pc' = "ask" /\ UNCHANGED <<users, query, page, seen, there, disturbed>>
    BY <1>6 DEF CallFails
  <2> QED
    BY <1>1, <2>1 DEF WalkInv, Ahead, Here
<1>7. CASE WalkAgain
  <2>1. /\ pc' = "ask" /\ page' = 1 /\ there' = Here'
    BY <1>7 DEF WalkAgain, Here
  <2>2. ASSUME NEW x \in there' PROVE Ahead(x)'
    BY <1>1, <2>1, <2>2, FirstPage DEF Ahead
  <2> QED
    BY <1>1, <2>1, <2>2 DEF WalkInv
<1>8. CASE Register
  <2>1. /\ users \subseteq users'
        /\ UNCHANGED <<query, page, pc, rows, seen, there, disturbed>>
    BY <1>8 DEF Register
  <2>2. Here \subseteq Here'
    BY <2>1 DEF Here, Listed
  <2>3. ASSUME NEW x \in there
        PROVE  /\ Index(x, Here) \in Nat /\ Index(x, Here') \in Nat
               /\ Index(x, Here) <= Index(x, Here')
    BY <1>1, <1>2, <2>2, IndexType, IndexGrows
  <2>4. page * PageSize \in Nat
    BY <1>1, PageSizeAssumption DEF TypeOK
  <2>5. ASSUME NEW x \in there, Ahead(x) PROVE Ahead(x)'
    BY <2>1, <2>3, <2>4, <2>5, PageSizeAssumption DEF Ahead
  <2>6. ASSUME NEW x \in there, Index(x, Here) > page * PageSize
        PROVE  Index(x, Here') > page * PageSize
    BY <2>3, <2>4, <2>6
  <2> QED
    BY <1>1, <1>2, <2>1, <2>2, <2>5, <2>6 DEF WalkInv
<1>9. CASE Delete
  <2>1. /\ disturbed' /\ UNCHANGED query
        /\ \E x \in users : users' = users \ {x} /\ there' = there \ {x}
    BY <1>9 DEF Delete
  <2> QED
    BY <1>1, <1>2, <2>1 DEF WalkInv, Here, Listed
<1>10. CASE UNCHANGED vars
  BY <1>1, <1>10 DEF vars, WalkInv, Ahead, Here
<1> QED
  BY <1>3, <1>4, <1>5, <1>6, <1>7, <1>8, <1>9, <1>10 DEF Next

\* A caller that reads to the last page it is told of has been given everybody who was
\* there all the time, unless somebody was deleted: the count that UserOrchestrator
\* takes after the page, and that SearchUsers takes with it, both ask for another page
\* as long as somebody is left.
THEOREM WalkIsComplete == Spec => []NobodySkipped
<1>1. WalkInv => NobodySkipped
  BY DEF WalkInv, NobodySkipped
<1> QED
  BY <1>1, InitWalk, NextWalk, PTL DEF Spec

----------------------------------------------------------------------------
(* The two counts. *)

\* The two counts, for one number of users.
LEMMA CountsAgree ==
  ASSUME NEW k \in Nat
  PROVE  /\ LeastPages(SearchPages(k), k)
         /\ IndexPages(k) =
              SearchPages(k) + (IF k > 0 /\ k % PageSize = 0 THEN 1 ELSE 0)
<1> DEFINE q == k \div PageSize
           z == k % PageSize
           s == q * PageSize
<1>1. /\ q \in Nat /\ z \in Nat /\ s \in Nat /\ z < PageSize /\ k = s + z
      /\ (q + 1) * PageSize = s + PageSize
  BY Division, PageSizeAssumption
<1>2. CASE PageSize < k
  <2>1. CASE z > 0
    <3>1. SearchPages(k) = q + 1
      BY <1>2, <2>1 DEF SearchPages
    <3> HIDE DEF q, z, s
    <3>2. LeastPages(q + 1, k)
      BY <1>1, <2>1, PageSizeAssumption DEF LeastPages
    <3>3. IndexPages(k) = q + 1
      BY DEF IndexPages, q
    <3> QED
      BY <1>1, <2>1, <3>1, <3>2, <3>3 DEF z
  <2>2. CASE z = 0
    <3>1. SearchPages(k) = q
      BY <1>2, <2>2 DEF SearchPages
    <3> HIDE DEF q, z
    <3>2. LeastPages(q, k)
      BY <1>1, <2>2, PageSizeAssumption DEF LeastPages
    <3>3. IndexPages(k) = q + 1
      BY DEF IndexPages, q
    <3> QED
      BY <1>1, <1>2, <2>2, <3>1, <3>2, <3>3, PageSizeAssumption DEF z
  <2> QED
    BY <1>1, <2>1, <2>2
<1>3. CASE ~(PageSize < k)
  <2>1. SearchPages(k) = 1 /\ LeastPages(1, k)
    BY <1>3, PageSizeAssumption DEF SearchPages, LeastPages
  <2>2. IndexPages(k) = q + 1
    BY DEF IndexPages
  <2>3. CASE k < PageSize
    <3>1. q = 0
      BY <2>3, PageSizeAssumption
    <3>2. z = k
      BY <2>3, PageSizeAssumption
    <3> QED
      BY <2>1, <2>2, <3>1, <3>2
  <2>4. CASE k = PageSize
    <3>1. q = 1 /\ z = 0
      BY <2>4, PageSizeAssumption
    <3> QED
      BY <2>1, <2>2, <2>4, <3>1, PageSizeAssumption
  <2> QED
    BY <1>3, <2>3, <2>4, PageSizeAssumption
<1> QED
  BY <1>2, <1>3

\* GetNoOfTotalPages is the least number of pages that hold the rows, and UsersIndex
\* has one more exactly when the page size divides the number of users.
THEOREM PageCountsCorrect == Spec => []PageCountsAgree
<1>1. TypeOK => PageCountsAgree
  <2> SUFFICES ASSUME TypeOK PROVE PageCountsAgree
    OBVIOUS
  <2>1. Cardinality(users) \in Nat
    BY FiniteIds DEF TypeOK
  <2> QED
    BY <2>1, CountsAgree DEF PageCountsAgree
<1> QED
  BY <1>1, TypeCorrect, PTL
=============================================================================
