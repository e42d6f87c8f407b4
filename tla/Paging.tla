-------------------------------- MODULE Paging --------------------------------
(***************************************************************************)
(* The read API: UserOrchestrator.UsersIndex and SearchOrchestrator        *)
(* .UserSearch return one page of users, ordered by id, and the number of  *)
(* pages.  The index reads the page and counts the users in two queries;   *)
(* the search takes both from one result set.  A caller of the API client  *)
(* reads page after page until it has as many as the last answer told,     *)
(* while people register and the clean-up job deletes.                     *)
(*                                                                         *)
(* Data abstraction.  Ids are numbers, since only their order matters; a   *)
(* search matches a fixed set of ids.                                      *)
(***************************************************************************)
EXTENDS Naturals, FiniteSets

CONSTANTS
  Ids,       \* the ids of users, in the order of ORDER BY ID
  Matching,  \* the ids a search finds
  PageSize

ASSUME IdsAssumption == Ids \subseteq Nat /\ IsFiniteSet(Ids) /\ Matching \subseteq Ids
\* UsersIndex divides by the page size; the callers' default is 1000.
ASSUME PageSizeAssumption == PageSize \in Nat \ {0}

VARIABLES
  users,      \* the ids in the table User
  query,      \* of the caller: which of the two it calls
  page,       \* the page it reads next
  pc,         \* "done", "ask" or "count"
  rows,       \* of a call: the page it has read
  seen,       \* the users the caller has been given
  there,      \* users that were there when it began and were not deleted since
  disturbed   \* a user has been deleted since

vars == <<users, query, page, pc, rows, seen, there, disturbed>>

----------------------------------------------------------------------------
(* The arithmetic. *)

Index(x, S) == Cardinality({y \in S : y <= x})

\* ORDER BY ID OFFSET n * PageSize - PageSize ROWS FETCH NEXT PageSize ROWS ONLY.
PageOf(S, n) ==
  {x \in S : n * PageSize < Index(x, S) + PageSize /\ Index(x, S) <= n * PageSize}

\* Variant: the division alone.
IndexPagesTruncated(k) == k \div PageSize

IndexPages(k) == k \div PageSize + 1

\* Variant: rounded up also without a remainder.
SearchPagesRoundedUp(k) == IF PageSize < k THEN k \div PageSize + 1 ELSE 1

\* GetNoOfTotalPages.
SearchPages(k) ==
  IF PageSize < k
  THEN IF k % PageSize > 0 THEN k \div PageSize + 1 ELSE k \div PageSize
  ELSE 1

Listed(q, S) == IF q = "search" THEN S \cap Matching ELSE S

TypeOK ==
  /\ users \subseteq Ids
  /\ query \in {"index", "search"}
  /\ page \in Nat \ {0}
  /\ pc \in {"ask", "count", "done"}
  /\ rows \subseteq Ids
  /\ seen \subseteq Ids
  /\ there \subseteq users
  /\ disturbed \in BOOLEAN

Init ==
  /\ users \in SUBSET Ids
  /\ query \in {"index", "search"}
  /\ page = 1
  /\ pc = "ask"
  /\ rows = {}
  /\ seen = {}
  /\ there = Listed(query, users)
  /\ disturbed = FALSE

----------------------------------------------------------------------------
(* The calls. *)

\* The caller has the answer: the rows S of a page and the number of pages.
Receive(S, pages) ==
  /\ seen' = seen \cup S
  /\ page' = page + 1
  /\ pc' = IF page < pages THEN "ask" ELSE "done"
  /\ rows' = {}

GetUsers ==
  /\ pc = "ask" /\ query = "index"
  /\ rows' = PageOf(users, page)
  /\ pc' = "count"
  /\ UNCHANGED <<users, query, page, seen, there, disturbed>>

GetUserCount ==
  /\ pc = "count"
  /\ Receive(rows, IndexPages(Cardinality(users)))
  /\ UNCHANGED <<users, query, there, disturbed>>

SearchUsers ==
  /\ pc = "ask" /\ query = "search"
  /\ LET result == Listed(query, users)
     IN Receive(PageOf(result, page), SearchPages(Cardinality(result)))
  /\ UNCHANGED <<users, query, there, disturbed>>

\* The second query fails, or the answer is lost, and the caller asks again.
CallFails ==
  /\ pc = "count"
  /\ pc' = "ask"
  /\ rows' = {}
  /\ UNCHANGED <<users, query, page, seen, there, disturbed>>

WalkAgain ==
  /\ pc = "done"
  /\ query' \in {"index", "search"}
  /\ page' = 1
  /\ pc' = "ask"
  /\ seen' = {}
  /\ there' = Listed(query', users)
  /\ disturbed' = FALSE
  /\ UNCHANGED <<users, rows>>

Register ==
  /\ \E x \in Ids \ users : users' = users \cup {x}
  /\ UNCHANGED <<query, page, pc, rows, seen, there, disturbed>>

Delete ==
  /\ \E x \in users : users' = users \ {x} /\ there' = there \ {x}
  /\ disturbed' = TRUE
  /\ UNCHANGED <<query, page, pc, rows, seen>>

Next ==
  \/ GetUsers \/ GetUserCount \/ SearchUsers \/ CallFails \/ WalkAgain
  \/ Register \/ Delete

Spec == Init /\ [][Next]_vars
----------------------------------------------------------------------------
\* A caller that reads to the last page it is told of has been given every user that
\* was there all the time, although others register in between and shift the pages,
\* and although the index counts after it has read the page.  Only a deletion may
\* move a user to a page that was read already.
NobodySkipped == pc = "done" /\ ~disturbed => there \subseteq seen

\* m pages hold k rows, and one page fewer would not.
LeastPages(m, k) == m * PageSize >= k /\ (m = 1 \/ m * PageSize < k + PageSize)

\* The two endpoints agree on the number of pages, but for an empty last page of the
\* index when the page size divides the number of users.
PageCountsAgree ==
  LET k == Cardinality(users)
  IN /\ LeastPages(SearchPages(k), k)
     /\ IndexPages(k) =
          SearchPages(k) + (IF k > 0 /\ k % PageSize = 0 THEN 1 ELSE 0)
=============================================================================
