------------------------------ MODULE MCPaging ------------------------------
(* An instance of Paging for TLC: six ids, four of which a search finds.  *)
EXTENDS Paging

SixIds == 1..6
FourOfThem == {1, 3, 4, 6}
=============================================================================
