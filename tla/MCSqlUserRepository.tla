------------------------- MODULE MCSqlUserRepository -------------------------
(* An instance of SqlUserRepository for TLC: an object without child rows, as   *)
(* a torn load leaves it, and one that has two codes and one old password.     *)
EXTENDS SqlUserRepository

TwoObjects ==
  {[row |-> {1}, codes |-> {},     past |-> {}],
   [row |-> {2}, codes |-> {1, 2}, past |-> {1}]}
=============================================================================
