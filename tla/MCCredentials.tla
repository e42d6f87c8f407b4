---------------------------- MODULE MCCredentials ----------------------------
(* Instances of Credentials for TLC: two users with an address each, and a *)
(* third address that nobody has.                                          *)
EXTENDS Credentials, TLC

CONSTANTS r1, r2, u1, u2, e1, e2, e3, p1, p2

HomeOfUsers == u1 :> e1 @@ u2 :> e2
HomeOfOne == u1 :> e1

\* Requests and passwords have no names in the actions.
Symmetry == Permutations(Requests) \cup Permutations(Passwords)
=============================================================================
