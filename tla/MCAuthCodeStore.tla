--------------------------- MODULE MCAuthCodeStore ---------------------------
(* An instance of AuthCodeStore for TLC: two codes of one subject and      *)
(* client, one of the same subject at another client and one of another    *)
(* subject.                                                                *)
EXTENDS AuthCodeStore, TLC

CONSTANTS k1, k2, k3, k4, a, b, x, y

GrantOfKeys == k1 :> <<a, x>> @@ k2 :> <<a, x>> @@ k3 :> <<a, y>> @@ k4 :> <<b, x>>
Symmetry == Permutations({k1, k2})
=============================================================================
