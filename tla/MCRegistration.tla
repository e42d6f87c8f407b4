--------------------------- MODULE MCRegistration ---------------------------
(***************************************************************************)
(* Instances of Registration for TLC.  No action names a request, so they  *)
(* are interchangeable in the safety runs.                                 *)
(***************************************************************************)
EXTENDS Registration, TLC

Symmetry == Permutations(Requests)
=============================================================================
