-------------------------- MODULE MCAccountLockout --------------------------
(***************************************************************************)
(* Instances of AccountLockout for TLC.  The requests are interchangeable: *)
(* no action names one, so permuting them is sound for the safety runs.    *)
(***************************************************************************)
EXTENDS AccountLockout, TLC

Symmetry == Permutations(Requests)
=============================================================================
