------------------------ MODULE MCProviderFailover ------------------------
(***************************************************************************)
(* Instances of ProviderFailover for TLC.                                  *)
(***************************************************************************)
EXTENDS ProviderFailover, TLC

CONSTANTS r1, r2

Both == {TRUE, FALSE}
Symmetry == Permutations(Requests)
=============================================================================
