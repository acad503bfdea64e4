------------------------- MODULE MCBINSTContracts -------------------------
(***************************************************************************)
(* Model of BINSTContracts.tla: two institutions, two templates and two    *)
(* instances are enough for each list to have a wrong element in it.       *)
(***************************************************************************)
EXTENDS BINSTContracts, TLC

Symmetry ==
  Permutations(Instances) \cup Permutations(Templates)
    \cup Permutations(Accounts) \cup Permutations(Institutions)
=============================================================================
