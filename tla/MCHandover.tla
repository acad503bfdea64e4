----------------------------- MODULE MCHandover -----------------------------
(***************************************************************************)
(* Model of Handover.tla: the people and vaults of MCVault.tla, of whom    *)
(* the two with vaults have an account each.                               *)
(***************************************************************************)
EXTENDS Handover, MCVault

MCAccount == [key \in {o, n} |-> key]
=============================================================================
