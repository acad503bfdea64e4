------------------------------ MODULE MCVault ------------------------------
(***************************************************************************)
(* Model of Vault.tla: two people with vaults of different delays, and one *)
(* committee of three.                                                     *)
(***************************************************************************)
EXTENDS Vault, TLC

CONSTANTS o, n, c1, c2, c3

Policy(key, delay) == [admin |-> key, committee |-> {c1, c2, c3}, csv_delay |-> delay]

MCPolicies == {Policy(o, 2), Policy(n, 1)}
MCSigners  == {{o}, {n}, {c1}, {c1, c2}}
MCFunds    == <<1600>>
=============================================================================
