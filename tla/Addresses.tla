----------------------------- MODULE Addresses -----------------------------
(***************************************************************************)
(* The addresses of the L2 that contracts of more than one kind speak of.  *)
(***************************************************************************)
CONSTANTS
  Accounts,         \* externally owned accounts, the possible msg.sender
  Templates,        \* addresses at which ProcessTemplates are deployed
  ZeroAddress
=============================================================================
