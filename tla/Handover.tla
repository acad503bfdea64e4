------------------------------ MODULE Handover ------------------------------
(***************************************************************************)
(* The two sides of an institution: its inscription in a vault on Bitcoin  *)
(* (Vault.tla) and its contract on the L2 (Institution.tla).  Neither side *)
(* knows of the other.  On Bitcoin the administrator or the committee move *)
(* the inscription wherever they like; on the L2 the administrator of the  *)
(* contract binds any id and hands over to any account, at any time.  That *)
(* the two should go together is advice, printed by scripts/               *)
(* psbt-transfer.ts and written in taproot-reader/BITCOIN-IDENTITY.md.     *)
(***************************************************************************)
EXTENDS Vault, Institution

CONSTANT Account      \* administrator's key -> the L2 account of the same person

handoverVars == <<vaultVars, institutionVars>>

HandoverInit == VaultInit /\ InstitutionInit

\* The inscription the contract says it stands for has been made.
Bound(i) == Inscribed(inscriptionId[i])

\* The administrator of the vault that has the inscription of institution i.
Owner(i) == outputs[Seat(inscriptionId[i])].lock.admin

BitcoinStep == VaultNext /\ UNCHANGED institutionVars

ContractStep == InstitutionNext /\ UNCHANGED vaultVars

HandoverNext == BitcoinStep \/ ContractStep

\* The owner of the inscription calls transferAdmin, to become the administrator of
\* the contract.
Claim(i) ==
  /\ Bound(i)
  /\ TransferAdmin(i, Account[Owner(i)], Account[Owner(i)])
  /\ UNCHANGED vaultVars

\* Owners keep trying.  Nobody else need do anything, on either chain.
ClaimSpec ==
  /\ HandoverInit
  /\ [][HandoverNext]_handoverVars
  /\ \A i \in Institutions : WF_handoverVars(Claim(i))

-----------------------------------------------------------------------------
\* The administrator of the contract is the owner of the inscription.
Agree(i) == Account[Owner(i)] = admin[i]

\* The inscription has come to its owner out of the vault of the administrator of the
\* contract, with or without the administrator's signature.
HandedOver(i) ==
  /\ Bound(i)
  /\ \E j \in DOMAIN outputs :
       /\ Moved(inscriptionId[i], j, Seat(inscriptionId[i]))
       /\ Account[outputs[j].lock.admin] = admin[i]

\* "2. New admin calls transferAdmin() on the L2 contract ... 3. Both layers now agree:
\* the new admin controls the institution" (taproot-reader/BITCOIN-IDENTITY.md): after
\* the inscription has moved from the administrator's vault to another, its new owner
\* becomes the administrator of the contract by trying.
NewOwnerTakesOver ==
  \A i \in Institutions : HandedOver(i) ~> Bound(i) /\ Agree(i)
=============================================================================
