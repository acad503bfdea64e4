---------------------------- MODULE Institution ----------------------------
(***************************************************************************)
(* contracts/Institution.sol.  Each variable is a storage field, as a      *)
(* function of the address of the contract that holds it; a contract that  *)
(* is not deployed yet has zero storage, as in the EVM.  One action is one *)
(* successful transaction of msg.sender; a transaction that reverts leaves *)
(* everything unchanged and is not an action.                              *)
(***************************************************************************)
EXTENDS Arrays, Addresses

CONSTANTS
  Institutions,     \* addresses at which Institution contracts are deployed
  InscriptionIds,   \* non-empty inscription ids
  RuneIds,          \* non-empty rune ids
  PubKeys,          \* non-zero x-only public keys
  Unset             \* the empty string, or bytes32(0)

ASSUME AddressAssumption ==
  /\ ZeroAddress \notin Accounts \cup Institutions \cup Templates
  /\ Unset \notin InscriptionIds \cup RuneIds \cup PubKeys

VARIABLES
  admin,            \* institution -> admin
  members,          \* institution -> the members array
  isMember,         \* institution -> account -> the isMember mapping
  processes,        \* institution -> the processes array
  createdBy,        \* template -> creator topic of its ProcessCreated event
  inscriptionId, runeId, btcPubkey

membershipVars == <<admin, members, isMember>>
bindingVars    == <<inscriptionId, runeId, btcPubkey>>
processVars    == <<processes, createdBy>>
institutionVars == <<admin, members, isMember, processes, createdBy,
                     inscriptionId, runeId, btcPubkey>>

Address == Accounts \cup {ZeroAddress}

TypeOK ==
  /\ admin         \in [Institutions -> Address]
  /\ members       \in [Institutions -> Seq(Accounts)]
  /\ isMember      \in [Institutions -> [Address -> BOOLEAN]]
  /\ processes     \in [Institutions -> Seq(Templates)]
  /\ createdBy     \in [Templates -> Address]
  /\ inscriptionId \in [Institutions -> InscriptionIds \cup {Unset}]
  /\ runeId        \in [Institutions -> RuneIds \cup {Unset}]
  /\ btcPubkey     \in [Institutions -> PubKeys \cup {Unset}]

InstitutionInit ==
  /\ admin         = [i \in Institutions |-> ZeroAddress]
  /\ members       = [i \in Institutions |-> <<>>]
  /\ isMember      = [i \in Institutions |-> [a \in Address |-> FALSE]]
  /\ processes     = [i \in Institutions |-> <<>>]
  /\ createdBy     = [t \in Templates |-> ZeroAddress]
  /\ inscriptionId = [i \in Institutions |-> Unset]
  /\ runeId        = [i \in Institutions |-> Unset]
  /\ btcPubkey     = [i \in Institutions |-> Unset]

OnlyAdmin(i, sender)  == sender = admin[i]
OnlyMember(i, sender) == isMember[i][sender] \/ sender = admin[i]

-----------------------------------------------------------------------------
\* The constructor: the creator becomes administrator and first member.
Construct(i, creator) ==
  /\ admin[i] = ZeroAddress           \* CREATE always gives a fresh address
  /\ creator # ZeroAddress
  /\ admin'    = [admin EXCEPT ![i] = creator]
  /\ members'  = [members EXCEPT ![i] = Append(@, creator)]
  /\ isMember' = [isMember EXCEPT ![i][creator] = TRUE]
  /\ UNCHANGED <<processVars, bindingVars>>

\* Mutant: the zero address is let in.
AddAnyAddress(i, sender, m) ==
  /\ OnlyAdmin(i, sender)
  /\ ~isMember[i][m]
  /\ members'  = [members EXCEPT ![i] = Append(@, m)]
  /\ isMember' = [isMember EXCEPT ![i][m] = TRUE]
  /\ UNCHANGED <<admin, processVars, bindingVars>>

AddMember(i, sender, m) ==
  /\ OnlyAdmin(i, sender)
  /\ m # ZeroAddress
  /\ ~isMember[i][m]
  /\ members'  = [members EXCEPT ![i] = Append(@, m)]
  /\ isMember' = [isMember EXCEPT ![i][m] = TRUE]
  /\ UNCHANGED <<admin, processVars, bindingVars>>

\* The loop of removeMember: the last element takes the place of the first
\* occurrence of m, and the array is popped; nothing happens without one.
FirstIndex(s, m) ==
  CHOOSE k \in 1..Len(s) : s[k] = m /\ \A j \in 1..(k-1) : s[j] # m

\* Mutant: the array is popped without moving its last element.
PopWithoutSwap(s, m) ==
  IF m \in Listed(s) THEN SubSeq(s, 1, Len(s) - 1) ELSE s

SwapAndPop(s, m) ==
  IF m \in Listed(s)
  THEN SubSeq([s EXCEPT ![FirstIndex(s, m)] = s[Len(s)]], 1, Len(s) - 1)
  ELSE s

\* Mutant: the administrator may be removed.
RemoveAnyMember(i, sender, m) ==
  /\ OnlyAdmin(i, sender)
  /\ isMember[i][m]
  /\ isMember' = [isMember EXCEPT ![i][m] = FALSE]
  /\ members'  = [members EXCEPT ![i] = SwapAndPop(@, m)]
  /\ UNCHANGED <<admin, processVars, bindingVars>>

RemoveMember(i, sender, m) ==
  /\ OnlyAdmin(i, sender)
  /\ isMember[i][m]
  /\ m # admin[i]
  /\ isMember' = [isMember EXCEPT ![i][m] = FALSE]
  /\ members'  = [members EXCEPT ![i] = SwapAndPop(@, m)]
  /\ UNCHANGED <<admin, processVars, bindingVars>>

\* Mutant: the new administrator is not made a member.
TransferWithoutJoining(i, sender, newAdmin) ==
  /\ OnlyAdmin(i, sender)
  /\ newAdmin # ZeroAddress
  /\ admin' = [admin EXCEPT ![i] = newAdmin]
  /\ UNCHANGED <<members, isMember, processVars, bindingVars>>

\* The new administrator joins the members unless already one of them.
TransferAdmin(i, sender, newAdmin) ==
  /\ OnlyAdmin(i, sender)
  /\ newAdmin # ZeroAddress
  /\ members'  = [members EXCEPT
                    ![i] = IF isMember[i][newAdmin] THEN @ ELSE Append(@, newAdmin)]
  /\ isMember' = [isMember EXCEPT ![i][newAdmin] = TRUE]
  /\ admin'    = [admin EXCEPT ![i] = newAdmin]
  /\ UNCHANGED <<processVars, bindingVars>>

\* The template is deployed at the fresh address t; ProcessTemplate.tla has
\* its constructor, BINSTContracts.tla runs the two in one transaction.
CreateProcess(i, sender, t) ==
  /\ OnlyMember(i, sender)
  /\ createdBy[t] = ZeroAddress
  /\ processes' = [processes EXCEPT ![i] = Append(@, t)]
  /\ createdBy' = [createdBy EXCEPT ![t] = sender]
  /\ UNCHANGED <<membershipVars, bindingVars>>

SetInscriptionId(i, sender, id) ==
  /\ OnlyAdmin(i, sender)
  /\ inscriptionId[i] = Unset
  /\ id # Unset
  /\ inscriptionId' = [inscriptionId EXCEPT ![i] = id]
  /\ UNCHANGED <<membershipVars, processVars, runeId, btcPubkey>>

SetRuneId(i, sender, id) ==
  /\ OnlyAdmin(i, sender)
  /\ runeId[i] = Unset
  /\ id # Unset
  /\ runeId' = [runeId EXCEPT ![i] = id]
  /\ UNCHANGED <<membershipVars, processVars, inscriptionId, btcPubkey>>

\* Mutant: the key can be bound again, say by the next administrator.
RebindBtcPubkey(i, sender, key) ==
  /\ OnlyAdmin(i, sender)
  /\ key # Unset
  /\ btcPubkey' = [btcPubkey EXCEPT ![i] = key]
  /\ UNCHANGED <<membershipVars, processVars, inscriptionId, runeId>>

SetBtcPubkey(i, sender, key) ==
  /\ OnlyAdmin(i, sender)
  /\ btcPubkey[i] = Unset
  /\ key # Unset
  /\ btcPubkey' = [btcPubkey EXCEPT ![i] = key]
  /\ UNCHANGED <<membershipVars, processVars, inscriptionId, runeId>>

\* The transactions that change who may do what, and those that bind identity.
\* Any argument can be sent, the zero address and empty values included.
MembershipStep(i, sender) ==
  \E m \in Address :
    \/ AddMember(i, sender, m)
    \/ RemoveMember(i, sender, m)
    \/ TransferAdmin(i, sender, m)

BindingStep(i, sender) ==
  \/ \E id \in InscriptionIds \cup {Unset} : SetInscriptionId(i, sender, id)
  \/ \E id \in RuneIds \cup {Unset} : SetRuneId(i, sender, id)
  \/ \E key \in PubKeys \cup {Unset} : SetBtcPubkey(i, sender, key)

InstitutionNext ==
  \E i \in Institutions, sender \in Accounts :
    \/ Construct(i, sender)
    \/ MembershipStep(i, sender)
    \/ BindingStep(i, sender)
    \/ \E t \in Templates : CreateProcess(i, sender, t)

InstitutionSpec == InstitutionInit /\ [][InstitutionNext]_institutionVars

-----------------------------------------------------------------------------
\* The array and the mapping that record membership agree, whatever the order
\* in which members were added, removed and made administrator: getMembers()
\* lists exactly the accounts whose flag is set, each of them once.  The
\* contract writes the two separately in four places.
MembersMatchFlags ==
  \A i \in Institutions :
    /\ Listed(members[i]) = {a \in Address : isMember[i][a]}
    /\ Distinct(members[i])

\* A deployed institution can never lose its administrator: the account that
\* alone can call addMember, removeMember and transferAdmin is a listed member
\* after any sequence of transfers and removals.
AdminIsMember ==
  \A i \in Institutions :
    IF admin[i] = ZeroAddress
    THEN members[i] = <<>>
    ELSE isMember[i][admin[i]] /\ admin[i] \in Listed(members[i])

\* A Bitcoin binding is permanent: no transaction of this or of a later
\* administrator changes an inscription id, a rune id or a key once it is set.
IdentityIsPermanent ==
  [][\A i \in Institutions :
       /\ inscriptionId[i] # Unset => inscriptionId'[i] = inscriptionId[i]
       /\ runeId[i] # Unset => runeId'[i] = runeId[i]
       /\ btcPubkey[i] # Unset => btcPubkey'[i] = btcPubkey[i]]_institutionVars

\* The index at which a process was published is its index for ever, so that
\* readers of getProcesses() and of the array's slots may keep it.
ProcessIndexIsStable ==
  [][\A i \in Institutions : Extends(processes[i], processes'[i])]_institutionVars

\* getMembers() behaves as one set of accounts that holds the administrator and
\* every publisher of a process: the contract implements Roster.tla.
RosterView ==
  INSTANCE Roster WITH roster <- [i \in Institutions |-> Listed(members[i])]

ImplementsRoster == RosterView!Spec
=============================================================================
