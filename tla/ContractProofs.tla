--------------------------- MODULE ContractProofs ---------------------------
(***************************************************************************)
(* Theorems about Institution.tla and ProcessInstance.tla, each contract   *)
(* on its own: for every set of institutions, accounts, templates and      *)
(* bindings, and for every number of instances and steps.  The modules     *)
(* that compose the contracts are proved from these.                       *)
(***************************************************************************)
EXTENDS Institution, ProcessInstance, SequenceTheorems, TLAPS

(***************************************************************************)
(* The members array: what Append and the swap-and-pop do to the set of    *)
(* listed accounts.                                                        *)
(***************************************************************************)

\* Appending an element that is not listed adds it to the listed ones and
\* keeps the array free of duplicates.
LEMMA AppendLists ==
  ASSUME NEW S, NEW s \in Seq(S), NEW e \in S
  PROVE  /\ Append(s, e) \in Seq(S)
         /\ Listed(Append(s, e)) = Listed(s) \cup {e}
         /\ Distinct(s) /\ e \notin Listed(s) => Distinct(Append(s, e))
BY DEF Listed, Distinct

\* On an array without duplicates the swap-and-pop of removeMember removes
\* exactly the given account.
LEMMA SwapAndPopRemoves ==
  ASSUME NEW S, NEW s \in Seq(S), Distinct(s), NEW m \in Listed(s)
  PROVE  /\ SwapAndPop(s, m) \in Seq(S)
         /\ Listed(SwapAndPop(s, m)) = Listed(s) \ {m}
         /\ Distinct(SwapAndPop(s, m))
<1> DEFINE n == Len(s)
           k == FirstIndex(s, m)
           r == SwapAndPop(s, m)
<1>1. PICK x \in 1..n : s[x] = m
  BY DEF Listed
<1>2. s[x] = m /\ \A j \in 1..(x-1) : s[j] # m
  BY <1>1 DEF Distinct
<1>3. k \in 1..n /\ s[k] = m
  BY <1>1, <1>2 DEF FirstIndex
<1>4. /\ n \in Nat /\ n >= 1
      /\ r = SubSeq([s EXCEPT ![k] = s[n]], 1, n - 1)
  BY <1>3 DEF SwapAndPop
<1> HIDE DEF k
<1>5. /\ r \in Seq(S)
      /\ Len(r) = n - 1
      /\ \A j \in 1..(n-1) : r[j] = IF j = k THEN s[n] ELSE s[j]
  <2> DEFINE u == [s EXCEPT ![k] = s[n]]
  <2>1. u \in Seq(S) /\ Len(u) = n
    BY <1>3, <1>4
  <2>2. \A j \in 1..n : u[j] = IF j = k THEN s[n] ELSE s[j]
    BY <1>3, <1>4
  <2> HIDE DEF u
  <2>3. QED
    BY <1>4, <2>1, <2>2
<1> HIDE DEF r
<1>6. Distinct(r)
  BY <1>3, <1>4, <1>5 DEF Distinct
<1>7. Listed(r) \subseteq Listed(s) \ {m}
  BY <1>3, <1>4, <1>5 DEF Listed, Distinct
<1>8. ASSUME NEW e \in Listed(s) \ {m}
      PROVE  e \in Listed(r)
  <2>1. PICK y \in 1..n : s[y] = e
    BY DEF Listed
  <2>2. CASE y = n
    BY <1>3, <1>4, <1>5, <2>1, <2>2 DEF Listed
  <2>3. CASE y # n
    BY <1>3, <1>4, <1>5, <2>1, <2>3 DEF Listed
  <2>4. QED
    BY <2>2, <2>3
<1>9. QED
  BY <1>5, <1>6, <1>7, <1>8 DEF r

-----------------------------------------------------------------------------
(***************************************************************************)
(* The inductive invariant.  MembersMatchFlags is needed for AdminIsMember *)
(* (a removal must not take the administrator out of the array), and for   *)
(* itself it needs the array of an undeployed institution to be empty,     *)
(* which AdminIsMember says.                                               *)
(***************************************************************************)
InstitutionInv == TypeOK /\ MembersMatchFlags /\ AdminIsMember

LEMMA InstitutionBegins == InstitutionInit => InstitutionInv
<1> SUFFICES ASSUME InstitutionInit
             PROVE  InstitutionInv
  OBVIOUS
<1> USE DEF InstitutionInit, Address
<1>1. TypeOK
  BY DEF TypeOK
<1>2. MembersMatchFlags
  <2> SUFFICES ASSUME NEW i \in Institutions
               PROVE  /\ Listed(members[i]) = {a \in Address : isMember[i][a]}
                      /\ Distinct(members[i])
    BY DEF MembersMatchFlags
  <2>1. members[i] = <<>> /\ \A a \in Address : ~isMember[i][a]
    OBVIOUS
  <2>2. Listed(<<>>) = {} /\ Distinct(<<>>)
    BY DEF Listed, Distinct
  <2>3. QED
    BY <2>1, <2>2
<1>3. AdminIsMember
  BY DEF AdminIsMember
<1>4. QED
  BY <1>1, <1>2, <1>3 DEF InstitutionInv

\* An undeployed institution has no flag set, so nobody can act on it.
LEMMA UndeployedHasNoMember ==
  ASSUME InstitutionInv, NEW i \in Institutions, NEW a \in Address, admin[i] = ZeroAddress
  PROVE  ~isMember[i][a]
BY DEF InstitutionInv, MembersMatchFlags, AdminIsMember, Listed

\* A step that leaves the membership alone and keeps the types keeps InstitutionInv.
LEMMA MembershipUnchanged ==
  ASSUME InstitutionInv, TypeOK', UNCHANGED membershipVars
  PROVE  InstitutionInv'
BY DEF InstitutionInv, MembersMatchFlags, AdminIsMember, membershipVars, Listed, Distinct

LEMMA ConstructKeepsInstitutionInv ==
  ASSUME InstitutionInv, NEW i \in Institutions, NEW a \in Accounts, Construct(i, a)
  PROVE  InstitutionInv'
<1> USE AddressAssumption DEF Address
<1>1. ~isMember[i][a] /\ members[i] = <<>>
  BY UndeployedHasNoMember DEF InstitutionInv, AdminIsMember, Construct
<1>2. members[i] \in Seq(Accounts)
  BY DEF InstitutionInv, TypeOK
<1>3. /\ members'[i] = Append(members[i], a)
      /\ members'[i] \in Seq(Accounts)
      /\ Listed(members'[i]) = Listed(members[i]) \cup {a}
      /\ Distinct(members'[i])
  <2>1. a \notin Listed(members[i]) /\ Distinct(members[i])
    BY <1>1 DEF InstitutionInv, MembersMatchFlags
  <2>2. members'[i] = Append(members[i], a)
    BY DEF InstitutionInv, TypeOK, Construct
  <2>3. QED
    BY <1>2, <2>1, <2>2, AppendLists
<1>4. TypeOK'
  BY <1>3 DEF InstitutionInv, TypeOK, Construct, processVars, bindingVars
<1>5. MembersMatchFlags'
  BY <1>3 DEF InstitutionInv, TypeOK, MembersMatchFlags, Construct
<1>6. AdminIsMember'
  BY <1>3 DEF InstitutionInv, TypeOK, AdminIsMember, Construct
<1>7. QED
  BY <1>4, <1>5, <1>6 DEF InstitutionInv

LEMMA AddMemberKeepsInstitutionInv ==
  ASSUME InstitutionInv, NEW i \in Institutions, NEW sender \in Accounts,
         NEW m \in Accounts, AddMember(i, sender, m)
  PROVE  InstitutionInv'
<1> USE AddressAssumption DEF Address
<1>1. /\ members'[i] = Append(members[i], m)
      /\ members'[i] \in Seq(Accounts)
      /\ Listed(members'[i]) = Listed(members[i]) \cup {m}
      /\ Distinct(members'[i])
  <2>1. m \notin Listed(members[i]) /\ Distinct(members[i])
    BY DEF InstitutionInv, MembersMatchFlags, AddMember
  <2>2. members'[i] = Append(members[i], m) /\ members[i] \in Seq(Accounts)
    BY DEF InstitutionInv, TypeOK, AddMember
  <2>3. QED
    BY <2>1, <2>2, AppendLists
<1>2. TypeOK'
  BY <1>1 DEF InstitutionInv, TypeOK, AddMember, processVars, bindingVars
<1>3. MembersMatchFlags'
  BY <1>1 DEF InstitutionInv, TypeOK, MembersMatchFlags, AddMember
<1>4. AdminIsMember'
  BY <1>1 DEF InstitutionInv, TypeOK, AdminIsMember, AddMember, OnlyAdmin
<1>5. QED
  BY <1>2, <1>3, <1>4 DEF InstitutionInv

LEMMA RemoveMemberKeepsInstitutionInv ==
  ASSUME InstitutionInv, NEW i \in Institutions, NEW sender \in Accounts,
         NEW m \in Accounts, RemoveMember(i, sender, m)
  PROVE  InstitutionInv'
<1> USE AddressAssumption DEF Address
<1>1. /\ members'[i] = SwapAndPop(members[i], m)
      /\ members'[i] \in Seq(Accounts)
      /\ Listed(members'[i]) = Listed(members[i]) \ {m}
      /\ Distinct(members'[i])
  <2>1. m \in Listed(members[i]) /\ Distinct(members[i])
    BY DEF InstitutionInv, MembersMatchFlags, RemoveMember
  <2>2. members'[i] = SwapAndPop(members[i], m) /\ members[i] \in Seq(Accounts)
    BY DEF InstitutionInv, TypeOK, RemoveMember
  <2>3. QED
    BY <2>1, <2>2, SwapAndPopRemoves
<1>2. TypeOK'
  BY <1>1 DEF InstitutionInv, TypeOK, RemoveMember, processVars, bindingVars
<1>3. MembersMatchFlags'
  BY <1>1 DEF InstitutionInv, TypeOK, MembersMatchFlags, RemoveMember
<1>4. AdminIsMember'
  <2>1. admin[i] # ZeroAddress
    BY DEF InstitutionInv, TypeOK, RemoveMember, OnlyAdmin
  <2>2. QED
    BY <1>1, <2>1 DEF InstitutionInv, TypeOK, AdminIsMember, RemoveMember
<1>5. QED
  BY <1>2, <1>3, <1>4 DEF InstitutionInv

LEMMA TransferAdminKeepsInstitutionInv ==
  ASSUME InstitutionInv, NEW i \in Institutions, NEW sender \in Accounts,
         NEW a \in Accounts, TransferAdmin(i, sender, a)
  PROVE  InstitutionInv'
<1> USE AddressAssumption DEF Address
<1>1. /\ members'[i] \in Seq(Accounts)
      /\ Listed(members'[i]) = Listed(members[i]) \cup {a}
      /\ Distinct(members'[i])
  <2>1. members[i] \in Seq(Accounts) /\ Distinct(members[i])
    BY DEF InstitutionInv, TypeOK, MembersMatchFlags
  <2>2. CASE isMember[i][a]
    <3>1. members'[i] = members[i] /\ a \in Listed(members[i])
      BY <2>2 DEF InstitutionInv, TypeOK, MembersMatchFlags, TransferAdmin
    <3>2. QED
      BY <2>1, <3>1
  <2>3. CASE ~isMember[i][a]
    <3>1. members'[i] = Append(members[i], a) /\ a \notin Listed(members[i])
      BY <2>3 DEF InstitutionInv, TypeOK, MembersMatchFlags, TransferAdmin
    <3>2. QED
      BY <2>1, <3>1, AppendLists
  <2>4. QED
    BY <2>2, <2>3
<1>2. TypeOK'
  BY <1>1 DEF InstitutionInv, TypeOK, TransferAdmin, processVars, bindingVars
<1>3. MembersMatchFlags'
  BY <1>1 DEF InstitutionInv, TypeOK, MembersMatchFlags, TransferAdmin
<1>4. AdminIsMember'
  BY <1>1 DEF InstitutionInv, TypeOK, AdminIsMember, TransferAdmin
<1>5. QED
  BY <1>2, <1>3, <1>4 DEF InstitutionInv

LEMMA CreateProcessKeepsInstitutionInv ==
  ASSUME InstitutionInv, NEW i \in Institutions, NEW sender \in Accounts,
         NEW t \in Templates, CreateProcess(i, sender, t)
  PROVE  InstitutionInv'
<1>1. TypeOK'
  <2>1. processes'[i] = Append(processes[i], t) /\ processes'[i] \in Seq(Templates)
    BY DEF InstitutionInv, TypeOK, CreateProcess
  <2>2. QED
    BY <2>1 DEF InstitutionInv, TypeOK, Address, CreateProcess, membershipVars, bindingVars
<1>2. QED
  BY <1>1, MembershipUnchanged DEF CreateProcess

LEMMA BindingStepKeepsInstitutionInv ==
  ASSUME InstitutionInv, NEW i \in Institutions, NEW sender \in Accounts, BindingStep(i, sender)
  PROVE  InstitutionInv'
<1>1. TypeOK' /\ UNCHANGED membershipVars
  BY DEF InstitutionInv, TypeOK, BindingStep, SetInscriptionId, SetRuneId, SetBtcPubkey,
         membershipVars, processVars
<1>2. QED
  BY <1>1, MembershipUnchanged

\* The zero address is nobody: a membership transaction that succeeds names an
\* account.
LEMMA MembershipStepNamesAccount ==
  ASSUME InstitutionInv, NEW i \in Institutions, NEW sender \in Accounts, MembershipStep(i, sender)
  PROVE  \E m \in Accounts :
           AddMember(i, sender, m) \/ RemoveMember(i, sender, m) \/ TransferAdmin(i, sender, m)
<1>1. PICK m \in Address :
        AddMember(i, sender, m) \/ RemoveMember(i, sender, m) \/ TransferAdmin(i, sender, m)
  BY DEF MembershipStep
<1>2. ~isMember[i][ZeroAddress]
  BY AddressAssumption DEF InstitutionInv, TypeOK, MembersMatchFlags, Address, Listed
<1>3. m \in Accounts
  BY <1>1, <1>2 DEF Address, AddMember, RemoveMember, TransferAdmin
<1>4. QED
  BY <1>1, <1>3

LEMMA InstitutionNextKeepsInv ==
  InstitutionInv /\ [InstitutionNext]_institutionVars => InstitutionInv'
<1> SUFFICES ASSUME InstitutionInv, [InstitutionNext]_institutionVars
             PROVE  InstitutionInv'
  OBVIOUS
<1>1. CASE UNCHANGED institutionVars
  <2>1. TypeOK' /\ UNCHANGED membershipVars
    BY <1>1 DEF InstitutionInv, TypeOK, institutionVars, membershipVars
  <2>2. QED
    BY <2>1, MembershipUnchanged
<1>2. CASE InstitutionNext
  <2>1. PICK i \in Institutions, sender \in Accounts :
          \/ Construct(i, sender)
          \/ MembershipStep(i, sender)
          \/ BindingStep(i, sender)
          \/ \E t \in Templates : CreateProcess(i, sender, t)
    BY <1>2 DEF InstitutionNext
  <2>2. CASE Construct(i, sender)
    BY <2>2, ConstructKeepsInstitutionInv
  <2>3. CASE MembershipStep(i, sender)
    BY <2>3, MembershipStepNamesAccount,
       AddMemberKeepsInstitutionInv, RemoveMemberKeepsInstitutionInv,
       TransferAdminKeepsInstitutionInv
  <2>4. CASE BindingStep(i, sender)
    BY <2>4, BindingStepKeepsInstitutionInv
  <2>5. CASE \E t \in Templates : CreateProcess(i, sender, t)
    BY <2>5, CreateProcessKeepsInstitutionInv
  <2>6. QED
    BY <2>1, <2>2, <2>3, <2>4, <2>5
<1>3. QED
  BY <1>1, <1>2

\* The inductive invariant holds in every reachable state.
THEOREM InstitutionInductive == InstitutionSpec => []InstitutionInv
BY InstitutionBegins, InstitutionNextKeepsInv, PTL DEF InstitutionSpec

\* Every storage field always holds a value of its type.
THEOREM InstitutionTypeCorrect == InstitutionSpec => []TypeOK
<1>1. InstitutionInv => TypeOK
  BY DEF InstitutionInv
<1>2. QED
  BY <1>1, InstitutionInductive, PTL

\* For any number of accounts and any history of additions, removals and
\* transfers, getMembers() and the isMember mapping agree.
THEOREM MembersAlwaysMatchFlags == InstitutionSpec => []MembersMatchFlags
<1>1. InstitutionInv => MembersMatchFlags
  BY DEF InstitutionInv
<1>2. QED
  BY <1>1, InstitutionInductive, PTL

\* A deployed institution always has an administrator, listed as a member.
THEOREM AdminIsAlwaysMember == InstitutionSpec => []AdminIsMember
<1>1. InstitutionInv => AdminIsMember
  BY DEF InstitutionInv
<1>2. QED
  BY <1>1, InstitutionInductive, PTL

-----------------------------------------------------------------------------
(***************************************************************************)
(* What a step may never do.                                               *)
(***************************************************************************)

\* No step changes a binding once it is set, whoever is administrator by then.
THEOREM IdentityNeverChanges == InstitutionSpec => IdentityIsPermanent
<1> DEFINE Keeps ==
      \A i \in Institutions :
        /\ inscriptionId[i] # Unset => inscriptionId'[i] = inscriptionId[i]
        /\ runeId[i] # Unset => runeId'[i] = runeId[i]
        /\ btcPubkey[i] # Unset => btcPubkey'[i] = btcPubkey[i]
<1>1. ASSUME InstitutionInv, InstitutionNext
      PROVE  Keeps
  <2>1. PICK i \in Institutions, sender \in Accounts :
          \/ Construct(i, sender)
          \/ MembershipStep(i, sender)
          \/ BindingStep(i, sender)
          \/ \E t \in Templates : CreateProcess(i, sender, t)
    BY <1>1 DEF InstitutionNext
  <2>2. CASE BindingStep(i, sender)
    BY <1>1, <2>2 DEF InstitutionInv, TypeOK, BindingStep, SetInscriptionId, SetRuneId, SetBtcPubkey
  <2>3. CASE Construct(i, sender)
    BY <2>3 DEF Construct, bindingVars
  <2>4. CASE MembershipStep(i, sender)
    BY <2>4 DEF MembershipStep, AddMember, RemoveMember, TransferAdmin, bindingVars
  <2>5. CASE \E t \in Templates : CreateProcess(i, sender, t)
    BY <2>5 DEF CreateProcess, bindingVars
  <2>6. QED
    BY <2>1, <2>2, <2>3, <2>4, <2>5
<1>2. InstitutionInv /\ [InstitutionNext]_institutionVars => [Keeps]_institutionVars
  BY <1>1
<1>3. QED
  BY <1>2, InstitutionInductive, PTL DEF InstitutionSpec, IdentityIsPermanent

\* A process keeps the index at which it was published.
THEOREM ProcessesKeepTheirIndex == InstitutionSpec => ProcessIndexIsStable
<1> DEFINE Keeps == \A i \in Institutions : Extends(processes[i], processes'[i])
<1>1. ASSUME InstitutionInv, UNCHANGED processVars
      PROVE  Keeps
  BY <1>1 DEF InstitutionInv, TypeOK, processVars, Extends
<1>2. ASSUME InstitutionInv, NEW i \in Institutions, NEW sender \in Accounts, NEW t \in Templates,
             CreateProcess(i, sender, t)
      PROVE  Keeps
  <2>1. processes' = [processes EXCEPT ![i] = Append(@, t)]
    BY <1>2 DEF CreateProcess
  <2>2. processes \in [Institutions -> Seq(Templates)]
    BY <1>2 DEF InstitutionInv, TypeOK
  <2>3. QED
    BY <2>1, <2>2 DEF Extends
<1>3. ASSUME InstitutionInv, InstitutionNext
      PROVE  Keeps
  <2>1. PICK i \in Institutions, sender \in Accounts :
          \/ Construct(i, sender)
          \/ MembershipStep(i, sender)
          \/ BindingStep(i, sender)
          \/ \E t \in Templates : CreateProcess(i, sender, t)
    BY <1>3 DEF InstitutionNext
  <2>2. CASE Construct(i, sender)
    BY <1>1, <1>3, <2>2 DEF Construct
  <2>3. CASE MembershipStep(i, sender)
    BY <1>1, <1>3, <2>3 DEF MembershipStep, AddMember, RemoveMember, TransferAdmin
  <2>4. CASE BindingStep(i, sender)
    BY <1>1, <1>3, <2>4 DEF BindingStep, SetInscriptionId, SetRuneId, SetBtcPubkey
  <2>5. CASE \E t \in Templates : CreateProcess(i, sender, t)
    BY <1>2, <1>3, <2>5
  <2>6. QED
    BY <2>1, <2>2, <2>3, <2>4, <2>5
<1>4. InstitutionInv /\ [InstitutionNext]_institutionVars => [Keeps]_institutionVars
  BY <1>3
<1>5. QED
  BY <1>4, InstitutionInductive, PTL DEF InstitutionSpec, ProcessIndexIsStable

-----------------------------------------------------------------------------
(***************************************************************************)
(* The contract implements Roster.tla: the listed members are the roster.  *)
(***************************************************************************)
LEMMA InitMapsToRosterInit == InstitutionInit => RosterView!Init
<1>1. Listed(<<>>) = {}
  BY DEF Listed
<1>2. QED
  BY <1>1 DEF InstitutionInit, RosterView!Init

LEMMA StepMapsToRosterStep ==
  InstitutionInv /\ InstitutionInv' /\ [InstitutionNext]_institutionVars
    => [RosterView!Next]_RosterView!rosterVars
<1> SUFFICES ASSUME InstitutionInv, InstitutionInv', [InstitutionNext]_institutionVars
             PROVE  [RosterView!Next]_RosterView!rosterVars
  OBVIOUS
<1> DEFINE roster == [i \in Institutions |-> Listed(members[i])]
<1> USE AddressAssumption
<1>1. CASE UNCHANGED institutionVars
  BY <1>1 DEF institutionVars, RosterView!rosterVars
<1>2. CASE InstitutionNext
  <2>1. PICK i \in Institutions, sender \in Accounts :
          \/ Construct(i, sender)
          \/ MembershipStep(i, sender)
          \/ BindingStep(i, sender)
          \/ \E t \in Templates : CreateProcess(i, sender, t)
    BY <1>2 DEF InstitutionNext
  <2>2. members \in [Institutions -> Seq(Accounts)]
    BY DEF InstitutionInv, TypeOK
  <2>3. CASE Construct(i, sender)
    <3>1. members[i] = <<>> /\ admin[i] = ZeroAddress
      BY <2>3 DEF InstitutionInv, AdminIsMember, Construct
    <3>2. members' = [members EXCEPT ![i] = Append(@, sender)]
      BY <2>3 DEF Construct
    <3>3. Listed(Append(members[i], sender)) = {sender}
      <4>1. Listed(members[i]) = {}
        BY <3>1 DEF Listed
      <4>2. QED
        BY <2>2, <4>1, AppendLists
    <3>4. roster' = [roster EXCEPT ![i] = {sender}]
      BY <2>2, <3>2, <3>3
    <3>5. RosterView!Found(i, sender)
      BY <2>3, <3>1, <3>4 DEF Construct, processVars, RosterView!Found
    <3>6. QED
      BY <3>5 DEF RosterView!Next
  <2>4. ASSUME NEW m \in Accounts, AddMember(i, sender, m)
        PROVE  RosterView!Next
    <3>1. m \notin Listed(members[i])
      BY <2>4 DEF InstitutionInv, MembersMatchFlags, AddMember
    <3>2. roster' = [roster EXCEPT ![i] = @ \cup {m}]
      BY <2>2, <2>4, AppendLists DEF AddMember
    <3>3. RosterView!Admit(i, m)
      BY <2>4, <3>1, <3>2 DEF AddMember, OnlyAdmin, processVars, RosterView!Admit
    <3>4. QED
      BY <3>3 DEF RosterView!Next
  <2>5. ASSUME NEW m \in Accounts, RemoveMember(i, sender, m)
        PROVE  RosterView!Next
    <3>1. m \in Listed(members[i]) /\ Distinct(members[i])
      BY <2>5 DEF InstitutionInv, MembersMatchFlags, RemoveMember, Address
    <3>2. roster' = [roster EXCEPT ![i] = @ \ {m}]
      BY <2>2, <2>5, <3>1, SwapAndPopRemoves DEF RemoveMember
    <3>3. RosterView!Expel(i, m)
      BY <2>5, <3>1, <3>2 DEF RemoveMember, processVars, RosterView!Expel
    <3>4. QED
      BY <3>3 DEF RosterView!Next
  <2>6. ASSUME NEW m \in Accounts, TransferAdmin(i, sender, m)
        PROVE  RosterView!Next
    <3>1. isMember[i][m] <=> m \in Listed(members[i])
      BY DEF InstitutionInv, MembersMatchFlags, Address
    <3>2. roster' = [roster EXCEPT ![i] = @ \cup {m}]
      <4>1. CASE isMember[i][m]
        BY <2>2, <2>6, <3>1, <4>1 DEF TransferAdmin
      <4>2. CASE ~isMember[i][m]
        BY <2>2, <2>6, <4>2, AppendLists DEF TransferAdmin
      <4>3. QED
        BY <4>1, <4>2
    <3>3. RosterView!HandOver(i, m)
      BY <2>6, <3>2 DEF TransferAdmin, OnlyAdmin, processVars, RosterView!HandOver
    <3>4. QED
      BY <3>3 DEF RosterView!Next
  <2>7. ASSUME NEW t \in Templates, CreateProcess(i, sender, t)
        PROVE  RosterView!Next
    <3>1. sender \in Listed(members[i])
      BY <2>7 DEF InstitutionInv, TypeOK, MembersMatchFlags, AdminIsMember, CreateProcess,
                  OnlyMember, Address
    <3>2. RosterView!Publish(i, sender, t)
      BY <2>7, <3>1 DEF CreateProcess, membershipVars, RosterView!Publish
    <3>3. QED
      BY <3>2 DEF RosterView!Next
  <2>8. CASE BindingStep(i, sender)
    BY <2>8 DEF BindingStep, SetInscriptionId, SetRuneId, SetBtcPubkey,
                membershipVars, processVars, RosterView!rosterVars
  <2>9. QED
    BY <2>1, <2>3, <2>4, <2>5, <2>6, <2>7, <2>8, MembershipStepNamesAccount
<1>3. QED
  BY <1>1, <1>2

\* Read through getMembers(), every behaviour of the contract is a behaviour
\* of the abstract roster.
THEOREM InstitutionImplementsRoster == InstitutionSpec => ImplementsRoster
BY InitMapsToRosterInit, StepMapsToRosterStep, InstitutionInductive, PTL
   DEF InstitutionSpec, ImplementsRoster, RosterView!Spec

-----------------------------------------------------------------------------
(***************************************************************************)
(* ProcessInstance.tla.                                                    *)
(***************************************************************************)

(***************************************************************************)
(* The inductive invariant.  The three invariants the runs check do not    *)
(* say that an undeployed instance has zero storage, nor that a deployed   *)
(* one has a step, which NewInstance needs: it writes four fields and      *)
(* relies on the others being zero.                                        *)
(***************************************************************************)
FreshIsZero ==
  \A p \in Instances :
    IF Deployed(p)
    THEN totalSteps[p] > 0
    ELSE totalSteps[p] = 0 /\ stepStates[p] = [k \in Index |-> Blank]

CreatedInThePast == \A p \in Instances : createdAt[p] <= now

InstanceInv ==
  /\ InstanceTypeOK
  /\ FreshIsZero
  /\ CreatedInThePast
  /\ ProgressMatchesRecords
  /\ TimesFollowSteps

LEMMA BlankIsState == Blank \in StepState
BY InstanceAssumption DEF Blank, StepState, StepStatus

LEMMA InstanceBegins == InstanceInit => InstanceInv
<1> SUFFICES ASSUME InstanceInit
             PROVE  InstanceInv
  OBVIOUS
<1> USE InstanceAssumption DEF InstanceInit, Index, Deployed
<1>1. InstanceTypeOK
  BY BlankIsState DEF InstanceTypeOK
<1>2. FreshIsZero
  BY DEF FreshIsZero
<1>3. CreatedInThePast
  <2>1. \A p \in Instances : createdAt[p] = 0 /\ now = 0
    OBVIOUS
  <2>2. 0 <= 0
    OBVIOUS
  <2> HIDE DEF InstanceInit
  <2>3. QED
    BY <2>1, <2>2 DEF CreatedInThePast
<1>4. ProgressMatchesRecords
  <2>1. \A p \in Instances, k \in Index :
          stepStates[p][k] = Blank /\ stepStates[p][k].status = "Pending"
    BY DEF Blank
  <2>2. \A p \in Instances : /\ currentStepIndex[p] = 0 /\ totalSteps[p] = 0
                             /\ completed[p] = FALSE /\ ~Deployed(p)
    OBVIOUS
  <2>3. 0 <= 0 /\ \A k \in Index : ~(k < 0)
    OBVIOUS
  <2> HIDE DEF InstanceInit, Deployed, Index
  <2>4. QED
    BY <2>1, <2>2, <2>3 DEF ProgressMatchesRecords
<1>5. TimesFollowSteps
  BY DEF TimesFollowSteps, Blank
<1>6. QED
  BY <1>1, <1>2, <1>3, <1>4, <1>5 DEF InstanceInv

LEMMA NewInstanceKeepsInstanceInv ==
  ASSUME InstanceInv, NEW p \in Instances, NEW t \in Templates, NEW sender \in Accounts,
         NEW n \in 1..MaxSteps, NewInstance(p, t, sender, n)
  PROVE  InstanceInv'
<1> USE InstanceAssumption DEF Index, Deployed, NewInstance
<1>1. InstanceTypeOK'
  BY DEF InstanceInv, InstanceTypeOK
<1>2. FreshIsZero'
  BY DEF InstanceInv, InstanceTypeOK, FreshIsZero
<1>3. currentStepIndex[p] = 0 /\ stepStates[p] = [k \in Index |-> Blank]
  BY DEF InstanceInv, InstanceTypeOK, FreshIsZero, ProgressMatchesRecords
<1>4. ProgressMatchesRecords'
  BY <1>3 DEF InstanceInv, InstanceTypeOK, ProgressMatchesRecords, Blank
<1>5. TimesFollowSteps'
  BY <1>3 DEF InstanceInv, InstanceTypeOK, TimesFollowSteps, Blank
<1>6. CreatedInThePast'
  BY DEF InstanceInv, InstanceTypeOK, CreatedInThePast
<1>7. QED
  BY <1>1, <1>2, <1>4, <1>5, <1>6 DEF InstanceInv

(***************************************************************************)
(* The two handlers do the same to the records: they write the current     *)
(* step, and the ones that complete it go on to the next.                  *)
(***************************************************************************)
\* Step k of an instance is recorded as status, by sender, now.
Recorded(p, sender, status) ==
  /\ status \in {"Completed", "Rejected"}
  /\ Deployed(p) /\ ~completed[p]
  /\ Record(p, sender, status)
  /\ IF status = "Completed" THEN Advance(p) ELSE UNCHANGED <<currentStepIndex, completed>>
  /\ UNCHANGED <<originVars, now>>

LEMMA StepRecords ==
  ASSUME NEW p \in Instances, NEW sender \in Accounts, InstanceStep(p, sender)
  PROVE  \E status \in StepStatus : Recorded(p, sender, status)
<1>1. CASE \E status \in StepStatus : ExecuteStep(p, sender, status)
  BY <1>1 DEF ExecuteStep, Recorded, StepStatus
<1>2. CASE \E value \in 0..MaxValue : ExecuteStepWithPayment(p, sender, value)
  BY <1>2 DEF ExecuteStepWithPayment, Recorded, StepStatus
<1>3. QED
  BY <1>1, <1>2 DEF InstanceStep

LEMMA StepKeepsBalanceType ==
  ASSUME InstanceTypeOK, NEW p \in Instances, NEW sender \in Accounts,
         InstanceStep(p, sender)
  PROVE  balance' \in [Instances -> Nat]
BY InstanceAssumption DEF InstanceTypeOK, InstanceStep, ExecuteStep, ExecuteStepWithPayment

\* An executed step is one of the instance's, and it was not completed before.
LEMMA CurrentStepIsOpen ==
  ASSUME InstanceInv, NEW p \in Instances, Deployed(p), ~completed[p]
  PROVE  /\ currentStepIndex[p] \in 0..(totalSteps[p] - 1)
         /\ currentStepIndex[p] \in Index
         /\ stepStates[p][currentStepIndex[p]].status # "Completed"
BY InstanceAssumption DEF InstanceInv, InstanceTypeOK, ProgressMatchesRecords, Index

LEMMA RecordedKeepsInstanceInv ==
  ASSUME InstanceInv, NEW p \in Instances, NEW sender \in Accounts, NEW status \in StepStatus,
         Recorded(p, sender, status), balance' \in [Instances -> Nat]
  PROVE  InstanceInv'
<1> DEFINE c == currentStepIndex[p]
           e == [status |-> status, actor |-> sender, timestamp |-> now]
<1> USE InstanceAssumption DEF Index, Deployed, Recorded, originVars
<1>1. c \in 0..(totalSteps[p] - 1) /\ c \in Index
  BY CurrentStepIsOpen
<1>2. e \in StepState
  BY DEF InstanceInv, InstanceTypeOK, StepState
<1>3. /\ stepStates' = [stepStates EXCEPT ![p][c] = e]
      /\ stepStates \in [Instances -> [Index -> StepState]]
  BY DEF InstanceInv, InstanceTypeOK, Record
<1>4. stepStates' \in [Instances -> [Index -> StepState]]
  BY <1>1, <1>2, <1>3
<1>5. \A q \in Instances, k \in Index :
        stepStates'[q][k] = IF q = p /\ k = c THEN e ELSE stepStates[q][k]
  BY <1>1, <1>3
<1>6. /\ currentStepIndex' \in [Instances -> Index]
      /\ completed' \in [Instances -> BOOLEAN]
      /\ \A q \in Instances \ {p} : /\ currentStepIndex'[q] = currentStepIndex[q]
                                    /\ completed'[q] = completed[q]
      /\ currentStepIndex'[p] = IF status = "Completed" THEN c + 1 ELSE c
      /\ completed'[p] <=> status = "Completed" /\ c + 1 >= totalSteps[p]
  <2>1. /\ c + 1 \in Index /\ ~completed[p]
        /\ currentStepIndex \in [Instances -> Index]
        /\ completed \in [Instances -> BOOLEAN]
    BY <1>1 DEF InstanceInv, InstanceTypeOK
  <2>2. CASE status = "Completed"
    <3>1. Advance(p)
      BY <2>2
    <3>2. /\ currentStepIndex' = [currentStepIndex EXCEPT ![p] = c + 1]
          /\ completed' = [completed EXCEPT ![p] = completed[p] \/ c + 1 >= totalSteps[p]]
      BY <3>1 DEF Advance
    <3> HIDE DEF Index, Recorded, Deployed
    <3>3. QED
      BY <2>1, <2>2, <3>2
  <2>3. CASE status # "Completed"
    BY <2>1, <2>3
  <2>4. QED
    BY <2>2, <2>3
<1>7. InstanceTypeOK'
  BY <1>4, <1>6 DEF InstanceInv, InstanceTypeOK
<1>8. FreshIsZero'
  BY <1>3 DEF InstanceInv, InstanceTypeOK, FreshIsZero
<1>9. ProgressMatchesRecords'
  <2> SUFFICES ASSUME NEW q \in Instances
               PROVE  /\ currentStepIndex'[q] <= totalSteps'[q]
                      /\ completed'[q] <=>
                           Deployed(q)' /\ currentStepIndex'[q] = totalSteps'[q]
                      /\ \A k \in Index :
                         /\ k < currentStepIndex'[q] => stepStates'[q][k].status = "Completed"
                         /\ k = currentStepIndex'[q] /\ k < totalSteps'[q]
                              => stepStates'[q][k].status # "Completed"
                         /\ k > currentStepIndex'[q] \/ k >= totalSteps'[q]
                              => stepStates'[q][k] = Blank
    BY DEF ProgressMatchesRecords
  <2>1. CASE q # p
    BY <1>5, <1>6, <2>1 DEF InstanceInv, ProgressMatchesRecords
  <2>2. CASE q = p
    <3>1. /\ totalSteps'[p] = totalSteps[p] /\ totalSteps[p] \in Nat /\ c \in Nat
          /\ Deployed(p)'
      BY DEF InstanceInv, InstanceTypeOK
    <3>2. \A k \in Index : /\ k < c => stepStates[p][k].status = "Completed"
                           /\ k > c \/ k >= totalSteps[p] => stepStates[p][k] = Blank
      BY DEF InstanceInv, ProgressMatchesRecords
    <3>3. Blank.status = "Pending" /\ e.status = status
      BY DEF Blank
    <3>4. status \in {"Completed", "Rejected"}
      OBVIOUS
    <3> HIDE DEF c, e, Recorded, Deployed
    <3>5. QED
      BY <1>1, <1>5, <1>6, <2>2, <3>1, <3>2, <3>3, <3>4
  <2>3. QED
    BY <2>1, <2>2
<1>10. TimesFollowSteps'
  <2> SUFFICES ASSUME NEW q \in Instances, NEW k \in Index,
                      stepStates'[q][k].status # "Pending"
               PROVE  /\ createdAt[q] <= stepStates'[q][k].timestamp
                      /\ stepStates'[q][k].timestamp <= now
                      /\ \A j \in 0..(k-1) :
                           stepStates'[q][j].timestamp <= stepStates'[q][k].timestamp
    BY DEF TimesFollowSteps
  <2>1. CASE q # p
    BY <1>5, <2>1 DEF InstanceInv, TimesFollowSteps
  <2>2. CASE q = p /\ k = c
    <3>1. \A j \in 0..(c-1) : stepStates[p][j].timestamp <= now
      <4> SUFFICES ASSUME NEW j \in 0..(c-1)
                   PROVE  stepStates[p][j].timestamp <= now
        OBVIOUS
      <4>1. j \in Index /\ j < c
        BY <1>1 DEF InstanceInv, InstanceTypeOK
      <4>2. stepStates[p][j].status = "Completed"
        BY <4>1 DEF InstanceInv, ProgressMatchesRecords
      <4>3. QED
        BY <4>1, <4>2 DEF InstanceInv, TimesFollowSteps
    <3>2. createdAt[p] <= now
      BY DEF InstanceInv, CreatedInThePast
    <3>3. e.timestamp = now /\ now <= now
      BY DEF InstanceInv, InstanceTypeOK
    <3>4. \A j \in 0..(c-1) : j \in Index /\ j # c
      BY <1>1 DEF InstanceInv, InstanceTypeOK
    <3> HIDE DEF c, e, Recorded
    <3>5. QED
      BY <1>1, <1>5, <2>2, <3>1, <3>2, <3>3, <3>4
  <2>3. CASE q = p /\ k # c
    <3>1. k < c \/ k > c
      BY <1>1, <2>3 DEF InstanceInv, InstanceTypeOK
    <3>2. stepStates[p][k].status # "Pending" /\ stepStates'[p][k] = stepStates[p][k]
      BY <1>5, <2>3
    <3>3. ~(k > c)
      BY <3>2 DEF InstanceInv, ProgressMatchesRecords, Blank
    <3>4. \A j \in 0..(k-1) : j \in Index /\ stepStates'[p][j] = stepStates[p][j]
      <4>1. \A j \in 0..(k-1) : j \in Index /\ j # c
        BY <1>1, <3>1, <3>3 DEF InstanceInv, InstanceTypeOK
      <4> HIDE DEF c, e, Recorded, Index
      <4>2. QED
        BY <1>5, <4>1
    <3>5. createdAt'[p] = createdAt[p] /\ now' = now
      OBVIOUS
    <3> HIDE DEF c, e, Recorded
    <3>6. QED
      BY <2>3, <3>2, <3>4, <3>5 DEF InstanceInv, TimesFollowSteps
  <2>4. QED
    BY <2>1, <2>2, <2>3
<1>11. CreatedInThePast'
  BY DEF InstanceInv, CreatedInThePast
<1>12. QED
  BY <1>7, <1>8, <1>9, <1>10, <1>11 DEF InstanceInv

LEMMA InstanceNextKeepsInv ==
  InstanceInv /\ [InstanceNext]_instanceVars => InstanceInv'
<1> SUFFICES ASSUME InstanceInv, [InstanceNext]_instanceVars
             PROVE  InstanceInv'
  OBVIOUS
<1>1. CASE UNCHANGED instanceVars
  BY <1>1 DEF instanceVars, InstanceInv, InstanceTypeOK, FreshIsZero, CreatedInThePast,
              ProgressMatchesRecords, TimesFollowSteps, Deployed
<1>2. CASE Tick
  <2>1. InstanceTypeOK'
    BY <1>2, InstanceAssumption DEF Tick, originVars, InstanceInv, InstanceTypeOK
  <2>2. FreshIsZero' /\ ProgressMatchesRecords'
    BY <1>2 DEF Tick, originVars, InstanceInv, FreshIsZero, ProgressMatchesRecords, Deployed
  <2>3. CreatedInThePast'
    BY <1>2 DEF Tick, originVars, InstanceInv, InstanceTypeOK, CreatedInThePast
  <2>4. TimesFollowSteps'
    <3>1. /\ stepStates' = stepStates /\ createdAt' = createdAt
          /\ now' = now + 1 /\ now \in Nat
      BY <1>2, InstanceAssumption DEF Tick, originVars, InstanceInv, InstanceTypeOK
    <3>2. \A p \in Instances, k \in Index : stepStates[p][k].timestamp \in Nat
      BY InstanceAssumption DEF InstanceInv, InstanceTypeOK, StepState
    <3>3. QED
      BY <3>1, <3>2 DEF InstanceInv, TimesFollowSteps
  <2>5. QED
    BY <2>1, <2>2, <2>3, <2>4 DEF InstanceInv
<1>3. CASE \E p \in Instances, sender \in Accounts :
             \E t \in Templates, n \in 1..MaxSteps : NewInstance(p, t, sender, n)
  BY <1>3, NewInstanceKeepsInstanceInv
<1>4. ASSUME NEW p \in Instances, NEW sender \in Accounts, InstanceStep(p, sender)
      PROVE  InstanceInv'
  <2>1. PICK status \in StepStatus : Recorded(p, sender, status)
    BY <1>4, StepRecords
  <2>2. balance' \in [Instances -> Nat]
    BY <1>4, StepKeepsBalanceType DEF InstanceInv
  <2>3. QED
    BY <2>1, <2>2, RecordedKeepsInstanceInv
<1>5. QED
  BY <1>1, <1>2, <1>3, <1>4 DEF InstanceNext

\* The inductive invariant holds in every reachable state.
THEOREM InstanceInductive == InstanceSpec => []InstanceInv
BY InstanceBegins, InstanceNextKeepsInv, PTL DEF InstanceSpec

\* Every storage field always holds a value of its type; with it, no handler
\* ever writes a step record outside of the steps of the longest template.
THEOREM InstanceTypeCorrect == InstanceSpec => []InstanceTypeOK
<1>1. InstanceInv => InstanceTypeOK
  BY DEF InstanceInv
<1>2. QED
  BY <1>1, InstanceInductive, PTL

\* The progress counter, the completed flag and the step records agree in every
\* mixture of executed, rejected, retried and paid steps.
THEOREM ProgressAlwaysMatchesRecords == InstanceSpec => []ProgressMatchesRecords
<1>1. InstanceInv => ProgressMatchesRecords
  BY DEF InstanceInv
<1>2. QED
  BY <1>1, InstanceInductive, PTL

\* The times of the records are always in the order of the steps.
THEOREM TimesAlwaysFollowSteps == InstanceSpec => []TimesFollowSteps
<1>1. InstanceInv => TimesFollowSteps
  BY DEF InstanceInv
<1>2. QED
  BY <1>1, InstanceInductive, PTL

-----------------------------------------------------------------------------
(***************************************************************************)
(* What a step may never do.                                               *)
(***************************************************************************)

\* What a transaction on an instance does to the records: only the current one
\* changes, and that one was not completed.
LEMMA RecordedWritesOneStep ==
  ASSUME InstanceInv, NEW p \in Instances, NEW sender \in Accounts, NEW status \in StepStatus,
         Recorded(p, sender, status), NEW q \in Instances, NEW k \in Index
  PROVE  /\ stepStates'[q][k] =
               IF q = p /\ k = currentStepIndex[p]
               THEN [status |-> status, actor |-> sender, timestamp |-> now]
               ELSE stepStates[q][k]
         /\ stepStates[p][currentStepIndex[p]].status # "Completed"
<1>1. currentStepIndex[p] \in Index /\ stepStates[p][currentStepIndex[p]].status # "Completed"
  BY CurrentStepIsOpen DEF Recorded
<1>2. stepStates \in [Instances -> [Index -> StepState]]
  BY DEF InstanceInv, InstanceTypeOK
<1>3. stepStates' = [stepStates EXCEPT ![p][currentStepIndex[p]] =
                       [status |-> status, actor |-> sender, timestamp |-> now]]
  BY DEF Recorded, Record
<1>4. QED
  BY <1>1, <1>2, <1>3

\* A completed step keeps its record for ever.
THEOREM CompletedStepsStay == InstanceSpec => CompletedStepsAreFinal
<1> DEFINE Keeps ==
      \A p \in Instances : \A k \in Index :
        stepStates[p][k].status = "Completed" => stepStates'[p][k] = stepStates[p][k]
<1>1. ASSUME InstanceInv, InstanceNext
      PROVE  Keeps
  <2>1. CASE Tick
    BY <2>1 DEF Tick
  <2>2. CASE \E p \in Instances, sender \in Accounts :
               \E t \in Templates, n \in 1..MaxSteps : NewInstance(p, t, sender, n)
    BY <2>2 DEF NewInstance
  <2>3. ASSUME NEW p \in Instances, NEW sender \in Accounts, InstanceStep(p, sender)
        PROVE  Keeps
    <3>1. PICK status \in StepStatus : Recorded(p, sender, status)
      BY <2>3, StepRecords
    <3>2. QED
      BY <1>1, <3>1, RecordedWritesOneStep
  <2>4. QED
    BY <1>1, <2>1, <2>2, <2>3 DEF InstanceNext
<1>2. InstanceInv /\ [InstanceNext]_instanceVars => [Keeps]_instanceVars
  BY <1>1
<1>3. QED
  BY <1>2, InstanceInductive, PTL DEF InstanceSpec, CompletedStepsAreFinal

\* No transaction takes value out of an instance, and one that adds value
\* completes a step.
THEOREM PaidValueAlwaysStays == InstanceSpec => PaidValueStays
<1> DEFINE Stays ==
      \A p \in Instances :
        /\ balance'[p] >= balance[p]
        /\ balance'[p] # balance[p] =>
             ~completed[p] /\ currentStepIndex'[p] = currentStepIndex[p] + 1
<1>1. ASSUME InstanceInv, UNCHANGED balance
      PROVE  Stays
  BY <1>1 DEF InstanceInv, InstanceTypeOK
<1>2. ASSUME InstanceInv, NEW p \in Instances, NEW sender \in Accounts, NEW value \in 0..MaxValue,
             ExecuteStepWithPayment(p, sender, value)
      PROVE  Stays
  <2>1. /\ balance' = [balance EXCEPT ![p] = @ + value]
        /\ currentStepIndex' = [currentStepIndex EXCEPT ![p] = @ + 1]
        /\ ~completed[p]
    BY <1>2 DEF ExecuteStepWithPayment, Advance
  <2>2. /\ balance \in [Instances -> Nat]
        /\ currentStepIndex \in [Instances -> Index]
        /\ value \in Nat
    BY <1>2, InstanceAssumption DEF InstanceInv, InstanceTypeOK
  <2>3. QED
    BY <2>1, <2>2
<1>3. ASSUME InstanceInv, InstanceNext
      PROVE  Stays
  <2>1. CASE Tick
    BY <1>1, <1>3, <2>1 DEF Tick
  <2>2. CASE \E p \in Instances, sender \in Accounts :
               \E t \in Templates, n \in 1..MaxSteps : NewInstance(p, t, sender, n)
    BY <1>1, <1>3, <2>2 DEF NewInstance
  <2>3. ASSUME NEW p \in Instances, NEW sender \in Accounts, InstanceStep(p, sender)
        PROVE  Stays
    <3>1. CASE \E status \in StepStatus : ExecuteStep(p, sender, status)
      BY <1>1, <1>3, <3>1 DEF ExecuteStep
    <3>2. CASE \E value \in 0..MaxValue : ExecuteStepWithPayment(p, sender, value)
      BY <1>2, <1>3, <3>2
    <3>3. QED
      BY <2>3, <3>1, <3>2 DEF InstanceStep
  <2>4. QED
    BY <1>3, <2>1, <2>2, <2>3 DEF InstanceNext
<1>4. InstanceInv /\ [InstanceNext]_instanceVars => [Stays]_instanceVars
  BY <1>3
<1>5. QED
  BY <1>4, InstanceInductive, PTL DEF InstanceSpec, PaidValueStays

-----------------------------------------------------------------------------
(***************************************************************************)
(* The contract implements StepLog.tla: the completed steps are the log.   *)
(***************************************************************************)
Entry == [actor : Accounts \cup {ZeroAddress}, timestamp : 0..MaxTime]

\* The completed steps of an instance are a sequence.
LogIsSequence ==
  \A p \in Instances :
    /\ CompletedLog(p) \in Seq(Entry)
    /\ Len(CompletedLog(p)) = currentStepIndex[p]
    /\ \A k \in 1..currentStepIndex[p] :
         CompletedLog(p)[k] = [actor |-> stepStates[p][k-1].actor,
                               timestamp |-> stepStates[p][k-1].timestamp]

LEMMA InvMakesLogSequence == InstanceInv => LogIsSequence
<1> SUFFICES ASSUME InstanceInv, NEW p \in Instances
             PROVE  /\ CompletedLog(p) \in Seq(Entry)
                    /\ Len(CompletedLog(p)) = currentStepIndex[p]
                    /\ \A k \in 1..currentStepIndex[p] :
                         CompletedLog(p)[k] = [actor |-> stepStates[p][k-1].actor,
                                               timestamp |-> stepStates[p][k-1].timestamp]
  BY DEF LogIsSequence
<1>1. currentStepIndex[p] \in Nat
  BY InstanceAssumption DEF InstanceInv, InstanceTypeOK, Index
<1>2. \A k \in 1..currentStepIndex[p] : stepStates[p][k-1] \in StepState
  BY InstanceAssumption DEF InstanceInv, InstanceTypeOK, Index
<1>3. \A k \in 1..currentStepIndex[p] :
        [actor |-> stepStates[p][k-1].actor, timestamp |-> stepStates[p][k-1].timestamp]
          \in Entry
  BY <1>2 DEF StepState, Entry
<1>4. QED
  BY <1>1, <1>3 DEF CompletedLog

LEMMA LogStaysSequence == InstanceInv' => LogIsSequence'
BY InvMakesLogSequence, PTL

LEMMA InitMapsToLogInit == InstanceInit => Log!Init
<1> SUFFICES ASSUME InstanceInit
             PROVE  Log!Init
  OBVIOUS
<1>1. ASSUME NEW p \in Instances
      PROVE  CompletedLog(p) = <<>>
  BY DEF InstanceInit, CompletedLog
<1>2. QED
  BY <1>1 DEF InstanceInit, Log!Init

\* What a transaction on an instance does to its log.
LEMMA RecordedMapsToLog ==
  ASSUME InstanceInv, InstanceInv', NEW p \in Instances, NEW sender \in Accounts,
         NEW status \in StepStatus, Recorded(p, sender, status), NEW q \in Instances
  PROVE  CompletedLog(q)' =
           IF q = p /\ status = "Completed"
           THEN Append(CompletedLog(q), [actor |-> sender, timestamp |-> now])
           ELSE CompletedLog(q)
<1> DEFINE e == [actor |-> sender, timestamp |-> now]
           c == currentStepIndex[q]
<1>1. /\ c \in Nat /\ c <= totalSteps[q] /\ totalSteps[q] \in Index
      /\ \A k \in 1..c : k - 1 \in Index
      /\ currentStepIndex'[q] <= totalSteps'[q]
  BY InstanceAssumption DEF InstanceInv, InstanceTypeOK, ProgressMatchesRecords, Index
<1>2. currentStepIndex'[q] = IF q = p /\ status = "Completed" THEN c + 1 ELSE c
  BY DEF InstanceInv, InstanceTypeOK, Recorded, Advance
<1>3. \A k \in 1..c : stepStates'[q][k-1] = stepStates[q][k-1]
  <2> SUFFICES ASSUME NEW k \in 1..c
               PROVE  stepStates'[q][k-1] = stepStates[q][k-1]
    OBVIOUS
  <2> DEFINE j == k - 1
  <2>1. j \in Index /\ j # c
    BY <1>1
  <2>2. ~(q = p /\ j = currentStepIndex[p])
    BY <2>1
  <2>3. stepStates'[q][j] = stepStates[q][j]
    <3> HIDE DEF j, c
    <3>1. stepStates'[q][j] =
            IF q = p /\ j = currentStepIndex[p]
            THEN [status |-> status, actor |-> sender, timestamp |-> now]
            ELSE stepStates[q][j]
      BY <2>1, RecordedWritesOneStep
    <3>2. QED
      BY <2>2, <3>1
  <2>4. QED
    BY <2>3
<1>4. CASE ~(q = p /\ status = "Completed")
  BY <1>2, <1>3, <1>4 DEF CompletedLog
<1>5. CASE q = p /\ status = "Completed"
  <2>1. /\ CompletedLog(q) \in Seq(Entry)
        /\ Len(CompletedLog(q)) = c
        /\ \A k \in 1..c : CompletedLog(q)[k] =
              [actor |-> stepStates[q][k-1].actor, timestamp |-> stepStates[q][k-1].timestamp]
    BY InvMakesLogSequence DEF LogIsSequence
  <2>2. /\ CompletedLog(q)' \in Seq(Entry)
        /\ Len(CompletedLog(q)') = c + 1
        /\ \A k \in 1..(c+1) : CompletedLog(q)'[k] =
              [actor |-> stepStates'[q][k-1].actor, timestamp |-> stepStates'[q][k-1].timestamp]
    BY <1>2, <1>5, LogStaysSequence DEF LogIsSequence
  <2>3. e \in Entry
    BY DEF InstanceInv, InstanceTypeOK, Entry
  <2>4. c \in Index /\ stepStates'[q][c].actor = sender /\ stepStates'[q][c].timestamp = now
    <3>1. c \in Index
      BY DEF InstanceInv, InstanceTypeOK
    <3>2. stepStates'[q][c] = [status |-> status, actor |-> sender, timestamp |-> now]
      BY <1>5, <3>1, RecordedWritesOneStep
    <3>3. QED
      BY <3>1, <3>2
  <2>5. \A k \in 1..(c+1) : CompletedLog(q)'[k] = Append(CompletedLog(q), e)[k]
    <3> SUFFICES ASSUME NEW k \in 1..(c+1)
                 PROVE  CompletedLog(q)'[k] = Append(CompletedLog(q), e)[k]
      OBVIOUS
    <3>1. /\ Append(CompletedLog(q), e)[c + 1] = e
          /\ \A j \in 1..c : Append(CompletedLog(q), e)[j] = CompletedLog(q)[j]
      BY <2>1, <2>3, AppendProperties
    <3>2. CASE k = c + 1
      <4>1. k - 1 = c
        BY <1>1, <3>2
      <4>2. QED
        BY <2>2, <2>4, <3>1, <3>2, <4>1
    <3>3. CASE k \in 1..c
      BY <1>3, <2>1, <2>2, <3>1, <3>3
    <3>4. k = c + 1 \/ k \in 1..c
      BY <1>1
    <3>5. QED
      BY <3>2, <3>3, <3>4
  <2>6. Append(CompletedLog(q), e) \in Seq(Entry) /\ Len(Append(CompletedLog(q), e)) = c + 1
    BY <2>1, <2>3, AppendProperties
  <2>7. QED
    BY <1>5, <2>2, <2>5, <2>6, SeqEqual
<1>6. QED
  BY <1>4, <1>5

LEMMA StepMapsToLogStep ==
  InstanceInv /\ InstanceInv' /\ [InstanceNext]_instanceVars => [Log!Next]_Log!logVars
<1> SUFFICES ASSUME InstanceInv, InstanceInv', [InstanceNext]_instanceVars
             PROVE  [Log!Next]_Log!logVars
  OBVIOUS
<1> DEFINE log == [p \in Instances |-> CompletedLog(p)]
<1>1. ASSUME UNCHANGED <<stepStates, currentStepIndex>>
      PROVE  log' = log
  BY <1>1 DEF CompletedLog
<1>2. CASE UNCHANGED instanceVars \/ Tick
  BY <1>1, <1>2 DEF instanceVars, Tick, originVars, Log!logVars
<1>3. ASSUME NEW p \in Instances, NEW sender \in Accounts, NEW t \in Templates,
             NEW n \in 1..MaxSteps, NewInstance(p, t, sender, n)
      PROVE  Log!Next
  <2>1. totalSteps[p] = 0
    BY <1>3 DEF InstanceInv, FreshIsZero, NewInstance
  <2>2. Log!Open(p, n)
    BY <1>1, <1>3, <2>1 DEF NewInstance, Log!Open
  <2>3. QED
    BY <2>2 DEF Log!Next
<1>4. ASSUME NEW p \in Instances, NEW sender \in Accounts, NEW status \in StepStatus,
             Recorded(p, sender, status)
      PROVE  [Log!Next]_Log!logVars
  <2> DEFINE e == [actor |-> sender, timestamp |-> now]
  <2>1. CASE status # "Completed"
    <3>1. log' = log
      BY <1>4, <2>1, RecordedMapsToLog
    <3>2. QED
      BY <1>4, <2>1, <3>1 DEF Recorded, originVars, Log!logVars
  <2>2. CASE status = "Completed"
    <3>1. log' = [log EXCEPT ![p] = Append(@, e)]
      BY <1>4, <2>2, RecordedMapsToLog
    <3>2. Len(log[p]) = currentStepIndex[p] /\ Len(log[p]) < totalSteps[p]
      <4>1. Len(CompletedLog(p)) = currentStepIndex[p]
        BY InvMakesLogSequence DEF LogIsSequence
      <4>2. currentStepIndex[p] < totalSteps[p]
        BY <1>4, CurrentStepIsOpen, InstanceAssumption
           DEF Recorded, InstanceInv, InstanceTypeOK, Index
      <4>3. QED
        BY <4>1, <4>2
    <3>3. \A k \in 1..Len(log[p]) : log[p][k].timestamp <= e.timestamp
      <4> SUFFICES ASSUME NEW k \in 1..currentStepIndex[p]
                   PROVE  CompletedLog(p)[k].timestamp <= now
        BY <3>2
      <4>1. CompletedLog(p)[k].timestamp = stepStates[p][k-1].timestamp
        <5>1. CompletedLog(p)[k] = [actor |-> stepStates[p][k-1].actor,
                                    timestamp |-> stepStates[p][k-1].timestamp]
          BY InvMakesLogSequence DEF LogIsSequence
        <5>2. QED
          BY <5>1
      <4>2. k - 1 \in Index /\ k - 1 < currentStepIndex[p]
        BY InstanceAssumption DEF InstanceInv, InstanceTypeOK, Index
      <4>3. stepStates[p][k-1].status = "Completed"
        BY <4>2 DEF InstanceInv, ProgressMatchesRecords
      <4>4. stepStates[p][k-1].timestamp <= now
        BY <4>2, <4>3 DEF InstanceInv, TimesFollowSteps
      <4>5. QED
        BY <4>1, <4>4
    <3>4. completed' = [completed EXCEPT ![p] = (Len(log[p]) + 1 = totalSteps[p])]
      <4>1. completed' = [completed EXCEPT
                            ![p] = completed[p] \/ currentStepIndex[p] + 1 >= totalSteps[p]]
        BY <1>4, <2>2 DEF Recorded, Advance
      <4>2. ~completed[p]
        BY <1>4 DEF Recorded
      <4>3. (currentStepIndex[p] + 1 >= totalSteps[p]) = (Len(log[p]) + 1 = totalSteps[p])
        <5>1. currentStepIndex[p] \in Nat /\ totalSteps[p] \in Nat
          BY InstanceAssumption DEF InstanceInv, InstanceTypeOK, Index
        <5> HIDE DEF log
        <5>2. QED
          BY <3>2, <5>1
      <4>4. (completed[p] \/ currentStepIndex[p] + 1 >= totalSteps[p])
              = (Len(log[p]) + 1 = totalSteps[p])
        BY <4>2, <4>3
      <4>5. QED
        BY <4>1, <4>4
    <3>5. totalSteps' = totalSteps
      BY <1>4 DEF Recorded, originVars
    <3> HIDE DEF log
    <3>6. Log!SignOff(p, e)
      BY <3>1, <3>2, <3>3, <3>4, <3>5 DEF Log!SignOff, log
    <3>7. now \in 0..MaxTime
      BY DEF InstanceInv, InstanceTypeOK
    <3>8. QED
      BY <3>6, <3>7 DEF Log!Next
  <2>3. QED
    BY <2>1, <2>2
<1>5. ASSUME NEW p \in Instances, NEW sender \in Accounts, InstanceStep(p, sender)
      PROVE  [Log!Next]_Log!logVars
  BY <1>4, <1>5, StepRecords
<1>6. QED
  BY <1>2, <1>3, <1>5 DEF InstanceNext

\* Every behaviour of the two handlers, rejections and retries included, is a
\* behaviour of the append-only log of signed-off steps.
THEOREM InstanceImplementsStepLog == InstanceSpec => ImplementsStepLog
BY InitMapsToLogInit, StepMapsToLogStep, InstanceInductive, PTL
   DEF InstanceSpec, ImplementsStepLog, Log!Spec
=============================================================================
