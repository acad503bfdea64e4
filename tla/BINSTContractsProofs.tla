------------------------ MODULE BINSTContractsProofs ------------------------
(***************************************************************************)
(* Theorems about BINSTContracts.tla: all the contracts of a deployer, for *)
(* any number of institutions, templates, instances and users.             *)
(***************************************************************************)
EXTENDS BINSTContracts, ContractProofs

-----------------------------------------------------------------------------
\* Arrays: what an element appended to an array does to the parts of it.

\* An array's part depends on the elements of the array only.
LEMMA PartOfSameElements ==
  ASSUME NEW s, NEW part, NEW T, NEW U, IsPartOf(part, s, T), Listed(s) \cap T = Listed(s) \cap U
  PROVE  IsPartOf(part, s, U)
BY DEF IsPartOf

LEMMA BeforeInLonger ==
  ASSUME NEW S, NEW s \in Seq(S), NEW e \in S, NEW f, NEW g, Precedes(s, f, g)
  PROVE  Precedes(Append(s, e), f, g)
<1>1. PICK j \in 1..Len(s), k \in 1..Len(s) : j < k /\ s[j] = f /\ s[k] = g
  BY DEF Precedes
<1>2. /\ j \in 1..Len(Append(s, e)) /\ k \in 1..Len(Append(s, e))
      /\ Append(s, e)[j] = f /\ Append(s, e)[k] = g
  BY <1>1
<1> QED BY <1>1, <1>2 DEF Precedes

LEMMA AppendedComesLast ==
  ASSUME NEW S, NEW s \in Seq(S), NEW e \in S, NEW f \in Listed(s)
  PROVE  Precedes(Append(s, e), f, e)
<1>1. PICK j \in 1..Len(s) : s[j] = f
  BY DEF Listed
<1>2. /\ j \in 1..Len(Append(s, e)) /\ Len(s) + 1 \in 1..Len(Append(s, e)) /\ j < Len(s) + 1
      /\ Append(s, e)[j] = f /\ Append(s, e)[Len(s) + 1] = e
  BY <1>1
<1> QED BY <1>2 DEF Precedes

\* A new element that is not of the part leaves it as it is.
LEMMA PartWithoutAppended ==
  ASSUME NEW S, NEW s \in Seq(S), NEW part \in Seq(S), NEW T, IsPartOf(part, s, T),
         NEW e \in S, e \notin T
  PROVE  IsPartOf(part, Append(s, e), T)
<1>1. Listed(part) = Listed(Append(s, e)) \cap T
  BY AppendLists DEF IsPartOf
<1>2. \A j, k \in 1..Len(part) : j < k => Precedes(Append(s, e), part[j], part[k])
  BY BeforeInLonger DEF IsPartOf
<1> QED BY <1>1, <1>2 DEF IsPartOf

\* A new element of the part is appended to both.
LEMMA PartWithAppended ==
  ASSUME NEW S, NEW s \in Seq(S), NEW part \in Seq(S), NEW T, IsPartOf(part, s, T),
         NEW e \in S, e \notin Listed(s), NEW U, U \cap Listed(s) = T \cap Listed(s), e \in U
  PROVE  IsPartOf(Append(part, e), Append(s, e), U)
<1> DEFINE p == Append(part, e)
<1>1. Listed(part) = Listed(s) \cap T /\ Distinct(part)
  BY DEF IsPartOf
<1>2. Listed(p) = Listed(Append(s, e)) \cap U /\ Distinct(p)
  BY <1>1, AppendLists
<1>3. ASSUME NEW j \in 1..Len(p), NEW k \in 1..Len(p), j < k
      PROVE  Precedes(Append(s, e), p[j], p[k])
  <2>1. j \in 1..Len(part) /\ p[j] = part[j] /\ part[j] \in Listed(s)
    <3>1. j \in 1..Len(part) /\ p[j] = part[j]
      BY <1>3
    <3>2. part[j] \in Listed(part)
      BY <3>1 DEF Listed
    <3> QED BY <3>1, <3>2, <1>1
  <2>2. CASE k = Len(part) + 1
    <3>1. p[k] = e
      BY <2>2
    <3> QED BY <2>1, <3>1, AppendedComesLast
  <2>3. CASE k # Len(part) + 1
    <3>1. k \in 1..Len(part) /\ p[k] = part[k]
      BY <2>3
    <3>2. Precedes(s, part[j], part[k])
      BY <1>3, <2>1, <3>1 DEF IsPartOf
    <3> QED BY <2>1, <3>1, <3>2, BeforeInLonger
  <2> QED BY <2>2, <2>3
<1> HIDE DEF p
<1>4. \A j, k \in 1..Len(p) : j < k => Precedes(Append(s, e), p[j], p[k])
  BY <1>3
<1> QED BY <1>2, <1>4 DEF IsPartOf, p

LEMMA EmptyArray ==
  ASSUME NEW S, NEW T
  PROVE  /\ <<>> \in Seq(S) /\ Listed(<<>>) = {} /\ Distinct(<<>>)
         /\ IsPartOf(<<>>, <<>>, T)
BY DEF Listed, Distinct, IsPartOf

-----------------------------------------------------------------------------
(***************************************************************************)
(* The inductive invariant: those of the two contracts alone, and the two  *)
(* invariants of the run.  Which contract exists is said by its own fields *)
(* (admin, stepCount, template), where it is listed by its parent's: that  *)
(* the two agree is what makes a fresh address fresh in every list.        *)
(***************************************************************************)
ContractsInv ==
  /\ InstitutionInv
  /\ InstanceInv
  /\ EveryContractListedOnce
  /\ RecordsOfInstancesAgree

\* The parts of EveryContractListedOnce.
InstitutionsListedOnce ==
  /\ institutions \in Seq(Institutions)
  /\ Listed(institutions) = {i \in Institutions : admin[i] # ZeroAddress}
  /\ Distinct(institutions)

TemplatesListedOnce ==
  /\ deployedProcesses \in Seq(Templates)
  /\ Distinct(deployedProcesses)
  /\ \A i \in Institutions : Distinct(processes[i])
  /\ \A t \in Templates :
       ListsOf(t) = IF stepCount[t] = 0 THEN {} ELSE {templateCreator[t]}

LEMMA PartsMakeContractsInv ==
  /\ InstitutionInv /\ InstanceInv /\ TemplateTypeOK
  /\ InstitutionsListedOnce /\ TemplatesListedOnce /\ RecordsOfInstancesAgree
  <=> ContractsInv
<1>1. ASSUME InstanceInv, RecordsOfInstancesAgree, NEW p \in Instances, Deployed(p)
      PROVE  p \in Listed(allInstances[template[p]])
  <2>1. template[p] \in Templates
    BY <1>1 DEF InstanceInv, InstanceTypeOK, Deployed
  <2> QED BY <1>1, <2>1 DEF RecordsOfInstancesAgree
<1> QED BY <1>1 DEF ContractsInv, EveryContractListedOnce, ContractsTypeOK, InstitutionInv,
             InstanceInv, InstitutionsListedOnce, TemplatesListedOnce

LEMMA ContractsBegin == ContractsInit => ContractsInv
<1> SUFFICES ASSUME ContractsInit PROVE ContractsInv
  OBVIOUS
<1>1. InstitutionInv /\ InstanceInv
  BY InstitutionBegins, InstanceBegins DEF ContractsInit, TemplateInit
<1>2. TemplateTypeOK
  BY InstanceAssumption DEF ContractsInit, TemplateInit, TemplateTypeOK
<1>3. InstitutionsListedOnce
  BY EmptyArray DEF ContractsInit, InstitutionInit, InstitutionsListedOnce
<1>4. TemplatesListedOnce
  <2>1. /\ \A i \in Institutions : processes[i] = <<>>
        /\ deployedProcesses = <<>>
        /\ \A t \in Templates : stepCount[t] = 0
    BY DEF ContractsInit, InstitutionInit, TemplateInit
  <2>2. \A t \in Templates : ListsOf(t) = {}
    BY <2>1, EmptyArray, OwnersAssumption DEF ListsOf
  <2> QED BY <2>1, <2>2, EmptyArray DEF TemplatesListedOnce
<1>5. RecordsOfInstancesAgree
  <2>1. /\ \A t \in Templates : /\ allInstances[t] = <<>>
                                /\ instantiationCount[t] = 0
                                /\ \A a \in Accounts : userInstances[t][a] = <<>>
        /\ \A p \in Instances : template[p] = ZeroAddress
    BY DEF ContractsInit, TemplateInit, InstanceInit
  <2>2. \A t \in Templates : {p \in Instances : template[p] = t} = {}
    BY <2>1, InstanceAssumption
  <2> QED BY <2>1, <2>2, EmptyArray DEF RecordsOfInstancesAgree
<1> QED BY <1>1, <1>2, <1>3, <1>4, <1>5, PartsMakeContractsInv

-----------------------------------------------------------------------------
\* A transaction on all the contracts is one, or none, on those of a kind.

LEMMA NewTemplateIsNoInstanceStep ==
  ASSUME NEW t, NEW owner, NEW n, Template(t, owner, n)
  PROVE  /\ UNCHANGED <<instanceVars, countingVars>>
         /\ stepCount[t] = 0
         /\ stepCount' = [stepCount EXCEPT ![t] = n]
         /\ templateCreator' = [templateCreator EXCEPT ![t] = owner]
BY DEF Template, NewTemplate

LEMMA InstitutionsStep ==
  ASSUME ContractsNext
  PROVE  [InstitutionNext]_institutionVars
<1>1. ASSUME NEW sender \in Accounts, NEW i \in Institutions, CreateInstitution(sender, i)
      PROVE  InstitutionNext
  BY <1>1 DEF CreateInstitution, InstitutionNext
<1>2. ASSUME NEW i \in Institutions, NEW sender \in Accounts, NEW t \in Templates,
             NEW n \in 1..MaxSteps, CreateProcessTx(i, sender, t, n)
      PROVE  InstitutionNext
  BY <1>2 DEF CreateProcessTx, InstitutionNext
<1>3. ASSUME NEW i \in Institutions, NEW sender \in Accounts, InstitutionTx(i, sender)
      PROVE  InstitutionNext
  BY <1>3 DEF InstitutionTx, InstitutionNext
<1> QED BY <1>1, <1>2, <1>3
     DEF ContractsNext, DeployProcess, TemplateTx, InstanceTx

LEMMA InstancesStep ==
  ASSUME TemplateTypeOK, ContractsNext
  PROVE  [InstanceNext]_instanceVars
<1>1. ASSUME NEW t \in Templates, NEW sender \in Accounts, NEW p \in Instances,
             TemplateTx(t, sender, p)
      PROVE  InstanceNext
  <2>1. stepCount[t] \in 1..MaxSteps
    BY <1>1, InstanceAssumption DEF TemplateTx, Instantiate, TemplateTypeOK
  <2>2. NewInstance(p, t, sender, stepCount[t])
    BY <1>1 DEF TemplateTx, Instantiate
  <2> QED BY <2>1, <2>2 DEF InstanceNext
<1>2. CASE InstanceTx
  BY <1>2 DEF InstanceTx, RunInstances, InstanceNext
<1>3. ASSUME NEW t \in Templates, NEW n \in 1..MaxSteps, DeployProcess(t, n)
      PROVE  UNCHANGED instanceVars
  BY <1>3, NewTemplateIsNoInstanceStep DEF DeployProcess
<1>4. ASSUME NEW i \in Institutions, NEW sender \in Accounts, NEW t \in Templates,
             NEW n \in 1..MaxSteps, CreateProcessTx(i, sender, t, n)
      PROVE  UNCHANGED instanceVars
  BY <1>4, NewTemplateIsNoInstanceStep DEF CreateProcessTx
<1>5. ASSUME NEW i \in Institutions, NEW sender \in Accounts,
             CreateInstitution(sender, i) \/ InstitutionTx(i, sender)
      PROVE  UNCHANGED instanceVars
  BY <1>5 DEF CreateInstitution, InstitutionTx, templateVars
<1> QED BY <1>1, <1>2, <1>3, <1>4, <1>5 DEF ContractsNext

-----------------------------------------------------------------------------
\* Each part of the invariant, by the transactions that touch it.

LEMMA InstitutionsStayListed ==
  ASSUME ContractsInv, ContractsNext
  PROVE  InstitutionsListedOnce'
<1>1. /\ InstitutionsListedOnce
      /\ admin \in [Institutions -> Address] /\ ZeroAddress \notin Accounts
  BY PartsMakeContractsInv, AddressAssumption DEF InstitutionInv, TypeOK
<1>2. ASSUME NEW sender \in Accounts, NEW i \in Institutions, CreateInstitution(sender, i)
      PROVE  InstitutionsListedOnce'
  <2>1. /\ admin[i] = ZeroAddress /\ admin' = [admin EXCEPT ![i] = sender]
        /\ institutions' = Append(institutions, i)
    BY <1>2 DEF CreateInstitution, Construct
  <2>2. i \notin Listed(institutions)
    BY <1>1, <2>1 DEF InstitutionsListedOnce
  <2>3. /\ institutions' \in Seq(Institutions) /\ Distinct(institutions')
        /\ Listed(institutions') = Listed(institutions) \cup {i}
    BY <1>1, <2>1, <2>2, AppendLists DEF InstitutionsListedOnce
  <2>4. {j \in Institutions : admin'[j] # ZeroAddress}
          = {j \in Institutions : admin[j] # ZeroAddress} \cup {i}
    BY <1>1, <2>1
  <2> QED BY <1>1, <2>3, <2>4 DEF InstitutionsListedOnce
<1>3. ASSUME NEW i \in Institutions, NEW sender \in Accounts, InstitutionTx(i, sender)
      PROVE  InstitutionsListedOnce'
  <2>1. institutions' = institutions
    BY <1>3 DEF InstitutionTx, deployerVars
  <2>2. \A j \in Institutions : admin'[j] = ZeroAddress <=> admin[j] = ZeroAddress
    <3>1. CASE BindingStep(i, sender)
      BY <3>1 DEF BindingStep, SetInscriptionId, SetRuneId, SetBtcPubkey, membershipVars
    <3>2. CASE MembershipStep(i, sender)
      BY <1>1, <3>2 DEF MembershipStep, AddMember, RemoveMember, TransferAdmin, OnlyAdmin
    <3> QED BY <1>3, <3>1, <3>2 DEF InstitutionTx
  <2> QED BY <1>1, <2>1, <2>2 DEF InstitutionsListedOnce
<1>4. ASSUME UNCHANGED <<institutions, admin>>
      PROVE  InstitutionsListedOnce'
  BY <1>1, <1>4 DEF InstitutionsListedOnce
<1>5. ASSUME NEW i \in Institutions, NEW sender \in Accounts, NEW t \in Templates,
             NEW n \in 1..MaxSteps, CreateProcessTx(i, sender, t, n)
      PROVE  InstitutionsListedOnce'
  BY <1>4, <1>5 DEF CreateProcessTx, CreateProcess, membershipVars, deployerVars
<1> QED BY <1>2, <1>3, <1>4, <1>5
     DEF ContractsNext, DeployProcess, TemplateTx, InstanceTx, institutionVars, deployerVars

\* The lists of a template, in terms of each list.
LEMMA ListsOfMember ==
  ASSUME NEW t
  PROVE  /\ Deployer \in ListsOf(t) <=> t \in Listed(deployedProcesses)
         /\ \A i \in Institutions : i \in ListsOf(t) <=> t \in Listed(processes[i])
         /\ ListsOf(t) \subseteq Institutions \cup {Deployer}
BY OwnersAssumption DEF ListsOf

LEMMA FreshTemplateIsListedNowhere ==
  ASSUME TemplatesListedOnce, NEW t \in Templates, stepCount[t] = 0
  PROVE  t \notin Listed(deployedProcesses) /\ \A i \in Institutions : t \notin Listed(processes[i])
BY ListsOfMember DEF TemplatesListedOnce

\* Both ways of deploying a template list it once, with its creator.
LEMMA NewTemplateIsListed ==
  ASSUME TemplateTypeOK, TypeOK, TemplatesListedOnce, NEW t \in Templates, NEW n \in 1..MaxSteps,
         NEW owner \in Owners, Template(t, owner, n),
         deployedProcesses' = IF owner = Deployer THEN Append(deployedProcesses, t)
                              ELSE deployedProcesses,
         processes' = IF owner = Deployer THEN processes
                      ELSE [processes EXCEPT ![owner] = Append(@, t)]
  PROVE  TemplatesListedOnce'
<1>1. /\ \A u \in Templates : stepCount'[u] = IF u = t THEN n ELSE stepCount[u]
      /\ \A u \in Templates : templateCreator'[u] = IF u = t THEN owner ELSE templateCreator[u]
      /\ stepCount[t] = 0 /\ n # 0
  BY NewTemplateIsNoInstanceStep DEF TemplateTypeOK
<1>2. t \notin Listed(deployedProcesses) /\ \A i \in Institutions : t \notin Listed(processes[i])
  BY <1>1, FreshTemplateIsListedNowhere
<1>3. /\ processes \in [Institutions -> Seq(Templates)] /\ deployedProcesses \in Seq(Templates)
      /\ Distinct(deployedProcesses) /\ \A i \in Institutions : Distinct(processes[i])
      /\ Deployer \notin Institutions /\ Owners = Institutions \cup {Deployer}
  BY OwnersAssumption DEF TypeOK, TemplatesListedOnce
<1>4. /\ deployedProcesses' \in Seq(Templates) /\ Distinct(deployedProcesses')
      /\ Listed(deployedProcesses') = IF owner = Deployer THEN Listed(deployedProcesses) \cup {t}
                                      ELSE Listed(deployedProcesses)
  <2>1. /\ Append(deployedProcesses, t) \in Seq(Templates)
        /\ Listed(Append(deployedProcesses, t)) = Listed(deployedProcesses) \cup {t}
        /\ Distinct(Append(deployedProcesses, t))
    BY <1>2, <1>3, AppendLists
  <2>2. CASE owner = Deployer
    BY <2>1, <2>2
  <2>3. CASE owner # Deployer
    BY <1>3, <2>3
  <2> QED BY <2>2, <2>3
<1>5. ASSUME NEW i \in Institutions
      PROVE  /\ Distinct(processes'[i])
             /\ Listed(processes'[i]) = IF i = owner THEN Listed(processes[i]) \cup {t}
                                        ELSE Listed(processes[i])
  <2>1. processes'[i] = IF i = owner THEN Append(processes[i], t) ELSE processes[i]
    BY <1>3
  <2>2. processes[i] \in Seq(Templates) /\ Distinct(processes[i]) /\ t \notin Listed(processes[i])
    BY <1>2, <1>3
  <2>3. /\ Listed(Append(processes[i], t)) = Listed(processes[i]) \cup {t}
        /\ Distinct(Append(processes[i], t))
    BY <2>2, AppendLists
  <2>4. CASE i = owner
    BY ONLY <2>1, <2>3, <2>4
  <2>5. CASE i # owner
    BY ONLY <2>1, <2>2, <2>5
  <2> QED BY <2>4, <2>5
<1>6. ASSUME NEW u \in Templates
      PROVE  ListsOf(u)' = IF u = t THEN {owner} ELSE ListsOf(u)
  <2>1. PICK old, new : old = ListsOf(u) /\ new = ListsOf(u)'
    OBVIOUS
  <2>2. /\ Deployer \in old <=> u \in Listed(deployedProcesses)
        /\ \A i \in Institutions : i \in old <=> u \in Listed(processes[i])
        /\ old \subseteq Institutions \cup {Deployer}
    BY <2>1, ListsOfMember
  <2>3. /\ Deployer \in new <=> u \in Listed(deployedProcesses')
        /\ \A i \in Institutions : i \in new <=> u \in Listed(processes'[i])
        /\ new \subseteq Institutions \cup {Deployer}
    BY <2>1, OwnersAssumption DEF ListsOf
  <2>4. new = IF u = t THEN {owner} ELSE old
    <3>1. ASSUME u = t
          PROVE  new = {owner}
      <4>1. Deployer \in new <=> owner = Deployer
        BY <1>2, <1>4, <2>3, <3>1
      <4>2. ASSUME NEW i \in Institutions
            PROVE  i \in new <=> i = owner
        <5>1. i \in new <=> t \in Listed(processes'[i])
          BY <2>3, <3>1
        <5> QED BY ONLY <1>2, <1>5, <5>1, i \in Institutions
      <4> QED BY ONLY <1>3, <2>3, <4>1, <4>2, owner \in Owners
    <3>2. ASSUME u # t
          PROVE  new = old
      <4>1. Deployer \in new <=> Deployer \in old
        BY <1>4, <2>2, <2>3, <3>2
      <4>2. ASSUME NEW i \in Institutions
            PROVE  i \in new <=> i \in old
        BY ONLY <1>5, <2>2, <2>3, <3>2, i \in Institutions
      <4> QED BY ONLY <2>2, <2>3, <4>1, <4>2
    <3> QED BY <3>1, <3>2
  <2> QED BY <2>1, <2>4
<1>7. \A u \in Templates :
        ListsOf(u)' = IF stepCount'[u] = 0 THEN {} ELSE {templateCreator'[u]}
  BY <1>1, <1>6 DEF TemplatesListedOnce
<1> QED BY <1>4, <1>5, <1>7 DEF TemplatesListedOnce

LEMMA TemplatesStayListed ==
  ASSUME ContractsInv, ContractsNext
  PROVE  TemplatesListedOnce'
<1>1. TemplateTypeOK /\ TypeOK /\ TemplatesListedOnce
  BY PartsMakeContractsInv DEF InstitutionInv
<1>2. ASSUME UNCHANGED <<deployedProcesses, processes, blueprintVars>>
      PROVE  TemplatesListedOnce'
  BY <1>1, <1>2 DEF TemplatesListedOnce, ListsOf, blueprintVars
<1>3. ASSUME NEW t \in Templates, NEW n \in 1..MaxSteps, DeployProcess(t, n)
      PROVE  TemplatesListedOnce'
  <2>1. Deployer \in Owners
    BY OwnersAssumption
  <2>2. /\ Template(t, Deployer, n) /\ processes' = processes
        /\ deployedProcesses' = Append(deployedProcesses, t)
    BY <1>3 DEF DeployProcess, institutionVars
  <2> QED BY <1>1, <2>1, <2>2, NewTemplateIsListed
<1>4. ASSUME NEW i \in Institutions, NEW sender \in Accounts, NEW t \in Templates,
             NEW n \in 1..MaxSteps, CreateProcessTx(i, sender, t, n)
      PROVE  TemplatesListedOnce'
  <2>1. i \in Owners /\ i # Deployer
    BY OwnersAssumption
  <2>2. /\ Template(t, i, n) /\ deployedProcesses' = deployedProcesses
        /\ processes' = [processes EXCEPT ![i] = Append(@, t)]
    BY <1>4 DEF CreateProcessTx, CreateProcess, deployerVars
  <2> QED BY <1>1, <2>1, <2>2, NewTemplateIsListed
<1>5. ASSUME NEW sender \in Accounts, NEW i \in Institutions, CreateInstitution(sender, i)
      PROVE  TemplatesListedOnce'
  BY <1>2, <1>5 DEF CreateInstitution, Construct, templateVars, blueprintVars, processVars
<1>6. ASSUME NEW i \in Institutions, NEW sender \in Accounts, InstitutionTx(i, sender)
      PROVE  TemplatesListedOnce'
  <2>1. processes' = processes
    <3>1. CASE BindingStep(i, sender)
      BY <3>1 DEF BindingStep, SetInscriptionId, SetRuneId, SetBtcPubkey, processVars
    <3>2. CASE MembershipStep(i, sender)
      BY <3>2 DEF MembershipStep, AddMember, RemoveMember, TransferAdmin, processVars
    <3> QED BY <1>6, <3>1, <3>2 DEF InstitutionTx
  <2> QED BY <1>2, <1>6, <2>1 DEF InstitutionTx, templateVars, deployerVars, blueprintVars
<1>7. ASSUME NEW t \in Templates, NEW sender \in Accounts, NEW p \in Instances,
             TemplateTx(t, sender, p)
      PROVE  TemplatesListedOnce'
  BY <1>2, <1>7 DEF TemplateTx, Instantiate, deployerVars, institutionVars
<1>8. CASE InstanceTx
  BY <1>2, <1>8 DEF InstanceTx, RunInstances, deployerVars, institutionVars
<1> QED BY <1>3, <1>4, <1>5, <1>6, <1>7, <1>8 DEF ContractsNext

-----------------------------------------------------------------------------
\* An instantiation is recorded in the same way in the three places.

LEMMA InstantiateKeepsTypes ==
  ASSUME TemplateTypeOK, NEW t \in Templates, NEW sender \in Accounts, NEW p \in Instances,
         Instantiate(t, sender, p)
  PROVE  TemplateTypeOK'
<1>1. /\ Append(allInstances[t], p) \in Seq(Instances)
      /\ Append(userInstances[t][sender], p) \in Seq(Instances)
      /\ instantiationCount[t] + 1 \in Nat
  BY DEF TemplateTypeOK
<1> QED BY <1>1 DEF TemplateTypeOK, Instantiate, blueprintVars

\* What it does to the lists of one template and to what they are compared with.
LEMMA InstantiateAppends ==
  ASSUME InstanceTypeOK, TemplateTypeOK, NEW t \in Templates, NEW sender \in Accounts,
         NEW p \in Instances, Instantiate(t, sender, p)
  PROVE  /\ template[p] = ZeroAddress
         /\ \A q \in Instances : /\ template'[q] = IF q = p THEN t ELSE template[q]
                                 /\ creator'[q] = IF q = p THEN sender ELSE creator[q]
         /\ \A u \in Templates :
              /\ allInstances'[u] = IF u = t THEN Append(allInstances[u], p) ELSE allInstances[u]
              /\ instantiationCount'[u] = instantiationCount[u] + (IF u = t THEN 1 ELSE 0)
              /\ \A a \in Accounts :
                   userInstances'[u][a] = IF u = t /\ a = sender
                                          THEN Append(userInstances[u][a], p)
                                          ELSE userInstances[u][a]
BY DEF Instantiate, NewInstance, InstanceTypeOK, TemplateTypeOK, Deployed

LEMMA InstantiateKeepsRecords ==
  ASSUME InstanceTypeOK, TemplateTypeOK, RecordsOfInstancesAgree,
         NEW t \in Templates, NEW sender \in Accounts, NEW p \in Instances,
         Instantiate(t, sender, p)
  PROVE  RecordsOfInstancesAgree'
<1>1. t # ZeroAddress /\ template[p] = ZeroAddress
  BY InstantiateAppends, InstanceAssumption
<1> DEFINE Mine(a) == {q \in Instances : creator[q] = a}
<1>2. ASSUME NEW u \in Templates
      PROVE  /\ instantiationCount'[u] = Len(allInstances'[u])
             /\ Listed(allInstances'[u]) = {q \in Instances : template'[q] = u}
             /\ Distinct(allInstances'[u])
             /\ \A a \in Accounts :
                  IsPartOf(userInstances'[u][a], allInstances'[u],
                           {q \in Instances : creator'[q] = a})
  <2>1. PICK all, new : all = allInstances[u] /\ new = allInstances'[u]
    OBVIOUS
  <2>2. /\ all \in Seq(Instances) /\ Distinct(all) /\ instantiationCount[u] = Len(all)
        /\ Listed(all) = {q \in Instances : template[q] = u} /\ p \notin Listed(all)
        /\ \A a \in Accounts : /\ userInstances[u][a] \in Seq(Instances)
                               /\ IsPartOf(userInstances[u][a], all, Mine(a))
    <3>1. u # ZeroAddress
      BY InstanceAssumption
    <3> QED BY <1>1, <2>1, <3>1 DEF TemplateTypeOK, RecordsOfInstancesAgree
  <2>3. new = IF u = t THEN Append(all, p) ELSE all
    BY <2>1, InstantiateAppends
  <2>4. /\ instantiationCount'[u] = Len(new)
        /\ Listed(new) = IF u = t THEN Listed(all) \cup {p} ELSE Listed(all)
        /\ Distinct(new)
    <3>1. instantiationCount'[u] = Len(all) + (IF u = t THEN 1 ELSE 0)
      BY <2>2, InstantiateAppends
    <3>2. /\ Len(Append(all, p)) = Len(all) + 1 /\ Len(all) \in Nat
          /\ Listed(Append(all, p)) = Listed(all) \cup {p}
          /\ Distinct(Append(all, p))
      BY <2>2, AppendLists
    <3>3. CASE u = t
      BY ONLY <2>3, <3>1, <3>2, <3>3
    <3>4. CASE u # t
      BY ONLY <2>2, <2>3, <3>1, <3>2, <3>4
    <3> QED BY <3>3, <3>4
  <2>5. Listed(new) = {q \in Instances : template'[q] = u}
    <3>1. \A q \in Instances : template'[q] = u <=> (q = p /\ u = t) \/ template[q] = u
      BY <1>1, InstantiateAppends, InstanceAssumption
    <3> QED BY <2>2, <2>4, <3>1
  <2>6. ASSUME NEW a \in Accounts
        PROVE  IsPartOf(userInstances'[u][a], new, {q \in Instances : creator'[q] = a})
    <3>1. PICK mine, then, part :
            /\ mine = Mine(a) /\ then = {q \in Instances : creator'[q] = a}
            /\ part = userInstances[u][a]
      OBVIOUS
    <3>2. \A q \in Instances : creator'[q] = IF q = p THEN sender ELSE creator[q]
      BY InstantiateAppends
    <3>3. \A q \in Instances \ {p} : q \in then <=> q \in mine
      BY <3>1, <3>2
    <3>4. p \in then <=> a = sender
      BY <3>1, <3>2
    <3>5. Listed(all) \cap then = Listed(all) \cap mine
      BY ONLY <2>2, <3>3
    <3>6. part \in Seq(Instances) /\ IsPartOf(part, all, mine) /\ IsPartOf(part, all, then)
      BY <2>2, <3>1, <3>5, PartOfSameElements
    <3>7. userInstances'[u][a] = IF u = t /\ a = sender THEN Append(part, p) ELSE part
      BY <3>1, InstantiateAppends
    <3>8. CASE u = t /\ a = sender
      <4>1. IsPartOf(Append(part, p), Append(all, p), then)
        BY <2>2, <3>4, <3>6, <3>8, PartWithAppended
      <4> QED BY <2>3, <3>1, <3>7, <3>8, <4>1
    <3>9. CASE u = t /\ a # sender
      <4>1. IsPartOf(part, Append(all, p), then)
        BY <2>2, <3>4, <3>6, <3>9, PartWithoutAppended
      <4> QED BY <2>3, <3>1, <3>7, <3>9, <4>1
    <3>10. CASE u # t
      BY <2>3, <3>1, <3>6, <3>7, <3>10
    <3> QED BY <3>8, <3>9, <3>10
  <2> QED BY <2>1, <2>4, <2>5, <2>6
<1> QED BY <1>2 DEF RecordsOfInstancesAgree

LEMMA RecordsStayInAgreement ==
  ASSUME ContractsInv, ContractsNext
  PROVE  TemplateTypeOK' /\ RecordsOfInstancesAgree'
<1>1. InstanceTypeOK /\ TemplateTypeOK /\ RecordsOfInstancesAgree
  BY PartsMakeContractsInv DEF InstanceInv
<1>2. ASSUME UNCHANGED <<template, creator, countingVars>>
      PROVE  RecordsOfInstancesAgree'
  BY <1>1, <1>2 DEF RecordsOfInstancesAgree, countingVars
<1>3. ASSUME NEW t \in Templates, NEW n \in 1..MaxSteps, NEW owner \in Owners,
             Template(t, owner, n)
      PROVE  TemplateTypeOK' /\ RecordsOfInstancesAgree'
  <2>1. /\ n \in 0..MaxSteps
        /\ stepCount' = [stepCount EXCEPT ![t] = n]
        /\ templateCreator' = [templateCreator EXCEPT ![t] = owner]
        /\ UNCHANGED <<instanceVars, countingVars>>
    BY <1>3, InstanceAssumption, NewTemplateIsNoInstanceStep
  <2>2. TemplateTypeOK'
    <3>1. stepCount' \in [Templates -> 0..MaxSteps]
      BY <1>1, <2>1 DEF TemplateTypeOK
    <3>2. templateCreator' \in [Templates -> Owners \cup {ZeroAddress}]
      BY <1>1, <2>1 DEF TemplateTypeOK
    <3> QED BY <1>1, <2>1, <3>1, <3>2 DEF TemplateTypeOK, countingVars
  <2>3. UNCHANGED <<template, creator, countingVars>>
    BY <2>1 DEF instanceVars
  <2> QED BY <1>2, <2>2, <2>3
<1>4. ASSUME NEW t \in Templates, NEW n \in 1..MaxSteps, DeployProcess(t, n)
      PROVE  TemplateTypeOK' /\ RecordsOfInstancesAgree'
  BY <1>3, <1>4, OwnersAssumption DEF DeployProcess
<1>5. ASSUME NEW i \in Institutions, NEW sender \in Accounts, NEW t \in Templates,
             NEW n \in 1..MaxSteps, CreateProcessTx(i, sender, t, n)
      PROVE  TemplateTypeOK' /\ RecordsOfInstancesAgree'
  BY <1>3, <1>5, OwnersAssumption DEF CreateProcessTx
<1>6. ASSUME NEW t \in Templates, NEW sender \in Accounts, NEW p \in Instances,
             TemplateTx(t, sender, p)
      PROVE  TemplateTypeOK' /\ RecordsOfInstancesAgree'
  BY <1>1, <1>6, InstantiateKeepsTypes, InstantiateKeepsRecords DEF TemplateTx
<1>7. CASE InstanceTx
  <2>1. UNCHANGED <<template, creator>>
    BY <1>7 DEF InstanceTx, RunInstances, Tick, InstanceStep, ExecuteStep,
                ExecuteStepWithPayment, originVars
  <2>2. UNCHANGED <<blueprintVars, countingVars>>
    BY <1>7 DEF InstanceTx, RunInstances
  <2> QED BY <1>1, <1>2, <2>1, <2>2 DEF TemplateTypeOK, blueprintVars, countingVars
<1>8. ASSUME UNCHANGED templateVars
      PROVE  TemplateTypeOK' /\ RecordsOfInstancesAgree'
  BY <1>1, <1>2, <1>8 DEF TemplateTypeOK, templateVars, countingVars, instanceVars
<1> QED BY <1>4, <1>5, <1>6, <1>7, <1>8 DEF ContractsNext, CreateInstitution, InstitutionTx

-----------------------------------------------------------------------------
LEMMA ContractsNextKeepsInv ==
  ContractsInv /\ [ContractsNext]_contractVars => ContractsInv'
<1>1. ASSUME ContractsInv, ContractsNext
      PROVE  ContractsInv'
  <2>1. InstitutionInv'
    BY <1>1, InstitutionsStep, InstitutionNextKeepsInv DEF ContractsInv
  <2>2. InstanceInv'
    BY <1>1, PartsMakeContractsInv, InstancesStep, InstanceNextKeepsInv
  <2>3. InstitutionsListedOnce' /\ TemplatesListedOnce' /\ TemplateTypeOK'
        /\ RecordsOfInstancesAgree'
    BY <1>1, InstitutionsStayListed, TemplatesStayListed, RecordsStayInAgreement
  <2> QED BY <2>1, <2>2, <2>3, PartsMakeContractsInv, PTL
<1>2. ASSUME ContractsInv, UNCHANGED contractVars
      PROVE  ContractsInv'
  <2>1. InstitutionInv' /\ InstanceInv'
    BY <1>2, InstitutionNextKeepsInv, InstanceNextKeepsInv
       DEF ContractsInv, contractVars, templateVars
  <2>2. /\ InstitutionsListedOnce' /\ TemplatesListedOnce' /\ TemplateTypeOK'
        /\ RecordsOfInstancesAgree'
    <3>1. /\ InstitutionsListedOnce /\ TemplatesListedOnce /\ TemplateTypeOK
          /\ RecordsOfInstancesAgree
      BY <1>2, PartsMakeContractsInv
    <3>2. /\ UNCHANGED <<template, creator>> /\ UNCHANGED <<admin, processes>>
          /\ UNCHANGED <<institutions, deployedProcesses>>
          /\ UNCHANGED <<stepCount, templateCreator>>
          /\ UNCHANGED <<allInstances, userInstances, instantiationCount>>
      BY <1>2 DEF contractVars, templateVars, instanceVars, deployerVars, institutionVars
    <3>3. InstitutionsListedOnce'
      BY <3>1, <3>2 DEF InstitutionsListedOnce
    <3>4. TemplatesListedOnce'
      BY <3>1, <3>2 DEF TemplatesListedOnce, ListsOf
    <3>5. TemplateTypeOK'
      BY <3>1, <3>2 DEF TemplateTypeOK
    <3>6. RecordsOfInstancesAgree'
      BY <3>1, <3>2 DEF RecordsOfInstancesAgree
    <3> QED BY <3>3, <3>4, <3>5, <3>6
  <2> QED BY <2>1, <2>2, PartsMakeContractsInv, PTL
<1> QED BY <1>1, <1>2

\* The inductive invariant holds in every reachable state.
THEOREM ContractsInductive == ContractsSpec => []ContractsInv
BY ContractsBegin, ContractsNextKeepsInv, PTL DEF ContractsSpec

\* Institutions and instances that are created and called through others do nothing
\* that they do not do on their own: what ContractProofs.tla says of each of them
\* holds of all the contracts together.
THEOREM ContractsActAsOnTheirOwn == ContractsSpec => InstitutionSpec /\ InstanceSpec
<1>1. ContractsInit => InstitutionInit /\ InstanceInit
  BY DEF ContractsInit, TemplateInit
<1>2. ContractsInv /\ [ContractsNext]_contractVars
        => [InstitutionNext]_institutionVars /\ [InstanceNext]_instanceVars
  <2>1. ASSUME ContractsInv, ContractsNext
        PROVE  [InstitutionNext]_institutionVars /\ [InstanceNext]_instanceVars
    BY <2>1, InstitutionsStep, InstancesStep, PartsMakeContractsInv
  <2>2. UNCHANGED contractVars => UNCHANGED institutionVars /\ UNCHANGED instanceVars
    BY DEF contractVars, templateVars
  <2> QED BY <2>1, <2>2
<1> QED BY <1>1, <1>2, ContractsInductive, PTL DEF ContractsSpec, InstitutionSpec, InstanceSpec

\* Every contract that exists is listed once, by the contract that created it,
\* for any number of contracts and any order of transactions.
THEOREM EveryContractAlwaysListedOnce == ContractsSpec => []EveryContractListedOnce
<1>1. ContractsInv => EveryContractListedOnce
  BY DEF ContractsInv
<1> QED BY <1>1, ContractsInductive, PTL

\* The counter, the list and the users' lists of a template always agree.
THEOREM RecordsAlwaysAgree == ContractsSpec => []RecordsOfInstancesAgree
<1>1. ContractsInv => RecordsOfInstancesAgree
  BY DEF ContractsInv
<1> QED BY <1>1, ContractsInductive, PTL

-----------------------------------------------------------------------------
(***************************************************************************)
(* The contracts implement ContractForest.tla: of all their storage it     *)
(* keeps the address lists only, and its guards speak of these instead of  *)
(* the contracts' own fields.                                              *)
(***************************************************************************)

LEMMA ForestListed == \A s : Forest!Listed(s) = Listed(s)
BY DEF Forest!Listed, Listed

\* A contract exists exactly if the forest has it.
LEMMA ForestHasWhatExists ==
  ASSUME ContractsInv
  PROVE  /\ \A i \in Institutions : i \in Listed(institutions) <=> admin[i] # ZeroAddress
         /\ \A t \in Templates : t \in Forest!ListedTemplates <=> stepCount[t] # 0
         /\ \A p \in Instances : p \in Forest!ListedInstances <=> Deployed(p)
<1>1. InstitutionsListedOnce /\ TemplatesListedOnce /\ RecordsOfInstancesAgree /\ InstanceTypeOK
  BY PartsMakeContractsInv DEF InstanceInv
<1>2. \A i \in Institutions : i \in Listed(institutions) <=> admin[i] # ZeroAddress
  BY <1>1 DEF InstitutionsListedOnce
<1>3. ASSUME NEW t \in Templates
      PROVE  t \in Forest!ListedTemplates <=> stepCount[t] # 0
  <2>1. t \in Forest!ListedTemplates <=> ListsOf(t) # {}
    <3>1. t \in Forest!ListedTemplates <=>
            \/ t \in Listed(deployedProcesses)
            \/ \E i \in Institutions : t \in Listed(processes[i])
      BY ForestListed DEF Forest!ListedTemplates
    <3> QED BY <3>1, ListsOfMember
  <2> QED BY <1>1, <2>1 DEF TemplatesListedOnce
<1>4. ASSUME NEW p \in Instances
      PROVE  p \in Forest!ListedInstances <=> Deployed(p)
  <2>1. p \in Forest!ListedInstances <=> \E t \in Templates : p \in Listed(allInstances[t])
    BY ForestListed DEF Forest!ListedInstances
  <2>2. \A t \in Templates : p \in Listed(allInstances[t]) <=> template[p] = t
    BY <1>1 DEF RecordsOfInstancesAgree
  <2>3. template[p] \in Templates \cup {ZeroAddress} /\ ZeroAddress \notin Templates
    BY <1>1, InstanceAssumption DEF InstanceTypeOK
  <2> QED BY <2>1, <2>2, <2>3 DEF Deployed
<1> QED BY <1>2, <1>3, <1>4

\* Only an institution that exists has somebody who can publish a process.
LEMMA PublisherNeedsInstitution ==
  ASSUME ContractsInv, NEW i \in Institutions, NEW sender \in Accounts, OnlyMember(i, sender)
  PROVE  admin[i] # ZeroAddress
BY UndeployedHasNoMember, AddressAssumption DEF ContractsInv, OnlyMember, Address

LEMMA InitMapsToForestInit == ContractsInit => Forest!ForestInit
BY DEF ContractsInit, TemplateInit, InstitutionInit, Forest!ForestInit

LEMMA StepMapsToForestStep ==
  ContractsInv /\ [ContractsNext]_contractVars => [Forest!ForestNext]_Forest!forestVars
<1> SUFFICES ASSUME ContractsInv, [ContractsNext]_contractVars
             PROVE  [Forest!ForestNext]_Forest!forestVars
  OBVIOUS
<1>1. ASSUME NEW sender \in Accounts, NEW i \in Institutions, CreateInstitution(sender, i)
      PROVE  Forest!ForestNext
  <2>1. i \notin Listed(institutions)
    BY <1>1, ForestHasWhatExists DEF CreateInstitution, Construct
  <2>2. Forest!ListInstitution(i)
    BY <1>1, <2>1, ForestListed
       DEF CreateInstitution, Construct, templateVars, processVars, Forest!ListInstitution
  <2> QED BY <2>2 DEF Forest!ForestNext
<1>2. ASSUME NEW t \in Templates, NEW n \in 1..MaxSteps, DeployProcess(t, n)
      PROVE  Forest!ForestNext
  <2>1. stepCount[t] = 0 /\ UNCHANGED countingVars
    BY <1>2, NewTemplateIsNoInstanceStep DEF DeployProcess
  <2>2. t \notin Forest!ListedTemplates
    BY <2>1, ForestHasWhatExists
  <2>3. Forest!ListStandalone(t)
    BY <1>2, <2>1, <2>2 DEF DeployProcess, countingVars, institutionVars,
                            Forest!ListStandalone
  <2> QED BY <2>3 DEF Forest!ForestNext
<1>3. ASSUME NEW i \in Institutions, NEW sender \in Accounts, NEW t \in Templates,
             NEW n \in 1..MaxSteps, CreateProcessTx(i, sender, t, n)
      PROVE  Forest!ForestNext
  <2>1. stepCount[t] = 0 /\ UNCHANGED countingVars
    BY <1>3, NewTemplateIsNoInstanceStep DEF CreateProcessTx
  <2>2. t \notin Forest!ListedTemplates /\ i \in Listed(institutions)
    BY <1>3, <2>1, ForestHasWhatExists, PublisherNeedsInstitution
       DEF CreateProcessTx, CreateProcess
  <2>3. Forest!ListProcess(i, t)
    BY <1>3, <2>1, <2>2, ForestListed
       DEF CreateProcessTx, CreateProcess, countingVars, deployerVars, Forest!ListProcess
  <2> QED BY <2>3 DEF Forest!ForestNext
<1>4. ASSUME NEW t \in Templates, NEW sender \in Accounts, NEW p \in Instances,
             TemplateTx(t, sender, p)
      PROVE  Forest!ForestNext
  <2>1. stepCount[t] # 0 /\ ~Deployed(p)
    BY <1>4 DEF TemplateTx, Instantiate, NewInstance
  <2>2. t \in Forest!ListedTemplates /\ p \notin Forest!ListedInstances
    BY <2>1, ForestHasWhatExists
  <2>3. Forest!ListInstance(t, p)
    BY <1>4, <2>2 DEF TemplateTx, Instantiate, deployerVars, institutionVars,
                      Forest!ListInstance
  <2> QED BY <2>3 DEF Forest!ForestNext
<1>5. CASE InstanceTx
  BY <1>5 DEF InstanceTx, RunInstances, countingVars, deployerVars, institutionVars,
              Forest!forestVars
<1>6. ASSUME NEW i \in Institutions, NEW sender \in Accounts, InstitutionTx(i, sender)
      PROVE  UNCHANGED Forest!forestVars
  <2>1. processes' = processes
    <3>1. CASE BindingStep(i, sender)
      BY <3>1 DEF BindingStep, SetInscriptionId, SetRuneId, SetBtcPubkey, processVars
    <3>2. CASE MembershipStep(i, sender)
      BY <3>2 DEF MembershipStep, AddMember, RemoveMember, TransferAdmin, processVars
    <3> QED BY <1>6, <3>1, <3>2 DEF InstitutionTx
  <2> QED BY <1>6, <2>1 DEF InstitutionTx, templateVars, deployerVars, Forest!forestVars
<1>7. CASE UNCHANGED contractVars
  BY <1>7 DEF contractVars, templateVars, deployerVars, institutionVars, Forest!forestVars
<1> QED BY <1>1, <1>2, <1>3, <1>4, <1>5, <1>6, <1>7 DEF ContractsNext

\* Seen through the four lists, every behaviour of the contracts is one of the
\* forest that discovery crawls: nothing is listed twice, moved or taken out.
THEOREM ContractsImplementForest == ContractsSpec => ImplementsForest
BY InitMapsToForestInit, StepMapsToForestStep, ContractsInductive, PTL
   DEF ContractsSpec, ImplementsForest, Forest!ForestSpec
=============================================================================
