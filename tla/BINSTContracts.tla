--------------------------- MODULE BINSTContracts ---------------------------
(***************************************************************************)
(* All the contracts of one BINSTDeployer, running together on the L2: the *)
(* deployer (contracts/BINSTDeployer.sol), its institutions, their         *)
(* templates and the instances of these.  One action is one transaction,   *)
(* with every contract it creates or calls.                                *)
(***************************************************************************)
EXTENDS ProcessTemplate, Institution

CONSTANTS Deployer    \* address of the BINSTDeployer

\* The deployer is a contract of its own, at an address no institution has.
ASSUME OwnersAssumption ==
  /\ Owners = Institutions \cup {Deployer}
  /\ Deployer \notin Institutions

VARIABLES institutions, deployedProcesses   \* the two arrays of the deployer

deployerVars == <<institutions, deployedProcesses>>
contractVars == <<templateVars, deployerVars, institutionVars>>

ContractsTypeOK ==
  /\ InstanceTypeOK
  /\ TemplateTypeOK
  /\ TypeOK
  /\ institutions \in Seq(Institutions)
  /\ deployedProcesses \in Seq(Templates)

ContractsInit ==
  /\ TemplateInit
  /\ InstitutionInit
  /\ institutions = <<>>
  /\ deployedProcesses = <<>>

\* A template of n steps; a call whose arrays differ in length reverts.
Template(t, owner, n) == NewTemplate(t, owner, n, n, n, n)

\* Mutant: the newest institution is put first.
CreateInstitutionInFront(sender, i) ==
  /\ Construct(i, sender)
  /\ institutions' = <<i>> \o institutions
  /\ UNCHANGED <<templateVars, deployedProcesses>>

\* BINSTDeployer.createInstitution
CreateInstitution(sender, i) ==
  /\ Construct(i, sender)
  /\ institutions' = Append(institutions, i)
  /\ UNCHANGED <<templateVars, deployedProcesses>>

\* BINSTDeployer.deployProcess: the template's msg.sender is the deployer.
DeployProcess(t, n) ==
  /\ Template(t, Deployer, n)
  /\ deployedProcesses' = Append(deployedProcesses, t)
  /\ UNCHANGED <<institutions, institutionVars>>

\* Mutant: the template is listed by the deployer, too.
CreateProcessListedTwice(i, sender, t, n) ==
  /\ CreateProcess(i, sender, t)
  /\ Template(t, i, n)
  /\ deployedProcesses' = Append(deployedProcesses, t)
  /\ UNCHANGED institutions

\* Institution.createProcess: the template's msg.sender is the institution.
CreateProcessTx(i, sender, t, n) ==
  /\ CreateProcess(i, sender, t)
  /\ Template(t, i, n)
  /\ UNCHANGED deployerVars

\* A transaction on a template or an instance, or a new block.
TemplateTx(t, sender, p) ==
  /\ Instantiate(t, sender, p)
  /\ UNCHANGED <<deployerVars, institutionVars>>

InstanceTx ==
  /\ RunInstances
  /\ UNCHANGED <<deployerVars, institutionVars>>

\* A transaction on an institution that creates no contract.
InstitutionTx(i, sender) ==
  /\ MembershipStep(i, sender) \/ BindingStep(i, sender)
  /\ UNCHANGED <<templateVars, deployerVars>>

ContractsNext ==
  \/ \E sender \in Accounts, i \in Institutions : CreateInstitution(sender, i)
  \/ \E t \in Templates, n \in 1..MaxSteps : DeployProcess(t, n)
  \/ \E i \in Institutions, sender \in Accounts, t \in Templates, n \in 1..MaxSteps :
       CreateProcessTx(i, sender, t, n)
  \/ \E t \in Templates, sender \in Accounts, p \in Instances : TemplateTx(t, sender, p)
  \/ InstanceTx
  \/ \E i \in Institutions, sender \in Accounts : InstitutionTx(i, sender)

ContractsSpec == ContractsInit /\ [][ContractsNext]_contractVars

-----------------------------------------------------------------------------
\* The arrays in which a template is listed: the deployer's or an institution's.
ListsOf(t) ==
  {o \in Owners : t \in Listed(IF o = Deployer THEN deployedProcesses ELSE processes[o])}

\* All values are of their types, and every contract that exists can be reached
\* from the deployer in one way: an institution is listed once by the deployer, a
\* template once by the very contract it names as its creator, an instance by the
\* template it names.
EveryContractListedOnce ==
  /\ ContractsTypeOK
  /\ Listed(institutions) = {i \in Institutions : admin[i] # ZeroAddress}
  /\ Distinct(institutions)
  /\ Distinct(deployedProcesses)
  /\ \A i \in Institutions : Distinct(processes[i])
  /\ \A t \in Templates :
       ListsOf(t) = IF stepCount[t] = 0 THEN {} ELSE {templateCreator[t]}
  /\ \A p \in Instances : Deployed(p) => p \in Listed(allInstances[template[p]])

\* Seen through the address lists, the contracts are a forest that only grows.
Forest == INSTANCE ContractForest

ImplementsForest == Forest!ForestSpec
=============================================================================
