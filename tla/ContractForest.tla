--------------------------- MODULE ContractForest ---------------------------
(***************************************************************************)
(* The contracts of one BINSTDeployer seen through the four view functions *)
(* that list addresses: getInstitutions and getDeployedProcesses of the    *)
(* deployer, getProcesses of an institution, getAllInstances of a          *)
(* template.  It is a forest that only grows: every contract is listed by  *)
(* one parent, at an index that never changes.                             *)
(*                                                                         *)
(* BINSTContracts.tla implements it; Discovery.tla crawls it.              *)
(***************************************************************************)
EXTENDS Arrays

CONSTANTS Institutions, Templates, Instances

VARIABLES institutions, deployedProcesses, processes, allInstances

forestVars == <<institutions, deployedProcesses, processes, allInstances>>

ForestTypeOK ==
  /\ institutions      \in Seq(Institutions)
  /\ deployedProcesses \in Seq(Templates)
  /\ processes         \in [Institutions -> Seq(Templates)]
  /\ allInstances      \in [Templates -> Seq(Instances)]

ForestInit ==
  /\ institutions      = <<>>
  /\ deployedProcesses = <<>>
  /\ processes         = [i \in Institutions |-> <<>>]
  /\ allInstances      = [t \in Templates |-> <<>>]

\* Every template, and every instance, that some contract lists.
ListedTemplates ==
  Listed(deployedProcesses) \cup UNION {Listed(processes[i]) : i \in Institutions}

ListedInstances == UNION {Listed(allInstances[t]) : t \in Templates}

ListInstitution(i) ==
  /\ i \notin Listed(institutions)
  /\ institutions' = Append(institutions, i)
  /\ UNCHANGED <<deployedProcesses, processes, allInstances>>

ListStandalone(t) ==
  /\ t \notin ListedTemplates
  /\ deployedProcesses' = Append(deployedProcesses, t)
  /\ UNCHANGED <<institutions, processes, allInstances>>

ListProcess(i, t) ==
  /\ i \in Listed(institutions)
  /\ t \notin ListedTemplates
  /\ processes' = [processes EXCEPT ![i] = Append(@, t)]
  /\ UNCHANGED <<institutions, deployedProcesses, allInstances>>

ListInstance(t, p) ==
  /\ t \in ListedTemplates
  /\ p \notin ListedInstances
  /\ allInstances' = [allInstances EXCEPT ![t] = Append(@, p)]
  /\ UNCHANGED <<institutions, deployedProcesses, processes>>

ForestNext ==
  \/ \E i \in Institutions : ListInstitution(i)
  \/ \E t \in Templates : ListStandalone(t)
  \/ \E i \in Institutions, t \in Templates : ListProcess(i, t)
  \/ \E t \in Templates, p \in Instances : ListInstance(t, p)

ForestSpec == ForestInit /\ [][ForestNext]_forestVars
=============================================================================
