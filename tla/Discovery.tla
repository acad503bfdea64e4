----------------------------- MODULE Discovery -----------------------------
(***************************************************************************)
(* discover_binst_contracts (taproot-reader/crates/cli/src/citrea_rpc.rs): *)
(* the scanner crawls the contracts from the address of the deployer, one  *)
(* eth_call at block "latest" after the other, while transactions go on    *)
(* listing new contracts.  A call may fail: the first one ends the crawl,  *)
(* any later one is reported and the lists it would have read are skipped. *)
(***************************************************************************)
EXTENDS ContractForest

CONSTANTS Deployer

\* No address is two contracts.
ASSUME ContractsAssumption ==
  /\ Deployer \notin Institutions \cup Templates
  /\ Institutions \cap Templates = {}
  /\ Institutions \cap Instances = {}
  /\ Templates \cap Instances = {}

VARIABLES
  phase,        \* the numbered part of the function that runs
  next,         \* index of the loop of that part
  foundInstitutions, foundTemplates, foundInstances,    \* the three result vectors
  unread,       \* history: the contracts whose list could not be read
  atStart       \* history: the contracts listed when the crawl began

crawlVars     == <<phase, next, foundInstitutions, foundTemplates, foundInstances,
                   unread, atStart>>
discoveryVars == <<forestVars, crawlVars>>

DiscoveryTypeOK ==
  /\ ForestTypeOK
  /\ phase \in {"institutions", "templates", "instances", "done", "failed"}
  /\ next  \in Nat \ {0}
  /\ foundInstitutions \in Seq(Institutions)
  /\ foundTemplates    \in Seq(Templates)
  /\ foundInstances    \in Seq(Instances)
  /\ unread  \subseteq Institutions \cup Templates \cup {Deployer}
  /\ atStart \subseteq Institutions \cup Templates \cup Instances

DiscoveryInit ==
  /\ ForestInit
  /\ phase = "institutions"
  /\ next = 1
  /\ foundInstitutions = <<>>
  /\ foundTemplates = <<>>
  /\ foundInstances = <<>>
  /\ unread = {}
  /\ atStart = {}

-----------------------------------------------------------------------------
\* 1. deployer.getInstitutions(); without an answer there is nothing to crawl.
ReadInstitutions ==
  /\ phase = "institutions"
  /\ \/ foundInstitutions' = institutions /\ phase' = "templates"
     \/ phase' = "failed" /\ UNCHANGED foundInstitutions
  /\ atStart' = Listed(institutions) \cup ListedTemplates \cup ListedInstances
  /\ UNCHANGED <<forestVars, next, foundTemplates, foundInstances, unread>>

\* Mutant: the loop ends at the first call that fails.
ReadProcessesOrStop ==
  /\ phase = "templates" /\ next <= Len(foundInstitutions)
  /\ LET i == foundInstitutions[next] IN
       \/ /\ foundTemplates' = foundTemplates \o processes[i]
          /\ next' = next + 1
          /\ UNCHANGED unread
       \/ /\ unread' = unread \cup {i}
          /\ next' = Len(foundInstitutions) + 1
          /\ UNCHANGED foundTemplates
  /\ UNCHANGED <<forestVars, phase, foundInstitutions, foundInstances, atStart>>

\* 2. institution.getProcesses() for each institution; templates.extend(addrs).
ReadProcesses ==
  /\ phase = "templates" /\ next <= Len(foundInstitutions)
  /\ LET i == foundInstitutions[next] IN
       \/ foundTemplates' = foundTemplates \o processes[i] /\ UNCHANGED unread
       \/ unread' = unread \cup {i} /\ UNCHANGED foundTemplates
  /\ next' = next + 1
  /\ UNCHANGED <<forestVars, phase, foundInstitutions, foundInstances, atStart>>

\* if !templates.contains(&addr) { templates.push(addr) }
PushNew(s, t) == IF t \in Listed(s) THEN s ELSE Append(s, t)

\* The vector after each turn of the loop over addrs.
Pushed(s, addrs) ==
  LET pushed[n \in 0..Len(addrs)] ==
        IF n = 0 THEN s ELSE PushNew(pushed[n - 1], addrs[n])
  IN  pushed

\* 3. deployer.getDeployedProcesses()
ReadStandalone ==
  /\ phase = "templates" /\ next > Len(foundInstitutions)
  /\ \/ foundTemplates' = Pushed(foundTemplates, deployedProcesses)[Len(deployedProcesses)]
        /\ UNCHANGED unread
     \/ unread' = unread \cup {Deployer} /\ UNCHANGED foundTemplates
  /\ phase' = "instances"
  /\ next' = 1
  /\ UNCHANGED <<forestVars, foundInstitutions, foundInstances, atStart>>

\* Mutant: a call that fails starts the loop over.
ReadInstancesOrRestart ==
  /\ phase = "instances" /\ next <= Len(foundTemplates)
  /\ LET t == foundTemplates[next] IN
       \/ foundInstances' = foundInstances \o allInstances[t] /\ next' = next + 1
       \/ next' = 1 /\ UNCHANGED foundInstances
  /\ UNCHANGED <<forestVars, phase, foundInstitutions, foundTemplates, unread, atStart>>

\* Mutant: a call that fails starts the loop over with an empty vector.
ReadInstancesAfresh ==
  /\ phase = "instances" /\ next <= Len(foundTemplates)
  /\ LET t == foundTemplates[next] IN
       \/ foundInstances' = foundInstances \o allInstances[t] /\ next' = next + 1
       \/ foundInstances' = <<>> /\ next' = 1
  /\ UNCHANGED <<forestVars, phase, foundInstitutions, foundTemplates, unread, atStart>>

\* 4. template.getAllInstances() for each template; instances.extend(addrs).
ReadInstances ==
  /\ phase = "instances" /\ next <= Len(foundTemplates)
  /\ LET t == foundTemplates[next] IN
       \/ foundInstances' = foundInstances \o allInstances[t] /\ UNCHANGED unread
       \/ unread' = unread \cup {t} /\ UNCHANGED foundInstances
  /\ next' = next + 1
  /\ UNCHANGED <<forestVars, phase, foundInstitutions, foundTemplates, atStart>>

\* Ok(DiscoveredContracts { .. })
Return ==
  /\ phase = "instances" /\ next > Len(foundTemplates)
  /\ phase' = "done"
  /\ UNCHANGED <<forestVars, next, foundInstitutions, foundTemplates, foundInstances,
                 unread, atStart>>

Crawl ==
  \/ ReadInstitutions
  \/ ReadProcesses
  \/ ReadStandalone
  \/ ReadInstances
  \/ Return

\* A transaction on the chain between two calls.
ChainGrows == ForestNext /\ UNCHANGED crawlVars

DiscoveryNext == Crawl \/ ChainGrows

\* The process of the scanner runs; nothing is assumed of the chain.
DiscoverySpec ==
  DiscoveryInit /\ [][DiscoveryNext]_discoveryVars /\ WF_discoveryVars(Crawl)

-----------------------------------------------------------------------------
\* All values are of their types, and what is found is on the chain, in the
\* chain's order, and hangs together: each template is listed by the deployer or
\* by a found institution, each instance by a found template, although the calls
\* read different blocks.  No address is returned twice, although only the
\* standalone templates are compared with what was found before.
FoundIsOnChain ==
  /\ DiscoveryTypeOK
  /\ Extends(foundInstitutions, institutions)
  /\ \A t \in Listed(foundTemplates) :
       \/ t \in Listed(deployedProcesses)
       \/ \E i \in Listed(foundInstitutions) : t \in Listed(processes[i])
  /\ \A p \in Listed(foundInstances) :
       \E t \in Listed(foundTemplates) : p \in Listed(allInstances[t])
  /\ Distinct(foundInstitutions) /\ Distinct(foundTemplates) /\ Distinct(foundInstances)

\* A finished crawl has every contract that was listed when it began, unless the
\* call that would have listed it, or one of its parents, failed: what is listed
\* during the crawl never pushes it aside.
CompleteSinceStart ==
  phase = "done" =>
    /\ atStart \cap Institutions \subseteq Listed(foundInstitutions)
    /\ \A i \in Institutions \ unread :
         atStart \cap Listed(processes[i]) \subseteq Listed(foundTemplates)
    /\ Deployer \notin unread =>
         atStart \cap Listed(deployedProcesses) \subseteq Listed(foundTemplates)
    /\ \A t \in Listed(foundTemplates) \ unread :
         atStart \cap Listed(allInstances[t]) \subseteq Listed(foundInstances)

\* The crawl ends, however fast the chain grows and whichever calls fail.
CrawlEnds == <>(phase \in {"done", "failed"})
=============================================================================
