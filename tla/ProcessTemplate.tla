-------------------------- MODULE ProcessTemplate --------------------------
(***************************************************************************)
(* contracts/process/ProcessTemplate.sol together with the ProcessInstance *)
(* contracts it deploys.  A template is its number of steps (the texts of  *)
(* a step are opaque), its creator and three records of its instances: a   *)
(* counter, a list and one list per user.                                  *)
(***************************************************************************)
EXTENDS ProcessInstance, Arrays

CONSTANTS Owners    \* contracts and accounts that deploy templates

ASSUME TemplateAssumption == ZeroAddress \notin Owners

VARIABLES
  stepCount,            \* template -> steps.length, 0 before it is deployed
  templateCreator,      \* template -> creator
  allInstances,         \* template -> allInstances array
  userInstances,        \* template -> account -> userInstances array
  instantiationCount    \* template -> instantiationCount

blueprintVars == <<stepCount, templateCreator>>
countingVars  == <<allInstances, userInstances, instantiationCount>>
templateVars  == <<instanceVars, stepCount, templateCreator, allInstances,
                   userInstances, instantiationCount>>

TemplateTypeOK ==
  /\ stepCount          \in [Templates -> 0..MaxSteps]
  /\ templateCreator    \in [Templates -> Owners \cup {ZeroAddress}]
  /\ allInstances       \in [Templates -> Seq(Instances)]
  /\ userInstances      \in [Templates -> [Accounts -> Seq(Instances)]]
  /\ instantiationCount \in [Templates -> Nat]

TemplateInit ==
  /\ InstanceInit
  /\ stepCount          = [t \in Templates |-> 0]
  /\ templateCreator    = [t \in Templates |-> ZeroAddress]
  /\ allInstances       = [t \in Templates |-> <<>>]
  /\ userInstances      = [t \in Templates |-> [a \in Accounts |-> <<>>]]
  /\ instantiationCount = [t \in Templates |-> 0]

\* The constructor: names, descriptions, actionTypes and configs are the
\* lengths of its four arrays, which must be one and the same, and not zero.
NewTemplate(t, sender, names, descriptions, actionTypes, configs) ==
  /\ stepCount[t] = 0                     \* CREATE always gives a fresh address
  /\ names = descriptions /\ names = actionTypes /\ names = configs
  /\ names > 0
  /\ stepCount' = [stepCount EXCEPT ![t] = names]
  /\ templateCreator' = [templateCreator EXCEPT ![t] = sender]
  /\ UNCHANGED <<instanceVars, countingVars>>

\* Mutant: the user's list gets the newest instance first.
InstantiateNewestFirst(t, sender, p) ==
  /\ stepCount[t] # 0
  /\ NewInstance(p, t, sender, stepCount[t])
  /\ allInstances' = [allInstances EXCEPT ![t] = Append(@, p)]
  /\ userInstances' = [userInstances EXCEPT ![t][sender] = <<p>> \o @]
  /\ instantiationCount' = [instantiationCount EXCEPT ![t] = @ + 1]
  /\ UNCHANGED blueprintVars

\* Anyone may instantiate; the instance's constructor calls getStepCount().
Instantiate(t, sender, p) ==
  /\ stepCount[t] # 0
  /\ NewInstance(p, t, sender, stepCount[t])
  /\ allInstances' = [allInstances EXCEPT ![t] = Append(@, p)]
  /\ userInstances' = [userInstances EXCEPT ![t][sender] = Append(@, p)]
  /\ instantiationCount' = [instantiationCount EXCEPT ![t] = @ + 1]
  /\ UNCHANGED blueprintVars

\* A transaction on an instance, or a new block: the templates do not change.
RunInstances ==
  /\ Tick \/ \E p \in Instances, sender \in Accounts : InstanceStep(p, sender)
  /\ UNCHANGED <<blueprintVars, countingVars>>

-----------------------------------------------------------------------------
\* Three records of the same thing agree, however instantiations of several
\* templates by several users interleave: the counter is the length of the list,
\* the list holds each instance of the template exactly once, and the list of a
\* user is the part of it that the user created, in the same order, so that
\* getUserInstances() and getAllInstances() can be read side by side.
RecordsOfInstancesAgree ==
  \A t \in Templates :
    /\ instantiationCount[t] = Len(allInstances[t])
    /\ Listed(allInstances[t]) = {p \in Instances : template[p] = t}
    /\ Distinct(allInstances[t])
    /\ \A a \in Accounts :
         IsPartOf(userInstances[t][a], allInstances[t], {p \in Instances : creator[p] = a})
=============================================================================
