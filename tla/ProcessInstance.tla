-------------------------- MODULE ProcessInstance --------------------------
(***************************************************************************)
(* contracts/process/ProcessInstance.sol.  Each variable is a storage      *)
(* field, as a function of the instance's address; one action is one       *)
(* successful transaction of msg.sender.  The evidence string of a step is *)
(* opaque to the contract and left out.                                    *)
(***************************************************************************)
EXTENDS Addresses, Integers, Sequences

CONSTANTS
  Instances,      \* addresses at which ProcessInstances are deployed
  MaxSteps,       \* bound: steps of a template
  MaxValue,       \* bound: wei of one payment
  MaxTime         \* bound: block.timestamp

ASSUME InstanceAssumption ==
  /\ ZeroAddress \notin Accounts \cup Templates \cup Instances
  /\ MaxSteps \in Nat \ {0}
  /\ MaxValue \in Nat
  /\ MaxTime \in Nat

VARIABLES
  template, creator, currentStepIndex, totalSteps, completed, createdAt,
  stepStates,     \* instance -> step index -> StepState
  balance,        \* instance -> wei held by the contract
  now             \* block.timestamp

instanceVars == <<template, creator, currentStepIndex, totalSteps, completed,
                  createdAt, stepStates, balance, now>>
originVars   == <<template, creator, totalSteps, createdAt>>

\* Indices the stepStates mapping could be written at: it has no bound of its
\* own, so one index past the last step of the longest template is included.
Index == 0..MaxSteps

StepStatus == {"Pending", "Completed", "Rejected"}
StepState  == [status : StepStatus, actor : Accounts \cup {ZeroAddress}, timestamp : 0..MaxTime]
Blank      == [status |-> "Pending", actor |-> ZeroAddress, timestamp |-> 0]

Deployed(p) == template[p] # ZeroAddress

InstanceTypeOK ==
  /\ template         \in [Instances -> Templates \cup {ZeroAddress}]
  /\ creator          \in [Instances -> Accounts \cup {ZeroAddress}]
  /\ currentStepIndex \in [Instances -> Index]
  /\ totalSteps       \in [Instances -> Index]
  /\ completed        \in [Instances -> BOOLEAN]
  /\ createdAt        \in [Instances -> 0..MaxTime]
  /\ stepStates       \in [Instances -> [Index -> StepState]]
  /\ balance          \in [Instances -> Nat]
  /\ now              \in 0..MaxTime

InstanceInit ==
  /\ template         = [p \in Instances |-> ZeroAddress]
  /\ creator          = [p \in Instances |-> ZeroAddress]
  /\ currentStepIndex = [p \in Instances |-> 0]
  /\ totalSteps       = [p \in Instances |-> 0]
  /\ completed        = [p \in Instances |-> FALSE]
  /\ createdAt        = [p \in Instances |-> 0]
  /\ stepStates       = [p \in Instances |-> [k \in Index |-> Blank]]
  /\ balance          = [p \in Instances |-> 0]
  /\ now              = 0

\* Mutant: the creator is the msg.sender of the constructor, the template.
NewInstanceOfSender(p, t, sender, n) ==
  /\ ~Deployed(p)
  /\ template'   = [template EXCEPT ![p] = t]
  /\ creator'    = [creator EXCEPT ![p] = t]
  /\ totalSteps' = [totalSteps EXCEPT ![p] = n]
  /\ createdAt'  = [createdAt EXCEPT ![p] = now]
  /\ UNCHANGED <<currentStepIndex, completed, stepStates, balance, now>>

\* The constructor; n is the answer of the template's getStepCount().
NewInstance(p, t, sender, n) ==
  /\ ~Deployed(p)
  /\ template'   = [template EXCEPT ![p] = t]
  /\ creator'    = [creator EXCEPT ![p] = sender]
  /\ totalSteps' = [totalSteps EXCEPT ![p] = n]
  /\ createdAt'  = [createdAt EXCEPT ![p] = now]
  /\ UNCHANGED <<currentStepIndex, completed, stepStates, balance, now>>

\* stepStates[currentStepIndex] = StepState(...)
Record(p, sender, status) ==
  stepStates' = [stepStates EXCEPT
    ![p][currentStepIndex[p]] = [status |-> status, actor |-> sender, timestamp |-> now]]

\* Mutant: completion is noticed one step late.
AdvanceLate(p) ==
  /\ currentStepIndex' = [currentStepIndex EXCEPT ![p] = @ + 1]
  /\ completed' = [completed EXCEPT ![p] = @ \/ currentStepIndex[p] >= totalSteps[p]]

\* currentStepIndex++; completed = true once it reaches totalSteps
Advance(p) ==
  /\ currentStepIndex' = [currentStepIndex EXCEPT ![p] = @ + 1]
  /\ completed' = [completed EXCEPT ![p] = @ \/ currentStepIndex[p] + 1 >= totalSteps[p]]

\* Mutant: a rejection sends the process back to the previous step.
RejectReopens(p, sender, status) ==
  /\ Deployed(p)
  /\ ~completed[p]
  /\ status # "Pending"
  /\ Record(p, sender, status)
  /\ IF status = "Completed"
     THEN Advance(p)
     ELSE /\ currentStepIndex' =
               [currentStepIndex EXCEPT ![p] = IF @ > 0 THEN @ - 1 ELSE 0]
          /\ UNCHANGED completed
  /\ UNCHANGED <<originVars, balance, now>>

\* Mutant: a rejected step cannot be executed again.
RejectIsTerminal(p, sender, status) ==
  /\ Deployed(p)
  /\ ~completed[p]
  /\ status # "Pending"
  /\ stepStates[p][currentStepIndex[p]].status = "Pending"
  /\ Record(p, sender, status)
  /\ IF status = "Completed" THEN Advance(p) ELSE UNCHANGED <<currentStepIndex, completed>>
  /\ UNCHANGED <<originVars, balance, now>>

\* Anyone may execute the current step; a rejection leaves it current.
ExecuteStep(p, sender, status) ==
  /\ Deployed(p)
  /\ ~completed[p]
  /\ status # "Pending"
  /\ Record(p, sender, status)
  /\ IF status = "Completed" THEN Advance(p) ELSE UNCHANGED <<currentStepIndex, completed>>
  /\ UNCHANGED <<originVars, balance, now>>

\* Mutant: a payment is taken without asking whether a step is left.
PayAfterCompletion(p, sender, value) ==
  /\ Deployed(p)
  /\ currentStepIndex[p] < MaxSteps
  /\ value > 0
  /\ Record(p, sender, "Completed")
  /\ Advance(p)
  /\ balance' = [balance EXCEPT ![p] = @ + value]
  /\ UNCHANGED <<originVars, now>>

\* A payment always completes the step; the contract keeps the value.
ExecuteStepWithPayment(p, sender, value) ==
  /\ Deployed(p)
  /\ ~completed[p]
  /\ value > 0
  /\ Record(p, sender, "Completed")
  /\ Advance(p)
  /\ balance' = [balance EXCEPT ![p] = @ + value]
  /\ UNCHANGED <<originVars, now>>

\* A later block.
Tick ==
  /\ now < MaxTime
  /\ now' = now + 1
  /\ UNCHANGED <<originVars, currentStepIndex, completed, stepStates, balance>>

InstanceStep(p, sender) ==
  \/ \E status \in StepStatus : ExecuteStep(p, sender, status)
  \/ \E value \in 0..MaxValue : ExecuteStepWithPayment(p, sender, value)

InstanceNext ==
  \/ \E p \in Instances, sender \in Accounts :
       \/ \E t \in Templates, n \in 1..MaxSteps : NewInstance(p, t, sender, n)
       \/ InstanceStep(p, sender)
  \/ Tick

InstanceSpec == InstanceInit /\ [][InstanceNext]_instanceVars

\* Somebody keeps trying to complete whatever step is current.  This is a
\* promise of the users and not of the code; under it, nothing the contract
\* does may stand in the way.
SomebodyCompletes ==
  \A p \in Instances :
    WF_instanceVars(\E sender \in Accounts : ExecuteStep(p, sender, "Completed"))

FairInstanceSpec == InstanceSpec /\ SomebodyCompletes

-----------------------------------------------------------------------------
\* The progress counter and the per-step records tell the same story, whichever
\* of the two handlers executed each step: the steps before the current one are
\* completed, the current one is untouched or rejected, the later ones are
\* untouched, no step beyond the template's exists, and the process is
\* completed exactly when none is left.
ProgressMatchesRecords ==
  \A p \in Instances :
    LET cur == currentStepIndex[p] IN
    /\ cur <= totalSteps[p]
    /\ completed[p] <=> Deployed(p) /\ cur = totalSteps[p]
    /\ \A k \in Index :
         /\ k < cur => stepStates[p][k].status = "Completed"
         /\ k = cur /\ k < totalSteps[p] => stepStates[p][k].status # "Completed"
         /\ k > cur \/ k >= totalSteps[p] => stepStates[p][k] = Blank

\* The recorded times are in the order of the steps, start no earlier than the
\* instance's creation and are never in the future.
TimesFollowSteps ==
  \A p \in Instances : \A k \in Index :
    stepStates[p][k].status # "Pending" =>
      /\ createdAt[p] <= stepStates[p][k].timestamp
      /\ stepStates[p][k].timestamp <= now
      /\ \A j \in 0..(k-1) : stepStates[p][j].timestamp <= stepStates[p][k].timestamp

\* The record of a completed step (who signed it off and when) is final, even
\* though both handlers overwrite stepStates without looking at what is there.
CompletedStepsAreFinal ==
  [][\A p \in Instances : \A k \in Index :
       stepStates[p][k].status = "Completed" => stepStates'[p][k] = stepStates[p][k]]_instanceVars

\* Value paid with a step stays in the instance for good, and a completed
\* instance takes no more: its balance is what its steps brought in.
PaidValueStays ==
  [][\A p \in Instances :
       /\ balance'[p] >= balance[p]
       /\ balance'[p] # balance[p] =>
            ~completed[p] /\ currentStepIndex'[p] = currentStepIndex[p] + 1]_instanceVars

\* No sequence of rejections and payments makes a process impossible to finish:
\* it completes if somebody keeps completing the step that is current.
EveryProcessCanFinish ==
  \A p \in Instances : Deployed(p) ~> completed[p]

\* The completed steps are an append-only log of totalSteps entries at most.
CompletedLog(p) ==
  [k \in 1..currentStepIndex[p] |->
     [actor |-> stepStates[p][k-1].actor, timestamp |-> stepStates[p][k-1].timestamp]]

Log == INSTANCE StepLog WITH
         log    <- [p \in Instances |-> CompletedLog(p)],
         size   <- totalSteps,
         closed <- completed

ImplementsStepLog == Log!Spec
=============================================================================
