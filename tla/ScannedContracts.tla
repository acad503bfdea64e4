-------------------------- MODULE ScannedContracts --------------------------
(***************************************************************************)
(* The scanner of Scanner.tla over the storage of the institutions of      *)
(* Institution.tla and of the process instances of ProcessInstance.tla:    *)
(* what can be learnt about them from Bitcoin.                             *)
(***************************************************************************)
EXTENDS Institution, ProcessInstance, Scanner

CONSTANTS
  Registries,   \* what the command line, or discovery, may register
  MaxBatches    \* bound: closed batches

contractVars == <<institutionVars, instanceVars>>
scannedVars  == <<contractVars, scannerVars>>

\* No two contracts have an address in common; no address is registered as two kinds.
ASSUME ScannedAssumption ==
  /\ MaxBatches \in Nat
  /\ Institutions \cap Instances = {}
  /\ \A r \in Registries :
       /\ DOMAIN r = Kinds
       /\ r["Institution"] \subseteq Institutions
       /\ r["ProcessInstance"] \subseteq Instances
       /\ r["BINSTDeployer"] = {} /\ r["ProcessTemplate"] = {}

\* A number, a flag and the state of a step can be read back from what is printed.
ASSUME DecodingAssumption ==
  /\ \A n \in Index : DecodeRaw("Uint256", n) = Decoded("Uint256", n)
  /\ DecodeRaw("Bool", TRUE) = Decoded("Bool", TRUE)
  /\ \A status \in StepStatus, a \in Address :
       LET word == [status |-> status, actor |-> a]
       IN  DecodeRaw("StepState", word) = Decoded("StepState", word)

-----------------------------------------------------------------------------
\* The words of institution i that are not zero, as solc lays them out for the
\* declarations of Institution.sol.  The texts of an inscription id (66 and
\* more bytes) are elsewhere: slot 3 itself only has their length.
InstitutionSlots(i) ==
  IF admin[i] = ZeroAddress THEN {}
  ELSE {Plain(0), Plain(1), Plain(2), Plain(6)}
         \cup {Plain(3) : x \in {inscriptionId[i]} \ {Unset}}
         \cup {Plain(4) : x \in {runeId[i]} \ {Unset}}
         \cup {Plain(5) : x \in {btcPubkey[i]} \ {Unset}}
         \cup {Plain(8) : x \in Listed(processes[i])}
         \cup {Element(6, k - 1) : k \in 1..Len(members[i])}
         \cup {Element(8, k - 1) : k \in 1..Len(processes[i])}
         \cup {Mapped(7, a) : a \in {b \in Address : isMember[i][b]}}

InstitutionWord(i, s) ==
  CASE s.area = "plain"  -> (CASE s.at = 0 -> "name"
                               [] s.at = 1 -> admin[i]
                               [] s.at = 2 -> "deployer"
                               [] s.at = 3 -> "long string"
                               [] s.at = 4 -> runeId[i]
                               [] s.at = 5 -> btcPubkey[i]
                               [] s.at = 6 -> Len(members[i])
                               [] s.at = 8 -> Len(processes[i]))
    [] s.area = "element" -> IF s.at = 6 THEN members[i][s.key + 1]
                                         ELSE processes[i][s.key + 1]
    [] s.area = "mapped"  -> isMember[i][s.key]

\* The words of instance p that are not zero, as solc lays them out for the
\* declarations of ProcessInstance.sol: a StepState has its status and actor in
\* its first word, its evidence and its time in two more.
InstanceSlots(p) ==
  IF ~Deployed(p) THEN {}
  ELSE {Plain(0), Plain(1), Plain(3), Plain(5)}
         \cup {Plain(2) : n \in {currentStepIndex[p]} \ {0}}
         \cup (IF completed[p] THEN {Plain(4)} ELSE {})
         \cup {Slot(area, 6, k) : area \in {"mapped", "timestamp"},
                                  k \in {n \in Index : stepStates[p][n].status # "Pending"}}

StepWord(step) == [status |-> step.status, actor |-> step.actor]

InstanceWord(p, s) ==
  CASE s.area = "plain"     -> (CASE s.at = 0 -> template[p]
                                  [] s.at = 1 -> creator[p]
                                  [] s.at = 2 -> currentStepIndex[p]
                                  [] s.at = 3 -> totalSteps[p]
                                  [] s.at = 4 -> completed[p]
                                  [] s.at = 5 -> createdAt[p])
    [] s.area = "mapped"    -> StepWord(stepStates[p][s.key])
    [] s.area = "timestamp" -> stepStates[p][s.key].timestamp

Storage ==
  [w \in (UNION {{<<i, s>> : s \in InstitutionSlots(i)} : i \in Institutions})
           \cup (UNION {{<<p, s>> : s \in InstanceSlots(p)} : p \in Instances}) |->
     IF w[1] \in Institutions THEN InstitutionWord(w[1], w[2]) ELSE InstanceWord(w[1], w[2])]

\* What the getters of the contracts answer.
View ==
  [institutions |->
     [i \in Institutions |->
        [admin |-> admin[i], members |-> members[i], processes |-> processes[i],
         btcPubkey |-> btcPubkey[i]]],
   instances |->
     [p \in Instances |->
        [template |-> template[p], totalSteps |-> totalSteps[p],
         currentStepIndex |-> currentStepIndex[p],
         completed |-> completed[p], steps |-> stepStates[p]]]]

ScannedInit ==
  /\ InstitutionInit
  /\ InstanceInit
  /\ ScannerInit(Registries)

\* A transaction on a contract.
Transact ==
  /\ Len(proofs) < MaxBatches
  /\ \/ InstitutionNext /\ UNCHANGED instanceVars
     \/ InstanceNext /\ UNCHANGED institutionVars
  /\ UNCHANGED scannerVars

Prove ==
  /\ Len(proofs) < MaxBatches
  /\ CloseBatch(Storage, View)
  /\ UNCHANGED contractVars

Mine == MineBlock /\ UNCHANGED contractVars

ScanOn == Scan /\ UNCHANGED contractVars

ScannedNext == Transact \/ Prove \/ Mine \/ ScanOn

ScannedSpec == ScannedInit /\ [][ScannedNext]_scannedVars

-----------------------------------------------------------------------------
\* The values a reader of the printed changes has for an array of addresses.
LatestArray(i, length, element, array) ==
  /\ Latest(i, Field(length, 0)) =
       IF array = <<>> THEN Deleted ELSE DecodeRaw("Uint256", Len(array))
  /\ \A k \in 1..TableElements :
       Latest(i, Field(element, k - 1)) =
         IF k <= Len(array) THEN DecodeRaw("Address", array[k]) ELSE Deleted

\* The printed changes are enough to know the institution without asking the L2:
\* after a scan from the first block without a gap, the last values printed are
\* what the contract's getters answered at the end of the last proven batch,
\* with members swapped and popped and several transactions in each batch.  The
\* array elements beyond the table are the exception.
ReaderFollowsContract ==
  NoGap /\ printed # <<>> =>
    LET view == LastView.institutions IN
      \A i \in registry["Institution"] :
          /\ Latest(i, Field("InstitutionAdmin", 0)) =
               IF view[i].admin = ZeroAddress THEN Deleted
               ELSE DecodeRaw("Address", view[i].admin)
          /\ Latest(i, Field("InstitutionBtcPubkey", 0)) =
               IF view[i].btcPubkey = Unset THEN Deleted
               ELSE DecodeRaw("Bytes32", view[i].btcPubkey)
          /\ LatestArray(i, "InstitutionMembersLength", "InstitutionMemberElement",
                         view[i].members)
          /\ LatestArray(i, "InstitutionProcessesLength", "InstitutionProcessElement",
                         view[i].processes)

\* The printed changes are enough to know how far a process is, and who signed
\* off its steps, without asking the L2: after a scan without a gap the last
\* values printed are what the contract's getters answered at the end of the
\* last proven batch.  Steps beyond the table, evidence and times are not.
ReaderFollowsProcess ==
  NoGap /\ printed # <<>> =>
    LET view == LastView.instances IN
      \A p \in registry["ProcessInstance"] : view[p].template # ZeroAddress =>
        /\ Latest(p, Field("InstanceTemplate", 0)) = DecodeRaw("Address", view[p].template)
        /\ Latest(p, Field("InstanceTotalSteps", 0)) =
             DecodeRaw("Uint256", view[p].totalSteps)
        /\ Latest(p, Field("InstanceCurrentStepIndex", 0)) =
             IF view[p].currentStepIndex = 0 THEN Deleted
             ELSE DecodeRaw("Uint256", view[p].currentStepIndex)
        /\ Latest(p, Field("InstanceCompleted", 0)) =
             IF view[p].completed THEN DecodeRaw("Bool", TRUE) ELSE Deleted
        /\ \A k \in {n \in Index : n < TableSteps} :
             Latest(p, Field("InstanceStepState", k)) =
               IF view[p].steps[k].status = "Pending" THEN Deleted
               ELSE DecodeRaw("StepState", StepWord(view[p].steps[k]))

\* What Bitcoin says of a completed step is final: a step printed as completed
\* is printed once, in no batch before it as completed and in none after it.
StepsStayCompleted ==
  \A m, n \in 1..Len(printed) : m < n =>
    \A c \in printed[m].changes, d \in printed[n].changes :
      c.field.name = "InstanceStepState" /\ c.address = d.address /\ c.field = d.field
        => c.decoded # Deleted /\ c.decoded.value[1].status # "Completed"

\* A scan never shows a process as completed before it has shown every step the
\* table has as completed: no proof carries half of a transaction.
CompletionComesWithItsSteps ==
  NoGap =>
    \A p \in registry["ProcessInstance"] :
      Latest(p, Field("InstanceCompleted", 0)) = DecodeRaw("Bool", TRUE) =>
        LET total == Latest(p, Field("InstanceTotalSteps", 0)).value[1] IN
          \A k \in {n \in Index : n < TableSteps /\ n < total} :
            LET step == Latest(p, Field("InstanceStepState", k)) IN
              step # Deleted /\ step.value[1].status = "Completed"

\* A completion that is printed, of a step or of the process, can be relied on.
PrintedCompletionsHold == StepsStayCompleted /\ CompletionComesWithItsSteps
=============================================================================
