------------------------ MODULE MCScannedContracts ------------------------
(***************************************************************************)
(* Model of ScannedContracts.tla: one registered institution, or one       *)
(* process that is registered or was created too late to be.               *)
(***************************************************************************)
EXTENDS ScannedContracts, TLC

Registry(institutions, instances) ==
  [k \in Kinds |-> IF k = "Institution" THEN institutions
                   ELSE IF k = "ProcessInstance" THEN instances
                   ELSE {}]

MCRegistries == {Registry({}, {}), Registry(Institutions, {}), Registry({}, Instances)}

\* The contracts share no word, so that a scan that has institutions in its registry
\* is followed through transactions on those alone, and any other through
\* transactions on instances.  Batches that change nothing are left out.
Focus ==
  /\ IF registry["Institution"] = {} THEN UNCHANGED institutionVars
                                     ELSE UNCHANGED instanceVars
  /\ Len(proofs') > Len(proofs) => Storage # StorageAt(Len(proofs))

Symmetry == Permutations(Accounts) \cup Permutations(PubKeys)
=============================================================================
