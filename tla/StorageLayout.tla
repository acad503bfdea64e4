--------------------------- MODULE StorageLayout ---------------------------
(***************************************************************************)
(* How the scanner reads contract storage (taproot-reader/crates/          *)
(* binst-decoder/src: storage.rs, diff.rs, value.rs).  The JMT key of a    *)
(* word is a hash of (contract, slot); the decoder hashes every slot it    *)
(* cares about beforehand and looks the keys of a state diff up in that    *)
(* table.  SHA-256 and Keccak are taken as injective: a key is the pair    *)
(* itself, a slot is named by how it is computed.                          *)
(***************************************************************************)
EXTENDS Integers, Sequences

CONSTANTS
  TableElements,    \* array elements per array in the table (256 in the code)
  TableSteps,       \* steps per instance in the table (64)
  ArrayLimit,       \* indices check_array_element accepts (10_000)
  DecodeRaw(_, _)   \* type and value -> what decode_value makes of it; DecodeRawValue
                    \* of Words.tla where values are bytes

ASSUME LayoutAssumption ==
  /\ TableElements \in Nat /\ TableSteps \in Nat /\ ArrayLimit \in Nat
  /\ TableElements <= ArrayLimit

Kinds == {"BINSTDeployer", "Institution", "ProcessTemplate", "ProcessInstance"}

\* A declared variable, an array element, the first word of a mapping's value.
\* (Solidity's own layout, which array_element and mapping_slot repeat.)
Slot(area, at, key) == [area |-> area, at |-> at, key |-> key]
Plain(n)            == Slot("plain", n, 0)
Element(n, i)       == Slot("element", n, i)
Mapped(n, key)      == Slot("mapped", n, key)

-----------------------------------------------------------------------------
\* The declared variables of a contract are numbered 0..LastSlot[kind].
LastSlot ==
  [BINSTDeployer |-> 1, Institution |-> 8, ProcessTemplate |-> 6, ProcessInstance |-> 6]

\* The arrays whose elements are in the table.
ArraySlots ==
  [BINSTDeployer |-> {0, 1}, Institution |-> {6, 8}, ProcessTemplate |-> {6},
   ProcessInstance |-> {}]

\* deployer_slots, institution_slots, template_slots and instance_slots
TableSlots(kind) ==
  {Plain(n) : n \in 0..LastSlot[kind]}
    \cup {Element(n, i) : n \in ArraySlots[kind], i \in 0..(TableElements - 1)}
    \cup IF kind = "ProcessInstance"
         THEN {Mapped(6, step) : step \in 0..(TableSteps - 1)}
         ELSE {}

\* The order in which build_lookup inserts; a later kind overwrites an earlier
\* one where an address is registered as both.
InsertionOrder == <<"BINSTDeployer", "Institution", "ProcessTemplate", "ProcessInstance">>

\* Which kinds insert the word (a, s), as positions of InsertionOrder.
Inserters(registry, a, s) ==
  {k \in 1..Len(InsertionOrder) :
     a \in registry[InsertionOrder[k]] /\ s \in TableSlots(InsertionOrder[k])}

InTable(registry, a, s) == Inserters(registry, a, s) # {}

\* The entry that survives build_lookup.
TableKind(registry, a, s) ==
  InsertionOrder[CHOOSE k \in Inserters(registry, a, s) :
                   \A j \in Inserters(registry, a, s) : j <= k]

-----------------------------------------------------------------------------
Field(name, index) == [name |-> name, index |-> index]

UnknownSlot == Field("UnknownSlot", 0)

\* The declared variables decode_*_slot knows by name.
NamedSlots ==
  [BINSTDeployer   |-> [n \in 0..1 |->
     CASE n = 0 -> "DeployerInstitutionsLength" [] n = 1 -> "DeployerProcessesLength"],
   Institution     |-> [n \in (0..8) \ {7} |->
     CASE n = 0 -> "InstitutionName"          [] n = 1 -> "InstitutionAdmin"
       [] n = 2 -> "InstitutionDeployer"      [] n = 3 -> "InstitutionInscriptionId"
       [] n = 4 -> "InstitutionRuneId"        [] n = 5 -> "InstitutionBtcPubkey"
       [] n = 6 -> "InstitutionMembersLength" [] n = 8 -> "InstitutionProcessesLength"],
   ProcessTemplate |-> [n \in (0..6) \ {5} |->
     CASE n = 0 -> "TemplateName"               [] n = 1 -> "TemplateDescription"
       [] n = 2 -> "TemplateCreator"            [] n = 3 -> "TemplateStepsLength"
       [] n = 4 -> "TemplateInstantiationCount" [] n = 6 -> "TemplateAllInstancesLength"],
   ProcessInstance |-> [n \in 0..5 |->
     CASE n = 0 -> "InstanceTemplate"         [] n = 1 -> "InstanceCreator"
       [] n = 2 -> "InstanceCurrentStepIndex" [] n = 3 -> "InstanceTotalSteps"
       [] n = 4 -> "InstanceCompleted"        [] n = 5 -> "InstanceCreatedAt"]]

\* The arrays of which they know the elements.
NamedArrays ==
  [BINSTDeployer   |-> [n \in {0, 1} |-> IF n = 0 THEN "DeployerInstitutionElement"
                                        ELSE "DeployerProcessElement"],
   Institution     |-> [n \in {6, 8} |-> IF n = 6 THEN "InstitutionMemberElement"
                                        ELSE "InstitutionProcessElement"],
   ProcessTemplate |-> [n \in {6} |-> "TemplateInstanceElement"],
   ProcessInstance |-> <<>>]

\* Mutant: only the arrays are compared, in the template's way.
DecodeSlotByArray(kind, s) ==
  CASE s.area = "plain" /\ s.at \in DOMAIN NamedSlots[kind] ->
         Field(NamedSlots[kind][s.at], 0)
    [] s.area = "element" /\ s.at = 6 /\ s.key < ArrayLimit ->
         Field(NamedArrays[kind][s.at], s.key)
    [] OTHER -> UnknownSlot

\* decode_slot
DecodeSlot(kind, s) ==
  CASE s.area = "plain" /\ s.at \in DOMAIN NamedSlots[kind] ->
         Field(NamedSlots[kind][s.at], 0)
    [] s.area = "element" /\ s.at \in DOMAIN NamedArrays[kind] /\ s.key < ArrayLimit ->
         Field(NamedArrays[kind][s.at], s.key)
    [] s.area = "mapped" /\ kind = "ProcessInstance" /\ s.at = 6 /\ s.key < TableSteps ->
         Field("InstanceStepState", s.key)
    [] OTHER -> UnknownSlot

-----------------------------------------------------------------------------
\* field_type; every other field is a Uint256.
FieldType(name) ==
  CASE name \in {"InstitutionAdmin", "InstitutionDeployer", "InstitutionMemberElement",
                 "InstitutionProcessElement", "TemplateCreator", "TemplateInstanceElement",
                 "InstanceTemplate", "InstanceCreator", "DeployerInstitutionElement",
                 "DeployerProcessElement"} -> "Address"
    [] name \in {"InstitutionName", "InstitutionInscriptionId", "InstitutionRuneId",
                 "TemplateName", "TemplateDescription"} -> "SolString"
    [] name \in {"InstitutionBtcPubkey", "UnknownSlot"} -> "Bytes32"
    [] name = "InstanceCompleted" -> "Bool"
    [] name = "InstanceStepState" -> "StepState"
    [] OTHER -> "Uint256"

\* A value of a state diff: nothing when the word was cleared, or one word.
None    == <<>>
Some(w) == <<w>>

Deleted            == [type |-> "Deleted", value |-> None]
Decoded(type, w)   == [type |-> type, value |-> Some(w)]

\* decode_value
DecodeValue(field, v) ==
  IF v = None THEN Deleted ELSE DecodeRaw(FieldType(field.name), v[1])

\* The BinstStateChange of word w = <<address, slot>>, which is in the table.
Change(registry, w, v) ==
  LET kind  == TableKind(registry, w[1], w[2])
      field == DecodeSlot(kind, w[2])
  IN  [contract |-> kind, address |-> w[1], field |-> field, decoded |-> DecodeValue(field, v)]
=============================================================================
