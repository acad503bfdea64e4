# Formal models of the BINST pilot

TLA+ models of the BINST pilot: the Solidity contracts that run on the Citrea
L2, the Rust reader that finds their state again on Bitcoin with its parsers and
decoders, the vaults in which an institution's inscription lives, an institution
on two chains that do not know of each other, and the scripts that watch finality. The models are
checked by TLC on small instances; the properties that matter most are proved
with TLAPS for every value of the constants.

Paths below are relative to the root of the repository.

## 1. The system

| part | code | state | operations | talks to |
|---|---|---|---|---|
| Deployer | `contracts/BINSTDeployer.sol` | two arrays of addresses | `createInstitution`, `deployProcess` | creates institutions and standalone templates |
| Institution | `contracts/Institution.sol` | admin; members as array and as mapping; processes; three write-once bindings to Bitcoin | constructor, add/remove member, transfer admin, create process, bind inscription, rune, key | creates templates |
| Process template | `contracts/process/ProcessTemplate.sol` | steps; a counter, a list and per-user lists of its instances | constructor, `instantiate` | creates instances, answers their `getStepCount` |
| Process instance | `contracts/process/ProcessInstance.sol` | current step, completion flag, one record per step, paid value | constructor, `executeStep`, `executeStepWithPayment` | asks its template once |
| Discovery | `taproot-reader/crates/cli/src/citrea_rpc.rs` | three growing vectors | a crawl of `eth_call`s | reads the contracts' address lists over RPC |
| Registry and decoder | `taproot-reader/crates/binst-decoder/src/{diff,jmt,storage,value}.rs` | registered addresses, table of hashed slots | register, `build_lookup`, `map_state_diff`, decode | decodes the state diffs of batch proofs |
| Scanner | `taproot-reader/crates/cli/src/main.rs` | block range, registry, output | RPC mode: one request per Bitcoin block; Bitcoin Core mode: one block at a time | Citrea node, Bitcoin Core, decoder |
| Envelope parser | `taproot-reader/crates/binst-inscription` | position in a script, the envelope under construction | `extract_envelopes`, `read_push` | the reader of BINST inscriptions |
| Tapscript parser and proof decoder | `taproot-reader/crates/citrea-decoder`, `binst-decoder/src/jmt.rs` | position in a script | `extract_tapscript`, `parse_tapscript`, `decode_body`, `decode_complete_proof`, `parse_jmt_entry` | used by the Bitcoin Core mode |
| Vault | `binst-decoder/src/vault.rs`, `scripts/psbt-transfer.ts`, `scripts/inscribe-binst.ts` | transaction outputs, their age, and the inscriptions in them | inscribe into a vault, draft a transfer | Bitcoin |
| Handover | `scripts/psbt-transfer.ts`, `contracts/Institution.sol` | owner of the inscription, administrator of the contract | those of the vault and of the contract; `transferAdmin` by the new owner | Bitcoin and, by hand, the L2 |
| Finality monitor | `scripts/finality-monitor.ts` | two flags, the poll under way | poll, report, exit | Citrea node |
| Bitcoin awareness | `scripts/bitcoin-awareness.ts` | search bounds | search for the latest block, print | light client contract |

What is hard about it, and what would make each part right:

* **Contracts.** Transactions are atomic, so the difficulty is in long sequences
  of them by different accounts. State is written redundantly: membership as an
  array with swap-and-pop and as flags, progress as a counter, a flag and one
  record per step, instances in three records. Right means that the copies agree
  after every sequence, that nothing recorded can be rewritten, that an
  institution cannot lose its administrator and a process cannot get stuck.
* **Creation chains.** Four constructors, each with another `msg.sender`. Right
  means that the parent a contract names is the parent that lists it.
* **Discovery.** Many calls at block `latest`, transactions between them, calls
  that fail. Right means nothing twice, nothing invented, and nothing lost that
  was there at the start unless its own call failed.
* **Scanner and decoder.** The diffs are cumulative per batch, keyed by one-way
  hashes, with slot numbers written down in three places; requests fail, and the
  node may be behind the range. Right means that a reader who replays the output
  knows what the contracts' getters answered at the last proven batch.
* **Envelope parser.** Scripts of any bytes, with data that looks like opcodes,
  and pushes that are cut short: the position has moved by the time an attempt
  fails. Right means that what was inscribed is read back, that nothing is read
  twice or found inside an inscription, and that every script is read to its end.
* **Bitcoin Core mode.** Two requests per height to a node whose chain grows and is
  reorganised; ranges whose arithmetic meets zero; blocks full of other people's
  transactions, some of which look like Citrea's. Right means that each height
  asked for is reported from one block, as it was written, or as an error.
* **Proof decoder.** A journal is looked for at every position of a proof, keys are
  told apart by prefix and length, words come reversed and shortened. Right means
  that what a contract stored is what is printed, whatever surrounds it.
* **Vaults.** Inscriptions travel with satoshis, first in first out, through
  transactions of several vaults, a fee and change; administrator and committee
  race for outputs whose timelock restarts with every move. Right means that no
  inscription meets another or leaves the vaults, and that nobody gets round the
  delay.
* **Handover.** The inscription moves on Bitcoin, the contract changes hands on the
  L2, and no code ties one to the other: what should be done after a transfer is
  printed by a script and written in a document. Right means that the documented way
  leads to agreement; it does not.
* **Monitor and search.** Remote state that changes between two reads of what the
  code treats as one value. Right means no false announcement, no duplicate, an
  announcement in the end, and a current result in spite of new blocks.

`PROJECT.json` lists the individual hazards with their lines under `hazards`.

## 2. The modules

```
Arrays, Addresses
  Institution ------------- implements Roster           ContractProofs
  ProcessInstance --------- implements StepLog          ContractProofs
    ProcessTemplate
      BINSTContracts (with Institution)                 BINSTContractsProofs
                            implements ContractForest
  ContractForest - Discovery                            DiscoveryProofs
  StorageLayout
    Scanner
      ScannedContracts (Institution and ProcessInstance under the Scanner)
                                                        ScannedProofs
    ProofDecoder
      BitcoinScan (with Tapscript and Words)            BitcoinScanProofs
  Envelope                                              EnvelopeProofs
    InscribedScripts                                    EnvelopeProofs
  Vault ------------------- implements Custody          VaultProofs
    Handover (Vault beside Institution)
  FinalityMonitor                                       ChainWatchProofs
  LatestBlockSearch                                     ChainWatchProofs
```

| module | models | how it corresponds to the code |
|---|---|---|
| `Arrays` | storage arrays | `Listed`, `Distinct`, `Extends` on sequences |
| `Institution` | `Institution.sol` | each field is a function of the contract's address; one action per transaction that does not revert: guards are the modifiers and `require`s. `SwapAndPop` is the loop of `removeMember` |
| `Addresses` | addresses of the L2 | the accounts, templates and the zero address that several contracts speak of |
| `Roster` | what an institution promises | one set of members with its administrator in it; `Institution` implements it with `roster <- Listed(members[i])` |
| `ProcessInstance` | `ProcessInstance.sol` | `Record` and `Advance` are the two halves both handlers share; `Tick` is a later block |
| `StepLog` | what an instance promises | an append-only log, closed with its last entry; the refinement mapping reads the log off the records before `currentStepIndex` |
| `ProcessTemplate` | `ProcessTemplate.sol` | extends `ProcessInstance`: `Instantiate` contains the instance's constructor; it runs as a part of `BINSTContracts` |
| `BINSTContracts` | all contracts together | extends `ProcessTemplate` and `Institution`; `CreateProcessTx` is the institution's handler `CreateProcess` and the template's constructor in one transaction |
| `ContractForest` | the four address lists | the abstract view that `BINSTContracts` implements and `Discovery` crawls |
| `Discovery` | `discover_binst_contracts` | one action per `eth_call`, which either answers with the list of that moment or fails; `ChainGrows` is any transaction in between |
| `StorageLayout` | `storage.rs`, `diff.rs`, `value.rs` | the slot table, the decoder and the field types as functions on symbolic slots |
| `Scanner` | `run_rpc_mode`, `map_state_diff` | one action per request; batches, Bitcoin blocks and the node are external actions. Of a record in `proofs` only `entries` is what a proof contains; `storage` and `view`, and the variable `ahead`, are history that the properties compare with. `blocks` has, for each height, the number of proofs up to it, so that a block's proofs are a part of `proofs` |
| `ScannedContracts` | scanner and contracts together | the storage of institutions and instances, word by word, feeds the batches; the properties compare what was printed with what the getters answered. Any transaction on any contract may come between two requests |
| `FinalityMonitor` | `finality-monitor.ts` | the two calls of `Promise.all` are two actions that read the node at two moments |
| `LatestBlockSearch` | `findLatestBtcBlock` | one action per probe of the light client |
| `Envelope` | `extract_envelopes` with `find_envelope_start`, `parse_envelope`, `read_push` | one action per turn of a loop or exit; `IsPush`, `Data` and `After` are what `read_push` returns and where it leaves the position |
| `InscribedScripts` | the same on scripts that were written | `Encode` is `build_envelope` of the tests, with any fields and chunks; the properties compare what is read with what was written |
| `Tapscript` | `parse_tapscript`, `extract_tapscript` | one pass without a way back, hence a function of the script; positions are computed one from the other, every error is `Absent`. `Encode` is what Citrea writes, in the documented format |
| `ProofDecoder` | `decode_body`, `proof.rs`, `jmt.rs`, `map_state_diff`, `print_text`, `print_json`, `state_diff_from_rpc` | functions of a body's bytes: `BodyRead` is all that the decoders make of it, `TextOf` and `JsonOf` are the parts of that the two formats print; the Borsh layout by where its vectors end, the journal as the first of all candidates in a proof, keys by prefix and length. Brotli, and the Borsh layout inside a journal, are constants: which bytes are valid and what is in them |
| `Words` | the second half of `value.rs` | each type as a function of the 32 bytes of a word; a number is its bytes, so that none is too large. Beside it solc's layout of a value (`AddressValue`, `NumberValue`, `TextValue`, ...) and what a state diff has of a word (`Trimmed`), from which `MCBitcoinScan` and the theorems build their words |
| `BitcoinScan` | `main` and `scan_block` in Bitcoin Core mode | one action per request, answered or failed; `RangeFrom` and `RangeTo` are the arithmetic of the arguments, with both outcomes of an underflow; a line printed is a place in a block, `Descriptions` says what is printed there in either format |
| `Custody` | what a vault promises | each inscription is under one policy and leaves it for another with the administrator's signature after the delay, or with two of the committee's |
| `Vault` | `vault.rs`, `psbt-transfer.ts`, `inscribe-binst.ts` | `Paths` are the two leaves of the compiled policy, `Psbt` is the transaction `generatePsbtCommands` drafts, with its fee and change; `CanSpend` and `Broadcast` are Bitcoin's rules, `Arrivals` is the flow of satoshis. A draft names outputs, which never change, so drafting, signing and broadcasting are one action that fails when another came first |
| `Handover` | the last lines of `psbt-transfer.ts`, with `Vault` and `Institution` | any step of the vaults and any transaction of the contract, in any order: `transferAdmin` takes any account at any time. `Claim` is the call by which the owner of the inscription tries to become the administrator |

`MC*` modules give TLC symmetry sets and structured constants. Operators whose
comment begins with "Mutant" are not part of a specification: each is a plausible
bug in the definition that follows it, kept to show that a property can fail.

## 3. What the runs check

| run | question | bounds |
|---|---|---|
| `process_instance` | do rejections, retries and payments keep the records right? `StepLog`? can every process be finished? | one instance, up to three steps (first, middle, last), two accounts, three block times |
| `contracts` | is every contract listed once by the contract it names? do the three records of instances agree? `ContractForest`? | two institutions, templates, instances, accounts; one step per template, as steps have their own run |
| `discovery` | is a crawl sound, complete as of its start, and does it end? | two of each kind of contract, any call may fail |
| `scanned_contracts` | do any transactions break membership, the administrator or a binding? does the contract implement `Roster`? can institution and process be read off the scanner's output, and is a completion never taken back? | one institution, registered or created too late to be, or one registered process; three accounts against a table of two elements, so that a swap-and-pop reaches over the table's end and moves an element that is neither removed nor first; three steps against a table of two; two batches in up to two blocks, so that two proofs may share one. The action constraint `Focus` follows a scan that has the institution in its registry through transactions on that, and any other through transactions on the process, and leaves out batches that change nothing: the contracts have no word in common. The theorems are without it |
| `finality_monitor` | are events true, single, ordered; does the proof get reported? | heights 0 to 4 around a watched block 2, two failures |
| `finality_monitor_race` | does the monitor announce each milestone, as its head says? It does not | the same |
| `latest_block_search` | is the result current and does the search end? | first bounds 3 and 5, chain up to 24: the bound is doubled up to three times |
| `inscribed_scripts` | is every inscription read back, and nothing else inside one? does the parser always get to the end? | up to three parts out of six inscriptions and six pieces of other code, with twelve ways to end: each kind of push, whole and cut short in its length and in its data; data that contains opcodes |
| `nested_inscription` | are all inscriptions of a witness item extracted, as the doc says? They are not | two parts, with code that leaves a conditional open |
| `bitcoin_scan` | does a scan report the heights it was asked for, each from one block, as it was written? does it print of a batch proof what the contracts stored? how many requests does it make? | five blocks, chains of up to four, reorganisations of up to two; eleven sets of arguments, with every way to give a range, and every block asked for in text and as JSON; among the transactions every cut of a script, each kind of push, five that only look like Citrea's, each variant of a body; six proofs (a journal among false lengths, at the very end, too large, absent, behind too many bytes, no Brotli), fourteen words with each type and its bounds, seven keys that are no word of a registered contract |
| `vault` | do inscriptions stay apart in any transfer? does anybody get round a timelock? does `Vault` implement `Custody`? | two inscriptions, two people with vaults of different delays and one committee of three, four sets of signers, a fee that leaves enough change and one that does not, up to three transfers of one or both vaults in any order, four blocks. One member alone, two together and each administrator are among the signers |
| `handover_claim` | can the new owner take the contract over, as the document says? No | one inscription, one transfer, three blocks; one institution with the two people as its accounts, which may send every transaction about members, the administrator and the inscription id |

What the runs show, by property:

* `MembersMatchFlags`, `AdminIsMember`: array and flags name the same members,
  each once, and the administrator is one of them, after any sequence of
  additions, removals and transfers. `IdentityIsPermanent`: bindings survive
  every later administrator. Note what this means for recovery: a wrong binding,
  or one that belongs to an administrator who has left, cannot be corrected by
  anyone.
* `ProgressMatchesRecords`, `TimesFollowSteps`, `CompletedStepsAreFinal`,
  `PaidValueStays`: the two handlers never lose, reorder or rewrite a completed
  step, and a completed process takes no more value. `EveryProcessCanFinish`: no
  history makes a process impossible to complete.
* `RecordsOfInstancesAgree`: a template's counter is the length of its list, the
  list has each instance once, and a user's list is the part of it that the user
  created, in the same order, whoever instantiates what.
* `EveryContractListedOnce`, `ImplementsForest`: creation chains and address lists
  agree. The type invariant in it contains that a template's creator is the deployer
  or an institution, never an account.
* `FoundIsOnChain`, `CompleteSinceStart`, `CrawlEnds`: the crawl is right, and finds
  nothing twice, although its calls see different blocks. A failed call hides the
  children of the contract that was asked and nothing else.
* `PrintedInChainOrder`: the output has every proof the node gave, once and in
  order. A request that fails, or that comes before the node knows the block, leaves
  a gap that is no error of the program: `failed` and `ahead` record it, and the
  properties about readers are only promised without a gap.
* `ReaderFollowsContract`, `ReaderFollowsProcess`: replaying the output gives
  the getters' answers at the end of the last proven batch, deletions from
  swap-and-pop included. Limits that the models contain and the properties
  respect: nothing is printed of a contract that was created after discovery,
  elements and steps beyond the table are never printed, an inscription
  id is a long string of which only the length is in its slot, a value that was
  overwritten within its batch (a rejection, say) cannot be seen, a second
  rejection of a step by the same account changes no word the table has, and
  evidence and times of steps are not in the table.
* `PrintedCompletionsHold`: the printed history of a process is never taken back and
  never shows half of a transaction.
* `EventsAreTrue`, `MilestonesOnceThenExit`, `ProofIsReported`:
  the monitor is right about what it prints and always gets to its end.
* `ResultIsCurrent`, `IntervalShrinks`, `SearchEnds`: blocks that arrive between
  probes never make the search return a block older than the tip it started with
  or loop.
* `EnvelopesAreGenuine`, `EveryTurnAdvances`: of any script, whatever its bytes,
  each envelope returned begins with the opcodes and the magic push and lies
  behind the one before it, and the parser advances with every turn.
  `WrittenIsRead`: an inscription is read back with the last value of each field
  and its whole body, and nothing is found inside it. This is promised for other
  code that does not end in an open attempt; the second finding is about code
  that does. A body that is cut short is returned as if it were complete, and no
  property says otherwise, as no text of the repository does.
* `BlocksAskedForAreReported`: of each height that the help texts of the arguments
  describe, the output has exactly the inscriptions of one block that was there
  since the scan began, or its error. Nothing is promised for `--latest 0`: with
  overflow checks the program panics, and without them it scans the whole chain
  (with the premise about it dropped, TLC finds this in the first steps).
  `EveryRequestCounts`: the range is fixed at the start, and at most two requests
  are made for a height, so that no failure and no growth of the chain keeps the
  scan from its end. What a scan of several heights shows need not be one branch
  of the chain, as each height is read at its own moment.
* `ProofsAreReadAsWritten`: the values the contracts stored, for each type of field,
  come out of a batch proof as they went in, through journal, keys and reversed
  words, in text and as JSON alike; of other bodies each format prints its part of what
  was written, JSON nothing at all of chunks, method ids and what cannot be decoded; and `state_diff_from_rpc` makes the same of the same diff in an answer of
  the node. What cannot be read shows no changes at all.
* `InscriptionsStayIsolated`, `VaultTypeOK`: whatever vaults a transfer takes in, in
  whatever order, each inscription is alone in the first satoshi of a vault output,
  and no fee eats into them. `AdministratorWaits`, `ImplementsCustody`: each move
  restarts the timer, and until it runs out two members of the committee can be
  first.
* About the vault of an inscription and the administrator of its contract together
  nothing is promised. An administrator may hand the contract to any account and
  bind any id; an inscription may be sold or recovered without the contract. The
  two disagree for as long as people leave it so, and after several transfers in a
  row they may never agree. `btcPubkey` cannot follow at all: it is write-once, and
  stays the first administrator's.

**Findings.** `scripts/finality-monitor.ts:7` says that the monitor outputs a
status "when each milestone is reached". The two heights are read by two
concurrent calls (line 53). When the first answer is from before the watched
block was committed and the second from after it was proven, the monitor prints
only the proven event and exits: `EachMilestoneIsReported` is violated in
`finality_monitor_race`. `scripts/bitcoin-awareness.ts:131` reads the same pair.

`taproot-reader/crates/binst-inscription/src/envelope.rs:80` promises all envelopes
of a witness item. When an attempt fails, `parse_envelope` has moved the position
to the byte it could not read, and `pos += 1` (line 94) skips that byte as well:
in `00 63` followed by a complete envelope, the envelope begins at the byte that
is skipped and is not extracted. `EveryInscriptionIsExtracted` is violated in
`nested_inscription`.

`taproot-reader/BITCOIN-IDENTITY.md:806` says of a transfer "2. New admin calls
transferAdmin() on the L2 contract" and then "3. Both layers now agree". The modifier
`onlyAdmin` (`contracts/Institution.sol:68`, 121) lets only the administrator before
the transfer call it: `NewOwnerTakesOver` is violated in `handover_claim`, where the
new owner keeps trying and the old administrator need do nothing. The same goes for
a recovery by the committee, which is there for an administrator who is lost: the
run's counterexample is one.

Two texts disagree with the code without a run, as no property would be about
behaviour: `cli/src/main.rs:421` says that all entries of a state diff are included,
"capped at 5000", above a `take(20)` (425); `binst-inscription/src/types.rs:31` says
that the schema version "must be 0 for pilot", and any version is accepted.

### Why the bounds are enough

Addresses, ids and keys are only compared, so a few of each with symmetry stand
for all of them. Arrays are read and written at the first match, at the end, and
as a whole; three or four elements have all these places apart. `MaxSteps`,
`MaxTime`, `MaxValue`, `MaxHeight`, `MaxTip`, `MaxBlocks`, `MaxDepth`,
`MaxBatches`, `MaxTransfers` and `MaxFailures` bound counters in the guards of
external or repeated actions. When a bound is reached the system may stop, as it may
at the end of a scan, a search or a crawl, which is why the runs do not ask for
absence of deadlock. The table limits of the
decoder (256 elements, 64 steps, 10000 indices) are constants that the runs make
small, so that contracts do exceed them.

The parser has no memory between parts but its position and the envelope it
builds, so that what can go wrong between two parts shows with two and what
follows from a failed attempt with three. The theorems about the position and
about genuine envelopes are for all scripts, and that about `WrittenIsRead` is for
any parts in any number, so that the run only has to show that the parser meets its
condition on the code between inscriptions where the parts are these.

A scan reads a height once and keeps nothing between heights, so that two heights
with a reorganisation between or within them, and one beyond the tip, are all the
cases there are. The run evaluates the parser on whole scripts, and cuts an
inscription at every byte; that it reads back whatever Citrea writes is a theorem.
The decoders of bodies are evaluated on the bodies listed: each way a body can fail, a
diff with keys of other contracts and of no contract, and a value of each type. That
they read back whatever else is written is a theorem.

An output of a transfer depends on the inputs before it, so that a transfer of two
vaults has a first, a last and a pair in the wrong order; three transfers one after
the other have a timer that was restarted, an inscription that returns and one that
leaves again. The
theorems about vaults are for any number of each.

### Fairness

* `process_instance`: weak fairness of "somebody completes the current step".
  This is an assumption about users. `EveryProcessCanFinish` says that nothing
  the contract does stands in the way; without users a process may wait for ever.
* `discovery`: weak fairness of the crawl, a sequential program whose calls all
  return an answer or an error. No fairness of the chain.
* `finality_monitor`: weak fairness of the monitor's own steps (answers, report,
  timer). Failures are bounded: a node that fails for ever is never reported on.
  The growth of the chain is not assumed; the property begins with a proof that
  is there.
* `handover_claim`: weak fairness of the new owner's attempts, and of nothing else: not
  of Bitcoin, and not of the administrator, who may never hand the contract over. It is
  an assumption about the one person whom the document tells to act, and it does not help.
* `vault`: none, as its properties are about safety.
* `latest_block_search`: weak fairness of the search. The chain is bounded by
  `MaxTip`; a chain that outran the doubling for ever would keep the first loop
  busy, so the theorem about the second loop is `IntervalShrinks`.

## 4. What is proved

All theorems are for arbitrary sets of contracts, accounts, keys, policies and
inscriptions and arbitrary bounds, under the `ASSUME`s of the modules: the zero address is no account or
contract, no address is two contracts or is registered as two kinds, what is printed of a number, a
flag or a step's state can be read back (`DecodingAssumption`), the elements the table has of an array
are below the limit of `check_array_element` (256 against 10 000 in the code), an absent argument is no number,
a block has at least its coinbase, unset values are no ids or keys, bounds are natural numbers, the first
search interval is not empty, scripts are sequences of bytes, the inscriptions written into them are bytes that
one push each can hold (`WritingsAssumption`: at most 65535, as `push_data` of the tests does not go further),
the error of a parser is none of its results (`AbsentAssumption`),
a request is for text or JSON (any other format is printed as text), and every policy
compiles (three members, none of them the administrator, a delay above zero).

| module | theorems | argument |
|---|---|---|
| `ContractProofs` (institution) | `InstitutionInductive`, `InstitutionTypeCorrect`, `MembersAlwaysMatchFlags`, `AdminIsAlwaysMember`, `IdentityNeverChanges`, `ProcessesKeepTheirIndex`, `InstitutionImplementsRoster` | lemmas about appending to and swap-popping a sequence without duplicates give the set of elements afterwards; the invariant is types, agreement and administrator together. Agreement is needed for the administrator (its flag must mean that it is in the array), and for the refinement, where removing from the array must remove from the set |
| `ContractProofs` (instance) | `InstanceInductive`, `InstanceTypeCorrect`, `ProgressAlwaysMatchesRecords`, `TimesAlwaysFollowSteps`, `CompletedStepsStay`, `PaidValueAlwaysStays`, `InstanceImplementsStepLog` | the step index is only well typed because it never passes the number of steps, so types and progress are one invariant; it is strengthened with two facts the runs do not need, that an instance that is not deployed is all zero and that creation times are not in the future |
| `BINSTContractsProofs` | `ContractsInductive`, `ContractsActAsOnTheirOwn`, `EveryContractAlwaysListedOnce`, `RecordsAlwaysAgree`, `ContractsImplementForest` | every transaction is, for the institutions and for the instances, a step of their own modules or nothing, so that their invariants carry over. What is listed is what is deployed, with the parent it names, so that a contract that is only now constructed is in no list yet and appending it keeps lists without duplicates. A user's list is a part of the list of all instances in the same order; the lemmas say what appending one element to both, or to one, does to that. The mapping to the forest reads the lists off the contracts |
| `ScannedProofs` | `ScanInductive`, `AlwaysPrintedInChainOrder`, `ScannedInductive`, `ReaderAlwaysFollowsContract`, `ReaderAlwaysFollowsProcess`, `PrintedCompletionsAlwaysHold`, `ContractsActUnwatched` | what is printed are the proofs of the blocks asked for, in the order of the chain; without a gap that is the first proofs up to some number. A diff has the words that changed, so the last diff that has a word has the value stored after it, and a word no diff has is still zero (by a smallest counterexample). In the table of a registered contract a slot has one field and a field one slot, so that reading the last change of a field is reading the last value of its word. The storage recorded with each batch is what the getters answered then. For completions the invariant remembers that from batch to batch, and up to now, no step that was executed is forgotten and no completed one is changed |
| `BitcoinScanProofs` | `InductiveInvariant`, `BlocksAskedForAlwaysReported`, `EveryRequestAlwaysCounts` | a block that a height has had since the scan began stays in `seen`, and a reorganisation only adds to it, so that a hash answered in time is still good when its block is read. The range of `main` has the heights the help texts describe, by cases of the arguments; the heights read have their error or the lines of one block, and a new block's lines are about a height that has none. That the lines of a block are all of its inscriptions once, in order, is a lemma on sets of numbers: the place of a number is how many are below it, which is one to one, and so onto. The parsers are any functions here: `BlocksAskedForAlwaysReported` supposes that they find in each transaction what its writer put there (`ParsersFindWhatWasWritten`); with TLC, a block of which this is false violates a property of `bitcoin_scan` |
| `BitcoinScanProofs` (what Citrea writes) | `InscriptionIsReadBack`, `WrittenBlocksAlwaysReported`, `ProofsAreAlwaysReadAsWritten` | `read_pushdata` reads back a push in each of its three forms, whatever bytes are around it (`PushIsRead`). The parts of a script lie one behind the other, and so do the chunks in the part that is the body, in any number and any lengths, as long as one push can hold each. The loop over the chunks is a recursive function of positions: `ChunksExist` says that there is such a function, built from the end of the script backwards, and `BodyIsRead` what it is at each chunk; both go by a smallest counterexample. So a script in the documented format is read back field by field. `WrittenBlocksAlwaysReported` puts this under the theorem about any parsers: what is left of its premise is that an inscription stands in the witness as Citrea writes it and that nothing else parses (`WrittenByCitrea`). `ProofsAreAlwaysReadAsWritten` adds the decoders of the next row, and that block, height and index are never mixed up on the way to a line |
| `BitcoinScanProofs` (decoders) | `ValuesAreReadBack`, `DiffIsRead`, `AnswerIsRead`, `JournalIsFound`, `BodiesAreDecoded` | from the value of a word up to the body. A state diff has a word with its last byte first and without the zeros in front; reversed and padded, this is the word again, whatever bytes it has, and each type is read out of the place where solc puts it: a short text's length is the double of the last byte, that of a long one a doubled number with a carry between the bytes. A diff is a sequence in which every key is a change of a word in the table or of something else; `map_state_diff` keeps the first kind, by their places in order (`AscendingOrder`). The answer of a node holds the pairs by category, a permutation of them, and permuting changes neither the changes nor the counts. Lengths are little-endian numbers: `NumberBytes` is a recursive function, which exists (`RestExists`), and the first four bytes tell numbers below 2^32 apart (`BytesTellNumbers`). So a vector ends in one place (`VecEnd`), a list of vectors after its last one (`ListEndsThere`, over a function of positions that `EndsExist` gives), and each variant of a body is read to its last byte. `extract_journal` takes the first place where a length and a valid output fit, which is the journal when nothing before it looks like one |
| `EnvelopeProofs` (any script) | `InductiveInvariant`, `EnvelopesAreAlwaysGenuine`, `EveryTurnAlwaysAdvances` | a lemma says that `read_push` stays within the script and goes forward when there is a push; the invariant remembers, for the attempt under way, that its first bytes were checked turns before and that it lies behind all that is done; each of the eight actions keeps the four parts |
| `EnvelopeProofs` (scripts that were written) | `WrittenInvariant`, `WrittenIsAlwaysRead`, `PlainCodeIsRead` | `read_push` reads back what `push_data` wrote, for each of its three forms (`PushIsRead`). The bytes of a part lie in the script behind those of the parts before it, and the pushes of an inscription in its bytes, one behind the other (`LayoutOfFields`, `LayoutOfBody`). The invariant says that an attempt that began where an inscription does has read some first part of its fields or chunks, with nothing skipped (`Reading`), that every inscription behind the position is still ahead or was returned (`NoneMissed`), and that nothing was returned from inside one (`NoneInside`). That an attempt that began in other code has ended when the next inscription begins is a condition, `CodeEndsItsAttempts`: without it the property is false, as `nested_inscription` shows. TLC finds the condition true of every state of `inscribed_scripts` when it is added to that run. `PlainCodeIsRead` has a condition on the script alone instead: no code in it looks like the beginning of an envelope |
| `DiscoveryProofs` | `DiscoveryInductive`, `FoundIsAlwaysOnChain`, `AlwaysCompleteSinceStart` | the chain first: each contract has one parent and one place in its list, and what a transaction lists was listed nowhere, so that no list gets back what was there at the start. Then, for each list that was asked for, what was found in it, or that the call failed. Two lists of one kind have nothing in common, which is why nothing is found twice although only the standalone templates are compared; that loop is recursive, and shown by a smallest counterexample |
| `ChainWatchProofs` (monitor) | `MonitorInductive`, `EventsAreAlwaysTrue`, `MilestonesOnceThenAlwaysExit` | the answers of a poll lie behind the node, whose heights grow, so that what they announce is still true; flags and events say the same, by cases of what a report adds |
| `VaultProofs` | `VaultInductive`, `VaultTypeCorrect`, `InscriptionsAlwaysIsolated`, `AdministratorAlwaysWaits`, `VaultImplementsCustody` | vaults come to a transaction before the purse, in outputs of the same value, so that the sums before an input and before the output next to it agree, and every inscription stays at offset 0 of its own (`ArrivalsValue`). What sums do for any number of vaults is shown by a smallest counterexample: a set of natural numbers has a least element because finite sets are well-founded. The invariant adds to the properties that the unspent output of an inscription is its newest, and that every inscription has one; without these a move could begin at an old output, and the refinement mapping, which reads the owner off the unspent output, would have no value |
| `ChainWatchProofs` (search) | `SearchInductive`, `ResultIsAlwaysCurrent`, `BoundsAlwaysHoldTheAnswer`, `IntervalAlwaysShrinks` | the lower bound is known, what is above the upper bound was unknown at the start; the rounded-up middle is above the lower bound and not above the upper one |

The provers cannot expand `SelectSeq`, nor `:>` and `@@`; where a theorem reaches one
of them, the model says the same with a function or a set.

Only model-checked:

* All liveness (`EveryProcessCanFinish`, `CrawlEnds`, `ProofIsReported`,
  `SearchEnds`): the prover does not do fairness or `ENABLED`.
* `CodeEndsItsAttempts`, the condition of `WrittenIsAlwaysRead`, which is true of the
  parts of `inscribed_scripts` and false of those of `nested_inscription`.
* The premises of `ProofsAreAlwaysReadAsWritten`, which say what the writers of
  inscriptions do:
  * `WrittenByCitrea`: an inscription stands in its witness in the documented format, in
    some chunks, and nothing else parses as one;
  * `WrittenByProvers`: a body has less than 2^32 bytes and is a complete proof, another
    variant, or one of the broken ones (no stream, too large, without a journal, no
    variant), about which what is printed in text says so. Nothing before the journal of
    a complete proof looks like a journal, and its state diff has for the words of
    registered contracts values that contracts can store there. A proof in which bytes before
    its journal look like one may be read wrongly, which is why the code calls
    its search heuristic;
  * `BytesAreDecoded`: the constant `DecodeRaw` of `StorageLayout` is `DecodeRawValue` of
    `Words`, as in the configuration of `bitcoin_scan`;
  * `FourBytes(MaxJournal)`: the limit on journals is below 2^32 (50 000 000 in the code).

  The blocks of `bitcoin_scan` contain bodies of each of these kinds but those that the
  second one excludes.
* In `ScannedProofs` `DecodeRaw` is any operator that meets `DecodingAssumption`, which
  is about the abstract words of `ScannedContracts` and not about bytes; that the two kinds of
  word stand for the same values is by definition of the models.

## 5. What is not modelled

* Bytes outside `Envelope`, `Tapscript`, `ProofDecoder` and `Words`: Solidity
  strings, ABI encoding, hexadecimal. In `Envelope` and `Words` ASCII stands for
  UTF-8. A nonce is its eight bytes. SHA-256 and Keccak are injective by
  assumption. Brotli, and the Borsh layout of a journal's output, are constants of
  `ProofDecoder`.
* Texts: names, descriptions, step configurations, evidence, and the layout of
  the output. A step template is the number of its steps.
* Reverted transactions, gas, and events (an event repeats what its transaction
  writes). Re-entrance cannot occur: the contracts call only constructors and a
  view function of contracts of their own kind.
* Citrea: invalid proofs, and reorganisations of Bitcoin as its node sees them. The
  node is external, and is taken to answer with what it has verified. In Bitcoin
  Core mode the chain is reorganised.
* The sample of a diff in hexadecimal (the first 10 entries in text, the first 20 as
  JSON, where a comment says 5000), the raw values that JSON has beside the decoded
  ones, and the heights and roots of a proof. Chunks of a proof are listed, in text, as
  the code does not put them together. The wording of errors: as JSON the two that a proof
  can have are one `decode_error`.
* A value of a state diff in an answer of the node that is not hexadecimal becomes a
  deletion: modelled, and nothing is promised, as no text says what it should show.
* The JSON of an inscription's body (`binst-inscription/src/types.rs`, parsed by
  serde), the strings of descriptors and addresses, the bytes of the leaves that
  `scripts/taproot-vault.ts` writes for one example.
* `binst-decoder/src/entities.rs`: records that callers fill, used by no program of
  the repository; `kind_of` and the counters of the registry, which nothing decides
  on.
* The first lower bound of the search for the latest block is taken to be known, as
  on the networks the script names.
* An address registered as two kinds, and in RPC mode a `--to` below `--from`, are
  excluded by assumptions on the constants; both come only from the command line.
* Linear scripts (`demo-flow.ts`, `test-protocol.ts`, deployment): they send the
  modelled transactions in one order.

## 6. Plan

In order of importance; all of it is done.

1. `Roster`, `Institution`: membership and identity. Proved.
2. `StepLog`, `ProcessInstance`: execution. Proved.
3. `ProcessTemplate`, `BINSTContracts`, `ContractForest`: creation chains. Proved.
4. `Discovery` over `ContractForest`. Safety proved.
5. `StorageLayout`, `Scanner`: decoding of state diffs.
6. `ScannedContracts`: end-to-end reading, of institutions and of processes in one
   composition. Proved, with the scanner's order and completeness.
7. `FinalityMonitor`: polling. Proved.
8. `LatestBlockSearch`: search over a moving target. Proved.
9. `Envelope`, `InscribedScripts`: inscriptions in scripts. Proved, the reading back
   of what was written included.
10. `Tapscript`, `ProofDecoder`, `Words`: what a Citrea inscription says, down to the
    bytes of a word. Proved.
11. `BitcoinScan`: the Bitcoin Core mode against a chain that is reorganised. Range,
    order and origin of the lines proved, for any parser and for what Citrea writes.
12. `Custody`, `Vault`: administrator and committee against relative timelocks, and
    transfers with the order of satoshis. Proved.
13. `Handover`: the two sides of an institution, which nothing keeps together. The
    documented way to bring them together again is refuted.
14. Proofs that `Words` reads back what solc stores, type by type, and that the decoders
    above it do with diffs, journals and bodies. Proved.
