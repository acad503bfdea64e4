------------------------------ MODULE Scanner ------------------------------
(***************************************************************************)
(* The scanner's RPC mode (taproot-reader/crates/cli/src/main.rs,          *)
(* run_rpc_mode): one request per Bitcoin block of the range for the batch *)
(* proofs in it, whose state diffs are matched with the registered         *)
(* contracts and printed.  Citrea is external: it closes batches of L2     *)
(* blocks, Bitcoin takes their proofs up, and the node that answers has    *)
(* followed Bitcoin only so far.  The module that says what the contracts  *)
(* store completes Next; see ScannedContracts.tla.                         *)
(***************************************************************************)
EXTENDS StorageLayout, Arrays

CONSTANTS
  From, To,     \* --from and --to, or --block for both
  MaxBlocks     \* bound: Bitcoin blocks

ASSUME RangeAssumption == From \in Nat /\ To \in Nat /\ MaxBlocks \in Nat /\ From <= To

VARIABLES
  proofs,       \* the closed batches, in the order Bitcoin takes their proofs up:
                \* [entries, storage, view], of which a proof has the entries only
  blocks,       \* Bitcoin height -> number of proofs in the blocks up to that one
  registry,     \* kind -> registered addresses
  height,       \* the block asked for next; the scan is over when it is past To
  printed,      \* what was printed: [block, proof, changes], in order
  failed,       \* heights whose request failed
  ahead         \* history: heights asked for before the node knew them

citreaVars  == <<proofs, blocks>>
scanVars    == <<registry, height, printed, failed, ahead>>
scannerVars == <<proofs, blocks, registry, height, printed, failed, ahead>>

ScannerInit(registries) ==
  /\ proofs = <<>>
  /\ blocks = <<>>
  /\ registry \in registries
  /\ height = From
  /\ printed = <<>>
  /\ failed = {}
  /\ ahead = {}

-----------------------------------------------------------------------------
\* The state diff of a batch: for every word that changed, its last value.
\* Storage is a function on the words that are not zero.
StateDiff(old, new) ==
  [w \in {x \in DOMAIN old \cup DOMAIN new :
            ~(x \in DOMAIN old /\ x \in DOMAIN new /\ old[x] = new[x])} |->
     IF w \in DOMAIN new THEN Some(new[w]) ELSE None]

\* History: what the contracts stored at the end of the first n batches.
StorageAt(n) == IF n = 0 THEN <<>> ELSE proofs[n].storage

\* A batch is closed; view is what a reader of the contracts would see by then.
CloseBatch(storage, view) ==
  /\ proofs' = Append(proofs, [entries |-> StateDiff(StorageAt(Len(proofs)), storage),
                               storage |-> storage, view |-> view])
  /\ UNCHANGED <<blocks, scanVars>>

\* The proofs that are in a Bitcoin block of height h or lower.
ProofsUpTo(h) == IF h = 0 THEN 0 ELSE blocks[h]

\* The next Bitcoin block has some of the proofs that wait for one in it.
MineBlock ==
  /\ Len(blocks) < MaxBlocks
  /\ \E n \in ProofsUpTo(Len(blocks))..Len(proofs) : blocks' = Append(blocks, n)
  /\ UNCHANGED <<proofs, scanVars>>

-----------------------------------------------------------------------------
\* Mutant: words that were cleared are left out.
MapWithoutDeletions(entries) ==
  {Change(registry, w, entries[w]) :
     w \in {x \in DOMAIN entries : InTable(registry, x[1], x[2]) /\ entries[x] # None}}

\* map_state_diff: the entries whose key is in the table.
MapStateDiff(entries) ==
  {Change(registry, w, entries[w]) :
     w \in {x \in DOMAIN entries : InTable(registry, x[1], x[2])}}

\* The answer for a block; null, an empty list, for one the node does not know.
VerifiedProofs(h) ==
  IF h \in 1..Len(blocks) THEN SubSeq(proofs, ProofsUpTo(h - 1) + 1, ProofsUpTo(h)) ELSE <<>>

Report(h, k) ==
  [block |-> h, proof |-> k, changes |-> MapStateDiff(VerifiedProofs(h)[k].entries)]

\* One round of the loop whose request is answered: every proof is printed.
QueryBlock ==
  /\ height <= To
  /\ printed' = printed \o [k \in 1..Len(VerifiedProofs(height)) |-> Report(height, k)]
  /\ ahead' = IF height > Len(blocks) THEN ahead \cup {height} ELSE ahead
  /\ height' = height + 1
  /\ UNCHANGED <<citreaVars, registry, failed>>

\* Mutant: a request that fails is made again later, after the next block's.
QueryFailsAndReturns ==
  /\ height <= To /\ height \notin failed
  /\ failed' = failed \cup {height}
  /\ height' = IF height > From THEN height - 1 ELSE height
  /\ UNCHANGED <<citreaVars, registry, printed, ahead>>

\* The request fails: an error is printed and the loop goes on.
QueryFails ==
  /\ height <= To
  /\ failed' = failed \cup {height}
  /\ height' = height + 1
  /\ UNCHANGED <<citreaVars, registry, printed, ahead>>

Scan == QueryBlock \/ QueryFails

\* What a reader of the output makes of it: the scan began with the first block
\* and every request was answered; the contracts as of the last proof printed.
NoGap    == From = 1 /\ failed = {} /\ ahead = {}
LastView == VerifiedProofs(printed[Len(printed)].block)[printed[Len(printed)].proof].view

\* The last value printed for a field of contract a, as far as a reader knows.
Latest(a, field) ==
  LET changes == [n \in 1..Len(printed) |->
                    {c \in printed[n].changes : c.address = a /\ c.field = field}]
      with    == {n \in 1..Len(printed) : changes[n] # {}}
  IN  IF with = {} THEN Deleted
      ELSE (CHOOSE c \in changes[CHOOSE n \in with : \A m \in with : m <= n] : TRUE).decoded

-----------------------------------------------------------------------------
ScannerTypeOK ==
  /\ DOMAIN registry = Kinds
  /\ height \in From..(To + 1)
  /\ failed \subseteq From..To
  /\ ahead \subseteq From..To
  /\ \A r \in Listed(printed) :
       /\ r.block \in From..To /\ r.block \in 1..Len(blocks)
       /\ r.proof \in 1..Len(VerifiedProofs(r.block))
       /\ \A c \in r.changes : c.contract \in Kinds /\ c.address \in registry[c.contract]

\* The output has every proof the node gave, once and in the order of the chain, so
\* that of two values of a field the later one is the newer: no proof of a block is
\* dropped, printed twice or out of turn, unless the request failed or came before
\* the node knew the block.  (Both happen silently as far as the exit code goes.)
PrintedInChainOrder ==
  /\ ScannerTypeOK
  /\ \A m, n \in 1..Len(printed) :
       m < n => \/ printed[m].block < printed[n].block
                \/ /\ printed[m].block = printed[n].block
                   /\ printed[m].proof < printed[n].proof
  /\ \A h \in (From..(height - 1)) \ (failed \cup ahead) : \A k \in 1..Len(VerifiedProofs(h)) :
       \E r \in Listed(printed) : r.block = h /\ r.proof = k
=============================================================================
