---------------------------- MODULE BitcoinScan ----------------------------
(***************************************************************************)
(* The Bitcoin Core mode of citrea-scanner (taproot-reader/crates/cli/src/ *)
(* main.rs): one pass over a range of heights, with two requests for each. *)
(* The chain grows and is reorganised between the requests, and every      *)
(* request may fail.  Heights count from 0.  What is printed of an         *)
(* inscription, in text or as JSON, is worked out by ProofDecoder.tla,     *)
(* down to the bytes of words (Words.tla).                                 *)
(***************************************************************************)
EXTENDS Tapscript, ProofDecoder, Words

CONSTANTS
  Contents,     \* block -> its transactions, the coinbase first; see Inscriptions
  Requests,     \* the arguments to try; an absent one is Absent
  Registry,     \* kind -> registered addresses, none where there is no registry
  FirstChains,  \* chains to begin with
  MaxBlocks,    \* bound on the length of the chain
  MaxDepth      \* bound on the blocks a reorganisation takes away

Blocks == DOMAIN Contents

ASSUME ScanAssumption ==
  /\ MaxBlocks \in Nat /\ MaxDepth \in Nat /\ Absent \notin Nat
  /\ \A b \in Blocks : /\ Len(Contents[b]) \in Nat \ {0}
                       /\ DOMAIN Contents[b] = 1..Len(Contents[b])
  /\ \A c \in FirstChains : c \in Seq(Blocks) /\ Len(c) \in 1..MaxBlocks
  /\ \A r \in Requests :
       /\ {r.block, r.latest, r.from, r.to, r.kind} \subseteq Nat \cup {Absent}
       /\ r.format \in Formats

VARIABLES
  chain,        \* the active chain of the node; its first block has height 0
  request,      \* Args
  phase,        \* "start", "hash", "block", "done", "failed" or "panicked"
  from, to,     \* the range
  height,       \* of the next or current block
  blockHash,    \* what get_block_hash answered
  printed,      \* the transactions reported, in the order of the output; see Line
  failed,       \* heights whose error was printed
  tip,          \* history: info.blocks
  seen          \* history: height -> the blocks it has had since the start

chainVars == <<chain, seen>>
rangeVars == <<request, from, to, tip>>
vars == <<chainVars, rangeVars, phase, height, blockHash, printed, failed>>

Tip == Len(chain) - 1

Init ==
  /\ chain \in FirstChains
  /\ request \in Requests
  /\ phase = "start"
  /\ from = 0 /\ to = 0 /\ height = 0 /\ tip = 0
  /\ blockHash = Absent
  /\ printed = <<>>
  /\ failed = {}
  /\ seen = [h \in 0..MaxBlocks-1 |-> IF h <= Tip THEN {chain[h+1]} ELSE {}]

-----------------------------------------------------------------------------
\* The node: a new block, or a longer branch instead of the last blocks.
ExtendFrom(kept, new) ==
  /\ kept + Len(new) <= MaxBlocks
  /\ Len(new) > Len(chain) - kept
  /\ \A i, j \in DOMAIN new : i # j => new[i] # new[j]
  /\ \A j \in DOMAIN new : new[j] \notin Range(SubSeq(chain, 1, kept))
  /\ chain' = SubSeq(chain, 1, kept) \o new
  /\ seen' = [h \in DOMAIN seen |->
                IF h \in kept .. Len(chain')-1 THEN seen[h] \cup {chain'[h+1]} ELSE seen[h]]
  /\ UNCHANGED <<rangeVars, phase, height, blockHash, printed, failed>>

Mine == \E b \in Blocks : ExtendFrom(Len(chain), <<b>>)

Reorganise ==
  \E d \in 1..MaxDepth :
    /\ d < Len(chain)
    /\ \E new \in [1..d+1 -> Blocks] : ExtendFrom(Len(chain) - d, new)

-----------------------------------------------------------------------------
\* u64::saturating_sub
SaturatingSub(a, b) == IF a < b THEN 0 ELSE a - b

Default(option, value) == IF option = Absent THEN value ELSE option

\* The range in main.  The subtractions latest - 1 and to - from + 1 underflow for
\* --latest 0 and for --to below --from: a build with overflow checks panics; in
\* one without, the first gives a number above every height.
RangeFrom ==
  IF request.block # Absent THEN request.block
  ELSE IF request.latest = 0 THEN 0
  ELSE IF request.latest # Absent THEN SaturatingSub(Tip, request.latest - 1)
  ELSE Default(request.from, Tip)

RangeTo ==
  IF request.block # Absent THEN request.block
  ELSE IF request.latest # Absent THEN Tip
  ELSE Default(request.to, Default(request.from, Tip))

Underflows ==
  \/ request.block = Absent /\ request.latest = 0
  \/ RangeTo < RangeFrom

Connect ==
  /\ phase = "start"
  /\ tip' = Tip
  /\ from' = RangeFrom /\ to' = RangeTo /\ height' = RangeFrom
  /\ \/ phase' = "hash"
     \/ Underflows /\ phase' = "panicked"
  /\ UNCHANGED <<chainVars, request, blockHash, printed, failed>>

\* Client::new or get_blockchain_info returned an error: main returns it.
ConnectFails ==
  /\ phase = "start"
  /\ phase' = "failed"
  /\ UNCHANGED <<chainVars, rangeVars, height, blockHash, printed, failed>>

GetBlockHash ==
  /\ phase = "hash" /\ height <= to /\ height <= Tip
  /\ blockHash' = chain[height + 1]
  /\ phase' = "block"
  /\ UNCHANGED <<chainVars, rangeVars, height, printed, failed>>

-----------------------------------------------------------------------------
\* A transaction has its wtxid prefix, the witness of its first input, and what its
\* writer meant by it: the inscription, the meaning of its body and the same diff
\* as an answer of the node.

\* What scan_block gets out of the transactions of a block: Absent for those without
\* the wtxid prefix, without a tapscript, or with one that cannot be parsed.
Inscriptions ==
  [b \in Blocks |->
     [k \in DOMAIN Contents[b] |->
        LET tx == Contents[b][k]
        IN  IF tx.reveal /\ HasTapscript(tx.witness)
            THEN parse_tapscript(TapscriptOf(tx.witness)) ELSE Absent]]

\* What both formats print of every inscription.
Header(inscription) ==
  [kind |-> inscription.kind, tapscript_pubkey |-> inscription.tapscript_pubkey,
   body |-> Len(inscription.body)]

\* print_text or print_json of an inscription.
Described(format, inscription) ==
  [header |-> Header(inscription),
   shown  |-> Printed(format, BodyRead(Registry, inscription.body))]

Descriptions ==
  [format \in Formats |->
     [b \in Blocks |->
        [k \in DOMAIN Contents[b] |->
           IF Inscriptions[b][k] = Absent THEN Absent
           ELSE Described(format, Inscriptions[b][k])]]]

\* The output about one transaction: what it says is its description.  The coinbase has
\* index 0.
Line(h, b, k) == [height |-> h, block |-> b, index |-> k - 1]

Kind(b, k) == Inscriptions[b][k].kind

\* Mutant: an error in one transaction ends its block.
ReportedToFirstError(b) ==
  {k \in DOMAIN Contents[b] \ {1} :
     /\ Inscriptions[b][k] # Absent
     /\ \A j \in 2..k : Contents[b][j].reveal => Inscriptions[b][j] # Absent}

\* The transactions of a block that have a description, but for the coinbase.
Reported(b) == {k \in DOMAIN Contents[b] \ {1} : Inscriptions[b][k] # Absent}

\* Those of them that the scan is for.
Wanted(b) == {k \in Reported(b) : request.kind \in {Absent, Kind(b, k)}}

\* The lines about a block.
Lines(h, b) ==
  LET order == Ascending(Wanted(b))
  IN  [n \in DOMAIN order |-> Line(h, b, order[n])]

\* The block of a hash, on the active chain or not.
GetBlock ==
  /\ phase = "block"
  /\ printed' = printed \o Lines(height, blockHash)
  /\ height' = height + 1
  /\ phase' = "hash"
  /\ blockHash' = Absent
  /\ UNCHANGED <<chainVars, rangeVars, failed>>

\* Mutant: a block whose request failed is asked for again.
CallFailsAndRepeats ==
  /\ phase \in {"hash", "block"} /\ height <= to
  /\ failed' = failed \cup {height}
  /\ phase' = "hash"
  /\ blockHash' = Absent
  /\ UNCHANGED <<chainVars, rangeVars, height, printed>>

\* Either request of scan_block failed: its error is printed, and the loop goes on.
CallFails ==
  /\ phase \in {"hash", "block"} /\ height <= to
  /\ failed' = failed \cup {height}
  /\ height' = height + 1
  /\ phase' = "hash"
  /\ blockHash' = Absent
  /\ UNCHANGED <<chainVars, rangeVars, printed>>

Finish ==
  /\ phase = "hash" /\ height > to
  /\ phase' = "done"
  /\ UNCHANGED <<chainVars, rangeVars, height, blockHash, printed, failed>>

Next ==
  \/ Mine \/ Reorganise
  \/ Connect \/ ConnectFails \/ GetBlockHash \/ GetBlock \/ CallFails \/ Finish

Spec == Init /\ [][Next]_vars

-----------------------------------------------------------------------------
\* The heights asked for, by the help texts of the arguments: "Scan a specific
\* block height", "Scan the latest N blocks from chain tip", "Start of block range
\* to scan", "End of block range to scan (inclusive)".
Asked ==
  {h \in 0..MaxBlocks :
     IF request.block # Absent THEN h = request.block
     ELSE IF request.latest # Absent THEN tip - request.latest < h /\ h <= tip
     ELSE LET first == Default(request.from, tip)
          IN  first <= h /\ h <= Default(request.to, first)}

\* The inscriptions there are in a block, of the kind asked for, each as its index.
Written(b) ==
  {k - 1 : k \in {k \in DOMAIN Contents[b] :
                    /\ Contents[b][k].wrote # Absent
                    /\ request.kind \in {Absent, Contents[b][k].wrote.kind}}}

About(h) == {n \in DOMAIN printed : printed[n].height = h}

\* When the scan is over, every height asked for has either its error or exactly
\* the inscriptions of one block that was there since the start, each once and in
\* their order: no transaction that is malformed, cut short or not Citrea's hides
\* or adds one, and no reorganisation mixes two blocks of a height.  This is
\* promised unless --latest is 0.
BlocksAskedForAreReported ==
  phase = "done" /\ request.latest # 0 =>
    /\ \A h \in Asked \ failed :
         \E b \in seen[h] : /\ {printed[n].index : n \in About(h)} = Written(b)
                           /\ \A n \in About(h) : printed[n].block = b
    /\ \A n \in DOMAIN printed : printed[n].height \in Asked \ failed
    /\ \A m, n \in DOMAIN printed :
         m < n => \/ printed[m].height < printed[n].height
                  \/ /\ printed[m].height = printed[n].height
                     /\ printed[m].index < printed[n].index

\* What is printed of a transaction is what its writer meant by it: the changes of a
\* batch proof in either format, of any other body what the format has of it.
ShowsMeaning(tx, format, description) ==
  LET shown == description.shown
      meant == Printed(format, tx.means)
  IN  /\ description.header = Header(tx.wrote)
      /\ IF tx.means.variant # "Complete"
         THEN shown.variant = meant.variant /\ shown.of = meant.of
         ELSE /\ shown.variant = "Complete"
              /\ \A s \in {shown.of, DiffShown(Registry, StateDiffFromRpc(tx.answer))} :
                   /\ Range(s.changes) = tx.means.of.changes
                   /\ s.summary = tx.means.of.summary

ReadAsWritten ==
  [format \in Formats |->
     {place \in UNION {{b} \X DOMAIN Contents[b] : b \in Blocks} :
        LET tx == Contents[place[1]][place[2]]
        IN  /\ tx.wrote # Absent
            /\ ShowsMeaning(tx, format, Descriptions[format][place[1]][place[2]])}]

\* Every inscription that is reported is printed as it was written, and so is what
\* the format has of its body: in text and in JSON the state changes of a complete
\* batch proof, with the values the contracts stored, and the categories of all its
\* keys, are those of the one journal in the proof, whatever looks like a length, a
\* journal, a storage key or a word around them; a proof that is cut short, too large
\* or has no journal shows no changes at all.  And an answer of a node with the same
\* state diff would show the same.
ProofsAreReadAsWritten ==
  \A n \in DOMAIN printed :
    <<printed[n].block, printed[n].index + 1>> \in ReadAsWritten[request.format]

RequestCounts ==
  phase \in {"hash", "block"} /\ chain' = chain =>
    /\ UNCHANGED rangeVars
    /\ \/ height' = height + 1
       \/ height' = height /\ phase = "hash" /\ phase' \in {"block", "done"}

\* A scan keeps to the range it began with, and each request, answered or not,
\* brings it closer to the end: it makes at most two for a block, however often
\* they fail and however far the chain grows meanwhile.
EveryRequestCounts == [][RequestCounts]_vars
=============================================================================
