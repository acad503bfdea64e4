---------------------------- MODULE ProofDecoder ----------------------------
(***************************************************************************)
(* From the body of a Citrea inscription to the state changes in it:       *)
(* decode_body (taproot-reader/crates/citrea-decoder/src/types.rs), the    *)
(* batch proofs of proof.rs, the keys of their state diffs (binst-decoder/ *)
(* src/jmt.rs), map_state_diff (diff.rs), and what the scanner prints of   *)
(* it all (cli/src/main.rs); next to it state_diff_from_rpc, which makes a *)
(* state diff of the answer of a node (cli/src/citrea_rpc.rs).             *)
(***************************************************************************)
EXTENDS StorageLayout, SequencesExt

CONSTANTS
  Decompressed,     \* Brotli: the valid streams, and what is in them (external)
  Outputs,          \* the journals, and the state_diff of their output (external)
  MaxDecompressed,  \* 100 MiB in the code
  MinJournal,       \* 93
  MaxJournal        \* 50_000_000

ASSUME DecoderAssumption ==
  /\ MaxDecompressed \in Nat /\ MinJournal \in Nat /\ MaxJournal \in Nat

-----------------------------------------------------------------------------
\* Numbers in their order.
Ascending(S) ==
  [n \in 1..Cardinality(S) |-> CHOOSE k \in S : Cardinality({j \in S : j < k}) = n - 1]

\* The last byte first, as bincode and Borsh have their numbers.
NumberBytes(n, width) ==
  LET rest[k \in 1..width] == IF k = 1 THEN n ELSE rest[k - 1] \div 256
  IN  [k \in 1..width |-> rest[k] % 256]

Shown(variant, of) == [variant |-> variant, of |-> of]

\* Where a vector of items of this size ends, if it begins at one of the positions
\* of starts: nowhere if its length, in four bytes, is more than there is.
VecEnds(bytes, starts, size) ==
  UNION {{p + 4 + n * size :
            n \in {m \in 0..((Len(bytes) - p - 3) \div size) :
                     p + 3 <= Len(bytes) /\ SubSeq(bytes, p, p + 3) = NumberBytes(m, 4)}} :
         p \in starts}

\* The same for a vector of vectors of bytes.
ListEnds(bytes, starts) ==
  UNION {LET ends[k \in 0..Len(bytes)] ==
               IF k = 0 THEN {p + 4} ELSE VecEnds(bytes, ends[k - 1], 1)
         IN  UNION {ends[end - (p + 4)] : end \in VecEnds(bytes, {p}, 1)} : p \in starts}

Variants ==
  <<"Complete", "Aggregate", "Chunk", "BatchProofMethodId", "SequencerCommitment">>

\* Where the fields of a DataOnDa end.
FieldsEnd(body) ==
  CASE body[1] \in {0, 2} -> VecEnds(body, {2}, 1)
    [] body[1] = 1 -> VecEnds(body, VecEnds(body, {2}, 32), 32)
    [] body[1] = 3 -> ListEnds(body, ListEnds(body, VecEnds(body, {2}, 1)))
    [] body[1] = 4 -> {46}
    [] OTHER -> {}

\* Borsh: a body is a tag and the fields of its variant, to the last byte.
DecodeBody(body) ==
  IF body # <<>> /\ FieldsEnd(body) = {Len(body) + 1}
  THEN Some(Shown(Variants[body[1] + 1], SubSeq(body, 2, Len(body))))
  ELSE None

-----------------------------------------------------------------------------
\* The places where a proof has a length of eight bytes and as many bytes that are
\* a journal: extract_journal_heuristic, which counts from 0.
Candidates(proof) ==
  {c \in (1..(Len(proof) - 8)) \X
         (MinJournal..(IF MaxJournal < Len(proof) THEN MaxJournal ELSE Len(proof))) :
     /\ c[1] + 7 + c[2] <= Len(proof)
     /\ SubSeq(proof, c[1], c[1] + 7) = NumberBytes(c[2], 8)
     /\ SubSeq(proof, c[1] + 8, c[1] + 7 + c[2]) \in DOMAIN Outputs}

\* extract_journal: the first one.
ExtractJournal(proof) ==
  IF Candidates(proof) = {} THEN None
  ELSE LET c == CHOOSE c \in Candidates(proof) : \A d \in Candidates(proof) : c[1] <= d[1]
       IN  Some(SubSeq(proof, c[1] + 8, c[1] + 7 + c[2]))

-----------------------------------------------------------------------------
\* parse_jmt_entry: a key is its first four bytes and the rest of them, of which
\* the length and what they are is kept; those of a storage key are the hash of
\* <<address, slot>>.
KeyLength == [ a \in {"E/s/", "E/i/", "E/a/", "E/H/"} |->
                 IF a = "E/s/" THEN 36 ELSE IF a = "E/i/" THEN 24 ELSE 12 ]

Category(key) ==
  IF key.prefix \in DOMAIN KeyLength /\ key.length = KeyLength[key.prefix]
  THEN key.prefix ELSE "other"

\* summarize_diff
SummarizeDiff(diff) ==
  [c \in DOMAIN KeyLength \cup {"other"} |->
     Cardinality({k \in DOMAIN diff : Category(diff[k][1]) = c})]

\* Where a diff has words that are in the table.
Recognized(registry, diff) ==
  {k \in DOMAIN diff : /\ Category(diff[k][1]) = "E/s/"
                       /\ InTable(registry, diff[k][1].rest[1], diff[k][1].rest[2])}

\* map_state_diff: the changes of these words, in the order of the diff.
MapDiff(registry, diff) ==
  LET order == Ascending(Recognized(registry, diff))
  IN  [n \in DOMAIN order |-> Change(registry, diff[order[n]][1].rest, diff[order[n]][2])]

\* What is made of a state diff, and printed (a summary of no keys only as JSON).
DiffShown(registry, diff) ==
  [changes |-> MapDiff(registry, diff), summary |-> SummarizeDiff(diff)]

\* decode_complete_proof: of an error, which half of the way it is.
ProofShown(registry, compressed) ==
  IF compressed \notin DOMAIN Decompressed THEN Shown("decompress failed", None)
  ELSE LET proof   == Decompressed[compressed]
           journal == ExtractJournal(proof)
       IN  IF Len(proof) > MaxDecompressed THEN Shown("decompress failed", None)
           ELSE IF journal = None THEN Shown("journal extraction failed", Len(proof))
           ELSE Shown("Complete", DiffShown(registry, Outputs[journal[1]]))

\* What the decoders make of a body, all of it.
BodyRead(registry, body) ==
  LET data == DecodeBody(body)
  IN  IF data = None THEN Shown("Borsh decode error", body)
      ELSE IF data[1].variant # "Complete" THEN data[1]
      ELSE ProofShown(registry, SubSeq(data[1].of, 5, Len(data[1].of)))

-----------------------------------------------------------------------------
\* What is printed of that, below what is printed of every inscription.  The two
\* formats leave different things out.

Formats == {"text", "json"}

\* Where the second vector of some fields begins, after a first one of such items.
SecondVec(fields, size) == CHOOSE end \in VecEnds(fields, {1}, size) : TRUE

\* The length of the vector that begins here, in its four bytes.
VecLen(fields, start) == SubSeq(fields, start, start + 3)

\* print_text: of vectors only how long they are, except in what cannot be decoded.
TextOf(read) ==
  LET Lengths(size) == << VecLen(read.of, 1), VecLen(read.of, SecondVec(read.of, size)) >>
  IN  CASE read.variant = "Aggregate" -> Shown(read.variant, Lengths(32))
        [] read.variant = "BatchProofMethodId" -> Shown(read.variant, Lengths(1))
        [] read.variant = "Chunk" -> Shown(read.variant, VecLen(read.of, 1))
        [] OTHER -> read

\* print_json: of an aggregate the txids; one field for both errors of a proof; of
\* the other variants and of what cannot be decoded nothing at all.
JsonOf(read) ==
  CASE read.variant = "Aggregate" ->
         Shown(read.variant, SubSeq(read.of, 1, SecondVec(read.of, 32) - 1))
    [] read.variant \in {"decompress failed", "journal extraction failed"} ->
         Shown("decode_error", None)
    [] read.variant \in {"Chunk", "BatchProofMethodId", "Borsh decode error"} ->
         Shown("nothing", None)
    [] OTHER -> read

Printed(format, read) == IF format = "json" THEN JsonOf(read) ELSE TextOf(read)

-----------------------------------------------------------------------------
\* An answer of the node has the state diff as an object; a member has a key and
\* a value, each with its kind, "hex" for a string of hexadecimal digits (with or
\* without 0x), and what it says.

\* state_diff_from_rpc: what is not understood in a key drops the member, in a
\* value it clears the word.
StateDiffFromRpc(members) ==
  LET order == Ascending({k \in DOMAIN members : members[k].key.kind = "hex"})
  IN  [n \in DOMAIN order |->
         LET m == members[order[n]]
         IN  <<m.key.of, IF m.value.kind = "hex" THEN Some(m.value.of) ELSE None>>]
=============================================================================
