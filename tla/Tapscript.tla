----------------------------- MODULE Tapscript -----------------------------
(***************************************************************************)
(* parse_tapscript (taproot-reader/crates/citrea-decoder/src/parser.rs):   *)
(* what a Citrea inscription says, read off the bytes of its script.  The  *)
(* parser is one pass without a way back, so it is a function; every error *)
(* is Absent.  Positions count from 1.                                     *)
(***************************************************************************)
EXTENDS Integers, SequencesExt

CONSTANTS Absent

\* Absent is nothing the parser may find instead of it.
ASSUME AbsentAssumption == Absent \notin [body : Seq(0..255), end : Nat]

OP_FALSE == 0
OP_IF == 99
OP_ENDIF == 104
OP_NIP == 119
OP_CHECKSIGVERIFY == 173

\* TransactionKind: Complete, Aggregate, Chunk, BatchProofMethodId and
\* SequencerCommitment.
TransactionKind == 0..4

-----------------------------------------------------------------------------
\* read_pushdata at p.  OP_0 is a push of nothing; OP_PUSHDATA4 is no push.
DataStart(s, p) == p + (IF s[p] <= 75 THEN 1 ELSE s[p] - 74)

DataLength(s, p) ==
  IF s[p] <= 75 THEN s[p]
  ELSE IF s[p] = 76 THEN s[p+1]
  ELSE s[p+1] + 256 * s[p+2]

After(s, p) == DataStart(s, p) + DataLength(s, p)

IsPush(s, p) ==
  /\ p <= Len(s) /\ s[p] <= 77
  /\ DataStart(s, p) <= Len(s) + 1
  /\ After(s, p) <= Len(s) + 1

Data(s, p) == SubSeq(s, DataStart(s, p), After(s, p) - 1)

\* expect_opcode
Is(s, p, op) == p <= Len(s) /\ s[p] = op

LittleEndian(data) == data[1] + 256 * data[2]

\* The chunks from first on, put together, and where OP_ENDIF ends them.
Chunks(s, first) ==
  LET chunks[p \in first..Len(s)+1] ==
        IF Is(s, p, OP_ENDIF) THEN [body |-> <<>>, end |-> p]
        ELSE IF ~IsPush(s, p) THEN Absent
        ELSE LET rest == chunks[After(s, p)] IN
               IF rest = Absent THEN Absent
               ELSE [body |-> Data(s, p) \o rest.body, end |-> rest.end]
  IN  chunks[first]

\* Eight bytes of a nonce, filled up with zeros if there are fewer.
Nonce(data) == [k \in 1..8 |-> IF k <= Len(data) THEN data[k] ELSE 0]

parse_tapscript(s) ==
  LET verify    == After(s, 1)
      kind      == verify + 1
      open      == After(s, kind)
      signature == open + 2
      signer    == After(s, signature)
      chunks    == Chunks(s, After(s, signer))
      nonce     == chunks.end + 1
  IN  IF /\ Len(s) >= 40
         /\ IsPush(s, 1) /\ Len(Data(s, 1)) = 32
         /\ Is(s, verify, OP_CHECKSIGVERIFY)
         /\ IsPush(s, kind) /\ Len(Data(s, kind)) = 2
         /\ LittleEndian(Data(s, kind)) \in TransactionKind
         /\ Is(s, open, OP_FALSE) /\ Is(s, open + 1, OP_IF)
         /\ IsPush(s, signature)
         /\ IsPush(s, signer)
         /\ chunks # Absent
         /\ IsPush(s, nonce)
         /\ Is(s, After(s, nonce), OP_NIP)
      THEN [ tapscript_pubkey |-> Data(s, 1),
             kind             |-> LittleEndian(Data(s, kind)),
             signature        |-> Data(s, signature),
             signer_pubkey    |-> Data(s, signer),
             body             |-> chunks.body,
             nonce            |-> Nonce(Data(s, nonce)) ]
      ELSE Absent

-----------------------------------------------------------------------------
\* What Citrea writes, as parse_tapscript takes it apart: a push of data, in the
\* shortest of its forms, and the script of an inscription, its body in chunks.
Push(data) ==
  LET n == Len(data) IN
    IF n <= 75 THEN <<n>> \o data
    ELSE IF n <= 255 THEN <<76, n>> \o data
    ELSE <<77, n % 256, n \div 256>> \o data

Encode(i, chunks) ==
  FlattenSeq(
    << Push(i.tapscript_pubkey), <<OP_CHECKSIGVERIFY>>,
       Push(<<i.kind, 0>>), <<OP_FALSE, OP_IF>>,
       Push(i.signature), Push(i.signer_pubkey),
       FlattenSeq([k \in DOMAIN chunks |-> Push(chunks[k])]),
       <<OP_ENDIF>>, Push(i.nonce), <<OP_NIP>> >>)

-----------------------------------------------------------------------------
\* extract_tapscript: the last but one item of a witness.
HasTapscript(witness) == Len(witness) >= 2

TapscriptOf(witness) == witness[Len(witness) - 1]
=============================================================================
