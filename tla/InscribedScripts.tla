-------------------------- MODULE InscribedScripts --------------------------
(***************************************************************************)
(* The parser of Envelope.tla on scripts that were written as a sequence   *)
(* of parts: inscriptions, encoded as the tests of envelope.rs encode them *)
(* (build_envelope, push_data), and other code.                            *)
(***************************************************************************)
EXTENDS Envelope, SequencesExt

CONSTANTS
  Writings,     \* the sequences of parts to try
  Tails         \* what may follow the last part, cut short or not

LongestPush == 65535        \* u16::MAX

\* The data whose length survives the cast of push_data; nothing is pushed as OP_0.
Pushable == {data \in Seq(Byte) : Len(data) \in 1..LongestPush}

\* An inscription has a tag and a value for each field; only the last chunk of a
\* body may be empty.
Inscriptions ==
  {i \in [fields : Seq(Byte \X Pushable), chunks : Seq(Pushable \cup {<<>>})] :
     \A k \in DOMAIN i.chunks : i.chunks[k] = <<>> => k = Len(i.chunks)}

VARIABLES
  parts         \* history: what was written

\* A part: its bytes, and the inscription it holds or None.
Code(bytes) == [bytes |-> bytes, holds |-> None]

\* push_data
Push(data) ==
  LET n == Len(data) IN
    CASE n <= 75  -> <<n>> \o data
      [] n \in 76..255 -> <<76, n>> \o data
      [] OTHER -> <<77, n % 256, n \div 256>> \o data

FieldPushes(inscription) ==
  [k \in DOMAIN inscription.fields |->
     Push(<<inscription.fields[k][1]>>) \o Push(inscription.fields[k][2])]

ChunkPushes(inscription) == [k \in DOMAIN inscription.chunks |-> Push(inscription.chunks[k])]

\* build_envelope, with any fields and any number of chunks.
Encode(inscription) ==
  << OP_FALSE, OP_IF >>
  \o Push(Magic)
  \o FlattenSeq(FieldPushes(inscription))
  \o (IF inscription.chunks = <<>> THEN <<>>
      ELSE <<OP_FALSE>> \o FlattenSeq(ChunkPushes(inscription)))
  \o << OP_ENDIF >>

Inscription(fields, chunks) ==
  LET i == [fields |-> fields, chunks |-> chunks]
  IN  [bytes |-> Encode(i), holds |-> i]

Part ==
  {part \in [bytes : Seq(Byte), holds : {None} \cup Inscriptions] :
     part.holds # None => part.bytes = Encode(part.holds)}

ASSUME WritingsAssumption ==
  /\ Magic \in Pushable
  /\ Tails \subseteq Seq(Byte)
  /\ Writings \subseteq Seq(Part)

Bytes(ps) == FlattenSeq([k \in DOMAIN ps |-> ps[k].bytes])

WrittenInit ==
  /\ parts \in Writings
  /\ \E t \in Tails : script = Bytes(parts) \o t
  /\ Begin

WrittenNext == Next /\ UNCHANGED parts

WrittenSpec == WrittenInit /\ [][WrittenNext]_<<parseVars, parts>>

-----------------------------------------------------------------------------
\* The last value of each field among the first n.
Said(inscription, n) ==
  [t \in Tags |->
     LET said == {k \in 1..n : inscription.fields[k][1] = t}
     IN  IF said = {} THEN None
         ELSE Value(t, inscription.fields[CHOOSE k \in said : \A j \in said : j <= k][2])]

\* What an inscription says: its fields, and all of its body.
Meaning(inscription) ==
  [fields |-> Said(inscription, Len(inscription.fields)),
   body   |-> FlattenSeq(inscription.chunks)]

\* Where part k begins.
Offset(k) == Len(Bytes(SubSeq(parts, 1, k - 1))) + 1

Holders == {k \in DOMAIN parts : parts[k].holds # None}

\* An attempt to read an inscription that begins in other code is over where the
\* next inscription begins.
CodeEndsItsAttempts ==
  envelope.start \notin {Offset(j) : j \in Holders} =>
    \A k \in Holders : envelope.start < Offset(k) => pos <= Offset(k)

\* Only inscriptions have the two bytes that an envelope begins with, but for what
\* comes after the last inscription.
PlainCode ==
  \A s \in 1..Len(script) : Starts(s) =>
    \/ \E j \in Holders : s \in Offset(j) .. Offset(j) + Len(parts[j].bytes) - 1
    \/ \A k \in Holders : Offset(k) < s

\* The doc of extract_envelopes: all envelopes of a witness item are extracted.
EveryInscriptionIsExtracted ==
  phase = "done" =>
    \A k \in Holders :
      \E n \in DOMAIN envelopes :
        /\ envelopes[n].start = Offset(k)
        /\ [fields |-> envelopes[n].fields, body |-> envelopes[n].body] =
             Meaning(parts[k].holds)

\* Reading gives back what was written: every inscription with its fields and its
\* whole body, whatever code stands between, and nothing that begins inside one,
\* even where the data of an inscription looks like another.
WrittenIsRead ==
  /\ EveryInscriptionIsExtracted
  /\ \A k \in Holders : \A n \in DOMAIN envelopes :
       envelopes[n].start \notin Offset(k)+1 .. Offset(k) + Len(parts[k].bytes) - 1
=============================================================================
