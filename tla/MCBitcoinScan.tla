--------------------------- MODULE MCBitcoinScan ---------------------------
(***************************************************************************)
(* Model of BitcoinScan.tla: blocks with transactions byte by byte; batch  *)
(* proofs whose state diffs have the words of two contracts in solc's      *)
(* layout.                                                                 *)
(***************************************************************************)
EXTENDS BitcoinScan, TLC

Long(n, byte) == [k \in 1..n |-> byte]

Inscription(kind, body) ==
  [ tapscript_pubkey |-> Long(32, 7), kind |-> kind, signature |-> Long(64, 104),
    signer_pubkey |-> Long(33, 2), body |-> body, nonce |-> <<16, 0, 0, 0, 0, 0, 0, 0>> ]

Control == <<192>>

Tx(reveal, witness, wrote, means, answer) ==
  [reveal |-> reveal, witness |-> witness, wrote |-> wrote, means |-> means, answer |-> answer]

NotCitreas(reveal, witness) == Tx(reveal, witness, Absent, Absent, Absent)

Coinbase == NotCitreas(FALSE, << <<0>> >>)

Reveal(kind, chunks, means, answer) ==
  LET i == Inscription(kind, FlattenSeq(chunks))
  IN  Tx(TRUE, << <<1>>, Encode(i, chunks), Control >>, i, means, answer)

-----------------------------------------------------------------------------
\* An entry of a state diff: the value of a field of a contract; no value when the
\* word was cleared.
Entry(contract, address, slot, name, index, value) ==
  [change |-> [contract |-> contract, address |-> address, field |-> Field(name, index),
               decoded |-> IF value = <<>> THEN Deleted ELSE value[1].decoded],
   slot |-> slot, value |-> value]

Alice == <<0>> \o Long(18, 161) \o <<0>>

Institution(slot, name, index, value) ==
  Entry("Institution", "institution", slot, name, index, value)

Instance(slot, name, index, value) ==
  Entry("ProcessInstance", "instance", slot, name, index, value)

\* A value of each type, two that were cleared, and bounds of each type.
Entries ==
  << Institution(Plain(0), "InstitutionName", 0, <<TextValue(Long(31, 65))>>),
     Institution(Plain(1), "InstitutionAdmin", 0, <<AddressValue(Alice)>>),
     Institution(Plain(3), "InstitutionInscriptionId", 0, <<LongTextValue(<<1, 44>>)>>),
     Institution(Plain(4), "InstitutionRuneId", 0, <<TextValue(<<66>>)>>),
     Institution(Plain(5), "InstitutionBtcPubkey", 0, <<KeyValue(<<0, 2>> \o Long(30, 3))>>),
     Institution(Plain(6), "InstitutionMembersLength", 0, <<NumberValue(<<1, 0>>)>>),
     Institution(Element(6, 0), "InstitutionMemberElement", 0, <<AddressValue(Alice)>>),
     Institution(Element(6, 1), "InstitutionMemberElement", 1, <<>>) >>

MoreEntries ==
  << Instance(Plain(2), "InstanceCurrentStepIndex", 0, <<NumberValue(Long(16, 255))>>),
     Instance(Plain(3), "InstanceTotalSteps", 0,
              <<LargeValue(Long(15, 0) \o <<1>> \o Long(16, 0))>>),
     Instance(Plain(4), "InstanceCompleted", 0, <<BoolValue>>),
     Instance(Mapped(6, 0), "InstanceStepState", 0, <<StepValue(1, Alice)>>),
     Instance(Mapped(6, 1), "InstanceStepState", 1, <<StepValue(2, Alice)>>),
     Instance(Plain(5), "InstanceCreatedAt", 0, <<>>) >>

\* Keys that are no word of a registered contract: another contract's; a storage
\* key that is too short; accounts, headers and whatever else Citrea has.
Key(prefix, length, rest) == [prefix |-> prefix, length |-> length, rest |-> rest]

OtherKeys ==
  << Key("E/s/", 36, <<"stranger", Plain(1)>>),
     Key("E/s/", 35, <<"institution", Plain(2)>>),
     Key("E/i/", 24, <<>>), Key("E/a/", 12, <<>>), Key("E/H/", 12, <<>>),
     Key("E/H/", 36, <<"institution", Plain(2)>>), Key("L/da", 4, <<>>) >>

DiffOf(entries) ==
  [k \in DOMAIN entries |->
     << Key("E/s/", 36, <<entries[k].change.address, entries[k].slot>>),
        IF entries[k].value = <<>> THEN <<>>
        ELSE << Trimmed(entries[k].value[1].word) >> >>]
  \o [k \in DOMAIN OtherKeys |-> << OtherKeys[k], << Long(32, 1) >> >>]

\* The same as the node answers it, in another order, with a member that is none.
AnswerOf(entries) ==
  LET there == DiffOf(entries)
      diff  == [k \in DOMAIN there |-> there[Len(there) + 1 - k]]
  IN  << [key |-> [kind |-> "text", of |-> Absent], value |-> [kind |-> "hex", of |-> <<1>>]] >>
      \o [k \in DOMAIN diff |->
            [key   |-> [kind |-> "hex", of |-> diff[k][1]],
             value |-> IF diff[k][2] = <<>> THEN [kind |-> "null", of |-> Absent]
                       ELSE [kind |-> "hex", of |-> diff[k][2][1]]]]

MeaningOf(entries) ==
  Shown("Complete",
          [changes |-> {entries[k].change : k \in DOMAIN entries},
           summary |-> [c \in {"E/s/", "E/i/", "E/a/", "E/H/", "other"} |->
                          IF c = "E/s/" THEN Len(entries) + 1 ELSE IF c = "other" THEN 3 ELSE 1]])

\* Journals: of the smallest and the largest size that is looked for, and too large.
Small == Long(4, 1)
Large == Long(12, 2)
TooLarge == Long(13, 3)
MCOutputs ==
  (Small :> DiffOf(Entries) @@ Large :> DiffOf(MoreEntries) @@ TooLarge :> DiffOf(Entries))

Length(n, width) == <<n>> \o Long(width - 1, 0)

\* Proofs: a journal between bytes that look like lengths; one at the very end; one
\* that is too large; none; one in more bytes than are let through.
Proofs ==
  << <<0, 0, 7>> \o Length(5, 8) \o Long(5, 9) \o Length(200, 8) \o Length(4, 8) \o Small
       \o Length(4, 8) \o <<1, 1, 1>>,
     Length(2, 8) \o Length(12, 8) \o Large,
     Length(13, 8) \o TooLarge,
     Length(4, 8) \o <<1, 1, 1>>,
     Length(4, 8) \o Small \o Long(60, 0) >>

\* A compressed proof is its number; 6 is no stream.
MCDecompressed == [s \in {<<27, n>> : n \in 1..5} |-> Proofs[s[2]]]

Meanings ==
  << MeaningOf(Entries), MeaningOf(MoreEntries),
     Shown("journal extraction failed", 21), Shown("journal extraction failed", 11),
     Shown("decompress failed", None), Shown("decompress failed", <<>>) >>

BatchProof(n) ==
  Reveal(0, << <<0>> \o Length(2, 4), <<27, n>> >>, Meanings[n],
         AnswerOf(IF n = 1 THEN Entries ELSE MoreEntries))

-----------------------------------------------------------------------------
\* A commitment in one chunk; a body that is no Borsh in chunks of each kind of
\* push, with bytes that look like the end of it.
Commitment == Reveal(4, << Long(45, 4) >>, Shown("SequencerCommitment", Long(44, 4)), Absent)
Garbled ==
  LET chunks == << Long(256, 104), Long(76, 0), <<104, 8>>, <<>> >>
  IN  Reveal(0, chunks, Shown("Borsh decode error", FlattenSeq(chunks)), Absent)

\* The other variants, and one with a byte too much.
Variant(kind, name, fields) == Reveal(kind, << <<kind>>, fields >>, Shown(name, fields), Absent)

Aggregate == Variant(1, "Aggregate", Length(2, 4) \o Long(64, 5) \o Length(1, 4) \o Long(32, 6))
Chunk     == Variant(2, "Chunk", Length(3, 4) \o <<1, 2, 3>>)
MethodId  == Variant(3, "BatchProofMethodId",
                     Length(1, 4) \o <<8>> \o Length(2, 4) \o Length(1, 4) \o <<9>> \o Length(0, 4)
                       \o Length(0, 4))
OneTooMuch ==
  LET body == <<2>> \o Length(1, 4) \o <<1, 2>>
  IN  Reveal(2, << body >>, Shown("Borsh decode error", body), Absent)

\* The commitment, cut short after any number of bytes.
Cut == LET s == TapscriptOf(Commitment.witness)
       IN  [n \in 1..Len(s) |-> NotCitreas(TRUE, << SubSeq(s, 1, n - 1), Control >>)]

\* Transactions that only look like Citrea's: another prefix; a witness of one
\* item; an unknown kind; an opcode that is no push within the body; a nonce that
\* is missing.
Others ==
  LET i == Inscription(4, Long(45, 4)) IN
  << NotCitreas(FALSE, Commitment.witness),
     NotCitreas(TRUE, << TapscriptOf(Commitment.witness) >>),
     NotCitreas(TRUE, << Encode([i EXCEPT !.kind = 5], << i.body >>), Control >>),
     NotCitreas(TRUE, << Push(i.tapscript_pubkey) \o <<173, 2, 4, 0, 0, 99, 1, 1, 1, 2, 78, 1, 0, 0,
                                                       0, 4, 104, 1, 16, 119>>, Control >>),
     NotCitreas(TRUE, << Push(i.tapscript_pubkey) \o <<173, 2, 4, 0, 0, 99, 1, 1, 1, 2, 104, 119>>,
                         Control >>) >>

ContentsOfBlocks ==
  [ b0 |-> << Coinbase >>,
    b1 |-> << Coinbase, Commitment >> \o Others \o << Garbled >>,
    b2 |-> << Coinbase >> \o Cut \o << BatchProof(1) >>,
    b3 |-> << Coinbase, BatchProof(2), Aggregate, Chunk, MethodId, OneTooMuch, Commitment >>,
    b4 |-> << Coinbase >> \o [n \in 1..6 |-> BatchProof(n)] ]

\* (A definition of its own is evaluated once, the value of a constant each time.)
MCContents == ContentsOfBlocks

MCFirstChains == { <<"b0", "b1">>, <<"b0", "b1", "b2">>, <<"b0", "b3", "b2">> }

\* The sequences of ASCII characters that occur.
MCUtf8 == { Long(31, 65), <<66>> }

MCRegistry ==
  [kind \in Kinds |-> IF kind = "Institution" THEN {"institution"}
                        ELSE IF kind = "ProcessInstance" THEN {"instance"} ELSE {}]

NoRequest == [ block |-> Absent, latest |-> Absent, from |-> Absent, to |-> Absent,
               kind |-> Absent, format |-> "text" ]

MCRequests ==
  { NoRequest,
    [NoRequest EXCEPT !.block = 1, !.latest = 0],
    [NoRequest EXCEPT !.latest = 0],
    [NoRequest EXCEPT !.latest = 1],
    [NoRequest EXCEPT !.latest = 2, !.format = "json"],
    [NoRequest EXCEPT !.latest = 5],
    [NoRequest EXCEPT !.to = 3, !.kind = 4],
    [NoRequest EXCEPT !.from = 1, !.to = 3],
    [NoRequest EXCEPT !.from = 1, !.to = 3, !.format = "json"],
    [NoRequest EXCEPT !.from = 2, !.to = 1, !.kind = 0],
    [NoRequest EXCEPT !.from = 0, !.to = 2, !.kind = 0, !.format = "json"] }
=============================================================================
