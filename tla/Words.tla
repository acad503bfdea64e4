------------------------------- MODULE Words -------------------------------
(***************************************************************************)
(* What the bytes of a storage word stand for: the second half of          *)
(* taproot-reader/crates/binst-decoder/src/value.rs.  A number is the      *)
(* sequence of its bytes, so that none is too large.  Next to it the       *)
(* layout that solc gives the values, and what a state diff has of a word. *)
(***************************************************************************)
EXTENDS Integers, SequencesExt

CONSTANTS
  Utf8          \* the byte sequences str::from_utf8 accepts (external)

Byte == 0..255

Decode(type, value) == [type |-> type, value |-> <<value>>]

Zeros(n) == [k \in 1..n |-> 0]

\* Mutant: a word that was trimmed is padded at the other end.
WordPaddedBehind(raw) ==
  [k \in 1..32 |-> IF k <= Len(raw) THEN raw[Len(raw) + 1 - k] ELSE 0]

\* The word of a raw value: the state diff has its last byte first, and may have
\* left out zeros in front; what is beyond 32 bytes is not looked at.
Word(raw) == [k \in 1..32 |-> IF 33 - k <= Len(raw) THEN raw[33 - k] ELSE 0]

\* The digits of a number, without leading zeros; 0 has none.
Stripped(bytes) ==
  LET digits == {k \in DOMAIN bytes : bytes[k] # 0}
  IN  IF digits = {} THEN <<>>
      ELSE SubSeq(bytes, CHOOSE k \in digits : \A j \in digits : k <= j, Len(bytes))

\* (n - 1) / 2 for an odd n, in as many bytes.
Halved(bytes) ==
  [k \in DOMAIN bytes |->
     bytes[k] \div 2 + 128 * (IF k = 1 THEN 0 ELSE bytes[k - 1] % 2)]

\* decode_address: the last 20 bytes.
DecodeAddress(word) == Decode("Address", SubSeq(word, 13, 32))

\* decode_uint256: in decimals as far as u128 goes, the whole word in hexadecimal
\* beyond that.
DecodeUint256(word) ==
  LET digits == Stripped(word)
  IN  Decode("Uint", IF Len(digits) <= 16 THEN digits ELSE word)

\* decode_bool
DecodeBool(word) == Decode("Bool", word # Zeros(32))

\* decode_sol_string: a short string is in the word, with twice its length in the
\* last byte; of a long one the word has twice the length, and one, in bytes.
DecodeSolString(word) ==
  LET short == SubSeq(word, 1, word[32] \div 2)
  IN  IF word[32] % 2 = 1
      THEN Decode("LongString", Stripped(SubSeq(Halved(SubSeq(word, 17, 32)), 9, 16)))
      ELSE IF word[32] \div 2 > 31 \/ short \notin Utf8
      THEN Decode("RawHex", word)
      ELSE Decode("String", short)

Status == [b \in Byte |-> IF b = 0 THEN "Pending" ELSE IF b = 1 THEN "Completed"
                          ELSE IF b = 2 THEN "Rejected" ELSE "Unknown"]

\* decode_step_state: solc packs the status into the last byte of the word and the
\* actor next to it.
DecodeStepState(word) ==
  Decode("StepState", [status |-> Status[word[32]], actor |-> SubSeq(word, 12, 31)])

\* decode_bytes
DecodeBytes(type, word) ==
  CASE type = "Address"   -> DecodeAddress(word)
    [] type = "Uint256"   -> DecodeUint256(word)
    [] type = "Bool"      -> DecodeBool(word)
    [] type = "Bytes32"   -> Decode("Bytes32", word)
    [] type = "SolString" -> DecodeSolString(word)
    [] type = "StepState" -> DecodeStepState(word)

\* decode_value for a value that is there: the empty one stands for a cleared word.
DecodeRawValue(type, raw) ==
  IF raw = <<>> THEN [type |-> "Deleted", value |-> <<>>] ELSE DecodeBytes(type, Word(raw))

-----------------------------------------------------------------------------
\* What is in a state diff of a word: its last byte first, without the zeros in front.
Trimmed(word) == Reverse(Stripped(word))

\* Values of each type as contracts store them: the word in solc's layout, first byte
\* first, next to what it means.  A number is its digits; one of at most 16 bytes is
\* shown in decimals, a larger one is its word.
Stored(type, value, word) == [decoded |-> Decode(type, value), word |-> word]

AddressValue(a) == Stored("Address", a, Zeros(12) \o a)
NumberValue(n)  == Stored("Uint", n, Zeros(32 - Len(n)) \o n)
LargeValue(w)   == Stored("Uint", w, w)
KeyValue(w)     == Stored("Bytes32", w, w)
BoolValue       == Stored("Bool", TRUE, Zeros(31) \o <<1>>)
TextValue(t)    == Stored("String", t, t \o Zeros(31 - Len(t)) \o <<2 * Len(t)>>)
StepValue(n, a) ==
  Stored("StepState", [status |-> Status[n], actor |-> a], Zeros(11) \o a \o <<n>>)

\* 2 n + 1, in as many bytes.
Doubled(bytes) ==
  [k \in DOMAIN bytes |->
     ((2 * bytes[k]) % 256) + (IF k = Len(bytes) THEN 1 ELSE bytes[k + 1] \div 128)]

\* A text that is too long for a word: its length n.
LongTextValue(n) ==
  Stored("LongString", n, Zeros(16) \o Doubled(Zeros(16 - Len(n)) \o n))
=============================================================================
