------------------------------ MODULE Envelope ------------------------------
(***************************************************************************)
(* extract_envelopes (taproot-reader/crates/binst-inscription/src/         *)
(* envelope.rs): the inscriptions in the bytes of a script.  The parser is *)
(* a machine with one action per turn of one of its loops.  What matters   *)
(* is where it goes on after input that is no inscription: read_push has   *)
(* moved the position by then.  Positions count from 1.                    *)
(***************************************************************************)
EXTENDS Integers, Sequences

CONSTANTS
  Scripts,      \* the witness items to read
  Magic,        \* b"ord"
  None

Byte == 0..255

ASSUME EnvelopeAssumption ==
  /\ Scripts \subseteq Seq(Byte)
  /\ None \notin Seq(Byte)

OP_FALSE == 0       \* OP_0 too
OP_IF    == 99
OP_ENDIF == 104
LastPush == 78      \* OP_PUSHDATA4

VARIABLES
  script,
  pos,          \* of the next byte to read
  phase,        \* "scanning", "magic", "fields", "body" or "done"
  envelope,     \* under construction; start and end are history
  envelopes

parseVars == <<script, pos, phase, envelope, envelopes>>

\* TAG_CONTENT_TYPE, TAG_POINTER, TAG_PARENT, TAG_METADATA, TAG_METAPROTOCOL
Tags == {1, 2, 3, 5, 7}

Blank(s) == [start |-> s, end |-> 0, fields |-> [t \in Tags |-> None], body |-> <<>>]

\* The parser before the first byte.
Begin ==
  /\ pos = 1
  /\ phase = "scanning"
  /\ envelope = Blank(0)
  /\ envelopes = <<>>

Init == script \in Scripts /\ Begin

-----------------------------------------------------------------------------
\* read_push at p: whether there is a whole push, its data, and where it leaves
\* the position.  A push that is cut short moves the position all the same, past
\* what could be read of the opcode and the length.
HeaderLength(op) ==
  1 + (IF op < 76 THEN 0 ELSE IF op = 76 THEN 1 ELSE IF op = 77 THEN 2 ELSE 4)

DataLength(p) ==
  IF script[p] < 76 THEN script[p]
  ELSE IF script[p] = 76 THEN script[p+1]
  ELSE IF script[p] = 77 THEN script[p+1] + 256 * script[p+2]
  ELSE script[p+1] + 256 * (script[p+2] + 256 * (script[p+3] + 256 * script[p+4]))

IsPushOpcode(p) == p <= Len(script) /\ script[p] \in 1..LastPush

DataStart(p) == p + HeaderLength(script[p])

HasLength(p) == IsPushOpcode(p) /\ DataStart(p) <= Len(script) + 1

IsPush(p) == HasLength(p) /\ DataStart(p) + DataLength(p) <= Len(script) + 1

Data(p) == SubSeq(script, DataStart(p), DataStart(p) + DataLength(p) - 1)

After(p) ==
  IF IsPush(p) THEN DataStart(p) + DataLength(p)
  ELSE IF HasLength(p) THEN DataStart(p)
  ELSE IF IsPushOpcode(p) THEN p + 1
  ELSE p

At(op) == pos <= Len(script) /\ script[pos] = op

\* String::from_utf8(value).ok(): in the model, ASCII is all of UTF-8.
Text(data) == IF \A k \in DOMAIN data : data[k] < 128 THEN data ELSE None

Value(tag, data) == IF tag \in {1, 7} THEN Text(data) ELSE data

-----------------------------------------------------------------------------
Starts(p) == p < Len(script) /\ script[p] = OP_FALSE /\ script[p+1] = OP_IF

\* find_envelope_start, and the two bytes parse_envelope skips.
FindStart ==
  /\ phase = "scanning"
  /\ \E s \in pos..Len(script) :
       /\ Starts(s) /\ \A q \in pos..(s-1) : ~Starts(q)
       /\ pos' = s + 2
       /\ envelope' = Blank(s)
  /\ phase' = "magic"
  /\ UNCHANGED <<script, envelopes>>

Finish ==
  /\ phase = "scanning"
  /\ \A s \in pos..Len(script) : ~Starts(s)
  /\ phase' = "done"
  /\ UNCHANGED <<script, pos, envelope, envelopes>>

\* Mutant: the scan goes back to where the envelope began.
GiveUpAtStart(p) ==
  /\ pos' = envelope.start
  /\ phase' = "scanning"
  /\ UNCHANGED <<script, envelope, envelopes>>

\* parse_envelope returned None with the position at p: pos += 1
GiveUp(p) ==
  /\ pos' = p + 1
  /\ phase' = "scanning"
  /\ UNCHANGED <<script, envelope, envelopes>>

\* parse_envelope returned Some(OrdEnvelope { .. }) with the position at p.
Return(p) ==
  /\ envelopes' = Append(envelopes, [envelope EXCEPT !.end = p])
  /\ pos' = p
  /\ phase' = "scanning"
  /\ UNCHANGED <<script, envelope>>

\* Mutant: any push is taken for the magic one.
ReadAnyMagic ==
  /\ phase = "magic"
  /\ IF IsPush(pos)
     THEN phase' = "fields" /\ pos' = After(pos) /\ UNCHANGED <<script, envelope, envelopes>>
     ELSE GiveUp(After(pos))

ReadMagic ==
  /\ phase = "magic"
  /\ IF IsPush(pos) /\ Data(pos) = Magic
     THEN phase' = "fields" /\ pos' = After(pos) /\ UNCHANGED <<script, envelope, envelopes>>
     ELSE GiveUp(After(pos))

\* The first conditions of the loop: the end of the script, OP_ENDIF, the separator.
RunOut ==
  /\ phase \in {"fields", "body"}
  /\ pos > Len(script)
  /\ GiveUp(pos)

EndEnvelope ==
  /\ phase \in {"fields", "body"}
  /\ At(OP_ENDIF)
  /\ Return(pos + 1)

BeginBody ==
  /\ phase = "fields"
  /\ At(OP_FALSE)
  /\ phase' = "body"
  /\ pos' = pos + 1
  /\ UNCHANGED <<script, envelope, envelopes>>

\* Two pushes, a tag and its value.  A tag that is not one byte, and a tag that is
\* not known, is skipped with its value; a tag that comes again replaces its value.
ReadField ==
  /\ phase = "fields" /\ pos <= Len(script) /\ ~At(OP_ENDIF) /\ ~At(OP_FALSE)
  /\ LET second == After(pos) IN
       IF IsPush(pos) /\ IsPush(second)
       THEN /\ \/ /\ Len(Data(pos)) = 1 /\ Data(pos)[1] \in Tags
                  /\ envelope' = [envelope EXCEPT !.fields[Data(pos)[1]] =
                                                    Value(Data(pos)[1], Data(second))]
               \/ /\ ~(Len(Data(pos)) = 1 /\ Data(pos)[1] \in Tags)
                  /\ UNCHANGED envelope
            /\ pos' = After(second)
            /\ UNCHANGED <<script, phase, envelopes>>
       ELSE GiveUp(IF IsPush(pos) THEN After(second) ELSE second)

\* Mutant: a chunk replaces the one before.
ReadLastChunk ==
  /\ phase = "body" /\ pos <= Len(script) /\ ~At(OP_ENDIF)
  /\ IF IsPush(pos)
     THEN /\ envelope' = [envelope EXCEPT !.body = Data(pos)]
          /\ pos' = After(pos)
          /\ UNCHANGED <<script, phase, envelopes>>
     ELSE Return(After(pos))

\* A chunk of the body; anything that is not a push ends the envelope, OP_0 too.
ReadChunk ==
  /\ phase = "body" /\ pos <= Len(script) /\ ~At(OP_ENDIF)
  /\ IF IsPush(pos)
     THEN /\ envelope' = [envelope EXCEPT !.body = @ \o Data(pos)]
          /\ pos' = After(pos)
          /\ UNCHANGED <<script, phase, envelopes>>
     ELSE Return(After(pos))

Next ==
  \/ FindStart \/ Finish
  \/ ReadMagic
  \/ RunOut \/ EndEnvelope \/ BeginBody
  \/ ReadField \/ ReadChunk

Spec == Init /\ [][Next]_parseVars

-----------------------------------------------------------------------------
Genuine(e) ==
  /\ Starts(e.start) /\ IsPush(e.start + 2) /\ Data(e.start + 2) = Magic
  /\ e.start < e.end /\ e.end <= pos

\* Each envelope returned begins with the two opcodes and the magic push, and
\* lies behind the one returned before it, however the attempts in between ended:
\* no byte of a script is read as part of two inscriptions.
EnvelopesAreGenuine ==
  /\ \A n \in DOMAIN envelopes : Genuine(envelopes[n])
  /\ \A m, n \in DOMAIN envelopes : m < n => envelopes[m].end <= envelopes[n].start

\* Every turn of the loops advances, whatever the bytes, except that a body may
\* end at a byte it does not consume; so every script is read to its end, and the
\* position never passes it by more than the bytes a failed attempt skips.
EveryTurnAdvances ==
  [][ /\ \/ pos' > pos
         \/ phase = "body" /\ phase' = "scanning" /\ pos' = pos
         \/ phase = "scanning" /\ phase' = "done"
      /\ pos' <= Len(script) + 2 ]_parseVars
=============================================================================
