--------------------------- MODULE EnvelopeProofs ---------------------------
(***************************************************************************)
(* Theorems about Envelope.tla, for every set of scripts, and about        *)
(* InscribedScripts.tla, for every set of inscriptions and of other code:  *)
(* TLC tries scripts made of a few parts.                                  *)
(***************************************************************************)
EXTENDS InscribedScripts, FiniteSetTheorems, WellFoundedInduction, SequenceTheorems, TLAPS

Record ==
  [start : Nat, end : Nat, fields : [Tags -> Seq(Byte) \cup {None}], body : Seq(Byte)]

\* Everything is of its type, and the position is within the script, but for the
\* bytes that a failed attempt at its end skips.
TypeOK ==
  /\ script \in Seq(Byte)
  /\ pos \in Nat \ {0}
  /\ phase \in {"scanning", "magic", "fields", "body", "done"}
  /\ envelope \in Record
  /\ envelopes \in Seq(Record)

PosInScript ==
  pos <= Len(script) + (IF phase \in {"scanning", "done"} THEN 2 ELSE 1)

Opens(s) == IsPush(s + 2) /\ Data(s + 2) = Magic

\* The envelope under construction is as genuine as the code has checked so far,
\* and lies behind those that are done.
AttemptIsGenuine ==
  phase \in {"magic", "fields", "body"} =>
    \E s \in Nat :
      /\ s = envelope.start
      /\ Starts(s)
      /\ IF phase = "magic" THEN pos = s + 2 ELSE s < pos /\ Opens(s)
      /\ \A n \in DOMAIN envelopes : envelopes[n].end <= s

\* EnvelopesAreGenuine, with a name for each start.
ReturnedAreGenuine ==
  /\ \A n \in DOMAIN envelopes :
       \E s \in Nat : /\ s = envelopes[n].start
                      /\ Starts(s) /\ Opens(s)
                      /\ s < envelopes[n].end /\ envelopes[n].end <= pos
  /\ \A m, n \in DOMAIN envelopes : m < n => envelopes[m].end <= envelopes[n].start

(***************************************************************************)
(* The inductive invariant: an envelope is genuine when it is returned     *)
(* only because the attempt was, which had its first bytes checked turns   *)
(* before.                                                                 *)
(***************************************************************************)
IInv == TypeOK /\ PosInScript /\ AttemptIsGenuine /\ ReturnedAreGenuine

-----------------------------------------------------------------------------
LEMMA ByteIsNumber == \A b \in Byte : b \in Nat
BY DEF Byte

LEMMA LittleEndian ==
  ASSUME NEW low \in Nat, NEW high \in Nat
  PROVE  low + 256 * high \in Nat
OBVIOUS

\* A length is a number, once the bytes it is made of are known to be there.
LEMMA LengthIsNumber ==
  ASSUME NEW p \in Nat, script[p] \in 1..78,
         script[p] >= 76 => script[p+1] \in Nat,
         script[p] >= 77 => script[p+2] \in Nat,
         script[p] = 78  => script[p+3] \in Nat /\ script[p+4] \in Nat
  PROVE  DataLength(p) \in Nat
<1>1. CASE script[p] < 76
  <2>1. DataLength(p) = script[p]
    BY <1>1, Zenon DEF DataLength
  <2>2. QED
    BY <1>1, <2>1
<1>2. CASE script[p] = 76
  <2>1. ~(script[p] < 76) /\ script[p+1] \in Nat
    BY <1>2
  <2>2. DataLength(p) = script[p+1]
    BY <1>2, <2>1, Zenon DEF DataLength
  <2>3. QED
    BY <2>1, <2>2
<1>3. CASE script[p] = 77
  <2>1. ~(script[p] < 76) /\ script[p] # 76 /\ script[p+1] \in Nat /\ script[p+2] \in Nat
    BY <1>3
  <2>2. DataLength(p) = script[p+1] + 256 * script[p+2]
    BY <1>3, <2>1, Zenon DEF DataLength
  <2>3. QED
    BY <2>1, <2>2, LittleEndian
<1>4. CASE script[p] = 78
  <2>1. /\ ~(script[p] < 76) /\ script[p] # 76 /\ script[p] # 77
        /\ script[p+1] \in Nat /\ script[p+2] \in Nat
        /\ script[p+3] \in Nat /\ script[p+4] \in Nat
    BY <1>4
  <2>2. DataLength(p) = script[p+1] + 256 * (script[p+2]
                          + 256 * (script[p+3] + 256 * script[p+4]))
    BY <2>1, Zenon DEF DataLength
  <2>3. script[p+3] + 256 * script[p+4] \in Nat
    BY <2>1, LittleEndian
  <2>4. script[p+2] + 256 * (script[p+3] + 256 * script[p+4]) \in Nat
    BY <2>1, <2>3, LittleEndian
  <2>5. QED
    BY <2>1, <2>2, <2>4, LittleEndian
<1>5. QED
  BY <1>1, <1>2, <1>3, <1>4

ScriptIsBytes == script \in Seq(Byte)

\* The bytes of a length that fits are in the script.
LEMMA HeaderFits ==
  ASSUME NEW op \in 1..78, NEW p \in Nat \ {0}, NEW l \in Nat,
         p + HeaderLength(op) <= l + 1
  PROVE  /\ op >= 76 => p + 1 \in 1..l
         /\ op >= 77 => p + 2 \in 1..l
         /\ op = 78  => p + 3 \in 1..l /\ p + 4 \in 1..l
BY DEF HeaderLength

\* read_push never moves the position back or past the end of the script, a push
\* that is whole moves it forward, and what it returns are bytes.
LEMMA PushStaysInScript ==
  ASSUME ScriptIsBytes, NEW p \in Nat \ {0}, p <= Len(script) + 1
  PROVE  /\ After(p) \in Nat \ {0}
         /\ p <= After(p) /\ After(p) <= Len(script) + 1
         /\ IsPush(p) => p < After(p)
         /\ IsPush(p) => Data(p) \in Seq(Byte)
<1>1. Len(script) \in Nat /\ \A k \in 1..Len(script) : script[k] \in Nat
  <2>1. Len(script) \in Nat /\ script \in [1..Len(script) -> Byte]
    BY LenProperties DEF ScriptIsBytes
  <2>2. \A k \in 1..Len(script) : script[k] \in Byte
    BY <2>1
  <2>3. QED
    BY <2>1, <2>2, ByteIsNumber, Zenon
<1>2. CASE ~IsPushOpcode(p)
  BY <1>1, <1>2 DEF After, IsPush, HasLength
<1>3. CASE IsPushOpcode(p) /\ ~HasLength(p)
  BY <1>1, <1>3 DEF After, IsPush, IsPushOpcode
<1>4. ASSUME HasLength(p)
      PROVE  DataStart(p) \in Nat /\ p < DataStart(p) /\ DataStart(p) <= Len(script) + 1
  BY <1>1, <1>4 DEF HasLength, DataStart, HeaderLength, IsPushOpcode, LastPush
<1>5. CASE HasLength(p) /\ ~IsPush(p)
  BY <1>1, <1>4, <1>5 DEF After
<1>6. CASE IsPush(p)
  <2>1. HasLength(p) /\ DataStart(p) + DataLength(p) <= Len(script) + 1
    BY <1>6 DEF IsPush
  <2>2. DataLength(p) \in Nat
    <3>1. script[p] \in 1..78 /\ p + HeaderLength(script[p]) <= Len(script) + 1
      BY <1>1, <2>1 DEF HasLength, IsPushOpcode, DataStart, LastPush
    <3>2. /\ script[p] >= 76 => p + 1 \in 1..Len(script)
          /\ script[p] >= 77 => p + 2 \in 1..Len(script)
          /\ script[p] = 78  => p + 3 \in 1..Len(script) /\ p + 4 \in 1..Len(script)
      BY <1>1, <3>1, HeaderFits
    <3>3. QED
      BY <1>1, <3>1, <3>2, LengthIsNumber
  <2>3. After(p) = DataStart(p) + DataLength(p)
    BY <1>6, <2>1 DEF After
  <2>4. Data(p) \in Seq(Byte)
    <3> DEFINE a == DataStart(p)
               b == DataStart(p) + DataLength(p) - 1
    <3>1. a \in 1..(Len(script) + 1) /\ b \in (a - 1)..Len(script)
      BY <1>1, <1>4, <2>1, <2>2
    <3>2. QED
      BY <3>1, SubSeqProperties DEF Data, ScriptIsBytes
  <2>5. QED
    BY <1>1, <1>4, <2>1, <2>2, <2>3, <2>4
<1>7. QED
  BY <1>2, <1>3, <1>5, <1>6 DEF HasLength

\* What is at a place of the script depends on the script alone.
LEMMA BytesStay ==
  ASSUME script' = script, NEW s
  PROVE  /\ Starts(s)' <=> Starts(s)
         /\ Opens(s)' <=> Opens(s)
BY DEF Starts, Opens, IsPush, HasLength, IsPushOpcode, DataStart, DataLength, Data

LEMMA BeginIsRight ==
  ASSUME script \in Seq(Byte), Begin
  PROVE  IInv
<1>1. Blank(0) \in Record
  BY DEF Blank, Record
<1>2. pos = 1 /\ phase = "scanning" /\ envelopes = <<>>
  BY DEF Begin
<1>3. TypeOK /\ PosInScript
  BY <1>1, <1>2 DEF Begin, TypeOK, PosInScript
<1>4. AttemptIsGenuine /\ ReturnedAreGenuine
  BY <1>2 DEF AttemptIsGenuine, ReturnedAreGenuine
<1>5. QED
  BY <1>3, <1>4 DEF IInv

LEMMA EndsAreNumbers ==
  ASSUME TypeOK
  PROVE  \A n \in DOMAIN envelopes : envelopes[n].end \in Nat /\ envelopes[n].start \in Nat
<1>1. \A n \in DOMAIN envelopes : envelopes[n] \in Record
  BY DEF TypeOK
<1>2. QED
  BY <1>1 DEF Record

\* A turn that returns nothing and does not move back keeps what was returned.
LEMMA ReturnedStay ==
  ASSUME IInv, UNCHANGED <<script, envelopes>>, pos' \in Nat, pos <= pos'
  PROVE  ReturnedAreGenuine'
<1>1. ASSUME NEW n \in DOMAIN envelopes
      PROVE  \E s \in Nat : /\ s = envelopes[n].start
                            /\ Starts(s)' /\ Opens(s)'
                            /\ s < envelopes[n].end /\ envelopes[n].end <= pos'
  <2>1. PICK s \in Nat : /\ s = envelopes[n].start
                         /\ Starts(s) /\ Opens(s)
                         /\ s < envelopes[n].end /\ envelopes[n].end <= pos
    BY DEF IInv, ReturnedAreGenuine
  <2>2. Starts(s)' /\ Opens(s)'
    BY <2>1, BytesStay
  <2>3. envelopes[n].end \in Nat /\ pos \in Nat
    BY EndsAreNumbers DEF IInv, TypeOK
  <2>4. QED
    BY <2>1, <2>2, <2>3
<1>2. QED
  BY <1>1 DEF IInv, ReturnedAreGenuine

-----------------------------------------------------------------------------
\* The turns that end an attempt.
LEMMA GiveUpKeepsIInv ==
  ASSUME IInv, NEW p \in Nat \ {0}, pos <= p, p <= Len(script) + 1, GiveUp(p)
  PROVE  IInv'
<1>1. pos' = p + 1 /\ phase' = "scanning" /\ UNCHANGED <<script, envelope, envelopes>>
  BY DEF GiveUp
<1>2. TypeOK' /\ PosInScript'
  BY <1>1 DEF IInv, TypeOK, PosInScript
<1>3. AttemptIsGenuine'
  BY <1>1 DEF AttemptIsGenuine
<1>4. ReturnedAreGenuine'
  BY <1>1, ReturnedStay DEF IInv, TypeOK
<1>5. QED
  BY <1>2, <1>3, <1>4 DEF IInv

LEMMA ReturnKeepsIInv ==
  ASSUME IInv, phase \in {"fields", "body"},
         NEW p \in Nat \ {0}, pos <= p, p <= Len(script) + 1, Return(p)
  PROVE  IInv'
<1> DEFINE e == [envelope EXCEPT !.end = p]
           c == Len(envelopes)
<1>1. /\ envelopes' = Append(envelopes, e)
      /\ pos' = p /\ phase' = "scanning" /\ script' = script /\ envelope' = envelope
  BY DEF Return
<1>2. e \in Record /\ e.end = p /\ e.start = envelope.start
  BY DEF IInv, TypeOK, Record
<1>3. TypeOK' /\ PosInScript'
  BY <1>1, <1>2 DEF IInv, TypeOK, PosInScript
<1>4. AttemptIsGenuine'
  BY <1>1 DEF AttemptIsGenuine
<1>5. /\ c \in Nat /\ DOMAIN envelopes = 1..c /\ DOMAIN envelopes' = 1..(c+1)
      /\ \A n \in 1..c : envelopes'[n] = envelopes[n]
      /\ envelopes'[c+1] = e
  BY <1>1, <1>2, AppendProperties DEF IInv, TypeOK
<1>6. PICK t \in Nat : /\ t = envelope.start
                       /\ Starts(t) /\ t < pos /\ Opens(t)
                       /\ \A n \in DOMAIN envelopes : envelopes[n].end <= t
  BY DEF IInv, AttemptIsGenuine
<1>7. ASSUME NEW n \in 1..(c+1)
      PROVE  \E s \in Nat : /\ s = envelopes'[n].start
                            /\ Starts(s)' /\ Opens(s)'
                            /\ s < envelopes'[n].end /\ envelopes'[n].end <= pos'
  <2>1. CASE n = c + 1
    <3>1. Starts(t)' /\ Opens(t)'
      BY <1>1, <1>6, BytesStay
    <3>2. t = envelopes'[n].start /\ envelopes'[n].end = p /\ t < p /\ pos' = p
      BY <1>1, <1>2, <1>5, <1>6, <2>1 DEF IInv, TypeOK
    <3>3. QED
      BY <3>1, <3>2
  <2>2. CASE n \in 1..c
    <3>1. envelopes'[n] = envelopes[n] /\ n \in DOMAIN envelopes
      BY <1>5, <2>2
    <3>2. PICK s \in Nat : /\ s = envelopes[n].start
                           /\ Starts(s) /\ Opens(s)
                           /\ s < envelopes[n].end /\ envelopes[n].end <= pos
      BY <3>1 DEF IInv, ReturnedAreGenuine
    <3>3. Starts(s)' /\ Opens(s)'
      BY <1>1, <3>2, BytesStay
    <3>4. envelopes[n].end \in Nat /\ pos \in Nat
      BY <3>1, EndsAreNumbers DEF IInv, TypeOK
    <3>5. QED
      BY <1>1, <3>1, <3>2, <3>3, <3>4
  <2>3. QED
    BY <1>5, <2>1, <2>2
<1>8. ASSUME NEW m \in 1..(c+1), NEW n \in 1..(c+1), m < n
      PROVE  envelopes'[m].end <= envelopes'[n].start
  <2>1. m \in 1..c /\ envelopes'[m] = envelopes[m] /\ m \in DOMAIN envelopes
    BY <1>5, <1>8
  <2>2. CASE n = c + 1
    BY <1>2, <1>5, <1>6, <2>1, <2>2
  <2>3. CASE n \in 1..c
    <3>1. envelopes'[n] = envelopes[n] /\ n \in DOMAIN envelopes
      BY <1>5, <2>3
    <3>2. QED
      BY <1>8, <2>1, <3>1 DEF IInv, ReturnedAreGenuine
  <2>4. QED
    BY <1>5, <2>2, <2>3
<1>9. ReturnedAreGenuine'
  BY <1>5, <1>7, <1>8 DEF ReturnedAreGenuine
<1>10. QED
  BY <1>3, <1>4, <1>9 DEF IInv

\* A turn within an attempt, which moves the position forward and leaves alone
\* where the attempt began.
Forward ==
  /\ envelope' \in Record /\ envelope'.start = envelope.start
  /\ pos' \in Nat /\ pos < pos' /\ pos' <= Len(script) + 1
  /\ phase' \in {"fields", "body"}
  /\ UNCHANGED <<script, envelopes>>

LEMMA ForwardKeepsIInv ==
  ASSUME IInv, phase \in {"magic", "fields", "body"}, Forward,
         \A s \in Nat : s = envelope.start => Opens(s)
  PROVE  IInv'
<1>1. TypeOK' /\ PosInScript'
  BY DEF Forward, IInv, TypeOK, PosInScript
<1>2. PICK t \in Nat : /\ t = envelope.start
                       /\ Starts(t)
                       /\ t <= pos
                       /\ \A n \in DOMAIN envelopes : envelopes[n].end <= t
  BY DEF IInv, TypeOK, AttemptIsGenuine
<1>3. /\ t = envelope'.start /\ t < pos'
      /\ Starts(t)' /\ Opens(t)'
      /\ \A n \in DOMAIN envelopes' : envelopes'[n].end <= t
  BY <1>2, BytesStay DEF Forward, IInv, TypeOK
<1>4. AttemptIsGenuine'
  BY <1>3 DEF Forward, AttemptIsGenuine
<1>5. ReturnedAreGenuine'
  BY ReturnedStay DEF Forward, IInv, TypeOK
<1>6. QED
  BY <1>1, <1>4, <1>5 DEF IInv

-----------------------------------------------------------------------------
\* What EveryTurnAdvances says of a step.
Advance ==
  /\ \/ pos' > pos
     \/ phase = "body" /\ phase' = "scanning" /\ pos' = pos
     \/ phase = "scanning" /\ phase' = "done"
  /\ pos' <= Len(script) + 2

LEMMA FindStartIsRight == ASSUME IInv, FindStart PROVE IInv' /\ Advance
<1>1. Len(script) \in Nat /\ pos \in Nat \ {0}
  BY LenProperties DEF IInv, TypeOK
<1>2. PICK s \in pos..Len(script) :
        /\ Starts(s)
        /\ pos' = s + 2
        /\ envelope' = Blank(s)
  BY DEF FindStart
<1>3. /\ phase = "scanning" /\ phase' = "magic" /\ script' = script
      /\ envelopes' = envelopes
  BY DEF FindStart
<1>4. s \in Nat /\ s < Len(script) /\ pos <= s
  BY <1>1, <1>2 DEF Starts
<1>5. Blank(s) \in Record /\ Blank(s).start = s
  BY <1>4 DEF Blank, Record
<1>6. TypeOK' /\ PosInScript'
  BY <1>1, <1>2, <1>3, <1>4, <1>5 DEF IInv, TypeOK, PosInScript
<1>7. AttemptIsGenuine'
  <2>1. Starts(s)'
    BY <1>2, <1>3, BytesStay
  <2>2. ASSUME NEW n \in DOMAIN envelopes
        PROVE  envelopes[n].end <= s
    <3>1. envelopes[n].end <= pos /\ envelopes[n].end \in Nat
      BY EndsAreNumbers DEF IInv, ReturnedAreGenuine
    <3>2. QED
      BY <1>1, <1>4, <3>1
  <2>3. QED
    BY <1>2, <1>3, <1>4, <1>5, <2>1, <2>2 DEF AttemptIsGenuine
<1>8. ReturnedAreGenuine'
  BY <1>1, <1>2, <1>3, <1>4, ReturnedStay
<1>9. Advance
  BY <1>1, <1>2, <1>4 DEF Advance
<1>10. QED
  BY <1>6, <1>7, <1>8, <1>9 DEF IInv

LEMMA FinishIsRight == ASSUME IInv, Finish PROVE IInv' /\ Advance
<1>1. /\ phase = "scanning" /\ phase' = "done"
      /\ UNCHANGED <<script, pos, envelope, envelopes>>
  BY DEF Finish
<1>2. TypeOK' /\ PosInScript' /\ AttemptIsGenuine'
  BY <1>1 DEF IInv, TypeOK, PosInScript, AttemptIsGenuine
<1>3. ReturnedAreGenuine'
  BY <1>1, ReturnedStay DEF IInv, TypeOK
<1>4. Advance
  BY <1>1 DEF Advance, IInv, PosInScript
<1>5. QED
  BY <1>2, <1>3, <1>4 DEF IInv

\* The two ends of an attempt, for any position they may leave.
LEMMA GiveUpIsRight ==
  ASSUME IInv, NEW p \in Nat \ {0}, pos <= p, p <= Len(script) + 1, GiveUp(p)
  PROVE  IInv' /\ Advance
<1>1. pos \in Nat /\ Len(script) \in Nat /\ pos' = p + 1
  BY LenProperties DEF IInv, TypeOK, GiveUp
<1>2. Advance
  BY <1>1 DEF Advance
<1>3. QED
  BY <1>2, GiveUpKeepsIInv

LEMMA ForwardIsRight ==
  ASSUME IInv, phase \in {"magic", "fields", "body"}, Forward,
         \A s \in Nat : s = envelope.start => Opens(s)
  PROVE  IInv' /\ Advance
<1>1. pos \in Nat /\ Len(script) \in Nat
  BY LenProperties DEF IInv, TypeOK
<1>2. Advance
  BY <1>1 DEF Advance, Forward
<1>3. QED
  BY <1>2, ForwardKeepsIInv

\* Within an attempt a push may be read at the position.
LEMMA PushAtPos ==
  ASSUME IInv, phase \in {"magic", "fields", "body"}
  PROVE  /\ Len(script) \in Nat /\ pos \in Nat \ {0} /\ pos <= Len(script) + 1
         /\ After(pos) \in Nat \ {0}
         /\ pos <= After(pos) /\ After(pos) <= Len(script) + 1
         /\ IsPush(pos) => pos < After(pos) /\ Data(pos) \in Seq(Byte)
<1>1. /\ ScriptIsBytes /\ Len(script) \in Nat
      /\ pos \in Nat \ {0} /\ pos <= Len(script) + 1
  BY LenProperties DEF IInv, TypeOK, PosInScript, ScriptIsBytes
<1>2. QED
  BY <1>1, PushStaysInScript

LEMMA OpenAttempt ==
  ASSUME IInv, phase \in {"fields", "body"}
  PROVE  \A s \in Nat : s = envelope.start => Opens(s)
BY DEF IInv, AttemptIsGenuine

LEMMA ReadMagicIsRight == ASSUME IInv, ReadMagic PROVE IInv' /\ Advance
<1>1. phase = "magic"
  BY DEF ReadMagic
<1>2. CASE IsPush(pos) /\ Data(pos) = Magic
  <2>1. Forward
    BY <1>1, <1>2, PushAtPos DEF ReadMagic, Forward, IInv, TypeOK
  <2>2. \A s \in Nat : s = envelope.start => Opens(s)
    BY <1>1, <1>2 DEF IInv, AttemptIsGenuine, Opens
  <2>3. QED
    BY <1>1, <2>1, <2>2, ForwardIsRight
<1>3. CASE ~(IsPush(pos) /\ Data(pos) = Magic)
  <2>1. GiveUp(After(pos))
    BY <1>3 DEF ReadMagic
  <2>2. QED
    BY <1>1, <2>1, PushAtPos, GiveUpIsRight
<1>4. QED
  BY <1>2, <1>3

LEMMA RunOutIsRight == ASSUME IInv, RunOut PROVE IInv' /\ Advance
<1>1. phase \in {"fields", "body"} /\ GiveUp(pos)
  BY DEF RunOut
<1>2. QED
  BY <1>1, PushAtPos, GiveUpIsRight

LEMMA EndEnvelopeIsRight == ASSUME IInv, EndEnvelope PROVE IInv' /\ Advance
<1>1. phase \in {"fields", "body"} /\ pos <= Len(script) /\ Return(pos + 1)
  BY DEF EndEnvelope, At
<1>2. Len(script) \in Nat /\ pos \in Nat \ {0}
  BY <1>1, PushAtPos
<1>3. IInv'
  BY <1>1, <1>2, ReturnKeepsIInv
<1>4. Advance
  BY <1>1, <1>2 DEF Return, Advance
<1>5. QED
  BY <1>3, <1>4

LEMMA BeginBodyIsRight == ASSUME IInv, BeginBody PROVE IInv' /\ Advance
<1>1. phase = "fields" /\ pos <= Len(script)
  BY DEF BeginBody, At
<1>2. Forward
  BY <1>1, PushAtPos DEF BeginBody, Forward, IInv, TypeOK
<1>3. QED
  BY <1>1, <1>2, OpenAttempt, ForwardIsRight

LEMMA ReadFieldIsRight == ASSUME IInv, ReadField PROVE IInv' /\ Advance
<1> DEFINE second == After(pos)
<1>1. phase = "fields" /\ pos <= Len(script)
  BY DEF ReadField
<1>2. /\ pos \in Nat \ {0} /\ second \in Nat \ {0} /\ pos <= second
      /\ second <= Len(script) + 1
      /\ IsPush(pos) => pos < second /\ Data(pos) \in Seq(Byte)
  BY <1>1, PushAtPos
<1>3. /\ After(second) \in Nat \ {0} /\ second <= After(second)
      /\ After(second) <= Len(script) + 1
      /\ IsPush(second) => second < After(second) /\ Data(second) \in Seq(Byte)
  <2>1. ScriptIsBytes
    BY DEF IInv, TypeOK, ScriptIsBytes
  <2>2. QED
    BY <1>2, <2>1, PushStaysInScript
<1>4. CASE IsPush(pos) /\ IsPush(second)
  <2>1. /\ pos' = After(second)
        /\ UNCHANGED <<script, phase, envelopes>>
        /\ \/ /\ Data(pos)[1] \in Tags
              /\ envelope' = [envelope EXCEPT !.fields[Data(pos)[1]] =
                                                Value(Data(pos)[1], Data(second))]
           \/ envelope' = envelope
    BY <1>4 DEF ReadField
  <2>2. \A t : Value(t, Data(second)) \in Seq(Byte) \cup {None}
    BY <1>3, <1>4 DEF Value, Text
  <2>3. envelope' \in Record /\ envelope'.start = envelope.start
    BY <2>1, <2>2 DEF IInv, TypeOK, Record
  <2>4. Forward
    BY <1>1, <1>2, <1>3, <1>4, <2>1, <2>3 DEF Forward
  <2>5. QED
    BY <1>1, <2>4, OpenAttempt, ForwardIsRight
<1>5. CASE IsPush(pos) /\ ~IsPush(second)
  <2>1. GiveUp(After(second))
    BY <1>5 DEF ReadField
  <2>2. QED
    BY <1>2, <1>3, <2>1, GiveUpIsRight
<1>6. CASE ~IsPush(pos)
  <2>1. GiveUp(second)
    BY <1>6 DEF ReadField
  <2>2. QED
    BY <1>2, <2>1, GiveUpIsRight
<1>7. QED
  BY <1>4, <1>5, <1>6

LEMMA ReadChunkIsRight == ASSUME IInv, ReadChunk PROVE IInv' /\ Advance
<1>1. phase = "body" /\ pos <= Len(script)
  BY DEF ReadChunk
<1>2. /\ Len(script) \in Nat /\ pos \in Nat \ {0} /\ After(pos) \in Nat \ {0}
      /\ pos <= After(pos) /\ After(pos) <= Len(script) + 1
      /\ IsPush(pos) => pos < After(pos) /\ Data(pos) \in Seq(Byte)
  BY <1>1, PushAtPos
<1>3. CASE IsPush(pos)
  <2>1. /\ envelope' = [envelope EXCEPT !.body = @ \o Data(pos)]
        /\ pos' = After(pos)
        /\ UNCHANGED <<script, phase, envelopes>>
    BY <1>3 DEF ReadChunk
  <2>2. envelope.body \o Data(pos) \in Seq(Byte)
    BY <1>2, <1>3, ConcatProperties DEF IInv, TypeOK, Record
  <2>3. envelope' \in Record /\ envelope'.start = envelope.start
    BY <2>1, <2>2 DEF IInv, TypeOK, Record
  <2>4. Forward
    BY <1>1, <1>2, <1>3, <2>1, <2>3 DEF Forward
  <2>5. QED
    BY <1>1, <2>4, OpenAttempt, ForwardIsRight
<1>4. CASE ~IsPush(pos)
  <2>1. Return(After(pos))
    BY <1>4 DEF ReadChunk
  <2>2. IInv'
    BY <1>1, <1>2, <2>1, ReturnKeepsIInv
  <2>3. Advance
    BY <1>1, <1>2, <2>1 DEF Return, Advance
  <2>4. QED
    BY <2>2, <2>3
<1>5. QED
  BY <1>3, <1>4

LEMMA NextIsRight == ASSUME IInv, Next PROVE IInv' /\ Advance
BY FindStartIsRight, FinishIsRight, ReadMagicIsRight, RunOutIsRight, EndEnvelopeIsRight,
   BeginBodyIsRight, ReadFieldIsRight, ReadChunkIsRight DEF Next

LEMMA StutterKeepsIInv == ASSUME IInv, UNCHANGED parseVars PROVE IInv'
<1>1. UNCHANGED <<script, pos, phase, envelope, envelopes>>
  BY DEF parseVars
<1>2. TypeOK' /\ PosInScript'
  BY <1>1 DEF IInv, TypeOK, PosInScript
<1>3. ReturnedAreGenuine'
  BY <1>1, ReturnedStay DEF IInv, TypeOK
<1>4. AttemptIsGenuine'
  <2>1. \A s : (Starts(s)' <=> Starts(s)) /\ (Opens(s)' <=> Opens(s))
    BY <1>1, BytesStay
  <2>2. QED
    BY <1>1, <2>1 DEF IInv, AttemptIsGenuine
<1>5. QED
  BY <1>2, <1>3, <1>4 DEF IInv

-----------------------------------------------------------------------------
\* The inductive invariant holds in every reachable state.
THEOREM InductiveInvariant == Spec => []IInv
<1>1. IInv /\ [Next]_parseVars => IInv'
  BY NextIsRight, StutterKeepsIInv
<1>2. Init => IInv
  BY EnvelopeAssumption, BeginIsRight DEF Init
<1>3. QED
  BY <1>1, <1>2, PTL DEF Spec

\* Whatever the bytes of a script, what extract_envelopes returns are stretches of
\* the script that begin with an envelope's opcodes and magic push, one behind the
\* other.
THEOREM EnvelopesAreAlwaysGenuine == Spec => []EnvelopesAreGenuine
<1>1. IInv => EnvelopesAreGenuine
  BY DEF IInv, ReturnedAreGenuine, EnvelopesAreGenuine, Genuine, Opens
<1>2. QED
  BY <1>1, InductiveInvariant, PTL

\* Whatever the bytes of a script, every turn of the loops advances, and no byte
\* further than two behind the end is ever the next one: with the position as a
\* variant, every script is read to its end.
THEOREM EveryTurnAlwaysAdvances == Spec => EveryTurnAdvances
<1>1. IInv /\ [Next]_parseVars => [Advance]_parseVars
  BY NextIsRight
<1>2. QED
  BY <1>1, InductiveInvariant, PTL DEF Spec, EveryTurnAdvances, Advance

(***************************************************************************)
(* Sequences that are put together, as FlattenSeq does.                    *)
(***************************************************************************)
\* Induction over the numbers up to n, for a set that is to have them all: a smallest
\* number outside would be neither 0 nor the next one of a number inside.
LEMMA AllUpTo ==
  ASSUME NEW n \in Nat, NEW S, 0 \in S, \A m \in 0..(n-1) : m \in S => m + 1 \in S
  PROVE  \A m \in 0..n : m \in S
<1> SUFFICES ASSUME NEW bad \in 0..n, bad \notin S
             PROVE  FALSE
  OBVIOUS
<1> DEFINE R == {m \in 0..n : m \notin S}
           T == {1..m : m \in R}
<1>1. T \subseteq FiniteSubsetsOf(Nat) /\ T # {}
  <2>1. ASSUME NEW m \in R PROVE 1..m \subseteq Nat /\ IsFiniteSet(1..m)
    BY FS_Interval
  <2>2. bad \in R
    OBVIOUS
  <2>3. QED
    BY <2>1, <2>2 DEF FiniteSubsetsOf
<1>2. PICK t \in T : \A u \in T : ~(<<u, t>> \in StrictSubsetOrdering(Nat))
  <2> HIDE DEF T
  <2>1. IsWellFoundedOn(StrictSubsetOrdering(Nat), FiniteSubsetsOf(Nat))
    BY FS_StrictSubsetOrderingWellFounded
  <2>2. QED
    BY <1>1, <2>1, WFMin
<1>3. PICK m \in R : t = 1..m
  OBVIOUS
<1>4. m - 1 \in R
  <2>1. m # 0
    OBVIOUS
  <2>2. m - 1 \in 0..(n-1) /\ (m - 1) + 1 = m
    BY <2>1
  <2>3. QED
    BY <2>2
<1>5. <<1..(m-1), t>> \in StrictSubsetOrdering(Nat)
  <2>1. m \in 1..m /\ m \notin 1..(m-1) /\ 1..(m-1) \subseteq 1..m
    BY <1>4
  <2>2. QED
    BY <1>3, <2>1 DEF StrictSubsetOrdering
<1>6. QED
  BY <1>2, <1>4, <1>5

-----------------------------------------------------------------------------
\* FlattenSeq: the function in its definition exists.
FlattenTo(ss, f) ==
  f = [n \in 1..Len(ss) |-> IF n = 1 THEN ss[n] ELSE f[n-1] \o ss[n]]

\* The first n of a sequence of sequences, put together.
Upto(ss, n) == FlattenSeq(SubSeq(ss, 1, n))

LEMMA PrefixProperties ==
  ASSUME NEW S, NEW ss \in Seq(S), NEW n \in 0..Len(ss)
  PROVE  /\ SubSeq(ss, 1, n) \in Seq(S)
         /\ Len(SubSeq(ss, 1, n)) = n
         /\ \A k \in 1..n : SubSeq(ss, 1, n)[k] = ss[k]
<1>1. Len(ss) \in Nat /\ \A k \in 1..n : ss[k] \in S
  BY LenProperties, ElementOfSeq
<1>2. QED
  BY <1>1, SubSeqProperties

LEMMA FlattenExists ==
  ASSUME NEW B, NEW ss \in Seq(Seq(B))
  PROVE  \E f : FlattenTo(ss, f)
<1> DEFINE Good(m, f) == f = [n \in 1..m |-> IF n = 1 THEN ss[n] ELSE f[n-1] \o ss[n]]
           S == {m \in 0..Len(ss) : \E f : Good(m, f)}
<1>1. Len(ss) \in Nat
  BY LenProperties
<1>2. 0 \in S
  <2>1. Good(0, [n \in 1..0 |-> 0]) /\ 0 \in 0..Len(ss)
    BY <1>1
  <2> HIDE DEF Good
  <2>2. QED
    BY <2>1
<1>3. ASSUME NEW m \in 0..(Len(ss)-1), m \in S
      PROVE  m + 1 \in S
  <2>1. PICK f : Good(m, f)
    BY <1>3
  <2> DEFINE g == [n \in 1..(m+1) |-> IF n = 1 THEN ss[n]
                                      ELSE (IF n = m + 1 THEN f[m] ELSE f[n-1]) \o ss[n]]
  <2>2. \A n \in 1..m : g[n] = f[n]
    <3> SUFFICES ASSUME NEW n \in 1..m PROVE g[n] = f[n]
      OBVIOUS
    <3>1. n \in 1..(m+1) /\ n # m + 1
      OBVIOUS
    <3>2. f[n] = IF n = 1 THEN ss[n] ELSE f[n-1] \o ss[n]
      BY <2>1
    <3>3. QED
      BY <3>1, <3>2
  <2>3. \A n \in 1..(m+1) : g[n] = IF n = 1 THEN ss[n] ELSE g[n-1] \o ss[n]
    <3> SUFFICES ASSUME NEW n \in 1..(m+1)
                 PROVE  g[n] = IF n = 1 THEN ss[n] ELSE g[n-1] \o ss[n]
      OBVIOUS
    <3>1. CASE n = 1
      BY <3>1
    <3>2. CASE n # 1
      <4>1. n - 1 \in 1..m /\ (n = m + 1 => n - 1 = m)
        BY <3>2
      <4>2. g[n-1] = f[n-1]
        BY <4>1, <2>2
      <4>3. g[n] = f[n-1] \o ss[n]
        BY <3>2, <4>1
      <4>4. QED
        BY <3>2, <4>2, <4>3
    <3>3. QED
      BY <3>1, <3>2
  <2>4. Good(m + 1, g)
    <3>1. g = [n \in 1..(m+1) |-> g[n]]
      OBVIOUS
    <3> HIDE DEF g
    <3>2. QED
      BY <2>3, <3>1
  <2>5. m + 1 \in 0..Len(ss)
    BY <1>1
  <2> HIDE DEF Good
  <2>6. QED
    BY <2>4, <2>5
<1>4. Len(ss) \in S
  <2> HIDE DEF S
  <2>1. \A m \in 0..Len(ss) : m \in S
    BY <1>1, <1>2, <1>3, AllUpTo
  <2>2. QED
    BY <1>1, <2>1
<1>5. QED
  BY <1>4 DEF FlattenTo

LEMMA FlattenByFunction ==
  ASSUME NEW B, NEW ss \in Seq(Seq(B))
  PROVE  \E f : /\ FlattenTo(ss, f)
                /\ FlattenSeq(ss) = IF ss = <<>> THEN <<>> ELSE f[Len(ss)]
<1> DEFINE f == CHOOSE f : FlattenTo(ss, f)
<1>1. FlattenTo(ss, f)
  BY FlattenExists
<1>2. FlattenSeq(ss) = IF Len(ss) = 0 THEN ss ELSE f[Len(ss)]
  BY DEF FlattenSeq, FlattenTo
<1>3. Len(ss) = 0 <=> ss = <<>>
  BY EmptySeq
<1>4. QED
  BY <1>1, <1>2, <1>3

\* Flattening goes on with the next one.
LEMMA FlattenPrefixes ==
  ASSUME NEW B, NEW ss \in Seq(Seq(B))
  PROVE  /\ Upto(ss, 0) = <<>>
         /\ \A n \in 1..Len(ss) : Upto(ss, n) = Upto(ss, n - 1) \o ss[n]
         /\ \A n \in 0..Len(ss) : Upto(ss, n) \in Seq(B)
         /\ Upto(ss, Len(ss)) = FlattenSeq(ss)
<1> DEFINE pre(n) == SubSeq(ss, 1, n)
<1>0. Len(ss) \in Nat
  BY LenProperties
<1>1. \A n \in 0..Len(ss) : /\ pre(n) \in Seq(Seq(B)) /\ Len(pre(n)) = n
                            /\ \A k \in 1..n : pre(n)[k] = ss[k]
  BY PrefixProperties
<1>2. \A k \in 1..Len(ss) : ss[k] \in Seq(B)
  BY ElementOfSeq
<1> HIDE DEF pre
<1>3. PICK f : FlattenTo(ss, f)
  BY FlattenExists
<1>4. ASSUME NEW n \in 1..Len(ss) PROVE Upto(ss, n) = f[n]
  <2>0. n \in 0..Len(ss) /\ pre(n) \in Seq(Seq(B)) /\ Len(pre(n)) = n /\ n # 0
    BY <1>0, <1>1
  <2>1. PICK g : /\ FlattenTo(pre(n), g)
                 /\ FlattenSeq(pre(n)) = IF pre(n) = <<>> THEN <<>> ELSE g[Len(pre(n))]
    BY <2>0, FlattenByFunction
  <2>2. FlattenSeq(pre(n)) = g[n]
    BY <2>0, <2>1
  <2> DEFINE E == {m \in 0..n : m # 0 => g[m] = f[m]}
  <2>3. ASSUME NEW m \in 0..(n-1), m \in E
        PROVE  m + 1 \in E
    <3>1. m + 1 \in 1..n /\ m + 1 \in 1..Len(ss) /\ (m + 1) - 1 = m
      BY <1>0
    <3>2. g[m+1] = IF m + 1 = 1 THEN pre(n)[m+1] ELSE g[m] \o pre(n)[m+1]
      BY <2>0, <2>1, <3>1 DEF FlattenTo
    <3>3. f[m+1] = IF m + 1 = 1 THEN ss[m+1] ELSE f[m] \o ss[m+1]
      BY <1>3, <3>1 DEF FlattenTo
    <3>4. pre(n)[m+1] = ss[m+1]
      BY <1>1, <2>0, <3>1
    <3>5. QED
      BY <2>3, <3>1, <3>2, <3>3, <3>4
  <2>4. n \in E
    <3>1. 0 \in E
      BY <1>0
    <3> HIDE DEF E
    <3>2. n \in Nat
      BY <1>0
    <3>3. \A m \in 0..n : m \in E
      BY <2>3, <3>1, <3>2, AllUpTo
    <3>4. QED
      BY <3>2, <3>3
  <2>5. g[n] = f[n]
    BY <2>0, <2>4
  <2>6. QED
    BY <2>2, <2>5 DEF Upto, pre
<1>5. Upto(ss, 0) = <<>>
  <2>1. SubSeq(ss, 1, 0) = <<>>
    BY SubSeqEmpty
  <2>2. QED
    BY <2>1 DEF Upto, FlattenSeq
<1>6. ASSUME NEW n \in 1..Len(ss) PROVE Upto(ss, n) = Upto(ss, n - 1) \o ss[n]
  <2>1. f[n] = IF n = 1 THEN ss[n] ELSE f[n-1] \o ss[n]
    BY <1>3 DEF FlattenTo
  <2>2. CASE n = 1
    <3>1. Upto(ss, n) = ss[n] /\ Upto(ss, n - 1) = <<>>
      BY <1>4, <1>5, <2>1, <2>2
    <3>2. <<>> \o ss[n] = ss[n]
      BY <1>2, ConcatEmptySeq
    <3>3. QED
      BY <3>1, <3>2
  <2>3. CASE n # 1
    <3>1. n - 1 \in 1..Len(ss)
      BY <1>0, <2>3
    <3>2. QED
      BY <1>4, <2>1, <2>3, <3>1
  <2>4. QED
    BY <2>2, <2>3
<1>7. \A n \in 0..Len(ss) : Upto(ss, n) \in Seq(B)
  <2> DEFINE E == {n \in 0..Len(ss) : Upto(ss, n) \in Seq(B)}
  <2>1. 0 \in E
    <3>1. Upto(ss, 0) \in Seq(B)
      BY <1>5, EmptySeq
    <3>2. QED
      BY <1>0, <3>1
  <2>2. ASSUME NEW m \in 0..(Len(ss)-1), m \in E
        PROVE  m + 1 \in E
    <3>1. m + 1 \in 1..Len(ss) /\ m + 1 \in 0..Len(ss) /\ (m + 1) - 1 = m
      BY <1>0
    <3>2. Upto(ss, m + 1) = Upto(ss, m) \o ss[m + 1]
      BY <1>6, <3>1
    <3>3. Upto(ss, m) \o ss[m + 1] \in Seq(B)
      BY <1>2, <2>2, <3>1, ConcatProperties
    <3>4. QED
      BY <3>1, <3>2, <3>3
  <2>3. \A n \in 0..Len(ss) : n \in E
    <3> HIDE DEF E
    <3>1. QED
      BY <1>0, <2>1, <2>2, AllUpTo
  <2>4. QED
    BY <2>3
<1>8. Upto(ss, Len(ss)) = FlattenSeq(ss)
  BY SubSeqFull DEF Upto
<1>9. QED
  BY <1>5, <1>6, <1>7, <1>8

(***************************************************************************)
(* A sequence of bytes that lies at a place of the script, and what read_push *)
(* finds where push_data wrote.                                            *)
(***************************************************************************)
\* The bytes b are in the script from place p on.
Lies(b, p) ==
  /\ p + Len(b) <= Len(script) + 1
  /\ \A n \in 1..Len(b) : script[p + n - 1] = b[n]

LEMMA LiesApart ==
  ASSUME NEW a \in Seq(Byte), NEW b \in Seq(Byte), NEW p \in Nat, Lies(a \o b, p)
  PROVE  Lies(a, p) /\ Lies(b, p + Len(a))
<1>1. /\ Len(a) \in Nat /\ Len(b) \in Nat
      /\ Len(a \o b) = Len(a) + Len(b)
      /\ \A n \in 1..Len(a) + Len(b) :
           (a \o b)[n] = IF n <= Len(a) THEN a[n] ELSE b[n - Len(a)]
  BY ConcatProperties, LenProperties
<1>2. /\ p + Len(a) + Len(b) <= Len(script) + 1
      /\ \A n \in 1..Len(a) + Len(b) : script[p + n - 1] = (a \o b)[n]
  BY <1>1 DEF Lies
<1>3. ASSUME NEW n \in 1..Len(a) PROVE script[p + n - 1] = a[n]
  BY <1>1, <1>2
<1>4. ASSUME NEW n \in 1..Len(b) PROVE script[p + Len(a) + n - 1] = b[n]
  <2>1. Len(a) + n \in 1..Len(a) + Len(b) /\ ~(Len(a) + n <= Len(a)) /\ (Len(a) + n) - Len(a) = n
    BY <1>1
  <2>2. script[p + (Len(a) + n) - 1] = b[n]
    BY <1>1, <1>2, <2>1
  <2>3. p + (Len(a) + n) - 1 = p + Len(a) + n - 1
    BY <1>1
  <2>4. QED
    BY <2>2, <2>3
<1>5. Len(script) + 1 >= p + Len(a) + Len(b)
  BY <1>2
<1>6. QED
  BY <1>1, <1>2, <1>3, <1>4 DEF Lies

\* Each of a sequence of byte sequences lies behind those before it.
LEMMA LiesOneByOne ==
  ASSUME NEW ss \in Seq(Seq(Byte)), NEW p \in Nat, Lies(FlattenSeq(ss), p)
  PROVE  \A n \in 1..Len(ss) :
           /\ Lies(ss[n], p + Len(Upto(ss, n - 1)))
           /\ Len(Upto(ss, n)) = Len(Upto(ss, n - 1)) + Len(ss[n])
<1>0. Len(ss) \in Nat /\ \A n \in 1..Len(ss) : ss[n] \in Seq(Byte)
  BY LenProperties, ElementOfSeq
<1>1. /\ \A n \in 1..Len(ss) : Upto(ss, n) = Upto(ss, n - 1) \o ss[n]
      /\ \A n \in 0..Len(ss) : Upto(ss, n) \in Seq(Byte)
      /\ Upto(ss, Len(ss)) = FlattenSeq(ss)
  BY FlattenPrefixes
<1> DEFINE F(m) == Lies(Upto(ss, Len(ss) - m), p)
           E == {m \in 0..Len(ss) : F(m)}
<1>2. 0 \in E
  <2>1. Len(ss) - 0 = Len(ss) /\ 0 \in 0..Len(ss)
    BY <1>0
  <2>2. F(0)
    BY <1>1, <2>1
  <2> HIDE DEF F
  <2>3. QED
    BY <2>1, <2>2
<1>3. ASSUME NEW m \in 0..(Len(ss) - 1), m \in E
      PROVE  m + 1 \in E
  <2>0. /\ Len(ss) - m \in 1..Len(ss) /\ (Len(ss) - m) - 1 \in 0..Len(ss)
        /\ (Len(ss) - m) - 1 = Len(ss) - (m + 1)
    BY <1>0
  <2>1. PICK n \in 1..Len(ss) :
          n = Len(ss) - m /\ n - 1 = Len(ss) - (m + 1) /\ n - 1 \in 0..Len(ss)
    BY <2>0, Zenon
  <2>2. Lies(Upto(ss, n - 1) \o ss[n], p)
    BY <1>1, <1>3, <2>1
  <2>3. Lies(Upto(ss, n - 1), p)
    BY <1>0, <1>1, <2>1, <2>2, LiesApart
  <2>4. m + 1 \in 0..Len(ss)
    BY <1>0
  <2>5. QED
    BY <2>1, <2>3, <2>4
<1>4. \A m \in 0..Len(ss) : m \in E
  <2> HIDE DEF E
  <2>1. QED
    BY <1>0, <1>2, <1>3, AllUpTo
<1>5. ASSUME NEW n \in 1..Len(ss)
      PROVE  /\ Lies(ss[n], p + Len(Upto(ss, n - 1)))
             /\ Len(Upto(ss, n)) = Len(Upto(ss, n - 1)) + Len(ss[n])
  <2>1. Len(ss) - n \in 0..Len(ss) /\ Len(ss) - (Len(ss) - n) = n /\ n - 1 \in 0..Len(ss)
    BY <1>0
  <2>2. Lies(Upto(ss, n - 1) \o ss[n], p)
    BY <1>1, <1>4, <2>1
  <2>3. Upto(ss, n - 1) \in Seq(Byte) /\ ss[n] \in Seq(Byte)
    BY <1>0, <1>1, <2>1
  <2>4. QED
    BY <1>1, <2>2, <2>3, LiesApart, ConcatProperties
<1>6. QED
  BY <1>5

-----------------------------------------------------------------------------
\* What stands before the data: the opcode, and the length where it has one.
HeadOf(n) ==
  IF n <= 75 THEN <<n>> ELSE IF n <= 255 THEN <<76, n>> ELSE <<77, n % 256, n \div 256>>

LEMMA PushHasHead ==
  ASSUME NEW data, NEW n \in Nat, Len(data) = n
  PROVE  Push(data) = HeadOf(n) \o data
<1>1. CASE n <= 75
  <2>1. HeadOf(n) = <<n>> /\ ~(n \in 76..255)
    BY ONLY n \in Nat, <1>1, SMT DEF HeadOf
  <2>2. QED
    BY <1>1, <2>1, Zenon DEF Push
<1>2. CASE n \in 76..255
  <2>1. HeadOf(n) = <<76, n>> /\ ~(n <= 75)
    BY ONLY n \in Nat, <1>2, SMT DEF HeadOf
  <2>2. QED
    BY <1>2, <2>1, Zenon DEF Push
<1>3. CASE ~(n <= 75) /\ ~(n \in 76..255)
  <2>1. HeadOf(n) = <<77, n % 256, n \div 256>>
    BY ONLY n \in Nat, <1>3, SMT DEF HeadOf
  <2>2. QED
    BY <1>3, <2>1, Zenon DEF Push
<1>4. QED
  BY <1>1, <1>2, <1>3, Zenon

LEMMA TwoBytes ==
  ASSUME NEW n \in 0..LongestPush
  PROVE  /\ n % 256 \in Byte /\ n \div 256 \in Byte
         /\ (n % 256) + 256 * (n \div 256) = n
<1>1. n \in Nat /\ n < 256 * 256
  BY SMT DEF LongestPush
<1>2. n % 256 \in Byte
  BY <1>1, SMT DEF Byte
<1>3. (n % 256) + 256 * (n \div 256) = n
  BY <1>1, SMT
<1>4. n \div 256 \in Byte
  BY <1>1, <1>2, <1>3, SMT DEF Byte
<1>5. QED
  BY <1>2, <1>3, <1>4

LEMMA HeadIsBytes ==
  ASSUME NEW n \in 0..LongestPush
  PROVE  /\ HeadOf(n) \in Seq(Byte)
         /\ Len(HeadOf(n)) = (IF n <= 75 THEN 1 ELSE IF n <= 255 THEN 2 ELSE 3)
<1>0. n \in Nat
  BY SMT DEF LongestPush
<1>1. CASE n <= 75
  <2>1. HeadOf(n) = <<n>> /\ n \in Byte
    BY <1>0, <1>1, SMT DEF HeadOf, Byte
  <2>2. QED
    BY <1>1, <2>1
<1>2. CASE n \in 76..255
  <2>1. HeadOf(n) = <<76, n>> /\ n \in Byte /\ 76 \in Byte
    BY <1>0, <1>2, SMT DEF HeadOf, Byte
  <2>2. QED
    BY <1>2, <2>1
<1>3. CASE n > 255
  <2>1. PICK a \in Byte, b \in Byte : a = n % 256 /\ b = n \div 256
    BY TwoBytes
  <2>2. HeadOf(n) = <<77, a, b>> /\ 77 \in Byte
    BY <1>0, <1>3, <2>1, SMT DEF HeadOf, Byte
  <2>3. QED
    BY <1>0, <1>3, <2>2
<1>4. QED
  BY <1>0, <1>1, <1>2, <1>3

LEMMA PushIsBytes ==
  ASSUME NEW data \in Seq(Byte), NEW n \in 0..LongestPush, Len(data) = n
  PROVE  /\ HeadOf(n) \in Seq(Byte)
         /\ Push(data) = HeadOf(n) \o data
         /\ Push(data) \in Seq(Byte)
         /\ Len(Push(data)) = Len(HeadOf(n)) + n
<1>1. n \in Nat /\ HeadOf(n) \in Seq(Byte)
  BY HeadIsBytes
<1>2. Push(data) = HeadOf(n) \o data
  BY <1>1, PushHasHead
<1>3. /\ HeadOf(n) \o data \in Seq(Byte)
      /\ Len(HeadOf(n) \o data) = Len(HeadOf(n)) + n
  BY <1>1, ConcatProperties, Zenon
<1>4. QED
  BY <1>1, <1>2, <1>3, Zenon

\* Data lies behind the head of its push.
LEMMA DataBehindHead ==
  ASSUME NEW data \in Seq(Byte), NEW p \in Nat \ {0}, NEW h \in Nat, NEW n,
         ScriptIsBytes, Lies(data, p + h),
         n = Len(data)
  PROVE  SubSeq(script, p + h, p + h + n - 1) = data
<1>1. Len(script) \in Nat /\ n \in Nat /\ p + h + n <= Len(script) + 1
  BY LenProperties DEF ScriptIsBytes, Lies
<1> DEFINE a == p + h
           b == p + h + n - 1
<1>2. a \in Int /\ b \in Int /\ b - a + 1 = n /\ (a <= b <=> n > 0)
  BY <1>1
<1>3. \A i \in a..b : script[i] \in Byte
  <2>1. a..b \subseteq 1..Len(script)
    BY <1>1
  <2>2. QED
    BY <2>1, ElementOfSeq DEF ScriptIsBytes
<1>4. /\ SubSeq(script, a, b) \in Seq(Byte)
      /\ Len(SubSeq(script, a, b)) = n
      /\ \A i \in 1..n : SubSeq(script, a, b)[i] = script[a + i - 1]
  <2> HIDE DEF a, b
  <2>1. /\ SubSeq(script, a, b) \in Seq(Byte)
        /\ Len(SubSeq(script, a, b)) = IF a <= b THEN b - a + 1 ELSE 0
        /\ \A i \in 1..(b - a + 1) : SubSeq(script, a, b)[i] = script[a + i - 1]
    BY <1>2, <1>3, SubSeqProperties
  <2>2. QED
    BY <1>1, <1>2, <2>1
<1>5. \A i \in 1..n : SubSeq(script, a, b)[i] = data[i]
  BY <1>4 DEF Lies
<1>6. QED
  BY <1>4, <1>5, SeqEqual

\* read_push finds the length in the head.
LEMMA HeadTells ==
  ASSUME NEW n \in 1..LongestPush, NEW p \in Nat, Lies(HeadOf(n), p)
  PROVE  /\ script[p] \in 1..77
         /\ HeaderLength(script[p]) = Len(HeadOf(n))
         /\ DataLength(p) = n
<1>0. n \in Nat /\ n # 0 /\ n \in 0..LongestPush
  BY SMT DEF LongestPush
<1>1. PICK h : h = HeadOf(n)
  OBVIOUS
<1>2. /\ Len(h) >= 1 => script[p] = h[1]
      /\ Len(h) >= 2 => script[p+1] = h[2]
      /\ Len(h) = 3 => script[p+2] = h[3]
      /\ Len(h) \in 1..3
  <2>1. Len(h) \in 1..3 /\ \A k \in 1..Len(h) : script[p + k - 1] = h[k]
    BY <1>0, <1>1, HeadIsBytes DEF Lies
  <2>2. p + 1 - 1 = p /\ p + 2 - 1 = p + 1 /\ p + 3 - 1 = p + 2
    OBVIOUS
  <2>3. Len(h) >= 1 => script[p + 1 - 1] = h[1]
    BY <2>1
  <2>4. Len(h) >= 2 => script[p + 2 - 1] = h[2]
    BY <2>1
  <2>5. Len(h) = 3 => script[p + 3 - 1] = h[3]
    BY <2>1
  <2>6. QED
    BY <2>1, <2>2, <2>3, <2>4, <2>5
<1>3. CASE n <= 75
  <2>1. h = <<n>>
    BY <1>0, <1>1, <1>3, SMT DEF HeadOf
  <2>2. script[p] = n
    BY <1>2, <2>1
  <2>3. HeaderLength(n) = 1
    BY <1>0, <1>3, SMT DEF HeaderLength
  <2>4. DataLength(p) = n
    BY <1>0, <1>3, <2>2, SMT DEF DataLength
  <2>5. n \in 1..77
    BY <1>0, <1>3, SMT
  <2>6. QED
    BY <1>1, <2>1, <2>2, <2>3, <2>4, <2>5
<1>4. CASE n \in 76..255
  <2>1. h = <<76, n>>
    BY <1>0, <1>1, <1>4, SMT DEF HeadOf
  <2>2. script[p] = 76 /\ script[p+1] = n
    BY <1>2, <2>1
  <2>3. HeaderLength(76) = 2
    BY SMT DEF HeaderLength
  <2>4. DataLength(p) = n
    BY <2>2, SMT DEF DataLength
  <2>5. QED
    BY <1>1, <2>1, <2>2, <2>3, <2>4
<1>5. CASE n > 255
  <2>1. h = <<77, n % 256, n \div 256>>
    BY <1>0, <1>1, <1>5, SMT DEF HeadOf
  <2>2. script[p] = 77 /\ script[p+1] = n % 256 /\ script[p+2] = n \div 256
    BY <1>2, <2>1
  <2>3. HeaderLength(77) = 3
    BY SMT DEF HeaderLength
  <2>4. DataLength(p) = script[p+1] + 256 * script[p+2]
    BY <2>2, SMT DEF DataLength
  <2>5. DataLength(p) = n
    BY <1>0, <2>2, <2>4, TwoBytes
  <2>6. QED
    BY <1>1, <2>1, <2>2, <2>3, <2>5
<1>6. QED
  BY <1>0, <1>3, <1>4, <1>5, SMT

\* read_push gives back what push_data wrote, and goes on behind it.
LEMMA PushIsRead ==
  ASSUME ScriptIsBytes, NEW data \in Pushable, NEW p \in Nat \ {0}, Lies(Push(data), p)
  PROVE  /\ IsPush(p) /\ Data(p) = data
         /\ After(p) = p + Len(Push(data))
         /\ p <= Len(script) /\ script[p] \in 1..77
<1>1. PICK n \in 1..LongestPush : n = Len(data)
  BY DEF Pushable
<1>2. data \in Seq(Byte)
  BY DEF Pushable
<1>3. n \in Nat /\ n # 0 /\ n \in 0..LongestPush
  BY SMT DEF LongestPush
<1>4. PICK m \in 1..3 : m = Len(HeadOf(n))
  BY <1>3, HeadIsBytes
<1>5. /\ HeadOf(n) \in Seq(Byte) /\ Push(data) = HeadOf(n) \o data
      /\ Len(Push(data)) = m + n
  BY <1>1, <1>2, <1>3, <1>4, PushIsBytes, Zenon
<1>6. Lies(HeadOf(n), p) /\ Lies(data, p + m)
  <2>1. p \in Nat
    OBVIOUS
  <2>2. QED
    BY <1>2, <1>4, <1>5, <2>1, LiesApart, Zenon
<1>7. /\ script[p] \in 1..77 /\ DataStart(p) = p + m /\ DataLength(p) = n
  <2>1. p \in Nat
    OBVIOUS
  <2>2. QED
    BY <1>4, <1>6, <2>1, HeadTells, Zenon DEF DataStart
<1>8. Len(script) \in Nat /\ p + m + n <= Len(script) + 1
  BY <1>3, <1>5, LenProperties DEF ScriptIsBytes, Lies
<1>9. HasLength(p)
  BY <1>3, <1>7, <1>8 DEF HasLength, IsPushOpcode, LastPush
<1>10. IsPush(p)
  BY <1>7, <1>8, <1>9 DEF IsPush
<1>11. Data(p) = data
  <2>1. Data(p) = SubSeq(script, p + m, p + m + n - 1)
    BY <1>7 DEF Data
  <2>2. SubSeq(script, p + m, p + m + n - 1) = data
    <3>1. m \in Nat
      OBVIOUS
    <3>2. QED
      BY <1>1, <1>2, <1>6, <3>1, DataBehindHead, Zenon
  <2>3. QED
    BY <2>1, <2>2
<1>12. After(p) = p + Len(Push(data))
  BY <1>3, <1>5, <1>7, <1>10 DEF After
<1>13. QED
  BY <1>3, <1>7, <1>8, <1>10, <1>11, <1>12

LEMMA MapIsSeq ==
  ASSUME NEW n \in Nat, NEW S, NEW f \in [1..n -> S]
  PROVE  f \in Seq(S) /\ Len(f) = n
OBVIOUS

\* What an inscription is made of.
LEMMA InscriptionTypes ==
  ASSUME NEW i \in Inscriptions
  PROVE  /\ Len(i.fields) \in Nat /\ DOMAIN i.fields = 1..Len(i.fields)
         /\ \A k \in 1..Len(i.fields) : i.fields[k][1] \in Byte /\ i.fields[k][2] \in Pushable
         /\ Len(i.chunks) \in Nat /\ DOMAIN i.chunks = 1..Len(i.chunks)
         /\ i.chunks \in Seq(Seq(Byte))
         /\ \A k \in 1..Len(i.chunks) :
              \/ i.chunks[k] \in Pushable
              \/ i.chunks[k] = <<>> /\ k = Len(i.chunks)
<1>1. /\ i.fields \in Seq(Byte \X Pushable)
      /\ i.chunks \in Seq(Pushable \cup {<<>>})
      /\ \A k \in DOMAIN i.chunks : i.chunks[k] = <<>> => k = Len(i.chunks)
  BY Zenon DEF Inscriptions
<1>2. /\ Len(i.fields) \in Nat /\ DOMAIN i.fields = 1..Len(i.fields)
      /\ Len(i.chunks) \in Nat /\ DOMAIN i.chunks = 1..Len(i.chunks)
  BY <1>1, LenProperties
<1>3. ASSUME NEW k \in 1..Len(i.fields)
      PROVE  i.fields[k][1] \in Byte /\ i.fields[k][2] \in Pushable
  <2>1. i.fields[k] \in Byte \X Pushable
    BY <1>1, ElementOfSeq
  <2>2. QED
    BY <2>1
<1>4. \A k \in 1..Len(i.chunks) : i.chunks[k] \in Pushable \cup {<<>>}
  BY <1>1, ElementOfSeq
<1>5. Pushable \cup {<<>>} \subseteq Seq(Byte)
  BY EmptySeq, Zenon DEF Pushable
<1>6. i.chunks \in Seq(Seq(Byte))
  BY <1>1, <1>5, SeqMonotonic
<1>7. QED
  BY <1>1, <1>2, <1>3, <1>4, <1>6

LEMMA TagIsPushable ==
  ASSUME NEW t \in Byte
  PROVE  <<t>> \in Pushable
<1>1. <<t>> \in Seq(Byte) /\ Len(<<t>>) = 1
  OBVIOUS
<1>2. 1 \in 1..LongestPush
  BY SMT DEF LongestPush
<1>3. QED
  BY <1>1, <1>2 DEF Pushable

LEMMA PushableIsWritten ==
  ASSUME NEW data \in Pushable
  PROVE  Push(data) \in Seq(Byte) /\ Len(Push(data)) \in Nat \ {0}
<1>1. PICK n \in 1..LongestPush : n = Len(data)
  BY DEF Pushable
<1>2. data \in Seq(Byte)
  BY DEF Pushable
<1>3. n \in Nat /\ n # 0 /\ n \in 0..LongestPush
  BY SMT DEF LongestPush
<1>4. Len(HeadOf(n)) \in 1..3
  BY <1>3, HeadIsBytes
<1>5. Push(data) \in Seq(Byte) /\ Len(Push(data)) = Len(HeadOf(n)) + n
  BY <1>1, <1>2, <1>3, PushIsBytes, Zenon
<1>6. QED
  BY <1>3, <1>4, <1>5

\* push_data of nothing is OP_0.
LEMMA PushOfNothing == Push(<<>>) = <<OP_FALSE>>
<1>1. 0 \in Nat /\ Len(<<>>) = 0
  OBVIOUS
<1>2. Push(<<>>) = HeadOf(0) \o <<>>
  BY <1>1, PushHasHead, Zenon
<1>3. HeadOf(0) = <<0>>
  BY SMT DEF HeadOf
<1>4. <<0>> \o <<>> = <<0>>
  OBVIOUS
<1>5. QED
  BY <1>2, <1>3, <1>4 DEF OP_FALSE

LEMMA PushesAreBytes ==
  ASSUME NEW i \in Inscriptions
  PROVE  /\ FieldPushes(i) \in Seq(Seq(Byte)) /\ Len(FieldPushes(i)) = Len(i.fields)
         /\ ChunkPushes(i) \in Seq(Seq(Byte)) /\ Len(ChunkPushes(i)) = Len(i.chunks)
         /\ \A k \in 1..Len(i.fields) :
              FieldPushes(i)[k] = Push(<<i.fields[k][1]>>) \o Push(i.fields[k][2])
         /\ \A k \in 1..Len(i.chunks) : ChunkPushes(i)[k] = Push(i.chunks[k])
<1>1. PICK m \in Nat, n \in Nat : m = Len(i.fields) /\ n = Len(i.chunks)
  BY InscriptionTypes
<1>2. ASSUME NEW k \in 1..m
      PROVE  Push(<<i.fields[k][1]>>) \o Push(i.fields[k][2]) \in Seq(Byte)
  <2>1. i.fields[k][1] \in Byte /\ i.fields[k][2] \in Pushable
    BY <1>1, InscriptionTypes, Zenon
  <2>2. Push(<<i.fields[k][1]>>) \in Seq(Byte) /\ Push(i.fields[k][2]) \in Seq(Byte)
    BY <2>1, TagIsPushable, PushableIsWritten, Zenon
  <2>3. QED
    BY <2>2, ConcatProperties
<1>3. ASSUME NEW k \in 1..n
      PROVE  Push(i.chunks[k]) \in Seq(Byte)
  <2>1. i.chunks[k] \in Pushable \/ i.chunks[k] = <<>>
    BY <1>1, InscriptionTypes, Zenon
  <2>2. Push(<<>>) \in Seq(Byte)
    <3>1. 0 \in Byte
      BY DEF Byte
    <3>2. <<0>> \in Seq(Byte)
      BY <3>1
    <3>3. QED
      BY <3>2, PushOfNothing, Zenon DEF OP_FALSE
  <2>3. QED
    BY <2>1, <2>2, PushableIsWritten, Zenon
<1>4. /\ DOMAIN i.fields = 1..m /\ DOMAIN i.chunks = 1..n
  BY <1>1, InscriptionTypes, Zenon
<1>5. /\ FieldPushes(i) \in [1..m -> Seq(Byte)]
      /\ \A k \in 1..m : FieldPushes(i)[k] = Push(<<i.fields[k][1]>>) \o Push(i.fields[k][2])
  <2> DEFINE pushes(k) == Push(<<i.fields[k][1]>>) \o Push(i.fields[k][2])
  <2>1. FieldPushes(i) = [k \in 1..m |-> pushes(k)]
    BY <1>4, Zenon DEF FieldPushes
  <2>2. \A k \in 1..m : pushes(k) \in Seq(Byte)
    BY <1>2
  <2> HIDE DEF pushes
  <2>3. /\ FieldPushes(i) \in [1..m -> Seq(Byte)]
        /\ \A k \in 1..m : FieldPushes(i)[k] = pushes(k)
    BY ONLY <2>1, <2>2, Zenon
  <2>4. QED
    BY <2>3 DEF pushes
<1>6. /\ ChunkPushes(i) \in [1..n -> Seq(Byte)]
      /\ \A k \in 1..n : ChunkPushes(i)[k] = Push(i.chunks[k])
  BY ONLY <1>3, <1>4, Zenon DEF ChunkPushes
<1>7. QED
  BY <1>1, <1>5, <1>6, MapIsSeq, Zenon

(***************************************************************************)
(* Where the parts of an inscription lie, and what its fields say one after the *)
(* other.                                                                  *)
(***************************************************************************)
\* Where the field after the first n of inscription i begins, in a script that has
\* the inscription at place o, and where the chunk after the first n does.
FieldPos(i, o, n) == o + 2 + Len(Push(Magic)) + Len(Upto(FieldPushes(i), n))
ChunkPos(i, o, n) == FieldPos(i, o, Len(i.fields)) + 1 + Len(Upto(ChunkPushes(i), n))

LEMMA LiesInFive ==
  ASSUME NEW a \in Seq(Byte), NEW b \in Seq(Byte), NEW c \in Seq(Byte), NEW d \in Seq(Byte),
         NEW e \in Seq(Byte), NEW p \in Nat, Lies(a \o b \o c \o d \o e, p)
  PROVE  /\ Lies(a, p)
         /\ Lies(b, p + Len(a))
         /\ Lies(c, p + Len(a) + Len(b))
         /\ Lies(d, p + Len(a) + Len(b) + Len(c))
         /\ Lies(e, p + Len(a) + Len(b) + Len(c) + Len(d))
         /\ Len(a \o b \o c \o d \o e) = Len(a) + Len(b) + Len(c) + Len(d) + Len(e)
<1>1. PICK ab, abc, abcd : ab = a \o b /\ abc = ab \o c /\ abcd = abc \o d
  OBVIOUS
<1>2. /\ ab \in Seq(Byte) /\ Len(ab) = Len(a) + Len(b)
      /\ abc \in Seq(Byte) /\ Len(abc) = Len(ab) + Len(c)
      /\ abcd \in Seq(Byte) /\ Len(abcd) = Len(abc) + Len(d)
      /\ Len(abcd \o e) = Len(abcd) + Len(e)
  <2>1. ab \in Seq(Byte) /\ Len(ab) = Len(a) + Len(b)
    BY <1>1, ConcatProperties
  <2>2. abc \in Seq(Byte) /\ Len(abc) = Len(ab) + Len(c)
    BY <1>1, <2>1, ConcatProperties
  <2>3. abcd \in Seq(Byte) /\ Len(abcd) = Len(abc) + Len(d)
    BY <1>1, <2>2, ConcatProperties
  <2>4. Len(abcd \o e) = Len(abcd) + Len(e)
    BY <2>3, ConcatProperties
  <2>5. QED
    BY <2>1, <2>2, <2>3, <2>4, Zenon
<1>3. /\ Lies(abcd, p) /\ Lies(e, p + Len(abcd))
      /\ Lies(abc, p) /\ Lies(d, p + Len(abc))
      /\ Lies(ab, p) /\ Lies(c, p + Len(ab))
      /\ Lies(a, p) /\ Lies(b, p + Len(a))
  <2>1. Lies(abcd \o e, p)
    BY <1>1
  <2>2. Lies(abcd, p) /\ Lies(e, p + Len(abcd))
    BY <1>2, <2>1, LiesApart, Zenon
  <2>3. Lies(abc, p) /\ Lies(d, p + Len(abc))
    BY <1>1, <1>2, <2>2, LiesApart, Zenon
  <2>4. Lies(ab, p) /\ Lies(c, p + Len(ab))
    BY <1>1, <1>2, <2>3, LiesApart, Zenon
  <2>5. Lies(a, p) /\ Lies(b, p + Len(a))
    BY <1>1, <2>4, LiesApart, Zenon
  <2>6. QED
    BY <2>2, <2>3, <2>4, <2>5, Zenon
<1>4. /\ Len(a) \in Nat /\ Len(b) \in Nat /\ Len(c) \in Nat /\ Len(d) \in Nat /\ Len(e) \in Nat
  BY LenProperties
<1>5. /\ p + Len(ab) = p + Len(a) + Len(b)
      /\ p + Len(abc) = p + Len(a) + Len(b) + Len(c)
      /\ p + Len(abcd) = p + Len(a) + Len(b) + Len(c) + Len(d)
      /\ Len(abcd \o e) = Len(a) + Len(b) + Len(c) + Len(d) + Len(e)
  BY ONLY p \in Nat, <1>2, <1>4, SMT
<1>6. QED
  BY <1>1, <1>3, <1>5, Zenon

LEMMA LengthOfFive ==
  ASSUME NEW a \in Seq(Byte), NEW b \in Seq(Byte), NEW c \in Seq(Byte), NEW d \in Seq(Byte),
         NEW e \in Seq(Byte)
  PROVE  Len(a \o b \o c \o d \o e) = Len(a) + Len(b) + Len(c) + Len(d) + Len(e)
OBVIOUS

\* One byte at a place.
LEMMA LiesAt ==
  ASSUME NEW b, NEW p \in Nat, Lies(<<b>>, p), Len(script) \in Nat
  PROVE  p <= Len(script) /\ script[p] = b
<1>1. p + 1 <= Len(script) + 1 /\ script[p + 1 - 1] = b
  BY DEF Lies
<1>2. p + 1 - 1 = p
  OBVIOUS
<1>3. QED
  BY <1>1, <1>2

LEMMA OpcodesAreBytes ==
  /\ <<OP_FALSE, OP_IF>> \in Seq(Byte) /\ Len(<<OP_FALSE, OP_IF>>) = 2
  /\ <<OP_FALSE>> \in Seq(Byte) /\ Len(<<OP_FALSE>>) = 1
  /\ <<OP_ENDIF>> \in Seq(Byte) /\ Len(<<OP_ENDIF>>) = 1
<1>1. OP_FALSE \in Byte /\ OP_IF \in Byte /\ OP_ENDIF \in Byte
  BY SMT DEF OP_FALSE, OP_IF, OP_ENDIF, Byte
<1>2. QED
  BY <1>1

\* The beginning of an inscription and its fields.
LEMMA LayoutOfFields ==
  ASSUME ScriptIsBytes, Magic \in Pushable,
         NEW i \in Inscriptions, NEW o \in Nat \ {0}, Lies(Encode(i), o)
  PROVE  /\ Starts(o)
         /\ Lies(Push(Magic), o + 2)
         /\ FieldPos(i, o, 0) = o + 2 + Len(Push(Magic))
         /\ \A n \in 0..Len(i.fields) : FieldPos(i, o, n) \in Nat \ {0} /\ o < FieldPos(i, o, n)
         /\ \A n \in 1..Len(i.fields) :
              /\ Lies(FieldPushes(i)[n], FieldPos(i, o, n - 1))
              /\ FieldPos(i, o, n) = FieldPos(i, o, n - 1) + Len(FieldPushes(i)[n])
         /\ Lies(IF i.chunks = <<>> THEN <<>> ELSE <<OP_FALSE>> \o FlattenSeq(ChunkPushes(i)),
                 FieldPos(i, o, Len(i.fields)))
         /\ Lies(<<OP_ENDIF>>, o + Len(Encode(i)) - 1)
         /\ o + Len(Encode(i)) = FieldPos(i, o, Len(i.fields)) + 1
              + Len(IF i.chunks = <<>> THEN <<>> ELSE <<OP_FALSE>> \o FlattenSeq(ChunkPushes(i)))
<1>1. PICK F, C, B : /\ F = FieldPushes(i) /\ C = ChunkPushes(i)
                     /\ B = IF i.chunks = <<>> THEN <<>> ELSE <<OP_FALSE>> \o FlattenSeq(C)
  OBVIOUS
<1>2. /\ F \in Seq(Seq(Byte)) /\ Len(F) = Len(i.fields) /\ Len(F) \in Nat
      /\ C \in Seq(Seq(Byte)) /\ Len(C) = Len(i.chunks)
  BY <1>1, PushesAreBytes, InscriptionTypes
<1>3a. PICK M : M = Push(Magic) /\ M \in Seq(Byte)
  BY PushableIsWritten
<1>3b. PICK m \in Nat : m = Len(M)
  BY <1>3a, LenProperties
<1>3. M = Push(Magic) /\ M \in Seq(Byte) /\ m = Len(M)
  BY <1>3a, <1>3b
<1>4. /\ Upto(F, 0) = <<>>
      /\ \A n \in 0..Len(F) : Upto(F, n) \in Seq(Byte) /\ Len(Upto(F, n)) \in Nat
      /\ Upto(F, Len(F)) = FlattenSeq(F)
  BY <1>2, FlattenPrefixes, LenProperties
<1>5. FlattenSeq(F) \in Seq(Byte) /\ Len(FlattenSeq(F)) \in Nat
  <2>1. Len(F) \in 0..Len(F)
    BY <1>2
  <2>2. QED
    BY <1>4, <2>1
<1>6. B \in Seq(Byte) /\ Len(B) \in Nat
  <2>1. FlattenSeq(C) \in Seq(Byte)
    <3>1. Len(C) \in 0..Len(C)
      BY <1>2, LenProperties
    <3>2. QED
      BY <1>2, <3>1, FlattenPrefixes
  <2>2. <<OP_FALSE>> \o FlattenSeq(C) \in Seq(Byte)
    BY <2>1, OpcodesAreBytes, ConcatProperties
  <2>3. <<>> \in Seq(Byte)
    OBVIOUS
  <2>4. B \in Seq(Byte)
    BY <1>1, <2>2, <2>3
  <2>5. QED
    BY <2>4, LenProperties
<1>7. Encode(i) = <<OP_FALSE, OP_IF>> \o M \o FlattenSeq(F) \o B \o <<OP_ENDIF>>
  BY <1>1, <1>3, Zenon DEF Encode
<1>8. /\ Lies(<<OP_FALSE, OP_IF>>, o)
      /\ Lies(M, o + 2)
      /\ Lies(FlattenSeq(F), o + 2 + m)
      /\ Lies(B, o + 2 + m + Len(FlattenSeq(F)))
      /\ Lies(<<OP_ENDIF>>, o + 2 + m + Len(FlattenSeq(F)) + Len(B))
      /\ Len(Encode(i)) = 2 + m + Len(FlattenSeq(F)) + Len(B) + 1
  <2>1. o \in Nat
    OBVIOUS
  <2>2. PICK H, FF, Z : H = <<OP_FALSE, OP_IF>> /\ FF = FlattenSeq(F) /\ Z = <<OP_ENDIF>>
    OBVIOUS
  <2>3. /\ H \in Seq(Byte) /\ FF \in Seq(Byte) /\ Z \in Seq(Byte) /\ M \in Seq(Byte)
        /\ Lies(H \o M \o FF \o B \o Z, o) /\ Encode(i) = H \o M \o FF \o B \o Z
        /\ Len(H) = 2 /\ Len(Z) = 1 /\ m = Len(M)
    BY <1>3, <1>5, <1>7, <2>2, OpcodesAreBytes, Zenon
  <2>4. /\ Lies(H, o)
        /\ Lies(M, o + 2)
        /\ Lies(FF, o + 2 + m)
        /\ Lies(B, o + 2 + m + Len(FF))
        /\ Lies(Z, o + 2 + m + Len(FF) + Len(B))
        /\ Len(H \o M \o FF \o B \o Z) = 2 + m + Len(FF) + Len(B) + 1
    <3>1. /\ Lies(H, o)
          /\ Lies(M, o + Len(H))
          /\ Lies(FF, o + Len(H) + Len(M))
          /\ Lies(B, o + Len(H) + Len(M) + Len(FF))
          /\ Lies(Z, o + Len(H) + Len(M) + Len(FF) + Len(B))
          /\ Len(H \o M \o FF \o B \o Z) = Len(H) + Len(M) + Len(FF) + Len(B) + Len(Z)
      <4>1. B \in Seq(Byte) /\ H \in Seq(Byte) /\ FF \in Seq(Byte) /\ Z \in Seq(Byte)
            /\ M \in Seq(Byte) /\ Lies(H \o M \o FF \o B \o Z, o)
        BY <1>6, <2>3, Zenon
      <4>2. Lies(H, o) /\ Lies(M, o + Len(H)) /\ Lies(FF, o + Len(H) + Len(M))
        BY ONLY <2>1, <4>1, LiesInFive, SMT
      <4>3. Lies(B, o + Len(H) + Len(M) + Len(FF))
        BY ONLY <2>1, <4>1, LiesInFive, ZenonT(60)
      <4>4. Lies(Z, o + Len(H) + Len(M) + Len(FF) + Len(B))
        BY ONLY <2>1, <4>1, LiesInFive, ZenonT(60)
      <4>5. Len(H \o M \o FF \o B \o Z) = Len(H) + Len(M) + Len(FF) + Len(B) + Len(Z)
        BY ONLY <4>1, LengthOfFive, SMTT(60)
      <4>6. QED
        BY <4>2, <4>3, <4>4, <4>5, Zenon
    <3>2. Len(H) = 2 /\ Len(M) = m /\ Len(Z) = 1
      BY <2>3
    <3>3. QED
      BY ONLY <3>1, <3>2, Zenon
  <2>5. QED
    BY <2>2, <2>3, <2>4, Zenon
<1>9. \A n : FieldPos(i, o, n) = o + 2 + m + Len(Upto(F, n))
  BY <1>1, <1>3 DEF FieldPos
<1>10. FieldPos(i, o, 0) = o + 2 + m
  <2>1. Len(<<>>) = 0
    OBVIOUS
  <2>2. FieldPos(i, o, 0) = o + 2 + m + 0
    BY <1>4, <1>9, <2>1, Zenon
  <2>3. QED
    BY <2>2
<1>11. \A n \in 0..Len(F) : FieldPos(i, o, n) \in Nat \ {0} /\ o < FieldPos(i, o, n)
  BY <1>4, <1>9
<1>12. ASSUME NEW n \in 1..Len(F)
       PROVE  /\ Lies(F[n], FieldPos(i, o, n - 1))
              /\ FieldPos(i, o, n) = FieldPos(i, o, n - 1) + Len(F[n])
  <2>1. o + 2 + m \in Nat
    OBVIOUS
  <2>2. /\ Lies(F[n], o + 2 + m + Len(Upto(F, n - 1)))
        /\ Len(Upto(F, n)) = Len(Upto(F, n - 1)) + Len(F[n])
    BY <1>2, <1>8, <2>1, LiesOneByOne
  <2>3. n - 1 \in 0..Len(F) /\ Len(F[n]) \in Nat
    BY <1>2, ElementOfSeq, LenProperties
  <2>4. Len(Upto(F, n - 1)) \in Nat
    BY <1>4, <2>3
  <2>5. PICK c \in Nat, y \in Nat, z \in Nat :
          c = o + 2 + m /\ y = Len(Upto(F, n - 1)) /\ z = Len(F[n])
    BY <2>1, <2>3, <2>4
  <2>6. /\ FieldPos(i, o, n - 1) = c + y
        /\ FieldPos(i, o, n) = c + (y + z)
        /\ Lies(F[n], c + y)
    BY <1>9, <2>2, <2>5, Zenon
  <2>7. c + (y + z) = (c + y) + z
    BY SMT
  <2>8. QED
    BY <2>5, <2>6, <2>7, Zenon
<1>13. FieldPos(i, o, Len(F)) = o + 2 + m + Len(FlattenSeq(F))
  BY <1>4, <1>9
<1>14. Starts(o)
  <2>1. Lies(<<OP_FALSE, OP_IF>>, o)
    BY <1>8
  <2>2. o + 2 <= Len(script) + 1 /\ script[o + 1 - 1] = OP_FALSE /\ script[o + 2 - 1] = OP_IF
    BY <2>1 DEF Lies
  <2>3. o + 1 - 1 = o /\ o + 2 - 1 = o + 1 /\ Len(script) \in Nat
    BY LenProperties DEF ScriptIsBytes
  <2>4. QED
    BY <2>2, <2>3 DEF Starts
<1>15. Lies(<<OP_ENDIF>>, o + Len(Encode(i)) - 1)
  <2>1. o + 2 + m + Len(FlattenSeq(F)) + Len(B) = o + Len(Encode(i)) - 1
    BY <1>5, <1>6, <1>8
  <2>2. QED
    BY <1>8, <2>1, Zenon
<1>16. o + Len(Encode(i)) = FieldPos(i, o, Len(F)) + 1 + Len(B)
  BY <1>5, <1>6, <1>8, <1>13
<1>17. QED
  BY <1>1, <1>2, <1>3, <1>8, <1>10, <1>11, <1>12, <1>13, <1>14, <1>15, <1>16, Zenon

\* Its end, or its chunks and its end.
LEMMA LayoutOfBody ==
  ASSUME ScriptIsBytes, Magic \in Pushable,
         NEW i \in Inscriptions, NEW o \in Nat \ {0}, Lies(Encode(i), o)
  PROVE  /\ i.chunks = <<>> =>
              /\ script[FieldPos(i, o, Len(i.fields))] = OP_ENDIF
              /\ FieldPos(i, o, Len(i.fields)) <= Len(script)
              /\ o + Len(Encode(i)) = FieldPos(i, o, Len(i.fields)) + 1
         /\ i.chunks # <<>> =>
              /\ script[FieldPos(i, o, Len(i.fields))] = OP_FALSE
              /\ FieldPos(i, o, Len(i.fields)) <= Len(script)
              /\ ChunkPos(i, o, 0) = FieldPos(i, o, Len(i.fields)) + 1
              /\ \A n \in 0..Len(i.chunks) : ChunkPos(i, o, n) \in Nat \ {0} /\ o < ChunkPos(i, o, n)
              /\ \A n \in 1..Len(i.chunks) :
                   /\ Lies(Push(i.chunks[n]), ChunkPos(i, o, n - 1))
                   /\ ChunkPos(i, o, n) = ChunkPos(i, o, n - 1) + Len(Push(i.chunks[n]))
              /\ script[ChunkPos(i, o, Len(i.chunks))] = OP_ENDIF
              /\ ChunkPos(i, o, Len(i.chunks)) <= Len(script)
              /\ o + Len(Encode(i)) = ChunkPos(i, o, Len(i.chunks)) + 1
<1>1. PICK f \in Nat \ {0} : f = FieldPos(i, o, Len(i.fields)) /\ o < f
  <2>1. Len(i.fields) \in 0..Len(i.fields)
    BY InscriptionTypes
  <2>2. QED
    BY <2>1, LayoutOfFields
<1>2. PICK C : C = ChunkPushes(i) /\ C \in Seq(Seq(Byte)) /\ Len(C) = Len(i.chunks)
               /\ \A k \in 1..Len(C) : C[k] = Push(i.chunks[k])
  BY PushesAreBytes
<1>3. Len(C) \in Nat /\ Len(script) \in Nat
  BY <1>2, LenProperties DEF ScriptIsBytes
<1>4. CASE i.chunks = <<>>
  <2>1. Len(<<>>) = 0
    OBVIOUS
  <2>2. o + Len(Encode(i)) = f + 1
    BY <1>1, <1>4, <2>1, LayoutOfFields
  <2>3. o + Len(Encode(i)) - 1 = f
    BY <2>2
  <2>4. Lies(<<OP_ENDIF>>, f)
    BY <2>3, LayoutOfFields
  <2>5. QED
    BY <1>1, <1>3, <1>4, <2>2, <2>4, LiesAt
<1>5. CASE i.chunks # <<>>
  <2>1. /\ Upto(C, 0) = <<>>
        /\ \A n \in 0..Len(C) : Upto(C, n) \in Seq(Byte) /\ Len(Upto(C, n)) \in Nat
        /\ Upto(C, Len(C)) = FlattenSeq(C)
    BY <1>2, FlattenPrefixes, LenProperties
  <2>2. FlattenSeq(C) \in Seq(Byte) /\ Len(FlattenSeq(C)) \in Nat
    <3>1. Len(C) \in 0..Len(C)
      BY <1>3
    <3>2. QED
      BY <2>1, <3>1
  <2>3. /\ Len(<<OP_FALSE>> \o FlattenSeq(C)) = 1 + Len(FlattenSeq(C))
    BY <2>2, OpcodesAreBytes, ConcatProperties
  <2>4. Lies(<<OP_FALSE>> \o FlattenSeq(C), f)
    BY <1>1, <1>2, <1>5, LayoutOfFields
  <2>5. Lies(<<OP_FALSE>>, f) /\ Lies(FlattenSeq(C), f + 1)
    BY <2>2, <2>4, OpcodesAreBytes, LiesApart
  <2>6. o + Len(Encode(i)) = f + 1 + (1 + Len(FlattenSeq(C)))
    BY <1>1, <1>2, <1>5, <2>3, LayoutOfFields
  <2>7. \A n : ChunkPos(i, o, n) = f + 1 + Len(Upto(C, n))
    BY <1>1, <1>2 DEF ChunkPos
  <2>8. ASSUME NEW n \in 1..Len(C)
        PROVE  /\ Lies(Push(i.chunks[n]), ChunkPos(i, o, n - 1))
               /\ ChunkPos(i, o, n) = ChunkPos(i, o, n - 1) + Len(Push(i.chunks[n]))
    <3>1. f + 1 \in Nat
      OBVIOUS
    <3>2. /\ Lies(C[n], f + 1 + Len(Upto(C, n - 1)))
          /\ Len(Upto(C, n)) = Len(Upto(C, n - 1)) + Len(C[n])
      BY <1>2, <2>5, <3>1, LiesOneByOne
    <3>3. n - 1 \in 0..Len(C) /\ Len(C[n]) \in Nat
      BY <1>2, <1>3, ElementOfSeq, LenProperties
    <3>4. Len(Upto(C, n - 1)) \in Nat
      BY <2>1, <3>3
    <3>5. ChunkPos(i, o, n) = ChunkPos(i, o, n - 1) + Len(C[n])
      <4>1. PICK c \in Nat, y \in Nat, z \in Nat :
              c = f + 1 /\ y = Len(Upto(C, n - 1)) /\ z = Len(C[n])
        BY <3>1, <3>3, <3>4
      <4>2. ChunkPos(i, o, n - 1) = c + y /\ ChunkPos(i, o, n) = c + (y + z)
        BY <2>7, <3>2, <4>1, Zenon
      <4>3. c + (y + z) = (c + y) + z
        BY SMT
      <4>4. QED
        BY <4>1, <4>2, <4>3, Zenon
    <3>6. QED
      BY <1>2, <2>7, <3>2, <3>5
  <2>9. \A n \in 0..Len(C) : ChunkPos(i, o, n) \in Nat \ {0} /\ o < ChunkPos(i, o, n)
    BY <1>1, <2>1, <2>7
  <2>10. ChunkPos(i, o, 0) = f + 1
    BY <2>1, <2>7
  <2>11. ChunkPos(i, o, Len(C)) = f + 1 + Len(FlattenSeq(C))
    BY <2>1, <2>7
  <2>12. o + Len(Encode(i)) = ChunkPos(i, o, Len(C)) + 1
    BY <2>2, <2>6, <2>11
  <2>13. script[ChunkPos(i, o, Len(C))] = OP_ENDIF /\ ChunkPos(i, o, Len(C)) <= Len(script)
    <3>1. ChunkPos(i, o, Len(C)) \in Nat
      BY <2>2, <2>11
    <3>2. o + Len(Encode(i)) - 1 = ChunkPos(i, o, Len(C))
      BY <2>12, <3>1
    <3>3. Lies(<<OP_ENDIF>>, ChunkPos(i, o, Len(C)))
      BY <3>2, LayoutOfFields
    <3>4. QED
      BY <1>3, <3>1, <3>3, LiesAt
  <2>14. script[f] = OP_FALSE /\ f <= Len(script)
    BY <1>3, <2>5, LiesAt
  <2>15. QED
    BY <1>1, <1>2, <1>5, <2>8, <2>9, <2>10, <2>12, <2>13, <2>14, Zenon
<1>6. QED
  BY <1>4, <1>5, Zenon

\* The last of a set of numbers, once it is known.
LEMMA LastOfSome ==
  ASSUME NEW S, NEW n \in S, S \subseteq 1..n, n \in Nat
  PROVE  (CHOOSE k \in S : \A j \in S : j <= k) = n
<1>1. \A j \in S : j <= n
  OBVIOUS
<1>2. \A k \in S : (\A j \in S : j <= k) => k = n
  <2> SUFFICES ASSUME NEW k \in S, \A j \in S : j <= k
               PROVE  k = n
    OBVIOUS
  <2>1. n <= k /\ k <= n /\ k \in Nat
    BY <1>1
  <2>2. QED
    BY <2>1
<1>3. \E k \in S : \A j \in S : j <= k
  BY <1>1
<1>4. QED
  BY <1>2, <1>3

\* An inscription whose fields are read one after the other: a tag that is known
\* gets its value, another changes nothing.
LEMMA SayingMore ==
  ASSUME NEW i \in Inscriptions
  PROVE  /\ Said(i, 0) = [t \in Tags |-> None]
         /\ \A n \in 1..Len(i.fields) :
              /\ i.fields[n][1] \in Tags =>
                   Said(i, n) = [Said(i, n - 1) EXCEPT ![i.fields[n][1]] =
                                   Value(i.fields[n][1], i.fields[n][2])]
              /\ i.fields[n][1] \notin Tags => Said(i, n) = Said(i, n - 1)
<1> DEFINE saying(t, n) == {k \in 1..n : i.fields[k][1] = t}
           latest(S) == CHOOSE k \in S : \A j \in S : j <= k
           last(t, n) == latest(saying(t, n))
           word(t, n) == IF saying(t, n) = {} THEN None ELSE Value(t, i.fields[last(t, n)][2])
<1>1. \A n : Said(i, n) = [t \in Tags |-> word(t, n)]
  BY DEF Said
<1>2. \A t : saying(t, 0) = {}
  OBVIOUS
<1>3. Said(i, 0) = [t \in Tags |-> None]
  <2>1. \A t : word(t, 0) = None
    BY <1>2
  <2> HIDE DEF word
  <2>2. QED
    BY <1>1, <2>1
<1>4. ASSUME NEW n \in 1..Len(i.fields)
      PROVE  /\ \A t : t # i.fields[n][1] => word(t, n) = word(t, n - 1)
             /\ word(i.fields[n][1], n) = Value(i.fields[n][1], i.fields[n][2])
  <2>1. n \in Nat /\ n \in 1..n /\ 1..n = 1..(n-1) \cup {n}
    BY InscriptionTypes
  <2>2. \A t : t # i.fields[n][1] => saying(t, n) = saying(t, n - 1)
    <3> SUFFICES ASSUME NEW t, t # i.fields[n][1]
                 PROVE  saying(t, n) = saying(t, n - 1)
      OBVIOUS
    <3>1. \A k \in 1..n : i.fields[k][1] = t => k \in 1..(n-1)
      BY <2>1
    <3>2. \A k \in 1..(n-1) : k \in 1..n
      BY <2>1
    <3>3. QED
      BY ONLY <3>1, <3>2
  <2>3. last(i.fields[n][1], n) = n /\ saying(i.fields[n][1], n) # {}
    <3>1. n \in saying(i.fields[n][1], n) /\ saying(i.fields[n][1], n) \subseteq 1..n
      BY <2>1
    <3> HIDE DEF saying
    <3>2. last(i.fields[n][1], n) = n
      BY <2>1, <3>1, LastOfSome
    <3>3. QED
      BY <3>1, <3>2
  <2> HIDE DEF saying, latest
  <2>4. \A t : t # i.fields[n][1] => word(t, n) = word(t, n - 1)
    BY <2>2
  <2> HIDE DEF last
  <2>5. word(i.fields[n][1], n) = Value(i.fields[n][1], i.fields[n][2])
    BY <2>3
  <2>6. QED
    BY <2>4, <2>5
<1> HIDE DEF word
<1>5. ASSUME NEW n \in 1..Len(i.fields), i.fields[n][1] \in Tags
      PROVE  Said(i, n) = [Said(i, n - 1) EXCEPT ![i.fields[n][1]] =
                             Value(i.fields[n][1], i.fields[n][2])]
  <2>1. PICK tag, v, old, new :
          /\ tag \in Tags /\ tag = i.fields[n][1] /\ v = Value(i.fields[n][1], i.fields[n][2])
          /\ old = Said(i, n - 1) /\ new = Said(i, n)
    BY <1>5
  <2>2. /\ old = [t \in Tags |-> word(t, n - 1)]
        /\ new = [t \in Tags |-> word(t, n)]
        /\ word(tag, n) = v
        /\ \A t : t # tag => word(t, n) = word(t, n - 1)
    BY <1>1, <1>4, <2>1
  <2>3. new = [old EXCEPT ![tag] = v]
    BY ONLY <2>1, <2>2
  <2>4. QED
    BY <2>1, <2>3
<1>6. ASSUME NEW n \in 1..Len(i.fields), i.fields[n][1] \notin Tags
      PROVE  Said(i, n) = Said(i, n - 1)
  <2>1. \A t \in Tags : word(t, n) = word(t, n - 1)
    BY <1>4, <1>6
  <2>2. QED
    BY <1>1, <2>1
<1>7. QED
  BY <1>3, <1>5, <1>6

(***************************************************************************)
(* Where the parts of a script lie.                                        *)
(***************************************************************************)
\* Where part k ends.
End(k) == Offset(k) + Len(parts[k].bytes)

\* The parts of a script lie in it one behind the other.
Laid ==
  /\ script \in Seq(Byte)
  /\ parts \in Seq(Part)
  /\ \A k \in DOMAIN parts : Offset(k) \in Nat \ {0} /\ Lies(parts[k].bytes, Offset(k))
  /\ \A j, k \in DOMAIN parts : j < k => End(j) <= Offset(k)

PartBytes == [k \in DOMAIN parts |-> parts[k].bytes]

LEMMA BytesOfPart == ASSUME NEW part \in Part PROVE part.bytes \in Seq(Byte)
BY Zenon DEF Part

LEMMA PartsHaveBytes ==
  ASSUME NEW ps \in Seq(Part)
  PROVE  /\ Len(ps) \in Nat /\ DOMAIN ps = 1..Len(ps)
         /\ [k \in DOMAIN ps |-> ps[k].bytes] \in Seq(Seq(Byte))
         /\ Len([k \in DOMAIN ps |-> ps[k].bytes]) = Len(ps)
         /\ \A k \in 1..Len(ps) : [j \in DOMAIN ps |-> ps[j].bytes][k] = ps[k].bytes
<1>1. PICK n \in Nat : n = Len(ps)
  BY LenProperties
<1>2. DOMAIN ps = 1..n
  BY <1>1, LenProperties
<1>3. \A k \in 1..n : ps[k].bytes \in Seq(Byte)
  <2>1. \A k \in 1..n : ps[k] \in Part
    BY <1>1, ElementOfSeq
  <2>2. QED
    BY <2>1, BytesOfPart, Zenon
<1>4. PICK f : f = [k \in DOMAIN ps |-> ps[k].bytes]
  OBVIOUS
<1>5. f \in [1..n -> Seq(Byte)] /\ \A k \in 1..n : f[k] = ps[k].bytes
  BY <1>2, <1>3, <1>4, Zenon
<1>6. f \in Seq(Seq(Byte)) /\ Len(f) = n
  BY ONLY <1>1, <1>5, MapIsSeq, Zenon
<1>7. QED
  BY <1>1, <1>2, <1>4, <1>5, <1>6, Zenon

LEMMA OffsetIsLength ==
  ASSUME parts \in Seq(Part), NEW k \in 1..Len(parts)
  PROVE  Offset(k) = Len(Upto(PartBytes, k - 1)) + 1
<1>1. PICK n \in Nat : n = k - 1 /\ n \in 0..Len(parts)
  BY LenProperties
<1>2. PICK q, b : q = SubSeq(parts, 1, n) /\ b = SubSeq(PartBytes, 1, n)
  OBVIOUS
<1>3. q \in Seq(Part) /\ Len(q) = n /\ \A j \in 1..n : q[j] = parts[j]
  BY <1>1, <1>2, PrefixProperties
<1>4. /\ PartBytes \in Seq(Seq(Byte)) /\ Len(PartBytes) = Len(parts)
      /\ \A j \in 1..Len(parts) : PartBytes[j] = parts[j].bytes
  BY PartsHaveBytes, Zenon DEF PartBytes
<1>5. b \in Seq(Seq(Byte)) /\ Len(b) = n /\ \A j \in 1..n : b[j] = PartBytes[j]
  BY <1>1, <1>2, <1>4, PrefixProperties
<1>6. PICK f : f = [j \in DOMAIN q |-> q[j].bytes]
  OBVIOUS
<1>7. f \in Seq(Seq(Byte)) /\ Len(f) = n /\ \A j \in 1..n : f[j] = q[j].bytes
  BY <1>3, <1>6, PartsHaveBytes, Zenon
<1>8. \A j \in 1..n : f[j] = b[j]
  <2>1. \A j \in 1..n : j \in 1..Len(parts)
    BY <1>1, LenProperties
  <2>2. QED
    BY <1>3, <1>4, <1>5, <1>7, <2>1
<1>9. f = b
  BY <1>5, <1>7, <1>8, SeqEqual
<1>10. QED
  BY <1>1, <1>2, <1>6, <1>9 DEF Offset, Bytes, Upto

LEMMA LengthsGrow ==
  ASSUME NEW ss \in Seq(Seq(Byte)), NEW j \in 0..Len(ss), NEW k \in 0..Len(ss), j <= k
  PROVE  Len(Upto(ss, j)) <= Len(Upto(ss, k))
<1>1. PICK n \in Nat : n = Len(ss)
  BY LenProperties
<1> DEFINE size(m) == Len(Upto(ss, m))
<1>2. /\ \A m \in 0..n : size(m) \in Nat
      /\ \A m \in 1..n : size(m) = size(m - 1) + Len(ss[m]) /\ Len(ss[m]) \in Nat
  <2>1. \A m \in 0..n : Upto(ss, m) \in Seq(Byte)
    BY <1>1, FlattenPrefixes
  <2>2. \A m \in 0..n : size(m) \in Nat
    BY <2>1, LenProperties
  <2>3. ASSUME NEW m \in 1..n
        PROVE  size(m) = size(m - 1) + Len(ss[m]) /\ Len(ss[m]) \in Nat
    <3>1. Upto(ss, m) = Upto(ss, m - 1) \o ss[m] /\ ss[m] \in Seq(Byte)
      BY <1>1, FlattenPrefixes, ElementOfSeq
    <3>2. m - 1 \in 0..n
      BY <1>1
    <3>3. QED
      BY <2>1, <3>1, <3>2, ConcatProperties, LenProperties
  <2>4. QED
    BY <2>2, <2>3
<1> HIDE DEF size
<1> DEFINE S == {m \in 0..n : j <= m => size(j) <= size(m)}
<1>3. 0 \in S
  BY <1>1, <1>2
<1>4. ASSUME NEW m \in 0..(n-1), m \in S
      PROVE  m + 1 \in S
  <2>1. m + 1 \in 1..n /\ (m + 1) - 1 = m /\ m \in 0..n /\ m + 1 \in 0..n
    BY <1>1
  <2>2. size(m + 1) = size(m) + Len(ss[m + 1]) /\ Len(ss[m + 1]) \in Nat
        /\ size(m) \in Nat /\ size(j) \in Nat
    BY <1>1, <1>2, <2>1
  <2>3. CASE j <= m
    BY <1>4, <2>1, <2>2, <2>3
  <2>4. CASE ~(j <= m)
    <3>1. j <= m + 1 => j = m + 1
      BY <1>1, <2>1, <2>4
    <3>2. QED
      BY <2>1, <2>2, <3>1
  <2>5. QED
    BY <2>3, <2>4
<1>5. \A m \in 0..n : m \in S
  <2> HIDE DEF S
  <2>1. QED
    BY <1>3, <1>4, AllUpTo
<1>6. size(j) <= size(k)
  BY <1>1, <1>5
<1>7. QED
  BY <1>6 DEF size

\* What was written lies in the script.
LEMMA PartsAreLaid ==
  ASSUME parts \in Seq(Part), NEW t \in Seq(Byte), script = Bytes(parts) \o t
  PROVE  Laid
<1>1. /\ PartBytes \in Seq(Seq(Byte)) /\ Len(PartBytes) = Len(parts)
      /\ \A j \in 1..Len(parts) : PartBytes[j] = parts[j].bytes
      /\ DOMAIN parts = 1..Len(parts) /\ Len(parts) \in Nat
  BY PartsHaveBytes, Zenon DEF PartBytes
<1>2. Bytes(parts) = FlattenSeq(PartBytes)
  BY DEF Bytes, PartBytes
<1>3. /\ \A n \in 0..Len(parts) : Upto(PartBytes, n) \in Seq(Byte)
      /\ Upto(PartBytes, Len(parts)) = FlattenSeq(PartBytes)
  BY <1>1, FlattenPrefixes, Zenon
<1>4. PICK w \in Seq(Byte) : w = FlattenSeq(PartBytes)
  BY <1>1, <1>3
<1>5. script \in Seq(Byte) /\ script = w \o t
  BY <1>2, <1>4, ConcatProperties
<1>6. Lies(w \o t, 1)
  <2>1. Len(script) \in Nat /\ \A n \in 1..Len(script) : 1 + n - 1 = n
    BY <1>5, LenProperties
  <2>2. Lies(script, 1)
    BY <2>1 DEF Lies
  <2>3. QED
    BY <1>5, <2>2
<1>7. Lies(FlattenSeq(PartBytes), 1)
  BY <1>4, <1>6, LiesApart
<1>8. ASSUME NEW k \in 1..Len(parts)
      PROVE  /\ Offset(k) \in Nat \ {0} /\ Lies(parts[k].bytes, Offset(k))
             /\ End(k) = Len(Upto(PartBytes, k)) + 1
  <2>1. /\ Lies(PartBytes[k], 1 + Len(Upto(PartBytes, k - 1)))
        /\ Len(Upto(PartBytes, k)) = Len(Upto(PartBytes, k - 1)) + Len(PartBytes[k])
    BY <1>1, <1>7, LiesOneByOne
  <2>2. k - 1 \in 0..Len(parts) /\ PartBytes[k] = parts[k].bytes
    <3>1. Len(parts) \in Nat /\ k \in 1..Len(parts)
      BY <1>1
    <3>2. k - 1 \in 0..Len(parts)
      BY ONLY <3>1, SMT
    <3>3. QED
      BY <1>1, <3>2, Zenon
  <2>3. PICK x \in Nat : x = Len(Upto(PartBytes, k - 1))
    BY <1>3, <2>2, LenProperties
  <2>4. PICK y \in Nat : y = Len(parts[k].bytes)
    BY <1>1, <2>2, ElementOfSeq, LenProperties
  <2>5. Offset(k) = x + 1
    BY <2>3, OffsetIsLength
  <2>6. Offset(k) \in Nat \ {0} /\ 1 + x = x + 1 /\ (x + 1) + y = (x + y) + 1
    BY ONLY <2>5, SMT
  <2>7. Len(Upto(PartBytes, k)) = x + y
    BY <2>1, <2>2, <2>3, <2>4, Zenon
  <2>8. End(k) = (x + 1) + y
    BY <2>4, <2>5, Zenon DEF End
  <2>9. Lies(parts[k].bytes, 1 + x)
    BY <2>1, <2>2, <2>3, Zenon
  <2>10. QED
    BY <2>5, <2>6, <2>7, <2>8, <2>9, Zenon
<1>9. ASSUME NEW j \in 1..Len(parts), NEW k \in 1..Len(parts), j < k
      PROVE  End(j) <= Offset(k)
  <2>1. j \in 0..Len(parts) /\ k - 1 \in 0..Len(parts) /\ j <= k - 1
    BY <1>1, <1>9
  <2>2. Len(Upto(PartBytes, j)) <= Len(Upto(PartBytes, k - 1))
    BY <1>1, <2>1, LengthsGrow
  <2>3. PICK x \in Nat : x = Len(Upto(PartBytes, j))
    BY <1>3, <2>1, LenProperties
  <2>4. PICK y \in Nat : y = Len(Upto(PartBytes, k - 1))
    BY <1>3, <2>1, LenProperties
  <2>5. End(j) = x + 1 /\ Offset(k) = y + 1
    BY <1>8, <2>3, <2>4, OffsetIsLength, Zenon
  <2>6. x <= y
    BY <2>2, <2>3, <2>4, Zenon
  <2>7. QED
    BY ONLY <2>5, <2>6, SMT
<1>10. QED
  BY <1>1, <1>5, <1>8, <1>9 DEF Laid

\* What stays as it is.
LEMMA LaidStays ==
  ASSUME script' = script, parts' = parts
  PROVE  /\ Laid' <=> Laid
         /\ Holders' = Holders
         /\ \A k : Offset(k)' = Offset(k) /\ End(k)' = End(k)
<1>1. \A k : Offset(k)' = Offset(k)
  BY Zenon DEF Offset, Bytes
<1>2. \A k : End(k)' = End(k)
  BY <1>1, Zenon DEF End
<1>3. Laid' <=> Laid
  BY <1>1, <1>2, Zenon DEF Laid, Lies
<1>4. Holders' = Holders
  BY Zenon DEF Holders
<1>5. QED
  BY <1>1, <1>2, <1>3, <1>4, Zenon

\* A part that holds an inscription.
LEMMA HolderLies ==
  ASSUME Laid, NEW k \in Holders
  PROVE  /\ k \in DOMAIN parts /\ k \in Nat
         /\ parts[k].holds \in Inscriptions
         /\ parts[k].bytes = Encode(parts[k].holds)
         /\ Offset(k) \in Nat \ {0} /\ Lies(Encode(parts[k].holds), Offset(k))
         /\ Len(parts[k].bytes) \in Nat
         /\ End(k) \in Nat /\ End(k) = Offset(k) + Len(Encode(parts[k].holds))
<1>1. k \in DOMAIN parts /\ parts[k].holds # None
  BY DEF Holders
<1>2. parts \in Seq(Part) /\ k \in 1..Len(parts) /\ k \in Nat
  BY <1>1, LenProperties DEF Laid
<1>3. parts[k] \in Part
  BY <1>2, ElementOfSeq
<1>4. /\ parts[k].holds \in Inscriptions /\ parts[k].bytes = Encode(parts[k].holds)
      /\ parts[k].bytes \in Seq(Byte)
  BY <1>1, <1>3, Zenon DEF Part
<1>5. Len(parts[k].bytes) \in Nat
  BY <1>4, LenProperties
<1>6. Offset(k) \in Nat \ {0} /\ Lies(parts[k].bytes, Offset(k))
  BY <1>1 DEF Laid
<1>7. End(k) = Offset(k) + Len(parts[k].bytes)
  BY DEF End
<1>8. End(k) \in Nat
  BY ONLY <1>5, <1>6, <1>7, SMT
<1>9. QED
  BY <1>1, <1>2, <1>4, <1>5, <1>6, <1>7, <1>8, Zenon

(***************************************************************************)
(* The turns of an attempt that began at an inscription.                   *)
(***************************************************************************)
Trying == phase \in {"magic", "fields", "body"}

Partial(o, fields, body) == [start |-> o, end |-> 0, fields |-> fields, body |-> body]

\* How far inscription i, written at place o, has been read.
Reading(i, o) ==
  /\ phase = "magic" => pos = o + 2 /\ envelope = Blank(o)
  /\ phase = "fields" => \E n \in 0..Len(i.fields) :
       pos = FieldPos(i, o, n) /\ envelope = Partial(o, Said(i, n), <<>>)
  /\ phase = "body" => i.chunks # <<>> /\ \E n \in 0..Len(i.chunks) :
       pos = ChunkPos(i, o, n)
       /\ envelope = Partial(o, Said(i, Len(i.fields)), Upto(i.chunks, n))

\* It is returned: all that it says, and no envelope can begin in what is left of it.
Returned(i, o) ==
  /\ phase' = "scanning"
  /\ pos' <= o + Len(Encode(i))
  /\ [fields |-> envelope.fields, body |-> envelope.body] = Meaning(i)
  /\ \A s \in pos' .. o + Len(Encode(i)) - 1 : ~Starts(s)

\* The next turn when inscription i is read at place o.
Proceeds(i, o) ==
  \/ phase' \in {"fields", "body"} /\ Reading(i, o)'
  \/ Returned(i, o) /\ \E p : Return(p)

LEMMA Opcodes ==
  /\ \A b \in 1..77 : b # OP_FALSE /\ b # OP_ENDIF
  /\ OP_FALSE # OP_ENDIF /\ OP_FALSE # OP_IF /\ OP_ENDIF # OP_IF
BY SMT DEF OP_FALSE, OP_ENDIF, OP_IF

LEMMA BeforeOneOrTwo ==
  ASSUME NEW p \in Nat
  PROVE  p .. p + 1 - 1 = {p} /\ p .. p + 2 - 1 = {p, p + 1} /\ p .. p - 1 = {}
OBVIOUS

LEMMA MagicIsRead ==
  ASSUME ScriptIsBytes, Magic \in Pushable,
         NEW i \in Inscriptions, NEW o \in Nat \ {0}, Lies(Encode(i), o),
         phase = "magic", Reading(i, o), ReadMagic
  PROVE  Proceeds(i, o)
<1>1. pos = o + 2 /\ envelope = Blank(o)
  BY DEF Reading
<1>2. pos \in Nat \ {0}
  BY <1>1
<1>3. Lies(Push(Magic), pos)
  BY <1>1, LayoutOfFields, Zenon
<1>4. IsPush(pos) /\ Data(pos) = Magic /\ After(pos) = pos + Len(Push(Magic))
  BY <1>2, <1>3, PushIsRead
<1>5. phase' = "fields" /\ pos' = After(pos) /\ envelope' = envelope
  BY <1>4, Zenon DEF ReadMagic
<1>6. FieldPos(i, o, 0) = o + 2 + Len(Push(Magic))
  BY LayoutOfFields, Zenon
<1>7. pos' = FieldPos(i, o, 0)
  BY <1>1, <1>4, <1>5, <1>6, Zenon
<1>8. envelope' = Partial(o, Said(i, 0), <<>>)
  BY <1>1, <1>5, SayingMore, Zenon DEF Blank, Partial
<1>9. 0 \in 0..Len(i.fields)
  BY InscriptionTypes
<1>10. Reading(i, o)'
  BY <1>5, <1>7, <1>8, <1>9 DEF Reading
<1>11. QED
  BY <1>5, <1>10 DEF Proceeds

\* A field.
LEMMA FieldIsRead ==
  ASSUME ScriptIsBytes, Magic \in Pushable,
         NEW i \in Inscriptions, NEW o \in Nat \ {0}, Lies(Encode(i), o),
         NEW n \in 1..Len(i.fields),
         phase = "fields",
         pos = FieldPos(i, o, n - 1), envelope = Partial(o, Said(i, n - 1), <<>>),
         RunOut \/ EndEnvelope \/ BeginBody \/ ReadField
  PROVE  /\ phase' = "fields"
         /\ pos' = FieldPos(i, o, n) /\ envelope' = Partial(o, Said(i, n), <<>>)
<1>1. PICK tag, v : tag = i.fields[n][1] /\ v = i.fields[n][2]
  OBVIOUS
<1>2. tag \in Byte /\ v \in Pushable /\ <<tag>> \in Pushable
  BY <1>1, InscriptionTypes, TagIsPushable
<1>3. PICK a, b : a = Push(<<tag>>) /\ b = Push(v)
  OBVIOUS
<1>4. /\ a \in Seq(Byte) /\ Len(a) \in Nat \ {0} /\ b \in Seq(Byte) /\ Len(b) \in Nat \ {0}
  BY <1>2, <1>3, PushableIsWritten
<1>5. FieldPushes(i)[n] = a \o b
  BY <1>1, <1>3, PushesAreBytes, Zenon
<1>6. pos \in Nat \ {0}
  <2>1. n - 1 \in 0..Len(i.fields)
    BY InscriptionTypes
  <2>2. QED
    BY <2>1, LayoutOfFields
<1>7. Lies(a \o b, pos) /\ FieldPos(i, o, n) = pos + Len(a \o b)
  BY <1>5, LayoutOfFields, Zenon
<1>8. Lies(a, pos) /\ Lies(b, pos + Len(a)) /\ Len(a \o b) = Len(a) + Len(b)
  BY <1>4, <1>6, <1>7, LiesApart, ConcatProperties
<1>9. /\ IsPush(pos) /\ Data(pos) = <<tag>> /\ After(pos) = pos + Len(a)
      /\ pos <= Len(script) /\ script[pos] \in 1..77
  BY <1>2, <1>3, <1>6, <1>8, PushIsRead
<1>10. PICK second \in Nat \ {0} : second = After(pos) /\ second = pos + Len(a)
  BY <1>4, <1>6, <1>9
<1>11. /\ IsPush(second) /\ Data(second) = v /\ After(second) = second + Len(b)
  BY <1>2, <1>3, <1>8, <1>10, PushIsRead
<1>12. After(second) = FieldPos(i, o, n)
  <2>1. PICK x \in Nat, y \in Nat : x = Len(a) /\ y = Len(b)
    BY <1>4
  <2>2. (pos + x) + y = pos + (x + y)
    BY <1>6
  <2>3. QED
    BY <1>7, <1>8, <1>10, <1>11, <2>1, <2>2, Zenon
<1>13. ~At(OP_ENDIF) /\ ~At(OP_FALSE)
  BY <1>9, Opcodes DEF At
<1>14. ReadField
  <2>1. ~(pos > Len(script))
    BY <1>6, <1>9, LenProperties DEF ScriptIsBytes
  <2>2. QED
    BY <1>13, <2>1 DEF RunOut, EndEnvelope, BeginBody
<1>15. Len(<<tag>>) = 1 /\ <<tag>>[1] = tag
  OBVIOUS
<1>16. /\ \/ tag \in Tags /\ envelope' = [envelope EXCEPT !.fields[tag] = Value(tag, v)]
          \/ tag \notin Tags /\ envelope' = envelope
       /\ pos' = After(second) /\ phase' = phase
  <2>1. /\ \/ /\ Len(Data(pos)) = 1 /\ Data(pos)[1] \in Tags
              /\ envelope' = [envelope EXCEPT !.fields[Data(pos)[1]] =
                                                Value(Data(pos)[1], Data(After(pos)))]
           \/ /\ ~(Len(Data(pos)) = 1 /\ Data(pos)[1] \in Tags)
              /\ UNCHANGED envelope
        /\ pos' = After(After(pos)) /\ phase' = phase
    BY <1>9, <1>10, <1>11, <1>14, Zenon DEF ReadField
  <2>2. QED
    BY <1>9, <1>10, <1>11, <1>15, <2>1, Zenon
<1>17. envelope' = Partial(o, Said(i, n), <<>>)
  <2>1. CASE tag \in Tags
    <3>1. envelope' = [envelope EXCEPT !.fields[tag] = Value(tag, v)]
      BY <1>16, <2>1
    <3>2. Said(i, n) = [Said(i, n - 1) EXCEPT ![tag] = Value(tag, v)]
      BY <1>1, <2>1, SayingMore, Zenon
    <3>3. PICK old, new : old = Said(i, n - 1) /\ new = Said(i, n)
      OBVIOUS
    <3>4. QED
      BY <3>1, <3>2, <3>3 DEF Partial
  <2>2. CASE tag \notin Tags
    <3>1. Said(i, n) = Said(i, n - 1)
      BY <1>1, <2>2, SayingMore, Zenon
    <3>2. QED
      BY <1>16, <2>2, <3>1
  <2>3. QED
    BY <2>1, <2>2
<1>18. QED
  BY <1>12, <1>16, <1>17

\* Behind the last field.
LEMMA FieldsAreRead ==
  ASSUME ScriptIsBytes, Magic \in Pushable,
         NEW i \in Inscriptions, NEW o \in Nat \ {0}, Lies(Encode(i), o),
         phase = "fields",
         pos = FieldPos(i, o, Len(i.fields)),
         envelope = Partial(o, Said(i, Len(i.fields)), <<>>),
         RunOut \/ EndEnvelope \/ BeginBody \/ ReadField
  PROVE  Proceeds(i, o)
<1>1. pos \in Nat \ {0} /\ Len(script) \in Nat
  <2>1. Len(i.fields) \in 0..Len(i.fields)
    BY InscriptionTypes
  <2>2. QED
    BY <2>1, LayoutOfFields, LenProperties DEF ScriptIsBytes
<1>2. CASE i.chunks = <<>>
  <2>1. script[pos] = OP_ENDIF /\ pos <= Len(script) /\ o + Len(Encode(i)) = pos + 1
    BY <1>2, LayoutOfBody, Zenon
  <2>2. EndEnvelope
    <3>1. ~(pos > Len(script))
      BY ONLY <1>1, <2>1, SMT
    <3>2. At(OP_ENDIF) /\ ~At(OP_FALSE)
      BY ONLY <2>1, Opcodes, Zenon DEF At
    <3>3. QED
      BY <3>1, <3>2 DEF RunOut, BeginBody, ReadField
  <2>3. Return(pos + 1) /\ pos' = pos + 1 /\ phase' = "scanning"
    BY <2>2 DEF EndEnvelope, Return
  <2>4. [fields |-> envelope.fields, body |-> envelope.body] = Meaning(i)
    <3>1. FlattenSeq(<<>>) = <<>>
      BY DEF FlattenSeq
    <3>2. QED
      BY <1>2, <3>1 DEF Meaning, Partial
  <2>5. pos' .. o + Len(Encode(i)) - 1 = {} /\ pos' <= o + Len(Encode(i))
    BY <1>1, <2>1, <2>3
  <2>6. Returned(i, o)
    BY <2>3, <2>4, <2>5 DEF Returned
  <2>7. QED
    BY <2>3, <2>6 DEF Proceeds
<1>3. CASE i.chunks # <<>>
  <2>1. /\ script[pos] = OP_FALSE /\ pos <= Len(script) /\ ChunkPos(i, o, 0) = pos + 1
    BY <1>3, LayoutOfBody, Zenon
  <2>2. BeginBody
    <3>1. ~(pos > Len(script)) /\ ~At(OP_ENDIF) /\ At(OP_FALSE)
      BY <1>1, <2>1, Opcodes DEF At
    <3>2. QED
      BY <3>1 DEF RunOut, EndEnvelope, ReadField
  <2>3. pos' = ChunkPos(i, o, 0) /\ phase' = "body" /\ envelope' = envelope
    BY <2>1, <2>2 DEF BeginBody
  <2>4. Upto(i.chunks, 0) = <<>> /\ 0 \in 0..Len(i.chunks)
    <3>1. i.chunks \in Seq(Seq(Byte)) /\ 0 \in 0..Len(i.chunks)
      BY InscriptionTypes
    <3>2. QED
      BY <3>1, FlattenPrefixes, Zenon
  <2>5. Reading(i, o)'
    BY <1>3, <2>3, <2>4 DEF Reading
  <2>6. QED
    BY <2>3, <2>5 DEF Proceeds
<1>4. QED
  BY <1>2, <1>3

\* A chunk of the body; the empty one ends the envelope with two bytes to go.
LEMMA ChunkIsRead ==
  ASSUME ScriptIsBytes, Magic \in Pushable,
         NEW i \in Inscriptions, NEW o \in Nat \ {0}, Lies(Encode(i), o),
         i.chunks # <<>>, NEW n \in 1..Len(i.chunks),
         phase = "body",
         pos = ChunkPos(i, o, n - 1),
         envelope = Partial(o, Said(i, Len(i.fields)), Upto(i.chunks, n - 1)),
         RunOut \/ EndEnvelope \/ ReadChunk
  PROVE  Proceeds(i, o)
<1>1. /\ Lies(Push(i.chunks[n]), pos)
      /\ ChunkPos(i, o, n) = pos + Len(Push(i.chunks[n]))
  BY LayoutOfBody, Zenon
<1>2. pos \in Nat \ {0} /\ Len(script) \in Nat
  <2>1. n - 1 \in 0..Len(i.chunks)
    BY InscriptionTypes
  <2>2. QED
    BY <2>1, LayoutOfBody, LenProperties DEF ScriptIsBytes
<1>3. Upto(i.chunks, n) = Upto(i.chunks, n - 1) \o i.chunks[n]
  BY InscriptionTypes, FlattenPrefixes, Zenon
<1>4. CASE i.chunks[n] \in Pushable
  <2>1. /\ IsPush(pos) /\ Data(pos) = i.chunks[n]
        /\ After(pos) = pos + Len(Push(i.chunks[n]))
        /\ pos <= Len(script) /\ script[pos] \in 1..77
    BY <1>1, <1>2, <1>4, PushIsRead
  <2>2. ReadChunk
    <3>1. ~(pos > Len(script))
      BY ONLY <1>2, <2>1, SMT
    <3>2. ~At(OP_ENDIF)
      BY ONLY <2>1, Opcodes, Zenon DEF At
    <3>3. QED
      BY <3>1, <3>2 DEF RunOut, EndEnvelope
  <2>3. /\ envelope' = [envelope EXCEPT !.body = @ \o Data(pos)]
        /\ pos' = After(pos) /\ phase' = phase
    BY <2>1, <2>2, Zenon DEF ReadChunk
  <2>4. envelope' = Partial(o, Said(i, Len(i.fields)), Upto(i.chunks, n))
    BY <1>3, <2>1, <2>3, Zenon DEF Partial
  <2>5. pos' = ChunkPos(i, o, n) /\ phase' = "body"
    BY <1>1, <2>1, <2>3, Zenon
  <2>6. n \in 0..Len(i.chunks)
    BY InscriptionTypes
  <2>7. Reading(i, o)'
    BY <2>4, <2>5, <2>6 DEF Reading
  <2>8. QED
    BY <2>5, <2>7 DEF Proceeds
<1>5. CASE i.chunks[n] = <<>> /\ n = Len(i.chunks)
  <2>1. Push(i.chunks[n]) = <<OP_FALSE>>
    BY <1>5, PushOfNothing
  <2>2. script[pos] = OP_FALSE /\ pos <= Len(script)
    BY <1>1, <1>2, <2>1, LiesAt
  <2>3. /\ ChunkPos(i, o, n) = pos + 1
        /\ script[pos + 1] = OP_ENDIF
        /\ o + Len(Encode(i)) = pos + 2
    <3>1. /\ ChunkPos(i, o, n) = pos + 1
      BY <1>1, <2>1
    <3>2. /\ script[ChunkPos(i, o, n)] = OP_ENDIF
          /\ o + Len(Encode(i)) = ChunkPos(i, o, n) + 1
      BY <1>5, LayoutOfBody, Zenon
    <3>3. (pos + 1) + 1 = pos + 2
      BY <1>2
    <3>4. QED
      BY <3>1, <3>2, <3>3, Zenon
  <2>4. ~IsPushOpcode(pos)
    BY <2>2, SMT DEF IsPushOpcode, OP_FALSE
  <2>5. ~IsPush(pos) /\ After(pos) = pos
    BY <2>4, Zenon DEF After, IsPush, HasLength
  <2>6. ReadChunk
    <3>1. ~(pos > Len(script)) /\ ~At(OP_ENDIF)
      BY <1>2, <2>2, Opcodes DEF At
    <3>2. QED
      BY <3>1 DEF RunOut, EndEnvelope
  <2>7. Return(pos) /\ pos' = pos /\ phase' = "scanning"
    BY <2>5, <2>6, Zenon DEF ReadChunk, Return
  <2>8. [fields |-> envelope.fields, body |-> envelope.body] = Meaning(i)
    <3>1. Upto(i.chunks, n - 1) = Upto(i.chunks, n)
      <4>1. Upto(i.chunks, n - 1) \in Seq(Byte)
        <5>1. n - 1 \in 0..Len(i.chunks)
          BY InscriptionTypes
        <5>2. QED
          BY <5>1, InscriptionTypes, FlattenPrefixes, Zenon
      <4>2. QED
        BY <1>3, <1>5, <4>1, ConcatEmptySeq
    <3>2. Upto(i.chunks, n) = FlattenSeq(i.chunks)
      BY <1>5, InscriptionTypes, FlattenPrefixes, Zenon
    <3>3. QED
      BY <3>1, <3>2 DEF Meaning, Partial
  <2>9. \A s \in pos' .. o + Len(Encode(i)) - 1 : ~Starts(s)
    <3>1. pos' .. o + Len(Encode(i)) - 1 = {pos, pos + 1}
      BY <1>2, <2>3, <2>7
    <3>2. ~Starts(pos) /\ ~Starts(pos + 1)
      BY <2>2, <2>3, Opcodes DEF Starts
    <3>3. QED
      BY <3>1, <3>2
  <2>10. pos' <= o + Len(Encode(i))
    BY <1>2, <2>3, <2>7
  <2>11. QED
    BY <2>7, <2>8, <2>9, <2>10 DEF Proceeds, Returned
<1>6. QED
  BY <1>4, <1>5, InscriptionTypes

\* Behind the last chunk.
LEMMA BodyIsRead ==
  ASSUME ScriptIsBytes, Magic \in Pushable,
         NEW i \in Inscriptions, NEW o \in Nat \ {0}, Lies(Encode(i), o),
         i.chunks # <<>>,
         phase = "body",
         pos = ChunkPos(i, o, Len(i.chunks)),
         envelope = Partial(o, Said(i, Len(i.fields)), Upto(i.chunks, Len(i.chunks))),
         RunOut \/ EndEnvelope \/ ReadChunk
  PROVE  Proceeds(i, o)
<1>1. pos \in Nat \ {0} /\ Len(script) \in Nat
  <2>1. Len(i.chunks) \in 0..Len(i.chunks)
    BY InscriptionTypes
  <2>2. QED
    BY <2>1, LayoutOfBody, LenProperties DEF ScriptIsBytes
<1>2. script[pos] = OP_ENDIF /\ pos <= Len(script) /\ o + Len(Encode(i)) = pos + 1
  BY LayoutOfBody, Zenon
<1>3. EndEnvelope
  <2>1. ~(pos > Len(script)) /\ At(OP_ENDIF)
    BY <1>1, <1>2 DEF At
  <2>2. QED
    BY <2>1 DEF RunOut, ReadChunk
<1>4. Return(pos + 1) /\ pos' = pos + 1 /\ phase' = "scanning"
  BY <1>3 DEF EndEnvelope, Return
<1>5. [fields |-> envelope.fields, body |-> envelope.body] = Meaning(i)
  <2>1. Upto(i.chunks, Len(i.chunks)) = FlattenSeq(i.chunks)
    BY InscriptionTypes, FlattenPrefixes, Zenon
  <2>2. QED
    BY <2>1 DEF Meaning, Partial
<1>6. pos' .. o + Len(Encode(i)) - 1 = {} /\ pos' <= o + Len(Encode(i))
  BY <1>1, <1>2, <1>4
<1>7. Returned(i, o)
  BY <1>4, <1>5, <1>6 DEF Returned
<1>8. QED
  BY <1>4, <1>7 DEF Proceeds

\* An attempt that has begun at an inscription reads all of it.
LEMMA ReadingProceeds ==
  ASSUME ScriptIsBytes, Magic \in Pushable,
         NEW i \in Inscriptions, NEW o \in Nat \ {0}, Lies(Encode(i), o),
         Trying, Reading(i, o), Next
  PROVE  Proceeds(i, o)
<1>1. CASE phase = "magic"
  <2>1. ReadMagic
    BY <1>1 DEF Next, FindStart, Finish, RunOut, EndEnvelope, BeginBody, ReadField, ReadChunk
  <2>2. QED
    BY <1>1, <2>1, MagicIsRead
<1>2. CASE phase = "fields"
  <2>1. RunOut \/ EndEnvelope \/ BeginBody \/ ReadField
    BY <1>2 DEF Next, FindStart, Finish, ReadMagic, ReadChunk
  <2>2. PICK n \in 0..Len(i.fields) :
          pos = FieldPos(i, o, n) /\ envelope = Partial(o, Said(i, n), <<>>)
    BY <1>2 DEF Reading
  <2>3. CASE n = Len(i.fields)
    BY <1>2, <2>1, <2>2, <2>3, FieldsAreRead
  <2>4. CASE n # Len(i.fields)
    <3>1. n + 1 \in 1..Len(i.fields) /\ (n + 1) - 1 = n /\ n + 1 \in 0..Len(i.fields)
      BY <2>4, InscriptionTypes
    <3>2. PICK m \in 1..Len(i.fields) : m - 1 = n /\ m \in 0..Len(i.fields)
      BY <3>1
    <3>3. /\ phase' = "fields"
          /\ pos' = FieldPos(i, o, m) /\ envelope' = Partial(o, Said(i, m), <<>>)
      BY <1>2, <2>1, <2>2, <3>2, FieldIsRead
    <3>4. Reading(i, o)'
      BY <3>2, <3>3 DEF Reading
    <3>5. QED
      BY <3>3, <3>4 DEF Proceeds
  <2>5. QED
    BY <2>3, <2>4
<1>3. CASE phase = "body"
  <2>1. RunOut \/ EndEnvelope \/ ReadChunk
    BY <1>3 DEF Next, FindStart, Finish, ReadMagic, BeginBody, ReadField
  <2>2. PICK n \in 0..Len(i.chunks) :
          pos = ChunkPos(i, o, n)
          /\ envelope = Partial(o, Said(i, Len(i.fields)), Upto(i.chunks, n))
    BY <1>3 DEF Reading
  <2>3. i.chunks # <<>>
    BY <1>3 DEF Reading
  <2>4. CASE n = Len(i.chunks)
    BY <1>3, <2>1, <2>2, <2>3, <2>4, BodyIsRead
  <2>5. CASE n # Len(i.chunks)
    <3>1. n + 1 \in 1..Len(i.chunks) /\ (n + 1) - 1 = n
      BY <2>5, InscriptionTypes
    <3>2. PICK m \in 1..Len(i.chunks) : m - 1 = n
      BY <3>1
    <3>3. QED
      BY <1>3, <2>1, <2>2, <2>3, <3>2, ChunkIsRead
  <2>6. QED
    BY <2>4, <2>5
<1>4. QED
  BY <1>1, <1>2, <1>3 DEF Trying

(***************************************************************************)
(* The inductive invariant: an attempt at an inscription has read what was *)
(* written so far, what lies behind the parser is extracted, and no attempt begins *)
(* inside an inscription.  What an attempt at other code does to it is the *)
(* hypothesis CodeEndsItsAttempts.                                         *)
(***************************************************************************)
Extracted(k) ==
  \E n \in DOMAIN envelopes :
    /\ envelopes[n].start = Offset(k)
    /\ [fields |-> envelopes[n].fields, body |-> envelopes[n].body] = Meaning(parts[k].holds)

Inside(s, k) == Offset(k) < s /\ s < End(k)

\* An attempt that begins at an inscription has read it as it was written.
AttemptsRead ==
  \A k \in Holders : Trying /\ envelope.start = Offset(k) => Reading(parts[k].holds, Offset(k))

\* What the parser has passed is extracted.
NoneMissed ==
  \A k \in Holders :
    (IF Trying THEN envelope.start > Offset(k) ELSE pos > Offset(k)) => Extracted(k)

\* Nothing begins inside an inscription; the scan goes on inside one only where
\* nothing can begin before its end.
NoneInside ==
  \A k \in Holders :
    /\ \A n \in DOMAIN envelopes : ~Inside(envelopes[n].start, k)
    /\ Trying => ~Inside(envelope.start, k)
    /\ phase = "scanning" /\ Inside(pos, k) => \A s \in pos .. End(k) - 1 : ~Starts(s)

AllPassed == phase = "done" => \A k \in Holders : pos > Offset(k)

WInv == AttemptsRead /\ NoneMissed /\ NoneInside /\ AllPassed

-----------------------------------------------------------------------------
LEMMA HoldersApart ==
  ASSUME Laid, NEW j \in Holders, NEW k \in Holders, Offset(j) < Offset(k)
  PROVE  End(j) <= Offset(k)
<1>1. /\ j \in DOMAIN parts /\ k \in DOMAIN parts /\ j \in Nat /\ k \in Nat
      /\ Offset(j) \in Nat /\ Offset(k) \in Nat /\ Len(Encode(parts[k].holds)) \in Nat
      /\ End(k) = Offset(k) + Len(Encode(parts[k].holds))
  BY HolderLies
<1>2. CASE j < k
  BY <1>1, <1>2, Zenon DEF Laid
<1>3. CASE j = k
  BY <1>1, <1>3
<1>4. CASE k < j
  <2>1. End(k) <= Offset(j)
    BY <1>1, <1>4, Zenon DEF Laid
  <2>2. FALSE
    BY ONLY <1>1, <2>1, Offset(j) < Offset(k), SMT
  <2>3. QED
    BY <2>2
<1>5. QED
  BY <1>1, <1>2, <1>3, <1>4

LEMMA HolderStarts ==
  ASSUME Laid, NEW k \in Holders
  PROVE  Starts(Offset(k)) /\ Offset(k) \in Nat /\ Offset(k) < Len(script)
<1>1. ScriptIsBytes /\ Magic \in Pushable
  BY WritingsAssumption DEF Laid, ScriptIsBytes
<1>2. Starts(Offset(k))
  BY <1>1, HolderLies, LayoutOfFields, Zenon
<1>3. QED
  BY <1>2, HolderLies DEF Starts

\* The kinds of turn of an attempt: it goes on, it is given up, it returns.
Goes ==
  Trying' /\ envelope'.start = envelope.start /\ envelopes' = envelopes

Stops ==
  phase' = "scanning" /\ envelope' = envelope /\ envelopes' = envelopes

Ends ==
  /\ phase' = "scanning" /\ envelope' = envelope
  /\ \E p : envelopes' = Append(envelopes, [envelope EXCEPT !.end = p])

LEMMA TurnOfAttempt ==
  ASSUME IInv, Trying, Next
  PROVE  /\ script' = script
         /\ pos \in Nat /\ pos' \in Nat /\ envelope.start \in Nat
         /\ envelope.start < pos /\ pos <= pos'
         /\ Goes \/ Stops \/ Ends
<1>1. IInv' /\ Advance
  BY NextIsRight
<1>2. /\ pos \in Nat /\ pos' \in Nat /\ envelope \in Record /\ Len(script) \in Nat
  BY <1>1, LenProperties DEF IInv, TypeOK
<1>3. pos <= pos'
  BY <1>1, <1>2 DEF Advance, Trying
<1>4. envelope.start \in Nat /\ envelope.start < pos
  <2>1. PICK s \in Nat : s = envelope.start /\ (IF phase = "magic" THEN pos = s + 2 ELSE s < pos)
    BY DEF IInv, AttemptIsGenuine, Trying
  <2>2. QED
    BY <1>2, <2>1
<1> SUFFICES script' = script /\ (Goes \/ Stops \/ Ends)
  BY <1>2, <1>3, <1>4
<1>5. \A p : GiveUp(p) => script' = script /\ Stops
  BY DEF GiveUp, Stops
<1>6. \A p : Return(p) => script' = script /\ Ends
  BY DEF Return, Ends
<1>7. \A f, b : /\ [envelope EXCEPT !.fields = f].start = envelope.start
                /\ [envelope EXCEPT !.body = b].start = envelope.start
  BY <1>2 DEF Record
<1>8. CASE ReadMagic
  BY <1>5, <1>8 DEF ReadMagic, Goes, Trying
<1>9. CASE RunOut
  BY <1>5, <1>9 DEF RunOut
<1>10. CASE EndEnvelope
  BY <1>6, <1>10 DEF EndEnvelope
<1>11. CASE BeginBody
  BY <1>11 DEF BeginBody, Goes, Trying
<1>12. CASE ReadField
  <2>1. CASE IsPush(pos) /\ IsPush(After(pos))
    <3>1. /\ \/ envelope' = [envelope EXCEPT !.fields[Data(pos)[1]] =
                                               Value(Data(pos)[1], Data(After(pos)))]
             \/ envelope' = envelope
          /\ UNCHANGED <<script, phase, envelopes>>
      BY <1>12, <2>1, Zenon DEF ReadField
    <3>2. envelope'.start = envelope.start
      BY <1>2, <3>1 DEF Record
    <3>3. phase \in {"magic", "fields", "body"}
      BY DEF Trying
    <3>4. QED
      BY <3>1, <3>2, <3>3 DEF Goes, Trying
  <2>2. CASE ~(IsPush(pos) /\ IsPush(After(pos)))
    BY <1>5, <1>12, <2>2, Zenon DEF ReadField
  <2>3. QED
    BY <2>1, <2>2
<1>13. CASE ReadChunk
  <2>1. CASE IsPush(pos)
    <3>1. /\ envelope' = [envelope EXCEPT !.body = @ \o Data(pos)]
          /\ UNCHANGED <<script, phase, envelopes>>
      BY <1>13, <2>1, Zenon DEF ReadChunk
    <3>2. envelope'.start = envelope.start
      BY <1>2, <3>1 DEF Record
    <3>3. QED
      BY <3>1, <3>2 DEF Goes, Trying
  <2>2. CASE ~IsPush(pos)
    BY <1>6, <1>13, <2>2, Zenon DEF ReadChunk
  <2>3. QED
    BY <2>1, <2>2
<1>14. ~FindStart /\ ~Finish
  BY DEF FindStart, Finish, Trying
<1>15. QED
  BY <1>8, <1>9, <1>10, <1>11, <1>12, <1>13, <1>14, Zenon DEF Next

\* What is extracted stays so; what is returned is the attempt.
LEMMA EnvelopesGrow ==
  ASSUME TypeOK, NEW e \in Record, envelopes' = Append(envelopes, e)
  PROVE  /\ \A n \in DOMAIN envelopes : n \in DOMAIN envelopes' /\ envelopes'[n] = envelopes[n]
         /\ \E n \in DOMAIN envelopes' : envelopes'[n] = e
         /\ \A n \in DOMAIN envelopes' :
              envelopes'[n] = e \/ (n \in DOMAIN envelopes /\ envelopes'[n] = envelopes[n])
<1>1. PICK c \in Nat : c = Len(envelopes)
  BY LenProperties DEF TypeOK
<1>2. /\ DOMAIN envelopes = 1..c /\ DOMAIN envelopes' = 1..(c+1)
      /\ \A n \in 1..c : envelopes'[n] = envelopes[n]
      /\ envelopes'[c+1] = e
  BY <1>1, AppendProperties, LenProperties DEF TypeOK
<1>3. \A n \in 1..(c+1) : n = c + 1 \/ n \in 1..c
  BY <1>1
<1>4. c + 1 \in 1..(c+1) /\ \A n \in 1..c : n \in 1..(c+1)
  BY <1>1
<1>5. QED
  BY <1>2, <1>3, <1>4, Zenon

\* How the envelope that is returned looks.
LEMMA ReturnedRecord ==
  ASSUME TypeOK, TypeOK', NEW p, envelopes' = Append(envelopes, [envelope EXCEPT !.end = p])
  PROVE  \E e \in Record : /\ envelopes' = Append(envelopes, e)
                           /\ e.start = envelope.start
                           /\ e.fields = envelope.fields /\ e.body = envelope.body
<1> DEFINE e == [envelope EXCEPT !.end = p]
<1>1. PICK c \in Nat : c = Len(envelopes)
  BY LenProperties DEF TypeOK
<1>2. envelopes' = Append(envelopes, e) /\ envelopes \in Seq(Record) /\ envelopes' \in Seq(Record)
  BY DEF TypeOK
<1>3. e.start = envelope.start /\ e.fields = envelope.fields /\ e.body = envelope.body
  BY DEF TypeOK, Record
<1>4. e \in Record
  <2> HIDE DEF e
  <2>1. Len(envelopes') = c + 1 /\ envelopes'[c + 1] = e
    BY <1>1, <1>2
  <2>2. c + 1 \in 1..Len(envelopes')
    BY <1>1, <2>1
  <2>3. QED
    BY <1>2, <2>1, <2>2, ElementOfSeq
<1>5. QED
  BY <1>2, <1>3, <1>4

LEMMA ExtractedStays ==
  ASSUME UNCHANGED <<script, parts>>, NEW k, Extracted(k),
         \A n \in DOMAIN envelopes : n \in DOMAIN envelopes' /\ envelopes'[n] = envelopes[n]
  PROVE  Extracted(k)'
<1>1. Offset(k)' = Offset(k)
  BY LaidStays
<1>2. PICK n \in DOMAIN envelopes :
        /\ envelopes[n].start = Offset(k)
        /\ [fields |-> envelopes[n].fields, body |-> envelopes[n].body] = Meaning(parts[k].holds)
  BY DEF Extracted
<1>3. /\ n \in DOMAIN envelopes' /\ envelopes'[n].start = Offset(k)'
      /\ [fields |-> envelopes'[n].fields, body |-> envelopes'[n].body] = Meaning(parts'[k].holds)
  BY <1>1, <1>2, Zenon
<1>4. QED
  BY <1>3, Zenon DEF Extracted

LEMMA LaidScript == Laid => ScriptIsBytes /\ Magic \in Pushable
BY WritingsAssumption DEF Laid, ScriptIsBytes

LEMMA PlacesAreNumbers ==
  ASSUME Laid, NEW k \in Holders
  PROVE  Offset(k) \in Nat /\ End(k) \in Nat
BY HolderLies

LEMMA StartsStay == ASSUME script' = script PROVE \A s : Starts(s)' <=> Starts(s)
BY DEF Starts

\* The scan finds the next inscription, or something before it.
LEMMA ScanMissesNothing ==
  ASSUME Laid, TypeOK, NEW s \in Nat, \A q \in pos..(s-1) : ~Starts(q),
         NEW k \in Holders, Offset(k) < s
  PROVE  Offset(k) < pos
<1>1. Starts(Offset(k)) /\ Offset(k) \in Nat
  BY HolderStarts
<1>2. pos \in Nat
  BY DEF TypeOK
<1>3. Offset(k) \notin pos..(s-1)
  BY <1>1
<1>4. QED
  BY ONLY <1>1, <1>2, <1>3, Offset(k) < s, s \in Nat, SMT

LEMMA FindStartKeepsWInv ==
  ASSUME IInv, IInv', Laid, WInv, FindStart, parts' = parts
  PROVE  WInv'
<1>1. PICK s \in pos..Len(script) :
        /\ Starts(s) /\ \A q \in pos..(s-1) : ~Starts(q)
        /\ pos' = s + 2
        /\ envelope' = Blank(s)
  BY DEF FindStart
<1>2. phase = "scanning" /\ phase' = "magic" /\ script' = script /\ envelopes' = envelopes
  BY DEF FindStart
<1>3. /\ Holders' = Holders /\ \A k : Offset(k)' = Offset(k) /\ End(k)' = End(k)
  BY <1>2, LaidStays
<1>4. TypeOK /\ pos \in Nat /\ Len(script) \in Nat
  BY LenProperties DEF IInv, TypeOK
<1>5. s \in Nat /\ pos <= s
  BY <1>4
<1>6. envelope'.start = s
  BY <1>1 DEF Blank
<1>7. \A k \in Holders : Offset(k) < s => Offset(k) < pos
  BY <1>1, <1>4, <1>5, ScanMissesNothing
<1>8. AttemptsRead'
  <2> SUFFICES ASSUME NEW k \in Holders, s = Offset(k)
               PROVE  Reading(parts[k].holds, Offset(k))'
    BY <1>3, <1>6 DEF AttemptsRead
  <2>1. pos' = Offset(k)' + 2 /\ envelope' = Blank(Offset(k)')
    BY <1>1, <1>3
  <2>2. QED
    BY <1>2, <2>1 DEF Reading
<1>9. NoneMissed'
  <2> SUFFICES ASSUME NEW k \in Holders, s > Offset(k)
               PROVE  Extracted(k)'
    BY <1>2, <1>3, <1>6 DEF NoneMissed, Trying
  <2>1. Offset(k) \in Nat
    BY PlacesAreNumbers
  <2>2. Offset(k) < pos
    BY <1>5, <1>7, <2>1
  <2>3. Extracted(k)
    BY <1>2, <1>4, <2>1, <2>2 DEF WInv, NoneMissed, Trying
  <2>4. \A n \in DOMAIN envelopes : n \in DOMAIN envelopes' /\ envelopes'[n] = envelopes[n]
    BY <1>2
  <2>5. QED
    BY <1>2, <2>3, <2>4, ExtractedStays
<1>10. NoneInside'
  <2>1. ASSUME NEW k \in Holders, Offset(k) < s, s < End(k)
        PROVE  FALSE
    <3>1. Offset(k) < pos /\ Offset(k) \in Nat /\ End(k) \in Nat
      BY <1>7, <2>1, PlacesAreNumbers
    <3>2. pos < End(k) /\ s \in pos .. End(k) - 1
      BY ONLY <1>4, <1>5, <2>1, <3>1, SMT
    <3>3. Inside(pos, k)
      BY <3>1, <3>2 DEF Inside
    <3>4. ~Starts(s)
      BY <1>2, <3>2, <3>3 DEF WInv, NoneInside
    <3>5. QED
      BY <1>1, <3>4
  <2>2. \A k \in Holders : \A n \in DOMAIN envelopes : ~Inside(envelopes[n].start, k)
    BY DEF WInv, NoneInside
  <2>3. QED
    BY <1>2, <1>3, <1>6, <2>1, <2>2 DEF NoneInside, Inside
<1>11. AllPassed'
  BY <1>2 DEF AllPassed
<1>12. QED
  BY <1>8, <1>9, <1>10, <1>11 DEF WInv

LEMMA FinishKeepsWInv ==
  ASSUME IInv, IInv', Laid, WInv, Finish, parts' = parts
  PROVE  WInv'
<1>1. /\ phase = "scanning" /\ phase' = "done" /\ pos' = pos
      /\ script' = script /\ envelopes' = envelopes /\ envelope' = envelope
      /\ \A s \in pos..Len(script) : ~Starts(s)
  BY DEF Finish
<1>2. /\ Holders' = Holders /\ \A k : Offset(k)' = Offset(k) /\ End(k)' = End(k)
  BY <1>1, LaidStays
<1>3. pos \in Nat /\ Len(script) \in Nat
  BY LenProperties DEF IInv, TypeOK
<1>4. \A k \in Holders : pos > Offset(k)
  <2> SUFFICES ASSUME NEW k \in Holders
               PROVE  pos > Offset(k)
    OBVIOUS
  <2>1. Starts(Offset(k)) /\ Offset(k) \in Nat /\ Offset(k) < Len(script)
    BY HolderStarts
  <2>2. Offset(k) \notin pos..Len(script)
    BY <1>1, <2>1
  <2>3. QED
    BY ONLY <1>3, <2>1, <2>2, SMT
<1>5. AllPassed'
  BY <1>1, <1>2, <1>4 DEF AllPassed
<1>6. NoneMissed'
  <2> SUFFICES ASSUME NEW k \in Holders
               PROVE  Extracted(k)'
    BY <1>2 DEF NoneMissed
  <2>1. Extracted(k)
    BY <1>1, <1>4 DEF WInv, NoneMissed, Trying
  <2>2. QED
    BY <1>1, <2>1, ExtractedStays
<1>7. NoneInside'
  BY <1>1, <1>2 DEF WInv, NoneInside, Trying, Inside
<1>8. AttemptsRead'
  BY <1>1 DEF AttemptsRead, Trying
<1>9. QED
  BY <1>5, <1>6, <1>7, <1>8 DEF WInv

\* An attempt at inscription k.
LEMMA AttemptProceeds ==
  ASSUME IInv, Laid, WInv, Trying, Next, NEW k \in Holders, envelope.start = Offset(k),
         NEW CONSTANT i, NEW CONSTANT o, i = parts[k].holds, o = Offset(k)
  PROVE  Proceeds(i, o)
<1>1. Reading(i, o)
  BY DEF WInv, AttemptsRead
<1>2. ScriptIsBytes /\ Magic \in Pushable
  BY LaidScript
<1>3. i \in Inscriptions /\ o \in Nat \ {0} /\ Lies(Encode(i), o)
  BY HolderLies
<1>4. QED
  BY <1>1, <1>2, <1>3, ReadingProceeds

LEMMA GoesKeepsWInv ==
  ASSUME IInv, IInv', Laid, WInv, Trying, Next, Goes, parts' = parts
  PROVE  WInv'
<1>1. /\ script' = script /\ envelopes' = envelopes
      /\ Trying' /\ envelope'.start = envelope.start
  BY TurnOfAttempt DEF Goes
<1>2. /\ Holders' = Holders /\ \A k : Offset(k)' = Offset(k) /\ End(k)' = End(k)
  BY <1>1, LaidStays
<1>3. phase' # "scanning" /\ phase' # "done"
  BY <1>1 DEF Trying
<1>4. AttemptsRead'
  <2> SUFFICES ASSUME NEW k \in Holders, envelope.start = Offset(k)
               PROVE  Reading(parts[k].holds, Offset(k))'
    BY <1>1, <1>2 DEF AttemptsRead
  <2>1. PICK i, o : i = parts[k].holds /\ o = Offset(k)
    OBVIOUS
  <2>2. Proceeds(i, o)
    BY <2>1, AttemptProceeds
  <2>3. Reading(i, o)'
    BY <1>3, <2>2 DEF Proceeds, Returned
  <2>4. parts'[k].holds = i /\ Offset(k)' = o
    BY <1>2, <2>1
  <2>5. QED
    BY <2>3, <2>4 DEF Reading
<1>5. NoneMissed'
  <2> SUFFICES ASSUME NEW k \in Holders, envelope.start > Offset(k)
               PROVE  Extracted(k)'
    BY <1>1, <1>2 DEF NoneMissed
  <2>1. Extracted(k)
    BY DEF WInv, NoneMissed
  <2>2. QED
    BY <1>1, <2>1, ExtractedStays
<1>6. NoneInside'
  BY <1>1, <1>2, <1>3 DEF WInv, NoneInside, Inside
<1>7. AllPassed'
  BY <1>3 DEF AllPassed
<1>8. QED
  BY <1>4, <1>5, <1>6, <1>7 DEF WInv

LEMMA StopsKeepsWInv ==
  ASSUME IInv, IInv', Laid, WInv, CodeEndsItsAttempts', Trying, Next, Stops, parts' = parts
  PROVE  WInv'
<1>1. /\ script' = script /\ envelopes' = envelopes /\ envelope' = envelope
      /\ phase' = "scanning"
      /\ pos \in Nat /\ pos' \in Nat /\ envelope.start \in Nat
      /\ envelope.start < pos /\ pos <= pos'
  BY TurnOfAttempt DEF Stops
<1>2. /\ Holders' = Holders /\ \A k : Offset(k)' = Offset(k) /\ End(k)' = End(k)
  BY <1>1, LaidStays
<1>3. \A j \in Holders : envelope.start # Offset(j)
  <2> SUFFICES ASSUME NEW j \in Holders, envelope.start = Offset(j)
               PROVE  FALSE
    OBVIOUS
  <2>1. PICK i, o : i = parts[j].holds /\ o = Offset(j)
    OBVIOUS
  <2>2. PICK p : Return(p)
    <3>1. Proceeds(i, o)
      BY <2>1, AttemptProceeds
    <3>2. QED
      BY <1>1, <3>1 DEF Proceeds
  <2>3. envelopes \in Seq(Record) /\ envelopes' = Append(envelopes, [envelope EXCEPT !.end = p])
    BY <2>2 DEF Return, IInv, TypeOK
  <2>4. Len(envelopes') = Len(envelopes) + 1 /\ Len(envelopes) \in Nat
    BY <2>3
  <2>5. QED
    BY <1>1, <2>4
<1>4. \A k \in Holders : envelope.start < Offset(k) => pos' <= Offset(k)
  BY <1>1, <1>2, <1>3 DEF CodeEndsItsAttempts
<1>5. \A k \in Holders : pos' > Offset(k) => envelope.start > Offset(k)
  <2> SUFFICES ASSUME NEW k \in Holders, pos' > Offset(k)
               PROVE  envelope.start > Offset(k)
    OBVIOUS
  <2>1. Offset(k) \in Nat /\ envelope.start # Offset(k)
        /\ (envelope.start < Offset(k) => pos' <= Offset(k))
    BY <1>3, <1>4, PlacesAreNumbers
  <2>2. QED
    BY ONLY <1>1, <2>1, pos' > Offset(k), SMT
<1>6. NoneMissed'
  <2> SUFFICES ASSUME NEW k \in Holders, pos' > Offset(k)
               PROVE  Extracted(k)'
    BY <1>1, <1>2 DEF NoneMissed, Trying
  <2>1. Extracted(k)
    BY <1>5 DEF WInv, NoneMissed
  <2>2. QED
    BY <1>1, <2>1, ExtractedStays
<1>7. \A k \in Holders : ~Inside(pos', k)
  <2> SUFFICES ASSUME NEW k \in Holders, Offset(k) < pos', pos' < End(k)
               PROVE  FALSE
    BY DEF Inside
  <2>1. Offset(k) \in Nat /\ End(k) \in Nat
    BY PlacesAreNumbers
  <2>2. pos' > Offset(k)
    BY ONLY <1>1, <2>1, Offset(k) < pos', SMT
  <2>3. envelope.start > Offset(k)
    BY <1>5, <2>2
  <2>4. Offset(k) < envelope.start /\ envelope.start < End(k)
    BY ONLY <1>1, <2>1, <2>3, pos' < End(k), SMT
  <2>5. QED
    BY <2>4 DEF WInv, NoneInside, Inside
<1>8. NoneInside'
  <2>1. \A k \in Holders : \A n \in DOMAIN envelopes : ~Inside(envelopes[n].start, k)
    BY DEF WInv, NoneInside
  <2>2. \A s, k : Inside(s, k)' <=> Offset(k) < s' /\ s' < End(k)
    BY <1>2 DEF Inside
  <2>3. ~Trying'
    BY <1>1 DEF Trying
  <2>4. QED
    BY <1>1, <1>2, <1>7, <2>1, <2>3 DEF NoneInside, Inside
<1>9. AttemptsRead' /\ AllPassed'
  BY <1>1 DEF AttemptsRead, AllPassed, Trying
<1>10. QED
  BY <1>6, <1>8, <1>9 DEF WInv

LEMMA EndsKeepsWInv ==
  ASSUME IInv, IInv', Laid, WInv, CodeEndsItsAttempts', Trying, Next, Ends, parts' = parts
  PROVE  WInv'
<1>1. /\ script' = script /\ envelope' = envelope
      /\ phase' = "scanning"
      /\ pos \in Nat /\ pos' \in Nat /\ envelope.start \in Nat
      /\ envelope.start < pos /\ pos <= pos'
  BY TurnOfAttempt DEF Ends
<1>2. /\ Holders' = Holders /\ \A k : Offset(k)' = Offset(k) /\ End(k)' = End(k)
  BY <1>1, LaidStays
<1>3. PICK e \in Record : /\ envelopes' = Append(envelopes, e)
                          /\ e.start = envelope.start
                          /\ e.fields = envelope.fields /\ e.body = envelope.body
  <2>1. PICK p : envelopes' = Append(envelopes, [envelope EXCEPT !.end = p])
    BY DEF Ends
  <2>2. QED
    BY <2>1, ReturnedRecord DEF IInv
<1>4. /\ \A n \in DOMAIN envelopes : n \in DOMAIN envelopes' /\ envelopes'[n] = envelopes[n]
      /\ \E n \in DOMAIN envelopes' : envelopes'[n] = e
      /\ \A n \in DOMAIN envelopes' :
           envelopes'[n] = e \/ (n \in DOMAIN envelopes /\ envelopes'[n] = envelopes[n])
  BY <1>3, EnvelopesGrow DEF IInv
<1>5. ASSUME NEW k \in Holders, envelope.start = Offset(k)
      PROVE  /\ Extracted(k)'
             /\ pos' <= End(k)
             /\ \A s \in pos' .. End(k) - 1 : ~Starts(s)
  <2>1. PICK i, o : i = parts[k].holds /\ o = Offset(k)
    OBVIOUS
  <2>2. Returned(i, o)
    <3>1. Proceeds(i, o)
      BY <1>5, <2>1, AttemptProceeds
    <3>2. QED
      BY <1>1, <3>1 DEF Proceeds
  <2>3. End(k) = o + Len(Encode(i))
    BY <2>1, HolderLies
  <2>4. Extracted(k)'
    <3>1. PICK n \in DOMAIN envelopes' : envelopes'[n] = e
      BY <1>4
    <3>2. /\ envelopes'[n].start = Offset(k)'
          /\ [fields |-> envelopes'[n].fields, body |-> envelopes'[n].body]
               = Meaning(parts'[k].holds)
      BY <1>2, <1>3, <1>5, <2>1, <2>2, <3>1 DEF Returned
    <3>3. QED
      BY <3>1, <3>2, Zenon DEF Extracted
  <2>5. pos' <= o + Len(Encode(i)) /\ \A s \in pos' .. o + Len(Encode(i)) - 1 : ~Starts(s)
    BY <2>2, Zenon DEF Returned
  <2>6. o \in Nat /\ Len(Encode(i)) \in Nat
    BY <2>1, HolderLies
  <2>7. pos' <= End(k) /\ \A s \in pos' .. End(k) - 1 : ~Starts(s)
    BY ONLY <1>1, <2>3, <2>5, <2>6, SMT
  <2>8. QED
    BY ONLY <2>4, <2>7, Zenon
<1>6. ASSUME NEW k \in Holders, envelope.start < Offset(k)
      PROVE  pos' <= Offset(k)
  <2>1. CASE \E j \in Holders : envelope.start = Offset(j)
    <3>1. PICK j \in Holders : envelope.start = Offset(j)
      BY <2>1
    <3>2. End(j) <= Offset(k)
      BY <1>6, <3>1, HoldersApart
    <3>3. pos' <= End(j)
      BY <1>5, <3>1
    <3>4. End(j) \in Nat /\ Offset(k) \in Nat
      BY PlacesAreNumbers
    <3>5. QED
      BY ONLY <1>1, <3>2, <3>3, <3>4, SMT
  <2>2. CASE \A j \in Holders : envelope.start # Offset(j)
    BY <1>1, <1>2, <1>6, <2>2 DEF CodeEndsItsAttempts
  <2>3. QED
    BY <2>1, <2>2
<1>7. NoneMissed'
  <2> SUFFICES ASSUME NEW k \in Holders, pos' > Offset(k)
               PROVE  Extracted(k)'
    BY <1>1, <1>2 DEF NoneMissed, Trying
  <2>1. Offset(k) \in Nat /\ (envelope.start < Offset(k) => pos' <= Offset(k))
    BY <1>6, PlacesAreNumbers
  <2>2. envelope.start > Offset(k) \/ envelope.start = Offset(k)
    BY ONLY <1>1, <2>1, pos' > Offset(k), SMT
  <2>3. CASE envelope.start > Offset(k)
    <3>1. Extracted(k)
      BY <2>3 DEF WInv, NoneMissed
    <3>2. QED
      BY <1>1, <1>4, <3>1, ExtractedStays
  <2>4. CASE envelope.start = Offset(k)
    BY <1>5, <2>4
  <2>5. QED
    BY <2>2, <2>3, <2>4
<1>8. ASSUME NEW k \in Holders, Offset(k) < pos', pos' < End(k)
      PROVE  \A s \in pos' .. End(k) - 1 : ~Starts(s)
  <2>1. /\ Offset(k) \in Nat /\ End(k) \in Nat
        /\ (envelope.start < Offset(k) => pos' <= Offset(k))
    BY <1>6, PlacesAreNumbers
  <2>2. \/ envelope.start = Offset(k)
        \/ Offset(k) < envelope.start /\ envelope.start < End(k)
    BY ONLY <1>1, <1>8, <2>1, SMT
  <2>3. ~(Offset(k) < envelope.start /\ envelope.start < End(k))
    BY DEF WInv, NoneInside, Inside
  <2>4. QED
    BY <1>5, <2>2, <2>3
<1>9. NoneInside'
  <2>1. \A k \in Holders : /\ \A n \in DOMAIN envelopes : ~Inside(envelopes[n].start, k)
                           /\ ~Inside(envelope.start, k)
    BY DEF WInv, NoneInside
  <2>2. \A k \in Holders : \A n \in DOMAIN envelopes' : ~Inside(envelopes'[n].start, k)
    BY <1>3, <1>4, <2>1
  <2>3. ~Trying'
    BY <1>1 DEF Trying
  <2>4. \A s : Starts(s)' <=> Starts(s)
    BY <1>1, StartsStay
  <2>5. QED
    BY <1>2, <1>8, <2>2, <2>3, <2>4 DEF NoneInside, Inside
<1>10. AttemptsRead' /\ AllPassed'
  BY <1>1 DEF AttemptsRead, AllPassed, Trying
<1>11. QED
  BY <1>7, <1>9, <1>10 DEF WInv

LEMMA NextKeepsWInv ==
  ASSUME IInv, Laid, WInv, CodeEndsItsAttempts', Next, parts' = parts
  PROVE  WInv'
<1>1. IInv'
  BY NextIsRight
<1>2. CASE Trying
  BY <1>1, <1>2, TurnOfAttempt, GoesKeepsWInv, StopsKeepsWInv, EndsKeepsWInv
<1>3. CASE ~Trying
  <2>1. FindStart \/ Finish
    BY <1>3 DEF Trying, Next, ReadMagic, RunOut, EndEnvelope, BeginBody, ReadField, ReadChunk
  <2>2. QED
    BY <1>1, <2>1, FindStartKeepsWInv, FinishKeepsWInv
<1>4. QED
  BY <1>2, <1>3

-----------------------------------------------------------------------------
LEMMA WrittenInitIsRight == ASSUME WrittenInit PROVE IInv /\ Laid /\ WInv
<1>1. PICK t \in Seq(Byte) : script = Bytes(parts) \o t
  BY WritingsAssumption DEF WrittenInit
<1>2. parts \in Seq(Part)
  BY WritingsAssumption DEF WrittenInit
<1>3. Laid
  BY <1>1, <1>2, PartsAreLaid
<1>4. IInv
  BY <1>3, BeginIsRight DEF Laid, WrittenInit
<1>5. pos = 1 /\ phase = "scanning" /\ envelopes = <<>>
  BY DEF WrittenInit, Begin
<1>6. \A k \in Holders : ~(pos > Offset(k)) /\ ~(Offset(k) < pos)
  BY <1>3, <1>5, HolderLies
<1>7. AttemptsRead /\ NoneMissed /\ AllPassed
  BY <1>5, <1>6 DEF AttemptsRead, NoneMissed, AllPassed, Trying
<1>8. NoneInside
  BY <1>5, <1>6 DEF NoneInside, Inside, Trying
<1>9. QED
  BY <1>3, <1>4, <1>7, <1>8 DEF WInv

LEMMA StutterKeepsWInv ==
  ASSUME WInv, UNCHANGED <<parseVars, parts>>
  PROVE  WInv'
<1>1. UNCHANGED <<script, pos, phase, envelope, envelopes, parts>>
  BY DEF parseVars
<1>2. /\ Holders' = Holders /\ \A k : Offset(k)' = Offset(k) /\ End(k)' = End(k)
  BY <1>1, LaidStays
<1>3. \A k : Extracted(k) => Extracted(k)'
  BY <1>1, ExtractedStays
<1>4. \A k : Reading(parts[k].holds, Offset(k)) => Reading(parts[k].holds, Offset(k))'
  BY <1>1, <1>2 DEF Reading
<1>5. AttemptsRead'
  BY <1>1, <1>2, <1>4 DEF WInv, AttemptsRead, Trying
<1>6. NoneMissed' /\ AllPassed'
  BY <1>1, <1>2, <1>3 DEF WInv, NoneMissed, AllPassed, Trying
<1>7. NoneInside'
  BY <1>1, <1>2, StartsStay DEF WInv, NoneInside, Inside, Trying
<1>8. QED
  BY <1>5, <1>6, <1>7 DEF WInv

LEMMA WInvIsEnough == ASSUME IInv, Laid, WInv PROVE WrittenIsRead
<1>1. EveryInscriptionIsExtracted
  <2> SUFFICES ASSUME phase = "done", NEW k \in Holders
               PROVE  Extracted(k)
    BY DEF EveryInscriptionIsExtracted, Extracted
  <2>1. ~Trying /\ pos > Offset(k)
    BY DEF WInv, AllPassed, Trying
  <2>2. QED
    BY <2>1 DEF WInv, NoneMissed
<1>2. ASSUME NEW k \in Holders, NEW n \in DOMAIN envelopes
      PROVE  envelopes[n].start \notin Offset(k)+1 .. Offset(k) + Len(parts[k].bytes) - 1
  <2>1. envelopes[n].start \in Nat
    BY EndsAreNumbers DEF IInv
  <2>2. ~(Offset(k) < envelopes[n].start /\ envelopes[n].start < End(k))
    BY DEF WInv, NoneInside, Inside
  <2>3. Offset(k) \in Nat /\ Len(parts[k].bytes) \in Nat
    BY HolderLies
  <2>4. End(k) = Offset(k) + Len(parts[k].bytes)
    BY DEF End
  <2>5. QED
    BY ONLY <2>1, <2>2, <2>3, <2>4, SMT
<1>3. QED
  BY <1>1, <1>2 DEF WrittenIsRead

-----------------------------------------------------------------------------
\* With plain code no attempt begins in code before an inscription.
NoCodeIsTried ==
  \/ \E j \in Holders : envelope.start = Offset(j)
  \/ \A k \in Holders : ~(envelope.start < Offset(k))
  \/ ~Trying /\ pos = 1

LEMMA NoCodeIsEnough == Laid /\ NoCodeIsTried => CodeEndsItsAttempts
<1> SUFFICES ASSUME Laid, NoCodeIsTried
             PROVE  CodeEndsItsAttempts
  OBVIOUS
<1>1. \A k \in Holders : Offset(k) \in Nat \ {0}
  BY HolderLies
<1>2. CASE ~Trying /\ pos = 1
  BY <1>1, <1>2 DEF CodeEndsItsAttempts
<1>3. QED
  BY <1>2 DEF NoCodeIsTried, CodeEndsItsAttempts

LEMMA NextTriesNoCode ==
  ASSUME IInv, Laid, WInv, PlainCode, NoCodeIsTried, Next, parts' = parts
  PROVE  NoCodeIsTried'
<1>1. CASE Trying
  <2>1. script' = script /\ envelope'.start = envelope.start
    BY <1>1, TurnOfAttempt DEF Goes, Stops, Ends
  <2>2. Holders' = Holders /\ \A k : Offset(k)' = Offset(k)
    BY <2>1, LaidStays
  <2>3. QED
    BY <1>1, <2>1, <2>2 DEF NoCodeIsTried
<1>2. CASE FindStart
  <2>1. IInv' /\ WInv'
    BY <1>2, NextIsRight, FindStartKeepsWInv
  <2>2. PICK s \in pos..Len(script) : Starts(s) /\ envelope' = Blank(s)
    BY <1>2 DEF FindStart
  <2>3. script' = script /\ phase' = "magic" /\ envelope'.start = s
    BY <1>2, <2>2 DEF FindStart, Blank
  <2>4. /\ Holders' = Holders /\ \A k : Offset(k)' = Offset(k) /\ End(k)' = End(k)
    BY <2>3, LaidStays
  <2>5. s \in 1..Len(script) /\ s \in Nat
    BY LenProperties DEF IInv, TypeOK
  <2>6. CASE \A k \in Holders : Offset(k) < s
    <3>1. \A k \in Holders : Offset(k) \in Nat
      BY PlacesAreNumbers
    <3>2. \A k \in Holders : ~(s < Offset(k))
      BY ONLY <2>5, <2>6, <3>1, SMT
    <3>3. QED
      BY <2>3, <2>4, <3>2 DEF NoCodeIsTried
  <2>7. CASE \E j \in Holders : s \in Offset(j) .. Offset(j) + Len(parts[j].bytes) - 1
    <3>1. PICK j \in Holders : s \in Offset(j) .. Offset(j) + Len(parts[j].bytes) - 1
      BY <2>7
    <3>2. ~(Offset(j) < s /\ s < End(j))
      BY <2>1, <2>3, <2>4 DEF WInv, NoneInside, Inside, Trying
    <3>3. Offset(j) \in Nat /\ Len(parts[j].bytes) \in Nat
      BY HolderLies
    <3>4. End(j) = Offset(j) + Len(parts[j].bytes)
      BY DEF End
    <3>5. s = Offset(j)
      BY ONLY <2>5, <3>1, <3>2, <3>3, <3>4, SMT
    <3>6. QED
      BY <2>3, <2>4, <3>5 DEF NoCodeIsTried
  <2>8. QED
    BY <2>2, <2>5, <2>6, <2>7 DEF PlainCode
<1>3. CASE Finish
  <2>1. script' = script /\ envelope' = envelope /\ pos' = pos /\ ~Trying'
    BY <1>3 DEF Finish, Trying
  <2>2. Holders' = Holders /\ \A k : Offset(k)' = Offset(k)
    BY <2>1, LaidStays
  <2>3. ~Trying
    BY <1>3 DEF Finish, Trying
  <2>4. QED
    BY <2>1, <2>2, <2>3 DEF NoCodeIsTried
<1>4. QED
  BY <1>1, <1>2, <1>3
     DEF Next, Trying, ReadMagic, RunOut, EndEnvelope, BeginBody, ReadField, ReadChunk

LEMMA PlainCodeStays ==
  ASSUME script' = script, parts' = parts, PlainCode
  PROVE  PlainCode'
<1>1. /\ Holders' = Holders /\ \A k : Offset(k)' = Offset(k)
      /\ \A s : Starts(s)' <=> Starts(s)
  BY LaidStays, StartsStay
<1>2. QED
  BY <1>1 DEF PlainCode

LEMMA ScriptStays == Next => script' = script
BY DEF Next, FindStart, Finish, ReadMagic, RunOut, EndEnvelope, BeginBody, ReadField,
       ReadChunk, GiveUp, Return

-----------------------------------------------------------------------------
\* Scripts that were written are scripts: what holds of every script holds of them.
THEOREM WrittenInvariant ==
  WrittenSpec => [](IInv /\ Laid) /\ []EnvelopesAreGenuine /\ EveryTurnAdvances
<1>1. WrittenInit => IInv /\ Laid
  BY WrittenInitIsRight
<1>2. IInv /\ Laid /\ [WrittenNext]_<<parseVars, parts>> => (IInv /\ Laid)'
  <2>1. ASSUME IInv, Laid, WrittenNext PROVE (IInv /\ Laid)'
    BY <2>1, NextIsRight, ScriptStays, LaidStays DEF WrittenNext
  <2>2. ASSUME IInv, Laid, UNCHANGED <<parseVars, parts>> PROVE (IInv /\ Laid)'
    BY <2>2, StutterKeepsIInv, LaidStays DEF parseVars
  <2>3. QED
    BY <2>1, <2>2
<1>3. IInv => EnvelopesAreGenuine
  BY DEF IInv, ReturnedAreGenuine, EnvelopesAreGenuine, Genuine, Opens
<1>4. IInv /\ [WrittenNext]_<<parseVars, parts>> => [Advance]_parseVars
  <2>1. IInv /\ WrittenNext => Advance
    BY NextIsRight DEF WrittenNext
  <2>2. QED
    BY <2>1
<1>5. QED
  BY <1>1, <1>2, <1>3, <1>4, PTL DEF WrittenSpec, EveryTurnAdvances, Advance

THEOREM WrittenIsAlwaysRead ==
  WrittenSpec /\ []CodeEndsItsAttempts => []WrittenIsRead
<1>1. WrittenInit => IInv /\ Laid /\ WInv
  BY WrittenInitIsRight
<1>2. /\ IInv /\ Laid /\ WInv /\ CodeEndsItsAttempts'
      /\ [WrittenNext]_<<parseVars, parts>>
      => (IInv /\ Laid /\ WInv)'
  <2>1. ASSUME IInv, Laid, WInv, CodeEndsItsAttempts', WrittenNext
        PROVE  (IInv /\ Laid /\ WInv)'
    BY <2>1, NextIsRight, ScriptStays, LaidStays, NextKeepsWInv DEF WrittenNext
  <2>2. ASSUME IInv, Laid, WInv, UNCHANGED <<parseVars, parts>>
        PROVE  (IInv /\ Laid /\ WInv)'
    BY <2>2, StutterKeepsIInv, StutterKeepsWInv, LaidStays DEF parseVars
  <2>3. QED
    BY <2>1, <2>2
<1>3. IInv /\ Laid /\ WInv => WrittenIsRead
  BY WInvIsEnough
<1>4. QED
  BY <1>1, <1>2, <1>3, PTL DEF WrittenSpec

THEOREM PlainCodeIsRead == WrittenSpec /\ PlainCode => []WrittenIsRead
<1> DEFINE Inv == IInv /\ Laid /\ WInv /\ PlainCode /\ NoCodeIsTried
<1>1. WrittenInit /\ PlainCode => Inv
  <2>1. WrittenInit => NoCodeIsTried
    BY DEF WrittenInit, Begin, NoCodeIsTried, Trying
  <2>2. QED
    BY <2>1, WrittenInitIsRight
<1>2. Inv /\ [WrittenNext]_<<parseVars, parts>> => Inv'
  <2>1. ASSUME Inv, WrittenNext PROVE Inv'
    <3>1. Next /\ parts' = parts /\ script' = script
      BY <2>1, ScriptStays DEF WrittenNext
    <3>2. IInv' /\ Laid' /\ PlainCode'
      BY <2>1, <3>1, NextIsRight, LaidStays, PlainCodeStays
    <3>3. NoCodeIsTried'
      BY <2>1, <3>1, NextTriesNoCode
    <3>4. CodeEndsItsAttempts'
      BY <3>2, <3>3, NoCodeIsEnough, PTL
    <3>5. WInv'
      BY <2>1, <3>1, <3>4, NextKeepsWInv
    <3>6. QED
      BY <3>2, <3>3, <3>5
  <2>2. ASSUME Inv, UNCHANGED <<parseVars, parts>> PROVE Inv'
    <3>1. UNCHANGED <<script, pos, phase, envelope, envelopes, parts>>
      BY <2>2 DEF parseVars
    <3>2. IInv' /\ Laid' /\ WInv' /\ PlainCode'
      BY <2>2, <3>1, StutterKeepsIInv, StutterKeepsWInv, LaidStays, PlainCodeStays
         DEF parseVars
    <3>3. NoCodeIsTried'
      <4>1. Holders' = Holders /\ \A k : Offset(k)' = Offset(k)
        BY <3>1, LaidStays
      <4>2. QED
        BY <2>2, <3>1, <4>1 DEF NoCodeIsTried, Trying
    <3>4. QED
      BY <3>2, <3>3
  <2>3. QED
    BY <2>1, <2>2
<1>3. Inv => WrittenIsRead
  BY WInvIsEnough
<1>4. QED
  BY <1>1, <1>2, <1>3, PTL DEF WrittenSpec
=============================================================================
