-------------------------- MODULE BitcoinScanProofs --------------------------
(***************************************************************************)
(* What a scan of Bitcoin Core reports, for any blocks and arguments,      *)
(* however the chain grows and is reorganised between the requests and     *)
(* whichever of them fail.  First parse_tapscript: it reads back every     *)
(* inscription Citrea can write, in whatever chunks the body is.  Then the *)
(* decoders, from a word of a state diff to the body of an inscription: the*)
(* values contracts store, the changes in a diff, the journal in a proof,  *)
(* the variants of Borsh.  Then the scan, with any parsers; and last all of*)
(* them together.                                                          *)
(***************************************************************************)
EXTENDS BitcoinScan, FiniteSetTheorems, WellFoundedInduction, SequenceTheorems,
        TLAPS

-----------------------------------------------------------------------------
\* Induction over the numbers up to n, for a set that is to have them all: a smallest
\* number outside would be neither 0 nor the next one of a number inside.
LEMMA AllUpTo ==
  ASSUME NEW n \in Nat, NEW S, 0 \in S, \A m \in 0..(n-1) : m \in S => m + 1 \in S
  PROVE  \A m \in 0..n : m \in S
<1> SUFFICES ASSUME NEW bad \in 0..n, bad \notin S
             PROVE  FALSE
  OBVIOUS
<1> DEFINE R == {m \in 0..n : m \notin S}
           T == {1..m : m \in R}
<1>1. T \subseteq FiniteSubsetsOf(Nat) /\ T # {}
  <2>1. ASSUME NEW m \in R PROVE 1..m \subseteq Nat /\ IsFiniteSet(1..m)
    BY FS_Interval
  <2>2. bad \in R
    OBVIOUS
  <2>3. QED
    BY <2>1, <2>2 DEF FiniteSubsetsOf
<1>2. PICK t \in T : \A u \in T : ~(<<u, t>> \in StrictSubsetOrdering(Nat))
  <2> HIDE DEF T
  <2>1. IsWellFoundedOn(StrictSubsetOrdering(Nat), FiniteSubsetsOf(Nat))
    BY FS_StrictSubsetOrderingWellFounded
  <2>2. QED
    BY <1>1, <2>1, WFMin
<1>3. PICK m \in R : t = 1..m
  OBVIOUS
<1>4. m - 1 \in R
  <2>1. m # 0
    OBVIOUS
  <2>2. m - 1 \in 0..(n-1) /\ (m - 1) + 1 = m
    BY <2>1
  <2>3. QED
    BY <2>2
<1>5. <<1..(m-1), t>> \in StrictSubsetOrdering(Nat)
  <2>1. m \in 1..m /\ m \notin 1..(m-1) /\ 1..(m-1) \subseteq 1..m
    BY <1>4
  <2>2. QED
    BY <1>3, <2>1 DEF StrictSubsetOrdering
<1>6. QED
  BY <1>2, <1>4, <1>5

-----------------------------------------------------------------------------
\* FlattenSeq: the function in its definition exists.
FlattenTo(ss, f) ==
  f = [n \in 1..Len(ss) |-> IF n = 1 THEN ss[n] ELSE f[n-1] \o ss[n]]

\* The first n of a sequence of sequences, put together.
Upto(ss, n) == FlattenSeq(SubSeq(ss, 1, n))

LEMMA PrefixProperties ==
  ASSUME NEW S, NEW ss \in Seq(S), NEW n \in 0..Len(ss)
  PROVE  /\ SubSeq(ss, 1, n) \in Seq(S)
         /\ Len(SubSeq(ss, 1, n)) = n
         /\ \A k \in 1..n : SubSeq(ss, 1, n)[k] = ss[k]
<1>1. Len(ss) \in Nat /\ \A k \in 1..n : ss[k] \in S
  BY LenProperties, ElementOfSeq
<1>2. QED
  BY <1>1, SubSeqProperties

LEMMA FlattenExists ==
  ASSUME NEW B, NEW ss \in Seq(Seq(B))
  PROVE  \E f : FlattenTo(ss, f)
<1> DEFINE Good(m, f) == f = [n \in 1..m |-> IF n = 1 THEN ss[n] ELSE f[n-1] \o ss[n]]
           S == {m \in 0..Len(ss) : \E f : Good(m, f)}
<1>1. Len(ss) \in Nat
  BY LenProperties
<1>2. 0 \in S
  <2>1. Good(0, [n \in 1..0 |-> 0]) /\ 0 \in 0..Len(ss)
    BY <1>1
  <2> HIDE DEF Good
  <2>2. QED
    BY <2>1
<1>3. ASSUME NEW m \in 0..(Len(ss)-1), m \in S
      PROVE  m + 1 \in S
  <2>1. PICK f : Good(m, f)
    BY <1>3
  <2> DEFINE g == [n \in 1..(m+1) |-> IF n = 1 THEN ss[n]
                                      ELSE (IF n = m + 1 THEN f[m] ELSE f[n-1]) \o ss[n]]
  <2>2. \A n \in 1..m : g[n] = f[n]
    <3> SUFFICES ASSUME NEW n \in 1..m PROVE g[n] = f[n]
      OBVIOUS
    <3>1. n \in 1..(m+1) /\ n # m + 1
      OBVIOUS
    <3>2. f[n] = IF n = 1 THEN ss[n] ELSE f[n-1] \o ss[n]
      BY <2>1
    <3>3. QED
      BY <3>1, <3>2
  <2>3. \A n \in 1..(m+1) : g[n] = IF n = 1 THEN ss[n] ELSE g[n-1] \o ss[n]
    <3> SUFFICES ASSUME NEW n \in 1..(m+1)
                 PROVE  g[n] = IF n = 1 THEN ss[n] ELSE g[n-1] \o ss[n]
      OBVIOUS
    <3>1. CASE n = 1
      BY <3>1
    <3>2. CASE n # 1
      <4>1. n - 1 \in 1..m /\ (n = m + 1 => n - 1 = m)
        BY <3>2
      <4>2. g[n-1] = f[n-1]
        BY <4>1, <2>2
      <4>3. g[n] = f[n-1] \o ss[n]
        BY <3>2, <4>1
      <4>4. QED
        BY <3>2, <4>2, <4>3
    <3>3. QED
      BY <3>1, <3>2
  <2>4. Good(m + 1, g)
    <3>1. g = [n \in 1..(m+1) |-> g[n]]
      OBVIOUS
    <3> HIDE DEF g
    <3>2. QED
      BY <2>3, <3>1
  <2>5. m + 1 \in 0..Len(ss)
    BY <1>1
  <2> HIDE DEF Good
  <2>6. QED
    BY <2>4, <2>5
<1>4. Len(ss) \in S
  <2> HIDE DEF S
  <2>1. \A m \in 0..Len(ss) : m \in S
    BY <1>1, <1>2, <1>3, AllUpTo
  <2>2. QED
    BY <1>1, <2>1
<1>5. QED
  BY <1>4 DEF FlattenTo

LEMMA FlattenByFunction ==
  ASSUME NEW B, NEW ss \in Seq(Seq(B))
  PROVE  \E f : /\ FlattenTo(ss, f)
                /\ FlattenSeq(ss) = IF ss = <<>> THEN <<>> ELSE f[Len(ss)]
<1> DEFINE f == CHOOSE f : FlattenTo(ss, f)
<1>1. FlattenTo(ss, f)
  BY FlattenExists
<1>2. FlattenSeq(ss) = IF Len(ss) = 0 THEN ss ELSE f[Len(ss)]
  BY DEF FlattenSeq, FlattenTo
<1>3. Len(ss) = 0 <=> ss = <<>>
  BY EmptySeq
<1>4. QED
  BY <1>1, <1>2, <1>3

\* Flattening goes on with the next one.
LEMMA FlattenPrefixes ==
  ASSUME NEW B, NEW ss \in Seq(Seq(B))
  PROVE  /\ Upto(ss, 0) = <<>>
         /\ \A n \in 1..Len(ss) : Upto(ss, n) = Upto(ss, n - 1) \o ss[n]
         /\ \A n \in 0..Len(ss) : Upto(ss, n) \in Seq(B)
         /\ Upto(ss, Len(ss)) = FlattenSeq(ss)
<1> DEFINE pre(n) == SubSeq(ss, 1, n)
<1>0. Len(ss) \in Nat
  BY LenProperties
<1>1. \A n \in 0..Len(ss) : /\ pre(n) \in Seq(Seq(B)) /\ Len(pre(n)) = n
                            /\ \A k \in 1..n : pre(n)[k] = ss[k]
  BY PrefixProperties
<1>2. \A k \in 1..Len(ss) : ss[k] \in Seq(B)
  BY ElementOfSeq
<1> HIDE DEF pre
<1>3. PICK f : FlattenTo(ss, f)
  BY FlattenExists
<1>4. ASSUME NEW n \in 1..Len(ss) PROVE Upto(ss, n) = f[n]
  <2>0. n \in 0..Len(ss) /\ pre(n) \in Seq(Seq(B)) /\ Len(pre(n)) = n /\ n # 0
    BY <1>0, <1>1
  <2>1. PICK g : /\ FlattenTo(pre(n), g)
                 /\ FlattenSeq(pre(n)) = IF pre(n) = <<>> THEN <<>> ELSE g[Len(pre(n))]
    BY <2>0, FlattenByFunction
  <2>2. FlattenSeq(pre(n)) = g[n]
    BY <2>0, <2>1
  <2> DEFINE E == {m \in 0..n : m # 0 => g[m] = f[m]}
  <2>3. ASSUME NEW m \in 0..(n-1), m \in E
        PROVE  m + 1 \in E
    <3>1. m + 1 \in 1..n /\ m + 1 \in 1..Len(ss) /\ (m + 1) - 1 = m
      BY <1>0
    <3>2. g[m+1] = IF m + 1 = 1 THEN pre(n)[m+1] ELSE g[m] \o pre(n)[m+1]
      BY <2>0, <2>1, <3>1 DEF FlattenTo
    <3>3. f[m+1] = IF m + 1 = 1 THEN ss[m+1] ELSE f[m] \o ss[m+1]
      BY <1>3, <3>1 DEF FlattenTo
    <3>4. pre(n)[m+1] = ss[m+1]
      BY <1>1, <2>0, <3>1
    <3>5. QED
      BY <2>3, <3>1, <3>2, <3>3, <3>4
  <2>4. n \in E
    <3>1. 0 \in E
      BY <1>0
    <3> HIDE DEF E
    <3>2. n \in Nat
      BY <1>0
    <3>3. \A m \in 0..n : m \in E
      BY <2>3, <3>1, <3>2, AllUpTo
    <3>4. QED
      BY <3>2, <3>3
  <2>5. g[n] = f[n]
    BY <2>0, <2>4
  <2>6. QED
    BY <2>2, <2>5 DEF Upto, pre
<1>5. Upto(ss, 0) = <<>>
  <2>1. SubSeq(ss, 1, 0) = <<>>
    BY SubSeqEmpty
  <2>2. QED
    BY <2>1 DEF Upto, FlattenSeq
<1>6. ASSUME NEW n \in 1..Len(ss) PROVE Upto(ss, n) = Upto(ss, n - 1) \o ss[n]
  <2>1. f[n] = IF n = 1 THEN ss[n] ELSE f[n-1] \o ss[n]
    BY <1>3 DEF FlattenTo
  <2>2. CASE n = 1
    <3>1. Upto(ss, n) = ss[n] /\ Upto(ss, n - 1) = <<>>
      BY <1>4, <1>5, <2>1, <2>2
    <3>2. <<>> \o ss[n] = ss[n]
      BY <1>2, ConcatEmptySeq
    <3>3. QED
      BY <3>1, <3>2
  <2>3. CASE n # 1
    <3>1. n - 1 \in 1..Len(ss)
      BY <1>0, <2>3
    <3>2. QED
      BY <1>4, <2>1, <2>3, <3>1
  <2>4. QED
    BY <2>2, <2>3
<1>7. \A n \in 0..Len(ss) : Upto(ss, n) \in Seq(B)
  <2> DEFINE E == {n \in 0..Len(ss) : Upto(ss, n) \in Seq(B)}
  <2>1. 0 \in E
    <3>1. Upto(ss, 0) \in Seq(B)
      BY <1>5, EmptySeq
    <3>2. QED
      BY <1>0, <3>1
  <2>2. ASSUME NEW m \in 0..(Len(ss)-1), m \in E
        PROVE  m + 1 \in E
    <3>1. m + 1 \in 1..Len(ss) /\ m + 1 \in 0..Len(ss) /\ (m + 1) - 1 = m
      BY <1>0
    <3>2. Upto(ss, m + 1) = Upto(ss, m) \o ss[m + 1]
      BY <1>6, <3>1
    <3>3. Upto(ss, m) \o ss[m + 1] \in Seq(B)
      BY <1>2, <2>2, <3>1, ConcatProperties
    <3>4. QED
      BY <3>1, <3>2, <3>3
  <2>3. \A n \in 0..Len(ss) : n \in E
    <3> HIDE DEF E
    <3>1. QED
      BY <1>0, <2>1, <2>2, AllUpTo
  <2>4. QED
    BY <2>3
<1>8. Upto(ss, Len(ss)) = FlattenSeq(ss)
  BY SubSeqFull DEF Upto
<1>9. QED
  BY <1>5, <1>6, <1>7, <1>8


(***************************************************************************)
(* Bytes that lie at a place of a script, and what read_pushdata finds     *)
(* where something was pushed.                                             *)
(***************************************************************************)
\* As much as OP_PUSHDATA2 can push.
LongestPush == 65535

Pushable == {data \in Seq(Byte) : Len(data) \in 0..LongestPush}

\* The bytes b are in the script from place p on.
Lies(s, b, p) ==
  /\ p + Len(b) <= Len(s) + 1
  /\ \A n \in 1..Len(b) : s[p + n - 1] = b[n]

LEMMA LiesApart ==
  ASSUME NEW s, NEW a \in Seq(Byte), NEW b \in Seq(Byte), NEW p \in Nat, Lies(s, a \o b, p)
  PROVE  Lies(s, a, p) /\ Lies(s, b, p + Len(a))
<1>1. /\ Len(a) \in Nat /\ Len(b) \in Nat
      /\ Len(a \o b) = Len(a) + Len(b)
      /\ \A n \in 1..Len(a) + Len(b) :
           (a \o b)[n] = IF n <= Len(a) THEN a[n] ELSE b[n - Len(a)]
  BY ConcatProperties, LenProperties
<1>2. /\ p + Len(a) + Len(b) <= Len(s) + 1
      /\ \A n \in 1..Len(a) + Len(b) : s[p + n - 1] = (a \o b)[n]
  BY <1>1 DEF Lies
<1>3. ASSUME NEW n \in 1..Len(a) PROVE s[p + n - 1] = a[n]
  BY <1>1, <1>2
<1>4. ASSUME NEW n \in 1..Len(b) PROVE s[p + Len(a) + n - 1] = b[n]
  <2>1. Len(a) + n \in 1..Len(a) + Len(b) /\ ~(Len(a) + n <= Len(a)) /\ (Len(a) + n) - Len(a) = n
    BY <1>1
  <2>2. s[p + (Len(a) + n) - 1] = b[n]
    BY <1>1, <1>2, <2>1
  <2>3. p + (Len(a) + n) - 1 = p + Len(a) + n - 1
    BY <1>1
  <2>4. QED
    BY <2>2, <2>3
<1>5. Len(s) + 1 >= p + Len(a) + Len(b)
  BY <1>2
<1>6. QED
  BY <1>1, <1>2, <1>3, <1>4 DEF Lies

\* Each of a sequence of byte sequences lies behind those before it.
LEMMA LiesOneByOne ==
  ASSUME NEW s, NEW ss \in Seq(Seq(Byte)), NEW p \in Nat, Lies(s, FlattenSeq(ss), p)
  PROVE  \A n \in 1..Len(ss) :
           /\ Lies(s, ss[n], p + Len(Upto(ss, n - 1)))
           /\ Len(Upto(ss, n)) = Len(Upto(ss, n - 1)) + Len(ss[n])
<1>0. Len(ss) \in Nat /\ \A n \in 1..Len(ss) : ss[n] \in Seq(Byte)
  BY LenProperties, ElementOfSeq
<1>1. /\ \A n \in 1..Len(ss) : Upto(ss, n) = Upto(ss, n - 1) \o ss[n]
      /\ \A n \in 0..Len(ss) : Upto(ss, n) \in Seq(Byte)
      /\ Upto(ss, Len(ss)) = FlattenSeq(ss)
  BY FlattenPrefixes
<1> DEFINE F(m) == Lies(s, Upto(ss, Len(ss) - m), p)
           E == {m \in 0..Len(ss) : F(m)}
<1>2. 0 \in E
  <2>1. Len(ss) - 0 = Len(ss) /\ 0 \in 0..Len(ss)
    BY <1>0
  <2>2. F(0)
    BY <1>1, <2>1
  <2> HIDE DEF F
  <2>3. QED
    BY <2>1, <2>2
<1>3. ASSUME NEW m \in 0..(Len(ss) - 1), m \in E
      PROVE  m + 1 \in E
  <2>0. /\ Len(ss) - m \in 1..Len(ss) /\ (Len(ss) - m) - 1 \in 0..Len(ss)
        /\ (Len(ss) - m) - 1 = Len(ss) - (m + 1)
    BY <1>0
  <2>1. PICK n \in 1..Len(ss) :
          n = Len(ss) - m /\ n - 1 = Len(ss) - (m + 1) /\ n - 1 \in 0..Len(ss)
    BY <2>0, Zenon
  <2>2. Lies(s, Upto(ss, n - 1) \o ss[n], p)
    BY <1>1, <1>3, <2>1
  <2>3. Lies(s, Upto(ss, n - 1), p)
    BY <1>0, <1>1, <2>1, <2>2, LiesApart
  <2>4. m + 1 \in 0..Len(ss)
    BY <1>0
  <2>5. QED
    BY <2>1, <2>3, <2>4
<1>4. \A m \in 0..Len(ss) : m \in E
  <2> HIDE DEF E
  <2>1. QED
    BY <1>0, <1>2, <1>3, AllUpTo
<1>5. ASSUME NEW n \in 1..Len(ss)
      PROVE  /\ Lies(s, ss[n], p + Len(Upto(ss, n - 1)))
             /\ Len(Upto(ss, n)) = Len(Upto(ss, n - 1)) + Len(ss[n])
  <2>1. Len(ss) - n \in 0..Len(ss) /\ Len(ss) - (Len(ss) - n) = n /\ n - 1 \in 0..Len(ss)
    BY <1>0
  <2>2. Lies(s, Upto(ss, n - 1) \o ss[n], p)
    BY <1>1, <1>4, <2>1
  <2>3. Upto(ss, n - 1) \in Seq(Byte) /\ ss[n] \in Seq(Byte)
    BY <1>0, <1>1, <2>1
  <2>4. QED
    BY <1>1, <2>2, <2>3, LiesApart, ConcatProperties
<1>6. QED
  BY <1>5

-----------------------------------------------------------------------------
\* What stands before the data: the opcode, and the length where it has one.
HeadOf(n) ==
  IF n <= 75 THEN <<n>> ELSE IF n <= 255 THEN <<76, n>> ELSE <<77, n % 256, n \div 256>>

LEMMA PushHasHead ==
  ASSUME NEW data, NEW n \in Nat, Len(data) = n
  PROVE  Push(data) = HeadOf(n) \o data
<1>1. CASE n <= 75
  BY <1>1, Zenon DEF Push, HeadOf
<1>2. CASE ~(n <= 75) /\ n <= 255
  BY <1>2, Zenon DEF Push, HeadOf
<1>3. CASE ~(n <= 75) /\ ~(n <= 255)
  BY <1>3, Zenon DEF Push, HeadOf
<1>4. QED
  BY <1>1, <1>2, <1>3, Zenon

LEMMA TwoBytes ==
  ASSUME NEW n \in 0..LongestPush
  PROVE  /\ n % 256 \in Byte /\ n \div 256 \in Byte
         /\ (n % 256) + 256 * (n \div 256) = n
<1>1. n \in Nat /\ n < 256 * 256
  BY SMT DEF LongestPush
<1>2. n % 256 \in Byte
  BY <1>1, SMT DEF Byte
<1>3. (n % 256) + 256 * (n \div 256) = n
  BY <1>1, SMT
<1>4. n \div 256 \in Byte
  BY <1>1, <1>2, <1>3, SMT DEF Byte
<1>5. QED
  BY <1>2, <1>3, <1>4

LEMMA HeadIsBytes ==
  ASSUME NEW n \in 0..LongestPush
  PROVE  /\ HeadOf(n) \in Seq(Byte)
         /\ Len(HeadOf(n)) = (IF n <= 75 THEN 1 ELSE IF n <= 255 THEN 2 ELSE 3)
<1>0. n \in Nat
  BY SMT DEF LongestPush
<1>1. CASE n <= 75
  <2>1. HeadOf(n) = <<n>> /\ n \in Byte
    BY <1>0, <1>1, SMT DEF HeadOf, Byte
  <2>2. QED
    BY <1>1, <2>1
<1>2. CASE ~(n <= 75) /\ n <= 255
  <2>1. HeadOf(n) = <<76, n>> /\ n \in Byte /\ 76 \in Byte
    BY <1>0, <1>2, SMT DEF HeadOf, Byte
  <2>2. QED
    BY <1>2, <2>1
<1>3. CASE n > 255
  <2>1. PICK a \in Byte, b \in Byte : a = n % 256 /\ b = n \div 256
    BY TwoBytes
  <2>2. HeadOf(n) = <<77, a, b>> /\ 77 \in Byte
    BY <1>0, <1>3, <2>1, SMT DEF HeadOf, Byte
  <2>3. QED
    BY <1>0, <1>3, <2>2
<1>4. QED
  BY <1>0, <1>1, <1>2, <1>3

LEMMA PushIsBytes ==
  ASSUME NEW data \in Seq(Byte), NEW n \in 0..LongestPush, Len(data) = n
  PROVE  /\ HeadOf(n) \in Seq(Byte)
         /\ Push(data) = HeadOf(n) \o data
         /\ Push(data) \in Seq(Byte)
         /\ Len(Push(data)) = Len(HeadOf(n)) + n
<1>1. n \in Nat /\ HeadOf(n) \in Seq(Byte)
  BY HeadIsBytes
<1>2. Push(data) = HeadOf(n) \o data
  BY <1>1, PushHasHead
<1>3. /\ HeadOf(n) \o data \in Seq(Byte)
      /\ Len(HeadOf(n) \o data) = Len(HeadOf(n)) + n
  BY <1>1, ConcatProperties, Zenon
<1>4. QED
  BY <1>1, <1>2, <1>3, Zenon

\* Data lies behind the head of its push.
LEMMA DataBehindHead ==
  ASSUME NEW s \in Seq(Byte), NEW data \in Seq(Byte), NEW p \in Nat \ {0}, NEW h \in Nat, NEW n,
         Lies(s, data, p + h),
         n = Len(data)
  PROVE  SubSeq(s, p + h, p + h + n - 1) = data
<1>1. Len(s) \in Nat /\ n \in Nat /\ p + h + n <= Len(s) + 1
  BY LenProperties DEF Lies
<1> DEFINE a == p + h
           b == p + h + n - 1
<1>2. a \in Int /\ b \in Int /\ b - a + 1 = n /\ (a <= b <=> n > 0)
  BY <1>1
<1>3. \A i \in a..b : s[i] \in Byte
  <2>1. a..b \subseteq 1..Len(s)
    BY <1>1
  <2>2. QED
    BY <2>1, ElementOfSeq
<1>4. /\ SubSeq(s, a, b) \in Seq(Byte)
      /\ Len(SubSeq(s, a, b)) = n
      /\ \A i \in 1..n : SubSeq(s, a, b)[i] = s[a + i - 1]
  <2> HIDE DEF a, b
  <2>1. /\ SubSeq(s, a, b) \in Seq(Byte)
        /\ Len(SubSeq(s, a, b)) = IF a <= b THEN b - a + 1 ELSE 0
        /\ \A i \in 1..(b - a + 1) : SubSeq(s, a, b)[i] = s[a + i - 1]
    BY <1>2, <1>3, SubSeqProperties
  <2>2. QED
    BY <1>1, <1>2, <2>1
<1>5. \A i \in 1..n : SubSeq(s, a, b)[i] = data[i]
  BY <1>4 DEF Lies
<1>6. QED
  BY <1>4, <1>5, SeqEqual

\* read_pushdata finds the length in the head.
LEMMA HeadTells ==
  ASSUME NEW s, NEW n \in 0..LongestPush, NEW p \in Nat, Lies(s, HeadOf(n), p)
  PROVE  /\ s[p] \in 0..77
         /\ DataStart(s, p) = p + Len(HeadOf(n))
         /\ DataLength(s, p) = n
<1>0. n \in Nat
  BY SMT DEF LongestPush
<1>1. PICK h : h = HeadOf(n)
  OBVIOUS
<1>2. /\ Len(h) >= 1 => s[p] = h[1]
      /\ Len(h) >= 2 => s[p+1] = h[2]
      /\ Len(h) = 3 => s[p+2] = h[3]
      /\ Len(h) \in 1..3
  <2>1. Len(h) \in 1..3 /\ \A k \in 1..Len(h) : s[p + k - 1] = h[k]
    BY <1>0, <1>1, HeadIsBytes DEF Lies
  <2>2. p + 1 - 1 = p /\ p + 2 - 1 = p + 1 /\ p + 3 - 1 = p + 2
    OBVIOUS
  <2>3. Len(h) >= 1 => s[p + 1 - 1] = h[1]
    BY <2>1
  <2>4. Len(h) >= 2 => s[p + 2 - 1] = h[2]
    BY <2>1
  <2>5. Len(h) = 3 => s[p + 3 - 1] = h[3]
    BY <2>1
  <2>6. QED
    BY <2>1, <2>2, <2>3, <2>4, <2>5
<1>3. CASE n <= 75
  <2>1. h = <<n>>
    BY <1>0, <1>1, <1>3, SMT DEF HeadOf
  <2>2. s[p] = n /\ Len(h) = 1
    BY <1>2, <2>1
  <2>3. DataStart(s, p) = p + 1
    BY <1>0, <1>3, <2>2, SMT DEF DataStart
  <2>4. DataLength(s, p) = n
    BY <1>0, <1>3, <2>2, SMT DEF DataLength
  <2>5. n \in 0..77
    BY <1>0, <1>3, SMT
  <2>6. QED
    BY <1>1, <2>2, <2>3, <2>4, <2>5
<1>4. CASE ~(n <= 75) /\ n <= 255
  <2>1. h = <<76, n>>
    BY <1>0, <1>1, <1>4, SMT DEF HeadOf
  <2>2. s[p] = 76 /\ s[p+1] = n /\ Len(h) = 2
    BY <1>2, <2>1
  <2>3. DataStart(s, p) = p + 2
    BY <2>2, SMT DEF DataStart
  <2>4. DataLength(s, p) = n
    BY <2>2, SMT DEF DataLength
  <2>5. QED
    BY <1>1, <2>2, <2>3, <2>4
<1>5. CASE n > 255
  <2>1. h = <<77, n % 256, n \div 256>>
    BY <1>0, <1>1, <1>5, SMT DEF HeadOf
  <2>2. s[p] = 77 /\ s[p+1] = n % 256 /\ s[p+2] = n \div 256 /\ Len(h) = 3
    BY <1>2, <2>1
  <2>3. DataStart(s, p) = p + 3
    BY <2>2, SMT DEF DataStart
  <2>4. DataLength(s, p) = s[p+1] + 256 * s[p+2]
    BY <2>2, SMT DEF DataLength
  <2>5. DataLength(s, p) = n
    BY <1>0, <2>2, <2>4, TwoBytes
  <2>6. QED
    BY <1>1, <2>2, <2>3, <2>5
<1>6. QED
  BY <1>0, <1>3, <1>4, <1>5, SMT

\* read_pushdata gives back what was pushed, and goes on behind it.
LEMMA PushIsRead ==
  ASSUME NEW s \in Seq(Byte), NEW data \in Pushable, NEW p \in Nat \ {0}, Lies(s, Push(data), p)
  PROVE  /\ IsPush(s, p) /\ Data(s, p) = data
         /\ After(s, p) = p + Len(Push(data))
         /\ p <= Len(s) /\ s[p] \in 0..77
<1>1. PICK n \in 0..LongestPush : n = Len(data)
  BY DEF Pushable
<1>2. data \in Seq(Byte)
  BY DEF Pushable
<1>3. n \in Nat
  BY SMT DEF LongestPush
<1>4. PICK m \in 1..3 : m = Len(HeadOf(n))
  BY HeadIsBytes
<1>5. /\ HeadOf(n) \in Seq(Byte) /\ Push(data) = HeadOf(n) \o data
      /\ Len(Push(data)) = m + n
  BY <1>1, <1>2, <1>4, PushIsBytes, Zenon
<1>6. Lies(s, HeadOf(n), p) /\ Lies(s, data, p + m)
  <2>1. p \in Nat
    OBVIOUS
  <2>2. QED
    BY <1>2, <1>4, <1>5, <2>1, LiesApart, Zenon
<1>7. /\ s[p] \in 0..77 /\ DataStart(s, p) = p + m /\ DataLength(s, p) = n
  <2>1. p \in Nat
    OBVIOUS
  <2>2. QED
    BY <1>4, <1>6, <2>1, HeadTells, Zenon
<1>8. Len(s) \in Nat /\ p + m + n <= Len(s) + 1
  BY <1>3, <1>5, LenProperties DEF Lies
<1>9. After(s, p) = p + m + n
  BY <1>7, Zenon DEF After
<1>10. /\ p <= Len(s) /\ s[p] <= 77 /\ p + m <= Len(s) + 1
  <2>1. p \in Nat /\ m \in Nat /\ m >= 1
    OBVIOUS
  <2>2. p <= Len(s) /\ p + m <= Len(s) + 1
    BY ONLY <1>3, <1>8, <2>1, SMT
  <2>3. s[p] <= 77
    <3>1. PICK k \in 0..77 : s[p] = k
      BY <1>7
    <3>2. k <= 77
      BY ONLY k \in 0..77, SMT
    <3>3. QED
      BY <3>1, <3>2, Zenon
  <2>4. QED
    BY <2>2, <2>3
<1>11. IsPush(s, p)
  BY <1>7, <1>8, <1>9, <1>10, Zenon DEF IsPush
<1>12. Data(s, p) = data
  <2>1. Data(s, p) = SubSeq(s, p + m, p + m + n - 1)
    BY <1>7, <1>9 DEF Data
  <2>2. SubSeq(s, p + m, p + m + n - 1) = data
    <3>1. m \in Nat
      OBVIOUS
    <3>2. QED
      BY <1>1, <1>2, <1>6, <3>1, DataBehindHead, Zenon
  <2>3. QED
    BY <2>1, <2>2
<1>13. After(s, p) = p + Len(Push(data))
  BY <1>3, <1>5, <1>9
<1>14. QED
  BY <1>7, <1>10, <1>11, <1>12, <1>13

-----------------------------------------------------------------------------
(***************************************************************************)
(* The chunks of a body: the function in Chunks exists, and what it is.    *)
(***************************************************************************)
\* What Chunks says of a place, by what a function says of the place behind its push.
ChunkStep(s, f, p) ==
  IF Is(s, p, OP_ENDIF) THEN [body |-> <<>>, end |-> p]
  ELSE IF ~IsPush(s, p) THEN Absent
  ELSE LET rest == f[After(s, p)] IN
         IF rest = Absent THEN Absent
         ELSE [body |-> Data(s, p) \o rest.body, end |-> rest.end]

ChunksFrom(s, first, f) == f = [p \in first..Len(s)+1 |-> ChunkStep(s, f, p)]

\* A push ends behind its beginning, within the script.
LEMMA PushGoesOn ==
  ASSUME NEW s \in Seq(Byte), NEW p \in Nat \ {0}, IsPush(s, p)
  PROVE  After(s, p) \in (p + 1)..(Len(s) + 1)
<1>1. PICK L \in Nat : L = Len(s)
  BY LenProperties
<1>2. /\ p <= L /\ s[p] <= 77
      /\ DataStart(s, p) <= L + 1 /\ After(s, p) <= L + 1
  BY <1>1 DEF IsPush
<1>3. \A k \in 1..L : s[k] \in Nat
  <2>1. \A k \in 1..L : s[k] \in Byte
    BY <1>1, ElementOfSeq
  <2>2. \A b \in Byte : b \in Nat
    BY DEF Byte
  <2>3. QED
    BY <2>1, <2>2
<1>4. PICK b \in Nat : b = s[p]
  BY <1>2, <1>3
<1>5. PICK h \in 1..3 : DataStart(s, p) = p + h /\ (b = 76 => h = 2) /\ (b = 77 => h = 3)
  <2>1. CASE b <= 75
    BY <1>4, <2>1 DEF DataStart
  <2>2. CASE ~(b <= 75)
    <3>1. b - 74 \in 2..3
      BY <1>2, <1>4, <2>2
    <3>2. DataStart(s, p) = p + (b - 74)
      BY <1>4, <2>2 DEF DataStart
    <3>3. QED
      BY <3>1, <3>2
  <2>3. QED
    BY <2>1, <2>2
<1>6. DataLength(s, p) \in Nat
  <2>1. CASE b <= 75
    BY <1>4, <2>1 DEF DataLength
  <2>2. CASE b = 76
    <3>1. p + 1 \in 1..L
      BY <1>2, <1>5, <2>2
    <3>2. DataLength(s, p) = s[p+1]
      BY <1>4, <2>2 DEF DataLength
    <3>3. QED
      BY <1>3, <3>1, <3>2
  <2>3. CASE b = 77
    <3>1. p + 1 \in 1..L /\ p + 2 \in 1..L
      BY <1>2, <1>5, <2>3
    <3>2. DataLength(s, p) = s[p+1] + 256 * s[p+2]
      BY <1>4, <2>3 DEF DataLength
    <3>3. s[p+1] \in Nat /\ s[p+2] \in Nat
      BY <1>3, <3>1
    <3>4. QED
      BY <3>2, <3>3
  <2>4. QED
    BY <1>2, <1>4, <2>1, <2>2, <2>3
<1>7. PICK n \in Nat : n = DataLength(s, p)
  BY <1>6
<1>8. After(s, p) = p + h + n
  BY <1>5, <1>7 DEF After
<1>9. QED
  BY <1>1, <1>2, <1>8

\* What Chunks says of a place depends only on what is said of later ones.
LEMMA StepLooksAhead ==
  ASSUME NEW s \in Seq(Byte), NEW p \in Nat \ {0}, NEW f, NEW g,
         \A q \in (p + 1)..(Len(s) + 1) : f[q] = g[q]
  PROVE  ChunkStep(s, f, p) = ChunkStep(s, g, p)
<1>1. IsPush(s, p) => f[After(s, p)] = g[After(s, p)]
  BY PushGoesOn
<1>2. CASE IsPush(s, p)
  BY <1>1, <1>2 DEF ChunkStep
<1>3. CASE ~IsPush(s, p)
  BY <1>3 DEF ChunkStep
<1>4. QED
  BY <1>2, <1>3

LEMMA ChunksExist ==
  ASSUME NEW s \in Seq(Byte), NEW first \in Nat \ {0}, first <= Len(s) + 1
  PROVE  \E f : ChunksFrom(s, first, f)
<1>1. PICK L \in Nat : L = Len(s)
  BY LenProperties
<1> DEFINE last == L + 1
           n == last - first
           Good(m, f) == f = [p \in (last - m)..last |-> ChunkStep(s, f, p)]
           S == {m \in 0..n : \E f : Good(m, f)}
<1>2. n \in Nat /\ last \in Nat /\ first <= last
  BY <1>1
<1>3. 0 \in S
  <2> DEFINE g == [p \in (last - 0)..last |-> ChunkStep(s, <<>>, p)]
  <2>1. ASSUME NEW p \in (last - 0)..last
        PROVE  ChunkStep(s, <<>>, p) = ChunkStep(s, g, p)
    <3>1. p \in Nat \ {0} /\ p = L + 1
      BY <1>1, <2>1
    <3>2. \A q \in (p + 1)..(Len(s) + 1) : <<>>[q] = g[q]
      BY <1>1, <3>1
    <3> HIDE DEF g
    <3>3. QED
      BY <3>1, <3>2, StepLooksAhead
  <2>2. Good(0, g)
    <3>1. g = [p \in (last - 0)..last |-> g[p]] /\ \A p \in (last - 0)..last : g[p] = ChunkStep(s, <<>>, p)
      OBVIOUS
    <3> HIDE DEF g
    <3>2. QED
      BY <2>1, <3>1
  <2>3. 0 \in 0..n
    BY <1>2
  <2> HIDE DEF Good
  <2>4. QED
    BY <2>2, <2>3
<1>4. ASSUME NEW m \in 0..(n - 1), m \in S
      PROVE  m + 1 \in S
  <2>1. PICK f : Good(m, f)
    BY <1>4
  <2>2. PICK q \in Nat \ {0} : q = last - (m + 1) /\ q + 1 = last - m /\ q <= last
    <3>1. m \in Nat /\ m + 1 <= n
      BY <1>2
    <3>2. /\ last - (m + 1) \in Nat \ {0} /\ last - (m + 1) + 1 = last - m
          /\ last - (m + 1) <= last
      BY <1>2, <3>1
    <3>3. QED
      BY <3>2
  <2> DEFINE g == [p \in q..last |-> IF p = q THEN ChunkStep(s, f, q) ELSE f[p]]
  <2>3. ASSUME NEW p \in q..last
        PROVE  g[p] = ChunkStep(s, g, p)
    <3>1. p \in Nat \ {0}
      BY <2>2
    <3>2. ASSUME NEW r \in (p + 1)..(Len(s) + 1) PROVE f[r] = g[r]
      <4>1. r \in q..last /\ r # q
        BY <1>1, <2>2
      <4>2. QED
        BY <4>1
    <3>3. g[p] = ChunkStep(s, f, p)
      <4>1. CASE p = q
        BY <4>1
      <4>2. CASE p # q
        <5>1. p \in (last - m)..last
          BY <2>2, <4>2, <1>2
        <5>2. f[p] = ChunkStep(s, f, p)
          BY <2>1, <5>1
        <5>3. QED
          BY <4>2, <5>2
      <4>3. QED
        BY <4>1, <4>2
    <3>4. ChunkStep(s, f, p) = ChunkStep(s, g, p)
      <4> HIDE DEF g
      <4>1. QED
        BY <3>1, <3>2, StepLooksAhead
    <3>5. QED
      BY <3>3, <3>4
  <2>4. Good(m + 1, g)
    <3>1. g = [p \in q..last |-> g[p]]
      OBVIOUS
    <3> HIDE DEF g
    <3>2. QED
      BY <2>2, <2>3, <3>1
  <2>5. m + 1 \in 0..n
    BY <1>2
  <2> HIDE DEF Good
  <2>6. QED
    BY <2>4, <2>5
<1>5. n \in S
  <2> HIDE DEF S, n
  <2>1. \A m \in 0..n : m \in S
    BY <1>2, <1>3, <1>4, AllUpTo
  <2>2. QED
    BY <1>2, <2>1
<1>6. PICK f : Good(n, f)
  BY <1>5
<1>7. last - n = first /\ last = Len(s) + 1
  BY <1>1, <1>2
<1>8. ChunksFrom(s, first, f)
  BY <1>6, <1>7 DEF ChunksFrom
<1>9. QED
  BY <1>8

LEMMA ChunksByFunction ==
  ASSUME NEW s \in Seq(Byte), NEW first \in Nat \ {0}, first <= Len(s) + 1
  PROVE  \E f : /\ Chunks(s, first) = f[first]
                /\ \A p \in first..(Len(s) + 1) : f[p] = ChunkStep(s, f, p)
<1> DEFINE f == CHOOSE f : ChunksFrom(s, first, f)
<1>1. ChunksFrom(s, first, f)
  BY ChunksExist
<1>2. Chunks(s, first) = f[first]
  BY DEF Chunks, ChunksFrom, ChunkStep
<1>3. \A p \in first..(Len(s) + 1) : f[p] = ChunkStep(s, f, p)
  <2> HIDE DEF f
  <2>1. QED
    BY <1>1 DEF ChunksFrom
<1>4. QED
  BY <1>2, <1>3

-----------------------------------------------------------------------------
(***************************************************************************)
(* Where the parts of a script lie.                                        *)
(***************************************************************************)
\* Where the n-th of a sequence of parts begins in the script they are put together to.
At(parts, n) == 1 + Len(Upto(parts, n - 1))

LEMMA PartsLie ==
  ASSUME NEW parts \in Seq(Seq(Byte)), NEW s, s = FlattenSeq(parts)
  PROVE  /\ s \in Seq(Byte)
         /\ At(parts, 1) = 1
         /\ \A n \in 1..Len(parts) : /\ At(parts, n) \in Nat \ {0}
                                     /\ Lies(s, parts[n], At(parts, n))
                                     /\ At(parts, n + 1) = At(parts, n) + Len(parts[n])
<1>0. Len(parts) \in Nat /\ \A n \in 1..Len(parts) : parts[n] \in Seq(Byte)
  BY LenProperties, ElementOfSeq
<1>1. /\ Upto(parts, 0) = <<>>
      /\ \A n \in 0..Len(parts) : Upto(parts, n) \in Seq(Byte)
      /\ Upto(parts, Len(parts)) = s
  BY FlattenPrefixes
<1>2. s \in Seq(Byte)
  BY <1>0, <1>1
<1>3. Lies(s, s, 1)
  <2>1. Len(s) \in Nat
    BY <1>2, LenProperties
  <2>2. \A n \in 1..Len(s) : 1 + n - 1 = n
    BY <2>1
  <2>3. QED
    BY <2>1, <2>2 DEF Lies
<1>4. \A n \in 1..Len(parts) :
        /\ Lies(s, parts[n], 1 + Len(Upto(parts, n - 1)))
        /\ Len(Upto(parts, n)) = Len(Upto(parts, n - 1)) + Len(parts[n])
  <2>1. Lies(s, FlattenSeq(parts), 1)
    BY <1>3
  <2>2. 1 \in Nat
    OBVIOUS
  <2>3. QED
    BY <2>1, <2>2, LiesOneByOne, Zenon
<1>5. At(parts, 1) = 1
  <2>1. 1 - 1 = 0 /\ Len(<<>>) = 0
    OBVIOUS
  <2>2. QED
    BY <1>1, <2>1 DEF At
<1>6. ASSUME NEW n \in 1..Len(parts)
      PROVE  /\ At(parts, n) \in Nat \ {0}
             /\ At(parts, n + 1) = At(parts, n) + Len(parts[n])
  <2>1. n - 1 \in 0..Len(parts) /\ n + 1 - 1 = n
    BY <1>0
  <2>2. PICK l \in Nat : l = Len(Upto(parts, n - 1))
    BY <1>1, <2>1, LenProperties
  <2>3. PICK k \in Nat : k = Len(parts[n])
    BY <1>0, LenProperties
  <2>4. Len(Upto(parts, n)) = l + k
    BY <1>4, <2>2, <2>3
  <2>5. At(parts, n) = 1 + l
    BY <2>2, Zenon DEF At
  <2>6. At(parts, n + 1) = 1 + (l + k)
    <3>1. At(parts, n + 1) = 1 + Len(Upto(parts, n))
      BY <2>1 DEF At
    <3>2. QED
      BY ONLY <2>4, <3>1, Zenon
  <2>7. 1 + (l + k) = (1 + l) + k /\ 1 + l \in Nat \ {0}
    BY ONLY l \in Nat, k \in Nat, SMT
  <2>8. QED
    BY ONLY <2>3, <2>5, <2>6, <2>7, Zenon
<1>7. QED
  BY <1>2, <1>4, <1>5, <1>6 DEF At

\* One byte at a place.
LEMMA ByteLies ==
  ASSUME NEW s \in Seq(Byte), NEW b, NEW p \in Nat, Lies(s, <<b>>, p)
  PROVE  Is(s, p, b)
<1>1. p + 1 <= Len(s) + 1 /\ s[p + 1 - 1] = b
  BY DEF Lies
<1>2. p + 1 - 1 = p /\ Len(s) \in Nat
  BY LenProperties
<1>3. QED
  BY <1>1, <1>2 DEF Is

ChunkPushes(chunks) == [k \in DOMAIN chunks |-> Push(chunks[k])]

LEMMA PushableIsWritten ==
  ASSUME NEW data \in Pushable
  PROVE  data \in Seq(Byte) /\ Push(data) \in Seq(Byte) /\ Len(Push(data)) \in Nat
<1>1. PICK n \in 0..LongestPush : n = Len(data)
  BY DEF Pushable
<1>2. data \in Seq(Byte)
  BY DEF Pushable
<1>3. Push(data) \in Seq(Byte)
  BY <1>1, <1>2, PushIsBytes, Zenon
<1>4. QED
  BY <1>2, <1>3, LenProperties

LEMMA ChunkPushesAreBytes ==
  ASSUME NEW chunks \in Seq(Pushable)
  PROVE  /\ chunks \in Seq(Seq(Byte))
         /\ ChunkPushes(chunks) \in Seq(Seq(Byte)) /\ Len(ChunkPushes(chunks)) = Len(chunks)
         /\ \A k \in 1..Len(chunks) : ChunkPushes(chunks)[k] = Push(chunks[k])
<1>1. PICK n \in Nat : n = Len(chunks) /\ DOMAIN chunks = 1..n
  BY LenProperties
<1>2. \A k \in 1..n : chunks[k] \in Pushable
  BY <1>1, ElementOfSeq
<1>3. ChunkPushes(chunks) \in [1..n -> Seq(Byte)] /\ chunks \in [1..n -> Seq(Byte)]
  <2>1. \A k \in 1..n : Push(chunks[k]) \in Seq(Byte) /\ chunks[k] \in Seq(Byte)
    BY <1>2, PushableIsWritten
  <2>2. chunks = [k \in 1..n |-> chunks[k]]
    BY <1>1, LenProperties
  <2>3. QED
    BY <1>1, <2>1, <2>2 DEF ChunkPushes
<1>4. \A k \in 1..n : ChunkPushes(chunks)[k] = Push(chunks[k])
  BY <1>1 DEF ChunkPushes
<1>5. QED
  <2>1. ASSUME NEW f \in [1..n -> Seq(Byte)] PROVE f \in Seq(Seq(Byte)) /\ Len(f) = n
    OBVIOUS
  <2>2. QED
    BY <1>1, <1>3, <1>4, <2>1

\* Where pushes stand, up to OP_ENDIF, Chunks finds what was pushed, put together.
LEMMA BodyIsRead ==
  ASSUME NEW s \in Seq(Byte), NEW first \in Nat \ {0}, NEW chunks \in Seq(Pushable),
         Lies(s, FlattenSeq(ChunkPushes(chunks)), first),
         Is(s, first + Len(FlattenSeq(ChunkPushes(chunks))), OP_ENDIF)
  PROVE  Chunks(s, first) = [body |-> FlattenSeq(chunks),
                             end |-> first + Len(FlattenSeq(ChunkPushes(chunks)))]
<1> DEFINE pushes == ChunkPushes(chunks)
           Place(k) == first + Len(Upto(pushes, k))
<1>1. PICK n \in Nat : n = Len(chunks)
  BY LenProperties
<1>2. /\ chunks \in Seq(Seq(Byte)) /\ pushes \in Seq(Seq(Byte)) /\ Len(pushes) = n
      /\ \A k \in 1..n : pushes[k] = Push(chunks[k])
      /\ \A k \in 1..n : chunks[k] \in Pushable
  BY <1>1, ChunkPushesAreBytes, ElementOfSeq
<1>3. /\ Upto(pushes, 0) = <<>>
      /\ \A k \in 0..n : Upto(pushes, k) \in Seq(Byte)
      /\ Upto(pushes, n) = FlattenSeq(pushes)
  BY <1>2, FlattenPrefixes
<1>4. /\ Upto(chunks, 0) = <<>>
      /\ \A k \in 1..n : Upto(chunks, k) = Upto(chunks, k - 1) \o chunks[k]
      /\ \A k \in 0..n : Upto(chunks, k) \in Seq(Byte)
      /\ Upto(chunks, n) = FlattenSeq(chunks)
  BY <1>1, <1>2, FlattenPrefixes
<1>5. \A k \in 1..n : /\ Lies(s, pushes[k], first + Len(Upto(pushes, k - 1)))
                      /\ Len(Upto(pushes, k)) = Len(Upto(pushes, k - 1)) + Len(pushes[k])
  <2>1. first \in Nat
    OBVIOUS
  <2>2. QED
    BY <1>2, <2>1, LiesOneByOne, Zenon
<1> HIDE DEF pushes
<1>6. PICK last \in Nat : last = first + Len(FlattenSeq(pushes)) /\ last = Place(n)
  <2>1. Len(FlattenSeq(pushes)) \in Nat
    BY <1>3, LenProperties
  <2>2. QED
    BY <1>3, <2>1
<1>7. \A k \in 0..n : Place(k) \in Nat \ {0} /\ first <= Place(k)
  <2>1. \A k \in 0..n : Len(Upto(pushes, k)) \in Nat
    BY <1>3, LenProperties
  <2>2. QED
    BY <2>1
<1>8. Is(s, last, OP_ENDIF) /\ last <= Len(s)
  BY <1>6 DEF Is, pushes
<1>9. ASSUME NEW k \in 1..n
      PROVE  /\ IsPush(s, Place(k - 1)) /\ Data(s, Place(k - 1)) = chunks[k]
             /\ After(s, Place(k - 1)) = Place(k)
             /\ ~Is(s, Place(k - 1), OP_ENDIF)
             /\ Place(k - 1) \in first..(Len(s) + 1)
  <2>1. k - 1 \in 0..n /\ k \in 0..n
    OBVIOUS
  <2>2. PICK p \in Nat \ {0} : p = Place(k - 1) /\ first <= p
    BY <1>7, <2>1
  <2>3. Lies(s, Push(chunks[k]), p) /\ chunks[k] \in Pushable
    BY <1>2, <1>5, <2>2
  <2>4. /\ IsPush(s, p) /\ Data(s, p) = chunks[k]
        /\ After(s, p) = p + Len(Push(chunks[k]))
        /\ p <= Len(s) /\ s[p] \in 0..77
    BY <2>3, PushIsRead
  <2>5. Place(k) = p + Len(Push(chunks[k]))
    <3>1. PICK l \in Nat, c \in Nat : l = Len(Upto(pushes, k - 1)) /\ c = Len(Push(chunks[k]))
      BY <1>3, <2>1, <2>3, PushableIsWritten, LenProperties
    <3>2. Len(Upto(pushes, k)) = l + c /\ p = first + l
      BY <1>2, <1>5, <2>2, <3>1
    <3>3. QED
      BY <3>1, <3>2
  <2>6. s[p] # 104
    <3>1. PICK b \in 0..77 : b = s[p]
      BY <2>4
    <3>2. b # 104
      BY ONLY b \in 0..77, SMT
    <3>3. QED
      BY <3>1, <3>2, Zenon
  <2>7. p \in first..(Len(s) + 1)
    BY <2>2, <2>4, LenProperties
  <2>8. QED
    BY <2>2, <2>4, <2>5, <2>6, <2>7 DEF Is, OP_ENDIF
<1>10. PICK f : /\ Chunks(s, first) = f[first]
                /\ \A p \in first..(Len(s) + 1) : f[p] = ChunkStep(s, f, p)
  <2>1. first <= Len(s) + 1
    <3>1. first <= last
      BY <1>6, <1>7
    <3>2. QED
      BY <1>8, <3>1, LenProperties
  <2>2. QED
    BY <2>1, ChunksByFunction
<1> DEFINE Rest(k, r) == f[Place(k)] = [body |-> r, end |-> last]
                           /\ Upto(chunks, k) \o r = FlattenSeq(chunks)
           S == {m \in 0..n : \E r \in Seq(Byte) : Rest(n - m, r)}
<1>11. 0 \in S
  <2>1. last \in first..(Len(s) + 1)
    BY <1>6, <1>7, <1>8, LenProperties
  <2>2. f[Place(n)] = [body |-> <<>>, end |-> last]
    BY <1>6, <1>8, <1>10, <2>1 DEF ChunkStep
  <2>3. Upto(chunks, n) \o <<>> = FlattenSeq(chunks) /\ <<>> \in Seq(Byte)
    BY <1>4, ConcatEmptySeq
  <2>4. n - 0 = n /\ 0 \in 0..n
    OBVIOUS
  <2>5. QED
    BY <2>2, <2>3, <2>4
<1>12. ASSUME NEW m \in 0..(n - 1), m \in S
       PROVE  m + 1 \in S
  <2>1. PICK k \in 1..n : k = n - m /\ k - 1 = n - (m + 1)
    <3>1. n - m \in 1..n /\ (n - m) - 1 = n - (m + 1)
      OBVIOUS
    <3>2. QED
      BY <3>1
  <2>2. PICK r \in Seq(Byte) : Rest(k, r)
    BY <1>12, <2>1
  <2>3. [body |-> r, end |-> last] # Absent
    BY AbsentAssumption DEF Byte
  <2>4. PICK p : p = Place(k - 1) /\ f[p] = ChunkStep(s, f, p)
    BY <1>9, <1>10
  <2>5. f[p] = [body |-> chunks[k] \o r, end |-> last]
    <3>1. PICK rest : rest = [body |-> r, end |-> last]
      OBVIOUS
    <3>2. rest # Absent /\ rest.body = r /\ rest.end = last
      BY <2>3, <3>1
    <3>3. f[After(s, p)] = rest
      BY <1>9, <2>2, <2>4, <3>1
    <3>4. Data(s, p) = chunks[k] /\ IsPush(s, p) /\ ~Is(s, p, OP_ENDIF)
      BY <1>9, <2>4
    <3>5. f[p] = [body |-> Data(s, p) \o rest.body, end |-> rest.end]
      BY <2>4, <3>2, <3>3, <3>4, Zenon DEF ChunkStep
    <3>6. QED
      BY <3>2, <3>4, <3>5, Zenon
  <2>6. chunks[k] \in Seq(Byte) /\ chunks[k] \o r \in Seq(Byte)
    BY <1>2, ConcatProperties, PushableIsWritten
  <2>7. Upto(chunks, k - 1) \o (chunks[k] \o r) = FlattenSeq(chunks)
    <3>1. Upto(chunks, k - 1) \in Seq(Byte)
      BY <1>4
    <3>2. PICK u \in Seq(Byte), v \in Seq(Byte) : u = Upto(chunks, k - 1) /\ v = chunks[k]
      BY <2>6, <3>1
    <3>3. (u \o v) \o r = u \o (v \o r)
      BY ONLY u \in Seq(Byte), v \in Seq(Byte), r \in Seq(Byte), ConcatAssociative
    <3>4. QED
      BY <1>4, <2>2, <3>2, <3>3
  <2>8. m + 1 \in 0..n
    OBVIOUS
  <2>9. Rest(n - (m + 1), chunks[k] \o r)
    BY <2>1, <2>4, <2>5, <2>7
  <2> HIDE DEF Rest
  <2>10. QED
    BY <2>6, <2>8, <2>9
<1>13. n \in S
  <2> HIDE DEF S
  <2>1. \A m \in 0..n : m \in S
    BY <1>11, <1>12, AllUpTo
  <2>2. QED
    BY <2>1
<1>14. PICK r \in Seq(Byte) : Rest(0, r)
  <2>1. n - n = 0
    OBVIOUS
  <2>2. QED
    BY <1>13, <2>1
<1>15. Place(0) = first
  <2>1. Len(<<>>) = 0 /\ first + 0 = first
    OBVIOUS
  <2>2. QED
    BY <1>3, <2>1, Zenon
<1>16. <<>> \o r = r
  BY ConcatEmptySeq
<1>17. r = FlattenSeq(chunks)
  BY <1>4, <1>14, <1>16
<1>18. QED
  BY <1>6, <1>10, <1>14, <1>15, <1>17 DEF pushes

-----------------------------------------------------------------------------
\* The inscriptions that can be written.
Bytes(n) == {data \in Seq(Byte) : Len(data) = n}

Writable ==
  [ tapscript_pubkey : Bytes(32), kind : TransactionKind, signature : Pushable,
    signer_pubkey : Pushable, body : Seq(Byte), nonce : Bytes(8) ]

\* The parts of their scripts.
Parts(i, chunks) ==
  << Push(i.tapscript_pubkey), <<OP_CHECKSIGVERIFY>>,
     Push(<<i.kind, 0>>), <<OP_FALSE, OP_IF>>,
     Push(i.signature), Push(i.signer_pubkey),
     FlattenSeq(ChunkPushes(chunks)),
     <<OP_ENDIF>>, Push(i.nonce), <<OP_NIP>> >>

LEMMA FewBytesArePushable ==
  ASSUME NEW n \in 0..75, NEW data \in Bytes(n)
  PROVE  data \in Pushable /\ Len(Push(data)) = n + 1
<1>1. data \in Seq(Byte) /\ Len(data) = n
  BY DEF Bytes
<1>2. n \in Nat /\ n \in 0..LongestPush /\ n <= 75
  BY DEF LongestPush
<1>3. Len(Push(data)) = Len(HeadOf(n)) + n /\ Len(HeadOf(n)) = 1
  <2>1. Len(Push(data)) = Len(HeadOf(n)) + n
    BY <1>1, <1>2, PushIsBytes, Zenon
  <2>2. Len(HeadOf(n)) = IF n <= 75 THEN 1 ELSE IF n <= 255 THEN 2 ELSE 3
    BY <1>2, HeadIsBytes, Zenon
  <2>3. QED
    BY <1>2, <2>1, <2>2, Zenon
<1>4. data \in Pushable
  BY <1>1, <1>2 DEF Pushable
<1>5. QED
  BY <1>2, <1>3, <1>4

LEMMA TwoParts ==
  ASSUME NEW k \in TransactionKind
  PROVE  <<k, 0>> \in Bytes(2) /\ LittleEndian(<<k, 0>>) = k
BY DEF TransactionKind, Bytes, Byte, LittleEndian

LEMMA PartsAreBytes ==
  ASSUME NEW i \in Writable, NEW chunks \in Seq(Pushable)
  PROVE  /\ Parts(i, chunks) \in Seq(Seq(Byte))
         /\ Len(Parts(i, chunks)) = 10
         /\ Encode(i, chunks) = FlattenSeq(Parts(i, chunks))
<1>1. /\ i.tapscript_pubkey \in Pushable /\ <<i.kind, 0>> \in Pushable
      /\ i.signature \in Pushable /\ i.signer_pubkey \in Pushable /\ i.nonce \in Pushable
  <2>1. /\ i.tapscript_pubkey \in Bytes(32) /\ i.kind \in TransactionKind /\ i.nonce \in Bytes(8)
        /\ i.signature \in Pushable /\ i.signer_pubkey \in Pushable
    BY DEF Writable
  <2>2. 2 \in 0..75 /\ 8 \in 0..75 /\ 32 \in 0..75
    OBVIOUS
  <2>3. <<i.kind, 0>> \in Bytes(2)
    BY <2>1, TwoParts
  <2>4. QED
    BY <2>1, <2>2, <2>3, FewBytesArePushable, Zenon
<1>2. /\ Push(i.tapscript_pubkey) \in Seq(Byte) /\ Push(<<i.kind, 0>>) \in Seq(Byte)
      /\ Push(i.signature) \in Seq(Byte) /\ Push(i.signer_pubkey) \in Seq(Byte)
      /\ Push(i.nonce) \in Seq(Byte)
  BY <1>1, PushableIsWritten, Zenon
<1>3. FlattenSeq(ChunkPushes(chunks)) \in Seq(Byte)
  <2>1. ChunkPushes(chunks) \in Seq(Seq(Byte))
    BY ChunkPushesAreBytes
  <2>2. Len(ChunkPushes(chunks)) \in 0..Len(ChunkPushes(chunks))
    BY <2>1, LenProperties
  <2>3. QED
    BY <2>1, <2>2, FlattenPrefixes, Zenon
<1>4. /\ <<OP_CHECKSIGVERIFY>> \in Seq(Byte) /\ <<OP_FALSE, OP_IF>> \in Seq(Byte)
      /\ <<OP_ENDIF>> \in Seq(Byte) /\ <<OP_NIP>> \in Seq(Byte)
  BY DEF OP_CHECKSIGVERIFY, OP_FALSE, OP_IF, OP_ENDIF, OP_NIP, Byte
<1>5. ASSUME NEW T, NEW a \in T, NEW b \in T, NEW c \in T, NEW d \in T, NEW e \in T,
             NEW f \in T, NEW g \in T, NEW h \in T, NEW j \in T, NEW k \in T
      PROVE  <<a, b, c, d, e, f, g, h, j, k>> \in Seq(T) /\ Len(<<a, b, c, d, e, f, g, h, j, k>>) = 10
  OBVIOUS
<1>6. Parts(i, chunks) \in Seq(Seq(Byte)) /\ Len(Parts(i, chunks)) = 10
  BY <1>2, <1>3, <1>4, <1>5, Zenon DEF Parts
<1>7. Encode(i, chunks) = FlattenSeq(Parts(i, chunks))
  BY Zenon DEF Encode, Parts, ChunkPushes
<1>8. QED
  BY <1>6, <1>7

\* parse_tapscript gives back every inscription that was written, however its body was
\* cut into chunks and whatever the bytes of its fields look like.
THEOREM InscriptionIsReadBack ==
  ASSUME NEW i \in Writable, NEW chunks \in Seq(Pushable), FlattenSeq(chunks) = i.body
  PROVE  parse_tapscript(Encode(i, chunks)) = i
<1>1. PICK s, parts : /\ s = Encode(i, chunks) /\ parts = Parts(i, chunks)
                      /\ parts \in Seq(Seq(Byte)) /\ Len(parts) = 10 /\ s = FlattenSeq(parts)
  BY PartsAreBytes
<1>2. /\ s \in Seq(Byte)
      /\ At(parts, 1) = 1
      /\ \A n \in 1..10 : /\ At(parts, n) \in Nat \ {0}
                          /\ Lies(s, parts[n], At(parts, n))
                          /\ At(parts, n + 1) = At(parts, n) + Len(parts[n])
  BY <1>1, PartsLie
<1>3. /\ parts[1] = Push(i.tapscript_pubkey) /\ parts[2] = <<OP_CHECKSIGVERIFY>>
      /\ parts[3] = Push(<<i.kind, 0>>) /\ parts[4] = <<OP_FALSE, OP_IF>>
      /\ parts[5] = Push(i.signature) /\ parts[6] = Push(i.signer_pubkey)
      /\ parts[7] = FlattenSeq(ChunkPushes(chunks))
      /\ parts[8] = <<OP_ENDIF>> /\ parts[9] = Push(i.nonce) /\ parts[10] = <<OP_NIP>>
  BY <1>1 DEF Parts
<1>4. /\ i.tapscript_pubkey \in Bytes(32) /\ i.kind \in TransactionKind /\ i.nonce \in Bytes(8)
      /\ i.signature \in Pushable /\ i.signer_pubkey \in Pushable
      /\ <<i.kind, 0>> \in Bytes(2) /\ LittleEndian(<<i.kind, 0>>) = i.kind
  BY TwoParts DEF Writable
<1>5. /\ i.tapscript_pubkey \in Pushable /\ Len(Push(i.tapscript_pubkey)) = 33
      /\ <<i.kind, 0>> \in Pushable /\ Len(Push(<<i.kind, 0>>)) = 3
      /\ i.nonce \in Pushable
  <2>1. 2 \in 0..75 /\ 8 \in 0..75 /\ 32 \in 0..75 /\ 32 + 1 = 33 /\ 2 + 1 = 3
    OBVIOUS
  <2>2. QED
    BY <1>4, <2>1, FewBytesArePushable, Zenon
<1>6. ASSUME NEW n \in 1..10, NEW m, m = n + 1, NEW part, parts[n] = part
      PROVE  /\ At(parts, n) \in Nat \ {0}
             /\ Lies(s, part, At(parts, n))
             /\ At(parts, m) = At(parts, n) + Len(part)
  BY <1>2, <1>6, Zenon
<1>7. ASSUME NEW n \in 1..10, NEW m, m = n + 1, NEW data \in Pushable, parts[n] = Push(data)
      PROVE  /\ IsPush(s, At(parts, n)) /\ Data(s, At(parts, n)) = data
             /\ After(s, At(parts, n)) = At(parts, m)
             /\ At(parts, n) <= Len(s)
  <2>1. PICK p \in Nat \ {0} : /\ p = At(parts, n) /\ Lies(s, Push(data), p)
                               /\ At(parts, m) = p + Len(Push(data))
    BY <1>6, <1>7, Zenon
  <2>2. /\ IsPush(s, p) /\ Data(s, p) = data /\ p <= Len(s)
        /\ After(s, p) = p + Len(Push(data))
    BY <1>2, <2>1, PushIsRead, Zenon
  <2>3. QED
    BY <2>1, <2>2, Zenon
<1>8. /\ 2 = 1 + 1 /\ 3 = 2 + 1 /\ 4 = 3 + 1 /\ 5 = 4 + 1 /\ 6 = 5 + 1 /\ 7 = 6 + 1
      /\ 8 = 7 + 1 /\ 9 = 8 + 1 /\ 10 = 9 + 1 /\ \E m : m = 10 + 1
      /\ 1 \in 1..10 /\ 2 \in 1..10 /\ 3 \in 1..10 /\ 4 \in 1..10 /\ 5 \in 1..10 /\ 6 \in 1..10
      /\ 7 \in 1..10 /\ 8 \in 1..10 /\ 9 \in 1..10 /\ 10 \in 1..10
  OBVIOUS
<1>9. PICK a2 \in Nat, a3 \in Nat, a4 \in Nat, a5 \in Nat, a7 \in Nat, a8 \in Nat, a10 \in Nat :
        /\ a2 = At(parts, 2) /\ Lies(s, <<OP_CHECKSIGVERIFY>>, a2)
        /\ a3 = At(parts, 3) /\ a5 = At(parts, 5)
        /\ a4 = At(parts, 4) /\ Lies(s, <<OP_FALSE, OP_IF>>, a4)
        /\ a7 = At(parts, 7) /\ a7 # 0 /\ Lies(s, FlattenSeq(ChunkPushes(chunks)), a7)
        /\ a8 = At(parts, 8) /\ Lies(s, <<OP_ENDIF>>, a8)
        /\ a10 = At(parts, 10) /\ Lies(s, <<OP_NIP>>, a10)
  <2>1. /\ At(parts, 2) \in Nat /\ At(parts, 3) \in Nat /\ At(parts, 4) \in Nat
        /\ At(parts, 5) \in Nat /\ At(parts, 7) \in Nat \ {0} /\ At(parts, 8) \in Nat
        /\ At(parts, 10) \in Nat
    BY ONLY <1>2, <1>8
  <2>2. /\ Lies(s, <<OP_CHECKSIGVERIFY>>, At(parts, 2)) /\ Lies(s, <<OP_FALSE, OP_IF>>, At(parts, 4))
        /\ Lies(s, FlattenSeq(ChunkPushes(chunks)), At(parts, 7))
    BY ONLY <1>3, <1>6, <1>8, Zenon
  <2>3. Lies(s, <<OP_ENDIF>>, At(parts, 8)) /\ Lies(s, <<OP_NIP>>, At(parts, 10))
    BY ONLY <1>2, <1>3, <1>8, Zenon
  <2>4. QED
    BY <2>1, <2>2, <2>3
<1>10. /\ Len(<<OP_CHECKSIGVERIFY>>) = 1 /\ Len(<<OP_FALSE, OP_IF>>) = 2 /\ Len(<<OP_ENDIF>>) = 1
  OBVIOUS
<1>11. /\ a2 = 1 + 33 /\ a3 = a2 + 1 /\ a4 = a3 + 3 /\ a5 = a4 + 2
       /\ a8 = a7 + Len(FlattenSeq(ChunkPushes(chunks))) /\ At(parts, 9) = a8 + 1
  <2>1. At(parts, 2) = At(parts, 1) + Len(Push(i.tapscript_pubkey))
    BY <1>3, <1>6, <1>8, Zenon
  <2>2. At(parts, 3) = At(parts, 2) + Len(<<OP_CHECKSIGVERIFY>>)
    BY <1>3, <1>6, <1>8, Zenon
  <2>3. At(parts, 4) = At(parts, 3) + Len(Push(<<i.kind, 0>>))
    BY <1>3, <1>6, <1>8, Zenon
  <2>4. At(parts, 5) = At(parts, 4) + Len(<<OP_FALSE, OP_IF>>)
    BY <1>3, <1>6, <1>8, Zenon
  <2>5. At(parts, 8) = At(parts, 7) + Len(FlattenSeq(ChunkPushes(chunks)))
    BY <1>3, <1>6, <1>8, Zenon
  <2>6. At(parts, 9) = At(parts, 8) + Len(<<OP_ENDIF>>)
    BY <1>3, <1>6, <1>8, Zenon
  <2>7. a2 = 1 + 33 /\ a3 = a2 + 1 /\ a4 = a3 + 3 /\ a5 = a4 + 2
    BY ONLY <1>2, <1>5, <1>9, <1>10, <2>1, <2>2, <2>3, <2>4, Zenon
  <2>8. a8 = a7 + Len(FlattenSeq(ChunkPushes(chunks))) /\ At(parts, 9) = a8 + 1
    BY ONLY <1>9, <1>10, <2>5, <2>6, Zenon
  <2>9. QED
    BY <2>7, <2>8
<1>12. /\ IsPush(s, 1) /\ Data(s, 1) = i.tapscript_pubkey /\ After(s, 1) = a2
       /\ IsPush(s, a3) /\ Data(s, a3) = <<i.kind, 0>> /\ After(s, a3) = a4
  <2>1. /\ IsPush(s, At(parts, 1)) /\ Data(s, At(parts, 1)) = i.tapscript_pubkey
        /\ After(s, At(parts, 1)) = At(parts, 2)
    <3>1. 1 \in 1..10 /\ 2 = 1 + 1 /\ parts[1] = Push(i.tapscript_pubkey)
      BY <1>3
    <3>2. QED
      BY ONLY <1>5, <1>7, <3>1, Zenon
  <2>2. /\ IsPush(s, At(parts, 3)) /\ Data(s, At(parts, 3)) = <<i.kind, 0>>
        /\ After(s, At(parts, 3)) = At(parts, 4)
    <3>1. 3 \in 1..10 /\ 4 = 3 + 1 /\ parts[3] = Push(<<i.kind, 0>>)
      BY <1>3
    <3>2. QED
      BY ONLY <1>5, <1>7, <3>1, Zenon
  <2>3. QED
    BY <1>2, <1>9, <2>1, <2>2, Zenon
<1>13. PICK a6 : /\ IsPush(s, a5) /\ Data(s, a5) = i.signature /\ After(s, a5) = a6 /\ a5 <= Len(s)
                 /\ IsPush(s, a6) /\ Data(s, a6) = i.signer_pubkey /\ After(s, a6) = a7
  <2>1. /\ IsPush(s, At(parts, 5)) /\ Data(s, At(parts, 5)) = i.signature
        /\ After(s, At(parts, 5)) = At(parts, 6) /\ At(parts, 5) <= Len(s)
    <3>1. 5 \in 1..10 /\ 6 = 5 + 1 /\ parts[5] = Push(i.signature)
      BY <1>3
    <3>2. QED
      BY ONLY <1>4, <1>7, <3>1, Zenon
  <2>2. /\ IsPush(s, At(parts, 6)) /\ Data(s, At(parts, 6)) = i.signer_pubkey
        /\ After(s, At(parts, 6)) = At(parts, 7)
    <3>1. 6 \in 1..10 /\ 7 = 6 + 1 /\ parts[6] = Push(i.signer_pubkey)
      BY <1>3
    <3>2. QED
      BY ONLY <1>4, <1>7, <3>1, Zenon
  <2>3. QED
    BY <1>9, <2>1, <2>2, Zenon
<1>14. PICK a9 : /\ a9 = At(parts, 9)
                 /\ IsPush(s, a9) /\ Data(s, a9) = i.nonce /\ After(s, a9) = a10
  <2>1. 9 \in 1..10 /\ 10 = 9 + 1 /\ parts[9] = Push(i.nonce)
    BY <1>3
  <2>2. /\ IsPush(s, At(parts, 9)) /\ Data(s, At(parts, 9)) = i.nonce
        /\ After(s, At(parts, 9)) = At(parts, 10)
    BY ONLY <1>5, <1>7, <2>1, Zenon
  <2>3. QED
    BY <1>9, <2>2, Zenon
<1>15. /\ Is(s, a2, OP_CHECKSIGVERIFY) /\ Is(s, a8, OP_ENDIF) /\ Is(s, a10, OP_NIP)
  BY <1>2, <1>9, ByteLies
<1>16. Is(s, a4, OP_FALSE) /\ Is(s, a4 + 1, OP_IF)
  <2>1. a4 + 2 <= Len(s) + 1 /\ \A n \in 1..2 : s[a4 + n - 1] = <<OP_FALSE, OP_IF>>[n]
    BY <1>9 DEF Lies
  <2>2. a4 + 1 - 1 = a4 /\ a4 + 2 - 1 = a4 + 1 /\ Len(s) \in Nat
    BY <1>2, LenProperties
  <2>3. s[a4] = OP_FALSE /\ s[a4 + 1] = OP_IF
    BY <2>1, <2>2
  <2>4. a4 <= Len(s) /\ a4 + 1 <= Len(s)
    BY <2>1, <2>2
  <2>5. QED
    BY <2>3, <2>4 DEF Is
<1>17. Chunks(s, a7) = [body |-> i.body, end |-> a8]
  <2>1. a7 \in Nat \ {0}
    BY <1>9
  <2>2. Is(s, a7 + Len(FlattenSeq(ChunkPushes(chunks))), OP_ENDIF)
    BY <1>11, <1>15
  <2>3. QED
    BY <1>2, <1>9, <1>11, <2>1, <2>2, BodyIsRead
<1>18. Len(s) >= 40
  <2>1. Len(s) \in Nat
    BY <1>2, LenProperties
  <2>2. QED
    BY <1>11, <1>13, <2>1
<1>19. Nonce(i.nonce) = i.nonce
  <2>1. i.nonce \in Seq(Byte) /\ Len(i.nonce) = 8
    BY <1>4 DEF Bytes
  <2>2. i.nonce = [k \in 1..8 |-> i.nonce[k]]
    BY <2>1, LenProperties
  <2>3. Nonce(i.nonce) = [k \in 1..8 |-> i.nonce[k]]
    BY <2>1 DEF Nonce
  <2>4. QED
    BY <2>2, <2>3
<1>20. PICK found : /\ found = Chunks(s, a7) /\ found # Absent
                    /\ found.body = i.body /\ found.end = a8
  <2>1. [body |-> i.body, end |-> a8] # Absent
    <3>1. i.body \in Seq(Byte)
      BY DEF Writable
    <3>2. QED
      BY <3>1, AbsentAssumption DEF Byte
  <2>2. QED
    BY <1>17, <2>1
<1>21. Len(i.tapscript_pubkey) = 32 /\ Len(<<i.kind, 0>>) = 2
  BY <1>4 DEF Bytes
<1>22. parse_tapscript(s) =
         [ tapscript_pubkey |-> i.tapscript_pubkey, kind |-> i.kind, signature |-> i.signature,
           signer_pubkey |-> i.signer_pubkey, body |-> i.body, nonce |-> i.nonce ]
  BY <1>4, <1>9, <1>11, <1>12, <1>13, <1>14, <1>15, <1>16, <1>18, <1>19, <1>20, <1>21, Zenon
  DEF parse_tapscript
<1>23. i = [ tapscript_pubkey |-> i.tapscript_pubkey, kind |-> i.kind, signature |-> i.signature,
             signer_pubkey |-> i.signer_pubkey, body |-> i.body, nonce |-> i.nonce ]
  BY DEF Writable
<1>24. QED
  BY <1>1, <1>22, <1>23

-----------------------------------------------------------------------------
\* Numbers in their order.

Below(S, k) == {j \in S : j < k}

\* The place of an element is the number of those below it.
LEMMA Places ==
  ASSUME NEW S \in SUBSET Nat, IsFiniteSet(S)
  PROVE  /\ Cardinality(S) \in Nat
         /\ \A k \in S : Cardinality(Below(S, k)) \in 0..(Cardinality(S) - 1)
         /\ \A j, k \in S : j < k => Cardinality(Below(S, j)) < Cardinality(Below(S, k))
<1>1. Cardinality(S) \in Nat
  BY FS_CardinalityType
<1>2. ASSUME NEW T \in SUBSET S, NEW U \in SUBSET T, NEW x \in T, x \notin U
      PROVE  Cardinality(U) \in Nat /\ Cardinality(U) < Cardinality(T)
  <2>1. IsFiniteSet(T)
    BY FS_Subset
  <2>2. /\ IsFiniteSet(U) /\ Cardinality(U) <= Cardinality(T)
        /\ Cardinality(T) = Cardinality(U) => T = U
    BY <2>1, FS_Subset
  <2>3. Cardinality(T) \in Nat /\ Cardinality(U) \in Nat
    BY <2>1, <2>2, FS_CardinalityType
  <2> QED BY <1>2, <2>2, <2>3
<1>3. ASSUME NEW k \in S PROVE Cardinality(Below(S, k)) \in 0..(Cardinality(S) - 1)
  <2>1. Below(S, k) \in SUBSET S /\ k \notin Below(S, k)
    BY DEF Below
  <2>2. Cardinality(Below(S, k)) \in Nat /\ Cardinality(Below(S, k)) < Cardinality(S)
    BY <1>2, <2>1
  <2> QED BY <1>1, <2>2
<1>4. ASSUME NEW j \in S, NEW k \in S, j < k
      PROVE  Cardinality(Below(S, j)) < Cardinality(Below(S, k))
  <2>1. j \in Nat /\ k \in Nat /\ S \subseteq Nat
    OBVIOUS
  <2>2. \A i \in S : i < j => i < k
    BY <1>4, <2>1
  <2>3. Below(S, j) \in SUBSET Below(S, k)
    BY <2>2 DEF Below
  <2>4. Below(S, k) \in SUBSET S /\ j \in Below(S, k) /\ j \notin Below(S, j)
    BY <1>4, <2>1 DEF Below
  <2> QED BY <1>2, <2>3, <2>4
<1> QED BY <1>1, <1>3, <1>4

\* Every place is some element's.
LEMMA EveryPlaceTaken ==
  ASSUME NEW S \in SUBSET Nat, IsFiniteSet(S), NEW n \in 0..(Cardinality(S) - 1)
  PROVE  \E k \in S : Cardinality(Below(S, k)) = n
<1>1. PICK C : C = Cardinality(S) /\ C \in Nat
  BY Places
<1> DEFINE T == 0..(C - 1)
           place == [k \in S |-> Cardinality(Below(S, k))]
<1>2. IsFiniteSet(T) /\ Cardinality(T) = C
  BY <1>1, FS_Interval
<1>3. \A j, k \in S : place[j] = place[k] => j = k
  <2> SUFFICES ASSUME NEW j \in S, NEW k \in S, j # k PROVE place[j] # place[k]
    OBVIOUS
  <2>1. j \in Nat /\ k \in Nat /\ place[j] \in Nat /\ place[k] \in Nat
    BY Places
  <2>2. CASE j < k
    BY <2>1, <2>2, Places
  <2>3. CASE k < j
    BY <2>1, <2>3, Places
  <2> QED BY <2>1, <2>2, <2>3
<1>4. place \in Injection(S, T)
  <2>1. place \in [S -> T]
    BY <1>1, Places
  <2> HIDE DEF place, T
  <2> QED BY <1>3, <2>1 DEF Injection, IsInjective
<1>5. place \in Surjection(S, T)
  <2> HIDE DEF place, T
  <2> QED BY <1>1, <1>2, <1>4, FS_Injection
<1>6. \E k \in S : place[k] = n
  <2>1. n \in T
    BY <1>1
  <2> HIDE DEF place, T
  <2> QED BY <1>5, <2>1 DEF Surjection
<1> QED BY <1>6

\* Ascending has every element of a finite set of numbers once, the smaller first.
LEMMA AscendingOrder ==
  ASSUME NEW S \in SUBSET Nat, IsFiniteSet(S)
  PROVE  /\ Ascending(S) \in Seq(S)
         /\ \A k \in S : \E n \in 1..Len(Ascending(S)) : Ascending(S)[n] = k
         /\ \A m, n \in 1..Len(Ascending(S)) : m < n => Ascending(S)[m] < Ascending(S)[n]
<1>1. PICK C : C = Cardinality(S) /\ C \in Nat
  BY Places
<1>2. PICK order : order = Ascending(S)
  OBVIOUS
<1>3. ASSUME NEW n \in 1..C
      PROVE  order[n] \in S /\ Cardinality(Below(S, order[n])) = n - 1
  <2>1. n - 1 \in 0..(C - 1)
    BY <1>1
  <2>2. \E k \in S : Cardinality(Below(S, k)) = n - 1
    BY <1>1, <2>1, EveryPlaceTaken
  <2>3. order[n] = CHOOSE k \in S : Cardinality(Below(S, k)) = n - 1
    BY <1>1, <1>2 DEF Ascending, Below
  <2> QED BY <2>2, <2>3
<1>4. order \in Seq(S) /\ Len(order) = C
  <2> DEFINE nth(n) == CHOOSE k \in S : Cardinality({j \in S : j < k}) = n - 1
  <2>1. order = [n \in 1..C |-> nth(n)]
    BY <1>1, <1>2 DEF Ascending
  <2> HIDE DEF nth
  <2>2. order \in [1..C -> S]
    BY <1>3, <2>1
  <2> QED BY <1>1, <2>2
<1>5. ASSUME NEW k \in S PROVE \E n \in 1..C : order[n] = k
  <2>1. PICK p \in 0..(C - 1) : p = Cardinality(Below(S, k))
    BY <1>1, Places
  <2>2. p + 1 \in 1..C
    BY <1>1
  <2>3. order[p + 1] \in S /\ Cardinality(Below(S, order[p + 1])) = p
    BY <1>3, <2>2
  <2>4. PICK q \in S : q = order[p + 1]
    BY <2>3
  <2>5. Cardinality(Below(S, q)) = p /\ p \in Nat /\ q \in Nat /\ k \in Nat
    BY <1>1, <2>3, <2>4
  <2>6. ~(q < k)
    BY <2>1, <2>5, Places
  <2>7. ~(k < q)
    BY <2>1, <2>5, Places
  <2>8. q = k
    BY <2>5, <2>6, <2>7
  <2> QED BY <2>2, <2>4, <2>8
<1>6. ASSUME NEW m \in 1..C, NEW n \in 1..C, m < n PROVE order[m] < order[n]
  <2>1. /\ order[m] \in S /\ Cardinality(Below(S, order[m])) = m - 1
        /\ order[n] \in S /\ Cardinality(Below(S, order[n])) = n - 1
    BY <1>3
  <2>2. order[m] \in Nat /\ order[n] \in Nat
    BY <2>1
  <2>3. CASE order[n] < order[m]
    <3>1. n - 1 < m - 1
      BY <2>1, <2>3, Places
    <3> QED BY <1>1, <1>6, <3>1
  <2>4. CASE order[n] = order[m]
    BY <1>1, <1>6, <2>1, <2>4
  <2> QED BY <2>2, <2>3, <2>4
<1> QED BY <1>2, <1>4, <1>5, <1>6

-----------------------------------------------------------------------------
(***************************************************************************)
(* The words of a state diff, and what is read of them.                    *)
(***************************************************************************)
\* A set of numbers has a least one.
LEMMA LeastOf ==
  ASSUME NEW n \in Nat, NEW T \in SUBSET (0..n), T # {}
  PROVE  \E k \in T : \A j \in T : k <= j
<1>1. SUFFICES ASSUME \A k \in T : \E j \in T : j < k
               PROVE  FALSE
  <2>1. ASSUME NEW k \in T, ~(\A j \in T : k <= j) PROVE \E j \in T : j < k
    BY <2>1
  <2>2. QED
    BY <2>1
<1> DEFINE S == {m \in 0..n : \A j \in 0..m : j \notin T}
<1>2. 0 \in S
  <2>1. 0 \notin T
    BY <1>1
  <2>2. QED
    BY <2>1
<1>3. \A m \in 0..(n-1) : m \in S => m + 1 \in S
  <2>1. SUFFICES ASSUME NEW m \in 0..(n-1), m \in S PROVE m + 1 \in S
    OBVIOUS
  <2>2. m + 1 \notin T
    BY <1>1, <2>1
  <2>3. \A j \in 0..(m+1) : j \in 0..m \/ j = m + 1
    BY <2>1
  <2>4. QED
    BY <2>1, <2>2, <2>3
<1>4. \A m \in 0..n : m \in S
  <2> HIDE DEF S
  <2>1. QED
    BY <1>2, <1>3, AllUpTo
<1>5. PICK k \in T : TRUE
  OBVIOUS
<1>6. QED
  BY <1>4, <1>5

LEMMA WordBytes ==
  ASSUME NEW w \in Bytes(32)
  PROVE  /\ w \in Seq(Byte) /\ Len(w) = 32 /\ DOMAIN w = 1..32
         /\ w = [k \in 1..32 |-> w[k]]
         /\ \A k \in 1..32 : w[k] \in Byte
<1>1. w \in Seq(Byte) /\ Len(w) = 32
  BY DEF Bytes
<1>2. DOMAIN w = 1..32 /\ w = [k \in 1..Len(w) |-> w[k]] /\ \A k \in 1..Len(w) : w[k] \in Byte
  BY <1>1, LenProperties, ElementOfSeq
<1>3. QED
  BY <1>1, <1>2

LEMMA ZeroBytes ==
  ASSUME NEW n \in Nat
  PROVE  /\ Zeros(n) \in Bytes(n) /\ Len(Zeros(n)) = n
         /\ \A k \in 1..n : Zeros(n)[k] = 0
<1>1. Zeros(n) = [k \in 1..n |-> 0] /\ 0 \in Byte
  BY DEF Zeros, Byte
<1>2. Zeros(n) \in Seq(Byte) /\ Len(Zeros(n)) = n
  BY <1>1
<1>3. QED
  BY <1>1, <1>2 DEF Bytes

\* What is stripped of a number is what is in front of its first digit.
LEMMA StrippedFrom ==
  ASSUME NEW s \in Seq(Byte), NEW first \in 1..Len(s), s[first] # 0,
         \A j \in 1..Len(s) : j < first => s[j] = 0
  PROVE  Stripped(s) = SubSeq(s, first, Len(s))
<1>1. PICK digits : digits = {k \in DOMAIN s : s[k] # 0}
  OBVIOUS
<1>2. Len(s) \in Nat /\ DOMAIN s = 1..Len(s)
  OBVIOUS
<1>3. first \in digits /\ \A j \in digits : first <= j
  BY <1>1, <1>2
<1>4. PICK least : least = CHOOSE k \in digits : \A j \in digits : k <= j
  OBVIOUS
<1>5. least \in digits /\ \A j \in digits : least <= j
  BY <1>3, <1>4
<1>6. least = first
  <2>1. \A k \in digits : k \in Nat
    BY <1>1, <1>2
  <2>2. least <= first /\ first <= least /\ least \in Nat /\ first \in Nat
    BY <1>3, <1>5, <2>1
  <2>3. QED
    BY <2>2
<1>7. digits # {}
  BY <1>3
<1>8. Stripped(s) = SubSeq(s, least, Len(s))
  BY <1>1, <1>4, <1>7 DEF Stripped
<1>9. QED
  BY <1>6, <1>8

\* A word comes out of a state diff as it went in, unless it is zero.
LEMMA WordIsReadBack ==
  ASSUME NEW w \in Bytes(32), w # Zeros(32)
  PROVE  Trimmed(w) \in Seq(Byte) /\ Trimmed(w) # <<>> /\ Word(Trimmed(w)) = w
<1>1. /\ w \in Seq(Byte) /\ Len(w) = 32 /\ DOMAIN w = 1..32
      /\ w = [k \in 1..32 |-> w[k]]
  BY WordBytes
<1>2. PICK digits : digits = {k \in 1..32 : w[k] # 0}
  OBVIOUS
<1>3. digits # {}
  <2>1. SUFFICES ASSUME digits = {} PROVE w = Zeros(32)
    OBVIOUS
  <2>2. \A k \in 1..32 : w[k] = 0
    BY <1>2, <2>1
  <2>3. QED
    BY <1>1, <2>2 DEF Zeros
<1>4. PICK first \in digits : \A j \in digits : first <= j
  <2>1. digits \in SUBSET (0..32) /\ 32 \in Nat
    BY <1>2
  <2>2. QED
    BY <1>3, <2>1, LeastOf
<1>5. first \in 1..32 /\ w[first] # 0 /\ \A j \in 1..32 : j < first => w[j] = 0
  BY <1>2, <1>4
<1>6. PICK s : s = Stripped(w)
  OBVIOUS
<1>7. s = SubSeq(w, first, 32)
  BY <1>1, <1>5, <1>6, StrippedFrom
<1>8. Len(s) = 33 - first /\ \A k \in 1..(33 - first) : s[k] = w[first + k - 1]
  <2>1. 1 \in Nat /\ first \in 1..(Len(w) + 1) /\ 32 \in (first - 1)..Len(w)
    BY <1>1, <1>5
  <2>2. /\ Len(SubSeq(w, first, 32)) = IF first <= 32 THEN 32 - first + 1 ELSE 0
        /\ \A k \in 1..(32 - first + 1) : SubSeq(w, first, 32)[k] = w[first + k - 1]
    BY <1>1, <2>1, SubSeqProperties
  <2>3. 32 - first + 1 = 33 - first /\ first <= 32
    BY <1>5
  <2>4. QED
    BY <1>7, <2>2, <2>3
<1>9. PICK t : t = Trimmed(w)
  OBVIOUS
<1>10. t = [k \in 1..(33 - first) |-> s[(33 - first) - k + 1]]
  BY <1>6, <1>8, <1>9 DEF Trimmed, Reverse
<1>11. /\ Len(t) = 33 - first
       /\ \A k \in 1..(33 - first) : t[k] = w[33 - k]
  <2>1. Len(t) = 33 - first
    BY <1>5, <1>10
  <2>2. \A k \in 1..(33 - first) :
          /\ (33 - first) - k + 1 \in 1..(33 - first)
          /\ first + ((33 - first) - k + 1) - 1 = 33 - k
    BY <1>5
  <2>3. QED
    BY <1>8, <1>10, <2>1, <2>2
<1>12. t # <<>>
  <2>1. Len(t) # 0
    BY <1>5, <1>11
  <2>2. QED
    BY <2>1
<1>13. Word(t) = w
  <2>1. Word(t) = [k \in 1..32 |-> IF 33 - k <= 33 - first THEN t[33 - k] ELSE 0]
    BY <1>11 DEF Word
  <2>2. ASSUME NEW k \in 1..32
        PROVE  (IF 33 - k <= 33 - first THEN t[33 - k] ELSE 0) = w[k]
    <3>1. CASE 33 - k <= 33 - first
      <4>1. 33 - k \in 1..(33 - first) /\ 33 - (33 - k) = k
        BY <1>5, <3>1
      <4>2. QED
        BY <1>11, <3>1, <4>1
    <3>2. CASE ~(33 - k <= 33 - first)
      BY <1>5, <3>2
    <3>3. QED
      BY <3>1, <3>2
  <2>3. QED
    BY <1>1, <2>1, <2>2
<1>14. t \in Seq(Byte)
  <2>1. \A k \in 1..(33 - first) : t[k] \in Byte
    <3>1. \A k \in 1..(33 - first) : 33 - k \in 1..32
      BY <1>5
    <3>2. \A k \in 1..32 : w[k] \in Byte
      BY WordBytes
    <3>3. QED
      BY <1>11, <3>1, <3>2
  <2>2. t = [k \in 1..(33 - first) |-> t[k]] /\ 33 - first \in Nat
    BY <1>5, <1>10
  <2>3. t \in [1..(33 - first) -> Byte]
    BY <2>1, <2>2, Zenon
  <2>4. QED
    BY <2>2, <2>3
<1>15. QED
  BY <1>9, <1>12, <1>13, <1>14

\* Numbers without zeros in front.
Digits(n) == {d \in Seq(Byte) : Len(d) \in 1..n /\ d[1] # 0}

\* What contracts store in fields of each type.
Types == {"Address", "Uint256", "Bool", "Bytes32", "SolString", "StepState"}

StoredAs(type) ==
  CASE type = "Address"   -> {AddressValue(a) : a \in Bytes(20)}
    [] type = "Uint256"   -> {NumberValue(n) : n \in Digits(16)}
                               \cup {LargeValue(w) : w \in {x \in Bytes(32) : \E k \in 1..16 : x[k] # 0}}
    [] type = "Bool"      -> {BoolValue}
    [] type = "Bytes32"   -> {KeyValue(w) : w \in Bytes(32)}
    [] type = "SolString" -> {TextValue(t) : t \in {u \in Utf8 \cap Seq(Byte) : Len(u) \in 1..31}}
                               \cup {LongTextValue(n) : n \in Digits(8)}
    [] type = "StepState" -> {StepValue(n, a) : n \in 0..2, a \in Bytes(20)}

LEMMA Joined ==
  ASSUME NEW u \in Seq(Byte), NEW v \in Seq(Byte)
  PROVE  /\ u \o v \in Seq(Byte) /\ Len(u \o v) = Len(u) + Len(v)
         /\ \A k \in 1..Len(u) : (u \o v)[k] = u[k]
         /\ \A k \in 1..Len(v) : (u \o v)[Len(u) + k] = v[k]
<1>1. PICK l \in Nat, m \in Nat : l = Len(u) /\ m = Len(v)
  BY LenProperties
<1>2. u \o v \in Seq(Byte) /\ Len(u \o v) = l + m
  BY <1>1, ConcatProperties
<1>3. \A k \in 1..(l + m) : (u \o v)[k] = IF k <= l THEN u[k] ELSE v[k - l]
  BY <1>1, ConcatProperties
<1>4. \A k \in 1..l : (u \o v)[k] = u[k]
  <2>1. \A k \in 1..l : k \in 1..(l + m) /\ k <= l
    BY <1>1
  <2>2. QED
    BY <1>3, <2>1
<1>5. \A k \in 1..m : (u \o v)[l + k] = v[k]
  <2>1. SUFFICES ASSUME NEW k \in 1..m PROVE (u \o v)[l + k] = v[k]
    OBVIOUS
  <2>2. l + k \in 1..(l + m) /\ ~(l + k <= l) /\ (l + k) - l = k
    BY <1>1
  <2>3. QED
    BY <1>3, <2>2
<1>6. QED
  BY <1>1, <1>2, <1>4, <1>5

\* The part of a word that a field is in.
LEMMA PartOf ==
  ASSUME NEW s \in Seq(Byte), NEW l \in Nat, NEW v \in Seq(Byte), l + Len(v) <= Len(s),
         \A k \in 1..Len(v) : s[l + k] = v[k]
  PROVE  SubSeq(s, l + 1, l + Len(v)) = v
<1>1. PICK m : m = Len(v) /\ m \in Nat
  OBVIOUS
<1>2. PICK t : t = SubSeq(s, l + 1, l + m)
  OBVIOUS
<1>3. \A k \in (l + 1)..(l + m) : s[k] \in Byte
  <2>1. \A k \in 1..Len(s) : s[k] \in Byte
    BY ElementOfSeq
  <2>2. \A k \in (l + 1)..(l + m) : k \in 1..Len(s)
    BY <1>1
  <2>3. QED
    BY <2>1, <2>2
<1>4. /\ t \in Seq(Byte)
      /\ Len(t) = IF l + 1 <= l + m THEN (l + m) - (l + 1) + 1 ELSE 0
      /\ \A k \in 1..((l + m) - (l + 1) + 1) : t[k] = s[(l + 1) + k - 1]
  <2>1. l + 1 \in Int /\ l + m \in Int
    BY <1>1
  <2>2. QED
    BY <1>2, <1>3, <2>1, SubSeqProperties
<1>5. Len(t) = m /\ (l + m) - (l + 1) + 1 = m
  BY <1>1, <1>4
<1>6. \A k \in 1..m : t[k] = v[k]
  <2>1. SUFFICES ASSUME NEW k \in 1..m PROVE t[k] = v[k]
    OBVIOUS
  <2>2. (l + 1) + k - 1 = l + k
    BY <1>1
  <2>3. QED
    BY <1>1, <1>4, <1>5, <2>2
<1>7. QED
  BY <1>1, <1>2, <1>4, <1>5, <1>6, SeqEqual

\* decode_bytes goes by the type.
LEMMA ByType ==
  ASSUME NEW w
  PROVE  /\ DecodeBytes("Address", w) = DecodeAddress(w)
         /\ DecodeBytes("Uint256", w) = DecodeUint256(w)
         /\ DecodeBytes("Bool", w) = DecodeBool(w)
         /\ DecodeBytes("Bytes32", w) = Decode("Bytes32", w)
         /\ DecodeBytes("SolString", w) = DecodeSolString(w)
         /\ DecodeBytes("StepState", w) = DecodeStepState(w)
BY DEF DecodeBytes

\* What is put behind zeros.
LEMMA BehindZeros ==
  ASSUME NEW l \in Nat, NEW v \in Seq(Byte)
  PROVE  /\ Zeros(l) \o v \in Seq(Byte) /\ Len(Zeros(l) \o v) = l + Len(v)
         /\ \A k \in 1..l : (Zeros(l) \o v)[k] = 0
         /\ \A k \in 1..Len(v) : (Zeros(l) \o v)[l + k] = v[k]
         /\ SubSeq(Zeros(l) \o v, l + 1, l + Len(v)) = v
<1>1. PICK z, w : z = Zeros(l) /\ w = z \o v
  OBVIOUS
<1>2. z \in Seq(Byte) /\ Len(z) = l /\ \A k \in 1..l : z[k] = 0
  <2>1. z \in Bytes(l) /\ Len(z) = l /\ \A k \in 1..l : z[k] = 0
    BY <1>1, ZeroBytes
  <2>2. QED
    BY <2>1 DEF Bytes
<1>4. /\ w \in Seq(Byte) /\ Len(w) = l + Len(v)
      /\ \A k \in 1..l : w[k] = z[k]
      /\ \A k \in 1..Len(v) : w[l + k] = v[k]
  <2>1. /\ z \o v \in Seq(Byte) /\ Len(z \o v) = Len(z) + Len(v)
        /\ \A k \in 1..Len(z) : (z \o v)[k] = z[k]
        /\ \A k \in 1..Len(v) : (z \o v)[Len(z) + k] = v[k]
    BY <1>2, Joined, Zenon
  <2>2. QED
    BY <1>1, <1>2, <2>1
<1>5. SubSeq(w, l + 1, l + Len(v)) = v
  <2>1. l + Len(v) <= Len(w)
    BY <1>4
  <2>2. QED
    BY <1>4, <2>1, PartOf
<1>6. QED
  BY <1>1, <1>2, <1>4, <1>5

\* And its digits, if it has any.
LEMMA DigitsBehindZeros ==
  ASSUME NEW l \in Nat, NEW v \in Seq(Byte), Len(v) # 0, v[1] # 0
  PROVE  Stripped(Zeros(l) \o v) = v
<1>0. PICK w : w = Zeros(l) \o v
  OBVIOUS
<1>1. /\ w \in Seq(Byte) /\ Len(w) = l + Len(v)
      /\ \A k \in 1..l : w[k] = 0
      /\ \A k \in 1..Len(v) : w[l + k] = v[k]
      /\ SubSeq(w, l + 1, l + Len(v)) = v
  BY <1>0, BehindZeros
<1>2. Len(v) \in Nat /\ 1 \in 1..Len(v)
  OBVIOUS
<1>3. PICK first : first = l + 1
  OBVIOUS
<1>4. first \in 1..Len(w) /\ w[first] # 0
  BY <1>1, <1>2, <1>3
<1>5. \A j \in 1..Len(w) : j < first => w[j] = 0
  <2>1. \A j \in 1..Len(w) : j < first => j \in 1..l
    BY <1>1, <1>2, <1>3
  <2>2. QED
    BY <1>1, <2>1
<1>6. Stripped(w) = SubSeq(w, first, Len(w))
  BY <1>1, <1>4, <1>5, StrippedFrom
<1>7. QED
  BY <1>0, <1>1, <1>3, <1>6

LEMMA AddressIsRead ==
  ASSUME NEW a \in Bytes(20)
  PROVE  /\ AddressValue(a).word \in Bytes(32)
         /\ DecodeBytes("Address", AddressValue(a).word) = AddressValue(a).decoded
<1>1. PICK w : w = Zeros(12) \o a
  OBVIOUS
<1>2. a \in Seq(Byte) /\ Len(a) = 20 /\ 12 \in Nat
  BY DEF Bytes
<1>3. w \in Seq(Byte) /\ Len(w) = 12 + Len(a) /\ SubSeq(w, 12 + 1, 12 + Len(a)) = a
  BY <1>1, <1>2, BehindZeros
<1>4. Len(w) = 32 /\ SubSeq(w, 13, 32) = a
  BY <1>2, <1>3
<1>5. DecodeBytes("Address", w) = Decode("Address", a)
  BY <1>4, ByType DEF DecodeAddress
<1>6. QED
  BY <1>1, <1>3, <1>4, <1>5 DEF AddressValue, Stored, Bytes

LEMMA NumberIsRead ==
  ASSUME NEW n \in Digits(16)
  PROVE  /\ NumberValue(n).word \in Bytes(32)
         /\ DecodeBytes("Uint256", NumberValue(n).word) = NumberValue(n).decoded
<1>2. n \in Seq(Byte) /\ Len(n) \in 1..16 /\ n[1] # 0
  BY DEF Digits
<1>1. PICK l, w : l = 32 - Len(n) /\ w = Zeros(l) \o n
  OBVIOUS
<1>3. l \in Nat /\ l + Len(n) = 32 /\ Len(n) # 0 /\ Len(n) <= 16
  <2>1. PICK m \in 1..16 : m = Len(n)
    BY <1>2
  <2>2. l = 32 - m
    BY <1>1, <2>1
  <2>3. l \in Nat /\ l + m = 32 /\ m # 0 /\ m <= 16
    BY ONLY m \in 1..16, <2>2, SMT
  <2>4. QED
    BY <2>1, <2>3, Zenon
<1>4. w \in Seq(Byte) /\ Len(w) = 32
  <2>1. w \in Seq(Byte) /\ Len(w) = l + Len(n)
    BY <1>1, <1>2, <1>3, BehindZeros
  <2>2. QED
    BY <1>3, <2>1
<1>5. Stripped(w) = n
  BY <1>1, <1>2, <1>3, DigitsBehindZeros
<1>6. DecodeBytes("Uint256", w) = Decode("Uint", n)
  <2>1. DecodeUint256(w) = Decode("Uint", n)
    BY <1>3, <1>5 DEF DecodeUint256
  <2>2. QED
    BY <2>1, ByType
<1>7. QED
  BY <1>1, <1>4, <1>6 DEF NumberValue, Stored, Bytes

LEMMA LargeIsRead ==
  ASSUME NEW w \in Bytes(32), NEW i \in 1..16, w[i] # 0
  PROVE  DecodeBytes("Uint256", w) = LargeValue(w).decoded
<1>1. w \in Seq(Byte) /\ Len(w) = 32
  BY DEF Bytes
<1>2. PICK first \in {k \in 1..32 : w[k] # 0} :
        \A j \in {k \in 1..32 : w[k] # 0} : first <= j
  <2>1. {k \in 1..32 : w[k] # 0} \in SUBSET (0..32) /\ 32 \in Nat /\ i \in {k \in 1..32 : w[k] # 0}
    OBVIOUS
  <2>2. QED
    BY <2>1, LeastOf
<1>3. first \in 1..16
  BY <1>2
<1>4. \A j \in 1..32 : j < first => w[j] = 0
  BY <1>2, <1>3
<1>5. Stripped(w) = SubSeq(w, first, 32)
  BY <1>1, <1>2, <1>4, StrippedFrom
<1>6. Len(SubSeq(w, first, 32)) = 33 - first
  BY <1>1, <1>3, SubSeqProperties
<1>7. ~(Len(Stripped(w)) <= 16)
  BY <1>3, <1>5, <1>6
<1>8. QED
  BY <1>7, ByType DEF DecodeUint256, LargeValue, Stored

LEMMA FlagIsRead ==
  /\ BoolValue.word \in Bytes(32)
  /\ DecodeBytes("Bool", BoolValue.word) = BoolValue.decoded
<1>1. PICK v, w : v = <<1>> /\ w = Zeros(31) \o v
  OBVIOUS
<1>2. v \in Seq(Byte) /\ Len(v) = 1 /\ v[1] = 1 /\ 31 \in Nat
  BY <1>1 DEF Byte
<1>3. w \in Seq(Byte) /\ Len(w) = 31 + Len(v) /\ \A k \in 1..Len(v) : w[31 + k] = v[k]
  BY <1>1, <1>2, BehindZeros
<1>4. Len(w) = 32 /\ w[32] = 1
  BY <1>2, <1>3
<1>5. w # Zeros(32)
  <2>1. Zeros(32)[32] = 0
    BY DEF Zeros
  <2>2. QED
    BY <1>4, <2>1
<1>6. DecodeBytes("Bool", w) = Decode("Bool", TRUE)
  BY <1>5, ByType DEF DecodeBool
<1>7. QED
  BY <1>1, <1>3, <1>4, <1>6 DEF BoolValue, Stored, Bytes

\* A byte at the end.
LEMMA OneMoreByte ==
  ASSUME NEW u \in Seq(Byte), NEW n \in Byte
  PROVE  /\ u \o <<n>> \in Seq(Byte) /\ Len(u \o <<n>>) = Len(u) + 1
         /\ \A k \in 1..Len(u) : (u \o <<n>>)[k] = u[k]
         /\ (u \o <<n>>)[Len(u) + 1] = n
<1>1. PICK v : v = <<n>>
  OBVIOUS
<1>2. v \in Seq(Byte) /\ Len(v) = 1 /\ v[1] = n /\ 1 \in 1..Len(v)
  BY <1>1
<1>3. /\ u \o v \in Seq(Byte) /\ Len(u \o v) = Len(u) + Len(v)
      /\ \A k \in 1..Len(u) : (u \o v)[k] = u[k]
      /\ \A k \in 1..Len(v) : (u \o v)[Len(u) + k] = v[k]
  BY <1>2, Joined
<1>4. QED
  BY <1>1, <1>2, <1>3

LEMMA StepIsRead ==
  ASSUME NEW n \in 0..2, NEW a \in Bytes(20)
  PROVE  /\ StepValue(n, a).word \in Bytes(32)
         /\ DecodeBytes("StepState", StepValue(n, a).word) = StepValue(n, a).decoded
<1>1. PICK u, w : u = Zeros(11) \o a /\ w = u \o <<n>>
  OBVIOUS
<1>2. a \in Seq(Byte) /\ Len(a) = 20 /\ 11 \in Nat /\ n \in Byte
  BY DEF Bytes, Byte
<1>3. u \in Seq(Byte) /\ Len(u) = 11 + Len(a) /\ \A k \in 1..Len(a) : u[11 + k] = a[k]
  BY <1>1, <1>2, BehindZeros
<1>4. /\ w \in Seq(Byte) /\ Len(w) = Len(u) + 1
      /\ \A k \in 1..Len(u) : w[k] = u[k]
      /\ w[Len(u) + 1] = n
  BY <1>1, <1>2, <1>3, OneMoreByte
<1>5. Len(u) = 31 /\ Len(w) = 32 /\ w[32] = n
  BY <1>2, <1>3, <1>4
<1>6. \A k \in 1..Len(a) : w[11 + k] = a[k]
  <2>1. \A k \in 1..20 : 11 + k \in 1..31
    OBVIOUS
  <2>2. QED
    BY <1>2, <1>3, <1>4, <1>5, <2>1
<1>7. SubSeq(w, 11 + 1, 11 + Len(a)) = a
  <2>1. 11 + Len(a) <= Len(w)
    BY <1>2, <1>5
  <2>2. QED
    BY <1>2, <1>4, <1>6, <2>1, PartOf
<1>8. SubSeq(w, 12, 31) = a
  BY <1>2, <1>7
<1>9. DecodeBytes("StepState", w) = Decode("StepState", [status |-> Status[n], actor |-> a])
  BY <1>5, <1>8, ByType DEF DecodeStepState
<1>10. QED
  BY <1>1, <1>4, <1>5, <1>9 DEF StepValue, Stored, Bytes

LEMMA TextIsRead ==
  ASSUME NEW t \in Utf8 \cap Seq(Byte), Len(t) \in 1..31
  PROVE  /\ TextValue(t).word \in Bytes(32)
         /\ DecodeBytes("SolString", TextValue(t).word) = TextValue(t).decoded
<1>1. PICK l \in 1..31 : l = Len(t)
  OBVIOUS
<1>2. PICK m, n, z : m = 31 - l /\ n = 2 * l /\ z = Zeros(m)
  OBVIOUS
<1>3. m \in Nat /\ l + m = 31 /\ n \in Byte /\ n \div 2 = l /\ n % 2 = 0 /\ l <= 31
  BY <1>2 DEF Byte
<1>4. PICK u, w : u = t \o z /\ w = u \o <<n>>
  OBVIOUS
<1>5. z \in Seq(Byte) /\ Len(z) = m
  BY <1>2, <1>3, ZeroBytes DEF Bytes
<1>6. u \in Seq(Byte) /\ Len(u) = Len(t) + Len(z) /\ \A k \in 1..Len(t) : u[k] = t[k]
  BY <1>4, <1>5, Joined
<1>7. /\ w \in Seq(Byte) /\ Len(w) = Len(u) + 1
      /\ \A k \in 1..Len(u) : w[k] = u[k]
      /\ w[Len(u) + 1] = n
  BY <1>3, <1>4, <1>6, OneMoreByte
<1>8. Len(u) = 31
  BY <1>1, <1>3, <1>5, <1>6
<1>9. Len(w) = 32 /\ w[32] = n
  BY <1>7, <1>8
<1>10. SubSeq(w, 1, l) = t
  <2>1. \A k \in 1..Len(t) : w[0 + k] = t[k]
    <3>1. \A k \in 1..l : k \in 1..31 /\ 0 + k = k
      BY ONLY l \in 1..31, SMT
    <3>2. QED
      BY <1>1, <1>6, <1>7, <1>8, <3>1
  <2>2. 0 \in Nat /\ 0 + Len(t) <= Len(w)
    <3>1. 0 \in Nat /\ 0 + l <= 32
      BY ONLY l \in 1..31, SMT
    <3>2. QED
      BY <1>1, <1>9, <3>1, Zenon
  <2>3. SubSeq(w, 0 + 1, 0 + Len(t)) = t
    BY <1>7, <2>1, <2>2, PartOf
  <2>4. QED
    BY <1>1, <2>3
<1>11. DecodeBytes("SolString", w) = Decode("String", t)
  <2>1. w[32] % 2 # 1 /\ ~(w[32] \div 2 > 31) /\ w[32] \div 2 = l
    BY <1>3, <1>9
  <2>2. SubSeq(w, 1, w[32] \div 2) = t /\ t \in Utf8
    BY <1>10, <2>1
  <2>3. DecodeSolString(w) = Decode("String", t)
    BY <2>1, <2>2 DEF DecodeSolString
  <2>4. QED
    BY <2>3, ByType
<1>12. TextValue(t).word = w /\ TextValue(t).decoded = Decode("String", t)
  BY <1>1, <1>2, <1>4 DEF TextValue, Stored
<1>13. w \in Bytes(32)
  BY <1>7, <1>9 DEF Bytes
<1>14. QED
  BY <1>11, <1>12, <1>13

\* A byte of a number that was doubled, with what came into it from the next byte.
LEMMA DoubledByte ==
  ASSUME NEW x \in 0..255, NEW c \in 0..1
  PROVE  /\ x \div 128 \in 0..1
         /\ ((2 * x) % 256) + c \in 0..255
         /\ (((2 * x) % 256) + c) \div 2 = x - 128 * (x \div 128)
         /\ (((2 * x) % 256) + c) % 2 = c
<1>1. PICK h \in 0..1, r \in 0..127 : x = 128 * h + r
  <2>1. CASE x < 128
    BY <2>1
  <2>2. CASE x >= 128
    <3>1. x - 128 \in 0..127 /\ x = 128 * 1 + (x - 128)
      BY <2>2
    <3>2. QED
      BY <3>1
  <2>3. QED
    BY <2>1, <2>2
<1>2. x \div 128 = h
  BY <1>1
<1>3. (2 * x) % 256 = 2 * r
  BY <1>1
<1>4. QED
  BY <1>1, <1>2, <1>3

LEMMA HalfOfDouble ==
  ASSUME NEW p \in Seq(Byte), Len(p) # 0, p[1] = 0
  PROVE  /\ Doubled(p) \in Seq(Byte) /\ Len(Doubled(p)) = Len(p)
         /\ Doubled(p)[Len(p)] % 2 = 1
         /\ Halved(Doubled(p)) = p
<1>1. PICK m \in Nat : m = Len(p) /\ DOMAIN p = 1..m /\ p = [k \in 1..m |-> p[k]] /\ m # 0
  BY LenProperties
<1>2. \A k \in 1..m : p[k] \in 0..255
  BY <1>1, ElementOfSeq DEF Byte
<1> DEFINE c(k) == IF k = m THEN 1 ELSE p[k + 1] \div 128
           d == Doubled(p)
<1>3. \A k \in 1..m : c(k) \in 0..1
  <2>1. SUFFICES ASSUME NEW k \in 1..m, k # m PROVE p[k + 1] \div 128 \in 0..1
    OBVIOUS
  <2>2. k + 1 \in 1..m
    BY <1>1, <2>1
  <2>3. PICK x \in 0..255 : x = p[k + 1]
    BY <1>2, <2>2
  <2>4. x \div 128 \in 0..1
    <3>1. 0 \in 0..1
      OBVIOUS
    <3>2. QED
      BY <3>1, DoubledByte, Zenon
  <2>5. QED
    BY <2>3, <2>4, Zenon
<1>4. d = [k \in 1..m |-> ((2 * p[k]) % 256) + c(k)]
  BY <1>1 DEF Doubled
<1> HIDE DEF d
<1>5. \A k \in 1..m : d[k] \in 0..255 /\ d[k] \div 2 = p[k] - 128 * (p[k] \div 128) /\ d[k] % 2 = c(k)
  <2>1. SUFFICES ASSUME NEW k \in 1..m
                 PROVE  d[k] \in 0..255 /\ d[k] \div 2 = p[k] - 128 * (p[k] \div 128) /\ d[k] % 2 = c(k)
    OBVIOUS
  <2>2. PICK x \in 0..255, e \in 0..1 : x = p[k] /\ e = c(k)
    BY <1>2, <1>3
  <2>3. d[k] = ((2 * x) % 256) + e
    BY <1>4, <2>2
  <2>4. /\ ((2 * x) % 256) + e \in 0..255
        /\ (((2 * x) % 256) + e) \div 2 = x - 128 * (x \div 128)
        /\ (((2 * x) % 256) + e) % 2 = e
    BY DoubledByte, Zenon
  <2>5. QED
    BY <2>2, <2>3, <2>4, Zenon
<1>6. d \in Seq(Byte) /\ Len(d) = m /\ DOMAIN d = 1..m
  <2>1. d \in [1..m -> Byte]
    BY <1>4, <1>5 DEF Byte
  <2>2. QED
    BY <1>1, <2>1
<1>7. Halved(d) = p
  <2>1. Halved(d) = [k \in 1..m |-> d[k] \div 2 + 128 * (IF k = 1 THEN 0 ELSE d[k - 1] % 2)]
    BY <1>6 DEF Halved
  <2>2. ASSUME NEW k \in 1..m
        PROVE  d[k] \div 2 + 128 * (IF k = 1 THEN 0 ELSE d[k - 1] % 2) = p[k]
    <3>1. PICK x \in 0..255 : x = p[k]
      BY <1>2
    <3>2. d[k] \div 2 = x - 128 * (x \div 128)
      BY <1>5, <3>1
    <3>3. CASE k = 1
      <4>1. x = 0 /\ x \div 128 = 0
        BY <3>1, <3>3
      <4>2. QED
        BY <3>1, <3>2, <3>3, <4>1
    <3>4. CASE k # 1
      <4>1. k - 1 \in 1..m /\ k - 1 # m /\ (k - 1) + 1 = k
        BY <1>1, <3>4
      <4>2. d[k - 1] % 2 = x \div 128
        BY <1>5, <3>1, <4>1
      <4>3. PICK h \in 0..1 : h = x \div 128
        <5>1. 0 \in 0..1
          OBVIOUS
        <5>2. x \div 128 \in 0..1
          BY <5>1, DoubledByte, Zenon
        <5>3. QED
          BY <5>2
      <4>4. d[k] \div 2 + 128 * (IF k = 1 THEN 0 ELSE d[k - 1] % 2) = (x - 128 * h) + 128 * h
        BY <3>2, <3>4, <4>2, <4>3
      <4>5. (x - 128 * h) + 128 * h = x
        OBVIOUS
      <4>6. QED
        BY <3>1, <4>4, <4>5
    <3>5. QED
      BY <3>3, <3>4
  <2>3. QED
    BY <1>1, <2>1, <2>2
<1>8. d[m] % 2 = 1
  <2>1. m \in 1..m /\ c(m) = 1
    BY <1>1
  <2>2. d[m] % 2 = c(m)
    BY <1>5, <2>1, Zenon
  <2>3. QED
    BY <2>1, <2>2, Zenon
<1>9. QED
  BY <1>1, <1>6, <1>7, <1>8 DEF d

LEMMA LengthIsRead ==
  ASSUME NEW n \in Digits(8)
  PROVE  /\ LongTextValue(n).word \in Bytes(32)
         /\ DecodeBytes("SolString", LongTextValue(n).word) = LongTextValue(n).decoded
<1>1. n \in Seq(Byte) /\ Len(n) \in 1..8 /\ n[1] # 0
  BY DEF Digits
<1>2. PICK l \in 1..8 : l = Len(n)
  BY <1>1
<1>3. PICK i, j : i = 16 - l /\ j = 8 - l
  OBVIOUS
<1>4. i \in Nat /\ j \in Nat /\ i = 8 + j /\ i + l = 16 /\ j + l = 8 /\ 1 \in 1..i
  BY ONLY <1>3, l \in 1..8, SMT
<1>5. PICK p, d, w : p = Zeros(i) \o n /\ d = Doubled(p) /\ w = Zeros(16) \o d
  OBVIOUS
<1>6. /\ p \in Seq(Byte) /\ Len(p) = i + Len(n)
      /\ \A k \in 1..i : p[k] = 0
      /\ \A k \in 1..Len(n) : p[i + k] = n[k]
  BY <1>1, <1>4, <1>5, BehindZeros
<1>7. Len(p) = 16 /\ p[1] = 0
  BY <1>2, <1>4, <1>6
<1>8. d \in Seq(Byte) /\ Len(d) = 16 /\ d[16] % 2 = 1 /\ Halved(d) = p
  <2>1. Len(p) # 0
    BY <1>7
  <2>2. d \in Seq(Byte) /\ Len(d) = Len(p) /\ d[Len(p)] % 2 = 1 /\ Halved(d) = p
    BY <1>5, <1>6, <1>7, <2>1, HalfOfDouble
  <2>3. QED
    BY <1>7, <2>2
<1>9. /\ w \in Seq(Byte) /\ Len(w) = 16 + Len(d)
      /\ \A k \in 1..Len(d) : w[16 + k] = d[k]
      /\ SubSeq(w, 16 + 1, 16 + Len(d)) = d
  <2>1. 16 \in Nat
    OBVIOUS
  <2>2. QED
    BY <1>5, <1>8, <2>1, BehindZeros
<1>10. Len(w) = 32 /\ w[32] = d[16] /\ SubSeq(w, 17, 32) = d
  BY <1>8, <1>9
<1>11. PICK v : v = Zeros(j) \o n
  OBVIOUS
<1>12. /\ v \in Seq(Byte) /\ Len(v) = j + Len(n)
       /\ \A k \in 1..j : v[k] = 0
       /\ \A k \in 1..Len(n) : v[j + k] = n[k]
  BY <1>1, <1>4, <1>11, BehindZeros
<1>13. SubSeq(p, 9, 16) = v
  <2>1. Len(v) = 8
    BY <1>2, <1>4, <1>12
  <2>2. \A k \in 1..Len(v) : p[8 + k] = v[k]
    <3>1. SUFFICES ASSUME NEW k \in 1..8 PROVE p[8 + k] = v[k]
      BY <2>1
    <3>2. CASE k <= j
      <4>1. k \in 1..j /\ 8 + k \in 1..i
        BY <1>4, <3>2
      <4>2. QED
        BY <1>6, <1>12, <4>1
    <3>3. CASE ~(k <= j)
      <4>1. PICK m \in 1..l : m = k - j
        BY <1>4, <3>3
      <4>2. j + m = k /\ i + m = 8 + k
        BY <1>4, <4>1
      <4>3. v[j + m] = n[m] /\ p[i + m] = n[m]
        BY <1>2, <1>6, <1>12
      <4>4. QED
        BY <4>2, <4>3
    <3>4. QED
      BY <3>2, <3>3
  <2>3. 8 \in Nat /\ 8 + Len(v) <= Len(p)
    BY <1>7, <2>1
  <2>4. SubSeq(p, 8 + 1, 8 + Len(v)) = v
    BY <1>6, <1>12, <2>2, <2>3, PartOf
  <2>5. QED
    BY <2>1, <2>4
<1>14. Stripped(v) = n
  <2>1. Len(n) # 0
    BY <1>2
  <2>2. QED
    BY <1>1, <1>4, <1>11, <2>1, DigitsBehindZeros
<1>15. DecodeBytes("SolString", w) = Decode("LongString", n)
  <2>1. w[32] % 2 = 1
    BY <1>8, <1>10
  <2>2. Stripped(SubSeq(Halved(SubSeq(w, 17, 32)), 9, 16)) = n
    BY <1>8, <1>10, <1>13, <1>14
  <2>3. DecodeSolString(w) = Decode("LongString", n)
    BY <2>1, <2>2 DEF DecodeSolString
  <2>4. QED
    BY <2>3, ByType
<1>16. LongTextValue(n).word = w /\ LongTextValue(n).decoded = Decode("LongString", n)
  BY <1>2, <1>3, <1>5 DEF LongTextValue, Stored
<1>17. w \in Bytes(32)
  BY <1>8, <1>9, <1>10 DEF Bytes
<1>18. QED
  BY <1>15, <1>16, <1>17

\* For every type, every value a contract can store comes out of a state diff as what it
\* means, whatever bytes it has (value.rs, decode_bytes): the diff has the word with its
\* last byte first and without the zeros in front.  A word that is zero has no value there.
THEOREM ValuesAreReadBack ==
  ASSUME NEW type \in Types, NEW v \in StoredAs(type)
  PROVE  /\ v.word \in Bytes(32)
         /\ v.word # Zeros(32) => DecodeRawValue(type, Trimmed(v.word)) = v.decoded
<1>1. v.word \in Bytes(32) /\ DecodeBytes(type, v.word) = v.decoded
  <2>1. CASE type = "Address"
    <3>1. PICK a \in Bytes(20) : v = AddressValue(a)
      BY <2>1 DEF StoredAs
    <3>2. QED
      BY <2>1, <3>1, AddressIsRead
  <2>2. CASE type = "Uint256"
    <3>1. CASE v \in {NumberValue(n) : n \in Digits(16)}
      <4>1. PICK n \in Digits(16) : v = NumberValue(n)
        BY <3>1
      <4>2. QED
        BY <2>2, <4>1, NumberIsRead
    <3>2. CASE ~(v \in {NumberValue(n) : n \in Digits(16)})
      <4>1. v \in {LargeValue(w) : w \in {x \in Bytes(32) : \E k \in 1..16 : x[k] # 0}}
        BY <2>2, <3>2 DEF StoredAs
      <4>2. PICK w \in Bytes(32) : v = LargeValue(w) /\ \E k \in 1..16 : w[k] # 0
        BY <4>1
      <4>3. DecodeBytes("Uint256", w) = LargeValue(w).decoded
        BY <4>2, LargeIsRead
      <4>4. LargeValue(w).word = w
        BY DEF LargeValue, Stored
      <4>5. QED
        BY <2>2, <4>2, <4>3, <4>4
    <3>3. QED
      BY <3>1, <3>2
  <2>3. CASE type = "Bool"
    <3>1. v = BoolValue
      BY <2>3 DEF StoredAs
    <3>2. QED
      BY <2>3, <3>1, FlagIsRead
  <2>4. CASE type = "Bytes32"
    <3>1. PICK w \in Bytes(32) : v = KeyValue(w)
      BY <2>4 DEF StoredAs
    <3>2. v.word = w /\ v.decoded = Decode("Bytes32", w)
      BY <3>1 DEF KeyValue, Stored
    <3>3. QED
      BY <2>4, <3>2, ByType
  <2>5. CASE type = "SolString"
    <3>1. CASE v \in {LongTextValue(n) : n \in Digits(8)}
      <4>1. PICK n \in Digits(8) : v = LongTextValue(n)
        BY <3>1
      <4>2. QED
        BY <2>5, <4>1, LengthIsRead
    <3>2. CASE ~(v \in {LongTextValue(n) : n \in Digits(8)})
      <4>1. v \in {TextValue(t) : t \in {u \in Utf8 \cap Seq(Byte) : Len(u) \in 1..31}}
        BY <2>5, <3>2 DEF StoredAs
      <4>2. PICK t \in Utf8 \cap Seq(Byte) : Len(t) \in 1..31 /\ v = TextValue(t)
        BY <4>1
      <4>3. QED
        BY <2>5, <4>2, TextIsRead
    <3>3. QED
      BY <3>1, <3>2
  <2>6. CASE type = "StepState"
    <3>1. PICK n \in 0..2, a \in Bytes(20) : v = StepValue(n, a)
      BY <2>6 DEF StoredAs
    <3>2. QED
      BY <2>6, <3>1, StepIsRead
  <2>7. QED
    BY <2>1, <2>2, <2>3, <2>4, <2>5, <2>6 DEF Types
<1>2. ASSUME v.word # Zeros(32)
      PROVE  DecodeRawValue(type, Trimmed(v.word)) = v.decoded
  <2>1. Trimmed(v.word) # <<>> /\ Word(Trimmed(v.word)) = v.word
    BY <1>1, <1>2, WordIsReadBack
  <2>2. QED
    BY <1>1, <2>1 DEF DecodeRawValue
<1>3. QED
  BY <1>1, <1>2

-----------------------------------------------------------------------------
(***************************************************************************)
(* State diffs.                                                            *)
(***************************************************************************)
\* The words are decoded as bytes.
BytesAreDecoded ==
  \A type \in Types : \A raw \in Seq(Byte) : DecodeRaw(type, raw) = DecodeRawValue(type, raw)

\* A change of a word that a registered contract has: the value that it stores there now,
\* or none where the word is zero.  An address is registered as one kind of contract.
IsWordChange(registry, e) ==
  /\ e.contract \in Kinds /\ e.address \in registry[e.contract]
  /\ \A kind \in Kinds \ {e.contract} : e.address \notin registry[kind]
  /\ e.slot \in TableSlots(e.contract)
  /\ \/ e.value = None
     \/ \E v \in StoredAs(FieldType(DecodeSlot(e.contract, e.slot).name)) :
          v.word # Zeros(32) /\ e.value = Some(v)

\* How it stands in a state diff.
PairOf(e) ==
  << [prefix |-> "E/s/", length |-> 36, rest |-> <<e.address, e.slot>>],
     IF e.value = None THEN None ELSE Some(Trimmed(e.value[1].word)) >>

\* What should be shown of it.
Meant(e) ==
  [contract |-> e.contract, address |-> e.address, field |-> DecodeSlot(e.contract, e.slot),
   decoded |-> IF e.value = None THEN Deleted ELSE e.value[1].decoded]

\* A state diff of these changes, in any order, among keys of anything else.
IsDiffOf(registry, diff, changes) ==
  /\ diff \in Seq(Range(diff))
  /\ \A k \in DOMAIN diff :
       \/ Category(diff[k][1]) # "E/s/"
       \/ ~InTable(registry, diff[k][1].rest[1], diff[k][1].rest[2])
       \/ \E e \in changes : diff[k] = PairOf(e)
  /\ \A e \in changes : IsWordChange(registry, e) /\ \E k \in DOMAIN diff : diff[k] = PairOf(e)

LEMMA KindsAreInserted ==
  ASSUME NEW kind \in Kinds
  PROVE  \E k \in 1..Len(InsertionOrder) : InsertionOrder[k] = kind
<1>1. Len(InsertionOrder) = 4
  BY DEF InsertionOrder
<1>2. /\ InsertionOrder[1] = "BINSTDeployer" /\ InsertionOrder[2] = "Institution"
      /\ InsertionOrder[3] = "ProcessTemplate" /\ InsertionOrder[4] = "ProcessInstance"
  BY DEF InsertionOrder
<1>3. 1 \in 1..4 /\ 2 \in 1..4 /\ 3 \in 1..4 /\ 4 \in 1..4
  OBVIOUS
<1>4. QED
  BY <1>1, <1>2, <1>3 DEF Kinds

LEMMA OneKind ==
  ASSUME NEW k \in 1..Len(InsertionOrder)
  PROVE  InsertionOrder[k] \in Kinds
BY DEF InsertionOrder, Kinds

\* The table has such a word, as a word of this contract.
LEMMA WordIsInTable ==
  ASSUME NEW registry, NEW e, IsWordChange(registry, e)
  PROVE  /\ InTable(registry, e.address, e.slot)
         /\ TableKind(registry, e.address, e.slot) = e.contract
<1>1. PICK k \in 1..Len(InsertionOrder) : InsertionOrder[k] = e.contract
  BY KindsAreInserted DEF IsWordChange
<1>2. PICK ks : ks = Inserters(registry, e.address, e.slot)
  OBVIOUS
<1>3. k \in ks
  BY <1>1, <1>2 DEF Inserters, IsWordChange
<1>4. \A j \in ks : j \in 1..Len(InsertionOrder) /\ InsertionOrder[j] = e.contract
  <2>1. SUFFICES ASSUME NEW j \in ks
                 PROVE  j \in 1..Len(InsertionOrder) /\ InsertionOrder[j] = e.contract
    OBVIOUS
  <2>2. j \in 1..Len(InsertionOrder) /\ e.address \in registry[InsertionOrder[j]]
    BY <1>2 DEF Inserters
  <2>3. InsertionOrder[j] \in Kinds
    BY <2>2, OneKind
  <2>4. QED
    BY <2>2, <2>3 DEF IsWordChange
<1>5. \A j \in ks : j = k
  <2>1. \A i, j \in 1..4 : InsertionOrder[i] = InsertionOrder[j] => i = j
    BY DEF InsertionOrder
  <2>2. Len(InsertionOrder) = 4
    BY DEF InsertionOrder
  <2>3. QED
    BY <1>1, <1>4, <2>1, <2>2
<1>6. ks = {k} /\ k \in Nat
  <2>1. Len(InsertionOrder) = 4
    BY DEF InsertionOrder
  <2>2. k \in Nat
    BY <2>1
  <2>3. ks = {k}
    BY <1>3, <1>5
  <2>4. QED
    BY <2>2, <2>3
<1>7. (CHOOSE l \in ks : \A j \in ks : j <= l) = k
  BY <1>6
<1>8. QED
  BY <1>1, <1>2, <1>3, <1>7 DEF InTable, TableKind

LEMMA FieldHasType ==
  ASSUME NEW name
  PROVE  FieldType(name) \in Types
BY DEF FieldType, Types

\* It is shown as what it means.
LEMMA ChangeIsRead ==
  ASSUME BytesAreDecoded, NEW registry, NEW e, IsWordChange(registry, e)
  PROVE  Change(registry, PairOf(e)[1].rest, PairOf(e)[2]) = Meant(e)
<1>1. PICK w, value : /\ w = <<e.address, e.slot>>
                      /\ value = IF e.value = None THEN None ELSE Some(Trimmed(e.value[1].word))
  OBVIOUS
<1>2. PairOf(e)[1].rest = w /\ PairOf(e)[2] = value
  BY <1>1 DEF PairOf
<1>3. w[1] = e.address /\ w[2] = e.slot
  BY <1>1
<1>4. TableKind(registry, w[1], w[2]) = e.contract
  BY <1>3, WordIsInTable
<1>5. PICK field : field = DecodeSlot(e.contract, e.slot)
  OBVIOUS
<1>6. DecodeValue(field, value) = IF e.value = None THEN Deleted ELSE e.value[1].decoded
  <2>1. CASE e.value = None
    BY <1>1, <2>1 DEF DecodeValue
  <2>2. CASE e.value # None
    <3>1. PICK type : type = FieldType(field.name)
      OBVIOUS
    <3>2. PICK v \in StoredAs(type) : v.word # Zeros(32) /\ e.value = Some(v)
      BY <1>5, <2>2, <3>1 DEF IsWordChange
    <3>3. type \in Types
      BY <3>1, FieldHasType
    <3>4. e.value[1] = v
      BY <3>2 DEF Some
    <3>5. PICK raw : raw = Trimmed(v.word)
      OBVIOUS
    <3>6. raw \in Seq(Byte) /\ DecodeRawValue(type, raw) = v.decoded
      BY <3>2, <3>3, <3>5, ValuesAreReadBack, WordIsReadBack
    <3>7. value = Some(raw) /\ value # None /\ value[1] = raw
      BY <1>1, <2>2, <3>4, <3>5 DEF Some, None
    <3>8. DecodeValue(field, value) = DecodeRaw(type, raw)
      BY <3>1, <3>7 DEF DecodeValue
    <3>9. DecodeRaw(type, raw) = DecodeRawValue(type, raw)
      BY <3>3, <3>6 DEF BytesAreDecoded
    <3>10. QED
      BY <2>2, <3>4, <3>6, <3>8, <3>9
  <2>3. QED
    BY <2>1, <2>2
<1>7. Change(registry, w, value)
        = [contract |-> e.contract, address |-> e.address, field |-> field,
           decoded |-> DecodeValue(field, value)]
  BY <1>3, <1>4, <1>5 DEF Change
<1>8. QED
  BY <1>2, <1>5, <1>6, <1>7 DEF Meant

\* So what map_state_diff shows of a state diff are the changes that are in it, each with
\* the value that was stored, and nothing of the other keys.
THEOREM DiffIsRead ==
  ASSUME BytesAreDecoded, NEW registry, NEW diff, NEW changes, IsDiffOf(registry, diff, changes)
  PROVE  Range(MapDiff(registry, diff)) = {Meant(e) : e \in changes}
<1>1. PICK S, order : S = Recognized(registry, diff) /\ order = Ascending(S)
  OBVIOUS
<1>2. PICK n \in Nat : DOMAIN diff = 1..n
  BY LenProperties DEF IsDiffOf
<1>3. S \in SUBSET (1..n) /\ S \in SUBSET Nat /\ IsFiniteSet(S)
  <2>1. S \in SUBSET (1..n)
    BY <1>1, <1>2 DEF Recognized
  <2>2. IsFiniteSet(1..n) /\ 1..n \in SUBSET Nat
    BY FS_Interval
  <2>3. QED
    BY <2>1, <2>2, FS_Subset
<1>4. order \in Seq(S) /\ \A k \in S : \E m \in 1..Len(order) : order[m] = k
  BY <1>1, <1>3, AscendingOrder
<1>5. DOMAIN order = 1..Len(order) /\ \A m \in 1..Len(order) : order[m] \in S
  BY <1>4, LenProperties, ElementOfSeq
<1> DEFINE change(k) == Change(registry, diff[k][1].rest, diff[k][2])
<1>6. Range(MapDiff(registry, diff)) = {change(k) : k \in S}
  <2>1. MapDiff(registry, diff) = [m \in DOMAIN order |-> change(order[m])]
    BY <1>1 DEF MapDiff
  <2> HIDE DEF change
  <2>2. Range(MapDiff(registry, diff)) = {change(order[m]) : m \in 1..Len(order)}
    BY <1>5, <2>1 DEF Range
  <2>3. QED
    BY <1>4, <1>5, <2>2
<1>7. ASSUME NEW k \in S
      PROVE  \E e \in changes : change(k) = Meant(e)
  <2>1. /\ k \in DOMAIN diff /\ Category(diff[k][1]) = "E/s/"
        /\ InTable(registry, diff[k][1].rest[1], diff[k][1].rest[2])
    BY <1>1, <1>7 DEF Recognized
  <2>2. PICK e \in changes : diff[k] = PairOf(e)
    BY <2>1 DEF IsDiffOf
  <2>3. IsWordChange(registry, e)
    BY <2>2 DEF IsDiffOf
  <2>4. QED
    BY <2>2, <2>3, ChangeIsRead
<1>8. ASSUME NEW e \in changes
      PROVE  \E k \in S : change(k) = Meant(e)
  <2>1. IsWordChange(registry, e)
    BY <1>8 DEF IsDiffOf
  <2>2. PICK k \in DOMAIN diff : diff[k] = PairOf(e)
    BY <1>8 DEF IsDiffOf
  <2>3. PICK key : key = diff[k][1]
    OBVIOUS
  <2>4. key = [prefix |-> "E/s/", length |-> 36, rest |-> <<e.address, e.slot>>]
    BY <2>2, <2>3 DEF PairOf
  <2>5. Category(key) = "E/s/"
    BY <2>4 DEF Category, KeyLength
  <2>6. key.rest[1] = e.address /\ key.rest[2] = e.slot
    BY <2>4
  <2>7. k \in S
    BY <1>1, <2>1, <2>3, <2>5, <2>6, WordIsInTable DEF Recognized
  <2>8. QED
    BY <2>1, <2>2, <2>7, ChangeIsRead
<1>9. QED
  <2> HIDE DEF change
  <2>1. QED
    BY <1>6, <1>7, <1>8

\* The same diff in an answer of a node: its entries in any order, each as a member with
\* hexadecimal key and value, among members that are none.
IsAnswerOf(answer, diff) ==
  /\ answer \in Seq(Range(answer))
  /\ \E place \in [DOMAIN diff -> {k \in DOMAIN answer : answer[k].key.kind = "hex"}] :
       /\ \A i, j \in DOMAIN diff : place[i] = place[j] => i = j
       /\ \A k \in DOMAIN answer : answer[k].key.kind = "hex" => \E j \in DOMAIN diff : place[j] = k
       /\ \A j \in DOMAIN diff :
            LET m == answer[place[j]]
            IN  diff[j] = <<m.key.of, IF m.value.kind = "hex" THEN Some(m.value.of) ELSE None>>

\* state_diff_from_rpc puts them into another order, no more.
LEMMA AnswerIsPermuted ==
  ASSUME NEW diff, diff \in Seq(Range(diff)), NEW answer, IsAnswerOf(answer, diff)
  PROVE  /\ StateDiffFromRpc(answer) \in Seq(Range(StateDiffFromRpc(answer)))
         /\ \E f \in Bijection(DOMAIN StateDiffFromRpc(answer), DOMAIN diff) :
              \A n \in DOMAIN StateDiffFromRpc(answer) : StateDiffFromRpc(answer)[n] = diff[f[n]]
<1>1. PICK S, order, there : /\ S = {k \in DOMAIN answer : answer[k].key.kind = "hex"}
                             /\ order = Ascending(S)
                             /\ there = StateDiffFromRpc(answer)
  OBVIOUS
<1>2. PICK place \in [DOMAIN diff -> S] :
        /\ \A i, j \in DOMAIN diff : place[i] = place[j] => i = j
        /\ \A k \in S : \E j \in DOMAIN diff : place[j] = k
        /\ \A j \in DOMAIN diff :
             LET m == answer[place[j]]
             IN  diff[j] = <<m.key.of, IF m.value.kind = "hex" THEN Some(m.value.of) ELSE None>>
  BY <1>1 DEF IsAnswerOf
<1>3. PICK l \in Nat : DOMAIN answer = 1..l
  BY LenProperties DEF IsAnswerOf
<1>4. S \in SUBSET Nat /\ IsFiniteSet(S)
  <2>1. S \in SUBSET (1..l)
    BY <1>1, <1>3
  <2>2. IsFiniteSet(1..l) /\ 1..l \in SUBSET Nat
    BY FS_Interval
  <2>3. QED
    BY <2>1, <2>2, FS_Subset
<1>5. /\ order \in Seq(S)
      /\ \A k \in S : \E n \in 1..Len(order) : order[n] = k
      /\ \A m, n \in 1..Len(order) : m < n => order[m] < order[n]
  BY <1>1, <1>4, AscendingOrder
<1>6. PICK c \in Nat : c = Len(order) /\ DOMAIN order = 1..c /\ \A n \in 1..c : order[n] \in S
  BY <1>5, LenProperties, ElementOfSeq
<1> DEFINE pair(k) == <<answer[k].key.of,
                        IF answer[k].value.kind = "hex" THEN Some(answer[k].value.of) ELSE None>>
<1>7. there = [n \in 1..c |-> pair(order[n])]
  BY <1>1, <1>6 DEF StateDiffFromRpc
<1>8. \A j \in DOMAIN diff : diff[j] = pair(place[j])
  BY <1>2
<1> HIDE DEF pair
<1>9. there \in Seq(Range(there)) /\ DOMAIN there = 1..c
  <2>1. there \in [1..c -> Range(there)]
    BY <1>7 DEF Range
  <2>2. QED
    BY <1>7, <2>1
<1>10. PICK f : f = [n \in 1..c |-> CHOOSE j \in DOMAIN diff : place[j] = order[n]]
  OBVIOUS
<1>11. \A n \in 1..c : f[n] \in DOMAIN diff /\ place[f[n]] = order[n]
  BY <1>2, <1>6, <1>10
<1>12. f \in [1..c -> DOMAIN diff]
  BY <1>10, <1>11
<1>13. IsInjective(f)
  <2>1. SUFFICES ASSUME NEW m \in 1..c, NEW n \in 1..c, f[m] = f[n] PROVE m = n
    BY <1>12 DEF IsInjective
  <2>2. order[m] = order[n] /\ order[m] \in Nat
    BY <1>4, <1>6, <1>11, <2>1
  <2>3. ~(m < n) /\ ~(n < m)
    BY <1>5, <1>6, <2>2
  <2>4. QED
    BY <2>3
<1>14. \A j \in DOMAIN diff : \E n \in 1..c : f[n] = j
  <2>1. SUFFICES ASSUME NEW j \in DOMAIN diff PROVE \E n \in 1..c : f[n] = j
    OBVIOUS
  <2>2. place[j] \in S
    BY <1>2
  <2>3. PICK n \in 1..c : order[n] = place[j]
    BY <1>5, <1>6, <2>2
  <2>4. f[n] = j
    BY <1>2, <1>11, <2>3
  <2>5. QED
    BY <2>4
<1>15. f \in Bijection(1..c, DOMAIN diff)
  BY <1>12, <1>13, <1>14 DEF Bijection, Injection, Surjection
<1>16. \A n \in 1..c : there[n] = diff[f[n]]
  BY <1>7, <1>8, <1>11
<1>17. QED
  BY <1>1, <1>9, <1>15, <1>16

\* So state_diff_from_rpc makes of it a state diff of the same changes, with as many keys of
\* each category.
THEOREM AnswerIsRead ==
  ASSUME NEW registry, NEW diff, NEW changes, IsDiffOf(registry, diff, changes),
         NEW answer, IsAnswerOf(answer, diff)
  PROVE  /\ IsDiffOf(registry, StateDiffFromRpc(answer), changes)
         /\ SummarizeDiff(StateDiffFromRpc(answer)) = SummarizeDiff(diff)
<1>1. diff \in Seq(Range(diff))
  BY DEF IsDiffOf
<1>2. PICK there : there = StateDiffFromRpc(answer)
  OBVIOUS
<1>3. /\ there \in Seq(Range(there))
      /\ \E f \in Bijection(DOMAIN there, DOMAIN diff) : \A n \in DOMAIN there : there[n] = diff[f[n]]
  BY <1>1, <1>2, AnswerIsPermuted
<1>4. PICK f \in Bijection(DOMAIN there, DOMAIN diff) : \A n \in DOMAIN there : there[n] = diff[f[n]]
  BY <1>3
<1>5. /\ f \in [DOMAIN there -> DOMAIN diff]
      /\ \A m, n \in DOMAIN there : f[m] = f[n] => m = n
      /\ \A j \in DOMAIN diff : \E n \in DOMAIN there : f[n] = j
  BY <1>4 DEF Bijection, Injection, Surjection, IsInjective
<1>6. IsDiffOf(registry, there, changes)
  <2>1. ASSUME NEW k \in DOMAIN there
        PROVE  \/ Category(there[k][1]) # "E/s/"
               \/ ~InTable(registry, there[k][1].rest[1], there[k][1].rest[2])
               \/ \E e \in changes : there[k] = PairOf(e)
    <3>1. f[k] \in DOMAIN diff /\ there[k] = diff[f[k]]
      BY <1>4, <1>5
    <3>2. QED
      BY <3>1 DEF IsDiffOf
  <2>2. ASSUME NEW e \in changes
        PROVE  IsWordChange(registry, e) /\ \E k \in DOMAIN there : there[k] = PairOf(e)
    <3>1. IsWordChange(registry, e) /\ \E j \in DOMAIN diff : diff[j] = PairOf(e)
      BY <2>2 DEF IsDiffOf
    <3>2. PICK j \in DOMAIN diff : diff[j] = PairOf(e)
      BY <3>1
    <3>3. PICK k \in DOMAIN there : f[k] = j
      BY <1>5
    <3>4. there[k] = PairOf(e)
      BY <1>4, <3>2, <3>3
    <3>5. QED
      BY <3>1, <3>4
  <2>3. QED
    BY <1>3, <2>1, <2>2 DEF IsDiffOf
<1>7. ASSUME NEW c
      PROVE  Cardinality({k \in DOMAIN there : Category(there[k][1]) = c})
               = Cardinality({k \in DOMAIN diff : Category(diff[k][1]) = c})
  <2>1. PICK A, B : /\ A = {k \in DOMAIN there : Category(there[k][1]) = c}
                    /\ B = {k \in DOMAIN diff : Category(diff[k][1]) = c}
    OBVIOUS
  <2>2. IsFiniteSet(A)
    <3>1. PICK n \in Nat : DOMAIN there = 1..n
      BY <1>3, LenProperties
    <3>2. A \in SUBSET (1..n)
      BY <2>1, <3>1
    <3>3. IsFiniteSet(1..n)
      BY FS_Interval
    <3>4. QED
      BY <3>2, <3>3, FS_Subset
  <2>3. PICK g : g = [k \in A |-> f[k]]
    OBVIOUS
  <2>4. \A k \in A : g[k] = f[k] /\ k \in DOMAIN there /\ f[k] \in B
    <3>1. SUFFICES ASSUME NEW k \in A PROVE g[k] = f[k] /\ k \in DOMAIN there /\ f[k] \in B
      OBVIOUS
    <3>2. k \in DOMAIN there /\ Category(there[k][1]) = c
      BY <2>1
    <3>3. f[k] \in DOMAIN diff /\ there[k] = diff[f[k]]
      BY <1>4, <1>5, <3>2
    <3>4. QED
      BY <2>1, <2>3, <3>2, <3>3
  <2>5. g \in [A -> B] /\ \A k, l \in A : g[k] = g[l] => k = l
    BY <1>5, <2>3, <2>4
  <2>6. \A j \in B : \E k \in A : g[k] = j
    <3>1. SUFFICES ASSUME NEW j \in B PROVE \E k \in A : g[k] = j
      OBVIOUS
    <3>2. j \in DOMAIN diff /\ Category(diff[j][1]) = c
      BY <2>1
    <3>3. PICK k \in DOMAIN there : f[k] = j
      BY <1>5, <3>2
    <3>4. k \in A
      BY <1>4, <2>1, <3>2, <3>3
    <3>5. QED
      BY <2>4, <3>3, <3>4
  <2>7. g \in Bijection(A, B)
    BY <2>5, <2>6 DEF Bijection, Injection, Surjection, IsInjective
  <2>8. Cardinality(B) = Cardinality(A)
    BY <2>2, <2>7, FS_Bijection DEF ExistsBijection
  <2>9. QED
    BY <2>1, <2>8
<1>8. SummarizeDiff(there) = SummarizeDiff(diff)
  BY <1>7 DEF SummarizeDiff
<1>9. QED
  BY <1>2, <1>6, <1>8

-----------------------------------------------------------------------------
(***************************************************************************)
(* Numbers in bytes, and the vectors of Borsh.                             *)
(***************************************************************************)
\* What is left of n when bytes were taken off it.
IsRest(f, n, width) ==
  /\ f \in [1..width -> Nat]
  /\ \A k \in 1..width : f[k] = IF k = 1 THEN n ELSE f[k - 1] \div 256

LEMMA RestExists ==
  ASSUME NEW n \in Nat, NEW width \in Nat
  PROVE  \E f : IsRest(f, n, width)
<1> DEFINE S == {m \in 0..width : \E f : IsRest(f, n, m)}
<1>1. 0 \in S
  <2>1. IsRest([k \in 1..0 |-> 0], n, 0)
    BY DEF IsRest
  <2>2. QED
    BY <2>1
<1>2. \A m \in 0..(width - 1) : m \in S => m + 1 \in S
  <2>1. SUFFICES ASSUME NEW m \in 0..(width - 1), m \in S PROVE m + 1 \in S
    OBVIOUS
  <2>2. PICK f : IsRest(f, n, m)
    BY <2>1
  <2>3. f \in [1..m -> Nat] /\ \A k \in 1..m : f[k] = IF k = 1 THEN n ELSE f[k - 1] \div 256
    BY <2>2 DEF IsRest
  <2>4. PICK x \in Nat : x = IF m = 0 THEN n ELSE f[m] \div 256
    <3>1. CASE m = 0
      BY <3>1
    <3>2. CASE m # 0
      <4>1. m \in 1..m
        BY <2>1, <3>2
      <4>2. PICK y \in Nat : y = f[m]
        BY <2>3, <4>1
      <4>3. y \div 256 \in Nat
        OBVIOUS
      <4>4. QED
        BY <3>2, <4>2, <4>3
    <3>3. QED
      BY <3>1, <3>2
  <2>5. PICK g : g = [k \in 1..(m + 1) |-> IF k <= m THEN f[k] ELSE x]
    OBVIOUS
  <2>6. g \in [1..(m + 1) -> Nat]
    BY <2>3, <2>5
  <2>7. ASSUME NEW k \in 1..(m + 1) PROVE g[k] = IF k = 1 THEN n ELSE g[k - 1] \div 256
    <3>1. CASE k <= m
      <4>1. k \in 1..m /\ (k # 1 => k - 1 \in 1..(m + 1) /\ k - 1 <= m)
        BY <3>1
      <4>2. g[k] = f[k] /\ (k # 1 => g[k - 1] = f[k - 1])
        BY <2>5, <3>1, <4>1
      <4>3. QED
        BY <2>3, <4>1, <4>2
    <3>2. CASE k = m + 1
      <4>1. g[k] = x
        BY <2>5, <3>2
      <4>2. CASE m = 0
        BY <2>4, <3>2, <4>1, <4>2
      <4>3. CASE m # 0
        <5>1. k # 1 /\ k - 1 = m /\ m \in 1..(m + 1)
          BY <3>2, <4>3
        <5>2. g[m] = f[m]
          BY <2>5, <5>1
        <5>3. QED
          BY <2>4, <4>1, <4>3, <5>1, <5>2
      <4>4. QED
        BY <4>2, <4>3
    <3>3. QED
      BY <3>1, <3>2
  <2>8. IsRest(g, n, m + 1)
    BY <2>6, <2>7 DEF IsRest
  <2>9. QED
    BY <2>8
<1>3. \A m \in 0..width : m \in S
  <2> HIDE DEF S
  <2>1. QED
    BY <1>1, <1>2, AllUpTo
<1>4. QED
  BY <1>3

\* NumberBytes is by such a function.
RestStep(n, f, k) == IF k = 1 THEN n ELSE f[k - 1] \div 256

RestsFrom(n, width, f) == f = [k \in 1..width |-> RestStep(n, f, k)]

LEMMA NumberByRest ==
  ASSUME NEW n \in Nat, NEW width \in Nat
  PROVE  \E f : IsRest(f, n, width) /\ NumberBytes(n, width) = [k \in 1..width |-> f[k] % 256]
<1> DEFINE f == CHOOSE f : RestsFrom(n, width, f)
<1>1. \E g : RestsFrom(n, width, g)
  <2>1. PICK g : IsRest(g, n, width)
    BY RestExists
  <2>2. g = [k \in 1..width |-> g[k]]
    BY <2>1 DEF IsRest
  <2>3. \A k \in 1..width : g[k] = RestStep(n, g, k)
    BY <2>1 DEF IsRest, RestStep
  <2>4. PICK h : h = [k \in 1..width |-> RestStep(n, g, k)]
    OBVIOUS
  <2>5. h = g
    BY <2>2, <2>3, <2>4
  <2>6. RestsFrom(n, width, g)
    BY <2>4, <2>5 DEF RestsFrom
  <2>7. QED
    BY <2>6
<1>3. RestsFrom(n, width, f)
  BY <1>1
<1>4. NumberBytes(n, width) = [k \in 1..width |-> f[k] % 256]
  BY DEF NumberBytes, RestsFrom, RestStep
<1> HIDE DEF f
<1>5. \A k \in 1..width : f[k] = IF k = 1 THEN n ELSE f[k - 1] \div 256
  BY <1>3 DEF RestsFrom, RestStep
<1>6. \A k \in 0..width : k \in {m \in 0..width : m # 0 => f[m] \in Nat}
  <2> DEFINE S == {m \in 0..width : m # 0 => f[m] \in Nat}
  <2>1. 0 \in S
    OBVIOUS
  <2>2. \A m \in 0..(width - 1) : m \in S => m + 1 \in S
    <3>1. SUFFICES ASSUME NEW m \in 0..(width - 1), m \in S PROVE f[m + 1] \in Nat
      OBVIOUS
    <3>2. m + 1 \in 1..width /\ (m + 1) - 1 = m
      OBVIOUS
    <3>3. f[m + 1] = IF m = 0 THEN n ELSE f[m] \div 256
      BY <1>5, <3>2
    <3>4. CASE m = 0
      BY <3>3, <3>4
    <3>5. CASE m # 0
      <4>1. PICK y \in Nat : y = f[m]
        BY <3>1, <3>5
      <4>2. y \div 256 \in Nat
        OBVIOUS
      <4>3. QED
        BY <3>3, <3>5, <4>1, <4>2
    <3>6. QED
      BY <3>4, <3>5
  <2> HIDE DEF S
  <2>3. \A m \in 0..width : m \in S
    BY <2>1, <2>2, AllUpTo
  <2>4. QED
    BY <2>3 DEF S
<1>7. f \in [1..width -> Nat]
  <2>1. \A k \in 1..width : f[k] \in Nat
    BY <1>6
  <2>2. f = [k \in 1..width |-> RestStep(n, f, k)]
    BY <1>3 DEF RestsFrom
  <2>3. f = [k \in 1..width |-> f[k]]
    BY <2>2
  <2>4. QED
    BY <2>1, <2>3
<1>8. IsRest(f, n, width)
  BY <1>5, <1>7 DEF IsRest
<1>9. QED
  BY <1>4, <1>8

\* A number that has four bytes: less than 2^32.
FourBytes(n) == n \in Nat /\ ((n \div 256) \div 256) \div 256 < 256

LEMMA FewerFit ==
  ASSUME NEW n, FourBytes(n), NEW m \in 0..n
  PROVE  FourBytes(m)
<1>1. n \in Nat /\ m \in Nat /\ m <= n
  BY DEF FourBytes
<1>2. \A i, j \in Nat : i <= j => i \div 256 <= j \div 256 /\ i \div 256 \in Nat /\ j \div 256 \in Nat
  OBVIOUS
<1>3. QED
  <2>1. PICK a, b : a = m \div 256 /\ b = n \div 256
    OBVIOUS
  <2>2. a \in Nat /\ b \in Nat /\ a <= b
    BY <1>1, <1>2, <2>1
  <2>3. PICK c, d : c = a \div 256 /\ d = b \div 256
    OBVIOUS
  <2>4. c \in Nat /\ d \in Nat /\ c <= d
    BY <1>2, <2>2, <2>3
  <2>5. PICK e, f : e = c \div 256 /\ f = d \div 256
    OBVIOUS
  <2>6. e \in Nat /\ f \in Nat /\ e <= f
    BY <1>2, <2>4, <2>5
  <2>7. f < 256
    BY <2>1, <2>3, <2>5 DEF FourBytes
  <2>8. e < 256
    BY ONLY <2>6, <2>7
  <2>9. QED
    BY <1>1, <2>1, <2>3, <2>5, <2>8 DEF FourBytes

LEMMA NumberIsBytes ==
  ASSUME NEW n \in Nat, NEW width \in Nat
  PROVE  NumberBytes(n, width) \in Bytes(width)
<1>1. PICK f : IsRest(f, n, width) /\ NumberBytes(n, width) = [k \in 1..width |-> f[k] % 256]
  BY NumberByRest
<1>2. \A k \in 1..width : f[k] % 256 \in Byte
  <2>1. SUFFICES ASSUME NEW k \in 1..width PROVE f[k] % 256 \in Byte
    OBVIOUS
  <2>2. f[k] \in Nat
    BY <1>1 DEF IsRest
  <2>3. QED
    BY <2>2 DEF Byte
<1>3. NumberBytes(n, width) \in [1..width -> Byte]
  BY <1>1, <1>2
<1>4. QED
  BY <1>3, LenProperties DEF Bytes

\* The first four bytes tell such numbers apart.
LEMMA BytesTellNumbers ==
  ASSUME NEW m, NEW n, FourBytes(m), FourBytes(n), NEW width \in Nat, width >= 4,
         NumberBytes(m, width) = NumberBytes(n, width)
  PROVE  m = n
<1>1. m \in Nat /\ n \in Nat
  BY DEF FourBytes
<1>2. PICK f : IsRest(f, m, width) /\ NumberBytes(m, width) = [k \in 1..width |-> f[k] % 256]
  BY <1>1, NumberByRest
<1>3. PICK g : IsRest(g, n, width) /\ NumberBytes(n, width) = [k \in 1..width |-> g[k] % 256]
  BY <1>1, NumberByRest
<1>4. 1 \in 1..width /\ 2 \in 1..width /\ 3 \in 1..width /\ 4 \in 1..width
  OBVIOUS
<1>5. /\ f[1] = m /\ f[2] = f[1] \div 256 /\ f[3] = f[2] \div 256 /\ f[4] = f[3] \div 256
      /\ g[1] = n /\ g[2] = g[1] \div 256 /\ g[3] = g[2] \div 256 /\ g[4] = g[3] \div 256
  BY <1>2, <1>3, <1>4 DEF IsRest
<1>6. \A k \in 1..width : f[k] % 256 = g[k] % 256
  BY <1>2, <1>3
<1>7. /\ f[1] % 256 = g[1] % 256 /\ f[2] % 256 = g[2] % 256
      /\ f[3] % 256 = g[3] % 256 /\ f[4] % 256 = g[4] % 256
  BY <1>4, <1>6
<1>8. f[4] < 256 /\ g[4] < 256
  BY <1>5 DEF FourBytes
<1>9. /\ f[1] \in Nat /\ f[2] \in Nat /\ f[3] \in Nat /\ f[4] \in Nat
      /\ g[1] \in Nat /\ g[2] \in Nat /\ g[3] \in Nat /\ g[4] \in Nat
  BY <1>2, <1>3, <1>4 DEF IsRest
<1>10. PICK a \in Nat, b \in Nat, c \in Nat, d \in Nat :
           a = f[1] /\ b = f[2] /\ c = f[3] /\ d = f[4]
  BY <1>9
<1>11. PICK i \in Nat, j \in Nat, k \in Nat, l \in Nat :
           i = g[1] /\ j = g[2] /\ k = g[3] /\ l = g[4]
  BY <1>9
<1>12. /\ b = a \div 256 /\ c = b \div 256 /\ d = c \div 256
       /\ j = i \div 256 /\ k = j \div 256 /\ l = k \div 256
       /\ a % 256 = i % 256 /\ b % 256 = j % 256 /\ c % 256 = k % 256 /\ d % 256 = l % 256
       /\ d < 256 /\ l < 256
  BY <1>5, <1>7, <1>8, <1>10, <1>11
<1>13. a = i
  BY ONLY <1>12, a \in Nat, b \in Nat, c \in Nat, d \in Nat,
                 i \in Nat, j \in Nat, k \in Nat, l \in Nat, SMT
<1>14. QED
  BY <1>5, <1>10, <1>11, <1>13

\* What lies there is there.
LEMMA LiesIsThere ==
  ASSUME NEW s \in Seq(Byte), NEW b \in Seq(Byte), NEW p \in Nat \ {0}, Lies(s, b, p)
  PROVE  SubSeq(s, p, p + Len(b) - 1) = b
<1>1. PICK l \in Nat, k \in Nat : l = Len(s) /\ k = Len(b)
  BY LenProperties
<1>2. p + k <= l + 1 /\ \A n \in 1..k : s[p + n - 1] = b[n]
  BY <1>1 DEF Lies
<1>3. PICK c : c = SubSeq(s, p, p + k - 1)
  OBVIOUS
<1>4. /\ c = [n \in 1..((p + k - 1) - p + 1) |-> s[p + n - 1]]
  BY <1>1, <1>3
<1>5. (p + k - 1) - p + 1 = k
  BY ONLY p \in Nat \ {0}, k \in Nat
<1>6. c = [n \in 1..k |-> s[p + n - 1]]
  BY <1>4, <1>5
<1>7. b = [n \in 1..k |-> b[n]]
  BY <1>1, LenProperties
<1>8. c = b
  BY <1>2, <1>6, <1>7
<1>9. QED
  BY <1>1, <1>3, <1>8

\* How Borsh has a vector of n items that are data.
VecOf(n, data) == NumberBytes(n, 4) \o data

\* The sizes of items that there are.
ItemSizes == {1, 32}

LEMMA VecIsBytes ==
  ASSUME NEW n \in Nat, NEW data \in Seq(Byte)
  PROVE  VecOf(n, data) \in Seq(Byte) /\ Len(VecOf(n, data)) = 4 + Len(data)
<1>1. PICK u : u = NumberBytes(n, 4)
  OBVIOUS
<1>2. u \in Seq(Byte) /\ Len(u) = 4
  BY <1>1, NumberIsBytes DEF Bytes
<1>3. u \o data \in Seq(Byte) /\ Len(u \o data) = Len(u) + Len(data)
  BY <1>2, ConcatProperties
<1>4. QED
  BY <1>1, <1>2, <1>3, Zenon DEF VecOf

\* Its length can be read there, and there is as much.
BeginsAt(s, p, size, n) ==
  SubSeq(s, p, p + 3) = NumberBytes(n, 4) /\ p + 3 + n * size <= Len(s)

\* Where its length is read, its end is found, whatever is behind it.
LEMMA LengthTellsEnd ==
  ASSUME NEW s \in Seq(Byte), FourBytes(Len(s)), NEW p \in Nat \ {0}, NEW size \in ItemSizes,
         NEW n \in Nat, BeginsAt(s, p, size, n)
  PROVE  VecEnds(s, {p}, size) = {p + 4 + n * size}
<1>1. PICK l \in Nat, d \in Nat : l = Len(s) /\ d = n * size
  BY LenProperties DEF ItemSizes
<1>5. p + (4 + d) <= l + 1
  <2>1. p + 3 + d <= l
    BY <1>1, Zenon DEF BeginsAt
  <2>2. QED
    BY ONLY <2>1, p \in Nat \ {0}, d \in Nat, l \in Nat
<1>6. SubSeq(s, p, p + 3) = NumberBytes(n, 4)
  BY DEF BeginsAt
<1>7. PICK most : most = (l - p - 3) \div size
  OBVIOUS
<1>8. most \in Nat /\ n <= most /\ most <= l /\ p + 3 <= l
  <2>1. CASE size = 1
    <3>1. d = n /\ most = l - p - 3
      BY <1>1, <1>7, <2>1
    <3>2. QED
      BY ONLY <1>5, <3>1, l \in Nat, d \in Nat, n \in Nat, p \in Nat \ {0}
  <2>2. CASE size = 32
    <3>1. d = n * 32 /\ most = (l - p - 3) \div 32
      BY <1>1, <1>7, <2>2
    <3>2. QED
      BY ONLY <1>5, <3>1, l \in Nat, d \in Nat, n \in Nat, p \in Nat \ {0}
  <2>3. QED
    BY <2>1, <2>2 DEF ItemSizes
<1>9. {m \in 0..most : p + 3 <= l /\ SubSeq(s, p, p + 3) = NumberBytes(m, 4)} = {n}
  <2>1. ASSUME NEW m \in 0..most, NumberBytes(n, 4) = NumberBytes(m, 4)
        PROVE  m = n
    <3>1. m \in 0..l /\ n \in 0..l
      BY ONLY <1>8, m \in 0..most, n \in Nat, l \in Nat
    <3>2. FourBytes(m) /\ FourBytes(n)
      BY <1>1, <3>1, FewerFit
    <3>3. QED
      BY <2>1, <3>2, BytesTellNumbers
  <2>2. n \in 0..most
    BY <1>8
  <2>3. QED
    BY <1>6, <1>8, <2>1, <2>2
<1>10. VecEnds(s, {p}, size) = {p + 4 + m * size : m \in {n}}
  <2>1. PICK A : A = {m \in 0..((Len(s) - p - 3) \div size) :
                       p + 3 <= Len(s) /\ SubSeq(s, p, p + 3) = NumberBytes(m, 4)}
    OBVIOUS
  <2>2. A = {n}
    BY ONLY <1>1, <1>7, <1>9, <2>1
  <2>3. VecEnds(s, {p}, size) = UNION {{p + 4 + m * size : m \in A} : q \in {p}}
    BY <2>1 DEF VecEnds
  <2>4. QED
    BY <2>2, <2>3
<1>11. QED
  BY <1>10

LEMMA VecEnd ==
  ASSUME NEW s \in Seq(Byte), FourBytes(Len(s)), NEW p \in Nat \ {0}, NEW size \in ItemSizes,
         NEW n \in Nat, NEW data \in Bytes(n * size), Lies(s, VecOf(n, data), p)
  PROVE  VecEnds(s, {p}, size) = {p + Len(VecOf(n, data))}
<1>1. PICK l \in Nat, d \in Nat : l = Len(s) /\ d = n * size
  BY LenProperties DEF ItemSizes
<1>2. data \in Seq(Byte) /\ Len(data) = d
  BY <1>1 DEF Bytes
<1>3. NumberBytes(n, 4) \in Seq(Byte) /\ Len(NumberBytes(n, 4)) = 4
  BY NumberIsBytes DEF Bytes
<1>4. Len(VecOf(n, data)) = 4 + d
  BY <1>2, VecIsBytes
<1>5. p + 3 + n * size <= Len(s)
  <2>1. p + (4 + d) <= l + 1
    BY <1>1, <1>4 DEF Lies
  <2>2. p + 3 + d <= l
    BY ONLY <2>1, p \in Nat \ {0}, d \in Nat, l \in Nat
  <2>3. QED
    BY <1>1, <2>2, Zenon
<1>6. SubSeq(s, p, p + 3) = NumberBytes(n, 4)
  <2>1. Lies(s, NumberBytes(n, 4), p)
    BY <1>2, <1>3, LiesApart DEF VecOf
  <2>2. SubSeq(s, p, p + Len(NumberBytes(n, 4)) - 1) = NumberBytes(n, 4)
    BY <1>3, <2>1, LiesIsThere
  <2>3. p + 4 - 1 = p + 3
    OBVIOUS
  <2>4. QED
    BY <1>3, <2>2, <2>3
<1>7. VecEnds(s, {p}, size) = {p + 4 + n * size}
  <2>1. BeginsAt(s, p, size, n)
    BY <1>5, <1>6, Zenon DEF BeginsAt
  <2>2. QED
    BY <2>1, LengthTellsEnd
<1>8. p + 4 + n * size = p + Len(VecOf(n, data))
  <2>1. p + 4 + d = p + (4 + d)
    BY ONLY p \in Nat \ {0}, d \in Nat
  <2>2. QED
    BY <1>1, <1>4, <2>1, Zenon
<1>9. QED
  BY <1>7, <1>8

-----------------------------------------------------------------------------
\* A proof with this journal, in which nothing before it looks like a journal.
IsProofOf(proof, journal) ==
  /\ journal \in DOMAIN Outputs /\ journal \in Seq(Byte) /\ journal # <<>>
  /\ Len(journal) \in MinJournal..MaxJournal
  /\ \E before, after \in Seq(Byte) :
       /\ proof = before \o (NumberBytes(Len(journal), 8) \o (journal \o after))
       /\ \A c \in Candidates(proof) : c[1] > Len(before)

\* Then extract_journal finds it, whatever is before and behind it.
THEOREM JournalIsFound ==
  ASSUME FourBytes(MaxJournal), NEW proof, NEW journal, IsProofOf(proof, journal)
  PROVE  ExtractJournal(proof) = Some(journal)
<1>1. PICK before \in Seq(Byte), after \in Seq(Byte) :
        /\ proof = before \o (NumberBytes(Len(journal), 8) \o (journal \o after))
        /\ \A c \in Candidates(proof) : c[1] > Len(before)
  BY DEF IsProofOf
<1>2. journal \in Seq(Byte) /\ journal # <<>> /\ journal \in DOMAIN Outputs
  BY DEF IsProofOf
<1>3. PICK j \in Nat, b \in Nat, a \in Nat : j = Len(journal) /\ b = Len(before) /\ a = Len(after)
  BY <1>2, LenProperties
<1>4. j # 0 /\ j \in MinJournal..MaxJournal
  BY <1>2, <1>3, EmptySeq DEF IsProofOf
<1>5. PICK size : size = NumberBytes(j, 8)
  OBVIOUS
<1>6. size \in Seq(Byte) /\ Len(size) = 8
  BY <1>5, NumberIsBytes DEF Bytes
<1>7. PICK t : t = journal \o after
  OBVIOUS
<1>8. t \in Seq(Byte) /\ Len(t) = j + a
  BY <1>2, <1>3, <1>7, ConcatProperties
<1>9. PICK u : u = size \o t
  OBVIOUS
<1>10. u \in Seq(Byte) /\ Len(u) = 8 + (j + a)
  <2>1. size \o t \in Seq(Byte) /\ Len(size \o t) = Len(size) + Len(t)
    BY <1>6, <1>8, ConcatProperties
  <2>2. QED
    BY <1>6, <1>8, <1>9, <2>1, Zenon
<1>11. proof = before \o u /\ proof \in Seq(Byte) /\ Len(proof) = b + (8 + (j + a))
  <2>1. proof = before \o u
    BY <1>1, <1>3, <1>5, <1>7, <1>9, Zenon
  <2>2. before \o u \in Seq(Byte) /\ Len(before \o u) = Len(before) + Len(u)
    BY <1>10, ConcatProperties
  <2>3. QED
    BY <1>3, <1>10, <2>1, <2>2, Zenon
<1>12. Lies(proof, proof, 1)
  <2>1. \A n \in 1..Len(proof) : 1 + n - 1 = n
    BY <1>11
  <2>2. QED
    BY <1>11, <2>1 DEF Lies
<1>13. Lies(proof, u, 1 + b)
  BY <1>3, <1>10, <1>11, <1>12, LiesApart
<1>14. Lies(proof, size, 1 + b) /\ Lies(proof, t, 1 + b + 8)
  <2>1. Lies(proof, size \o t, 1 + b) /\ 1 + b \in Nat
    BY <1>9, <1>13
  <2>2. Lies(proof, size, 1 + b) /\ Lies(proof, t, 1 + b + Len(size))
    BY <1>6, <1>8, <2>1, LiesApart, Zenon
  <2>3. QED
    BY <1>6, <2>2, Zenon
<1>15. Lies(proof, journal, 1 + b + 8)
  BY <1>2, <1>7, <1>14, LiesApart
<1>16. PICK q \in Nat : q = 1 + b
  OBVIOUS
<1>17. q \in Nat \ {0} /\ q + 8 \in Nat \ {0} /\ q + 8 - 1 = q + 7 /\ q + 8 + j - 1 = q + 7 + j
  BY <1>16
<1>18. SubSeq(proof, q, q + 7) = NumberBytes(j, 8)
  <2>1. SubSeq(proof, q, q + Len(size) - 1) = size
    BY <1>6, <1>11, <1>14, <1>16, <1>17, LiesIsThere
  <2>2. QED
    BY <1>5, <1>6, <1>17, <2>1
<1>19. SubSeq(proof, q + 8, q + 7 + j) = journal
  <2>1. SubSeq(proof, q + 8, q + 8 + Len(journal) - 1) = journal
    BY <1>2, <1>11, <1>15, <1>16, <1>17, LiesIsThere
  <2>2. QED
    BY <1>3, <1>17, <2>1
<1>20. <<q, j>> \in Candidates(proof)
  <2>1. PICK l \in Nat : l = Len(proof)
    BY <1>11, LenProperties
  <2>2. q \in 1..(l - 8) /\ q + 7 + j <= l /\ j <= l
    BY ONLY <1>4, <1>11, <1>16, <2>1, a \in Nat, b \in Nat, j \in Nat, l \in Nat
  <2>3. j \in MinJournal..(IF MaxJournal < l THEN MaxJournal ELSE l)
    BY <1>4, <2>2, DecoderAssumption
  <2>4. PICK c : c = <<q, j>>
    OBVIOUS
  <2>5. c[1] = q /\ c[2] = j
    BY <2>4
  <2>6. c \in (1..(l - 8)) \X (MinJournal..(IF MaxJournal < l THEN MaxJournal ELSE l))
    BY <2>2, <2>3, <2>4
  <2>7. c \in Candidates(proof)
    BY <1>2, <1>18, <1>19, <2>1, <2>2, <2>5, <2>6, Zenon DEF Candidates
  <2>8. QED
    BY <2>4, <2>7
<1>21. \A c \in Candidates(proof) : q <= c[1] /\ c[1] \in Nat
  <2>1. SUFFICES ASSUME NEW c \in Candidates(proof) PROVE q <= c[1] /\ c[1] \in Nat
    OBVIOUS
  <2>2. c[1] > b
    BY <1>1, <1>3
  <2>3. c[1] \in 1..(Len(proof) - 8)
    BY DEF Candidates
  <2>4. PICK i : i = c[1]
    OBVIOUS
  <2>5. i \in Nat
    BY <1>11, <2>3, <2>4
  <2>6. q <= i
    BY ONLY <1>16, <2>2, <2>4, <2>5, b \in Nat, q \in Nat
  <2>7. QED
    BY <2>4, <2>5, <2>6
<1>22. PICK first : first = CHOOSE c \in Candidates(proof) : \A d \in Candidates(proof) : c[1] <= d[1]
  OBVIOUS
<1>23. first \in Candidates(proof) /\ \A d \in Candidates(proof) : first[1] <= d[1]
  <2>1. <<q, j>>[1] = q
    OBVIOUS
  <2>2. \E c \in Candidates(proof) : \A d \in Candidates(proof) : c[1] <= d[1]
    BY <1>20, <1>21, <2>1
  <2>3. QED
    BY <1>22, <2>2
<1>24. first[1] = q
  <2>1. first[1] <= <<q, j>>[1] /\ <<q, j>>[1] = q
    BY <1>20, <1>23
  <2>2. QED
    BY <1>21, <1>23, <2>1
<1>25. first[2] = j
  <2>1. first[2] \in MinJournal..(IF MaxJournal < Len(proof) THEN MaxJournal ELSE Len(proof))
    BY <1>23 DEF Candidates
  <2>2. first[2] \in 0..MaxJournal /\ j \in 0..MaxJournal
    BY <1>4, <1>11, <2>1, DecoderAssumption
  <2>3. FourBytes(first[2]) /\ FourBytes(j)
    BY <2>2, FewerFit
  <2>4. SubSeq(proof, first[1], first[1] + 7) = NumberBytes(first[2], 8)
    BY <1>23 DEF Candidates
  <2>5. NumberBytes(first[2], 8) = NumberBytes(j, 8)
    BY <1>18, <1>24, <2>4
  <2>6. QED
    BY <2>3, <2>5, BytesTellNumbers
<1>26. ExtractJournal(proof) = Some(SubSeq(proof, first[1] + 8, first[1] + 7 + first[2]))
  <2>1. Candidates(proof) # {}
    BY <1>20
  <2>2. QED
    BY <1>22, <2>1 DEF ExtractJournal
<1>27. QED
  BY <1>19, <1>24, <1>25, <1>26

\* A vector of vectors of bytes.
VecsOf(items) == [k \in DOMAIN items |-> VecOf(Len(items[k]), items[k])]

ListOf(items) == VecOf(Len(items), FlattenSeq(VecsOf(items)))

\* The function in ListEnds.
EndStep(s, p, f, k) == IF k = 0 THEN {p + 4} ELSE VecEnds(s, f[k - 1], 1)

EndsFrom(s, p, f) == f = [k \in 0..Len(s) |-> EndStep(s, p, f, k)]

IsEnds(s, p, f, m) ==
  f = [k \in 0..m |-> f[k]] /\ \A k \in 0..m : f[k] = EndStep(s, p, f, k)

LEMMA EndsExist ==
  ASSUME NEW s \in Seq(Byte), NEW p
  PROVE  \E f : EndsFrom(s, p, f)
<1>1. PICK l \in Nat : l = Len(s)
  BY LenProperties
<1> DEFINE S == {m \in 0..l : \E f : IsEnds(s, p, f, m)}
<1>2. 0 \in S
  <2>1. PICK f : f = [k \in 0..0 |-> {p + 4}]
    OBVIOUS
  <2>2. f = [k \in 0..0 |-> f[k]] /\ \A k \in 0..0 : k = 0 /\ f[k] = {p + 4}
    BY <2>1
  <2>3. IsEnds(s, p, f, 0)
    BY <2>2 DEF IsEnds, EndStep
  <2>4. QED
    BY <2>3
<1>3. \A m \in 0..(l - 1) : m \in S => m + 1 \in S
  <2>1. SUFFICES ASSUME NEW m \in 0..(l - 1), m \in S PROVE \E g : IsEnds(s, p, g, m + 1)
    BY <1>1
  <2>2. PICK f : IsEnds(s, p, f, m)
    BY <2>1
  <2>3. PICK x : x = VecEnds(s, f[m], 1)
    OBVIOUS
  <2>4. PICK g : g = [k \in 0..(m + 1) |-> IF k <= m THEN f[k] ELSE x]
    OBVIOUS
  <2>5. g = [k \in 0..(m + 1) |-> g[k]]
    BY <2>4
  <2>6. ASSUME NEW k \in 0..(m + 1) PROVE g[k] = EndStep(s, p, g, k)
    <3>1. CASE k <= m
      <4>1. k \in 0..m /\ (k # 0 => k - 1 \in 0..(m + 1) /\ k - 1 <= m)
        BY <3>1
      <4>2. g[k] = f[k] /\ (k # 0 => g[k - 1] = f[k - 1])
        BY <2>4, <3>1, <4>1
      <4>3. f[k] = EndStep(s, p, f, k)
        BY <2>2, <4>1 DEF IsEnds
      <4>4. QED
        BY <4>2, <4>3 DEF EndStep
    <3>2. CASE k = m + 1
      <4>1. g[k] = x
        BY <2>4, <3>2
      <4>2. k # 0 /\ k - 1 = m /\ m \in 0..(m + 1) /\ m <= m
        BY <3>2
      <4>3. g[m] = f[m]
        BY <2>4, <4>2
      <4>4. QED
        BY <2>3, <4>1, <4>2, <4>3 DEF EndStep
    <3>3. QED
      BY <3>1, <3>2
  <2>7. IsEnds(s, p, g, m + 1)
    BY <2>5, <2>6 DEF IsEnds
  <2>8. QED
    BY <2>7
<1>4. \A m \in 0..l : m \in S
  <2> HIDE DEF S
  <2>1. QED
    BY <1>2, <1>3, AllUpTo
<1>5. PICK f : IsEnds(s, p, f, l)
  BY <1>4
<1>6. f = [k \in 0..l |-> f[k]] /\ \A k \in 0..l : f[k] = EndStep(s, p, f, k)
  BY <1>5 DEF IsEnds
<1>7. PICK h : h = [k \in 0..l |-> EndStep(s, p, f, k)]
  OBVIOUS
<1>8. h = f
  BY <1>6, <1>7
<1>9. QED
  BY <1>1, <1>7, <1>8 DEF EndsFrom

ListEnd(s, p) ==
  UNION {(CHOOSE f : EndsFrom(s, p, f))[end - (p + 4)] : end \in VecEnds(s, {p}, 1)}

LEMMA EndsByFunction ==
  ASSUME NEW s \in Seq(Byte), NEW p
  PROVE  \E f : /\ ListEnds(s, {p}) = UNION {f[end - (p + 4)] : end \in VecEnds(s, {p}, 1)}
                /\ \A k \in 0..Len(s) : f[k] = EndStep(s, p, f, k)
<1> DEFINE f == CHOOSE f : EndsFrom(s, p, f)
<1>1. EndsFrom(s, p, f)
  BY EndsExist
<1>2. ListEnds(s, {p}) = UNION {f[end - (p + 4)] : end \in VecEnds(s, {p}, 1)}
  <2>1. ListEnds(s, {p}) = UNION {ListEnd(s, q) : q \in {p}}
    BY DEF ListEnds, ListEnd, EndsFrom, EndStep
  <2>2. ListEnds(s, {p}) = ListEnd(s, p)
    BY <2>1
  <2>3. QED
    BY <2>2 DEF ListEnd
<1>3. \A k \in 0..Len(s) : f[k] = EndStep(s, p, f, k)
  <2> HIDE DEF f
  <2>1. QED
    BY <1>1 DEF EndsFrom
<1>4. QED
  BY <1>2, <1>3

LEMMA VecsAreBytes ==
  ASSUME NEW items \in Seq(Seq(Byte))
  PROVE  /\ VecsOf(items) \in Seq(Seq(Byte)) /\ Len(VecsOf(items)) = Len(items)
         /\ \A k \in 1..Len(items) : /\ items[k] \in Seq(Byte)
                                     /\ VecsOf(items)[k] = VecOf(Len(items[k]), items[k])
                                     /\ Len(VecsOf(items)[k]) = 4 + Len(items[k])
<1>1. PICK l \in Nat : l = Len(items) /\ DOMAIN items = 1..l
  BY LenProperties
<1>2. \A k \in 1..l : items[k] \in Seq(Byte)
  BY <1>1, ElementOfSeq
<1>3. \A k \in 1..l : /\ VecOf(Len(items[k]), items[k]) \in Seq(Byte)
                      /\ Len(VecOf(Len(items[k]), items[k])) = 4 + Len(items[k])
  BY <1>2, LenProperties, VecIsBytes
<1>4. PICK v : v = VecsOf(items)
  OBVIOUS
<1>5. v = [k \in 1..l |-> VecOf(Len(items[k]), items[k])]
  BY <1>1, <1>4 DEF VecsOf
<1>6. v \in [1..l -> Seq(Byte)] /\ \A k \in 1..l : v[k] = VecOf(Len(items[k]), items[k])
  BY <1>3, <1>5
<1>7. v \in Seq(Seq(Byte)) /\ Len(v) = l
  BY <1>5, <1>6, LenProperties
<1>8. QED
  BY <1>1, <1>2, <1>3, <1>4, <1>6, <1>7

LEMMA ListIsBytes ==
  ASSUME NEW items \in Seq(Seq(Byte))
  PROVE  FlattenSeq(VecsOf(items)) \in Seq(Byte) /\ ListOf(items) \in Seq(Byte)
<1>1. VecsOf(items) \in Seq(Seq(Byte)) /\ Len(items) \in Nat
  BY VecsAreBytes, LenProperties
<1>2. FlattenSeq(VecsOf(items)) \in Seq(Byte)
  BY <1>1, PartsLie
<1>3. QED
  BY <1>1, <1>2, VecIsBytes DEF ListOf

\* Its end is found, too.
LEMMA ListEndsThere ==
  ASSUME NEW s \in Seq(Byte), FourBytes(Len(s)), NEW p \in Nat \ {0},
         NEW items \in Seq(Seq(Byte)), Lies(s, ListOf(items), p)
  PROVE  ListEnds(s, {p}) = {p + Len(ListOf(items))}
<1>0. PICK n \in Nat, l \in Nat : n = Len(items) /\ l = Len(s)
  BY LenProperties
<1>1. PICK vecs, flat : vecs = VecsOf(items) /\ flat = FlattenSeq(vecs) /\ n = Len(items) /\ l = Len(s)
  BY <1>0
<1>2. /\ vecs \in Seq(Seq(Byte)) /\ Len(vecs) = n
      /\ \A k \in 1..n : /\ items[k] \in Seq(Byte) /\ vecs[k] = VecOf(Len(items[k]), items[k])
                         /\ Len(vecs[k]) = 4 + Len(items[k])
  BY <1>1, VecsAreBytes
<1>3. flat \in Seq(Byte)
  BY <1>1, ListIsBytes
<1>4. ListOf(items) = VecOf(n, flat) /\ Len(ListOf(items)) = 4 + Len(flat)
  BY <1>1, <1>3, VecIsBytes DEF ListOf
<1>5. NumberBytes(n, 4) \in Seq(Byte) /\ Len(NumberBytes(n, 4)) = 4
  BY NumberIsBytes DEF Bytes
<1>6. Lies(s, NumberBytes(n, 4), p) /\ Lies(s, flat, p + 4)
  <2>1. Lies(s, NumberBytes(n, 4) \o flat, p)
    BY <1>4 DEF VecOf
  <2>2. QED
    BY <1>3, <1>5, <2>1, LiesApart
<1>7. SubSeq(s, p, p + 3) = NumberBytes(n, 4)
  <2>1. SubSeq(s, p, p + Len(NumberBytes(n, 4)) - 1) = NumberBytes(n, 4)
    BY <1>5, <1>6, LiesIsThere
  <2>2. p + 4 - 1 = p + 3
    OBVIOUS
  <2>3. QED
    BY <1>5, <2>1, <2>2
<1>8. PICK q \in Nat : q = p + 4
  OBVIOUS
<1> DEFINE place(k) == Len(Upto(vecs, k))
<1>9. /\ place(0) = 0 /\ place(n) = Len(flat)
      /\ \A k \in 1..n : /\ place(k - 1) \in Nat
                         /\ Lies(s, vecs[k], q + place(k - 1))
                         /\ place(k) = place(k - 1) + Len(vecs[k])
  <2>1. \A k \in 0..n : Upto(vecs, k) \in Seq(Byte)
    BY <1>2, FlattenPrefixes
  <2>2. Upto(vecs, 0) = <<>> /\ Upto(vecs, n) = flat
    BY <1>1, <1>2, FlattenPrefixes
  <2>3. Len(<<>>) = 0
    OBVIOUS
  <2>4. \A k \in 1..n : Lies(s, vecs[k], q + place(k - 1)) /\ place(k) = place(k - 1) + Len(vecs[k])
    <3>1. Lies(s, FlattenSeq(vecs), q)
      BY <1>1, <1>6, <1>8
    <3>2. QED
      BY <1>2, <3>1, LiesOneByOne
  <2>5. \A k \in 1..n : k - 1 \in 0..n
    OBVIOUS
  <2>6. \A k \in 1..n : place(k - 1) \in Nat
    BY <2>1, <2>5, LenProperties
  <2>7. QED
    BY <2>2, <2>3, <2>4, <2>6
<1> HIDE DEF place
<1>10. n <= Len(flat)
  <2> DEFINE S == {k \in 0..n : place(k) \in Nat /\ k <= place(k)}
  <2>1. 0 \in S
    BY <1>9
  <2>2. \A m \in 0..(n - 1) : m \in S => m + 1 \in S
    <3>1. SUFFICES ASSUME NEW m \in 0..(n - 1), m \in S PROVE m + 1 \in S
      OBVIOUS
    <3>2. PICK k \in 1..n : k = m + 1 /\ k - 1 = m
      OBVIOUS
    <3>3. place(k) = place(m) + Len(vecs[k])
      BY <1>9, <3>2
    <3>4. PICK i \in Nat, j \in Nat : i = place(m) /\ j = Len(items[k])
      BY <1>2, <3>1, LenProperties
    <3>5. Len(vecs[k]) = 4 + j
      BY <1>2, <3>4
    <3>6. m <= i
      BY <3>1, <3>4
    <3>7. place(k) = i + (4 + j)
      BY <3>3, <3>4, <3>5, Zenon
    <3>8. k <= i + (4 + j) /\ i + (4 + j) \in Nat /\ k \in 0..n
      BY ONLY <3>2, <3>6, i \in Nat, j \in Nat, m \in 0..(n - 1), n \in Nat, k \in 1..n
    <3>9. k \in S
      BY <3>7, <3>8
    <3>10. QED
      BY <3>2, <3>9
  <2> HIDE DEF S
  <2>3. \A m \in 0..n : m \in S
    BY <2>1, <2>2, AllUpTo
  <2>4. n \in S
    BY <2>3
  <2>5. QED
    BY <1>9, <2>4 DEF S
<1>11. PICK w \in Nat : w = Len(flat) /\ n <= w /\ q + w <= l + 1
  <2>1. Len(flat) \in Nat
    BY <1>3, LenProperties
  <2>2. q + Len(flat) <= l + 1
    BY <1>1, <1>6, <1>8 DEF Lies
  <2>3. QED
    BY <1>10, <2>1, <2>2
<1>12. VecEnds(s, {p}, 1) = {p + 4 + n * 1}
  <2>1. p + 3 + n * 1 <= Len(s) /\ 1 \in ItemSizes
    BY <1>1, <1>8, <1>11 DEF ItemSizes
  <2>2. BeginsAt(s, p, 1, n)
    BY <1>7, <2>1 DEF BeginsAt
  <2>3. QED
    BY <2>1, <2>2, LengthTellsEnd
<1>13. PICK f : /\ ListEnds(s, {p}) = UNION {f[end - (p + 4)] : end \in VecEnds(s, {p}, 1)}
                /\ \A k \in 0..Len(s) : f[k] = EndStep(s, p, f, k)
  BY EndsByFunction
<1>14. ListEnds(s, {p}) = f[n]
  <2>1. p + 4 + n * 1 - (p + 4) = n
    OBVIOUS
  <2>2. PICK e : e = p + 4 + n * 1
    OBVIOUS
  <2>3. VecEnds(s, {p}, 1) = {e}
    BY <1>12, <2>2, Zenon
  <2>6. e - (p + 4) = n
    BY <2>1, <2>2
  <2>4. ListEnds(s, {p}) = UNION {f[end - (p + 4)] : end \in {e}}
    BY <1>13, <2>3
  <2>5. QED
    BY <2>4, <2>6
<1>15. \A k \in 0..n : k \in 0..l /\ f[k] = EndStep(s, p, f, k)
  <2>1. n <= l
    BY <1>8, <1>11
  <2>2. QED
    BY <1>1, <1>13, <2>1
<1>16. f[n] = {q + place(n)}
  <2> DEFINE S == {k \in 0..n : f[k] = {q + place(k)}}
  <2>1. 0 \in S
    <3>1. f[0] = {p + 4} /\ q + place(0) = q
      BY <1>8, <1>9, <1>15 DEF EndStep
    <3>2. QED
      BY <1>8, <3>1
  <2>2. \A m \in 0..(n - 1) : m \in S => m + 1 \in S
    <3>1. SUFFICES ASSUME NEW m \in 0..(n - 1), f[m] = {q + place(m)}
                   PROVE  m + 1 \in 0..n /\ f[m + 1] = {q + place(m + 1)}
      OBVIOUS
    <3>2. PICK k \in 1..n : k = m + 1 /\ k - 1 = m /\ k # 0 /\ k \in 0..n
      OBVIOUS
    <3>3. f[k] = VecEnds(s, f[m], 1)
      BY <1>15, <3>2 DEF EndStep
    <3>4. PICK i \in Nat, j \in Nat : i = place(m) /\ j = Len(items[k])
      BY <1>2, <1>9, <3>2, LenProperties
    <3>5. PICK r : r = q + i
      OBVIOUS
    <3>6. r \in Nat \ {0}
      BY <1>8, <3>5
    <3>7. Lies(s, VecOf(j, items[k]), r) /\ items[k] \in Bytes(j * 1) /\ Len(vecs[k]) = 4 + j
      <4>1. Lies(s, VecOf(j, items[k]), r)
        <5>1. Lies(s, vecs[k], q + place(m))
          BY <1>9, <3>2
        <5>2. vecs[k] = VecOf(j, items[k])
          BY <1>2, <3>4
        <5>3. QED
          BY <3>4, <3>5, <5>1, <5>2, Zenon
      <4>2. j * 1 = j
        OBVIOUS
      <4>3. items[k] \in Bytes(j)
        BY <1>2, <3>4 DEF Bytes
      <4>4. QED
        BY <1>2, <3>4, <4>1, <4>2, <4>3
    <3>8. VecEnds(s, {r}, 1) = {r + Len(VecOf(j, items[k]))}
      <4>1. PICK size \in ItemSizes : size = 1
        BY DEF ItemSizes
      <4>2. PICK data : data = items[k]
        OBVIOUS
      <4>3. data \in Bytes(j * size) /\ Lies(s, VecOf(j, data), r)
        BY <3>7, <4>1, <4>2, Zenon
      <4>4. VecEnds(s, {r}, size) = {r + Len(VecOf(j, data))}
        BY <3>6, <4>3, VecEnd
      <4>5. QED
        BY <4>1, <4>2, <4>4, Zenon
    <3>9. Len(VecOf(j, items[k])) = 4 + j
      BY <1>2, <3>4, <3>7
    <3>10. place(k) = i + (4 + j)
      BY <1>9, <3>2, <3>4, <3>7
    <3>11. r + (4 + j) = q + (i + (4 + j))
      BY ONLY <3>5, q \in Nat, i \in Nat, j \in Nat
    <3>12. f[k] = {q + place(k)}
      BY <3>1, <3>3, <3>4, <3>5, <3>8, <3>9, <3>10, <3>11, Zenon
    <3>13. QED
      BY <3>2, <3>12
  <2> HIDE DEF S
  <2>3. \A m \in 0..n : m \in S
    BY <2>1, <2>2, AllUpTo
  <2>4. n \in S
    BY <2>3
  <2>5. QED
    BY <2>4 DEF S
<1>17. q + place(n) = p + Len(ListOf(items))
  <2>1. q + w = p + (4 + w)
    BY <1>8
  <2>2. QED
    BY <1>4, <1>9, <1>11, <2>1
<1>18. QED
  BY <1>14, <1>16, <1>17

-----------------------------------------------------------------------------
\* What Borsh writes behind the tag of a variant.
Vecs(size) == UNION {{VecOf(n, data) : data \in Bytes(n * size)} : n \in Nat}

Lists == {ListOf(items) : items \in Seq(Seq(Byte))}

Fields(tag) ==
  CASE tag \in {0, 2} -> Vecs(1)
    [] tag = 1 -> {a \o b : a \in Vecs(32), b \in Vecs(32)}
    [] tag = 3 -> {a \o (b \o c) : a \in Vecs(1), b \in Lists, c \in Lists}
    [] tag = 4 -> Bytes(44)

\* The one end of what lies at p, a vector of items of this size.
VecEndsWith(s, p, size, a) == VecEnds(s, {p}, size) = {p + Len(a)}

LEMMA VecInBody ==
  ASSUME NEW s \in Seq(Byte), FourBytes(Len(s)), NEW p \in Nat \ {0}, NEW size \in ItemSizes,
         NEW a \in Vecs(size), Lies(s, a, p)
  PROVE  VecEndsWith(s, p, size, a)
<1>1. PICK n \in Nat : a \in {VecOf(n, data) : data \in Bytes(n * size)}
  BY DEF Vecs
<1>2. PICK data \in Bytes(n * size) : a = VecOf(n, data)
  BY <1>1
<1>3. Lies(s, VecOf(n, data), p)
  BY <1>2
<1>4. VecEnds(s, {p}, size) = {p + Len(VecOf(n, data))}
  BY <1>3, VecEnd
<1>5. QED
  BY <1>2, <1>4, Zenon DEF VecEndsWith

LEMMA ListInBody ==
  ASSUME NEW s \in Seq(Byte), FourBytes(Len(s)), NEW p \in Nat \ {0},
         NEW a \in Lists, Lies(s, a, p)
  PROVE  ListEnds(s, {p}) = {p + Len(a)}
<1>1. PICK items \in Seq(Seq(Byte)) : a = ListOf(items)
  BY DEF Lists
<1>2. Lies(s, ListOf(items), p)
  BY <1>1
<1>3. ListEnds(s, {p}) = {p + Len(ListOf(items))}
  BY <1>2, ListEndsThere
<1>4. QED
  BY <1>1, <1>3, Zenon

LEMMA FieldsAreBytes ==
  /\ \A size \in ItemSizes : Vecs(size) \subseteq Seq(Byte)
  /\ Lists \subseteq Seq(Byte)
  /\ \A tag \in 0..4 : Fields(tag) \subseteq Seq(Byte)
<1>1. ASSUME NEW size \in ItemSizes, NEW a \in Vecs(size)
      PROVE  a \in Seq(Byte)
  <2>1. PICK n \in Nat : a \in {VecOf(n, data) : data \in Bytes(n * size)}
    BY DEF Vecs
  <2>2. PICK data \in Bytes(n * size) : a = VecOf(n, data)
    BY <2>1
  <2>3. data \in Seq(Byte)
    BY DEF Bytes
  <2>4. QED
    BY <2>2, <2>3, VecIsBytes
<1>2. ASSUME NEW a \in Lists
      PROVE  a \in Seq(Byte)
  BY <1>2, ListIsBytes DEF Lists
<1>3. ASSUME NEW tag \in 0..4, NEW fields \in Fields(tag)
      PROVE  fields \in Seq(Byte)
  <2>1. 1 \in ItemSizes /\ 32 \in ItemSizes
    BY DEF ItemSizes
  <2>2. CASE tag \in {0, 2}
    BY <1>1, <2>1, <2>2 DEF Fields
  <2>3. CASE tag = 1
    <3>1. PICK a \in Vecs(32), b \in Vecs(32) : fields = a \o b
      BY <2>3 DEF Fields
    <3>2. QED
      BY <1>1, <2>1, <3>1, ConcatProperties
  <2>4. CASE tag = 3
    <3>1. PICK a \in Vecs(1), b \in Lists, c \in Lists : fields = a \o (b \o c)
      BY <2>4 DEF Fields
    <3>2. a \in Seq(Byte) /\ b \in Seq(Byte) /\ c \in Seq(Byte)
      BY <1>1, <1>2, <2>1
    <3>3. b \o c \in Seq(Byte)
      BY <3>2, ConcatProperties
    <3>4. QED
      BY <3>1, <3>2, <3>3, ConcatProperties
  <2>5. CASE tag = 4
    <3>1. fields \in Bytes(44)
      BY <2>5 DEF Fields
    <3>2. QED
      BY <3>1 DEF Bytes
  <2>6. QED
    BY <2>2, <2>3, <2>4, <2>5
<1>4. QED
  BY <1>1, <1>2, <1>3

\* decode_body: every variant is decoded as it was written, to the last byte.
THEOREM BodiesAreDecoded ==
  ASSUME NEW tag \in 0..4, NEW fields \in Fields(tag), FourBytes(1 + Len(fields))
  PROVE  DecodeBody(<<tag>> \o fields) = Some(Shown(Variants[tag + 1], fields))
<1>1. fields \in Seq(Byte)
  BY FieldsAreBytes
<1>2. PICK l \in Nat : l = Len(fields)
  BY <1>1, LenProperties
<1>3. PICK body : body = <<tag>> \o fields
  OBVIOUS
<1>4. <<tag>> \in Seq(Byte) /\ Len(<<tag>>) = 1 /\ <<tag>>[1] = tag
  BY DEF Byte
<1>5. body \in Seq(Byte) /\ Len(body) = 1 + l
  BY <1>1, <1>2, <1>3, <1>4, ConcatProperties
<1>6. Lies(body, <<tag>>, 1) /\ Lies(body, fields, 1 + 1)
  <2>1. \A n \in 1..Len(body) : 1 + n - 1 = n
    BY <1>5
  <2>2. Lies(body, body, 1)
    BY <1>5, <2>1 DEF Lies
  <2>3. Lies(body, <<tag>> \o fields, 1) /\ 1 \in Nat
    BY <1>3, <2>2
  <2>4. Lies(body, <<tag>>, 1) /\ Lies(body, fields, 1 + Len(<<tag>>))
    BY <1>1, <1>4, <2>3, LiesApart
  <2>5. QED
    BY <1>4, <2>4, Zenon
<1>7. Lies(body, fields, 2) /\ 2 \in Nat \ {0} /\ 2 + l - 1 = 1 + l
  BY <1>6
<1>8. body[1] = tag /\ body # <<>>
  <2>1. Is(body, 1, tag)
    BY <1>5, <1>6, ByteLies
  <2>2. body[1] = tag
    BY <2>1 DEF Is
  <2>3. QED
    BY <1>5, <2>2
<1>9. SubSeq(body, 2, Len(body)) = fields
  <2>1. SubSeq(body, 2, 2 + Len(fields) - 1) = fields
    BY <1>1, <1>5, <1>7, LiesIsThere
  <2>2. QED
    BY <1>2, <1>5, <1>7, <2>1, Zenon
<1>10. FourBytes(Len(body)) /\ body \in Seq(Byte)
  BY <1>2, <1>5
<1>11. FieldsEnd(body) = {2 + l}
  <2>1. PICK one \in ItemSizes, more \in ItemSizes : one = 1 /\ more = 32
    BY DEF ItemSizes
  <2>0. PICK two \in Nat \ {0} : two = 2
    OBVIOUS
  <2>2. CASE tag \in {0, 2}
    <3>1. fields \in Vecs(one) /\ Lies(body, fields, two)
      BY <1>7, <2>0, <2>1, <2>2 DEF Fields
    <3>4. VecEndsWith(body, two, one, fields)
      BY <1>10, <3>1, VecInBody
    <3>2. VecEnds(body, {2}, 1) = {2 + Len(fields)}
      BY <2>0, <2>1, <3>4, Zenon DEF VecEndsWith
    <3>3. QED
      BY <1>2, <1>8, <2>2, <3>2 DEF FieldsEnd
  <2>3. CASE tag = 1
    <3>1. PICK a \in Vecs(more), b \in Vecs(more) : fields = a \o b
      BY <2>1, <2>3 DEF Fields
    <3>2. a \in Seq(Byte) /\ b \in Seq(Byte)
      BY <2>1, FieldsAreBytes
    <3>3. PICK i \in Nat, j \in Nat : i = Len(a) /\ j = Len(b)
      BY <3>2, LenProperties
    <3>4. Lies(body, a, 2) /\ Lies(body, b, 2 + i)
      BY <1>7, <3>1, <3>2, <3>3, LiesApart
    <3>5. PICK p \in Nat \ {0} : p = 2 + i
      OBVIOUS
    <3>12. Lies(body, a, two) /\ Lies(body, b, p)
      BY <2>0, <3>4, <3>5
    <3>13. VecEndsWith(body, two, more, a) /\ VecEndsWith(body, p, more, b)
      BY <1>10, <3>12, VecInBody
    <3>6. VecEnds(body, {2}, 32) = {p}
      BY <2>0, <2>1, <3>3, <3>5, <3>13, Zenon DEF VecEndsWith
    <3>7. VecEnds(body, {p}, 32) = {p + j}
      BY <2>1, <3>3, <3>13, Zenon DEF VecEndsWith
    <3>8. l = i + j
      BY <1>2, <3>1, <3>2, <3>3, ConcatProperties
    <3>9. p + j = 2 + l
      BY <3>5, <3>8
    <3>10. FieldsEnd(body) = VecEnds(body, VecEnds(body, {2}, 32), 32)
      BY <1>8, <2>3 DEF FieldsEnd
    <3>11. QED
      BY <3>6, <3>7, <3>9, <3>10, Zenon
  <2>4. CASE tag = 3
    <3>1. PICK a \in Vecs(1), b \in Lists, c \in Lists : fields = a \o (b \o c)
      BY <2>4 DEF Fields
    <3>18. a \in Vecs(one)
      BY <2>1
    <3>2. a \in Seq(Byte) /\ b \in Seq(Byte) /\ c \in Seq(Byte)
      BY <3>18, FieldsAreBytes
    <3>3. PICK i \in Nat, j \in Nat, k \in Nat : i = Len(a) /\ j = Len(b) /\ k = Len(c)
      BY <3>2, LenProperties
    <3>4. PICK d : d = b \o c
      OBVIOUS
    <3>5. d \in Seq(Byte) /\ Len(d) = j + k
      BY <3>2, <3>3, <3>4, ConcatProperties
    <3>6. Lies(body, a, 2) /\ Lies(body, d, 2 + i)
      BY <1>7, <3>1, <3>2, <3>3, <3>4, <3>5, LiesApart
    <3>7. PICK p \in Nat \ {0} : p = 2 + i
      OBVIOUS
    <3>8. Lies(body, b, p) /\ Lies(body, c, p + j)
      BY <3>2, <3>3, <3>4, <3>6, <3>7, LiesApart
    <3>9. PICK q \in Nat \ {0} : q = p + j
      OBVIOUS
    <3>17. VecEndsWith(body, two, one, a)
      <4>1. Lies(body, a, two)
        BY <2>0, <3>6
      <4>2. QED
        BY <1>10, <3>18, <4>1, VecInBody
    <3>10. VecEnds(body, {2}, 1) = {p}
      BY <2>0, <2>1, <3>3, <3>7, <3>17, Zenon DEF VecEndsWith
    <3>11. ListEnds(body, {p}) = {q}
      BY <1>10, <3>3, <3>8, <3>9, ListInBody
    <3>12. ListEnds(body, {q}) = {q + k}
      BY <1>10, <3>3, <3>8, <3>9, ListInBody
    <3>13. Len(fields) = i + (j + k)
      BY <3>1, <3>2, <3>3, <3>4, <3>5, ConcatProperties
    <3>14. q + k = 2 + l
      BY <1>2, <3>7, <3>9, <3>13
    <3>15. FieldsEnd(body) = ListEnds(body, ListEnds(body, VecEnds(body, {2}, 1)))
      BY <1>8, <2>4 DEF FieldsEnd
    <3>16. QED
      BY <3>10, <3>11, <3>12, <3>14, <3>15, Zenon
  <2>5. CASE tag = 4
    <3>1. fields \in Bytes(44)
      BY <2>5 DEF Fields
    <3>4. l = 44
      BY <1>2, <3>1, Zenon DEF Bytes
    <3>2. 2 + l = 46
      BY ONLY <3>4, SMT
    <3>3. QED
      BY <1>8, <2>5, <3>2 DEF FieldsEnd
  <2>6. QED
    BY <2>2, <2>3, <2>4, <2>5
<1>12. Len(body) + 1 = 2 + l
  BY <1>5
<1>13. FieldsEnd(body) = {Len(body) + 1}
  BY <1>11, <1>12, Zenon
<1>14. DecodeBody(body) = Some(Shown(Variants[body[1] + 1], SubSeq(body, 2, Len(body))))
  BY <1>8, <1>13, Zenon DEF DecodeBody
<1>15. QED
  BY <1>3, <1>8, <1>9, <1>14, Zenon

-----------------------------------------------------------------------------
\* The lines about a block.

LineSet == [height : Nat, block : Blocks, index : Nat]

\* The lines ls have the inscriptions of block b, each once and in order.
Report(ls, h, b) ==
  /\ ls \in Seq(LineSet)
  /\ \A n \in 1..Len(ls) :
       /\ ls[n].height = h /\ ls[n].block = b
       /\ ls[n].index \in {k - 1 : k \in Wanted(b)}
  /\ \A k \in Wanted(b) : \E n \in 1..Len(ls) : ls[n].index = k - 1
  /\ \A m, n \in 1..Len(ls) : m < n => ls[m].index < ls[n].index

LEMMA LinesOfBlock == \A b \in Blocks, h \in Nat : Report(Lines(h, b), h, b)
<1> SUFFICES ASSUME NEW b \in Blocks, NEW h \in Nat PROVE Report(Lines(h, b), h, b)
  OBVIOUS
<1>1. PICK S : S = Wanted(b)
  OBVIOUS
<1>2. S \in SUBSET Nat /\ IsFiniteSet(S) /\ \A k \in S : k \in Nat /\ k # 0
  <2>1. S \subseteq DOMAIN Contents[b]
    BY <1>1 DEF Wanted, Reported
  <2>2. PICK l \in Nat : DOMAIN Contents[b] = 1..l
    BY ScanAssumption
  <2>3. IsFiniteSet(1..l)
    BY FS_Interval
  <2> QED BY <2>1, <2>2, <2>3, FS_Subset
<1>3. PICK order : order = Ascending(S)
  OBVIOUS
<1>4. /\ order \in Seq(S)
      /\ \A k \in S : \E n \in 1..Len(order) : order[n] = k
      /\ \A m, n \in 1..Len(order) : m < n => order[m] < order[n]
  BY <1>2, <1>3, AscendingOrder
<1>5. PICK ls : ls = Lines(h, b)
  OBVIOUS
<1>6. ls = [n \in 1..Len(order) |-> Line(h, b, order[n])]
  BY <1>1, <1>3, <1>4, <1>5 DEF Lines
<1>7. \A n \in 1..Len(order) :
        /\ ls[n] \in LineSet /\ ls[n].height = h /\ ls[n].block = b
        /\ order[n] \in S /\ order[n] \in Nat \ {0} /\ ls[n].index = order[n] - 1
  <2> SUFFICES ASSUME NEW n \in 1..Len(order)
               PROVE  /\ ls[n] \in LineSet /\ ls[n].height = h /\ ls[n].block = b
                      /\ order[n] \in S /\ order[n] \in Nat \ {0}
                      /\ ls[n].index = order[n] - 1
    OBVIOUS
  <2>1. order[n] \in S
    BY <1>4
  <2>2. PICK k \in S : k = order[n]
    BY <2>1
  <2>3. k \in Nat /\ k # 0
    BY <1>2
  <2>4. k - 1 \in Nat
    BY <2>3
  <2>5. ls[n] = [height |-> h, block |-> b, index |-> k - 1]
    BY <1>6, <2>2 DEF Line
  <2> QED BY <2>1, <2>2, <2>3, <2>4, <2>5 DEF LineSet
<1>8. ls \in Seq(LineSet) /\ Len(ls) = Len(order)
  BY <1>4, <1>6, <1>7
<1>9. ASSUME NEW m \in 1..Len(ls), NEW n \in 1..Len(ls), m < n PROVE ls[m].index < ls[n].index
  BY <1>4, <1>7, <1>8, <1>9
<1>10. \A n \in 1..Len(ls) : ls[n].index \in {k - 1 : k \in S}
  BY <1>7, <1>8
<1>11. \A k \in S : \E n \in 1..Len(ls) : ls[n].index = k - 1
  BY <1>4, <1>7, <1>8
<1> QED BY <1>1, <1>5, <1>7, <1>8, <1>9, <1>10, <1>11 DEF Report

-----------------------------------------------------------------------------
\* The inductive invariant.  A block that has been at its height stays in seen,
\* whatever becomes of the chain; the heights before the one that is read next have
\* their error or the lines of one of these blocks, and no others have anything.

\* What is printed about height h are the inscriptions of block b.
OneBlock(h, b) ==
  /\ {printed[n].index : n \in About(h)} = {k - 1 : k \in Wanted(b)}
  /\ \A n \in About(h) : printed[n].block = b

ChainKept ==
  /\ chain \in Seq(Blocks) /\ Len(chain) \in 1..MaxBlocks
  /\ DOMAIN seen = 0..(MaxBlocks - 1)
  /\ \A h \in 0..(MaxBlocks - 1) : seen[h] \in SUBSET Blocks
  /\ \A h \in 0..(Len(chain) - 1) : chain[h + 1] \in seen[h]

RangeKept ==
  /\ request \in Requests /\ tip \in 0..(MaxBlocks - 1)
  /\ from \in Nat /\ to \in Nat /\ height \in Nat
  /\ phase \in {"hash", "block", "done"} /\ request.latest # 0 =>
       \A h \in 0..MaxBlocks : h \in Asked <=> from <= h /\ h <= to

Visited ==
  /\ phase \in {"start", "hash", "block", "done", "failed", "panicked"}
  /\ from <= height /\ \A h \in from..(height - 1) : h <= to
  /\ failed \subseteq from..(height - 1)
  /\ phase = "start" => printed = <<>> /\ failed = {} /\ height = from
  /\ phase = "block" =>
       height <= to /\ height \in 0..(MaxBlocks - 1) /\ blockHash \in seen[height]
  /\ phase = "done" => to < height

InChainOrder ==
  \A m, n \in 1..Len(printed) :
    m < n => \/ printed[m].height < printed[n].height
             \/ /\ printed[m].height = printed[n].height
                /\ printed[m].index < printed[n].index

LinesKept ==
  /\ printed \in Seq(LineSet)
  /\ \A n \in 1..Len(printed) : printed[n].height \in (from..(height - 1)) \ failed
  /\ InChainOrder
  /\ \A h \in (from..(height - 1)) \ failed :
       h \in 0..(MaxBlocks - 1) /\ \E b \in seen[h] : OneBlock(h, b)

IInv == ChainKept /\ RangeKept /\ Visited /\ LinesKept

LEMMA InitEstablishesIInv == Init => IInv
<1> SUFFICES ASSUME Init PROVE IInv
  OBVIOUS
<1>1. chain \in Seq(Blocks) /\ Len(chain) \in 1..MaxBlocks
  BY ScanAssumption DEF Init
<1>2. ChainKept
  BY <1>1, ScanAssumption DEF Init, ChainKept, Tip
<1>3. RangeKept
  BY <1>1, ScanAssumption DEF Init, RangeKept
<1>4. Visited
  BY DEF Init, Visited
<1>5. LinesKept
  BY DEF Init, LinesKept, InChainOrder
<1> QED BY <1>2, <1>3, <1>4, <1>5 DEF IInv

\* A step of the node adds to what the heights have had.
LEMMA SeenGrows ==
  ASSUME IInv, ChainKept', \A h \in 0..(MaxBlocks - 1) : seen[h] \subseteq seen'[h],
         UNCHANGED <<rangeVars, phase, height, blockHash, printed, failed>>
  PROVE  IInv'
<1>1. /\ request' = request /\ from' = from /\ to' = to /\ tip' = tip
      /\ phase' = phase /\ height' = height /\ blockHash' = blockHash
      /\ printed' = printed /\ failed' = failed
  BY DEF rangeVars
<1>2. RangeKept'
  BY <1>1 DEF IInv, RangeKept, Asked
<1>3. Visited'
  BY <1>1 DEF IInv, Visited
<1>4. \A h, b : OneBlock(h, b) => OneBlock(h, b)'
  BY <1>1 DEF OneBlock, About, Wanted
<1>5. InChainOrder'
  BY <1>1 DEF IInv, LinesKept, InChainOrder
<1>6. LinesKept'
  <2>1. ASSUME NEW h \in (from..(height - 1)) \ failed
        PROVE  h \in 0..(MaxBlocks - 1) /\ \E b \in seen'[h] : OneBlock(h, b)'
    <3>1. h \in 0..(MaxBlocks - 1) /\ \E b \in seen[h] : OneBlock(h, b)
      BY DEF IInv, LinesKept
    <3> QED BY <1>4, <3>1
  <2>2. /\ printed \in Seq(LineSet)
        /\ \A n \in 1..Len(printed) : printed[n].height \in (from..(height - 1)) \ failed
    BY DEF IInv, LinesKept
  <2> QED BY <1>1, <1>5, <2>1, <2>2 DEF LinesKept
<1> QED BY <1>2, <1>3, <1>6 DEF IInv

LEMMA ExtendKeepsIInv ==
  ASSUME IInv, NEW kept \in 0..Len(chain), NEW new \in Seq(Blocks), ExtendFrom(kept, new)
  PROVE  IInv'
<1>1. PICK c : c = chain' /\ c = SubSeq(chain, 1, kept) \o new
  BY DEF ExtendFrom
<1>2. /\ chain \in Seq(Blocks) /\ Len(chain) \in 1..MaxBlocks
      /\ DOMAIN seen = 0..(MaxBlocks - 1)
      /\ \A h \in 0..(MaxBlocks - 1) : seen[h] \in SUBSET Blocks
      /\ \A h \in 0..(Len(chain) - 1) : chain[h + 1] \in seen[h]
  BY DEF IInv, ChainKept
<1>3. /\ kept + Len(new) <= MaxBlocks /\ Len(new) > Len(chain) - kept
      /\ seen' = [h \in DOMAIN seen |->
                    IF h \in kept .. Len(c)-1 THEN seen[h] \cup {c[h+1]} ELSE seen[h]]
  BY <1>1 DEF ExtendFrom
<1>4. /\ c \in Seq(Blocks) /\ Len(c) = kept + Len(new) /\ Len(c) \in 1..MaxBlocks
      /\ \A j \in 1..kept : c[j] = chain[j]
  <2>1. /\ SubSeq(chain, 1, kept) \in Seq(Blocks) /\ Len(SubSeq(chain, 1, kept)) = kept
        /\ \A j \in 1..kept : SubSeq(chain, 1, kept)[j] = chain[j]
    BY <1>2
  <2> QED BY <1>1, <1>2, <1>3, <2>1, ScanAssumption
<1>5. \A h \in 0..(MaxBlocks - 1) :
        /\ seen[h] \subseteq seen'[h] /\ seen'[h] \in SUBSET Blocks
        /\ h \in kept..(Len(c) - 1) => c[h + 1] \in seen'[h]
  <2> SUFFICES ASSUME NEW h \in 0..(MaxBlocks - 1)
               PROVE  /\ seen[h] \subseteq seen'[h] /\ seen'[h] \in SUBSET Blocks
                      /\ h \in kept..(Len(c) - 1) => c[h + 1] \in seen'[h]
    OBVIOUS
  <2>1. CASE h \in kept..(Len(c) - 1)
    <3>1. seen'[h] = seen[h] \cup {c[h + 1]} /\ c[h + 1] \in Blocks
      BY <1>2, <1>3, <1>4, <2>1
    <3> QED BY <1>2, <3>1
  <2>2. CASE h \notin kept..(Len(c) - 1)
    BY <1>2, <1>3, <2>2
  <2> QED BY <2>1, <2>2
<1>6. ASSUME NEW h \in 0..(Len(c) - 1) PROVE c[h + 1] \in seen'[h]
  <2>1. h \in 0..(MaxBlocks - 1)
    BY <1>4, ScanAssumption
  <2>2. CASE h < kept
    <3>1. h \in 0..(Len(chain) - 1) /\ c[h + 1] = chain[h + 1]
      BY <1>2, <1>4, <2>2
    <3> QED BY <1>2, <1>5, <2>1, <3>1
  <2>3. CASE kept <= h
    <3>1. h \in kept..(Len(c) - 1)
      BY <2>3
    <3> QED BY <1>5, <2>1, <3>1
  <2> QED BY <2>2, <2>3
<1>7. ChainKept'
  <2>1. DOMAIN seen' = 0..(MaxBlocks - 1)
    BY <1>2, <1>3
  <2> QED BY <1>1, <1>4, <1>5, <1>6, <2>1 DEF ChainKept
<1> QED BY <1>5, <1>7, SeenGrows DEF ExtendFrom

LEMMA NodeKeepsIInv == IInv /\ (Mine \/ Reorganise) => IInv'
<1> SUFFICES ASSUME IInv, Mine \/ Reorganise PROVE IInv'
  OBVIOUS
<1>1. Len(chain) \in Nat
  BY DEF IInv, ChainKept
<1>2. CASE Mine
  <2>1. PICK b \in Blocks : ExtendFrom(Len(chain), <<b>>)
    BY <1>2 DEF Mine
  <2>2. Len(chain) \in 0..Len(chain) /\ <<b>> \in Seq(Blocks)
    BY <1>1
  <2> QED BY <2>1, <2>2, ExtendKeepsIInv
<1>3. CASE Reorganise
  <2>1. PICK d \in 1..MaxDepth : d < Len(chain) /\
               \E new \in [1..d+1 -> Blocks] : ExtendFrom(Len(chain) - d, new)
    BY <1>3 DEF Reorganise
  <2>2. PICK new \in [1..d+1 -> Blocks] : ExtendFrom(Len(chain) - d, new)
    BY <2>1
  <2>3. Len(chain) - d \in 0..Len(chain) /\ new \in Seq(Blocks)
    <3>1. d \in Nat
      BY ScanAssumption
    <3> QED BY <1>1, <2>1, <3>1
  <2> QED BY <2>2, <2>3, ExtendKeepsIInv
<1> QED BY <1>2, <1>3

-----------------------------------------------------------------------------
\* The range.

\* The arguments of a request are numbers, where there are any.
LEMMA Arguments ==
  ASSUME request \in Requests
  PROVE  \A x \in {request.block, request.latest, request.from, request.to} :
           x # Absent => x \in Nat
BY ScanAssumption

LEMMA RangesAreNumbers ==
  ASSUME request \in Requests, Tip \in Nat
  PROVE  RangeFrom \in Nat /\ RangeTo \in Nat
<1>1. RangeFrom \in Nat
  BY Arguments DEF RangeFrom, Default, SaturatingSub
<1>2. RangeTo \in Nat
  BY Arguments DEF RangeTo, Default
<1> QED BY <1>1, <1>2

\* The range of main is what the help texts of the arguments say.
LEMMA RangeIsAsked ==
  request \in Requests /\ request.latest # 0 /\ tip \in 0..(MaxBlocks - 1) /\ tip = Tip =>
    \A h \in 0..MaxBlocks : h \in Asked <=> RangeFrom <= h /\ h <= RangeTo
<1> SUFFICES ASSUME request \in Requests, request.latest # 0,
                    tip \in 0..(MaxBlocks - 1), tip = Tip, NEW h \in 0..MaxBlocks
             PROVE  h \in Asked <=> RangeFrom <= h /\ h <= RangeTo
  OBVIOUS
<1> USE ScanAssumption
<1>1. CASE request.block # Absent
  BY <1>1, Arguments DEF Asked, RangeFrom, RangeTo
<1>2. CASE request.block = Absent /\ request.latest # Absent
  BY <1>2, Arguments DEF Asked, RangeFrom, RangeTo, SaturatingSub
<1>3. CASE request.block = Absent /\ request.latest = Absent
  <2>1. RangeFrom = Default(request.from, tip)
        /\ RangeTo = Default(request.to, Default(request.from, tip))
    BY <1>3 DEF RangeFrom, RangeTo
  <2> QED BY <1>3, <2>1 DEF Asked
<1> QED BY <1>1, <1>2, <1>3

LEMMA ConnectKeepsIInv ==
  ASSUME IInv, Connect
  PROVE  IInv'
<1>1. /\ phase = "start" /\ tip' = Tip
      /\ from' = RangeFrom /\ to' = RangeTo /\ height' = RangeFrom
      /\ phase' \in {"hash", "panicked"}
      /\ chain' = chain /\ seen' = seen /\ request' = request
      /\ printed' = printed /\ failed' = failed
  BY DEF Connect, chainVars
<1>2. /\ printed = <<>> /\ failed = {} /\ request \in Requests
      /\ Tip \in 0..(MaxBlocks - 1)
  BY <1>1, ScanAssumption DEF IInv, Visited, RangeKept, ChainKept, Tip
<1>3. RangeFrom \in Nat /\ RangeTo \in Nat
  BY <1>2, ScanAssumption, RangesAreNumbers
<1>4. ChainKept'
  BY <1>1 DEF IInv, ChainKept
<1>5. RangeKept'
  <2>1. (RangeFrom = from /\ RangeTo = to)' /\ (Tip = tip)' /\ (request \in Requests)'
        /\ (tip \in 0..(MaxBlocks - 1))'
    BY <1>1, <1>2 DEF RangeFrom, RangeTo, Tip
  <2>2. ASSUME (request.latest # 0)'
        PROVE  (\A h \in 0..MaxBlocks : h \in Asked <=> from <= h /\ h <= to)'
    <3>1. (\A h \in 0..MaxBlocks : h \in Asked <=> RangeFrom <= h /\ h <= RangeTo)'
      <4>1. (request \in Requests /\ request.latest # 0 /\ tip \in 0..(MaxBlocks - 1)
               /\ tip = Tip)'
        BY <2>1, <2>2
      <4> QED BY <4>1, RangeIsAsked, PTL
    <3> QED BY <2>1, <3>1
  <2> QED BY <1>1, <1>2, <1>3, <2>2 DEF RangeKept
<1>6. Visited'
  BY <1>1, <1>2, <1>3 DEF Visited
<1>7. LinesKept'
  BY <1>1, <1>2, <1>3 DEF LinesKept, InChainOrder
<1> QED BY <1>4, <1>5, <1>6, <1>7 DEF IInv

-----------------------------------------------------------------------------
\* Steps of the scan.

\* The range stays what was asked for.
LEMMA RangeStays ==
  ASSUME RangeKept, rangeVars' = rangeVars, height' \in Nat,
         phase' \in {"hash", "block", "done"} => phase \in {"hash", "block", "done"}
  PROVE  RangeKept'
BY DEF RangeKept, rangeVars, Asked

\* Nothing is printed, and no height is left.
LEMMA QuietKeepsLines ==
  ASSUME LinesKept, seen' = seen, rangeVars' = rangeVars,
         height' = height, printed' = printed, failed' = failed
  PROVE  LinesKept'
<1>1. from' = from /\ request' = request
  BY DEF rangeVars
<1>2. \A h, b : OneBlock(h, b)' <=> OneBlock(h, b)
  BY <1>1 DEF OneBlock, About, Wanted
<1> QED BY <1>1, <1>2 DEF LinesKept, InChainOrder

LEMMA QuietKeepsIInv ==
  ASSUME IInv, ConnectFails \/ GetBlockHash \/ Finish
  PROVE  IInv'
<1>1. /\ chain' = chain /\ seen' = seen /\ rangeVars' = rangeVars
      /\ height' = height /\ printed' = printed /\ failed' = failed
  BY DEF ConnectFails, GetBlockHash, Finish, chainVars
<1>2. ChainKept'
  BY <1>1 DEF IInv, ChainKept
<1>3. RangeKept'
  <2>1. height' \in Nat
    BY <1>1 DEF IInv, RangeKept
  <2>2. phase' \in {"hash", "block", "done"} => phase \in {"hash", "block", "done"}
    BY DEF ConnectFails, GetBlockHash, Finish
  <2> QED BY <1>1, <2>1, <2>2, RangeStays DEF IInv
<1>4. from' = from /\ to' = to
  BY <1>1 DEF rangeVars
<1>5. Visited'
  <2>1. CASE ConnectFails
    BY <1>1, <1>4, <2>1 DEF IInv, Visited, ConnectFails
  <2>2. CASE GetBlockHash
    <3>1. height \in 0..(MaxBlocks - 1) /\ chain[height + 1] \in seen[height]
      <4>1. height \in 0..(Len(chain) - 1) /\ Len(chain) <= MaxBlocks
        BY <2>2, ScanAssumption DEF IInv, RangeKept, ChainKept, GetBlockHash, Tip
      <4> QED BY <4>1, ScanAssumption DEF IInv, ChainKept
    <3> QED BY <1>1, <1>4, <2>2, <3>1 DEF IInv, Visited, GetBlockHash
  <2>3. CASE Finish
    <3>1. to < height
      BY <2>3 DEF IInv, RangeKept, Finish
    <3> QED BY <1>1, <1>4, <2>3, <3>1 DEF IInv, Visited, Finish
  <2> QED BY <2>1, <2>2, <2>3
<1> QED BY <1>1, <1>2, <1>3, <1>5, QuietKeepsLines DEF IInv

\* The scan goes on to the next height.
LEMMA NextHeight ==
  ASSUME IInv, height <= to, phase \in {"hash", "block"}, phase' = "hash",
         height' = height + 1, rangeVars' = rangeVars, chain' = chain, seen' = seen,
         failed' \in {failed, failed \cup {height}}
  PROVE  /\ ChainKept' /\ RangeKept' /\ Visited'
         /\ from' = from /\ from \in Nat /\ height \in Nat /\ from <= height
         /\ from..(height' - 1) = (from..(height - 1)) \cup {height}
         /\ failed \subseteq from..(height - 1)
         /\ \A b : Wanted(b)' = Wanted(b)
<1>1. /\ from' = from /\ to' = to /\ request' = request
      /\ from \in Nat /\ to \in Nat /\ height \in Nat /\ from <= height
      /\ failed \subseteq from..(height - 1) /\ \A h \in from..(height - 1) : h <= to
  BY DEF IInv, RangeKept, Visited, rangeVars
<1>2. from..(height' - 1) = (from..(height - 1)) \cup {height}
  BY <1>1
<1>3. ChainKept'
  BY DEF IInv, ChainKept
<1>4. RangeKept'
  BY <1>1, RangeStays DEF IInv
<1>5. Visited'
  <2>1. failed' \subseteq from'..(height' - 1)
    BY <1>1, <1>2
  <2>2. \A h \in from'..(height' - 1) : h <= to'
    BY <1>1, <1>2
  <2> QED BY <1>1, <2>1, <2>2 DEF Visited
<1>6. \A b : Wanted(b)' = Wanted(b)
  BY <1>1 DEF Wanted
<1> QED BY <1>1, <1>2, <1>3, <1>4, <1>5, <1>6

LEMMA CallFailsKeepsIInv ==
  ASSUME IInv, CallFails
  PROVE  IInv'
<1>1. /\ phase \in {"hash", "block"} /\ height <= to /\ phase' = "hash"
      /\ failed' = failed \cup {height} /\ height' = height + 1
      /\ chain' = chain /\ seen' = seen /\ rangeVars' = rangeVars /\ printed' = printed
  BY DEF CallFails, chainVars
<1>2. /\ ChainKept' /\ RangeKept' /\ Visited'
      /\ from' = from /\ from \in Nat /\ height \in Nat /\ from <= height
      /\ from..(height' - 1) = (from..(height - 1)) \cup {height}
      /\ failed \subseteq from..(height - 1)
      /\ \A b : Wanted(b)' = Wanted(b)
  BY <1>1, NextHeight
<1>3. (from'..(height' - 1)) \ failed' = (from..(height - 1)) \ failed
  BY <1>1, <1>2
<1>4. \A h, b : OneBlock(h, b)' <=> OneBlock(h, b)
  BY <1>1, <1>2 DEF OneBlock, About
<1>5. LinesKept'
  BY <1>1, <1>3, <1>4 DEF IInv, LinesKept, InChainOrder
<1> QED BY <1>2, <1>5 DEF IInv

LEMMA GetBlockKeepsIInv ==
  ASSUME IInv, GetBlock
  PROVE  IInv'
<1>1. PICK b, ls : b = blockHash /\ ls = Lines(height, b)
  OBVIOUS
<1>2. /\ phase = "block" /\ phase' = "hash" /\ printed' = printed \o ls
      /\ failed' = failed /\ height' = height + 1
      /\ chain' = chain /\ seen' = seen /\ rangeVars' = rangeVars
  BY <1>1 DEF GetBlock, chainVars
<1>3. height <= to /\ height \in 0..(MaxBlocks - 1) /\ b \in seen[height] /\ b \in Blocks
  BY <1>1, <1>2 DEF IInv, Visited, ChainKept
<1>4. /\ ChainKept' /\ RangeKept' /\ Visited'
      /\ from' = from /\ from \in Nat /\ height \in Nat /\ from <= height
      /\ from..(height' - 1) = (from..(height - 1)) \cup {height}
      /\ failed \subseteq from..(height - 1)
      /\ \A c : Wanted(c)' = Wanted(c)
  BY <1>2, <1>3, NextHeight
<1>5. (from'..(height' - 1)) \ failed' = ((from..(height - 1)) \ failed) \cup {height}
  BY <1>2, <1>4
<1>6. /\ ls \in Seq(LineSet)
      /\ \A n \in 1..Len(ls) :
           /\ ls[n].height = height /\ ls[n].block = b
           /\ ls[n].index \in {k - 1 : k \in Wanted(b)}
      /\ \A k \in Wanted(b) : \E n \in 1..Len(ls) : ls[n].index = k - 1
      /\ \A m, n \in 1..Len(ls) : m < n => ls[m].index < ls[n].index
  <2>1. height \in Nat
    BY <1>4
  <2>2. Report(ls, height, b)
    BY <1>1, <1>3, <2>1, LinesOfBlock
  <2> QED BY <2>2 DEF Report
<1>7. PICK N : N = Len(printed) /\ N \in Nat
  BY DEF IInv, LinesKept
<1>8. /\ printed' \in Seq(LineSet) /\ Len(printed') = N + Len(ls)
      /\ \A n \in 1..N : printed'[n] = printed[n]
      /\ \A n \in 1..Len(ls) : printed'[N + n] = ls[n]
  BY <1>2, <1>6, <1>7 DEF IInv, LinesKept
<1>9. \A n \in 1..Len(printed') :
        n \in 1..N \/ \E j \in 1..Len(ls) : n = N + j /\ printed'[n] = ls[j]
  <2> SUFFICES ASSUME NEW n \in 1..Len(printed'), n \notin 1..N
               PROVE  \E j \in 1..Len(ls) : n = N + j /\ printed'[n] = ls[j]
    OBVIOUS
  <2>1. n - N \in 1..Len(ls) /\ n = N + (n - N)
    BY <1>6, <1>7, <1>8
  <2> QED BY <1>8, <2>1
<1>10. \A n \in 1..N : printed[n].height \in (from..(height - 1)) \ failed
  BY <1>7 DEF IInv, LinesKept
<1>11. \A n \in 1..Len(printed') : printed'[n].height \in (from'..(height' - 1)) \ failed'
  <2> SUFFICES ASSUME NEW n \in 1..Len(printed')
               PROVE  printed'[n].height \in ((from..(height - 1)) \ failed) \cup {height}
    BY <1>5
  <2>1. CASE n \in 1..N
    BY <1>8, <1>10, <2>1
  <2>2. ASSUME NEW j \in 1..Len(ls), printed'[n] = ls[j] PROVE printed'[n].height = height
    BY <1>6, <2>2
  <2> QED BY <1>9, <2>1, <2>2
<1>12. InChainOrder'
  <2> SUFFICES ASSUME NEW m \in 1..Len(printed'), NEW n \in 1..Len(printed'), m < n
               PROVE  \/ printed'[m].height < printed'[n].height
                      \/ /\ printed'[m].height = printed'[n].height
                         /\ printed'[m].index < printed'[n].index
    BY DEF InChainOrder
  <2>1. CASE n \in 1..N
    <3>1. m \in 1..N
      BY <1>7, <2>1
    <3> QED BY <1>7, <1>8, <2>1, <3>1 DEF IInv, LinesKept, InChainOrder
  <2>2. ASSUME NEW j \in 1..Len(ls), n = N + j, printed'[n] = ls[j], m \in 1..N
        PROVE  printed'[m].height < printed'[n].height
    <3>1. printed'[m].height \in from..(height - 1)
      BY <1>8, <1>10, <2>2
    <3>2. printed'[n].height = height
      BY <1>6, <2>2
    <3> QED BY <1>4, <3>1, <3>2
  <2>3. ASSUME NEW j \in 1..Len(ls), n = N + j, printed'[n] = ls[j],
               NEW i \in 1..Len(ls), m = N + i, printed'[m] = ls[i]
        PROVE  /\ printed'[m].height = printed'[n].height
               /\ printed'[m].index < printed'[n].index
    <3>1. i < j
      BY <1>6, <1>7, <2>3
    <3> QED BY <1>6, <2>3, <3>1
  <2> QED BY <1>9, <2>1, <2>2, <2>3
\* The lines of the heights before are where they were, those of this one are new.
<1>13. ASSUME NEW h \in (from..(height - 1)) \ failed, NEW n
       PROVE  n \in 1..Len(printed') /\ printed'[n].height = h
                <=> n \in 1..N /\ printed[n].height = h
  <2>1. h # height
    BY <1>4
  <2>2. n \in 1..N => n \in 1..Len(printed')
    BY <1>6, <1>7, <1>8
  <2>3. ASSUME NEW j \in 1..Len(ls), printed'[n] = ls[j] PROVE printed'[n].height # h
    BY <1>6, <2>1, <2>3
  <2> QED BY <1>8, <1>9, <2>2, <2>3
<1>14. ASSUME NEW n
       PROVE  n \in 1..Len(printed') /\ printed'[n].height = height
                <=> \E j \in 1..Len(ls) : n = N + j
  <2>1. ASSUME NEW j \in 1..Len(ls)
        PROVE  N + j \in 1..Len(printed') /\ printed'[N + j].height = height
    BY <1>6, <1>7, <1>8
  <2>2. ASSUME n \in 1..N PROVE printed'[n].height # height
    <3>1. printed'[n].height \in from..(height - 1)
      BY <1>8, <1>10, <2>2
    <3> QED BY <1>4, <3>1
  <2> QED BY <1>9, <2>1, <2>2
<1>15. ASSUME NEW h \in (from..(height - 1)) \ failed, NEW c, OneBlock(h, c)
       PROVE  OneBlock(h, c)'
  <2>1. PICK A : A = About(h)
    OBVIOUS
  <2>2. \A n : n \in A <=> n \in 1..N /\ printed[n].height = h
    BY <1>7, <2>1 DEF About, IInv, LinesKept
  <2>3. About(h)' = A
    BY <1>8, <1>13, <2>2 DEF About
  <2>4. \A n \in A : printed'[n] = printed[n]
    BY <1>8, <2>2
  <2>5. {printed'[n].index : n \in A} = {printed[n].index : n \in A}
    BY <2>4
  <2> QED BY <1>4, <1>15, <2>1, <2>3, <2>4, <2>5 DEF OneBlock
<1>16. PICK g : g = height
  OBVIOUS
<1>17. OneBlock(g, b)'
  <2>1. PICK A : A = About(g)'
    OBVIOUS
  <2>2. \A n : n \in A <=> \E j \in 1..Len(ls) : n = N + j
    BY <1>8, <1>14, <1>16, <2>1 DEF About
  <2>3. \A n \in A : printed'[n].block = b /\ printed'[n].index \in {k - 1 : k \in Wanted(b)}
    BY <1>6, <1>8, <2>2
  <2>4. ASSUME NEW k \in Wanted(b) PROVE \E n \in A : printed'[n].index = k - 1
    <3>1. PICK j \in 1..Len(ls) : ls[j].index = k - 1
      BY <1>6
    <3>2. N + j \in A /\ printed'[N + j] = ls[j]
      BY <1>8, <2>2
    <3> QED BY <3>1, <3>2
  <2>5. {printed'[n].index : n \in A} = {k - 1 : k \in Wanted(b)}
    BY <2>3, <2>4
  <2> QED BY <1>4, <2>1, <2>3, <2>5 DEF OneBlock
<1>18. ASSUME NEW h \in (from'..(height' - 1)) \ failed'
       PROVE  h \in 0..(MaxBlocks - 1) /\ \E c \in seen'[h] : OneBlock(h, c)'
  <2>1. CASE h \in (from..(height - 1)) \ failed
    <3>1. h \in 0..(MaxBlocks - 1) /\ \E c \in seen[h] : OneBlock(h, c)
      BY <2>1 DEF IInv, LinesKept
    <3> QED BY <1>2, <1>15, <2>1, <3>1
  <2>2. CASE h = g
    BY <1>2, <1>3, <1>16, <1>17, <2>2
  <2> QED BY <1>5, <1>16, <2>1, <2>2
<1>19. LinesKept'
  BY <1>8, <1>11, <1>12, <1>18 DEF LinesKept
<1> QED BY <1>4, <1>19 DEF IInv

LEMMA NextKeepsIInv == IInv /\ [Next]_vars => IInv'
<1> SUFFICES ASSUME IInv, [Next]_vars PROVE IInv'
  OBVIOUS
<1>1. CASE Mine \/ Reorganise
  BY <1>1, NodeKeepsIInv
<1>2. CASE Connect
  BY <1>2, ConnectKeepsIInv
<1>3. CASE ConnectFails \/ GetBlockHash \/ Finish
  BY <1>3, QuietKeepsIInv
<1>4. CASE GetBlock
  BY <1>4, GetBlockKeepsIInv
<1>5. CASE CallFails
  BY <1>5, CallFailsKeepsIInv
<1>6. CASE UNCHANGED vars
  <2>1. /\ chain' = chain /\ seen' = seen
        /\ UNCHANGED <<rangeVars, phase, height, blockHash, printed, failed>>
    BY <1>6 DEF vars, chainVars
  <2>2. ChainKept'
    BY <2>1 DEF IInv, ChainKept
  <2> QED BY <2>1, <2>2, SeenGrows
<1> QED BY <1>1, <1>2, <1>3, <1>4, <1>5, <1>6 DEF Next

\* At any moment the heights that have been read (main, scan_block) have their error or
\* the inscriptions of one block that was there, in order, and nothing else is printed.
THEOREM InductiveInvariant == Spec => []IInv
BY InitEstablishesIInv, NextKeepsIInv, PTL DEF Spec

-----------------------------------------------------------------------------
\* What is asked of the contents of blocks: the parsers find in a transaction what its
\* writer put there, and nothing where there is nothing.
ParsersFindWhatWasWritten ==
  \A b \in Blocks : \A k \in DOMAIN Contents[b] :
    /\ k \in Reported(b) <=> Contents[b][k].wrote # Absent
    /\ k \in Reported(b) => Kind(b, k) = Contents[b][k].wrote.kind

LEMMA WantedAreWritten ==
  ASSUME ParsersFindWhatWasWritten, NEW b \in Blocks
  PROVE  {k - 1 : k \in Wanted(b)} = Written(b)
<1>1. Wanted(b) = {k \in DOMAIN Contents[b] :
                     /\ Contents[b][k].wrote # Absent
                     /\ request.kind \in {Absent, Contents[b][k].wrote.kind}}
  BY DEF ParsersFindWhatWasWritten, Wanted, Reported
<1> QED BY <1>1 DEF Written

\* A scan that is over has reported each height it was asked for, by the help texts of
\* the arguments, from one block that was there since it began, or as an error: for any
\* blocks, arguments and number of reorganisations, and any blocks whose transactions
\* are read as they were written.
THEOREM BlocksAskedForAlwaysReported ==
  ASSUME ParsersFindWhatWasWritten
  PROVE  Spec => []BlocksAskedForAreReported
<1>1. IInv => BlocksAskedForAreReported
  <2> SUFFICES ASSUME IInv, phase = "done", request.latest # 0
               PROVE  /\ \A h \in Asked \ failed :
                           \E b \in seen[h] : /\ {printed[n].index : n \in About(h)} = Written(b)
                                              /\ \A n \in About(h) : printed[n].block = b
                      /\ \A n \in DOMAIN printed : printed[n].height \in Asked \ failed
                      /\ \A m, n \in DOMAIN printed :
                           m < n => \/ printed[m].height < printed[n].height
                                    \/ /\ printed[m].height = printed[n].height
                                       /\ printed[m].index < printed[n].index
    BY DEF BlocksAskedForAreReported
  <2>1. /\ DOMAIN printed = 1..Len(printed)
        /\ \A n \in 1..Len(printed) : printed[n].height \in (from..(height - 1)) \ failed
        /\ InChainOrder
        /\ \A h \in (from..(height - 1)) \ failed :
             h \in 0..(MaxBlocks - 1) /\ \E b \in seen[h] : OneBlock(h, b)
    BY DEF IInv, LinesKept
  <2>2. /\ from \in Nat /\ to \in Nat /\ height \in Nat /\ to < height
        /\ \A h \in from..(height - 1) : h <= to
        /\ \A h \in 0..MaxBlocks : h \in Asked <=> from <= h /\ h <= to
    BY DEF IInv, RangeKept, Visited
  <2>3. ASSUME NEW h PROVE h \in Asked => h \in from..(height - 1)
    <3>1. h \in Asked => h \in 0..MaxBlocks
      BY DEF Asked
    <3> QED BY <2>2, <3>1, ScanAssumption
  <2>4. ASSUME NEW h \in Asked \ failed
        PROVE  \E b \in seen[h] : /\ {printed[n].index : n \in About(h)} = Written(b)
                                  /\ \A n \in About(h) : printed[n].block = b
    <3>1. h \in 0..(MaxBlocks - 1) /\ \E b \in seen[h] : OneBlock(h, b)
      BY <2>1, <2>3
    <3>2. PICK b \in seen[h] : OneBlock(h, b)
      BY <3>1
    <3>3. b \in Blocks
      BY <3>1, <3>2 DEF IInv, ChainKept
    <3> QED BY <3>2, <3>3, WantedAreWritten DEF OneBlock
  <2>5. ASSUME NEW n \in DOMAIN printed PROVE printed[n].height \in Asked \ failed
    <3>1. PICK h : h = printed[n].height
      OBVIOUS
    <3>2. h \in (from..(height - 1)) \ failed /\ h \in 0..(MaxBlocks - 1)
      BY <2>1, <3>1
    <3>3. h \in 0..MaxBlocks /\ from <= h /\ h <= to
      BY <2>2, <3>2, ScanAssumption
    <3> QED BY <2>2, <3>1, <3>2, <3>3
  <2> QED BY <2>1, <2>4, <2>5 DEF InChainOrder
<1> QED BY <1>1, InductiveInvariant, PTL

-----------------------------------------------------------------------------
\* The chain of the node is another one after each of its steps.
LEMMA NodeChangesChain ==
  ASSUME IInv, Mine \/ Reorganise
  PROVE  chain' # chain
<1>1. ASSUME NEW kept \in 0..Len(chain), NEW new \in Seq(Blocks), ExtendFrom(kept, new)
      PROVE  chain' # chain
  <2>1. chain \in Seq(Blocks)
    BY DEF IInv, ChainKept
  <2>2. chain' = SubSeq(chain, 1, kept) \o new /\ Len(new) > Len(chain) - kept
    BY <1>1 DEF ExtendFrom
  <2>3. Len(SubSeq(chain, 1, kept)) = kept /\ SubSeq(chain, 1, kept) \in Seq(Blocks)
    BY <2>1
  <2>4. Len(SubSeq(chain, 1, kept) \o new) = kept + Len(new)
    BY <2>3
  <2>5. Len(chain) \in Nat /\ Len(new) \in Nat
    BY <2>1
  <2> QED BY <2>2, <2>4, <2>5
<1>2. Len(chain) \in Nat
  BY DEF IInv, ChainKept
<1>3. CASE Mine
  <2>1. PICK b \in Blocks : ExtendFrom(Len(chain), <<b>>)
    BY <1>3 DEF Mine
  <2>2. Len(chain) \in 0..Len(chain) /\ <<b>> \in Seq(Blocks)
    BY <1>2
  <2> QED BY <1>1, <2>1, <2>2
<1>4. CASE Reorganise
  <2>1. PICK d \in 1..MaxDepth : d < Len(chain) /\
               \E new \in [1..d+1 -> Blocks] : ExtendFrom(Len(chain) - d, new)
    BY <1>4 DEF Reorganise
  <2>2. PICK new \in [1..d+1 -> Blocks] : ExtendFrom(Len(chain) - d, new)
    BY <2>1
  <2>3. Len(chain) - d \in 0..Len(chain) /\ new \in Seq(Blocks)
    <3>1. d \in Nat
      BY ScanAssumption
    <3> QED BY <1>2, <2>1, <3>1
  <2> QED BY <1>1, <2>2, <2>3
<1> QED BY <1>3, <1>4

\* Each request of a scan, answered or not, brings it closer to the end of the range it
\* began with: at most two for a height, for any failures and any growth of the chain.
THEOREM EveryRequestAlwaysCounts == Spec => EveryRequestCounts
<1>1. IInv /\ [Next]_vars => [RequestCounts]_vars
  <2> SUFFICES ASSUME IInv, Next, phase \in {"hash", "block"}, chain' = chain
               PROVE  /\ UNCHANGED rangeVars
                      /\ \/ height' = height + 1
                         \/ height' = height /\ phase = "hash" /\ phase' \in {"block", "done"}
    BY DEF RequestCounts
  <2>1. ~(Mine \/ Reorganise)
    BY NodeChangesChain
  <2> QED BY <2>1 DEF Next, Connect, ConnectFails, GetBlockHash, GetBlock, CallFails, Finish
<1> QED BY <1>1, InductiveInvariant, PTL DEF Spec, EveryRequestCounts

-----------------------------------------------------------------------------
\* What is asked of the contents of blocks now: an inscription stands in the witness of
\* a reveal transaction as Citrea writes it, in any chunks, and what has no inscription,
\* as the coinbase, does not look like one.
WrittenByCitrea ==
  \A b \in Blocks : \A k \in DOMAIN Contents[b] :
    LET tx == Contents[b][k]
    IN  \/ tx.wrote = Absent /\ (k = 1 \/ Inscriptions[b][k] = Absent)
        \/ /\ k # 1 /\ tx.reveal /\ HasTapscript(tx.witness)
           /\ tx.wrote # Absent /\ tx.wrote \in Writable
           /\ \E chunks \in Seq(Pushable) :
                /\ FlattenSeq(chunks) = tx.wrote.body
                /\ TapscriptOf(tx.witness) = Encode(tx.wrote, chunks)

\* Then the parsers find in every transaction what its writer put there.
LEMMA WrittenIsFound ==
  ASSUME WrittenByCitrea, NEW b \in Blocks, NEW k \in DOMAIN Contents[b]
  PROVE  /\ k \in Reported(b) <=> Contents[b][k].wrote # Absent
         /\ k \in Reported(b) => Inscriptions[b][k] = Contents[b][k].wrote
<1>1. PICK tx : tx = Contents[b][k]
  OBVIOUS
<1>2. Inscriptions[b][k] = IF tx.reveal /\ HasTapscript(tx.witness)
                           THEN parse_tapscript(TapscriptOf(tx.witness)) ELSE Absent
  BY <1>1 DEF Inscriptions
<1>3. CASE tx.wrote = Absent /\ (k = 1 \/ Inscriptions[b][k] = Absent)
  BY <1>1, <1>3 DEF Reported
<1>4. CASE ~(tx.wrote = Absent /\ (k = 1 \/ Inscriptions[b][k] = Absent))
  <2>1. /\ k # 1 /\ tx.reveal /\ HasTapscript(tx.witness)
        /\ tx.wrote # Absent /\ tx.wrote \in Writable
        /\ \E chunks \in Seq(Pushable) :
             /\ FlattenSeq(chunks) = tx.wrote.body
             /\ TapscriptOf(tx.witness) = Encode(tx.wrote, chunks)
    BY <1>1, <1>4 DEF WrittenByCitrea
  <2>2. parse_tapscript(TapscriptOf(tx.witness)) = tx.wrote
    BY <2>1, InscriptionIsReadBack
  <2>3. Inscriptions[b][k] = tx.wrote
    BY <1>2, <2>1, <2>2
  <2>4. k \in Reported(b)
    BY <2>1, <2>3 DEF Reported
  <2>5. QED
    BY <1>1, <2>1, <2>3, <2>4
<1>5. QED
  BY <1>3, <1>4

\* Which is what the theorem about any parsers asks of them.
LEMMA CitreaIsFound == WrittenByCitrea => ParsersFindWhatWasWritten
BY WrittenIsFound DEF ParsersFindWhatWasWritten, Kind

\* So a scan of what Citrea wrote misses none of it and reports nothing else, whichever
\* forms of a push and whatever chunks were used, and whatever becomes of the chain.
THEOREM WrittenBlocksAlwaysReported ==
  ASSUME WrittenByCitrea
  PROVE  Spec => []BlocksAskedForAreReported
<1>1. ParsersFindWhatWasWritten
  BY CitreaIsFound
<1>2. QED
  BY <1>1, BlocksAskedForAlwaysReported

\* Every line is about an inscription that is reported.
LEMMA LinesAreAboutInscriptions ==
  ASSUME IInv, NEW n \in DOMAIN printed
  PROVE  /\ printed[n].block \in Blocks
         /\ printed[n].index + 1 \in Reported(printed[n].block)
<1>1. n \in 1..Len(printed) /\ printed \in Seq(LineSet)
  BY DEF IInv, LinesKept
<1>2. PICK h : h = printed[n].height /\ h \in (from..(height - 1)) \ failed
  BY <1>1 DEF IInv, LinesKept
<1>3. PICK b \in seen[h] : OneBlock(h, b) /\ h \in 0..(MaxBlocks - 1)
  BY <1>2 DEF IInv, LinesKept
<1>4. b \in Blocks
  BY <1>3 DEF IInv, ChainKept
<1>5. n \in About(h)
  BY <1>2 DEF About
<1>6. printed[n].block = b /\ printed[n].index \in {k - 1 : k \in Wanted(b)}
  BY <1>3, <1>5 DEF OneBlock
<1>7. PICK k \in Wanted(b) : printed[n].index = k - 1
  BY <1>6
<1>8. k \in Reported(b) /\ k \in Nat
  <2>1. k \in DOMAIN Contents[b] /\ k \in Reported(b)
    BY <1>7 DEF Wanted, Reported
  <2>2. PICK l \in Nat : DOMAIN Contents[b] = 1..l
    BY <1>4, ScanAssumption
  <2>3. QED
    BY <2>1, <2>2
<1>9. printed[n].index + 1 = k
  BY <1>7, <1>8
<1>10. QED
  BY <1>4, <1>6, <1>8, <1>9

-----------------------------------------------------------------------------
(***************************************************************************)
(* What provers and sequencers write into the bodies of inscriptions.      *)
(***************************************************************************)
\* A complete batch proof: compressed, with a journal, whose output has a state diff of
\* these changes, which the node gives in an answer of its own.
IsCompleteProof(tx) ==
  \E data \in Seq(Byte) \cap DOMAIN Decompressed : \E journal, changes :
    LET diff == Outputs[journal]
    IN  /\ tx.wrote.body = <<0>> \o VecOf(Len(data), data)
        /\ Len(Decompressed[data]) <= MaxDecompressed
        /\ IsProofOf(Decompressed[data], journal)
        /\ IsDiffOf(Registry, diff, changes)
        /\ IsAnswerOf(tx.answer, diff)
        /\ tx.means = Shown("Complete", [changes |-> {Meant(e) : e \in changes},
                                         summary |-> SummarizeDiff(diff)])

\* Another variant, of which the fields are shown.
IsOtherBody(tx) ==
  \E tag \in 1..4 : \E fields \in Fields(tag) :
    /\ tx.wrote.body = <<tag>> \o fields
    /\ tx.means = Shown(Variants[tag + 1], fields)

\* A complete proof that is no stream, too large or without a journal, and a body that
\* is no variant.
IsBroken(tx) ==
  \/ \E data \in Seq(Byte) :
       /\ tx.wrote.body = <<0>> \o VecOf(Len(data), data)
       /\ \/ /\ data \in DOMAIN Decompressed => Len(Decompressed[data]) > MaxDecompressed
             /\ tx.means = Shown("decompress failed", None)
          \/ /\ data \in DOMAIN Decompressed /\ ~(Len(Decompressed[data]) > MaxDecompressed)
             /\ Candidates(Decompressed[data]) = {}
             /\ tx.means = Shown("journal extraction failed", Len(Decompressed[data]))
  \/ /\ DecodeBody(tx.wrote.body) = None
     /\ tx.means = Shown("Borsh decode error", tx.wrote.body)

\* What is asked of the bodies, that they have less than 2^32 bytes and are one of these.
WrittenByProvers ==
  \A b \in Blocks : \A k \in DOMAIN Contents[b] :
    LET tx == Contents[b][k]
    IN  tx.wrote # Absent =>
          /\ FourBytes(Len(tx.wrote.body))
          /\ IsCompleteProof(tx) \/ IsOtherBody(tx) \/ IsBroken(tx)

\* The compressed proof is what is behind the length in the body.
LEMMA CompleteIsDecoded ==
  ASSUME NEW data \in Seq(Byte), NEW body, body = << 0 >> \o VecOf(Len(data), data),
         FourBytes(Len(body))
  PROVE  BodyRead(Registry, body) = ProofShown(Registry, data)
<1>0. PICK l \in Nat : l = Len(data)
  BY LenProperties
<1>1. PICK of : l = Len(data) /\ of = VecOf(l, data)
  BY <1>0
<1>2. of \in Seq(Byte) /\ Len(of) = 4 + l
  BY <1>1, VecIsBytes
<1>3. of \in Fields(0)
  <2>1. l * 1 = l
    OBVIOUS
  <2>2. data \in Bytes(l * 1)
    BY <1>1, <2>1 DEF Bytes
  <2>3. of \in Vecs(1)
    BY <1>1, <2>2 DEF Vecs
  <2>4. QED
    BY <2>3 DEF Fields
<1>4. Len(body) = 1 + Len(of)
  <2>1. <<0>> \in Seq(Byte) /\ Len(<<0>>) = 1
    BY DEF Byte
  <2>2. QED
    BY <1>1, <1>2, <2>1, ConcatProperties
<1>5. DecodeBody(body) = Some(Shown("Complete", of))
  <2>1. PICK tag \in 0..4 : tag = 0
    OBVIOUS
  <2>2. of \in Fields(tag) /\ FourBytes(1 + Len(of))
    BY <1>3, <1>4, <2>1
  <2>3. DecodeBody(<<tag>> \o of) = Some(Shown(Variants[tag + 1], of))
    BY <2>2, BodiesAreDecoded
  <2>4. Variants[tag + 1] = "Complete"
    BY <2>1 DEF Variants
  <2>5. body = <<tag>> \o of
    BY <1>1, <2>1
  <2>6. QED
    BY <2>3, <2>4, <2>5, Zenon
<1>6. SubSeq(of, 5, Len(of)) = data
  <2>1. Lies(of, of, 1)
    <3>1. \A n \in 1..Len(of) : 1 + n - 1 = n
      BY <1>2
    <3>2. QED
      BY <1>2, <3>1 DEF Lies
  <2>2. NumberBytes(l, 4) \in Seq(Byte) /\ Len(NumberBytes(l, 4)) = 4
    BY NumberIsBytes DEF Bytes
  <2>3. Lies(of, NumberBytes(l, 4) \o data, 1)
    BY <1>1, <2>1 DEF VecOf
  <2>4. Lies(of, data, 1 + Len(NumberBytes(l, 4)))
    BY <2>2, <2>3, LiesApart
  <2>5. PICK five \in Nat \ {0} : five = 5
    OBVIOUS
  <2>6. 1 + 4 = five /\ five + l - 1 = 4 + l
    BY <2>5
  <2>7. Lies(of, data, five)
    BY <2>2, <2>4, <2>6, Zenon
  <2>8. SubSeq(of, five, five + Len(data) - 1) = data
    BY <1>2, <2>7, LiesIsThere
  <2>9. QED
    BY <1>1, <1>2, <2>5, <2>6, <2>8, Zenon
<1>7. PICK d : d = DecodeBody(body)
  OBVIOUS
<1>8. d # None /\ d[1].variant = "Complete" /\ d[1].of = of
  BY <1>5, <1>7 DEF Some, None, Shown
<1>9. QED
  BY <1>6, <1>7, <1>8, Zenon DEF BodyRead

LEMMA ProofIsBytes ==
  ASSUME NEW proof, NEW journal, IsProofOf(proof, journal)
  PROVE  proof \in Seq(Byte)
<1>1. PICK before \in Seq(Byte), after \in Seq(Byte) :
        proof = before \o (NumberBytes(Len(journal), 8) \o (journal \o after))
  BY DEF IsProofOf
<1>2. journal \in Seq(Byte) /\ Len(journal) \in Nat
  BY LenProperties DEF IsProofOf
<1>3. NumberBytes(Len(journal), 8) \in Seq(Byte)
  BY <1>2, NumberIsBytes DEF Bytes
<1>4. PICK t, u : t = journal \o after /\ u = NumberBytes(Len(journal), 8) \o t
  OBVIOUS
<1>5. t \in Seq(Byte)
  BY <1>2, <1>4, ConcatProperties
<1>6. u \in Seq(Byte)
  BY <1>3, <1>4, <1>5, ConcatProperties
<1>7. QED
  BY <1>1, <1>4, <1>6, ConcatProperties

LEMMA ShownHasParts ==
  ASSUME NEW v, NEW o
  PROVE  Shown(v, o).variant = v /\ Shown(v, o).of = o
BY DEF Shown

\* What is left to the decoders of bodies: what is printed of a body in either format,
\* and of the answer of a node, is what its writer meant by it.
BodiesAreRead ==
  \A b \in Blocks : \A k \in DOMAIN Contents[b] :
    LET tx == Contents[b][k]
    IN  tx.wrote # Absent =>
          \A format \in Formats : ShowsMeaning(tx, format, Described(format, tx.wrote))

\* Each format prints what was made of a batch proof as it is.
LEMMA ProofsArePrinted ==
  ASSUME NEW format, NEW read, read.variant = "Complete"
  PROVE  Printed(format, read) = read
BY DEF Printed, TextOf, JsonOf

\* What is printed of any of these is what was meant.
LEMMA BodiesSayWhatIsMeant ==
  ASSUME FourBytes(MaxJournal), BytesAreDecoded, WrittenByProvers
  PROVE  BodiesAreRead
<1>1. SUFFICES ASSUME NEW b \in Blocks, NEW k \in DOMAIN Contents[b],
                      Contents[b][k].wrote # Absent, NEW format \in Formats
               PROVE  ShowsMeaning(Contents[b][k], format,
                                   Described(format, Contents[b][k].wrote))
  BY DEF BodiesAreRead
<1>2. PICK tx, body, shown : /\ tx = Contents[b][k] /\ body = tx.wrote.body
                             /\ shown = BodyRead(Registry, body)
  OBVIOUS
<1>3. FourBytes(Len(body)) /\ (IsCompleteProof(tx) \/ IsOtherBody(tx) \/ IsBroken(tx))
  BY <1>1, <1>2 DEF WrittenByProvers
<1>4. PICK description : /\ description = Described(format, tx.wrote)
                         /\ description.header = Header(tx.wrote)
                         /\ description.shown = Printed(format, shown)
  <2>1. PICK header, of : header = Header(tx.wrote) /\ of = Printed(format, shown)
    OBVIOUS
  <2>2. Described(format, tx.wrote) = [header |-> header, shown |-> of]
    BY <1>2, <2>1, Zenon DEF Described
  <2>3. QED
    BY <2>1, <2>2
<1>9. ASSUME shown = tx.means, tx.means.variant # "Complete"
      PROVE  ShowsMeaning(tx, format, description)
  BY <1>4, <1>9 DEF ShowsMeaning
<1>5. CASE IsCompleteProof(tx)
  <2>1. PICK data \in Seq(Byte) \cap DOMAIN Decompressed : \E journal, changes :
          /\ body = <<0>> \o VecOf(Len(data), data)
          /\ Len(Decompressed[data]) <= MaxDecompressed
          /\ IsProofOf(Decompressed[data], journal)
          /\ IsDiffOf(Registry, Outputs[journal], changes)
          /\ IsAnswerOf(tx.answer, Outputs[journal])
          /\ tx.means = Shown("Complete", [changes |-> {Meant(e) : e \in changes},
                                           summary |-> SummarizeDiff(Outputs[journal])])
    BY <1>2, <1>5 DEF IsCompleteProof
  <2>2. PICK proof, journal, changes, diff :
          /\ proof = Decompressed[data] /\ diff = Outputs[journal]
          /\ Len(proof) <= MaxDecompressed /\ IsProofOf(proof, journal)
          /\ IsDiffOf(Registry, diff, changes) /\ IsAnswerOf(tx.answer, diff)
          /\ tx.means = Shown("Complete", [changes |-> {Meant(e) : e \in changes},
                                           summary |-> SummarizeDiff(diff)])
    BY <2>1
  <2>3. ExtractJournal(proof) = Some(journal)
    BY <2>2, JournalIsFound
  <2>4. shown = ProofShown(Registry, data)
    BY <1>2, <1>3, <2>1, CompleteIsDecoded
  <2>5. PICK j : j = ExtractJournal(proof)
    OBVIOUS
  <2>6. j # None /\ j[1] = journal
    BY <2>3, <2>5 DEF Some, None
  <2>7. shown = Shown("Complete", DiffShown(Registry, diff))
    <3>1. ~(Len(proof) > MaxDecompressed)
      <4>1. PICK l : l = Len(proof)
        OBVIOUS
      <4>2. l \in Nat
        <5>1. proof \in Seq(Byte)
          BY <2>2, ProofIsBytes
        <5>2. QED
          BY <4>1, <5>1, LenProperties
      <4>3. QED
        BY <2>2, <4>1, <4>2, DecoderAssumption
    <3>2. QED
      BY <2>2, <2>4, <2>5, <2>6, <3>1, Zenon DEF ProofShown
  <2>8. diff \in Seq(Range(diff))
    BY <2>2 DEF IsDiffOf
  <2>9. /\ Range(MapDiff(Registry, diff)) = {Meant(e) : e \in changes}
        /\ Range(MapDiff(Registry, StateDiffFromRpc(tx.answer))) = {Meant(e) : e \in changes}
        /\ SummarizeDiff(StateDiffFromRpc(tx.answer)) = SummarizeDiff(diff)
    BY <2>2, DiffIsRead, AnswerIsRead
  <2>13. PICK d, c : d = DiffShown(Registry, diff) /\ c = DiffShown(Registry, StateDiffFromRpc(tx.answer))
    OBVIOUS
  <2>14. /\ d.changes = MapDiff(Registry, diff) /\ d.summary = SummarizeDiff(diff)
         /\ c.changes = MapDiff(Registry, StateDiffFromRpc(tx.answer))
         /\ c.summary = SummarizeDiff(StateDiffFromRpc(tx.answer))
    BY <2>13 DEF DiffShown
  <2>15. PICK m : m = [changes |-> {Meant(e) : e \in changes}, summary |-> SummarizeDiff(diff)]
    OBVIOUS
  <2>16. m.changes = {Meant(e) : e \in changes} /\ m.summary = SummarizeDiff(diff)
    BY <2>15
  <2>17. shown.of = d /\ tx.means.of = m
    <3>1. shown = Shown("Complete", d) /\ tx.means = Shown("Complete", m)
      BY <2>2, <2>7, <2>13, <2>15, Zenon
    <3>2. QED
      BY <3>1, ShownHasParts
  <2>10. \A s \in {shown.of, DiffShown(Registry, StateDiffFromRpc(tx.answer))} :
           Range(s.changes) = tx.means.of.changes /\ s.summary = tx.means.of.summary
    BY <2>9, <2>13, <2>14, <2>16, <2>17, Zenon
  <2>11. shown.variant = "Complete" /\ tx.means.variant = "Complete"
    BY <2>2, <2>7 DEF Shown
  <2>18. description.shown = shown
    BY <1>4, <2>11, ProofsArePrinted
  <2>12. QED
    BY <1>2, <1>4, <2>10, <2>11, <2>18 DEF ShowsMeaning
<1>6. CASE IsOtherBody(tx)
  <2>1. PICK tag \in 1..4 : \E fields \in Fields(tag) :
          body = <<tag>> \o fields /\ tx.means = Shown(Variants[tag + 1], fields)
    BY <1>2, <1>6 DEF IsOtherBody
  <2>2. PICK fields \in Fields(tag) :
          body = <<tag>> \o fields /\ tx.means = Shown(Variants[tag + 1], fields)
    BY <2>1
  <2>3. tag \in 0..4 /\ fields \in Seq(Byte)
    BY FieldsAreBytes
  <2>4. Len(body) = 1 + Len(fields)
    <3>1. <<tag>> \in Seq(Byte) /\ Len(<<tag>>) = 1
      BY DEF Byte
    <3>2. QED
      BY <2>2, <2>3, <3>1, ConcatProperties
  <2>5. DecodeBody(body) = Some(tx.means)
    BY <1>3, <2>2, <2>3, <2>4, BodiesAreDecoded
  <2>6. tx.means.variant # "Complete"
    BY <2>2 DEF Variants, Shown
  <2>7. PICK d : d = DecodeBody(body)
    OBVIOUS
  <2>8. d # None /\ d[1] = tx.means
    BY <2>5, <2>7 DEF Some, None
  <2>9. shown = tx.means
    BY <1>2, <2>6, <2>7, <2>8, Zenon DEF BodyRead
  <2>10. QED
    BY <1>2, <1>4, <1>9, <2>6, <2>9
<1>7. CASE IsBroken(tx)
  <2>1. CASE DecodeBody(body) = None /\ tx.means = Shown("Borsh decode error", body)
    <3>1. shown = tx.means
      BY <1>2, <2>1 DEF BodyRead
    <3>2. tx.means.variant # "Complete"
      <4>1. PICK m : m = tx.means
        OBVIOUS
      <4>2. m = Shown("Borsh decode error", body)
        BY <2>1, <4>1
      <4>3. m.variant = "Borsh decode error"
        BY <4>2, ShownHasParts
      <4>4. QED
        BY <4>1, <4>3
    <3>3. QED
      BY <1>2, <1>4, <1>9, <3>1, <3>2
  <2>2. ASSUME NEW data \in Seq(Byte), body = << 0 >> \o VecOf(Len(data), data),
               \/ /\ data \in DOMAIN Decompressed => Len(Decompressed[data]) > MaxDecompressed
                  /\ tx.means = Shown("decompress failed", None)
               \/ /\ data \in DOMAIN Decompressed /\ ~(Len(Decompressed[data]) > MaxDecompressed)
                  /\ Candidates(Decompressed[data]) = {}
                  /\ tx.means = Shown("journal extraction failed", Len(Decompressed[data]))
        PROVE  ShowsMeaning(tx, format, description)
    <3>1. shown = ProofShown(Registry, data)
      BY <1>2, <1>3, <2>2, CompleteIsDecoded
    <3>2. shown = tx.means
      BY <2>2, <3>1 DEF ProofShown, ExtractJournal
    <3>3. tx.means.variant # "Complete"
      <4>1. PICK m : m = tx.means
        OBVIOUS
      <4>2. CASE m = Shown("decompress failed", None)
        <5>1. m.variant = "decompress failed"
          BY <4>2, ShownHasParts
        <5>2. QED
          BY <4>1, <5>1
      <4>3. CASE m = Shown("journal extraction failed", Len(Decompressed[data]))
        <5>1. m.variant = "journal extraction failed"
          BY <4>3, ShownHasParts
        <5>2. QED
          BY <4>1, <5>1
      <4>4. QED
        BY <2>2, <4>1, <4>2, <4>3
    <3>4. QED
      BY <1>2, <1>4, <1>9, <3>2, <3>3
  <2>3. QED
    BY <1>2, <1>4, <1>7, <2>1, <2>2 DEF IsBroken
<1>8. QED
  BY <1>2, <1>3, <1>5, <1>6, <1>7

\* Everything that the scan (main.rs, scan_block) prints, in text (print_text) or as JSON
\* (print_json), is of an inscription as it was written and says what was meant by it, from
\* the tapscript down to the value of each word, whatever else is in the blocks and becomes
\* of the chain.
THEOREM ProofsAreAlwaysReadAsWritten ==
  ASSUME WrittenByCitrea, WrittenByProvers, BytesAreDecoded, FourBytes(MaxJournal)
  PROVE  Spec => []ProofsAreReadAsWritten
<1>0. BodiesAreRead
  BY BodiesSayWhatIsMeant
<1>1. ASSUME IInv, NEW n \in DOMAIN printed
      PROVE  <<printed[n].block, printed[n].index + 1>> \in ReadAsWritten[request.format]
  <2>1. PICK b, k : /\ b \in Blocks /\ b = printed[n].block /\ k = printed[n].index + 1
                    /\ k \in Reported(b)
    BY <1>1, LinesAreAboutInscriptions
  <2>2. k \in DOMAIN Contents[b]
    BY <2>1 DEF Reported
  <2>3. Contents[b][k].wrote # Absent /\ Inscriptions[b][k] = Contents[b][k].wrote
    BY <2>1, <2>2, WrittenIsFound
  <2>9. PICK format \in Formats : format = request.format
    BY <1>1, ScanAssumption DEF IInv, RangeKept
  <2>4. Descriptions[format][b][k] = Described(format, Contents[b][k].wrote)
    BY <2>1, <2>2, <2>3 DEF Descriptions
  <2>5. ShowsMeaning(Contents[b][k], format, Descriptions[format][b][k])
    BY <1>0, <2>1, <2>2, <2>3, <2>4 DEF BodiesAreRead
  <2>6. <<b, k>> \in UNION {{c} \X DOMAIN Contents[c] : c \in Blocks}
    BY <2>1, <2>2
  <2>7. <<b, k>> \in ReadAsWritten[format]
    BY <2>3, <2>5, <2>6 DEF ReadAsWritten
  <2>8. QED
    BY <2>1, <2>7, <2>9
<1>2. IInv => ProofsAreReadAsWritten
  BY <1>1 DEF ProofsAreReadAsWritten
<1>3. QED
  BY <1>2, InductiveInvariant, PTL
=============================================================================
