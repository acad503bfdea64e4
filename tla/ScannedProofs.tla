--------------------------- MODULE ScannedProofs ---------------------------
(***************************************************************************)
(* What can be learnt about contracts from Bitcoin, for any contracts, any *)
(* transactions, batches and blocks, and any range that is scanned: the    *)
(* output has the proofs of the chain in their order, and the last values  *)
(* printed are what the contracts' getters answered.                       *)
(***************************************************************************)
EXTENDS ScannedContracts, ContractProofs, FiniteSetTheorems, WellFoundedInduction

-----------------------------------------------------------------------------
\* Sequences of anything.

LEMMA SeqOfListed ==
  ASSUME NEW S, NEW s \in Seq(S)
  PROVE  s \in Seq(Listed(s))
<1>1. \A k \in 1..Len(s) : s[k] \in Listed(s)
  BY DEF Listed
<1> QED BY <1>1, SeqDef

LEMMA Appended ==
  ASSUME NEW s, s \in Seq(Listed(s)), NEW e
  PROVE  /\ Append(s, e) \in Seq(Listed(Append(s, e)))
         /\ Len(s) \in Nat /\ Len(Append(s, e)) = Len(s) + 1
         /\ \A k \in 1..Len(s) : Append(s, e)[k] = s[k]
         /\ Append(s, e)[Len(s) + 1] = e
<1> DEFINE S == Listed(s) \cup {e}
<1>1. s \in Seq(S) /\ e \in S
  <2>1. \A k \in 1..Len(s) : s[k] \in S
    BY DEF Listed
  <2> QED BY <2>1, SeqDef
<1> HIDE DEF S
<1>2. /\ Append(s, e) \in Seq(S)
      /\ Len(s) \in Nat /\ Len(Append(s, e)) = Len(s) + 1
      /\ \A k \in 1..Len(s) : Append(s, e)[k] = s[k]
      /\ Append(s, e)[Len(s) + 1] = e
  BY <1>1
<1>3. Append(s, e) \in Seq(Listed(Append(s, e)))
  BY <1>2, SeqOfListed
<1> QED BY <1>2, <1>3

LEMMA Joined ==
  ASSUME NEW s, s \in Seq(Listed(s)), NEW t, t \in Seq(Listed(t))
  PROVE  /\ s \o t \in Seq(Listed(s \o t))
         /\ Len(s) \in Nat /\ Len(t) \in Nat /\ Len(s \o t) = Len(s) + Len(t)
         /\ \A k \in 1..Len(s) : (s \o t)[k] = s[k]
         /\ \A k \in 1..Len(t) : (s \o t)[Len(s) + k] = t[k]
<1> DEFINE S == Listed(s) \cup Listed(t)
<1>1. s \in Seq(S) /\ t \in Seq(S)
  <2>1. (\A k \in 1..Len(s) : s[k] \in S) /\ (\A k \in 1..Len(t) : t[k] \in S)
    BY DEF Listed
  <2> QED BY <2>1, SeqDef
<1> HIDE DEF S
<1>2. /\ s \o t \in Seq(S)
      /\ Len(s) \in Nat /\ Len(t) \in Nat /\ Len(s \o t) = Len(s) + Len(t)
      /\ \A k \in 1..Len(s) : (s \o t)[k] = s[k]
      /\ \A k \in 1..Len(t) : (s \o t)[Len(s) + k] = t[k]
  BY <1>1, ConcatProperties
<1>3. s \o t \in Seq(Listed(s \o t))
  BY <1>2, SeqOfListed
<1> QED BY <1>2, <1>3

LEMMA Part ==
  ASSUME NEW s, s \in Seq(Listed(s)), NEW m \in Nat, NEW n \in Nat, m <= n, n <= Len(s)
  PROVE  /\ SubSeq(s, m + 1, n) \in Seq(Listed(SubSeq(s, m + 1, n)))
         /\ Len(SubSeq(s, m + 1, n)) = n - m
         /\ \A k \in 1..(n - m) : SubSeq(s, m + 1, n)[k] = s[m + k]
<1> DEFINE t == SubSeq(s, m + 1, n)
<1>1. /\ t \in Seq(Listed(s)) /\ Len(t) = n - m
      /\ \A k \in 1..(n - m) : t[k] = s[m + k]
  BY SubSeqProperties
<1> HIDE DEF t
<1>2. t \in Seq(Listed(t))
  BY <1>1, SeqOfListed
<1> QED BY <1>1, <1>2 DEF t

LEMMA SameSequence ==
  ASSUME NEW s, s \in Seq(Listed(s)), NEW t, t \in Seq(Listed(t)), Len(s) = Len(t),
         \A k \in 1..Len(s) : s[k] = t[k]
  PROVE  s = t
<1> DEFINE S == Listed(s) \cup Listed(t)
<1>1. s \in Seq(S) /\ t \in Seq(S)
  <2>1. (\A k \in 1..Len(s) : s[k] \in S) /\ (\A k \in 1..Len(t) : t[k] \in S)
    BY DEF Listed
  <2> QED BY <2>1, SeqDef
<1> HIDE DEF S
<1> QED BY <1>1, SeqEqual

-----------------------------------------------------------------------------
\* The proofs that are in blocks.

\* The heights at which the batches' proofs are, in order.
ProofsInBlocks ==
  /\ proofs \in Seq(Listed(proofs))
  /\ blocks \in Seq(Nat)
  /\ \A g, h \in 0..Len(blocks) : g <= h => ProofsUpTo(g) <= ProofsUpTo(h)
  /\ ProofsUpTo(Len(blocks)) <= Len(proofs)

\* Proof k of block h is this proof of all.
NumberOf(h, k) == ProofsUpTo(h - 1) + k

ProofsOfBlock(h) ==
  /\ ProofsUpTo(h - 1) \in Nat /\ ProofsUpTo(h) \in Nat /\ Len(proofs) \in Nat
  /\ ProofsUpTo(h - 1) <= ProofsUpTo(h) /\ ProofsUpTo(h) <= Len(proofs)
  /\ VerifiedProofs(h) \in Seq(Listed(VerifiedProofs(h)))
  /\ Len(VerifiedProofs(h)) = ProofsUpTo(h) - ProofsUpTo(h - 1)
  /\ \A k \in 1..Len(VerifiedProofs(h)) :
       /\ NumberOf(h, k) \in 1..Len(proofs)
       /\ VerifiedProofs(h)[k] = proofs[NumberOf(h, k)]

LEMMA BlocksHaveProofs == ProofsInBlocks => \A h \in 1..Len(blocks) : ProofsOfBlock(h)
<1> SUFFICES ASSUME ProofsInBlocks, NEW h \in 1..Len(blocks)
             PROVE  ProofsOfBlock(h)
  OBVIOUS
<1>1. h - 1 \in 0..Len(blocks) /\ h \in 0..Len(blocks) /\ Len(blocks) \in 0..Len(blocks)
      /\ h - 1 <= h /\ h <= Len(blocks)
  BY DEF ProofsInBlocks
<1>2. \A g \in 0..Len(blocks) : ProofsUpTo(g) \in Nat
  BY DEF ProofsInBlocks, ProofsUpTo
<1>3. /\ ProofsUpTo(h - 1) <= ProofsUpTo(h) /\ ProofsUpTo(h) <= ProofsUpTo(Len(blocks))
      /\ ProofsUpTo(Len(blocks)) <= Len(proofs) /\ Len(proofs) \in Nat
  BY <1>1 DEF ProofsInBlocks
<1>4. ProofsUpTo(h) <= Len(proofs)
  BY <1>1, <1>2, <1>3
<1>5. proofs \in Seq(Listed(proofs))
  BY DEF ProofsInBlocks
<1>6. VerifiedProofs(h) = SubSeq(proofs, ProofsUpTo(h - 1) + 1, ProofsUpTo(h))
  BY DEF VerifiedProofs
<1> DEFINE m == ProofsUpTo(h - 1)
           n == ProofsUpTo(h)
<1>7. m \in Nat /\ n \in Nat /\ m <= n /\ n <= Len(proofs)
  BY <1>1, <1>2, <1>3, <1>4
<1> HIDE DEF m, n
<1>8. /\ SubSeq(proofs, m + 1, n) \in Seq(Listed(SubSeq(proofs, m + 1, n)))
      /\ Len(SubSeq(proofs, m + 1, n)) = n - m
      /\ \A k \in 1..(n - m) : SubSeq(proofs, m + 1, n)[k] = proofs[m + k]
  BY <1>5, <1>7, Part
<1>9. \A k \in 1..(n - m) : m + k \in 1..Len(proofs)
  BY <1>3, <1>7
<1> QED BY <1>3, <1>6, <1>7, <1>8, <1>9 DEF m, n, NumberOf, ProofsOfBlock

LEMMA BlocksWillHaveProofs == ProofsInBlocks' => (\A h \in 1..Len(blocks) : ProofsOfBlock(h))'
BY BlocksHaveProofs, PTL

\* Blocks and proofs are only added to.
Grown == Extends(blocks, blocks') /\ Extends(proofs, proofs')

LEMMA BlocksKept ==
  ASSUME ProofsInBlocks, ProofsInBlocks', Grown, NEW h \in 1..Len(blocks)
  PROVE  /\ h \in 1..Len(blocks')
         /\ \A k : NumberOf(h, k)' = NumberOf(h, k)
         /\ VerifiedProofs(h)' = VerifiedProofs(h)
<1>1. /\ Len(blocks) \in Nat /\ Len(blocks') \in Nat /\ Len(blocks) <= Len(blocks')
      /\ \A g \in 1..Len(blocks) : blocks'[g] = blocks[g]
      /\ \A k \in 1..Len(proofs) : proofs'[k] = proofs[k]
  BY DEF ProofsInBlocks, Grown, Extends
<1>2. h \in 1..Len(blocks')
  BY <1>1
<1>3. \A g \in 0..Len(blocks) : ProofsUpTo(g)' = ProofsUpTo(g)
  BY <1>1 DEF ProofsUpTo
<1>4. ProofsUpTo(h)' = ProofsUpTo(h) /\ ProofsUpTo(h - 1)' = ProofsUpTo(h - 1)
  BY <1>1, <1>3
<1>5. \A k : NumberOf(h, k)' = NumberOf(h, k)
  BY <1>4 DEF NumberOf
<1>6. ProofsOfBlock(h)
  BY BlocksHaveProofs
<1>7. ProofsOfBlock(h)'
  BY BlocksWillHaveProofs, <1>2
<1>8. Len(VerifiedProofs(h)') = Len(VerifiedProofs(h))
  BY <1>4, <1>6, <1>7 DEF ProofsOfBlock
<1>9. \A k \in 1..Len(VerifiedProofs(h)) : VerifiedProofs(h)'[k] = VerifiedProofs(h)[k]
  BY <1>1, <1>5, <1>6, <1>7, <1>8 DEF ProofsOfBlock
<1>10. VerifiedProofs(h)' = VerifiedProofs(h)
  BY <1>6, <1>7, <1>8, <1>9, SameSequence DEF ProofsOfBlock
<1> QED BY <1>2, <1>5, <1>10

LEMMA CloseKeepsBlocks ==
  ASSUME ProofsInBlocks, NEW s, NEW v, CloseBatch(s, v)
  PROVE  ProofsInBlocks' /\ Grown
<1>1. PICK p : proofs' = Append(proofs, p) /\ blocks' = blocks
  BY DEF CloseBatch
<1>2. /\ proofs' \in Seq(Listed(proofs')) /\ Len(proofs) \in Nat
      /\ Len(proofs') = Len(proofs) + 1
      /\ \A k \in 1..Len(proofs) : proofs'[k] = proofs[k]
  BY <1>1, Appended DEF ProofsInBlocks
<1>3. \A h : ProofsUpTo(h)' = ProofsUpTo(h)
  BY <1>1 DEF ProofsUpTo
<1>4. ProofsUpTo(Len(blocks)) \in Nat
  BY DEF ProofsInBlocks, ProofsUpTo
<1>5. ProofsInBlocks'
  BY <1>1, <1>2, <1>3, <1>4 DEF ProofsInBlocks
<1> QED BY <1>1, <1>2, <1>5 DEF Grown, Extends, ProofsInBlocks

LEMMA MineKeepsBlocks ==
  ASSUME ProofsInBlocks, MineBlock
  PROVE  ProofsInBlocks' /\ Grown
<1>1. PICK n \in ProofsUpTo(Len(blocks))..Len(proofs) : blocks' = Append(blocks, n)
  BY DEF MineBlock
<1>2. proofs' = proofs
  BY DEF MineBlock
<1>3. ProofsUpTo(Len(blocks)) \in Nat /\ Len(blocks) \in Nat /\ Len(proofs) \in Nat
  BY DEF ProofsInBlocks, ProofsUpTo
<1>4. /\ blocks' \in Seq(Nat) /\ Len(blocks') = Len(blocks) + 1 /\ blocks'[Len(blocks) + 1] = n
      /\ \A g \in 1..Len(blocks) : blocks'[g] = blocks[g]
  BY <1>1, <1>3 DEF ProofsInBlocks
<1>5. \A g \in 0..Len(blocks) : /\ ProofsUpTo(g)' = ProofsUpTo(g) /\ ProofsUpTo(g) \in Nat
                               /\ ProofsUpTo(g) <= n
  <2>1. \A g \in 0..Len(blocks) : ProofsUpTo(g) \in Nat /\ ProofsUpTo(g) <= ProofsUpTo(Len(blocks))
    BY <1>3 DEF ProofsInBlocks, ProofsUpTo
  <2> QED BY <1>1, <1>3, <1>4, <2>1 DEF ProofsUpTo
<1>6. \A g : g = Len(blocks) + 1 => ProofsUpTo(g)' = n
  BY <1>3, <1>4 DEF ProofsUpTo
<1>7. \A g, h \in 0..Len(blocks') : g <= h => ProofsUpTo(g)' <= ProofsUpTo(h)'
  <2> SUFFICES ASSUME NEW g \in 0..Len(blocks'), NEW h \in 0..Len(blocks'), g <= h
               PROVE  ProofsUpTo(g)' <= ProofsUpTo(h)'
    OBVIOUS
  <2>1. CASE h \in 0..Len(blocks)
    <3>1. g \in 0..Len(blocks)
      BY <2>1, <1>3
    <3> QED BY <2>1, <3>1, <1>5 DEF ProofsInBlocks
  <2>2. CASE h = Len(blocks) + 1 /\ g \in 0..Len(blocks)
    BY <2>2, <1>5, <1>6
  <2>3. CASE h = Len(blocks) + 1 /\ g = Len(blocks) + 1
    BY <2>3, <1>1, <1>3, <1>6
  <2> QED BY <2>1, <2>2, <2>3, <1>3, <1>4
<1>8. ProofsUpTo(Len(blocks))' <= Len(proofs')
  BY <1>1, <1>2, <1>3, <1>4 DEF ProofsUpTo
<1>9. ProofsInBlocks'
  BY <1>2, <1>4, <1>7, <1>8 DEF ProofsInBlocks
<1> QED BY <1>2, <1>3, <1>4, <1>9 DEF Grown, Extends

-----------------------------------------------------------------------------
\* What is printed.

ScanTypes ==
  /\ registry \in Registries
  /\ height \in From..(To + 1)
  /\ failed \subseteq From..(height - 1)
  /\ ahead \subseteq From..(height - 1)

\* r is what was to be printed of a proof.
IsReport(r) ==
  /\ r.block \in 1..Len(blocks)
  /\ r.block \in From..(height - 1)
  /\ r.proof \in 1..Len(VerifiedProofs(r.block))
  /\ r.changes = MapStateDiff(VerifiedProofs(r.block)[r.proof].entries)

\* Report q is of a proof that is after that of report r.
Follows(q, r) == r.block < q.block \/ (r.block = q.block /\ r.proof < q.proof)

PrintedReports ==
  /\ printed \in Seq(Listed(printed))
  /\ \A n \in 1..Len(printed) : IsReport(printed[n])
  /\ \A m, n \in 1..Len(printed) : m < n => Follows(printed[n], printed[m])

\* Every proof of block h is printed.
IsPrinted(h) ==
  /\ h <= Len(blocks)
  /\ \A k \in 1..Len(VerifiedProofs(h)) :
       \E n \in 1..Len(printed) : printed[n].block = h /\ printed[n].proof = k

EveryAnswerPrinted == \A h \in (From..(height - 1)) \ (failed \cup ahead) : IsPrinted(h)

\* A scan from the first block without a gap has printed the first proofs of all.
FirstProofsPrinted ==
  NoGap =>
    /\ height - 1 <= Len(blocks)
    /\ Len(printed) = ProofsUpTo(height - 1)
    /\ \A n \in 1..Len(printed) : NumberOf(printed[n].block, printed[n].proof) = n

ScanInv ==
  ProofsInBlocks /\ ScanTypes /\ PrintedReports /\ EveryAnswerPrinted /\ FirstProofsPrinted

LEMMA ScanBegins == ScannerInit(Registries) => ScanInv
<1> SUFFICES ASSUME ScannerInit(Registries) PROVE ScanInv
  OBVIOUS
<1>1. proofs = <<>> /\ blocks = <<>> /\ printed = <<>> /\ height = From /\ failed = {} /\ ahead = {}
      /\ registry \in Registries
  BY DEF ScannerInit
<1>2. ProofsInBlocks
  BY <1>1 DEF ProofsInBlocks, ProofsUpTo, Listed
<1>3. ScanTypes
  BY <1>1, RangeAssumption DEF ScanTypes
<1>4. PrintedReports
  BY <1>1 DEF PrintedReports, Listed
<1>5. EveryAnswerPrinted
  BY <1>1, RangeAssumption DEF EveryAnswerPrinted
<1>6. FirstProofsPrinted
  BY <1>1 DEF FirstProofsPrinted, NoGap, ProofsUpTo
<1> QED BY <1>2, <1>3, <1>4, <1>5, <1>6 DEF ScanInv

\* More batches and blocks change nothing of what was printed.
LEMMA GrowthKeepsScan ==
  ASSUME ScanInv, ProofsInBlocks', Grown, UNCHANGED scanVars
  PROVE  ScanInv'
<1>1. registry' = registry /\ height' = height /\ printed' = printed /\ failed' = failed
      /\ ahead' = ahead
  BY DEF scanVars
<1>2. /\ Len(blocks) \in Nat /\ Len(blocks') \in Nat /\ Len(blocks) <= Len(blocks')
      /\ \A h \in 1..Len(blocks) : h \in 1..Len(blocks') /\ blocks'[h] = blocks[h]
  BY DEF ScanInv, ProofsInBlocks, Grown, Extends
<1>3. \A h \in 1..Len(blocks) : VerifiedProofs(h)' = VerifiedProofs(h)
  BY BlocksKept DEF ScanInv
<1>4. ASSUME NEW e PROVE MapStateDiff(e)' = MapStateDiff(e)
  BY <1>1 DEF MapStateDiff, InTable, Inserters, Change, TableKind
<1>5. ASSUME NEW r, IsReport(r) PROVE IsReport(r)'
  <2>1. PICK b, e : b = r.block /\ e = VerifiedProofs(b)[r.proof].entries
    OBVIOUS
  <2>2. b \in 1..Len(blocks) /\ b \in From..(height - 1) /\ r.proof \in 1..Len(VerifiedProofs(b))
        /\ r.changes = MapStateDiff(e)
    BY <1>5, <2>1 DEF IsReport
  <2>3. VerifiedProofs(b)' = VerifiedProofs(b) /\ b \in 1..Len(blocks')
    BY <1>2, <1>3, <2>2
  <2>4. MapStateDiff(e)' = r.changes
    BY <1>4, <2>2
  <2>5. (VerifiedProofs(b)[r.proof].entries)' = e
    BY <2>1, <2>3
  <2>6. MapStateDiff(VerifiedProofs(b)[r.proof].entries)' = MapStateDiff(e)'
    BY <2>5 DEF MapStateDiff
  <2> QED BY <1>1, <2>1, <2>2, <2>3, <2>4, <2>6 DEF IsReport
<1>6. PrintedReports'
  <2>1. \A n \in 1..Len(printed) : IsReport(printed[n])'
    <3>1. ASSUME NEW n \in 1..Len(printed) PROVE IsReport(printed[n])'
      <4>1. PICK r : r = printed[n]
        OBVIOUS
      <4>2. IsReport(r)'
        BY <1>5, <4>1 DEF ScanInv, PrintedReports
      <4> QED BY <1>1, <4>1, <4>2 DEF IsReport
    <3> QED BY <3>1
  <2> QED BY <1>1, <2>1 DEF ScanInv, PrintedReports, Follows
<1>7. EveryAnswerPrinted'
  <2>1. ASSUME NEW h \in From..(height - 1), IsPrinted(h) PROVE IsPrinted(h)'
    <3>1. CASE h \in 1..Len(blocks)
      <4>1. PICK proven : proven = VerifiedProofs(h)
        OBVIOUS
      <4>2. VerifiedProofs(h)' = proven
        BY <1>3, <3>1, <4>1
      <4>3. \A k \in 1..Len(proven) :
              \E n \in 1..Len(printed) : printed[n].block = h /\ printed[n].proof = k
        BY <2>1, <4>1 DEF IsPrinted
      <4> QED BY <1>1, <1>2, <3>1, <4>2, <4>3 DEF IsPrinted
    <3>2. CASE h \notin 1..Len(blocks)
      <4>1. h = 0
        BY <1>2, <2>1, <3>2, RangeAssumption DEF IsPrinted, ScanInv, ScanTypes
      <4>2. VerifiedProofs(h)' = <<>> /\ h <= Len(blocks')
        BY <1>2, <4>1 DEF VerifiedProofs
      <4> QED BY <4>2 DEF IsPrinted
    <3> QED BY <3>1, <3>2
  <2> QED BY <1>1, <2>1 DEF ScanInv, EveryAnswerPrinted
<1>8. FirstProofsPrinted'
  <2> SUFFICES ASSUME NoGap'
               PROVE  /\ height' - 1 <= Len(blocks')
                      /\ Len(printed') = ProofsUpTo(height - 1)'
                      /\ \A n \in 1..Len(printed') :
                           NumberOf(printed[n].block, printed[n].proof)' = n
    BY DEF FirstProofsPrinted
  <2>1. NoGap
    BY <1>1 DEF NoGap
  <2>2. /\ height - 1 <= Len(blocks) /\ Len(printed) = ProofsUpTo(height - 1)
        /\ \A n \in 1..Len(printed) : NumberOf(printed[n].block, printed[n].proof) = n
    BY <2>1 DEF ScanInv, FirstProofsPrinted
  <2>3. height \in Nat /\ height - 1 >= 0
    BY <2>1, RangeAssumption DEF NoGap, ScanInv, ScanTypes
  <2>4. ProofsUpTo(height - 1)' = ProofsUpTo(height - 1)
    BY <1>1, <1>2, <2>2, <2>3 DEF ProofsUpTo
  <2>5. ASSUME NEW n \in 1..Len(printed)
        PROVE  NumberOf(printed[n].block, printed[n].proof)' = n
    <3>1. PICK b, k : b = printed[n].block /\ k = printed[n].proof
      OBVIOUS
    <3>2. b \in 1..Len(blocks)
      BY <3>1 DEF ScanInv, PrintedReports, IsReport
    <3>3. NumberOf(b, k)' = NumberOf(b, k)
      BY <3>2, BlocksKept DEF ScanInv
    <3> QED BY <1>1, <2>2, <3>1, <3>3 DEF NumberOf
  <2> QED BY <1>1, <1>2, <2>2, <2>3, <2>4, <2>5
<1>9. ScanTypes'
  BY <1>1 DEF ScanInv, ScanTypes
<1> QED BY <1>6, <1>7, <1>8, <1>9 DEF ScanInv

LEMMA SameChain ==
  ASSUME UNCHANGED citreaVars
  PROVE  /\ proofs' = proofs /\ blocks' = blocks
         /\ ProofsInBlocks => ProofsInBlocks'
         /\ \A h : VerifiedProofs(h)' = VerifiedProofs(h) /\ ProofsUpTo(h)' = ProofsUpTo(h)
         /\ \A h, k : NumberOf(h, k)' = NumberOf(h, k)
BY DEF citreaVars, ProofsInBlocks, ProofsUpTo, VerifiedProofs, NumberOf

\* A report stays one while the chain does and the scan goes on.
LEMMA ReportStays ==
  ASSUME UNCHANGED citreaVars, registry' = registry, height \in Nat, height' = height + 1,
         NEW r, IsReport(r)
  PROVE  IsReport(r)'
<1>1. PICK b, e : b = r.block /\ e = VerifiedProofs(b)[r.proof].entries
  OBVIOUS
<1>2. b \in 1..Len(blocks) /\ b \in From..(height - 1) /\ r.proof \in 1..Len(VerifiedProofs(b))
      /\ r.changes = MapStateDiff(e)
  BY <1>1 DEF IsReport
<1>3. VerifiedProofs(b)' = VerifiedProofs(b) /\ b \in 1..Len(blocks')
  BY <1>2, SameChain
<1>4. MapStateDiff(VerifiedProofs(b)[r.proof].entries)' = MapStateDiff(e)
  BY <1>1, <1>3 DEF MapStateDiff, InTable, Inserters, Change, TableKind
<1>5. b \in From..(height' - 1)
  BY <1>2, RangeAssumption
<1> QED BY <1>1, <1>2, <1>3, <1>4, <1>5 DEF IsReport

LEMMA QueryFailsKeepsScan ==
  ASSUME ScanInv, QueryFails
  PROVE  ScanInv'
<1>1. /\ height <= To /\ failed' = failed \cup {height} /\ height' = height + 1
      /\ registry' = registry /\ printed' = printed /\ ahead' = ahead /\ UNCHANGED citreaVars
  BY DEF QueryFails
<1>2. ProofsInBlocks' /\ blocks' = blocks /\ \A h : VerifiedProofs(h)' = VerifiedProofs(h)
  BY <1>1, SameChain DEF ScanInv
<1>3. ScanTypes'
  BY <1>1, RangeAssumption DEF ScanInv, ScanTypes
<1>4. height \in Nat
  BY RangeAssumption DEF ScanInv, ScanTypes
<1>5. ASSUME NEW r, IsReport(r) PROVE IsReport(r)'
  BY <1>1, <1>4, <1>5, ReportStays
<1>6. PrintedReports'
  <2>1. ASSUME NEW n \in 1..Len(printed) PROVE IsReport(printed[n])'
    <3>1. PICK r : r = printed[n]
      OBVIOUS
    <3>2. IsReport(r)'
      BY <1>5, <3>1 DEF ScanInv, PrintedReports
    <3> QED BY <1>1, <3>1, <3>2 DEF IsReport
  <2> QED BY <1>1, <2>1 DEF ScanInv, PrintedReports, Follows
<1>7. EveryAnswerPrinted'
  <2>1. (From..(height' - 1)) \ (failed' \cup ahead')
          = (From..(height - 1)) \ (failed \cup ahead)
    BY <1>1, <1>4, RangeAssumption
  <2>2. \A h : IsPrinted(h) => IsPrinted(h)'
    BY <1>1, <1>2 DEF IsPrinted
  <2> QED BY <2>1, <2>2 DEF ScanInv, EveryAnswerPrinted
<1>8. FirstProofsPrinted'
  BY <1>1 DEF FirstProofsPrinted, NoGap
<1> QED BY <1>2, <1>3, <1>6, <1>7, <1>8 DEF ScanInv

LEMMA QueryKeepsScan ==
  ASSUME ScanInv, QueryBlock
  PROVE  ScanInv'
<1> DEFINE answer == VerifiedProofs(height)
           new    == [k \in 1..Len(answer) |-> Report(height, k)]
<1>1. /\ height <= To /\ printed' = printed \o new /\ height' = height + 1
      /\ ahead' = IF height > Len(blocks) THEN ahead \cup {height} ELSE ahead
      /\ registry' = registry /\ failed' = failed /\ UNCHANGED citreaVars
  BY DEF QueryBlock
<1>2. /\ ProofsInBlocks /\ ProofsInBlocks' /\ blocks' = blocks
      /\ \A h : VerifiedProofs(h)' = VerifiedProofs(h) /\ ProofsUpTo(h)' = ProofsUpTo(h)
      /\ \A h, k : NumberOf(h, k)' = NumberOf(h, k)
  BY <1>1, SameChain DEF ScanInv
<1>3. height \in Nat /\ height \in From..To /\ Len(blocks) \in Nat
  BY <1>1, <1>2, RangeAssumption DEF ScanInv, ScanTypes, ProofsInBlocks
<1>4. ScanTypes'
  BY <1>1, <1>3, RangeAssumption DEF ScanInv, ScanTypes
<1>5. answer \in Seq(Listed(answer)) /\ Len(answer) \in Nat
      /\ (height \notin 1..Len(blocks) => Len(answer) = 0)
  <2>1. CASE height \in 1..Len(blocks)
    BY <1>2, <2>1, BlocksHaveProofs DEF ProofsOfBlock
  <2>2. CASE height \notin 1..Len(blocks)
    BY <2>2 DEF VerifiedProofs, Listed
  <2> QED BY <2>1, <2>2
<1>6. /\ new \in Seq(Listed(new)) /\ Len(new) = Len(answer)
      /\ \A k \in 1..Len(answer) : new[k] = Report(height, k)
  <2>1. new \in Seq({Report(height, k) : k \in 1..Len(answer)})
    BY <1>5
  <2>2. Len(new) = Len(answer)
    BY <1>5
  <2> HIDE DEF answer
  <2> QED BY <2>1, <2>2, SeqOfListed
<1>7. /\ printed' \in Seq(Listed(printed'))
      /\ Len(printed) \in Nat /\ Len(printed') = Len(printed) + Len(answer)
      /\ \A n \in 1..Len(printed) : printed'[n] = printed[n]
      /\ \A k \in 1..Len(answer) : printed'[Len(printed) + k] = Report(height, k)
  <2> HIDE DEF answer, new
  <2>1. printed \in Seq(Listed(printed)) /\ new \in Seq(Listed(new))
    BY <1>6 DEF ScanInv, PrintedReports
  <2>2. /\ printed \o new \in Seq(Listed(printed \o new))
        /\ Len(printed) \in Nat /\ Len(printed \o new) = Len(printed) + Len(new)
        /\ \A k \in 1..Len(printed) : (printed \o new)[k] = printed[k]
        /\ \A k \in 1..Len(new) : (printed \o new)[Len(printed) + k] = new[k]
    BY <2>1, Joined
  <2> QED BY <1>1, <1>6, <2>2
<1> HIDE DEF new, answer
<1>8. ASSUME NEW n \in 1..Len(printed'), n \notin 1..Len(printed)
      PROVE  \E k \in 1..Len(answer) : n = Len(printed) + k
  <2>1. n \in Nat /\ Len(printed) < n /\ n <= Len(printed) + Len(answer)
    BY <1>5, <1>7, <1>8
  <2>2. n - Len(printed) \in 1..Len(answer) /\ n = Len(printed) + (n - Len(printed))
    BY <1>5, <1>7, <2>1
  <2> QED BY <2>2
<1>9. ASSUME NEW r, IsReport(r) PROVE IsReport(r)'
  BY <1>1, <1>3, <1>9, ReportStays
<1>10. ASSUME NEW k \in 1..Len(answer), NEW r, r = Report(height, k)
       PROVE  r.block = height /\ r.proof = k /\ IsReport(r)'
  <2>1. PICK h : h = height
    OBVIOUS
  <2>2. r.block = h /\ r.proof = k /\ r.changes = MapStateDiff(VerifiedProofs(h)[k].entries)
    BY <1>10, <2>1 DEF Report
  <2>3. VerifiedProofs(h)' = VerifiedProofs(h)
    BY <1>2
  <2>4. MapStateDiff(VerifiedProofs(h)[k].entries)' = MapStateDiff(VerifiedProofs(h)[k].entries)
    BY <2>3, <1>1 DEF MapStateDiff, InTable, Inserters, Change, TableKind
  <2>5. h \in 1..Len(blocks') /\ h \in From..(height' - 1)
    BY <1>1, <1>2, <1>3, <1>5, <2>1, RangeAssumption
  <2>6. k \in 1..Len(VerifiedProofs(h)')
    BY <2>1, <2>3 DEF answer
  <2> QED BY <2>1, <2>2, <2>4, <2>5, <2>6 DEF IsReport
<1>11. PrintedReports'
  <2>1. ASSUME NEW n \in 1..Len(printed') PROVE IsReport(printed[n])'
    <3>1. PICK r : r = printed'[n]
      OBVIOUS
    <3>2. CASE n \in 1..Len(printed)
      <4>1. r = printed[n]
        BY <1>7, <3>1, <3>2
      <4>2. IsReport(r)'
        BY <1>9, <3>2, <4>1 DEF ScanInv, PrintedReports
      <4> QED BY <3>1, <4>2 DEF IsReport
    <3>3. CASE n \notin 1..Len(printed)
      <4>1. PICK k \in 1..Len(answer) : n = Len(printed) + k
        BY <1>8, <3>3
      <4>2. IsReport(r)'
        BY <1>7, <1>10, <3>1, <4>1
      <4> QED BY <3>1, <4>2 DEF IsReport
    <3> QED BY <3>2, <3>3
  <2>2. ASSUME NEW m \in 1..Len(printed'), NEW n \in 1..Len(printed'), m < n
        PROVE  Follows(printed'[n], printed'[m])
    <3>1. CASE n \in 1..Len(printed)
      <4>1. m \in 1..Len(printed) /\ printed'[m] = printed[m] /\ printed'[n] = printed[n]
        BY <1>7, <2>2, <3>1
      <4> QED BY <2>2, <3>1, <4>1 DEF ScanInv, PrintedReports
    <3>2. CASE n \notin 1..Len(printed) /\ m \in 1..Len(printed)
      <4>1. PICK k \in 1..Len(answer) : n = Len(printed) + k
        BY <1>8, <3>2
      <4>2. printed'[n].block = height
        BY <1>7, <1>10, <4>1
      <4>3. printed'[m].block < height
        BY <1>3, <1>7, <3>2, RangeAssumption DEF ScanInv, PrintedReports, IsReport
      <4> QED BY <4>2, <4>3 DEF Follows
    <3>3. CASE n \notin 1..Len(printed) /\ m \notin 1..Len(printed)
      <4>1. PICK k \in 1..Len(answer) : n = Len(printed) + k
        BY <1>8, <3>3
      <4>2. PICK j \in 1..Len(answer) : m = Len(printed) + j
        BY <1>8, <3>3
      <4>3. j < k
        BY <1>7, <2>2, <4>1, <4>2
      <4>4. printed'[n].block = height /\ printed'[n].proof = k
        BY <1>7, <1>10, <4>1
      <4>5. printed'[m].block = height /\ printed'[m].proof = j
        BY <1>7, <1>10, <4>2
      <4> QED BY <4>3, <4>4, <4>5 DEF Follows
    <3> QED BY <3>1, <3>2, <3>3
  <2> QED BY <1>7, <2>1, <2>2 DEF PrintedReports, Follows
<1>12. EveryAnswerPrinted'
  <2>1. ASSUME NEW h, IsPrinted(h) PROVE IsPrinted(h)'
    <3> SUFFICES ASSUME NEW k \in 1..Len(VerifiedProofs(h)')
                 PROVE  \E n \in 1..Len(printed') : printed'[n].block = h /\ printed'[n].proof = k
      BY <1>2, <2>1 DEF IsPrinted
    <3>1. PICK n \in 1..Len(printed) : printed[n].block = h /\ printed[n].proof = k
      BY <1>2, <2>1 DEF IsPrinted
    <3>2. n \in 1..Len(printed') /\ printed'[n] = printed[n]
      BY <1>5, <1>7
    <3> QED BY <3>1, <3>2
  <2>2. ASSUME NEW h, h = height, h \notin ahead' PROVE IsPrinted(h)'
    <3>1. h <= Len(blocks')
      BY <1>1, <1>2, <1>3, <2>2
    <3>2. ASSUME NEW k \in 1..Len(VerifiedProofs(h)')
          PROVE  \E n \in 1..Len(printed') : printed'[n].block = h /\ printed'[n].proof = k
      <4>1. k \in 1..Len(answer)
        BY <1>2, <2>2 DEF answer
      <4>2. Len(printed) + k \in 1..Len(printed')
        BY <1>5, <1>7, <4>1
      <4>3. printed'[Len(printed) + k].block = h /\ printed'[Len(printed) + k].proof = k
        BY <1>7, <1>10, <2>2, <4>1
      <4> QED BY <4>2, <4>3
    <3> QED BY <3>1, <3>2 DEF IsPrinted
  <2>3. ASSUME NEW h \in (From..(height' - 1)) \ (failed' \cup ahead') PROVE IsPrinted(h)'
    <3>1. CASE h = height
      BY <2>2, <2>3, <3>1
    <3>2. CASE h # height
      <4>1. h \in (From..(height - 1)) \ (failed \cup ahead)
        BY <1>1, <1>3, <3>2, RangeAssumption
      <4> QED BY <2>1, <4>1 DEF ScanInv, EveryAnswerPrinted
    <3> QED BY <3>1, <3>2
  <2> QED BY <2>3 DEF EveryAnswerPrinted
<1>13. FirstProofsPrinted'
  <2> SUFFICES ASSUME NoGap'
               PROVE  /\ height' - 1 <= Len(blocks')
                      /\ Len(printed') = ProofsUpTo(height - 1)'
                      /\ \A n \in 1..Len(printed') :
                           NumberOf(printed[n].block, printed[n].proof)' = n
    BY DEF FirstProofsPrinted
  <2>1. From = 1 /\ height <= Len(blocks) /\ NoGap
    BY <1>1, <1>3 DEF NoGap
  <2>2. /\ Len(printed) = ProofsUpTo(height - 1)
        /\ \A n \in 1..Len(printed) : NumberOf(printed[n].block, printed[n].proof) = n
    BY <2>1 DEF ScanInv, FirstProofsPrinted
  <2>3. height \in 1..Len(blocks)
    BY <1>3, <2>1
  <2>4. Len(answer) = ProofsUpTo(height) - ProofsUpTo(height - 1) /\ ProofsUpTo(height) \in Nat
        /\ ProofsUpTo(height - 1) \in Nat
    BY <1>2, <2>3, BlocksHaveProofs DEF ProofsOfBlock, answer
  <2>5. Len(printed') = ProofsUpTo(height)
    BY <1>7, <2>2, <2>4
  <2>6. height' - 1 = height
    BY <1>1, <1>3
  <2>7. ProofsUpTo(height - 1)' = ProofsUpTo(height)
    BY <1>2, <2>6 DEF ProofsUpTo
  <2>8. ASSUME NEW n \in 1..Len(printed')
        PROVE  NumberOf(printed[n].block, printed[n].proof)' = n
    <3>1. PICK b, k : b = printed'[n].block /\ k = printed'[n].proof
      OBVIOUS
    <3>2. NumberOf(b, k) = n
      <4>1. CASE n \in 1..Len(printed)
        BY <1>7, <2>2, <3>1, <4>1
      <4>2. CASE n \notin 1..Len(printed)
        <5>1. PICK j \in 1..Len(answer) : n = Len(printed) + j
          BY <1>8, <4>2
        <5>2. b = height /\ k = j
          BY <1>7, <1>10, <3>1, <5>1
        <5> QED BY <2>2, <2>4, <5>1, <5>2 DEF NumberOf
      <4> QED BY <4>1, <4>2
    <3>3. NumberOf(b, k)' = NumberOf(b, k)
      BY <1>2
    <3> QED BY <3>1, <3>2, <3>3 DEF NumberOf
  <2> QED BY <1>2, <2>1, <2>5, <2>6, <2>7, <2>8
<1> QED BY <1>2, <1>4, <1>11, <1>12, <1>13 DEF ScanInv

-----------------------------------------------------------------------------
\* The table of slots.

LEMMA KindsInOrder ==
  /\ Len(InsertionOrder) = 4
  /\ InsertionOrder[1] = "BINSTDeployer" /\ InsertionOrder[2] = "Institution"
  /\ InsertionOrder[3] = "ProcessTemplate" /\ InsertionOrder[4] = "ProcessInstance"
BY DEF InsertionOrder

\* A word of the table is one of a contract that is registered as what the table says.
LEMMA KindIsOfRegistered ==
  ASSUME NEW a, NEW s, InTable(registry, a, s)
  PROVE  /\ TableKind(registry, a, s) \in Kinds
         /\ a \in registry[TableKind(registry, a, s)]
         /\ s \in TableSlots(TableKind(registry, a, s))
<1> DEFINE S == Inserters(registry, a, s)
<1>1. S \subseteq 1..4 /\ S # {}
  BY KindsInOrder DEF Inserters, InTable
<1>2. \E k \in S : \A j \in S : j <= k
  <2> HIDE DEF S
  <2>1. 4 \in S \/ 3 \in S \/ 2 \in S \/ 1 \in S
    <3>1. PICK k \in S : k \in 1..4
      BY <1>1
    <3>2. k = 4 \/ k = 3 \/ k = 2 \/ k = 1
      BY <3>1
    <3> QED BY <3>1, <3>2
  <2>2. CASE 4 \in S
    BY <1>1, <2>2
  <2>3. CASE 3 \in S /\ 4 \notin S
    BY <1>1, <2>3
  <2>4. CASE 2 \in S /\ 3 \notin S /\ 4 \notin S
    BY <1>1, <2>4
  <2>5. CASE 1 \in S /\ 2 \notin S /\ 3 \notin S /\ 4 \notin S
    BY <1>1, <2>5
  <2> QED BY <2>1, <2>2, <2>3, <2>4, <2>5
<1>3. (CHOOSE k \in S : \A j \in S : j <= k) \in S
  <2> HIDE DEF S
  <2> QED BY <1>2
<1>4. PICK k \in S : TableKind(registry, a, s) = InsertionOrder[k]
  BY <1>3 DEF TableKind
<1>5. a \in registry[InsertionOrder[k]] /\ s \in TableSlots(InsertionOrder[k]) /\ k \in 1..4
  BY <1>1, <1>4 DEF Inserters
<1>6. InsertionOrder[k] \in Kinds
  BY <1>5, KindsInOrder DEF Kinds
<1> QED BY <1>4, <1>5, <1>6

\* A change is of a contract that is registered as what the change says it is.
LEMMA ChangeIsOfRegistered ==
  ASSUME NEW e, NEW c \in MapStateDiff(e)
  PROVE  c.contract \in Kinds /\ c.address \in registry[c.contract]
<1>1. PICK w \in DOMAIN e : InTable(registry, w[1], w[2]) /\ c = Change(registry, w, e[w])
  BY DEF MapStateDiff
<1>2. c.contract = TableKind(registry, w[1], w[2]) /\ c.address = w[1]
  BY <1>1 DEF Change
<1> QED BY <1>1, <1>2, KindIsOfRegistered

-----------------------------------------------------------------------------
\* The scanner among the contracts.

LEMMA ScannedBegins == ScannedInit => ScanInv
BY ScanBegins DEF ScannedInit

LEMMA ScannedNextKeepsScan == ScanInv /\ [ScannedNext]_scannedVars => ScanInv'
<1> SUFFICES ASSUME ScanInv, [ScannedNext]_scannedVars
             PROVE  ScanInv'
  OBVIOUS
<1>1. ASSUME UNCHANGED scannerVars PROVE ScanInv'
  <2>1. UNCHANGED scanVars /\ blocks' = blocks /\ proofs' = proofs
    BY <1>1 DEF scannerVars, scanVars
  <2>2. ProofsInBlocks'
    BY <2>1, SameChain DEF ScanInv, citreaVars
  <2>3. Grown
    BY <2>1 DEF Grown, Extends, ScanInv, ProofsInBlocks
  <2> QED BY <2>1, <2>2, <2>3, GrowthKeepsScan
<1>2. CASE Transact
  BY <1>1, <1>2 DEF Transact
<1>3. CASE Prove
  <2>1. CloseBatch(Storage, View) /\ UNCHANGED scanVars
    BY <1>3 DEF Prove, CloseBatch
  <2>2. ProofsInBlocks
    BY DEF ScanInv
  <2> QED BY <2>1, <2>2, CloseKeepsBlocks, GrowthKeepsScan
<1>4. CASE Mine
  <2>1. MineBlock /\ UNCHANGED scanVars
    BY <1>4 DEF Mine, MineBlock
  <2>2. ProofsInBlocks
    BY DEF ScanInv
  <2> QED BY <2>1, <2>2, MineKeepsBlocks, GrowthKeepsScan
<1>5. CASE ScanOn
  BY <1>5, QueryKeepsScan, QueryFailsKeepsScan DEF ScanOn, Scan
<1>6. CASE UNCHANGED scannedVars
  BY <1>1, <1>6 DEF scannedVars
<1> QED BY <1>2, <1>3, <1>4, <1>5, <1>6 DEF ScannedNext

\* What has been printed is what the node answered for the blocks asked for, block
\* after block (print_rpc_text, print_rpc_json), on a chain of proofs that only grows.
THEOREM ScanInductive == ScannedSpec => []ScanInv
BY ScannedBegins, ScannedNextKeepsScan, PTL DEF ScannedSpec

LEMMA ScanTypeCorrect == ScanInv => ScannerTypeOK
<1> SUFFICES ASSUME ScanInv PROVE ScannerTypeOK
  OBVIOUS
<1>1. DOMAIN registry = Kinds
  BY ScannedAssumption DEF ScanInv, ScanTypes
<1>2. height \in From..(To + 1) /\ failed \subseteq From..To /\ ahead \subseteq From..To
  BY RangeAssumption DEF ScanInv, ScanTypes
<1>3. ASSUME NEW r \in Listed(printed)
      PROVE  /\ r.block \in From..To /\ r.block \in 1..Len(blocks)
             /\ r.proof \in 1..Len(VerifiedProofs(r.block))
             /\ \A c \in r.changes : c.contract \in Kinds /\ c.address \in registry[c.contract]
  <2>1. IsReport(r)
    BY DEF Listed, ScanInv, PrintedReports
  <2>2. r.block \in From..To
    BY <2>1, <1>2, RangeAssumption DEF IsReport
  <2>3. \A c \in r.changes : c.contract \in Kinds /\ c.address \in registry[c.contract]
    BY <2>1, ChangeIsOfRegistered DEF IsReport
  <2> QED BY <2>1, <2>2, <2>3 DEF IsReport
<1> QED BY <1>1, <1>2, <1>3 DEF ScannerTypeOK

\* The output has every proof that run_rpc_mode was given, once and in the order of the
\* chain, for any range, any blocks and whatever requests fail or come too early.
THEOREM AlwaysPrintedInChainOrder == ScannedSpec => []PrintedInChainOrder
<1>1. ScanInv => PrintedInChainOrder
  <2> SUFFICES ASSUME ScanInv PROVE PrintedInChainOrder
    OBVIOUS
  <2>1. \A h \in (From..(height - 1)) \ (failed \cup ahead) : \A k \in 1..Len(VerifiedProofs(h)) :
          \E r \in Listed(printed) : r.block = h /\ r.proof = k
    BY DEF ScanInv, EveryAnswerPrinted, IsPrinted, Listed
  <2> QED BY <2>1, ScanTypeCorrect DEF PrintedInChainOrder, ScanInv, PrintedReports, Follows
<1> QED BY <1>1, ScanInductive, PTL

\* In the table of the contracts of a kind, f is the field of slot s and of no other.
Names(kind, s, f) ==
  /\ s \in TableSlots(kind)
  /\ DecodeSlot(kind, s) = f
  /\ \A x \in TableSlots(kind) : DecodeSlot(kind, x) = f => x = s

LEMMA InstitutionTable ==
  /\ NamedSlots["Institution"] = [n \in (0..8) \ {7} |->
     CASE n = 0 -> "InstitutionName"          [] n = 1 -> "InstitutionAdmin"
       [] n = 2 -> "InstitutionDeployer"      [] n = 3 -> "InstitutionInscriptionId"
       [] n = 4 -> "InstitutionRuneId"        [] n = 5 -> "InstitutionBtcPubkey"
       [] n = 6 -> "InstitutionMembersLength" [] n = 8 -> "InstitutionProcessesLength"]
  /\ NamedArrays["Institution"] = [n \in {6, 8} |-> IF n = 6 THEN "InstitutionMemberElement"
                                                    ELSE "InstitutionProcessElement"]
  /\ LastSlot["Institution"] = 8 /\ ArraySlots["Institution"] = {6, 8}
BY DEF NamedSlots, NamedArrays, LastSlot, ArraySlots

LEMMA InstanceTable ==
  /\ NamedSlots["ProcessInstance"] = [n \in 0..5 |->
     CASE n = 0 -> "InstanceTemplate"         [] n = 1 -> "InstanceCreator"
       [] n = 2 -> "InstanceCurrentStepIndex" [] n = 3 -> "InstanceTotalSteps"
       [] n = 4 -> "InstanceCompleted"        [] n = 5 -> "InstanceCreatedAt"]
  /\ DOMAIN NamedArrays["ProcessInstance"] = {}
  /\ LastSlot["ProcessInstance"] = 6 /\ ArraySlots["ProcessInstance"] = {}
BY DEF NamedSlots, NamedArrays, LastSlot, ArraySlots

LEMMA InstitutionVariablesNamed ==
  ASSUME NEW n \in {1, 5, 6, 8}, NEW f, f = Field(NamedSlots["Institution"][n], 0)
  PROVE  Names("Institution", Plain(n), f)
<1>1. Plain(n) \in TableSlots("Institution")
  BY InstitutionTable DEF TableSlots
<1>2. DecodeSlot("Institution", Plain(n)) = f
  BY InstitutionTable DEF DecodeSlot, Plain, Slot, Field
<1>3. ASSUME NEW x \in TableSlots("Institution"), DecodeSlot("Institution", x) = f
      PROVE  x = Plain(n)
  BY <1>3, InstitutionTable
     DEF TableSlots, DecodeSlot, Plain, Element, Slot, Field, UnknownSlot
<1> QED BY <1>1, <1>2, <1>3 DEF Names

LEMMA InstitutionElementsNamed ==
  ASSUME NEW n \in {6, 8}, NEW k \in 0..(TableElements - 1),
         NEW f, f = Field(NamedArrays["Institution"][n], k)
  PROVE  Names("Institution", Element(n, k), f)
<1>1. Element(n, k) \in TableSlots("Institution")
  BY InstitutionTable DEF TableSlots
<1>2. DecodeSlot("Institution", Element(n, k)) = f
  BY InstitutionTable, LayoutAssumption DEF DecodeSlot, Element, Slot, Field
<1>3. ASSUME NEW x \in TableSlots("Institution"), DecodeSlot("Institution", x) = f
      PROVE  x = Element(n, k)
  BY <1>3, InstitutionTable, LayoutAssumption
     DEF TableSlots, DecodeSlot, Plain, Element, Slot, Field, UnknownSlot
<1> QED BY <1>1, <1>2, <1>3 DEF Names

LEMMA InstanceVariablesNamed ==
  ASSUME NEW n \in {0, 2, 3, 4}, NEW f, f = Field(NamedSlots["ProcessInstance"][n], 0)
  PROVE  Names("ProcessInstance", Plain(n), f)
<1>1. Plain(n) \in TableSlots("ProcessInstance")
  BY InstanceTable DEF TableSlots
<1>2. DecodeSlot("ProcessInstance", Plain(n)) = f
  BY InstanceTable DEF DecodeSlot, Plain, Slot, Field
<1>3. ASSUME NEW x \in TableSlots("ProcessInstance"), DecodeSlot("ProcessInstance", x) = f
      PROVE  x = Plain(n)
  BY <1>3, InstanceTable
     DEF TableSlots, DecodeSlot, Plain, Element, Mapped, Slot, Field, UnknownSlot
<1> QED BY <1>1, <1>2, <1>3 DEF Names

LEMMA InstanceStepsNamed ==
  ASSUME NEW k \in 0..(TableSteps - 1)
  PROVE  Names("ProcessInstance", Mapped(6, k), Field("InstanceStepState", k))
<1>1. Mapped(6, k) \in TableSlots("ProcessInstance")
  BY DEF TableSlots
<1>2. DecodeSlot("ProcessInstance", Mapped(6, k)) = Field("InstanceStepState", k)
  BY InstanceTable, LayoutAssumption DEF DecodeSlot, Mapped, Slot, Field
<1>3. ASSUME NEW x \in TableSlots("ProcessInstance"),
             DecodeSlot("ProcessInstance", x) = Field("InstanceStepState", k)
      PROVE  x = Mapped(6, k)
  BY <1>3, InstanceTable, LayoutAssumption
     DEF TableSlots, DecodeSlot, Plain, Element, Mapped, Slot, Field, UnknownSlot
<1> QED BY <1>1, <1>2, <1>3 DEF Names

\* The address of a contract is in the table as that of a contract of its kind.
LEMMA TableOfInstitution ==
  ASSUME NEW r \in Registries, NEW a \in r["Institution"], NEW s
  PROVE  /\ InTable(r, a, s) <=> s \in TableSlots("Institution")
         /\ InTable(r, a, s) => TableKind(r, a, s) = "Institution"
<1>1. a \notin r["BINSTDeployer"] /\ a \notin r["ProcessTemplate"] /\ a \notin r["ProcessInstance"]
  BY ScannedAssumption
<1>2. Inserters(r, a, s) = IF s \in TableSlots("Institution") THEN {2} ELSE {}
  <2>1. ASSUME NEW k \in 1..4
        PROVE  a \in r[InsertionOrder[k]] <=> k = 2
    <3>1. k = 1 \/ k = 2 \/ k = 3 \/ k = 4
      OBVIOUS
    <3> QED BY <1>1, <3>1, KindsInOrder
  <2> QED BY <2>1, KindsInOrder DEF Inserters
<1>3. (CHOOSE k \in {2} : \A j \in {2} : j <= k) = 2
  OBVIOUS
<1> QED BY <1>2, <1>3, KindsInOrder DEF InTable, TableKind

LEMMA TableOfInstance ==
  ASSUME NEW r \in Registries, NEW a \in r["ProcessInstance"], NEW s
  PROVE  /\ InTable(r, a, s) <=> s \in TableSlots("ProcessInstance")
         /\ InTable(r, a, s) => TableKind(r, a, s) = "ProcessInstance"
<1>1. a \notin r["BINSTDeployer"] /\ a \notin r["ProcessTemplate"] /\ a \notin r["Institution"]
  BY ScannedAssumption
<1>2. Inserters(r, a, s) = IF s \in TableSlots("ProcessInstance") THEN {4} ELSE {}
  <2>1. ASSUME NEW k \in 1..4
        PROVE  a \in r[InsertionOrder[k]] <=> k = 4
    <3>1. k = 1 \/ k = 2 \/ k = 3 \/ k = 4
      OBVIOUS
    <3> QED BY <1>1, <3>1, KindsInOrder
  <2> QED BY <2>1, KindsInOrder DEF Inserters
<1>3. (CHOOSE k \in {4} : \A j \in {4} : j <= k) = 4
  OBVIOUS
<1> QED BY <1>2, <1>3, KindsInOrder DEF InTable, TableKind

\* The changes of a field in a state diff, and what they say.
LEMMA FieldChanges ==
  ASSUME registry \in Registries, NEW kind \in {"Institution", "ProcessInstance"},
         NEW a \in registry[kind], NEW s, NEW f, Names(kind, s, f),
         NEW e, \A w \in DOMAIN e : w = <<w[1], w[2]>>
  PROVE  LET changes == {c \in MapStateDiff(e) : c.address = a /\ c.field = f} IN
         /\ <<a, s>> \notin DOMAIN e => changes = {}
         /\ <<a, s>> \in DOMAIN e => /\ changes # {}
                                     /\ \A c \in changes : /\ c.contract = kind
                                                           /\ c.decoded = DecodeValue(f, e[<<a, s>>])
<1>1. ASSUME NEW x
      PROVE  /\ InTable(registry, a, x) <=> x \in TableSlots(kind)
             /\ InTable(registry, a, x) => TableKind(registry, a, x) = kind
  BY TableOfInstitution, TableOfInstance
<1>2. ASSUME NEW c \in MapStateDiff(e), c.address = a, c.field = f
      PROVE  /\ <<a, s>> \in DOMAIN e /\ c.contract = kind
             /\ c.decoded = DecodeValue(f, e[<<a, s>>])
  <2>1. PICK w \in DOMAIN e : InTable(registry, w[1], w[2]) /\ c = Change(registry, w, e[w])
    BY DEF MapStateDiff
  <2>2. w[1] = a /\ DecodeSlot(TableKind(registry, w[1], w[2]), w[2]) = f
        /\ c.contract = TableKind(registry, w[1], w[2]) /\ c.decoded = DecodeValue(f, e[w])
    BY <1>2, <2>1 DEF Change
  <2>3. w[2] = s
    BY <1>1, <2>1, <2>2 DEF Names
  <2>4. w = <<a, s>>
    BY <2>1, <2>2, <2>3
  <2> QED BY <1>1, <2>1, <2>2, <2>4
<1>3. ASSUME <<a, s>> \in DOMAIN e
      PROVE  \E c \in MapStateDiff(e) : c.address = a /\ c.field = f
  <2>1. InTable(registry, a, s) /\ TableKind(registry, a, s) = kind /\ DecodeSlot(kind, s) = f
    BY <1>1 DEF Names
  <2>2. <<a, s>>[1] = a /\ <<a, s>>[2] = s
    OBVIOUS
  <2>3. Change(registry, <<a, s>>, e[<<a, s>>]) \in MapStateDiff(e)
    BY <1>3, <2>1, <2>2 DEF MapStateDiff
  <2>4. /\ Change(registry, <<a, s>>, e[<<a, s>>]).address = a
        /\ Change(registry, <<a, s>>, e[<<a, s>>]).field = f
    BY <2>1, <2>2 DEF Change
  <2> QED BY <2>3, <2>4
<1> QED BY <1>2, <1>3

-----------------------------------------------------------------------------
\* The storage that the state diffs tell of.

\* A set of natural numbers has a smallest one.
LEMMA NatMin ==
  ASSUME NEW S \in SUBSET Nat, S # {}
  PROVE  \E n \in S : \A m \in S : n <= m
<1> DEFINE T == {1..n : n \in S}
<1>1. T \subseteq FiniteSubsetsOf(Nat) /\ T # {}
  <2>1. ASSUME NEW n \in S PROVE 1..n \subseteq Nat /\ IsFiniteSet(1..n)
    BY FS_Interval
  <2> QED BY <2>1 DEF FiniteSubsetsOf
<1>2. IsWellFoundedOn(StrictSubsetOrdering(Nat), FiniteSubsetsOf(Nat))
  BY FS_StrictSubsetOrderingWellFounded
<1>3. PICK t \in T : \A u \in T : ~(<<u, t>> \in StrictSubsetOrdering(Nat))
  <2> HIDE DEF T
  <2> QED BY <1>1, <1>2, WFMin
<1>4. PICK n \in S : t = 1..n
  OBVIOUS
<1>5. \A m \in S : n <= m
  <2> SUFFICES ASSUME NEW m \in S, m < n PROVE FALSE
    OBVIOUS
  <2>1. 1..m \subseteq 1..n /\ 1..m # 1..n
    <3>1. n \in 1..n /\ n \notin 1..m
      OBVIOUS
    <3> QED BY <3>1
  <2>2. <<1..m, t>> \in StrictSubsetOrdering(Nat)
    BY <2>1, <1>4 DEF StrictSubsetOrdering
  <2> QED BY <2>2, <1>3
<1> QED BY <1>5

\* What is recorded with each batch: its entries are the words that changed, and words
\* are pairs of an address and a slot.
BatchesRecorded ==
  /\ Len(proofs) \in Nat
  /\ \A n \in 1..Len(proofs) :
       /\ proofs[n].entries = StateDiff(StorageAt(n - 1), StorageAt(n))
       /\ \A w \in DOMAIN StorageAt(n) : w = <<w[1], w[2]>>

\* Word w is the same at the ends of batches m and n.
SameWord(w, m, n) ==
  /\ w \in DOMAIN StorageAt(m) <=> w \in DOMAIN StorageAt(n)
  /\ w \in DOMAIN StorageAt(m) => StorageAt(m)[w] = StorageAt(n)[w]

\* An entry has the new value of a word that was changed.
LEMMA EntryTells ==
  ASSUME BatchesRecorded, NEW n \in 1..Len(proofs), NEW w
  PROVE  /\ w \in DOMAIN proofs[n].entries <=> ~SameWord(w, n - 1, n)
         /\ w \in DOMAIN proofs[n].entries =>
              proofs[n].entries[w] =
                IF w \in DOMAIN StorageAt(n) THEN Some(StorageAt(n)[w]) ELSE None
<1>1. PICK old, new : old = StorageAt(n - 1) /\ new = StorageAt(n)
  OBVIOUS
<1>2. proofs[n].entries = StateDiff(old, new)
  BY <1>1 DEF BatchesRecorded
<1>3. w \in DOMAIN StateDiff(old, new)
        <=> ~ /\ w \in DOMAIN old <=> w \in DOMAIN new
              /\ w \in DOMAIN old => old[w] = new[w]
  BY DEF StateDiff
<1>4. w \in DOMAIN StateDiff(old, new) =>
        StateDiff(old, new)[w] = IF w \in DOMAIN new THEN Some(new[w]) ELSE None
  BY DEF StateDiff
<1> QED BY <1>1, <1>2, <1>3, <1>4 DEF SameWord

LEMMA EntriesArePairs ==
  ASSUME BatchesRecorded, NEW n \in 1..Len(proofs), NEW w \in DOMAIN proofs[n].entries
  PROVE  w = <<w[1], w[2]>>
<1>1. w \in DOMAIN StorageAt(n - 1) \cup DOMAIN StorageAt(n)
  <2>1. ~SameWord(w, n - 1, n)
    BY EntryTells
  <2> QED BY <2>1 DEF SameWord
<1>2. CASE w \in DOMAIN StorageAt(n)
  BY <1>2 DEF BatchesRecorded
<1>3. CASE w \in DOMAIN StorageAt(n - 1) /\ n # 1
  <2>1. n - 1 \in 1..Len(proofs)
    BY <1>3 DEF BatchesRecorded
  <2> QED BY <1>3, <2>1 DEF BatchesRecorded
<1>4. CASE w \in DOMAIN StorageAt(n - 1) /\ n = 1
  <2>1. DOMAIN StorageAt(n - 1) = {}
    BY <1>4 DEF StorageAt
  <2> QED BY <1>4, <2>1
<1> QED BY <1>1, <1>2, <1>3, <1>4

\* The last entry for a word among the first batches has its value at their end.
LEMMA LastEntryHolds ==
  ASSUME BatchesRecorded, NEW N \in 0..Len(proofs), NEW w
  PROVE  \/ /\ w \notin DOMAIN StorageAt(N)
            /\ \A n \in 1..N : w \notin DOMAIN proofs[n].entries
         \/ \E d \in 1..N :
              /\ w \in DOMAIN proofs[d].entries
              /\ \A n \in 1..N : w \in DOMAIN proofs[n].entries => n <= d
              /\ proofs[d].entries[w] =
                   IF w \in DOMAIN StorageAt(N) THEN Some(StorageAt(N)[w]) ELSE None
<1> DEFINE D == {d \in 0..N : \A j \in d..N : SameWord(w, j, N)}
<1>0. N \in Nat /\ Len(proofs) \in Nat /\ 1..N \subseteq 1..Len(proofs)
  BY DEF BatchesRecorded
<1>1. N \in D
  BY <1>0 DEF SameWord
<1>2. PICK d \in D : \A k \in D : d <= k
  <2>1. D \in SUBSET Nat
    OBVIOUS
  <2> HIDE DEF D
  <2> QED BY <1>1, <2>1, NatMin
<1>3. d \in 0..N /\ \A j \in d..N : SameWord(w, j, N)
  OBVIOUS
<1>4. \A n \in 1..N : n > d => w \notin DOMAIN proofs[n].entries
  <2> SUFFICES ASSUME NEW n \in 1..N, n > d PROVE w \notin DOMAIN proofs[n].entries
    OBVIOUS
  <2>1. n \in d..N /\ n - 1 \in d..N
    BY <1>0, <1>3
  <2>2. SameWord(w, n, N) /\ SameWord(w, n - 1, N)
    BY <1>3, <2>1
  <2>3. SameWord(w, n - 1, n)
    BY <2>2 DEF SameWord
  <2> QED BY <1>0, <2>3, EntryTells
<1>5. CASE d = 0
  <2>1. w \notin DOMAIN StorageAt(0)
    BY DEF StorageAt
  <2>2. SameWord(w, 0, N)
    BY <1>0, <1>3, <1>5
  <2>3. w \notin DOMAIN StorageAt(N)
    BY <2>1, <2>2 DEF SameWord
  <2> QED BY <1>4, <1>5, <2>3
<1>6. CASE d # 0
  <2>1. d \in 1..N /\ d - 1 \in 0..N /\ ~(d <= d - 1)
    BY <1>0, <1>3, <1>6
  <2>2. ~SameWord(w, d - 1, N)
    <3>1. d - 1 \notin D
      <4> HIDE DEF D
      <4> QED BY <1>2, <2>1
    <3>2. PICK j \in (d - 1)..N : ~SameWord(w, j, N)
      BY <2>1, <3>1
    <3>3. j = d - 1
      BY <1>0, <1>3, <2>1, <3>2
    <3> QED BY <3>2, <3>3
  <2>3. SameWord(w, d, N)
    BY <1>0, <1>3
  <2>4. ~SameWord(w, d - 1, d)
    BY <2>2, <2>3 DEF SameWord
  <2>5. /\ w \in DOMAIN proofs[d].entries
        /\ proofs[d].entries[w] =
             IF w \in DOMAIN StorageAt(d) THEN Some(StorageAt(d)[w]) ELSE None
    BY <1>0, <2>1, <2>4, EntryTells
  <2>6. proofs[d].entries[w] =
          IF w \in DOMAIN StorageAt(N) THEN Some(StorageAt(N)[w]) ELSE None
    BY <2>3, <2>5 DEF SameWord
  <2>7. \A n \in 1..N : w \in DOMAIN proofs[n].entries => n <= d
    BY <1>0, <1>3, <1>4
  <2> QED BY <2>1, <2>5, <2>6, <2>7
<1> QED BY <1>5, <1>6

-----------------------------------------------------------------------------
\* What was printed last.

\* What a reader of a scan without a gap knows: the first proofs of all.
LEMMA PrintedAreProofs ==
  ASSUME ScanInv, NoGap
  PROVE  /\ Len(printed) \in 0..Len(proofs)
         /\ \A n \in 1..Len(printed) :
              /\ printed[n].changes = MapStateDiff(proofs[n].entries)
              /\ VerifiedProofs(printed[n].block)[printed[n].proof] = proofs[n]
<1>1. ProofsInBlocks /\ PrintedReports /\ FirstProofsPrinted
  BY DEF ScanInv
<1>2. /\ height - 1 <= Len(blocks) /\ Len(printed) = ProofsUpTo(height - 1)
      /\ \A n \in 1..Len(printed) : NumberOf(printed[n].block, printed[n].proof) = n
  BY <1>1 DEF FirstProofsPrinted
<1>3. height - 1 \in 0..Len(blocks) /\ Len(blocks) \in 0..Len(blocks) /\ Len(blocks) \in Nat
  BY <1>1, <1>2, RangeAssumption DEF NoGap, ScanInv, ScanTypes, ProofsInBlocks
<1>4. ProofsUpTo(height - 1) <= ProofsUpTo(Len(blocks)) /\ ProofsUpTo(Len(blocks)) <= Len(proofs)
  BY <1>1, <1>2, <1>3 DEF ProofsInBlocks
<1>5. Len(printed) \in Nat /\ Len(proofs) \in Nat /\ ProofsUpTo(Len(blocks)) \in Nat
  BY <1>1, <1>3 DEF PrintedReports, ProofsInBlocks, ProofsUpTo
<1>6. Len(printed) \in 0..Len(proofs)
  BY <1>2, <1>4, <1>5
<1>7. ASSUME NEW n \in 1..Len(printed)
      PROVE  /\ printed[n].changes = MapStateDiff(proofs[n].entries)
             /\ VerifiedProofs(printed[n].block)[printed[n].proof] = proofs[n]
  <2>1. IsReport(printed[n]) /\ NumberOf(printed[n].block, printed[n].proof) = n
    BY <1>1, <1>2 DEF PrintedReports
  <2>2. ProofsOfBlock(printed[n].block)
    BY <1>1, <2>1, BlocksHaveProofs DEF IsReport
  <2> QED BY <2>1, <2>2 DEF IsReport, ProofsOfBlock
<1> QED BY <1>6, <1>7

\* The last value printed for a field is what its word was at the end of the last
\* batch whose proof was printed.
LEMMA LatestIsStored ==
  ASSUME ScanInv, BatchesRecorded, NoGap,
         NEW kind \in {"Institution", "ProcessInstance"}, NEW a \in registry[kind],
         NEW s, NEW f, Names(kind, s, f), NEW st, st = StorageAt(Len(printed))
  PROVE  Latest(a, f) = IF <<a, s>> \in DOMAIN st
                        THEN DecodeRaw(FieldType(f.name), st[<<a, s>>]) ELSE Deleted
<1> DEFINE N       == Len(printed)
           w       == <<a, s>>
           changes == [n \in 1..Len(printed) |->
                         {c \in printed[n].changes : c.address = a /\ c.field = f}]
           with    == {n \in 1..Len(printed) : changes[n] # {}}
<1>1. N \in 0..Len(proofs) /\ N \in Nat /\ Len(proofs) \in Nat
      /\ \A n \in 1..N : printed[n].changes = MapStateDiff(proofs[n].entries)
  BY PrintedAreProofs DEF BatchesRecorded
<1>2. ASSUME NEW n \in 1..N
      PROVE  /\ n \in with <=> w \in DOMAIN proofs[n].entries
             /\ \A c \in changes[n] : c.decoded = DecodeValue(f, proofs[n].entries[w])
  <2>1. n \in 1..Len(proofs)
    BY <1>1
  <2>2. \A x \in DOMAIN proofs[n].entries : x = <<x[1], x[2]>>
    BY <2>1, EntriesArePairs
  <2>3. registry \in Registries
    BY DEF ScanInv, ScanTypes
  <2>4. changes[n] = {c \in MapStateDiff(proofs[n].entries) : c.address = a /\ c.field = f}
    BY <1>1
  <2> HIDE DEF changes
  <2>5. PICK e : e = proofs[n].entries
    OBVIOUS
  <2>6. PICK cs : cs = {c \in MapStateDiff(e) : c.address = a /\ c.field = f}
    OBVIOUS
  <2>7. /\ <<a, s>> \notin DOMAIN e => cs = {}
        /\ <<a, s>> \in DOMAIN e => /\ cs # {}
                                    /\ \A c \in cs : c.decoded = DecodeValue(f, e[<<a, s>>])
    BY <2>2, <2>3, <2>5, <2>6, FieldChanges
  <2>8. changes[n] = cs /\ w = <<a, s>>
    BY <2>4, <2>5, <2>6
  <2> QED BY <2>5, <2>7, <2>8
<1>3. Latest(a, f) = IF with = {} THEN Deleted
                     ELSE (CHOOSE c \in changes[CHOOSE n \in with : \A m \in with : m <= n] : TRUE).decoded
  BY DEF Latest
<1>4. \A n \in with : n \in 1..N /\ changes[n] # {}
  OBVIOUS
<1> HIDE DEF changes, with
<1>5. CASE w \notin DOMAIN StorageAt(N) /\ \A n \in 1..N : w \notin DOMAIN proofs[n].entries
  <2>1. with = {}
    BY <1>2, <1>4, <1>5
  <2> QED BY <1>3, <1>5, <2>1
<1>6. ASSUME NEW d \in 1..N, w \in DOMAIN proofs[d].entries,
             \A n \in 1..N : w \in DOMAIN proofs[n].entries => n <= d,
             proofs[d].entries[w] = IF w \in DOMAIN StorageAt(N) THEN Some(StorageAt(N)[w]) ELSE None
      PROVE  Latest(a, f) = IF w \in DOMAIN st
                            THEN DecodeRaw(FieldType(f.name), st[w]) ELSE Deleted
  <2>1. d \in with /\ \A m \in with : m <= d
    BY <1>2, <1>4, <1>6
  <2>2. (CHOOSE n \in with : \A m \in with : m <= n) = d
    <3>1. PICK x : x = CHOOSE n \in with : \A m \in with : m <= n
      OBVIOUS
    <3>2. x \in with /\ \A m \in with : m <= x
      BY <2>1, <3>1
    <3>3. x <= d /\ d <= x /\ x \in Nat /\ d \in Nat
      BY <1>1, <1>4, <2>1, <3>2
    <3> QED BY <3>1, <3>3
  <2>3. (CHOOSE c \in changes[d] : TRUE) \in changes[d]
    BY <1>4, <2>1
  <2>4. Latest(a, f) = DecodeValue(f, proofs[d].entries[w])
    BY <1>2, <1>3, <2>1, <2>2, <2>3
  <2>5. DecodeValue(f, None) = Deleted
    BY DEF DecodeValue
  <2>6. ASSUME NEW v PROVE DecodeValue(f, Some(v)) = DecodeRaw(FieldType(f.name), v)
    BY DEF DecodeValue, Some, None
  <2> QED BY <1>6, <2>4, <2>5, <2>6
<1>7. \/ /\ w \notin DOMAIN StorageAt(N)
         /\ \A n \in 1..N : w \notin DOMAIN proofs[n].entries
      \/ \E d \in 1..N :
           /\ w \in DOMAIN proofs[d].entries
           /\ \A n \in 1..N : w \in DOMAIN proofs[n].entries => n <= d
           /\ proofs[d].entries[w] =
                IF w \in DOMAIN StorageAt(N) THEN Some(StorageAt(N)[w]) ELSE None
  BY <1>1, LastEntryHolds
<1> QED BY <1>5, <1>6, <1>7

-----------------------------------------------------------------------------
\* What the storage of the contracts says.

\* An institution without administrator was not constructed: nothing is bound to it
\* and it has no process.
UnboundUntilConstructed ==
  \A i \in Institutions :
    admin[i] = ZeroAddress => btcPubkey[i] = Unset /\ processes[i] = <<>>

\* Word w of storage st is value, or zero unless here.
WordIs(st, w, here, value) == (w \in DOMAIN st <=> here) /\ (here => st[w] = value)

\* The words of an array, at least those that are in the table.
ArrayIs(st, i, n, array) ==
  /\ WordIs(st, <<i, Plain(n)>>, array # <<>>, Len(array))
  /\ \A k \in 1..TableElements :
       WordIs(st, <<i, Element(n, k - 1)>>, k <= Len(array), array[k])

\* Storage st has what the getters of institution i answer, v.
InstitutionStored(st, i, v) ==
  /\ WordIs(st, <<i, Plain(1)>>, v.admin # ZeroAddress, v.admin)
  /\ WordIs(st, <<i, Plain(5)>>, v.btcPubkey # Unset, v.btcPubkey)
  /\ ArrayIs(st, i, 6, v.members)
  /\ ArrayIs(st, i, 8, v.processes)

InstanceStored(st, p, v) ==
  /\ WordIs(st, <<p, Plain(0)>>, v.template # ZeroAddress, v.template)
  /\ WordIs(st, <<p, Plain(2)>>, v.currentStepIndex # 0, v.currentStepIndex)
  /\ WordIs(st, <<p, Plain(3)>>, v.template # ZeroAddress, v.totalSteps)
  /\ WordIs(st, <<p, Plain(4)>>, v.completed, TRUE)
  /\ \A k \in Index : WordIs(st, <<p, Mapped(6, k)>>, v.steps[k].status # "Pending",
                             StepWord(v.steps[k]))
  /\ \A k : <<p, Mapped(6, k)>> \in DOMAIN st => k \in Index

\* The getters of an instance answer what its invariant says.
InstanceTells(v) ==
  /\ v.totalSteps \in Index /\ v.completed \in BOOLEAN
  /\ \A k \in Index : v.steps[k].status \in StepStatus /\ v.steps[k].actor \in Address
  /\ v.completed =>
       /\ v.template # ZeroAddress
       /\ \A k \in Index : k < v.totalSteps => v.steps[k].status = "Completed"

ViewIs(st, view) ==
  /\ \A i \in Institutions : InstitutionStored(st, i, view.institutions[i])
  /\ \A p \in Instances : /\ InstanceStored(st, p, view.instances[p])
                          /\ InstanceTells(view.instances[p])

\* From storage old to storage new no step that was executed is forgotten, and a
\* completed one is what it was.
StepsKept(old, new) ==
  \A p \in Instances, k \in Index :
    LET w == <<p, Mapped(6, k)>> IN
    w \in DOMAIN old =>
      w \in DOMAIN new /\ (old[w].status = "Completed" => new[w] = old[w])

StepsOnlyGrow ==
  /\ \A m, n \in 1..Len(proofs) : m <= n => StepsKept(StorageAt(m), StorageAt(n))
  /\ \A n \in 1..Len(proofs) : StepsKept(StorageAt(n), Storage)

BatchesTell ==
  /\ BatchesRecorded
  /\ \A n \in 1..Len(proofs) : ViewIs(StorageAt(n), proofs[n].view)

ScannedInv ==
  /\ InstitutionInv /\ UnboundUntilConstructed /\ InstanceInv
  /\ ScanInv
  /\ BatchesTell /\ StepsOnlyGrow

LEMMA StorageWords ==
  /\ \A w \in DOMAIN Storage : w = <<w[1], w[2]>>
  /\ \A i \in Institutions : \A s :
       /\ <<i, s>> \in DOMAIN Storage <=> s \in InstitutionSlots(i)
       /\ s \in InstitutionSlots(i) => Storage[<<i, s>>] = InstitutionWord(i, s)
  /\ \A p \in Instances : \A s :
       /\ <<p, s>> \in DOMAIN Storage <=> s \in InstanceSlots(p)
       /\ s \in InstanceSlots(p) => Storage[<<p, s>>] = InstanceWord(p, s)
<1> DEFINE ofInstitutions == UNION {{<<i, s>> : s \in InstitutionSlots(i)} : i \in Institutions}
           ofInstances    == UNION {{<<p, s>> : s \in InstanceSlots(p)} : p \in Instances}
<1>1. /\ DOMAIN Storage = ofInstitutions \cup ofInstances
      /\ \A w \in ofInstitutions \cup ofInstances :
           Storage[w] = IF w[1] \in Institutions THEN InstitutionWord(w[1], w[2])
                                                 ELSE InstanceWord(w[1], w[2])
  BY DEF Storage
<1>2. \A w \in ofInstitutions : w = <<w[1], w[2]>> /\ w[1] \in Institutions
                                /\ w[2] \in InstitutionSlots(w[1])
  OBVIOUS
<1>3. \A w \in ofInstances : w = <<w[1], w[2]>> /\ w[1] \in Instances
                             /\ w[2] \in InstanceSlots(w[1])
  OBVIOUS
<1>4. \A i \in Institutions : \A s : s \in InstitutionSlots(i) => <<i, s>> \in ofInstitutions
  OBVIOUS
<1>5. \A p \in Instances : \A s : s \in InstanceSlots(p) => <<p, s>> \in ofInstances
  OBVIOUS
<1>6. \A a, s : <<a, s>>[1] = a /\ <<a, s>>[2] = s
  OBVIOUS
<1>7. \A p \in Instances : p \notin Institutions
  BY ScannedAssumption
<1> HIDE DEF ofInstitutions, ofInstances
<1>8. \A w \in DOMAIN Storage : w = <<w[1], w[2]>>
  BY <1>1, <1>2, <1>3
<1>9. ASSUME NEW i \in Institutions, NEW s
      PROVE  /\ <<i, s>> \in DOMAIN Storage <=> s \in InstitutionSlots(i)
             /\ s \in InstitutionSlots(i) => Storage[<<i, s>>] = InstitutionWord(i, s)
  BY <1>1, <1>2, <1>3, <1>4, <1>6, <1>7
<1>10. ASSUME NEW p \in Instances, NEW s
       PROVE  /\ <<p, s>> \in DOMAIN Storage <=> s \in InstanceSlots(p)
              /\ s \in InstanceSlots(p) => Storage[<<p, s>>] = InstanceWord(p, s)
  BY <1>1, <1>2, <1>3, <1>5, <1>6, <1>7
<1> QED BY <1>8, <1>9, <1>10

\* Slots are told apart by area, number and key.
LEMMA SlotsDiffer ==
  \A a, b, n, m, k, j : Slot(a, n, k) = Slot(b, m, j) <=> a = b /\ n = m /\ k = j
BY DEF Slot

LEMMA SlotParts ==
  \A a, n, k : Slot(a, n, k).area = a /\ Slot(a, n, k).at = n /\ Slot(a, n, k).key = k
BY DEF Slot

\* The slots of an institution, one at a time.
LEMMA InstitutionSlot ==
  ASSUME InstitutionInv, UnboundUntilConstructed, NEW i \in Institutions
  PROVE  /\ Plain(1) \in InstitutionSlots(i) <=> admin[i] # ZeroAddress
         /\ Plain(5) \in InstitutionSlots(i) <=> btcPubkey[i] # Unset
         /\ Plain(6) \in InstitutionSlots(i) <=> members[i] # <<>>
         /\ Plain(8) \in InstitutionSlots(i) <=> processes[i] # <<>>
         /\ \A k \in Nat : /\ Element(6, k) \in InstitutionSlots(i) <=> k < Len(members[i])
                           /\ Element(8, k) \in InstitutionSlots(i) <=> k < Len(processes[i])
<1>1. members[i] \in Seq(Accounts) /\ processes[i] \in Seq(Templates)
  BY DEF InstitutionInv, TypeOK
<1>2. CASE admin[i] = ZeroAddress
  <2>1. InstitutionSlots(i) = {} /\ members[i] = <<>> /\ processes[i] = <<>> /\ btcPubkey[i] = Unset
    BY <1>2 DEF InstitutionSlots, InstitutionInv, AdminIsMember, UnboundUntilConstructed
  <2>2. Len(members[i]) = 0 /\ Len(processes[i]) = 0
    BY <2>1
  <2> QED BY <1>2, <2>1, <2>2
<1>3. CASE admin[i] # ZeroAddress
  <2>1. members[i] # <<>>
    <3>1. admin[i] \in Listed(members[i])
      BY <1>3 DEF InstitutionInv, AdminIsMember
    <3> QED BY <3>1 DEF Listed
  <2> DEFINE slots == {Plain(0), Plain(1), Plain(2), Plain(6)}
                        \cup {Plain(3) : x \in {inscriptionId[i]} \ {Unset}}
                        \cup {Plain(4) : x \in {runeId[i]} \ {Unset}}
                        \cup {Plain(5) : x \in {btcPubkey[i]} \ {Unset}}
                        \cup {Plain(8) : x \in Listed(processes[i])}
                        \cup {Element(6, k - 1) : k \in 1..Len(members[i])}
                        \cup {Element(8, k - 1) : k \in 1..Len(processes[i])}
                        \cup {Mapped(7, a) : a \in {b \in Address : isMember[i][b]}}
  <2>2. InstitutionSlots(i) = slots
    BY <1>3 DEF InstitutionSlots
  <2>3. Plain(1) \in slots /\ Plain(6) \in slots
    OBVIOUS
  <2>4. Plain(5) \in slots <=> btcPubkey[i] # Unset
    BY SlotsDiffer DEF Plain, Element, Mapped
  <2>5. Plain(8) \in slots <=> processes[i] # <<>>
    <3>1. Listed(processes[i]) # {} <=> processes[i] # <<>>
      <4>1. CASE processes[i] = <<>>
        BY <4>1 DEF Listed
      <4>2. CASE processes[i] # <<>>
        <5>1. 1 \in 1..Len(processes[i])
          BY <1>1, <4>2
        <5> QED BY <4>2, <5>1 DEF Listed
      <4> QED BY <4>1, <4>2
    <3> QED BY <3>1, SlotsDiffer DEF Plain, Element, Mapped
  <2>6. ASSUME NEW k \in Nat PROVE Element(6, k) \in slots <=> k < Len(members[i])
    <3>1. Element(6, k) \in slots <=> \E j \in 1..Len(members[i]) : j - 1 = k
      BY SlotsDiffer DEF Plain, Element, Mapped
    <3>2. (\E j \in 1..Len(members[i]) : j - 1 = k) <=> k + 1 \in 1..Len(members[i])
      BY <1>1
    <3>3. k + 1 \in 1..Len(members[i]) <=> k < Len(members[i])
      BY <1>1
    <3> HIDE DEF slots
    <3> QED BY <3>1, <3>2, <3>3
  <2>7. ASSUME NEW k \in Nat PROVE Element(8, k) \in slots <=> k < Len(processes[i])
    <3>1. Element(8, k) \in slots <=> \E j \in 1..Len(processes[i]) : j - 1 = k
      BY SlotsDiffer DEF Plain, Element, Mapped
    <3>2. (\E j \in 1..Len(processes[i]) : j - 1 = k) <=> k + 1 \in 1..Len(processes[i])
      BY <1>1
    <3>3. k + 1 \in 1..Len(processes[i]) <=> k < Len(processes[i])
      BY <1>1
    <3> HIDE DEF slots
    <3> QED BY <3>1, <3>2, <3>3
  <2> HIDE DEF slots
  <2> QED BY <1>3, <2>1, <2>2, <2>3, <2>4, <2>5, <2>6, <2>7
<1> QED BY <1>2, <1>3

LEMMA InstitutionWords ==
  ASSUME NEW i
  PROVE  /\ InstitutionWord(i, Plain(1)) = admin[i]
         /\ InstitutionWord(i, Plain(5)) = btcPubkey[i]
         /\ InstitutionWord(i, Plain(6)) = Len(members[i])
         /\ InstitutionWord(i, Plain(8)) = Len(processes[i])
         /\ \A k \in Nat : /\ InstitutionWord(i, Element(6, k)) = members[i][k + 1]
                           /\ InstitutionWord(i, Element(8, k)) = processes[i][k + 1]
<1>1. \A n : Plain(n).area = "plain" /\ Plain(n).at = n
  BY SlotParts DEF Plain
<1>2. \A n, k : Element(n, k).area = "element" /\ Element(n, k).at = n /\ Element(n, k).key = k
  BY SlotParts DEF Element
<1>3. ASSUME NEW s, s.area = "plain"
      PROVE  /\ s.at = 1 => InstitutionWord(i, s) = admin[i]
             /\ s.at = 5 => InstitutionWord(i, s) = btcPubkey[i]
             /\ s.at = 6 => InstitutionWord(i, s) = Len(members[i])
             /\ s.at = 8 => InstitutionWord(i, s) = Len(processes[i])
  <2>1. s.at = 1 => InstitutionWord(i, s) = admin[i]
    BY ONLY <1>3, SMT DEF InstitutionWord
  <2>2. s.at = 5 => InstitutionWord(i, s) = btcPubkey[i]
    BY ONLY <1>3, SMT DEF InstitutionWord
  <2>3. s.at = 6 => InstitutionWord(i, s) = Len(members[i])
    BY ONLY <1>3, SMT DEF InstitutionWord
  <2>4. s.at = 8 => InstitutionWord(i, s) = Len(processes[i])
    BY ONLY <1>3, SMT DEF InstitutionWord
  <2> QED BY <2>1, <2>2, <2>3, <2>4
<1>4. ASSUME NEW s, s.area = "element"
      PROVE  /\ s.at = 6 => InstitutionWord(i, s) = members[i][s.key + 1]
             /\ s.at = 8 => InstitutionWord(i, s) = processes[i][s.key + 1]
  BY ONLY <1>4 DEF InstitutionWord
<1> QED BY <1>1, <1>2, <1>3, <1>4

LEMMA InstitutionIsStored ==
  ASSUME InstitutionInv, UnboundUntilConstructed, NEW i \in Institutions
  PROVE  InstitutionStored(Storage, i, View.institutions[i])
<1>1. PICK v : v = View.institutions[i]
  OBVIOUS
<1>2. v.admin = admin[i] /\ v.members = members[i] /\ v.processes = processes[i]
      /\ v.btcPubkey = btcPubkey[i]
  BY <1>1 DEF View
<1>3. \A s : /\ <<i, s>> \in DOMAIN Storage <=> s \in InstitutionSlots(i)
             /\ s \in InstitutionSlots(i) => Storage[<<i, s>>] = InstitutionWord(i, s)
  BY StorageWords
<1>4. WordIs(Storage, <<i, Plain(1)>>, v.admin # ZeroAddress, v.admin)
  BY <1>2, <1>3, InstitutionSlot, InstitutionWords DEF WordIs
<1>5. WordIs(Storage, <<i, Plain(5)>>, v.btcPubkey # Unset, v.btcPubkey)
  BY <1>2, <1>3, InstitutionSlot, InstitutionWords DEF WordIs
<1>6. ArrayIs(Storage, i, 6, v.members)
  <2>1. WordIs(Storage, <<i, Plain(6)>>, v.members # <<>>, Len(v.members))
    BY <1>2, <1>3, InstitutionSlot, InstitutionWords DEF WordIs
  <2>2. ASSUME NEW k \in 1..TableElements
        PROVE  WordIs(Storage, <<i, Element(6, k - 1)>>, k <= Len(v.members), v.members[k])
    <3>1. PICK j : j = k - 1
      OBVIOUS
    <3>2. j \in Nat /\ j + 1 = k /\ (j < Len(members[i]) <=> k <= Len(members[i]))
      BY <3>1, LayoutAssumption DEF InstitutionInv, TypeOK
    <3>3. WordIs(Storage, <<i, Element(6, j)>>, j < Len(members[i]), members[i][j + 1])
      BY <1>3, <3>2, InstitutionSlot, InstitutionWords DEF WordIs
    <3> QED BY <1>2, <3>1, <3>2, <3>3 DEF WordIs
  <2> QED BY <2>1, <2>2 DEF ArrayIs
<1>7. ArrayIs(Storage, i, 8, v.processes)
  <2>1. WordIs(Storage, <<i, Plain(8)>>, v.processes # <<>>, Len(v.processes))
    BY <1>2, <1>3, InstitutionSlot, InstitutionWords DEF WordIs
  <2>2. ASSUME NEW k \in 1..TableElements
        PROVE  WordIs(Storage, <<i, Element(8, k - 1)>>, k <= Len(v.processes), v.processes[k])
    <3>1. PICK j : j = k - 1
      OBVIOUS
    <3>2. j \in Nat /\ j + 1 = k /\ (j < Len(processes[i]) <=> k <= Len(processes[i]))
      BY <3>1, LayoutAssumption DEF InstitutionInv, TypeOK
    <3>3. WordIs(Storage, <<i, Element(8, j)>>, j < Len(processes[i]), processes[i][j + 1])
      BY <1>3, <3>2, InstitutionSlot, InstitutionWords DEF WordIs
    <3> QED BY <1>2, <3>1, <3>2, <3>3 DEF WordIs
  <2> QED BY <2>1, <2>2 DEF ArrayIs
<1> QED BY <1>1, <1>4, <1>5, <1>6, <1>7 DEF InstitutionStored

\* The slots of an instance, one at a time.
LEMMA InstanceSlot ==
  ASSUME InstanceInv, NEW p \in Instances
  PROVE  /\ Plain(0) \in InstanceSlots(p) <=> template[p] # ZeroAddress
         /\ Plain(2) \in InstanceSlots(p) <=> currentStepIndex[p] # 0
         /\ Plain(3) \in InstanceSlots(p) <=> template[p] # ZeroAddress
         /\ Plain(4) \in InstanceSlots(p) <=> completed[p]
         /\ \A k \in Index : Mapped(6, k) \in InstanceSlots(p)
                               <=> stepStates[p][k].status # "Pending"
         /\ \A k : Mapped(6, k) \in InstanceSlots(p) => k \in Index
<1>1. CASE template[p] = ZeroAddress
  <2>1. InstanceSlots(p) = {} /\ totalSteps[p] = 0 /\ stepStates[p] = [k \in Index |-> Blank]
    BY <1>1 DEF InstanceSlots, Deployed, InstanceInv, FreshIsZero
  <2>2. currentStepIndex[p] = 0 /\ ~completed[p]
    BY <1>1, <2>1, InstanceAssumption
       DEF InstanceInv, InstanceTypeOK, ProgressMatchesRecords, Deployed, Index
  <2>3. \A k \in Index : stepStates[p][k].status = "Pending"
    BY <2>1 DEF Blank
  <2> QED BY <1>1, <2>1, <2>2, <2>3
<1>2. CASE template[p] # ZeroAddress
  <2> DEFINE done  == {n \in Index : stepStates[p][n].status # "Pending"}
             fixed == {Plain(0), Plain(1), Plain(3), Plain(5)}
             index == {Plain(2) : n \in {currentStepIndex[p]} \ {0}}
             flag  == IF completed[p] THEN {Plain(4)} ELSE {}
             steps == {Slot(area, 6, k) : area \in {"mapped", "timestamp"}, k \in done}
  <2>1. InstanceSlots(p) = fixed \cup index \cup flag \cup steps
    BY <1>2 DEF InstanceSlots, Deployed
  <2>2. ASSUME NEW n \in 0..5
        PROVE  /\ Plain(n) \in fixed <=> n \in {0, 1, 3, 5}
               /\ Plain(n) \in index <=> n = 2 /\ currentStepIndex[p] # 0
               /\ Plain(n) \in flag <=> n = 4 /\ completed[p]
               /\ Plain(n) \notin steps
    <3> HIDE DEF done
    <3>1. Plain(n) \in fixed <=> n \in {0, 1, 3, 5}
      BY SlotsDiffer DEF Plain
    <3>2. Plain(n) \in index <=> n = 2 /\ currentStepIndex[p] # 0
      BY SlotsDiffer DEF Plain
    <3>3. Plain(n) \in flag <=> n = 4 /\ completed[p]
      BY SlotsDiffer DEF Plain
    <3>4. Plain(n) \notin steps
      BY SlotsDiffer DEF Plain
    <3> QED BY <3>1, <3>2, <3>3, <3>4
  <2>3. ASSUME NEW k
        PROVE  /\ Mapped(6, k) \notin fixed \cup index \cup flag
               /\ Mapped(6, k) \in steps <=> k \in done
    <3> HIDE DEF done
    <3>1. Mapped(6, k) \notin fixed \cup index \cup flag
      BY SlotsDiffer DEF Plain, Mapped
    <3>2. Mapped(6, k) \in steps <=> k \in done
      BY SlotsDiffer DEF Mapped
    <3> QED BY <3>1, <3>2
  <2> HIDE DEF fixed, index, flag, steps
  <2>4. \A n \in 0..5 : Plain(n) \in InstanceSlots(p) <=>
          \/ n \in {0, 1, 3, 5}
          \/ n = 2 /\ currentStepIndex[p] # 0
          \/ n = 4 /\ completed[p]
    BY <2>1, <2>2
  <2>5. \A k : Mapped(6, k) \in InstanceSlots(p) <=> k \in done
    BY <2>1, <2>3
  <2> QED BY <1>2, <2>4, <2>5
<1> QED BY <1>1, <1>2

LEMMA InstanceWords ==
  ASSUME NEW p
  PROVE  /\ InstanceWord(p, Plain(0)) = template[p]
         /\ InstanceWord(p, Plain(2)) = currentStepIndex[p]
         /\ InstanceWord(p, Plain(3)) = totalSteps[p]
         /\ InstanceWord(p, Plain(4)) = completed[p]
         /\ \A k : InstanceWord(p, Mapped(6, k)) = StepWord(stepStates[p][k])
<1>1. \A n : Plain(n).area = "plain" /\ Plain(n).at = n
  BY SlotParts DEF Plain
<1>2. \A k : Mapped(6, k).area = "mapped" /\ Mapped(6, k).key = k
  BY SlotParts DEF Mapped
<1>3. ASSUME NEW s, s.area = "plain"
      PROVE  /\ s.at = 0 => InstanceWord(p, s) = template[p]
             /\ s.at = 2 => InstanceWord(p, s) = currentStepIndex[p]
             /\ s.at = 3 => InstanceWord(p, s) = totalSteps[p]
             /\ s.at = 4 => InstanceWord(p, s) = completed[p]
  <2>1. s.at = 0 => InstanceWord(p, s) = template[p]
    BY ONLY <1>3, SMT DEF InstanceWord
  <2>2. s.at = 2 => InstanceWord(p, s) = currentStepIndex[p]
    BY ONLY <1>3, SMT DEF InstanceWord
  <2>3. s.at = 3 => InstanceWord(p, s) = totalSteps[p]
    BY ONLY <1>3, SMT DEF InstanceWord
  <2>4. s.at = 4 => InstanceWord(p, s) = completed[p]
    BY ONLY <1>3, SMT DEF InstanceWord
  <2> QED BY <2>1, <2>2, <2>3, <2>4
<1>4. ASSUME NEW s, s.area = "mapped"
      PROVE  InstanceWord(p, s) = StepWord(stepStates[p][s.key])
  BY ONLY <1>4 DEF InstanceWord
<1> QED BY <1>1, <1>2, <1>3, <1>4

LEMMA InstanceIsStored ==
  ASSUME InstanceInv, NEW p \in Instances
  PROVE  InstanceStored(Storage, p, View.instances[p])
<1>1. PICK v : v = View.instances[p]
  OBVIOUS
<1>2. /\ v.template = template[p] /\ v.totalSteps = totalSteps[p]
      /\ v.currentStepIndex = currentStepIndex[p]
      /\ v.completed = completed[p] /\ v.steps = stepStates[p]
  BY <1>1 DEF View
<1>3. \A s : /\ <<p, s>> \in DOMAIN Storage <=> s \in InstanceSlots(p)
             /\ s \in InstanceSlots(p) => Storage[<<p, s>>] = InstanceWord(p, s)
  BY StorageWords
<1>4. WordIs(Storage, <<p, Plain(0)>>, v.template # ZeroAddress, v.template)
  BY <1>2, <1>3, InstanceSlot, InstanceWords DEF WordIs
<1>5. WordIs(Storage, <<p, Plain(2)>>, v.currentStepIndex # 0, v.currentStepIndex)
  BY <1>2, <1>3, InstanceSlot, InstanceWords DEF WordIs
<1>6. WordIs(Storage, <<p, Plain(3)>>, v.template # ZeroAddress, v.totalSteps)
  BY <1>2, <1>3, InstanceSlot, InstanceWords DEF WordIs
<1>7. WordIs(Storage, <<p, Plain(4)>>, v.completed, TRUE)
  <2>1. completed[p] \in BOOLEAN
    BY DEF InstanceInv, InstanceTypeOK
  <2> QED BY <1>2, <1>3, <2>1, InstanceSlot, InstanceWords DEF WordIs
<1>8. ASSUME NEW k \in Index
      PROVE  WordIs(Storage, <<p, Mapped(6, k)>>, v.steps[k].status # "Pending",
                    StepWord(v.steps[k]))
  BY <1>2, <1>3, InstanceSlot, InstanceWords DEF WordIs
<1>9. \A k : <<p, Mapped(6, k)>> \in DOMAIN Storage => k \in Index
  BY <1>3, InstanceSlot
<1> QED BY <1>1, <1>4, <1>5, <1>6, <1>7, <1>8, <1>9 DEF InstanceStored

LEMMA InstanceAnswers ==
  ASSUME InstanceInv, NEW p \in Instances
  PROVE  InstanceTells(View.instances[p])
<1>1. PICK v : v = View.instances[p]
  OBVIOUS
<1>2. /\ v.template = template[p] /\ v.totalSteps = totalSteps[p]
      /\ v.completed = completed[p] /\ v.steps = stepStates[p]
  BY <1>1 DEF View
<1>3. /\ totalSteps[p] \in Index /\ completed[p] \in BOOLEAN
      /\ \A k \in Index : stepStates[p][k] \in StepState
  BY DEF InstanceInv, InstanceTypeOK
<1>4. ASSUME completed[p]
      PROVE  /\ template[p] # ZeroAddress
             /\ \A k \in Index : k < totalSteps[p] => stepStates[p][k].status = "Completed"
  BY <1>3, <1>4 DEF InstanceInv, ProgressMatchesRecords, Deployed
<1> QED BY <1>1, <1>2, <1>3, <1>4 DEF InstanceTells, StepState, Address

\* The storage has what the getters answer.
LEMMA ViewOfStorage ==
  InstitutionInv /\ UnboundUntilConstructed /\ InstanceInv => ViewIs(Storage, View)
BY InstitutionIsStored, InstanceIsStored, InstanceAnswers DEF ViewIs

-----------------------------------------------------------------------------
\* The contracts and the batches that are proven of them.

LEMMA InstitutionNextKeepsUnbound ==
  ASSUME InstitutionInv, UnboundUntilConstructed, InstitutionNext
  PROVE  UnboundUntilConstructed'
<1> PICK i \in Institutions, sender \in Accounts :
      \/ Construct(i, sender)
      \/ MembershipStep(i, sender)
      \/ BindingStep(i, sender)
      \/ \E t \in Templates : CreateProcess(i, sender, t)
  BY DEF InstitutionNext
<1>1. sender # ZeroAddress /\ admin \in [Institutions -> Address]
  BY AddressAssumption DEF InstitutionInv, TypeOK
<1>2. CASE Construct(i, sender)
  BY <1>1, <1>2 DEF Construct, bindingVars, processVars, UnboundUntilConstructed
<1>3. CASE MembershipStep(i, sender)
  <2>1. PICK m \in Address :
          AddMember(i, sender, m) \/ RemoveMember(i, sender, m) \/ TransferAdmin(i, sender, m)
    BY <1>3 DEF MembershipStep
  <2>2. CASE AddMember(i, sender, m) \/ RemoveMember(i, sender, m)
    BY <2>2 DEF AddMember, RemoveMember, bindingVars, processVars, UnboundUntilConstructed
  <2>3. CASE TransferAdmin(i, sender, m)
    BY <1>1, <2>3 DEF TransferAdmin, bindingVars, processVars, UnboundUntilConstructed
  <2> QED BY <2>1, <2>2, <2>3
<1>4. CASE BindingStep(i, sender)
  <2>1. admin[i] # ZeroAddress /\ admin' = admin /\ processes' = processes
    BY <1>1, <1>4 DEF BindingStep, SetInscriptionId, SetRuneId, SetBtcPubkey, OnlyAdmin,
                      membershipVars, processVars
  <2>2. \A j \in Institutions \ {i} : btcPubkey'[j] = btcPubkey[j]
    BY <1>4 DEF BindingStep, SetInscriptionId, SetRuneId, SetBtcPubkey, InstitutionInv, TypeOK
  <2> QED BY <2>1, <2>2 DEF UnboundUntilConstructed
<1>5. CASE \E t \in Templates : CreateProcess(i, sender, t)
  <2>1. admin[i] # ZeroAddress
    BY <1>1, <1>5, UndeployedHasNoMember DEF CreateProcess, OnlyMember, Address
  <2>2. admin' = admin /\ btcPubkey' = btcPubkey
        /\ \A j \in Institutions \ {i} : processes'[j] = processes[j]
    BY <1>5 DEF CreateProcess, membershipVars, bindingVars, InstitutionInv, TypeOK
  <2> QED BY <2>1, <2>2 DEF UnboundUntilConstructed
<1> QED BY <1>2, <1>3, <1>4, <1>5

ContractsInv == InstitutionInv /\ UnboundUntilConstructed /\ InstanceInv

LEMMA ContractsBegin == ScannedInit => ContractsInv
<1> SUFFICES ASSUME ScannedInit PROVE ContractsInv
  OBVIOUS
<1>1. UnboundUntilConstructed
  BY DEF ScannedInit, InstitutionInit, UnboundUntilConstructed
<1> QED BY <1>1, InstitutionBegins, InstanceBegins DEF ScannedInit, ContractsInv

LEMMA TransactKeepsContracts ==
  ASSUME ContractsInv, Transact
  PROVE  ContractsInv'
<1>1. CASE InstitutionNext /\ UNCHANGED instanceVars
  BY <1>1, InstitutionNextKeepsInv, InstitutionNextKeepsUnbound, InstanceNextKeepsInv
     DEF ContractsInv
<1>2. CASE InstanceNext /\ UNCHANGED institutionVars
  <2>1. UnboundUntilConstructed'
    BY <1>2 DEF institutionVars, ContractsInv, UnboundUntilConstructed
  <2> QED BY <1>2, <2>1, InstitutionNextKeepsInv, InstanceNextKeepsInv DEF ContractsInv
<1> QED BY <1>1, <1>2 DEF Transact

LEMMA ContractsStay == ContractsInv /\ UNCHANGED contractVars => ContractsInv'
<1> SUFFICES ASSUME ContractsInv, UNCHANGED contractVars PROVE ContractsInv'
  OBVIOUS
<1>1. UNCHANGED institutionVars /\ UNCHANGED instanceVars
  BY DEF contractVars
<1>2. UnboundUntilConstructed'
  BY <1>1 DEF institutionVars, ContractsInv, UnboundUntilConstructed
<1> QED BY <1>1, <1>2, InstitutionNextKeepsInv, InstanceNextKeepsInv DEF ContractsInv

\* An executed step keeps its record, except that a rejected one may be executed again.
LEMMA RecordsKept ==
  ASSUME InstanceInv, [InstanceNext]_instanceVars, NEW q \in Instances, NEW k \in Index,
         stepStates[q][k].status # "Pending"
  PROVE  /\ stepStates'[q][k].status # "Pending"
         /\ stepStates[q][k].status = "Completed" => stepStates'[q][k] = stepStates[q][k]
<1>1. CASE stepStates' = stepStates
  BY <1>1
<1>2. ASSUME NEW p \in Instances, NEW sender \in Accounts, InstanceStep(p, sender)
      PROVE  /\ stepStates'[q][k].status # "Pending"
             /\ stepStates[q][k].status = "Completed" => stepStates'[q][k] = stepStates[q][k]
  <2>1. PICK status \in StepStatus : Recorded(p, sender, status)
    BY <1>2, StepRecords
  <2>2. status # "Pending"
    BY <2>1 DEF Recorded
  <2> DEFINE e == [status |-> status, actor |-> sender, timestamp |-> now]
  <2>3. e.status # "Pending"
    BY <2>2
  <2> HIDE DEF e
  <2>4. /\ stepStates'[q][k] = IF q = p /\ k = currentStepIndex[p] THEN e ELSE stepStates[q][k]
        /\ stepStates[p][currentStepIndex[p]].status # "Completed"
    BY <2>1, RecordedWritesOneStep DEF e
  <2> QED BY <2>3, <2>4
<1>3. InstanceNext \/ UNCHANGED instanceVars
  OBVIOUS
<1> QED BY <1>1, <1>2, <1>3 DEF InstanceNext, NewInstance, Tick, instanceVars

StepsAreStored ==
  \A p \in Instances, k \in Index :
    WordIs(Storage, <<p, Mapped(6, k)>>, stepStates[p][k].status # "Pending",
           StepWord(stepStates[p][k]))

LEMMA StoredSteps == InstanceInv => StepsAreStored
<1> SUFFICES ASSUME InstanceInv, NEW p \in Instances, NEW k \in Index
             PROVE  WordIs(Storage, <<p, Mapped(6, k)>>, stepStates[p][k].status # "Pending",
                           StepWord(stepStates[p][k]))
  BY DEF StepsAreStored
<1>1. PICK v : v = View.instances[p]
  OBVIOUS
<1>2. v.steps = stepStates[p]
  BY <1>1 DEF View
<1> QED BY <1>1, <1>2, InstanceIsStored DEF InstanceStored

LEMMA StepsWillBeStored == InstanceInv' => StepsAreStored'
BY StoredSteps, PTL

LEMMA TransactKeepsSteps ==
  ASSUME InstanceInv, [InstanceNext]_instanceVars
  PROVE  StepsKept(Storage, Storage')
<1> SUFFICES ASSUME NEW p \in Instances, NEW k \in Index, NEW w, w = <<p, Mapped(6, k)>>,
                    w \in DOMAIN Storage
             PROVE  w \in DOMAIN Storage'
                    /\ (Storage[w].status = "Completed" => Storage'[w] = Storage[w])
  BY DEF StepsKept
<1>1. InstanceInv'
  BY InstanceNextKeepsInv
<1>2. stepStates[p][k].status # "Pending" /\ Storage[w] = StepWord(stepStates[p][k])
  BY StoredSteps DEF StepsAreStored, WordIs
<1>3. stepStates'[p][k].status # "Pending"
      => w \in DOMAIN Storage' /\ Storage'[w] = StepWord(stepStates'[p][k])
  BY <1>1, StepsWillBeStored DEF StepsAreStored, WordIs
<1>4. Storage[w].status = stepStates[p][k].status
  BY <1>2 DEF StepWord
<1> QED BY <1>2, <1>3, <1>4, RecordsKept

LEMMA StepsKeptOn ==
  ASSUME NEW a, NEW b, NEW c, StepsKept(a, b), StepsKept(b, c)
  PROVE  StepsKept(a, c)
<1> SUFFICES ASSUME NEW p \in Instances, NEW k \in Index, NEW w, w = <<p, Mapped(6, k)>>,
                    w \in DOMAIN a
             PROVE  w \in DOMAIN c /\ (a[w].status = "Completed" => c[w] = a[w])
  BY DEF StepsKept
<1>1. w \in DOMAIN b /\ (a[w].status = "Completed" => b[w] = a[w])
  BY DEF StepsKept
<1>2. w \in DOMAIN c /\ (b[w].status = "Completed" => c[w] = b[w])
  BY <1>1 DEF StepsKept
<1> QED BY <1>1, <1>2

LEMMA StepsKeptBySame == \A a : StepsKept(a, a)
BY DEF StepsKept

LEMMA ScannedInvBegins == ScannedInit => ScannedInv
<1> SUFFICES ASSUME ScannedInit PROVE ScannedInv
  OBVIOUS
<1>1. proofs = <<>> /\ Len(proofs) = 0
  BY DEF ScannedInit, ScannerInit
<1>2. BatchesTell /\ StepsOnlyGrow
  BY <1>1 DEF BatchesTell, BatchesRecorded, StepsOnlyGrow
<1> QED BY <1>2, ScannedBegins, ContractsBegin DEF ScannedInv, ContractsInv

\* A step that closes no batch and keeps the steps of the storage.
LEMMA NoBatchKeepsScannedInv ==
  ASSUME ScannedInv, ContractsInv', ScanInv', proofs' = proofs, StepsKept(Storage, Storage')
  PROVE  ScannedInv'
<1>1. \A n : StorageAt(n)' = StorageAt(n)
  BY DEF StorageAt
<1>2. BatchesTell'
  BY <1>1 DEF ScannedInv, BatchesTell, BatchesRecorded
<1>3. StepsOnlyGrow'
  <2>1. ASSUME NEW n \in 1..Len(proofs) PROVE StepsKept(StorageAt(n), Storage')
    <3>1. PICK a, b, c : a = StorageAt(n) /\ b = Storage /\ c = Storage'
      OBVIOUS
    <3>2. StepsKept(a, b) /\ StepsKept(b, c)
      BY <3>1 DEF ScannedInv, StepsOnlyGrow
    <3>3. StepsKept(a, c)
      BY <3>2, StepsKeptOn
    <3> QED BY <3>1, <3>3
  <2>2. \A m, n \in 1..Len(proofs) : m <= n => StepsKept(StorageAt(m), StorageAt(n))
    BY DEF ScannedInv, StepsOnlyGrow
  <2> QED BY <1>1, <2>1, <2>2 DEF StepsOnlyGrow
<1> QED BY <1>2, <1>3 DEF ScannedInv, ContractsInv

LEMMA SameContracts ==
  ASSUME UNCHANGED contractVars
  PROVE  Storage' = Storage /\ View' = View
<1>1. /\ admin' = admin /\ members' = members /\ isMember' = isMember /\ processes' = processes
      /\ inscriptionId' = inscriptionId /\ runeId' = runeId /\ btcPubkey' = btcPubkey
      /\ template' = template /\ creator' = creator /\ currentStepIndex' = currentStepIndex
      /\ totalSteps' = totalSteps /\ completed' = completed /\ createdAt' = createdAt
      /\ stepStates' = stepStates
  BY DEF contractVars, institutionVars, instanceVars
<1>2. View' = View
  BY <1>1 DEF View
<1>3. /\ \A i : InstitutionSlots(i)' = InstitutionSlots(i)
      /\ \A p : InstanceSlots(p)' = InstanceSlots(p)
  BY <1>1 DEF InstitutionSlots, InstanceSlots, Deployed
<1>4. /\ \A i, s : InstitutionWord(i, s)' = InstitutionWord(i, s)
      /\ \A p, s : InstanceWord(p, s)' = InstanceWord(p, s)
  BY <1>1 DEF InstitutionWord, InstanceWord
<1>5. Storage' = Storage
  BY <1>3, <1>4 DEF Storage
<1> QED BY <1>2, <1>5

LEMMA ProveKeepsScannedInv ==
  ASSUME ScannedInv, ContractsInv', ScanInv', Prove
  PROVE  ScannedInv'
<1>1. PICK st, v : st = Storage /\ v = View
  OBVIOUS
<1>2. Storage' = st /\ View' = v
  BY <1>1, SameContracts DEF Prove
<1> DEFINE N == Len(proofs)
<1>3. PICK e : /\ e = [entries |-> StateDiff(StorageAt(N), st), storage |-> st, view |-> v]
               /\ proofs' = Append(proofs, e)
  BY <1>1 DEF Prove, CloseBatch
<1>4. /\ N \in Nat /\ Len(proofs') = N + 1
      /\ \A n \in 1..N : proofs'[n] = proofs[n]
      /\ proofs'[N + 1] = e
  BY <1>3, Appended DEF ScannedInv, ScanInv, ProofsInBlocks
<1>5. /\ e.entries = StateDiff(StorageAt(N), st) /\ e.storage = st /\ e.view = v
  BY <1>3
<1>6. \A n \in 0..N : StorageAt(n)' = StorageAt(n)
  BY <1>4 DEF StorageAt
<1>7. \A n : n = N + 1 => StorageAt(n)' = st
  BY <1>4, <1>5 DEF StorageAt
<1>8. \A n \in 1..Len(proofs') : \/ n \in 1..N /\ n - 1 \in 0..N /\ n \in 0..N
                                 \/ n = N + 1 /\ n - 1 = N /\ N \in 0..N
  BY <1>4
<1>9. ViewIs(st, v) /\ \A w \in DOMAIN st : w = <<w[1], w[2]>>
  BY <1>1, ViewOfStorage, StorageWords DEF ScannedInv
<1> HIDE DEF N
<1>10. BatchesRecorded'
  <2>1. ASSUME NEW n \in 1..Len(proofs')
        PROVE  /\ proofs'[n].entries = StateDiff(StorageAt(n - 1)', StorageAt(n)')
               /\ \A w \in DOMAIN StorageAt(n)' : w = <<w[1], w[2]>>
    <3>1. CASE n \in 1..N /\ n - 1 \in 0..N /\ n \in 0..N
      BY <1>4, <1>6, <3>1 DEF ScannedInv, BatchesTell, BatchesRecorded, N
    <3>2. CASE n = N + 1 /\ n - 1 = N /\ N \in 0..N
      BY <1>4, <1>5, <1>6, <1>7, <1>9, <3>2
    <3> QED BY <1>8, <3>1, <3>2
  <2> QED BY <1>4, <2>1 DEF BatchesRecorded
<1>11. \A n \in 1..Len(proofs') : ViewIs(StorageAt(n)', proofs'[n].view)
  BY <1>4, <1>5, <1>6, <1>7, <1>8, <1>9 DEF ScannedInv, BatchesTell, N
<1>12. StepsOnlyGrow'
  <2>1. \A m, n \in 1..N : m <= n => StepsKept(StorageAt(m), StorageAt(n))
    BY DEF ScannedInv, StepsOnlyGrow, N
  <2>2. \A n \in 1..N : StepsKept(StorageAt(n), st)
    BY <1>1 DEF ScannedInv, StepsOnlyGrow, N
  <2>3. StepsKept(st, st)
    BY StepsKeptBySame
  <2>4. ASSUME NEW m \in 1..Len(proofs'), NEW n \in 1..Len(proofs'), m <= n
        PROVE  StepsKept(StorageAt(m)', StorageAt(n)')
    <3>1. CASE n \in 1..N
      <4>1. m \in 1..N /\ m \in 0..N /\ n \in 0..N
        BY <1>4, <2>4, <3>1
      <4> QED BY <1>6, <2>1, <2>4, <3>1, <4>1
    <3>2. CASE n = N + 1 /\ m \in 1..N
      <4>1. m \in 0..N
        BY <1>4, <3>2
      <4> QED BY <1>6, <1>7, <2>2, <3>2, <4>1
    <3>3. CASE n = N + 1 /\ m = N + 1
      BY <1>7, <2>3, <3>3
    <3> QED BY <1>8, <2>4, <3>1, <3>2, <3>3
  <2>5. \A n \in 1..Len(proofs') : StepsKept(StorageAt(n)', st)
    BY <1>6, <1>7, <1>8, <2>2, <2>3
  <2> QED BY <1>2, <2>4, <2>5 DEF StepsOnlyGrow
<1> QED BY <1>10, <1>11, <1>12 DEF ScannedInv, ContractsInv, BatchesTell

LEMMA ScannedNextKeepsInv == ScannedInv /\ [ScannedNext]_scannedVars => ScannedInv'
<1> SUFFICES ASSUME ScannedInv, [ScannedNext]_scannedVars
             PROVE  ScannedInv'
  OBVIOUS
<1>1. ScanInv' /\ ContractsInv
  BY ScannedNextKeepsScan DEF ScannedInv, ContractsInv
<1>2. CASE Transact
  <2>1. ContractsInv' /\ proofs' = proofs
    BY <1>1, <1>2, TransactKeepsContracts DEF Transact, scannerVars
  <2>2. InstanceInv /\ [InstanceNext]_instanceVars
    BY <1>2 DEF Transact, ScannedInv
  <2> QED BY <1>1, <2>1, <2>2, TransactKeepsSteps, NoBatchKeepsScannedInv
<1>3. CASE Prove
  BY <1>1, <1>3, ContractsStay, ProveKeepsScannedInv DEF Prove
<1>4. ASSUME UNCHANGED contractVars, proofs' = proofs PROVE ScannedInv'
  <2>1. ContractsInv'
    BY <1>1, <1>4, ContractsStay
  <2>2. StepsKept(Storage, Storage')
    <3>1. PICK a : a = Storage
      OBVIOUS
    <3> QED BY <1>4, <3>1, SameContracts, StepsKeptBySame
  <2> QED BY <1>1, <1>4, <2>1, <2>2, NoBatchKeepsScannedInv
<1>5. CASE Mine \/ ScanOn
  BY <1>4, <1>5 DEF Mine, MineBlock, ScanOn, Scan, QueryBlock, QueryFails, citreaVars
<1>6. CASE UNCHANGED scannedVars
  BY <1>4, <1>6 DEF scannedVars, scannerVars
<1> QED BY <1>2, <1>3, <1>5, <1>6 DEF ScannedNext

\* The inductive invariant: each proof has the difference of two storages of which it is
\* known what the contracts' getters answer, and no storage forgets an executed step.
THEOREM ScannedInductive == ScannedSpec => []ScannedInv
BY ScannedInvBegins, ScannedNextKeepsInv, PTL DEF ScannedSpec


-----------------------------------------------------------------------------
\* What a reader of the output knows.

LEMMA FieldTypes ==
  /\ FieldType("InstitutionAdmin") = "Address" /\ FieldType("InstitutionBtcPubkey") = "Bytes32"
  /\ FieldType("InstitutionMembersLength") = "Uint256"
  /\ FieldType("InstitutionProcessesLength") = "Uint256"
  /\ FieldType("InstitutionMemberElement") = "Address"
  /\ FieldType("InstitutionProcessElement") = "Address"
  /\ FieldType("InstanceTemplate") = "Address" /\ FieldType("InstanceTotalSteps") = "Uint256"
  /\ FieldType("InstanceCurrentStepIndex") = "Uint256"
  /\ FieldType("InstanceCompleted") = "Bool" /\ FieldType("InstanceStepState") = "StepState"
BY DEF FieldType

LEMMA FieldParts == \A n, k : Field(n, k).name = n /\ Field(n, k).index = k
BY DEF Field

LEMMA LatestTells ==
  ASSUME ScannedInv, NoGap,
         NEW kind \in {"Institution", "ProcessInstance"}, NEW a \in registry[kind],
         NEW s, NEW name, NEW k, Names(kind, s, Field(name, k)),
         NEW type, FieldType(name) = type
  PROVE  Latest(a, Field(name, k)) =
           IF <<a, s>> \in DOMAIN StorageAt(Len(printed))
           THEN DecodeRaw(type, StorageAt(Len(printed))[<<a, s>>]) ELSE Deleted
<1>1. PICK f, st : f = Field(name, k) /\ st = StorageAt(Len(printed))
  OBVIOUS
<1>2. f.name = name
  BY <1>1, FieldParts
<1>3. Latest(a, f) = IF <<a, s>> \in DOMAIN st
                     THEN DecodeRaw(FieldType(f.name), st[<<a, s>>]) ELSE Deleted
  BY <1>1, LatestIsStored DEF ScannedInv, BatchesTell
<1> QED BY <1>1, <1>2, <1>3

LEMMA LastViewStored ==
  ASSUME ScannedInv, NoGap, printed # <<>>
  PROVE  /\ ViewIs(StorageAt(Len(printed)), LastView)
         /\ registry["Institution"] \subseteq Institutions
         /\ registry["ProcessInstance"] \subseteq Instances
<1>1. Len(printed) \in 1..Len(proofs)
  <2>1. Len(printed) \in 0..Len(proofs)
    BY PrintedAreProofs DEF ScannedInv
  <2>2. Len(printed) # 0
    BY DEF ScannedInv, ScanInv, PrintedReports
  <2> QED BY <2>1, <2>2
<1>2. LastView = proofs[Len(printed)].view
  <2>1. Len(printed) \in 1..Len(printed)
    BY <1>1
  <2> QED BY <2>1, PrintedAreProofs DEF LastView, ScannedInv
<1> QED BY <1>1, <1>2, ScannedAssumption DEF ScannedInv, BatchesTell, ScanInv, ScanTypes

LEMMA LatestOfArray ==
  ASSUME ScannedInv, NoGap, NEW i \in registry["Institution"], NEW n \in {6, 8},
         NEW length, length = NamedSlots["Institution"][n],
         NEW element, element = NamedArrays["Institution"][n],
         NEW array, ArrayIs(StorageAt(Len(printed)), i, n, array)
  PROVE  LatestArray(i, length, element, array)
<1>1. FieldType(length) = "Uint256" /\ FieldType(element) = "Address"
  BY InstitutionTable, FieldTypes
<1>2. Latest(i, Field(length, 0)) =
        IF array = <<>> THEN Deleted ELSE DecodeRaw("Uint256", Len(array))
  <2>1. WordIs(StorageAt(Len(printed)), <<i, Plain(n)>>, array # <<>>, Len(array))
    BY DEF ArrayIs
  <2>2. Names("Institution", Plain(n), Field(length, 0))
    BY InstitutionVariablesNamed
  <2> QED BY <1>1, <2>1, <2>2, LatestTells DEF WordIs
<1>3. ASSUME NEW k \in 1..TableElements
      PROVE  Latest(i, Field(element, k - 1)) =
               IF k <= Len(array) THEN DecodeRaw("Address", array[k]) ELSE Deleted
  <2>1. PICK j : j = k - 1
    OBVIOUS
  <2>2. j \in 0..(TableElements - 1)
    BY <2>1, LayoutAssumption
  <2>3. WordIs(StorageAt(Len(printed)), <<i, Element(n, j)>>, k <= Len(array), array[k])
    BY <2>1 DEF ArrayIs
  <2>4. Names("Institution", Element(n, j), Field(element, j))
    BY <2>2, InstitutionElementsNamed
  <2>5. /\ k <= Len(array) => Latest(i, Field(element, j)) = DecodeRaw("Address", array[k])
        /\ ~(k <= Len(array)) => Latest(i, Field(element, j)) = Deleted
    BY <1>1, <2>3, <2>4, LatestTells DEF WordIs
  <2> QED BY <2>1, <2>5
<1> QED BY <1>2, <1>3 DEF LatestArray

LEMMA ReaderKnowsContract == ScannedInv => ReaderFollowsContract
<1> SUFFICES ASSUME ScannedInv, NoGap, printed # <<>>, NEW i \in registry["Institution"],
                    NEW v, v = LastView.institutions[i]
             PROVE  /\ Latest(i, Field("InstitutionAdmin", 0)) =
                         IF v.admin = ZeroAddress THEN Deleted
                         ELSE DecodeRaw("Address", v.admin)
                    /\ Latest(i, Field("InstitutionBtcPubkey", 0)) =
                         IF v.btcPubkey = Unset THEN Deleted
                         ELSE DecodeRaw("Bytes32", v.btcPubkey)
                    /\ LatestArray(i, "InstitutionMembersLength", "InstitutionMemberElement",
                                   v.members)
                    /\ LatestArray(i, "InstitutionProcessesLength", "InstitutionProcessElement",
                                   v.processes)
  BY DEF ReaderFollowsContract
<1>1. InstitutionStored(StorageAt(Len(printed)), i, v)
  BY LastViewStored DEF ViewIs
<1>2. /\ NamedSlots["Institution"][1] = "InstitutionAdmin"
      /\ NamedSlots["Institution"][5] = "InstitutionBtcPubkey"
      /\ NamedSlots["Institution"][6] = "InstitutionMembersLength"
      /\ NamedSlots["Institution"][8] = "InstitutionProcessesLength"
      /\ NamedArrays["Institution"][6] = "InstitutionMemberElement"
      /\ NamedArrays["Institution"][8] = "InstitutionProcessElement"
  BY InstitutionTable
<1>3. Latest(i, Field("InstitutionAdmin", 0)) =
        IF v.admin = ZeroAddress THEN Deleted ELSE DecodeRaw("Address", v.admin)
  <2>1. WordIs(StorageAt(Len(printed)), <<i, Plain(1)>>, v.admin # ZeroAddress, v.admin)
    BY <1>1 DEF InstitutionStored
  <2>2. Names("Institution", Plain(1), Field("InstitutionAdmin", 0))
    BY <1>2, InstitutionVariablesNamed
  <2> QED BY <2>1, <2>2, LatestTells, FieldTypes DEF WordIs
<1>4. Latest(i, Field("InstitutionBtcPubkey", 0)) =
        IF v.btcPubkey = Unset THEN Deleted ELSE DecodeRaw("Bytes32", v.btcPubkey)
  <2>1. WordIs(StorageAt(Len(printed)), <<i, Plain(5)>>, v.btcPubkey # Unset, v.btcPubkey)
    BY <1>1 DEF InstitutionStored
  <2>2. Names("Institution", Plain(5), Field("InstitutionBtcPubkey", 0))
    BY <1>2, InstitutionVariablesNamed
  <2> QED BY <2>1, <2>2, LatestTells, FieldTypes DEF WordIs
<1>5. ArrayIs(StorageAt(Len(printed)), i, 6, v.members)
      /\ ArrayIs(StorageAt(Len(printed)), i, 8, v.processes)
  BY <1>1 DEF InstitutionStored
<1>6. LatestArray(i, "InstitutionMembersLength", "InstitutionMemberElement", v.members)
  BY <1>2, <1>5, LatestOfArray
<1>7. LatestArray(i, "InstitutionProcessesLength", "InstitutionProcessElement", v.processes)
  BY <1>2, <1>5, LatestOfArray
<1> QED BY <1>3, <1>4, <1>6, <1>7

\* Whoever reads the changes that were printed of an institution (map_state_diff of every
\* proof, in order) knows its administrator, members, processes and key as the getters
\* answer them, for any transactions, batches and blocks.
THEOREM ReaderAlwaysFollowsContract == ScannedSpec => []ReaderFollowsContract
BY ReaderKnowsContract, ScannedInductive, PTL

LEMMA ReaderKnowsProcess == ScannedInv => ReaderFollowsProcess
<1> SUFFICES ASSUME ScannedInv, NoGap, printed # <<>>, NEW p \in registry["ProcessInstance"],
                    NEW v, v = LastView.instances[p], v.template # ZeroAddress
             PROVE  /\ Latest(p, Field("InstanceTemplate", 0)) = DecodeRaw("Address", v.template)
                    /\ Latest(p, Field("InstanceTotalSteps", 0)) =
                         DecodeRaw("Uint256", v.totalSteps)
                    /\ Latest(p, Field("InstanceCurrentStepIndex", 0)) =
                         IF v.currentStepIndex = 0 THEN Deleted
                         ELSE DecodeRaw("Uint256", v.currentStepIndex)
                    /\ Latest(p, Field("InstanceCompleted", 0)) =
                         IF v.completed THEN DecodeRaw("Bool", TRUE) ELSE Deleted
                    /\ \A k \in {n \in Index : n < TableSteps} :
                         Latest(p, Field("InstanceStepState", k)) =
                           IF v.steps[k].status = "Pending" THEN Deleted
                           ELSE DecodeRaw("StepState", StepWord(v.steps[k]))
  BY DEF ReaderFollowsProcess
<1>1. InstanceStored(StorageAt(Len(printed)), p, v) /\ InstanceTells(v)
  BY LastViewStored DEF ViewIs
<1>2. /\ NamedSlots["ProcessInstance"][0] = "InstanceTemplate"
      /\ NamedSlots["ProcessInstance"][2] = "InstanceCurrentStepIndex"
      /\ NamedSlots["ProcessInstance"][3] = "InstanceTotalSteps"
      /\ NamedSlots["ProcessInstance"][4] = "InstanceCompleted"
  BY InstanceTable
<1>3. Latest(p, Field("InstanceTemplate", 0)) = DecodeRaw("Address", v.template)
  <2>1. WordIs(StorageAt(Len(printed)), <<p, Plain(0)>>, v.template # ZeroAddress, v.template)
    BY <1>1 DEF InstanceStored
  <2>2. Names("ProcessInstance", Plain(0), Field("InstanceTemplate", 0))
    BY <1>2, InstanceVariablesNamed
  <2> QED BY <2>1, <2>2, LatestTells, FieldTypes DEF WordIs
<1>4. Latest(p, Field("InstanceTotalSteps", 0)) = DecodeRaw("Uint256", v.totalSteps)
  <2>1. WordIs(StorageAt(Len(printed)), <<p, Plain(3)>>, v.template # ZeroAddress, v.totalSteps)
    BY <1>1 DEF InstanceStored
  <2>2. Names("ProcessInstance", Plain(3), Field("InstanceTotalSteps", 0))
    BY <1>2, InstanceVariablesNamed
  <2> QED BY <2>1, <2>2, LatestTells, FieldTypes DEF WordIs
<1>5. Latest(p, Field("InstanceCurrentStepIndex", 0)) =
        IF v.currentStepIndex = 0 THEN Deleted ELSE DecodeRaw("Uint256", v.currentStepIndex)
  <2>1. WordIs(StorageAt(Len(printed)), <<p, Plain(2)>>, v.currentStepIndex # 0,
               v.currentStepIndex)
    BY <1>1 DEF InstanceStored
  <2>2. Names("ProcessInstance", Plain(2), Field("InstanceCurrentStepIndex", 0))
    BY <1>2, InstanceVariablesNamed
  <2> QED BY <2>1, <2>2, LatestTells, FieldTypes DEF WordIs
<1>6. Latest(p, Field("InstanceCompleted", 0)) =
        IF v.completed THEN DecodeRaw("Bool", TRUE) ELSE Deleted
  <2>1. WordIs(StorageAt(Len(printed)), <<p, Plain(4)>>, v.completed, TRUE)
    BY <1>1 DEF InstanceStored
  <2>2. Names("ProcessInstance", Plain(4), Field("InstanceCompleted", 0))
    BY <1>2, InstanceVariablesNamed
  <2> QED BY <2>1, <2>2, LatestTells, FieldTypes DEF WordIs
<1>7. ASSUME NEW k \in {n \in Index : n < TableSteps}
      PROVE  Latest(p, Field("InstanceStepState", k)) =
               IF v.steps[k].status = "Pending" THEN Deleted
               ELSE DecodeRaw("StepState", StepWord(v.steps[k]))
  <2>1. WordIs(StorageAt(Len(printed)), <<p, Mapped(6, k)>>, v.steps[k].status # "Pending",
               StepWord(v.steps[k]))
    BY <1>1 DEF InstanceStored
  <2>2. k \in 0..(TableSteps - 1)
    BY LayoutAssumption, InstanceAssumption DEF Index
  <2>3. Names("ProcessInstance", Mapped(6, k), Field("InstanceStepState", k))
    BY <2>2, InstanceStepsNamed
  <2> QED BY <2>1, <2>3, LatestTells, FieldTypes DEF WordIs
<1> QED BY <1>3, <1>4, <1>5, <1>6, <1>7

\* Whoever reads the changes that were printed of a process knows how far it is, who
\* signed off its steps and whether it is complete, as the getters answer it.
THEOREM ReaderAlwaysFollowsProcess == ScannedSpec => []ReaderFollowsProcess
BY ReaderKnowsProcess, ScannedInductive, PTL


\* Only the word of a step is named so.
LEMMA StepFieldIsMapped ==
  ASSUME NEW kind \in Kinds, NEW s, DecodeSlot(kind, s).name = "InstanceStepState"
  PROVE  /\ s.area = "mapped" /\ kind = "ProcessInstance" /\ s.at = 6
         /\ DecodeSlot(kind, s) = Field("InstanceStepState", s.key)
<1>1. CASE s.area = "plain" /\ s.at \in DOMAIN NamedSlots[kind]
  <2>1. NamedSlots[kind][s.at] = "InstanceStepState"
    BY <1>1, FieldParts DEF DecodeSlot
  <2>2. NamedSlots[kind][s.at] # "InstanceStepState"
    BY <1>1 DEF NamedSlots, Kinds
  <2> QED BY <2>1, <2>2
<1>2. CASE s.area = "element" /\ s.at \in DOMAIN NamedArrays[kind] /\ s.key < ArrayLimit
  <2>1. NamedArrays[kind][s.at] = "InstanceStepState"
    BY <1>2, FieldParts DEF DecodeSlot
  <2>2. NamedArrays[kind][s.at] # "InstanceStepState"
    BY <1>2 DEF NamedArrays, Kinds
  <2> QED BY <2>1, <2>2
<1>3. CASE s.area = "mapped" /\ kind = "ProcessInstance" /\ s.at = 6 /\ s.key < TableSteps
  BY <1>3 DEF DecodeSlot
<1>4. CASE ~ \/ s.area = "plain" /\ s.at \in DOMAIN NamedSlots[kind]
             \/ s.area = "element" /\ s.at \in DOMAIN NamedArrays[kind] /\ s.key < ArrayLimit
             \/ s.area = "mapped" /\ kind = "ProcessInstance" /\ s.at = 6 /\ s.key < TableSteps
  <2>1. DecodeSlot(kind, s) = UnknownSlot
    BY <1>4 DEF DecodeSlot
  <2> QED BY <2>1, FieldParts DEF UnknownSlot
<1> QED BY <1>1, <1>2, <1>3, <1>4

\* A change of a step is of a word of an instance.
LEMMA StepChange ==
  ASSUME ScanInv, BatchesRecorded, NEW n \in 1..Len(proofs),
         NEW c \in MapStateDiff(proofs[n].entries), c.field.name = "InstanceStepState"
  PROVE  \E p, k :
           /\ p \in Instances /\ c.address = p /\ c.field = Field("InstanceStepState", k)
           /\ <<p, Mapped(6, k)>> \in DOMAIN proofs[n].entries
           /\ c.decoded = DecodeValue(c.field, proofs[n].entries[<<p, Mapped(6, k)>>])
<1> DEFINE e == proofs[n].entries
<1>1. PICK w \in DOMAIN e : InTable(registry, w[1], w[2]) /\ c = Change(registry, w, e[w])
  BY DEF MapStateDiff
<1>2. PICK kind : kind = TableKind(registry, w[1], w[2])
  OBVIOUS
<1>3. /\ c.contract = kind /\ c.address = w[1] /\ c.field = DecodeSlot(kind, w[2])
      /\ c.decoded = DecodeValue(c.field, e[w])
  BY <1>1, <1>2 DEF Change
<1>4. w = <<w[1], w[2]>>
  BY EntriesArePairs
<1>5. kind = "ProcessInstance" /\ \E k : w[2] = Mapped(6, k) /\ c.field = Field("InstanceStepState", k)
  <2>1. kind \in Kinds /\ w[2] \in TableSlots(kind)
    BY <1>1, <1>2, KindIsOfRegistered
  <2>2. DecodeSlot(kind, w[2]).name = "InstanceStepState"
    BY <1>3
  <2>3. w[2].area = "mapped" /\ kind = "ProcessInstance" /\ w[2].at = 6
        /\ c.field = Field("InstanceStepState", w[2].key)
    BY <1>3, <2>1, <2>2, StepFieldIsMapped
  <2>4. w[2] = Mapped(6, w[2].key)
    BY <2>1, <2>3 DEF TableSlots, Plain, Element, Mapped, Slot
  <2> QED BY <2>3, <2>4
<1>6. w[1] \in Instances
  BY <1>3, <1>5, ChangeIsOfRegistered, ScannedAssumption DEF ScanInv, ScanTypes
<1> QED BY <1>3, <1>4, <1>5, <1>6

\* A report is of a proof, and a later report of a later one.
LEMMA ReportsInOrder ==
  ASSUME ScanInv
  PROVE  \E number \in [1..Len(printed) -> 1..Len(proofs)] :
           /\ \A n \in 1..Len(printed) :
                printed[n].changes = MapStateDiff(proofs[number[n]].entries)
           /\ \A m, n \in 1..Len(printed) : m < n => number[m] < number[n]
<1> DEFINE number == [n \in 1..Len(printed) |-> NumberOf(printed[n].block, printed[n].proof)]
<1>1. ASSUME NEW n \in 1..Len(printed)
      PROVE  /\ NumberOf(printed[n].block, printed[n].proof) \in 1..Len(proofs)
             /\ printed[n].changes =
                  MapStateDiff(proofs[NumberOf(printed[n].block, printed[n].proof)].entries)
  <2>1. PICK b, k : b = printed[n].block /\ k = printed[n].proof
    OBVIOUS
  <2>2. /\ b \in 1..Len(blocks) /\ k \in 1..Len(VerifiedProofs(b))
        /\ printed[n].changes = MapStateDiff(VerifiedProofs(b)[k].entries)
    BY <2>1 DEF ScanInv, PrintedReports, IsReport
  <2>3. ProofsOfBlock(b)
    BY <2>2, BlocksHaveProofs DEF ScanInv
  <2>4. NumberOf(b, k) \in 1..Len(proofs) /\ VerifiedProofs(b)[k] = proofs[NumberOf(b, k)]
    BY <2>2, <2>3 DEF ProofsOfBlock
  <2> QED BY <2>1, <2>2, <2>4
<1>2. ASSUME NEW m \in 1..Len(printed), NEW n \in 1..Len(printed), m < n
      PROVE  NumberOf(printed[m].block, printed[m].proof)
               < NumberOf(printed[n].block, printed[n].proof)
  <2>1. PICK b, k, g, j : /\ b = printed[m].block /\ k = printed[m].proof
                          /\ g = printed[n].block /\ j = printed[n].proof
    OBVIOUS
  <2>2. /\ b \in 1..Len(blocks) /\ k \in 1..Len(VerifiedProofs(b))
        /\ g \in 1..Len(blocks) /\ j \in 1..Len(VerifiedProofs(g))
        /\ b < g \/ (b = g /\ k < j)
    BY <1>2, <2>1 DEF ScanInv, PrintedReports, IsReport, Follows
  <2>3. ProofsOfBlock(b) /\ ProofsOfBlock(g)
    BY <2>2, BlocksHaveProofs DEF ScanInv
  <2>4. ASSUME b = g, k < j PROVE NumberOf(b, k) < NumberOf(g, j)
    BY <2>2, <2>3, <2>4 DEF ProofsOfBlock, NumberOf
  <2>5. ASSUME b < g PROVE NumberOf(b, k) < NumberOf(g, j)
    <3>1. b \in 0..Len(blocks) /\ g - 1 \in 0..Len(blocks) /\ b <= g - 1
      BY <2>2, <2>5
    <3>2. ProofsUpTo(b) <= ProofsUpTo(g - 1)
      BY <3>1 DEF ScanInv, ProofsInBlocks
    <3>3. PICK x, y, z : x = ProofsUpTo(b - 1) /\ y = ProofsUpTo(b) /\ z = ProofsUpTo(g - 1)
      OBVIOUS
    <3>4. x \in Nat /\ y \in Nat /\ z \in Nat /\ k \in 1..(y - x) /\ j \in Nat \ {0}
      BY <2>2, <2>3, <3>3 DEF ProofsOfBlock
    <3>5. x + k < z + j
      BY <3>2, <3>3, <3>4
    <3> QED BY <3>3, <3>5 DEF NumberOf
  <2> QED BY <2>1, <2>2, <2>4, <2>5
<1>3. /\ number \in [1..Len(printed) -> 1..Len(proofs)]
      /\ \A n \in 1..Len(printed) :
           number[n] = NumberOf(printed[n].block, printed[n].proof)
  BY <1>1
<1> HIDE DEF number
<1> QED BY <1>1, <1>2, <1>3


\* The step that word w of the storage at the end of batch n has.
LEMMA StoredStep ==
  ASSUME ScannedInv, NEW n \in 1..Len(proofs), NEW p \in Instances, NEW k,
         NEW word, <<p, Mapped(6, k)>> \in DOMAIN StorageAt(n),
         word = StorageAt(n)[<<p, Mapped(6, k)>>]
  PROVE  /\ k \in Index
         /\ DecodeRaw("StepState", word) # Deleted
         /\ DecodeRaw("StepState", word).value[1].status = word.status
<1>1. PICK st, v : st = StorageAt(n) /\ v = proofs[n].view.instances[p]
  OBVIOUS
<1>2. InstanceStored(st, p, v) /\ InstanceTells(v)
  BY <1>1 DEF ScannedInv, BatchesTell, ViewIs
<1>3. k \in Index
  BY <1>1, <1>2 DEF InstanceStored
<1>4. word = StepWord(v.steps[k])
  BY <1>1, <1>2, <1>3 DEF InstanceStored, WordIs
<1>5. v.steps[k].status \in StepStatus /\ v.steps[k].actor \in Address
  BY <1>2, <1>3 DEF InstanceTells
<1>6. DecodeRaw("StepState", word) = Decoded("StepState", word)
  BY <1>4, <1>5, DecodingAssumption DEF StepWord
<1>7. Decoded("StepState", word) # Deleted /\ Decoded("StepState", word).value[1] = word
  BY DEF Decoded, Deleted, Some
<1> QED BY <1>3, <1>6, <1>7

\* A word of a step that is changed after batch m was not that of a completed step by then.
LEMMA ChangedAfter ==
  ASSUME ScannedInv, NEW m \in 1..Len(proofs), NEW n \in 1..Len(proofs), m < n,
         NEW p \in Instances, NEW k, NEW w, w = <<p, Mapped(6, k)>>,
         w \in DOMAIN proofs[m].entries, w \in DOMAIN proofs[n].entries
  PROVE  /\ w \in DOMAIN StorageAt(m)
         /\ StorageAt(m)[w].status # "Completed"
<1>1. ~SameWord(w, m - 1, m) /\ ~SameWord(w, n - 1, n)
  BY EntryTells DEF ScannedInv, BatchesTell
<1>2. PICK l, o : l = m - 1 /\ o = n - 1
  OBVIOUS
<1>3. /\ l \in Nat /\ m \in Nat /\ l <= m /\ (l = 0 \/ l \in 1..Len(proofs))
      /\ o \in 1..Len(proofs) /\ m <= o /\ o <= n /\ m <= n
  BY <1>2 DEF ScannedInv, BatchesTell, BatchesRecorded
<1>4. PICK before, at, after, new :
        before = StorageAt(l) /\ at = StorageAt(m) /\ after = StorageAt(o) /\ new = StorageAt(n)
  OBVIOUS
<1>5. w \in DOMAIN before \cup DOMAIN at
  BY <1>1, <1>2, <1>4 DEF SameWord
<1>6. l = 0 => DOMAIN before = {}
  BY <1>4 DEF StorageAt
<1>7. w \in DOMAIN before \/ w \in DOMAIN at => k \in Index
  BY <1>3, <1>4, <1>6, StoredStep
<1>8. StepsKept(at, after) /\ StepsKept(at, new) /\ (l # 0 => StepsKept(before, at))
  BY <1>3, <1>4 DEF ScannedInv, StepsOnlyGrow
<1>9. w \in DOMAIN at /\ k \in Index
  BY <1>5, <1>6, <1>7, <1>8 DEF StepsKept
<1>10. ASSUME at[w].status = "Completed" PROVE FALSE
  <2>1. w \in DOMAIN after /\ after[w] = at[w] /\ w \in DOMAIN new /\ new[w] = at[w]
    BY <1>8, <1>9, <1>10 DEF StepsKept
  <2> QED BY <1>1, <1>2, <1>4, <2>1 DEF SameWord
<1> QED BY <1>4, <1>9, <1>10

LEMMA PrintedStepsStay == ScannedInv => StepsStayCompleted
<1> SUFFICES ASSUME ScannedInv,
                    NEW m \in 1..Len(printed), NEW n \in 1..Len(printed), m < n,
                    NEW c \in printed[m].changes, NEW d \in printed[n].changes,
                    c.field.name = "InstanceStepState", c.address = d.address, c.field = d.field
             PROVE  c.decoded # Deleted /\ c.decoded.value[1].status # "Completed"
  BY DEF StepsStayCompleted
<1>1. ScanInv /\ BatchesRecorded
  BY DEF ScannedInv, BatchesTell
<1>2. PICK number \in [1..Len(printed) -> 1..Len(proofs)] :
        /\ \A q \in 1..Len(printed) : printed[q].changes = MapStateDiff(proofs[number[q]].entries)
        /\ \A q, r \in 1..Len(printed) : q < r => number[q] < number[r]
  BY <1>1, ReportsInOrder
<1>3. PICK M, N : M = number[m] /\ N = number[n]
  OBVIOUS
<1>4. /\ M \in 1..Len(proofs) /\ N \in 1..Len(proofs) /\ M < N
      /\ c \in MapStateDiff(proofs[M].entries) /\ d \in MapStateDiff(proofs[N].entries)
  BY <1>2, <1>3
<1>5. PICK p, k :
        /\ p \in Instances /\ c.address = p /\ c.field = Field("InstanceStepState", k)
        /\ <<p, Mapped(6, k)>> \in DOMAIN proofs[M].entries
        /\ c.decoded = DecodeValue(c.field, proofs[M].entries[<<p, Mapped(6, k)>>])
  BY <1>1, <1>4, StepChange
<1>6. PICK q, j :
        /\ q \in Instances /\ d.address = q /\ d.field = Field("InstanceStepState", j)
        /\ <<q, Mapped(6, j)>> \in DOMAIN proofs[N].entries
  BY <1>1, <1>4, StepChange
<1>7. q = p /\ j = k
  <2>1. c.field.index = k
    BY <1>5, FieldParts
  <2>2. d.field.index = j
    BY <1>6, FieldParts
  <2> QED BY <1>5, <1>6, <2>1, <2>2
<1>8. PICK w : w = <<p, Mapped(6, k)>>
  OBVIOUS
<1>9. w \in DOMAIN StorageAt(M) /\ StorageAt(M)[w].status # "Completed"
  BY <1>4, <1>5, <1>6, <1>7, <1>8, ChangedAfter
<1>10. proofs[M].entries[w] = Some(StorageAt(M)[w])
  BY <1>1, <1>4, <1>5, <1>8, <1>9, EntryTells
<1>11. c.decoded = DecodeRaw("StepState", StorageAt(M)[w])
  <2>1. FieldType(c.field.name) = "StepState"
    BY FieldTypes
  <2> QED BY <1>5, <1>8, <1>10, <2>1 DEF DecodeValue, Some, None
<1>12. p \in Instances
  BY <1>5
<1> QED BY <1>4, <1>8, <1>9, <1>11, <1>12, StoredStep

LEMMA PrintedCompletionHasSteps == ScannedInv => CompletionComesWithItsSteps
<1> SUFFICES ASSUME ScannedInv, NoGap, NEW p \in registry["ProcessInstance"],
                    Latest(p, Field("InstanceCompleted", 0)) = DecodeRaw("Bool", TRUE),
                    NEW total, total = Latest(p, Field("InstanceTotalSteps", 0)).value[1],
                    NEW k \in Index, k < TableSteps, k < total,
                    NEW step, step = Latest(p, Field("InstanceStepState", k))
             PROVE  step # Deleted /\ step.value[1].status = "Completed"
  BY DEF CompletionComesWithItsSteps
<1>1. DecodeRaw("Bool", TRUE) # Deleted
  <2>1. DecodeRaw("Bool", TRUE) = Decoded("Bool", TRUE)
    BY DecodingAssumption
  <2>2. \A x : Decoded("Bool", x) # Deleted
    BY DEF Decoded, Deleted
  <2> QED BY <2>1, <2>2
<1>2. printed # <<>>
  <2> SUFFICES ASSUME printed = <<>> PROVE Latest(p, Field("InstanceCompleted", 0)) = Deleted
    BY <1>1
  <2> QED BY DEF Latest
<1>3. PICK v : v = LastView.instances[p]
  OBVIOUS
<1>4. InstanceTells(v)
  BY <1>2, <1>3, LastViewStored DEF ViewIs
<1>5. InstanceStored(StorageAt(Len(printed)), p, v)
  BY <1>2, <1>3, LastViewStored DEF ViewIs
<1>6. v.completed
  <2>1. WordIs(StorageAt(Len(printed)), <<p, Plain(4)>>, v.completed, TRUE)
    BY <1>5 DEF InstanceStored
  <2>2. Names("ProcessInstance", Plain(4), Field("InstanceCompleted", 0))
    BY InstanceTable, InstanceVariablesNamed
  <2> QED BY <1>1, <2>1, <2>2, LatestTells, FieldTypes DEF WordIs
<1>7. v.template # ZeroAddress /\ v.totalSteps \in Index
      /\ (k < v.totalSteps => v.steps[k].status = "Completed")
      /\ v.steps[k].actor \in Address
  BY <1>4, <1>6 DEF InstanceTells
<1>8. total = v.totalSteps
  <2>1. Latest(p, Field("InstanceTotalSteps", 0)) = DecodeRaw("Uint256", v.totalSteps)
    BY <1>2, <1>3, <1>7, ReaderKnowsProcess DEF ReaderFollowsProcess
  <2>2. DecodeRaw("Uint256", v.totalSteps) = Decoded("Uint256", v.totalSteps)
    BY <1>7, DecodingAssumption
  <2> QED BY <2>1, <2>2 DEF Decoded, Some
<1>9. v.steps[k].status = "Completed"
  BY <1>7, <1>8
<1>10. step = DecodeRaw("StepState", StepWord(v.steps[k]))
  BY <1>2, <1>3, <1>7, <1>9, ReaderKnowsProcess DEF ReaderFollowsProcess
<1>11. DecodeRaw("StepState", StepWord(v.steps[k])) = Decoded("StepState", StepWord(v.steps[k]))
  BY <1>7, <1>9, DecodingAssumption DEF StepWord, StepStatus
<1> QED BY <1>9, <1>10, <1>11 DEF Decoded, Deleted, Some, StepWord

\* A completion that print_rpc_text has printed can be relied on: no later proof has a
\* completed step again, and a completed process is printed with all its steps.
THEOREM PrintedCompletionsAlwaysHold == ScannedSpec => []PrintedCompletionsHold
BY PrintedStepsStay, PrintedCompletionHasSteps, ScannedInductive, PTL DEF PrintedCompletionsHold

\* The scanner only watches: under it the institutions and the instances do what they do
\* by themselves, so that all that is proved of them in ContractProofs.tla still holds.
THEOREM ContractsActUnwatched == ScannedSpec => InstitutionSpec /\ InstanceSpec
<1>1. ScannedInit => InstitutionInit /\ InstanceInit
  BY DEF ScannedInit
<1>2. [ScannedNext]_scannedVars => [InstitutionNext]_institutionVars
  BY DEF ScannedNext, Transact, Prove, Mine, ScanOn, scannedVars, contractVars
<1>3. [ScannedNext]_scannedVars => [InstanceNext]_instanceVars
  BY DEF ScannedNext, Transact, Prove, Mine, ScanOn, scannedVars, contractVars
<1> QED BY <1>1, <1>2, <1>3, PTL DEF ScannedSpec, InstitutionSpec, InstanceSpec
=============================================================================
