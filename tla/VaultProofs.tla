---------------------------- MODULE VaultProofs ----------------------------
(***************************************************************************)
(* What Vault.tla promises, for any policies, inscriptions, fee rates and  *)
(* outputs, and for any number of vaults in a transfer.  Sums over the     *)
(* inputs of a transaction are the one recursive definition: what is said  *)
(* of them is shown by a smallest counterexample, which a set of natural   *)
(* numbers has because finite sets are well-founded.                       *)
(***************************************************************************)
EXTENDS Vault, FiniteSetTheorems, WellFoundedInduction, TLAPS

-----------------------------------------------------------------------------
\* Numbers and sums.

\* A set of natural numbers has a smallest one.
LEMMA NatMin ==
  ASSUME NEW S \in SUBSET Nat, S # {}
  PROVE  \E n \in S : \A m \in S : n <= m
<1> DEFINE T == {1..n : n \in S}
<1>1. T \subseteq FiniteSubsetsOf(Nat) /\ T # {}
  <2>1. ASSUME NEW n \in S PROVE 1..n \subseteq Nat /\ IsFiniteSet(1..n)
    BY FS_Interval
  <2> QED BY <2>1 DEF FiniteSubsetsOf
<1>2. IsWellFoundedOn(StrictSubsetOrdering(Nat), FiniteSubsetsOf(Nat))
  BY FS_StrictSubsetOrderingWellFounded
<1>3. PICK t \in T : \A u \in T : ~(<<u, t>> \in StrictSubsetOrdering(Nat))
  <2> HIDE DEF T
  <2> QED BY <1>1, <1>2, WFMin
<1>4. PICK n \in S : t = 1..n
  OBVIOUS
<1>5. \A m \in S : n <= m
  <2> SUFFICES ASSUME NEW m \in S, m < n PROVE FALSE
    OBVIOUS
  <2>1. 1..m \subseteq 1..n /\ 1..m # 1..n
    <3>1. n \in 1..n /\ n \notin 1..m
      OBVIOUS
    <3> QED BY <3>1
  <2>2. <<1..m, t>> \in StrictSubsetOrdering(Nat)
    BY <2>1, <1>4 DEF StrictSubsetOrdering
  <2> QED BY <2>2, <1>3
<1> QED BY <1>5

\* There is a function as Sums defines it.
LEMMA SumsExist ==
  ASSUME NEW s \in Seq(Nat)
  PROVE  \E f \in [0..Len(s) -> Nat] :
            f = [n \in 0..Len(s) |-> IF n = 0 THEN 0 ELSE f[n - 1] + s[n]]
<1> DEFINE Good(m, f) == f = [n \in 0..m |-> IF n = 0 THEN 0 ELSE f[n - 1] + s[n]]
           Bad == {m \in 0..Len(s) : ~ \E f \in [0..m -> Nat] : Good(m, f)}
<1>1. SUFFICES Bad = {}
  OBVIOUS
<1>2. SUFFICES ASSUME Bad # {} PROVE FALSE
  OBVIOUS
<1>3. PICK m \in Bad : \A k \in Bad : m <= k
  <2>1. Bad \in SUBSET Nat
    OBVIOUS
  <2> HIDE DEF Bad
  <2> QED BY <1>2, <2>1, NatMin
<1>4. m # 0
  <2>1. Good(0, [n \in 0..0 |-> 0])
    OBVIOUS
  <2> QED BY <2>1
<1>5. PICK g \in [0..(m-1) -> Nat] : Good(m - 1, g)
  <2> HIDE DEF Good
  <2>1. m \in 0..Len(s)
    OBVIOUS
  <2>2. m - 1 \in 0..Len(s) /\ ~(m <= m - 1)
    BY <2>1, <1>4
  <2>3. m - 1 \notin Bad
    <3> HIDE DEF Bad
    <3> QED BY <2>2, <1>3
  <2> QED BY <2>2, <2>3
<1> DEFINE h == [n \in 0..m |-> IF n = m THEN g[m - 1] + s[m] ELSE g[n]]
<1>6. h \in [0..m -> Nat] /\ s[m] \in Nat
  BY <1>4, <1>5
<1>7. ASSUME NEW n \in 0..m PROVE h[n] = IF n = 0 THEN 0 ELSE h[n - 1] + s[n]
  BY <1>4, <1>5
<1>8. Good(m, h)
  BY <1>6, <1>7
<1> QED BY <1>6, <1>8

\* What Sums computes.
LEMMA SumsValue ==
  ASSUME NEW s \in Seq(Nat)
  PROVE  /\ Sums(s) \in [0..Len(s) -> Nat]
         /\ Sums(s)[0] = 0
         /\ \A n \in 1..Len(s) : Sums(s)[n] = Sums(s)[n - 1] + s[n]
<1> DEFINE Step(f) == [n \in 0..Len(s) |-> IF n = 0 THEN 0 ELSE f[n - 1] + s[n]]
<1>1. Sums(s) = CHOOSE f : f = Step(f)
  BY Zenon DEF Sums
<1>2. PICK f \in [0..Len(s) -> Nat] : f = Step(f)
  BY SumsExist
<1>3. Sums(s) = Step(Sums(s))
  BY <1>1, <1>2, Zenon
<1>4. /\ DOMAIN Sums(s) = 0..Len(s)
      /\ Sums(s)[0] = 0
      /\ \A n \in 1..Len(s) : Sums(s)[n] = Sums(s)[n - 1] + s[n]
  <2> DEFINE total == Sums(s)
  <2>1. total = [n \in 0..Len(s) |-> IF n = 0 THEN 0 ELSE total[n - 1] + s[n]]
    BY <1>3, Zenon
  <2> HIDE DEF total
  <2>2. DOMAIN total = 0..Len(s)
    BY <2>1
  <2>3. total[0] = 0
    BY <2>1
  <2>4. \A n \in 1..Len(s) : total[n] = total[n - 1] + s[n]
    <3> TAKE n \in 1..Len(s)
    <3>1. n \in 0..Len(s) /\ n # 0
      OBVIOUS
    <3> QED BY ONLY <2>1, <3>1
  <2> QED BY <2>2, <2>3, <2>4 DEF total
<1> DEFINE Bad == {n \in 0..Len(s) : Sums(s)[n] \notin Nat}
<1>5. Bad = {}
  <2> SUFFICES ASSUME Bad # {} PROVE FALSE
    OBVIOUS
  <2>1. PICK m \in Bad : \A k \in Bad : m <= k
    <3>1. Bad \in SUBSET Nat
      OBVIOUS
    <3> HIDE DEF Bad
    <3> QED BY <3>1, NatMin
  <2>2. m \in 0..Len(s) /\ m # 0 /\ Sums(s)[m] \notin Nat
    BY <1>4
  <2>3. m - 1 \in 0..Len(s) /\ ~(m <= m - 1)
    BY <2>2
  <2>4. m - 1 \notin Bad
    <3> HIDE DEF Bad
    <3> QED BY <2>1, <2>3
  <2>5. Sums(s)[m - 1] \in Nat /\ s[m] \in Nat
    BY <2>2, <2>3, <2>4
  <2> QED BY <1>4, <2>2, <2>5
<1>6. Sums(s) = [n \in 0..Len(s) |-> Sums(s)[n]]
  BY <1>3, <1>4
<1>7. Sums(s) \in [0..Len(s) -> Nat]
  BY <1>5, <1>6
<1> QED BY <1>4, <1>7

\* What comes first begins first.
LEMMA BeforeGrows ==
  ASSUME NEW s \in Seq(Nat), NEW j \in 1..Len(s), NEW k \in 1..(Len(s) + 1), j < k
  PROVE  /\ Before(s, j) \in Nat /\ Before(s, k) \in Nat
         /\ Before(s, j) + s[j] <= Before(s, k)
<1> DEFINE f == Sums(s)
           Bad == {n \in j..Len(s) : ~(f[j] <= f[n])}
<1>0. /\ f \in [0..Len(s) -> Nat]
      /\ \A n \in 1..Len(s) : f[n] = f[n - 1] + s[n]
  BY SumsValue
<1> HIDE DEF f
<1>1. Bad = {}
  <2> SUFFICES ASSUME Bad # {} PROVE FALSE
    OBVIOUS
  <2>1. PICK m \in Bad : \A n \in Bad : m <= n
    <3>1. Bad \in SUBSET Nat
      OBVIOUS
    <3> HIDE DEF Bad
    <3> QED BY <3>1, NatMin
  <2>2. m \in j..Len(s) /\ m # j /\ ~(f[j] <= f[m])
    BY <1>0
  <2>3. m - 1 \in j..Len(s) /\ ~(m <= m - 1)
    BY <2>2
  <2>4. m - 1 \notin Bad
    <3> HIDE DEF Bad
    <3> QED BY <2>1, <2>3
  <2>5. f[j] <= f[m - 1]
    BY <2>3, <2>4
  <2>6. Len(s) \in Nat /\ m \in 1..Len(s) /\ m - 1 \in 0..Len(s) /\ j \in 0..Len(s)
    BY <2>2
  <2>7. s[m] \in Nat
    BY <2>6
  <2>8. f[m] = f[m - 1] + s[m] /\ f[m - 1] \in Nat /\ f[j] \in Nat
    BY <1>0, <2>6
  <2> QED BY <2>2, <2>5, <2>7, <2>8
<1>2. f[j] = f[j - 1] + s[j] /\ f[j - 1] \in Nat /\ f[k - 1] \in Nat
  <2>1. Len(s) \in Nat /\ j - 1 \in 0..Len(s) /\ k - 1 \in 0..Len(s)
    OBVIOUS
  <2> QED BY <1>0, <2>1
<1>3. f[j] <= f[k - 1]
  BY <1>1
<1> QED BY <1>2, <1>3 DEF Before, f

\* Where amounts agree, so do the positions.
LEMMA BeforeAgrees ==
  ASSUME NEW s \in Seq(Nat), NEW t \in Seq(Nat), NEW n \in Nat,
         n <= Len(s), n <= Len(t), \A i \in 1..n : s[i] = t[i],
         NEW k \in 1..(n + 1)
  PROVE  Before(s, k) = Before(t, k)
<1> DEFINE Bad == {m \in 0..n : Sums(s)[m] # Sums(t)[m]}
<1>1. Bad = {}
  <2> SUFFICES ASSUME Bad # {} PROVE FALSE
    OBVIOUS
  <2>1. PICK m \in Bad : \A i \in Bad : m <= i
    <3>1. Bad \in SUBSET Nat
      OBVIOUS
    <3> HIDE DEF Bad
    <3> QED BY <3>1, NatMin
  <2>2. m \in 0..n /\ m # 0 /\ Sums(s)[m] # Sums(t)[m]
    BY SumsValue
  <2>3. m - 1 \in 0..n /\ ~(m <= m - 1)
    BY <2>2
  <2>4. m - 1 \notin Bad
    <3> HIDE DEF Bad
    <3> QED BY <2>1, <2>3
  <2>5. Sums(s)[m - 1] = Sums(t)[m - 1]
    BY <2>3, <2>4
  <2>6. m \in 1..Len(s) /\ m \in 1..Len(t) /\ s[m] = t[m]
    BY <2>2
  <2>7. Sums(s)[m] = Sums(s)[m - 1] + s[m]
    BY <2>6, SumsValue, Zenon
  <2>8. Sums(t)[m] = Sums(t)[m - 1] + t[m]
    BY <2>6, SumsValue, Zenon
  <2> QED BY ONLY <2>2, <2>5, <2>6, <2>7, <2>8
<1> HIDE DEF Bad
<1>2. k - 1 \in 0..n
  OBVIOUS
<1>3. k - 1 \notin Bad
  BY <1>1
<1>4. Sums(s)[k - 1] = Sums(t)[k - 1]
  BY <1>2, <1>3 DEF Bad
<1> QED BY <1>4 DEF Before

-----------------------------------------------------------------------------
\* The inductive invariant.

OutputType ==
  [lock : Policies \cup {Wallet}, sats : Nat, born : Nat, by : SUBSET Keys,
   items : SUBSET [of : Inscriptions, offset : Nat], spent : BOOLEAN]

TypeInv ==
  /\ height \in 0..MaxHeight
  /\ transfers \in 0..MaxTransfers
  /\ outputs \in Seq(OutputType)
  /\ \A k \in DOMAIN outputs : outputs[k].born <= height

\* A vault has one inscription from the beginning, in its first satoshi; there are
\* none in a wallet.
LoneItems ==
  \A k \in DOMAIN outputs :
    /\ outputs[k].lock = Wallet => outputs[k].items = {}
    /\ outputs[k].lock # Wallet =>
         /\ outputs[k].sats >= 1
         /\ \E x \in Inscriptions : outputs[k].items = {[of |-> x, offset |-> 0]}

\* An unspent output is the last one its inscription has come to.
NewestUnspent ==
  \A x \in Inscriptions : \A j, k \in DOMAIN outputs :
    Holds(j, x) /\ Holds(k, x) /\ ~outputs[k].spent => j <= k

Seated ==
  \A x \in Inscriptions : Inscribed(x) => \E k \in Unspent : Holds(k, x)

IInv == TypeInv /\ LoneItems /\ NewestUnspent /\ Seated /\ AdministratorWaits

-----------------------------------------------------------------------------
\* The transaction of a transfer.

LEMMA VaultListValue ==
  ASSUME TypeInv, NEW vaults \in VaultLists
  PROVE  /\ Len(vaults) \in Nat /\ Len(vaults) >= 1
         /\ DOMAIN vaults = 1..Len(vaults)
         /\ \A m \in 1..Len(vaults) :
              vaults[m] \in Vaults /\ vaults[m] \in DOMAIN outputs
         /\ \A l, m \in 1..Len(vaults) : l # m => vaults[l] # vaults[m]
<1>1. PICK n \in 1..Cardinality(Vaults) : vaults \in [1..n -> Vaults]
  BY DEF VaultLists
<1>2. n \in Nat /\ n >= 1
  OBVIOUS
<1>3. vaults \in Seq(Vaults) /\ Len(vaults) = n
  BY <1>1, <1>2
<1>4. \A l, m \in DOMAIN vaults : l # m => vaults[l] # vaults[m]
  BY DEF VaultLists
<1>5. Vaults \subseteq DOMAIN outputs
  BY DEF Vaults, Unspent
<1> QED BY <1>1, <1>2, <1>3, <1>4, <1>5

\* tx is what Transfer drafts for n vaults.
Drafted(tx, n, vaults, purse, to, feeRate, leaf) ==
  /\ vaults \in VaultLists /\ purse \in Purses /\ to \in Policies
  /\ feeRate \in FeeRates /\ leaf \in {0, 1}
  /\ outputs[purse].sats - Fee(Len(vaults) + 1, feeRate) >= Dust
  /\ tx = Psbt(vaults, purse, to, feeRate, leaf)
  /\ n = Len(vaults)

\* What matters of it.
Paired(tx, n, vaults, purse, to) ==
  /\ n \in Nat /\ n >= 1
  /\ \A m \in 1..n : vaults[m] \in Vaults /\ vaults[m] \in DOMAIN outputs
  /\ \A l, m \in 1..n : l # m => vaults[l] # vaults[m]
  /\ purse \in DOMAIN outputs /\ outputs[purse].lock = Wallet
  /\ outputs[purse].items = {} /\ outputs[purse].sats \in Nat
  /\ DOMAIN tx.inputs = 1..(n + 1) /\ DOMAIN tx.outputs = 1..(n + 1)
  /\ Len(tx.outputs) = n + 1
  /\ \A m \in 1..n :
       /\ tx.inputs[m].output = vaults[m]
       /\ tx.inputs[m].sequence \in Nat
       /\ tx.outputs[m] = [lock |-> to, sats |-> outputs[vaults[m]].sats]
       /\ outputs[vaults[m]].sats \in Nat /\ outputs[vaults[m]].sats >= 1
  /\ tx.inputs[n + 1].output = purse
  /\ tx.outputs[n + 1].lock = Wallet /\ tx.outputs[n + 1].sats \in Nat

LEMMA PsbtValue ==
  ASSUME TypeInv, LoneItems, VaultAssumption,
         NEW tx, NEW n, NEW vaults, NEW purse, NEW to, NEW feeRate, NEW leaf,
         Drafted(tx, n, vaults, purse, to, feeRate, leaf)
  PROVE  Paired(tx, n, vaults, purse, to)
<1>0. /\ vaults \in VaultLists /\ purse \in Purses /\ to \in Policies
      /\ feeRate \in FeeRates /\ leaf \in {0, 1}
      /\ outputs[purse].sats - Fee(Len(vaults) + 1, feeRate) >= Dust
      /\ tx = Psbt(vaults, purse, to, feeRate, leaf)
      /\ n = Len(vaults)
  BY DEF Drafted
<1> DEFINE ins  == [k \in DOMAIN vaults |->
                     [output |-> vaults[k], sequence |-> IF leaf = 0 THEN LeafZeroSequence ELSE 0]]
           outs == [k \in DOMAIN vaults |-> [lock |-> to, sats |-> outputs[vaults[k]].sats]]
           change == [lock |-> Wallet,
                      sats |-> outputs[purse].sats - Fee(Len(vaults) + 1, feeRate)]
           last   == [output |-> purse, sequence |-> 0]
<1>1. /\ n \in Nat /\ n >= 1 /\ DOMAIN vaults = 1..n
      /\ \A m \in 1..n : vaults[m] \in Vaults /\ vaults[m] \in DOMAIN outputs
      /\ \A l, m \in 1..n : l # m => vaults[l] # vaults[m]
  BY <1>0, VaultListValue
<1>2. tx.inputs = Append(ins, last) /\ tx.outputs = Append(outs, change)
  BY <1>0 DEF Psbt
<1>3. /\ ins \in Seq([output : Vaults, sequence : Nat]) /\ Len(ins) = n
      /\ \A m \in 1..n : ins[m].output = vaults[m] /\ ins[m].sequence \in Nat
  BY <1>0, <1>1 DEF VaultAssumption
<1>4. \A m \in 1..n : outputs[vaults[m]] \in OutputType
  BY <1>1 DEF TypeInv
<1>5. /\ outs \in Seq([lock : Policies, sats : Nat]) /\ Len(outs) = n
      /\ \A m \in 1..n : outs[m] = [lock |-> to, sats |-> outputs[vaults[m]].sats]
  BY <1>0, <1>1, <1>4 DEF OutputType
<1>6. \A m \in 1..n : outputs[vaults[m]].sats \in Nat /\ outputs[vaults[m]].sats >= 1
  BY <1>1, <1>4 DEF OutputType, LoneItems, Vaults, VaultAssumption
<1>7. /\ purse \in DOMAIN outputs /\ outputs[purse].lock = Wallet
      /\ outputs[purse].items = {} /\ outputs[purse].sats \in Nat
  <2>1. purse \in DOMAIN outputs /\ outputs[purse].lock = Wallet
    BY <1>0 DEF Purses, Unspent
  <2>2. outputs[purse] \in OutputType
    BY <2>1 DEF TypeInv
  <2>3. outputs[purse].items = {}
    BY <2>1 DEF LoneItems
  <2> QED BY <2>1, <2>2, <2>3 DEF OutputType
<1>8. change.sats \in Nat
  <2>1. feeRate \in Nat
    BY <1>0 DEF VaultAssumption
  <2>2. Fee(Len(vaults) + 1, feeRate) \in Int
    BY <1>1, <2>1 DEF Fee
  <2> QED BY <1>0, <1>7, <2>2 DEF Dust
<1> HIDE DEF ins, outs
<1>9. DOMAIN tx.inputs = 1..(n + 1) /\ DOMAIN tx.outputs = 1..(n + 1)
  BY <1>1, <1>2, <1>3, <1>5
<1>10. tx.inputs[n + 1] = last /\ tx.outputs[n + 1] = change
  BY <1>1, <1>2, <1>3, <1>5
<1>11. \A m \in 1..n : tx.inputs[m] = ins[m] /\ tx.outputs[m] = outs[m]
  BY <1>1, <1>2, <1>3, <1>5
<1>12. Len(tx.outputs) = n + 1
  BY <1>1, <1>2, <1>5
<1>13. /\ tx.inputs[n + 1].output = purse
       /\ tx.outputs[n + 1].lock = Wallet /\ tx.outputs[n + 1].sats \in Nat
  BY <1>8, <1>10
<1>14. \A m \in 1..n :
         /\ tx.inputs[m].output = vaults[m]
         /\ tx.inputs[m].sequence \in Nat
         /\ tx.outputs[m] = [lock |-> to, sats |-> outputs[vaults[m]].sats]
  BY <1>3, <1>5, <1>11
<1> HIDE DEF change, last
<1> QED BY <1>1, <1>6, <1>7, <1>9, <1>12, <1>13, <1>14 DEF Paired

\* Inscriptions go from each vault to the output next to it, and nowhere else.
LEMMA ArrivalsValue ==
  ASSUME LoneItems, VaultAssumption,
         NEW tx, NEW n, NEW vaults, NEW purse, NEW to, Paired(tx, n, vaults, purse, to)
  PROVE  /\ \A m \in 1..n : Arrivals(tx, m) = outputs[vaults[m]].items
         /\ Arrivals(tx, n + 1) = {}
<1>1. /\ n \in Nat /\ n >= 1
      /\ \A m \in 1..n : vaults[m] \in Vaults /\ vaults[m] \in DOMAIN outputs
  BY DEF Paired
<1> DEFINE paid == Paid(tx)
           made == Made(tx)
<1>2. /\ DOMAIN tx.inputs = 1..(n + 1) /\ DOMAIN tx.outputs = 1..(n + 1)
      /\ \A m \in 1..n :
           /\ tx.inputs[m].output = vaults[m]
           /\ tx.outputs[m].sats = outputs[vaults[m]].sats
           /\ outputs[vaults[m]].sats \in Nat /\ outputs[vaults[m]].sats >= 1
      /\ tx.inputs[n + 1].output = purse
      /\ tx.outputs[n + 1].sats \in Nat
      /\ outputs[purse].items = {} /\ outputs[purse].sats \in Nat
  <2>1. /\ DOMAIN tx.inputs = 1..(n + 1) /\ DOMAIN tx.outputs = 1..(n + 1)
        /\ tx.inputs[n + 1].output = purse /\ tx.outputs[n + 1].sats \in Nat
        /\ outputs[purse].items = {} /\ outputs[purse].sats \in Nat
    BY DEF Paired
  <2>2. \A m \in 1..n :
          /\ tx.inputs[m].output = vaults[m]
          /\ tx.outputs[m] = [lock |-> to, sats |-> outputs[vaults[m]].sats]
          /\ outputs[vaults[m]].sats \in Nat /\ outputs[vaults[m]].sats >= 1
    BY Zenon DEF Paired
  <2>3. \A m \in 1..n : tx.outputs[m].sats = outputs[vaults[m]].sats
    <3> TAKE m \in 1..n
    <3>1. tx.outputs[m] = [lock |-> to, sats |-> outputs[vaults[m]].sats]
      BY <2>2
    <3> QED BY ONLY <3>1
  <2>4. /\ \A m \in 1..n : tx.inputs[m].output = vaults[m]
        /\ \A m \in 1..n : outputs[vaults[m]].sats \in Nat /\ outputs[vaults[m]].sats >= 1
    BY <2>2, Zenon
  <2> QED BY ONLY <2>1, <2>3, <2>4, Zenon
<1>3. /\ DOMAIN paid = 1..(n + 1) /\ DOMAIN made = 1..(n + 1)
      /\ \A m \in 1..n : paid[m] = made[m] /\ made[m] \in Nat /\ made[m] >= 1
      /\ paid[n + 1] \in Nat /\ made[n + 1] \in Nat
  <2>1. /\ paid = [k \in 1..(n + 1) |-> outputs[tx.inputs[k].output].sats]
        /\ made = [k \in 1..(n + 1) |-> tx.outputs[k].sats]
    BY <1>2 DEF Paid, Made
  <2> HIDE DEF paid, made
  <2>2. n + 1 \in 1..(n + 1) /\ \A m \in 1..n : m \in 1..(n + 1)
    BY <1>1
  <2>3. \A m \in 1..n : paid[m] = outputs[vaults[m]].sats /\ made[m] = outputs[vaults[m]].sats
    <3> TAKE m \in 1..n
    <3>1. m \in 1..(n + 1) /\ tx.inputs[m].output = vaults[m]
          /\ tx.outputs[m].sats = outputs[vaults[m]].sats
      BY <1>2, <2>2, Zenon
    <3> QED BY ONLY <2>1, <3>1
  <2>4. paid[n + 1] = outputs[purse].sats /\ made[n + 1] = tx.outputs[n + 1].sats
    BY ONLY <1>2, <2>1, <2>2
  <2>5. DOMAIN paid = 1..(n + 1) /\ DOMAIN made = 1..(n + 1)
    BY ONLY <2>1
  <2> QED BY ONLY <1>2, <2>3, <2>4, <2>5
<1>4. /\ paid \in Seq(Nat) /\ made \in Seq(Nat)
      /\ Len(paid) = n + 1 /\ Len(made) = n + 1
  <2>1. \A m \in 1..(n + 1) : m \in 1..n \/ m = n + 1
    BY <1>1
  <2>2. \A m \in 1..(n + 1) : paid[m] \in Nat /\ made[m] \in Nat
    BY <1>3, <2>1
  <2>3. paid = [m \in 1..(n + 1) |-> paid[m]] /\ made = [m \in 1..(n + 1) |-> made[m]]
    BY <1>2 DEF Paid, Made
  <2> HIDE DEF paid, made
  <2>4. paid \in [1..(n + 1) -> Nat] /\ made \in [1..(n + 1) -> Nat]
    BY <2>2, <2>3
  <2>5. n + 1 \in Nat
    BY <1>1
  <2> QED BY <2>4, <2>5
<1> HIDE DEF paid, made
<1>5. \A k \in 1..(n + 1) : Before(paid, k) = Before(made, k)
  <2>1. n <= Len(paid) /\ n <= Len(made) /\ n \in Nat
    BY <1>1, <1>4
  <2>2. paid \in Seq(Nat) /\ made \in Seq(Nat) /\ \A m \in 1..n : paid[m] = made[m]
    BY <1>3, <1>4
  <2> QED BY ONLY <2>1, <2>2, BeforeAgrees
<1>6. \A j \in 1..(n + 1), k \in 1..(n + 1) :
        j < k => /\ Before(made, j) \in Nat /\ Before(made, k) \in Nat
                 /\ Before(made, j) + made[j] <= Before(made, k)
  <2> SUFFICES ASSUME NEW j \in 1..(n + 1), NEW k \in 1..(n + 1), j < k
               PROVE  /\ Before(made, j) \in Nat /\ Before(made, k) \in Nat
                      /\ Before(made, j) + made[j] <= Before(made, k)
    OBVIOUS
  <2>1. j \in 1..Len(made) /\ k \in 1..(Len(made) + 1)
    BY <1>1, <1>4
  <2>2. made \in Seq(Nat) /\ j < k
    BY <1>4
  <2> QED BY ONLY <2>1, <2>2, BeforeGrows
<1>7. \A k \in 1..(n + 1) : Before(made, k) \in Nat
  <2>1. Before(made, 1) \in Nat /\ Before(made, n + 1) \in Nat
    BY <1>1, <1>6
  <2> QED BY <1>1, <1>6, <2>1
\* The inscription of vault k is at the beginning of output k.
<1>8. PICK item \in [1..n -> Inscriptions] :
        \A k \in 1..n : outputs[vaults[k]].items = {[of |-> item[k], offset |-> 0]}
  <2>1. \A k \in 1..n :
          \E x \in Inscriptions : outputs[vaults[k]].items = {[of |-> x, offset |-> 0]}
    BY <1>1 DEF LoneItems, Vaults, VaultAssumption
  <2> DEFINE item == [k \in 1..n |->
                       CHOOSE x \in Inscriptions : outputs[vaults[k]].items = {[of |-> x, offset |-> 0]}]
  <2>2. \A k \in 1..n : /\ item[k] \in Inscriptions
                       /\ outputs[vaults[k]].items = {[of |-> item[k], offset |-> 0]}
    BY <2>1
  <2>3. item \in [1..n -> Inscriptions]
    BY <2>2
  <2> QED BY <2>2, <2>3
<1>9. Travellers(tx) = {[of |-> item[k], at |-> Before(made, k)] : k \in 1..n}
  <2>1. \A k \in 1..n :
          {[of |-> i.of, at |-> Before(Paid(tx), k) + i.offset] :
             i \in outputs[tx.inputs[k].output].items}
            = {[of |-> item[k], at |-> Before(made, k)]}
    <3> TAKE k \in 1..n
    <3>1. outputs[tx.inputs[k].output].items = {[of |-> item[k], offset |-> 0]}
      BY <1>2, <1>8
    <3>2. Before(Paid(tx), k) = Before(made, k) /\ Before(made, k) + 0 = Before(made, k)
      <4>1. k \in 1..(n + 1)
        BY <1>1
      <4>2. Before(paid, k) = Before(made, k) /\ Before(made, k) \in Nat
        BY <4>1, <1>5, <1>7
      <4>3. Before(Paid(tx), k) = Before(made, k)
        BY ONLY <4>2, Zenon DEF paid
      <4>4. Before(made, k) + 0 = Before(made, k)
        BY ONLY <4>2
      <4> QED BY <4>3, <4>4
    <3> QED BY <3>1, <3>2
  <2>2. {[of |-> i.of, at |-> Before(Paid(tx), n + 1) + i.offset] :
           i \in outputs[tx.inputs[n + 1].output].items} = {}
    BY <1>2
  <2>3. 1..(n + 1) = 1..n \cup {n + 1}
    BY <1>1
  <2> DEFINE carried(k) == {[of |-> i.of, at |-> Before(Paid(tx), k) + i.offset] :
                              i \in outputs[tx.inputs[k].output].items}
  <2>4. Travellers(tx) = UNION {carried(k) : k \in 1..(n + 1)}
    BY <1>2 DEF Travellers
  <2>5. \A k \in 1..n : carried(k) = {[of |-> item[k], at |-> Before(made, k)]}
    BY <2>1
  <2>6. carried(n + 1) = {}
    BY <2>2
  <2> HIDE DEF carried
  <2> QED BY <2>3, <2>4, <2>5, <2>6
<1>10. ASSUME NEW m \in 1..(n + 1)
       PROVE  Arrivals(tx, m) = {[of |-> item[k], offset |-> 0] : k \in 1..n \cap {m}}
  <2>1. \A k \in 1..n :
          (Before(made, m) <= Before(made, k) /\ Before(made, k) < Before(made, m) + made[m])
            <=> k = m
    <3> TAKE k \in 1..n
    <3>0. k \in 1..(n + 1) /\ (m \in 1..n \/ m = n + 1)
      BY <1>1
    <3>1. k \in 1..(n + 1) /\ made[k] >= 1 /\ made[k] \in Nat /\ made[m] \in Nat
      BY <1>3, <3>0
    <3>2. Before(made, k) \in Nat /\ Before(made, m) \in Nat
      BY <3>1, <1>7
    <3>3. CASE k = m
      BY <3>1, <3>2, <3>3
    <3>4. CASE k < m
      BY <3>1, <3>2, <3>4, <1>6
    <3>5. CASE m < k
      BY <3>1, <3>2, <3>5, <1>6
    <3> QED BY <3>3, <3>4, <3>5, <1>1
  <2>2. {y \in Travellers(tx) : Before(made, m) <= y.at /\ y.at < Before(made, m) + made[m]}
          = {[of |-> item[k], at |-> Before(made, k)] : k \in 1..n \cap {m}}
    <3> HIDE DEF made
    <3> QED BY <1>9, <2>1
  <2>3. \A k \in 1..n \cap {m} : Before(made, k) - Before(made, m) = 0
    BY <1>1, <1>7
  <2> DEFINE arriving == {y \in Travellers(tx) :
                           Before(made, m) <= y.at /\ y.at < Before(made, m) + made[m]}
  <2>4. Arrivals(tx, m) = {[of |-> y.of, offset |-> y.at - Before(made, m)] : y \in arriving}
    BY DEF Arrivals, made
  <2>5. arriving = {[of |-> item[k], at |-> Before(made, k)] : k \in 1..n \cap {m}}
    BY <2>2
  <2> HIDE DEF arriving
  <2> DEFINE home == 1..n \cap {m}
             turned(y) == [of |-> y.of, offset |-> y.at - Before(made, m)]
             seen(k) == [of |-> item[k], at |-> Before(made, k)]
  <2>6. Arrivals(tx, m) = {[of |-> item[k], offset |-> Before(made, k) - Before(made, m)] :
                             k \in home}
    <3>1. Arrivals(tx, m) = {turned(y) : y \in arriving}
      BY ONLY <2>4, Zenon
    <3>2. arriving = {seen(k) : k \in home}
      BY ONLY <2>5, Zenon
    <3>3. \A k : turned(seen(k)) =
                  [of |-> item[k], offset |-> Before(made, k) - Before(made, m)]
      OBVIOUS
    <3> HIDE DEF turned, seen, home
    <3>4. Arrivals(tx, m) = {turned(seen(k)) : k \in home}
      BY ONLY <3>1, <3>2
    <3> QED BY ONLY <3>3, <3>4
  <2> QED BY ONLY <2>3, <2>6
<1>11. \A m \in 1..n : Arrivals(tx, m) = outputs[vaults[m]].items
  <2> TAKE m \in 1..n
  <2>1. m \in 1..(n + 1) /\ 1..n \cap {m} = {m}
    BY <1>1
  <2>2. Arrivals(tx, m) = {[of |-> item[k], offset |-> 0] : k \in {m}}
    BY <2>1, <1>10
  <2> QED BY <2>2, <1>8
<1>12. Arrivals(tx, n + 1) = {}
  <2>1. n + 1 \in 1..(n + 1) /\ 1..n \cap {n + 1} = {}
    BY <1>1
  <2> QED BY <2>1, <1>10
<1> QED BY <1>11, <1>12
-----------------------------------------------------------------------------
\* What a transfer does to the outputs.

\* These keys may spend a vault output now.
Signed(k, signers) ==
  \/ \E a, b \in outputs[k].lock.committee \cap signers : a # b
  \/ /\ outputs[k].lock.admin \in signers
     /\ height >= outputs[k].born + outputs[k].lock.csv_delay

Spent(k, n, vaults, purse) == k = purse \/ \E m \in 1..n : vaults[m] = k

Transferred(n, vaults, purse, to, signers) ==
  /\ n \in Nat /\ n >= 1 /\ to \in Policies /\ signers \subseteq Keys
  /\ \A m \in 1..n : vaults[m] \in Vaults
  /\ \A l, m \in 1..n : l # m => vaults[l] # vaults[m]
  /\ purse \in DOMAIN outputs /\ outputs[purse].items = {}
  /\ \A m \in 1..n : Signed(vaults[m], signers)
  /\ outputs' \in Seq(OutputType)
  /\ Len(outputs') = Len(outputs) + n + 1
  /\ \A k \in 1..Len(outputs) :
       outputs'[k] = IF Spent(k, n, vaults, purse)
                     THEN [outputs[k] EXCEPT !.spent = TRUE] ELSE outputs[k]
  /\ \A m \in 1..n :
       outputs'[Len(outputs) + m] =
         Output(to, outputs[vaults[m]].sats, signers, outputs[vaults[m]].items)
  /\ outputs'[Len(outputs) + n + 1].lock = Wallet
  /\ outputs'[Len(outputs) + n + 1].items = {}
  /\ outputs'[Len(outputs) + n + 1].born = height
  /\ height' = height

LEMMA OutputTyped ==
  ASSUME NEW lock \in Policies \cup {Wallet}, NEW sats \in Nat, NEW signers \in SUBSET Keys,
         NEW items \in SUBSET [of : Inscriptions, offset : Nat], height \in Nat
  PROVE  Output(lock, sats, signers, items) \in OutputType
BY DEF Output, OutputType

LEMMA SpentTyped ==
  ASSUME NEW o \in OutputType
  PROVE  /\ [o EXCEPT !.spent = TRUE] \in OutputType
         /\ \A f \in {"lock", "sats", "born", "by", "items"} : [o EXCEPT !.spent = TRUE][f] = o[f]
         /\ [o EXCEPT !.spent = TRUE].spent
BY DEF OutputType

LEMMA ConcatValue ==
  ASSUME NEW s \in Seq(OutputType), NEW t \in Seq(OutputType)
  PROVE  /\ s \o t \in Seq(OutputType) /\ Len(s \o t) = Len(s) + Len(t)
         /\ \A k \in 1..Len(s) : (s \o t)[k] = s[k]
         /\ \A m \in 1..Len(t) : (s \o t)[Len(s) + m] = t[m]
OBVIOUS

LEMMA PairValue ==
  ASSUME NEW C, NEW q \in {{a, b} : a, b \in C} \ {{a} : a \in C}
  PROVE  \E c, d \in C : q = {c, d} /\ c # d
<1>1. PICK c, d \in C : q = {c, d}
  OBVIOUS
<1>2. ASSUME c = d PROVE FALSE
  <2>1. q = {c}
    BY <1>1, <1>2
  <2> QED BY <2>1
<1> QED BY <1>1, <1>2

LEMMA CanSpendValue ==
  ASSUME TypeInv, VaultAssumption, NEW k \in Vaults, NEW sequence \in Nat, NEW signers,
         CanSpend(k, sequence, signers)
  PROVE  Signed(k, signers)
<1> DEFINE p == outputs[k].lock
<1>1. p \in Policies /\ k \in DOMAIN outputs
  BY DEF Vaults, Unspent
<1>2. outputs[k].born \in Nat /\ p.csv_delay \in Nat /\ height \in Nat
  <2>1. outputs[k] \in OutputType
    BY <1>1 DEF TypeInv
  <2>2. Compiles(p)
    BY <1>1 DEF VaultAssumption
  <2> QED BY <2>1, <2>2 DEF OutputType, TypeInv, Compiles
<1>3. PICK path \in Paths(p) :
        /\ height >= outputs[k].born + sequence
        /\ sequence >= path.timelock
        /\ \E q \in path.quorums : q \subseteq signers
  BY <1>1 DEF CanSpend
<1>4. PICK q \in path.quorums : q \subseteq signers
  BY <1>3
<1>5. CASE path = [quorums |-> {{p.admin}}, timelock |-> p.csv_delay]
  <2>1. p.admin \in signers /\ sequence >= p.csv_delay
    BY <1>3, <1>4, <1>5
  <2> QED BY <1>2, <1>3, <2>1 DEF Signed
<1>6. CASE path = [quorums |-> {{a, b} : a, b \in p.committee} \ {{a} : a \in p.committee},
                   timelock |-> 0]
  <2>1. path.quorums = {{a, b} : a, b \in p.committee} \ {{a} : a \in p.committee}
    BY <1>6
  <2> HIDE DEF p
  <2>2. q \in {{a, b} : a, b \in p.committee} \ {{a} : a \in p.committee}
    BY <2>1
  <2>3. PICK c, d \in p.committee : q = {c, d} /\ c # d
    BY ONLY <2>2, PairValue
  <2> QED BY <1>4, <2>3 DEF Signed, p
<1> HIDE DEF p
<1> QED BY <1>3, <1>5, <1>6 DEF Paths

LEMMA TransferEffect ==
  ASSUME TypeInv, LoneItems, VaultAssumption,
         NEW vaults \in VaultLists, NEW purse \in Purses, NEW to \in Policies,
         NEW feeRate \in FeeRates, NEW leaf \in {0, 1}, NEW signers \in Signers,
         Transfer(vaults, purse, to, feeRate, leaf, signers)
  PROVE  \E n : Transferred(n, vaults, purse, to, signers)
<1> DEFINE tx == Psbt(vaults, purse, to, feeRate, leaf)
           n == Len(vaults)
           old == [k \in DOMAIN outputs |->
                    IF \E j \in DOMAIN tx.inputs : tx.inputs[j].output = k
                    THEN [outputs[k] EXCEPT !.spent = TRUE] ELSE outputs[k]]
           new == [m \in DOMAIN tx.outputs |->
                    Output(tx.outputs[m].lock, tx.outputs[m].sats, signers, Arrivals(tx, m))]
<1>1. /\ outputs[purse].sats - Fee(Len(vaults) + 1, feeRate) >= Dust
      /\ Broadcast(tx, signers)
  BY DEF Transfer
<1>2. Paired(tx, n, vaults, purse, to)
  <2>1. Drafted(tx, n, vaults, purse, to, feeRate, leaf)
    BY <1>1 DEF Drafted
  <2> HIDE DEF tx, n
  <2> QED BY <2>1, PsbtValue
<1>3. /\ \A m \in 1..n : Arrivals(tx, m) = outputs[vaults[m]].items
      /\ Arrivals(tx, n + 1) = {}
  <2> HIDE DEF tx, n
  <2> QED BY <1>2, ArrivalsValue
<1>4. /\ \A k \in DOMAIN tx.inputs :
           CanSpend(tx.inputs[k].output, tx.inputs[k].sequence, signers)
      /\ outputs' = old \o new
      /\ height' = height
  BY <1>1 DEF Broadcast
<1> HIDE DEF tx, n
<1>5. /\ n \in Nat /\ n >= 1
      /\ \A m \in 1..n : vaults[m] \in Vaults /\ vaults[m] \in DOMAIN outputs
      /\ \A l, m \in 1..n : l # m => vaults[l] # vaults[m]
      /\ DOMAIN tx.inputs = 1..(n + 1) /\ DOMAIN tx.outputs = 1..(n + 1)
      /\ tx.inputs[n + 1].output = purse
      /\ tx.outputs[n + 1].lock = Wallet /\ tx.outputs[n + 1].sats \in Nat
      /\ purse \in DOMAIN outputs /\ outputs[purse].items = {}
  BY <1>2 DEF Paired
<1>6. /\ \A m \in 1..n : tx.inputs[m].output = vaults[m] /\ tx.inputs[m].sequence \in Nat
      /\ \A m \in 1..n : tx.outputs[m] = [lock |-> to, sats |-> outputs[vaults[m]].sats]
  BY <1>2, Zenon DEF Paired
<1>7. \A m \in 1..n : Signed(vaults[m], signers)
  <2> TAKE m \in 1..n
  <2>1. m \in DOMAIN tx.inputs
    BY <1>5
  <2>2. CanSpend(vaults[m], tx.inputs[m].sequence, signers)
    BY <1>4, <1>6, <2>1
  <2> QED BY <1>5, <1>6, <2>2, CanSpendValue
<1>8. 1..(n + 1) = 1..n \cup {n + 1}
  BY <1>5
<1>9. \A k \in DOMAIN outputs :
        old[k] = IF Spent(k, n, vaults, purse)
                 THEN [outputs[k] EXCEPT !.spent = TRUE] ELSE outputs[k]
  <2> TAKE k \in DOMAIN outputs
  <2>1. (\E j \in DOMAIN tx.inputs : tx.inputs[j].output = k) <=> Spent(k, n, vaults, purse)
    BY <1>5, <1>6, <1>8 DEF Spent
  <2> QED BY <2>1
<1>10. /\ outputs \in Seq(OutputType) /\ DOMAIN outputs = 1..Len(outputs)
       /\ Len(outputs) \in Nat /\ height \in Nat
  BY DEF TypeInv
<1>11. old \in Seq(OutputType) /\ Len(old) = Len(outputs)
  <2>1. \A k \in 1..Len(outputs) : old[k] \in OutputType
    <3> TAKE k \in 1..Len(outputs)
    <3>1. outputs[k] \in OutputType
      BY <1>10
    <3>2. [outputs[k] EXCEPT !.spent = TRUE] \in OutputType
      BY ONLY <3>1, SpentTyped
    <3> HIDE DEF old
    <3> QED BY <3>1, <3>2, <1>9, <1>10
  <2>2. old = [k \in 1..Len(outputs) |-> old[k]]
    BY <1>10
  <2> HIDE DEF old
  <2>3. old \in [1..Len(outputs) -> OutputType]
    BY <2>1, <2>2
  <2> QED BY <1>10, <2>3
<1>12. \A m \in 1..n :
         new[m] = Output(to, outputs[vaults[m]].sats, signers, outputs[vaults[m]].items)
  <2> TAKE m \in 1..n
  <2>1. m \in DOMAIN tx.outputs
    BY <1>5, <1>8
  <2>2. tx.outputs[m].lock = to /\ tx.outputs[m].sats = outputs[vaults[m]].sats
    <3>1. tx.outputs[m] = [lock |-> to, sats |-> outputs[vaults[m]].sats]
      BY <1>6
    <3> QED BY ONLY <3>1
  <2>3. new[m] = Output(tx.outputs[m].lock, tx.outputs[m].sats, signers, Arrivals(tx, m))
    BY ONLY <2>1
  <2> QED BY <2>2, <2>3, <1>3, Zenon
<1>13. new[n + 1] = Output(Wallet, tx.outputs[n + 1].sats, signers, {})
  <2>1. n + 1 \in DOMAIN tx.outputs
    BY <1>5, <1>8
  <2>2. new[n + 1] = Output(tx.outputs[n + 1].lock, tx.outputs[n + 1].sats, signers,
                            Arrivals(tx, n + 1))
    BY ONLY <2>1
  <2> QED BY <2>2, <1>3, <1>5, Zenon
<1>14. signers \subseteq Keys
  BY DEF VaultAssumption
<1>15. new \in Seq(OutputType) /\ Len(new) = n + 1
  <2>1. \A m \in 1..n : new[m] \in OutputType
    <3> TAKE m \in 1..n
    <3>1. outputs[vaults[m]] \in OutputType
      BY <1>5, <1>10
    <3>2. outputs[vaults[m]].sats \in Nat
          /\ outputs[vaults[m]].items \in SUBSET [of : Inscriptions, offset : Nat]
      BY ONLY <3>1 DEF OutputType
    <3> HIDE DEF new
    <3>3. to \in Policies \cup {Wallet} /\ signers \in SUBSET Keys
      BY <1>14
    <3>4. Output(to, outputs[vaults[m]].sats, signers, outputs[vaults[m]].items) \in OutputType
      BY ONLY <3>2, <3>3, <1>10, OutputTyped
    <3> QED BY <3>4, <1>12
  <2>2. new[n + 1] \in OutputType
    <3> HIDE DEF new
    <3> QED BY <1>5, <1>10, <1>13, <1>14 DEF Output, OutputType
  <2>3. new = [m \in 1..(n + 1) |-> new[m]]
    BY <1>5
  <2>4. n + 1 \in Nat
    BY <1>5
  <2> HIDE DEF new
  <2>5. new \in [1..(n + 1) -> OutputType]
    BY <1>8, <2>1, <2>2, <2>3
  <2> QED BY <2>4, <2>5
<1> HIDE DEF old, new
<1>16. /\ outputs' \in Seq(OutputType) /\ Len(outputs') = Len(outputs) + n + 1
       /\ \A k \in 1..Len(outputs) : outputs'[k] = old[k]
       /\ \A m \in 1..(n + 1) : outputs'[Len(outputs) + m] = new[m]
  <2>1. /\ old \o new \in Seq(OutputType) /\ Len(old \o new) = Len(old) + Len(new)
        /\ \A k \in 1..Len(old) : (old \o new)[k] = old[k]
        /\ \A m \in 1..Len(new) : (old \o new)[Len(old) + m] = new[m]
    BY <1>11, <1>15, ConcatValue
  <2>2. Len(old) + Len(new) = Len(outputs) + n + 1
    BY <1>5, <1>10, <1>11, <1>15
  <2> QED BY <1>4, <1>11, <1>15, <2>1, <2>2
<1>17. \A k \in 1..Len(outputs) :
         outputs'[k] = IF Spent(k, n, vaults, purse)
                       THEN [outputs[k] EXCEPT !.spent = TRUE] ELSE outputs[k]
  BY <1>9, <1>10, <1>16
<1>18. \A m \in 1..n :
         outputs'[Len(outputs) + m] =
           Output(to, outputs[vaults[m]].sats, signers, outputs[vaults[m]].items)
  BY <1>8, <1>12, <1>16
<1>19. LET last == outputs'[Len(outputs) + n + 1]
       IN  last.lock = Wallet /\ last.items = {} /\ last.born = height
  <2>1. n + 1 \in 1..(n + 1) /\ Len(outputs) + (n + 1) = Len(outputs) + n + 1
    BY <1>5, <1>10
  <2>2. outputs'[Len(outputs) + n + 1] = Output(Wallet, tx.outputs[n + 1].sats, signers, {})
    BY <1>13, <1>16, <2>1
  <2> QED BY <2>2 DEF Output
<1>20. \A m \in 1..n : vaults[m] \in Vaults
  BY <1>5
<1> QED BY <1>4, <1>5, <1>7, <1>14, <1>16, <1>17, <1>18, <1>19, <1>20 DEF Transferred

\* The same, output by output: old outputs stay and may be spent, output m has what
\* its vault had, the change has nothing.
Has(o, x) == \E item \in o.items : item.of = x

Flow(N, n, vaults, purse, to, signers) ==
  /\ N \in Nat /\ n \in Nat /\ n >= 1 /\ to \in Policies /\ signers \subseteq Keys
  /\ DOMAIN outputs = 1..N /\ DOMAIN outputs' = 1..(N + n + 1)
  /\ \A k \in 1..N :
       /\ outputs'[k].lock = outputs[k].lock /\ outputs'[k].sats = outputs[k].sats
       /\ outputs'[k].born = outputs[k].born /\ outputs'[k].by = outputs[k].by
       /\ outputs'[k].items = outputs[k].items
       /\ outputs'[k].spent <=> (outputs[k].spent \/ Spent(k, n, vaults, purse))
  /\ \A m \in 1..n :
       /\ vaults[m] \in 1..N /\ ~outputs[vaults[m]].spent
       /\ outputs[vaults[m]].lock \in Policies
       /\ Signed(vaults[m], signers)
       /\ outputs'[N + m].lock = to /\ outputs'[N + m].sats = outputs[vaults[m]].sats
       /\ outputs'[N + m].born = height /\ outputs'[N + m].by = signers
       /\ outputs'[N + m].items = outputs[vaults[m]].items
       /\ ~outputs'[N + m].spent
  /\ \A l, m \in 1..n : l # m => vaults[l] # vaults[m]
  /\ outputs[purse].items = {}
  /\ outputs'[N + n + 1].lock = Wallet /\ outputs'[N + n + 1].items = {}

LEMMA TransferredFlow ==
  ASSUME TypeInv, NEW n, NEW vaults, NEW purse, NEW to, NEW signers,
         Transferred(n, vaults, purse, to, signers)
  PROVE  Flow(Len(outputs), n, vaults, purse, to, signers)
<1> DEFINE N == Len(outputs)
<1>1. /\ N \in Nat /\ n \in Nat /\ n >= 1 /\ to \in Policies /\ signers \subseteq Keys
      /\ outputs' \in Seq(OutputType) /\ Len(outputs') = N + n + 1
      /\ outputs[purse].items = {}
      /\ outputs'[N + n + 1].lock = Wallet /\ outputs'[N + n + 1].items = {}
  BY DEF TypeInv, Transferred
<1>2. DOMAIN outputs = 1..N /\ DOMAIN outputs' = 1..(N + n + 1)
  BY <1>1 DEF TypeInv
<1>3. \A k \in 1..N :
        /\ outputs'[k].lock = outputs[k].lock /\ outputs'[k].sats = outputs[k].sats
        /\ outputs'[k].born = outputs[k].born /\ outputs'[k].by = outputs[k].by
        /\ outputs'[k].items = outputs[k].items
        /\ outputs'[k].spent <=> (outputs[k].spent \/ Spent(k, n, vaults, purse))
  <2> TAKE k \in 1..N
  <2>1. outputs'[k] = IF Spent(k, n, vaults, purse)
                      THEN [outputs[k] EXCEPT !.spent = TRUE] ELSE outputs[k]
    BY DEF Transferred
  <2>2. outputs[k] \in OutputType
    BY DEF TypeInv
  <2>3. CASE Spent(k, n, vaults, purse)
    BY ONLY <2>1, <2>2, <2>3 DEF OutputType
  <2>4. CASE ~Spent(k, n, vaults, purse)
    BY ONLY <2>1, <2>4
  <2> QED BY <2>3, <2>4
<1>4. \A m \in 1..n :
        /\ outputs'[N + m].lock = to /\ outputs'[N + m].sats = outputs[vaults[m]].sats
        /\ outputs'[N + m].born = height /\ outputs'[N + m].by = signers
        /\ outputs'[N + m].items = outputs[vaults[m]].items
        /\ ~outputs'[N + m].spent
  <2> TAKE m \in 1..n
  <2>1. outputs'[N + m] = Output(to, outputs[vaults[m]].sats, signers, outputs[vaults[m]].items)
    BY DEF Transferred
  <2> QED BY ONLY <2>1 DEF Output
<1>5. \A m \in 1..n :
        /\ vaults[m] \in 1..N /\ ~outputs[vaults[m]].spent
        /\ outputs[vaults[m]].lock \in Policies
        /\ Signed(vaults[m], signers)
  <2> TAKE m \in 1..n
  <2>1. vaults[m] \in Vaults /\ Signed(vaults[m], signers)
    BY DEF Transferred
  <2> QED BY <2>1, <1>2 DEF Vaults, Unspent
<1>6. \A l, m \in 1..n : l # m => vaults[l] # vaults[m]
  BY DEF Transferred
<1> QED BY <1>1, <1>2, <1>3, <1>4, <1>5, <1>6 DEF Flow

\* An output of a transfer is an old one, or the m-th new one, or the change.
LEMMA FlowCases ==
  ASSUME NEW N, NEW n, NEW vaults, NEW purse, NEW to, NEW signers,
         Flow(N, n, vaults, purse, to, signers), NEW k \in DOMAIN outputs'
  PROVE  k \in 1..N \/ (\E m \in 1..n : k = N + m) \/ k = N + n + 1
<1>1. N \in Nat /\ n \in Nat /\ n >= 1 /\ k \in 1..(N + n + 1)
  BY DEF Flow
<1>2. k \in 1..N \/ k - N \in 1..n \/ k = N + n + 1
  BY <1>1
<1>3. k = N + (k - N)
  BY <1>1
<1> QED BY <1>2, <1>3

\* Who has x before and after it.
LEMMA FlowHas ==
  ASSUME NEW N, NEW n, NEW vaults, NEW purse, NEW to, NEW signers,
         Flow(N, n, vaults, purse, to, signers), NEW x
  PROVE  /\ \A k \in 1..N : Has(outputs'[k], x) <=> Has(outputs[k], x)
         /\ \A m \in 1..n : Has(outputs'[N + m], x) <=> Has(outputs[vaults[m]], x)
         /\ ~Has(outputs'[N + n + 1], x)
         /\ ~Has(outputs[purse], x)
<1>1. \A k \in 1..N : Has(outputs'[k], x) <=> Has(outputs[k], x)
  BY DEF Flow, Has
<1>2. \A m \in 1..n : Has(outputs'[N + m], x) <=> Has(outputs[vaults[m]], x)
  BY DEF Flow, Has
<1>3. ~Has(outputs'[N + n + 1], x) /\ ~Has(outputs[purse], x)
  BY DEF Flow, Has
<1> QED BY <1>1, <1>2, <1>3

LEMMA FlowSpent ==
  ASSUME NEW N, NEW n, NEW vaults, NEW purse, NEW to, NEW signers,
         Flow(N, n, vaults, purse, to, signers)
  PROVE  /\ N \in Nat /\ n \in Nat /\ DOMAIN outputs = 1..N
         /\ \A k \in 1..N : k \in DOMAIN outputs'
         /\ \A k \in 1..N : outputs'[k].spent <=>
              (outputs[k].spent \/ k = purse \/ \E m \in 1..n : vaults[m] = k)
         /\ \A m \in 1..n : vaults[m] \in 1..N /\ ~outputs[vaults[m]].spent
         /\ \A m \in 1..n : N + m \in DOMAIN outputs' /\ ~outputs'[N + m].spent
         /\ \A l, m \in 1..n : vaults[l] = vaults[m] => l = m
<1>1. /\ N \in Nat /\ n \in Nat /\ n >= 1 /\ DOMAIN outputs' = 1..(N + n + 1)
      /\ DOMAIN outputs = 1..N
  BY DEF Flow
<1>2. /\ \A m \in 1..n : vaults[m] \in 1..N /\ ~outputs[vaults[m]].spent
      /\ \A m \in 1..n : ~outputs'[N + m].spent
      /\ \A l, m \in 1..n : vaults[l] = vaults[m] => l = m
  BY DEF Flow
<1>3. \A k \in 1..N : outputs'[k].spent <=>
                        (outputs[k].spent \/ k = purse \/ \E m \in 1..n : vaults[m] = k)
  BY DEF Flow, Spent
<1>4. /\ \A m \in 1..n : N + m \in DOMAIN outputs'
      /\ \A k \in 1..N : k \in DOMAIN outputs'
  BY <1>1
<1> QED BY <1>1, <1>2, <1>3, <1>4

-----------------------------------------------------------------------------
\* The invariant is inductive: transfers.

LEMMA TransferKeepsLoneItems ==
  ASSUME LoneItems, VaultAssumption,
         NEW N, NEW n, NEW vaults, NEW purse, NEW to, NEW signers,
         Flow(N, n, vaults, purse, to, signers)
  PROVE  LoneItems'
<1> SUFFICES ASSUME NEW k \in DOMAIN outputs'
             PROVE  /\ outputs'[k].lock = Wallet => outputs'[k].items = {}
                    /\ outputs'[k].lock # Wallet =>
                         /\ outputs'[k].sats >= 1
                         /\ \E x \in Inscriptions : outputs'[k].items = {[of |-> x, offset |-> 0]}
  BY DEF LoneItems
<1>1. CASE k \in 1..N
  <2>1. /\ k \in DOMAIN outputs /\ outputs'[k].lock = outputs[k].lock
        /\ outputs'[k].sats = outputs[k].sats /\ outputs'[k].items = outputs[k].items
    BY <1>1 DEF Flow
  <2> QED BY <2>1 DEF LoneItems
<1>2. ASSUME NEW m \in 1..n, k = N + m
      PROVE  /\ outputs'[k].lock # Wallet /\ outputs'[k].sats >= 1
             /\ \E x \in Inscriptions : outputs'[k].items = {[of |-> x, offset |-> 0]}
  <2>1. /\ vaults[m] \in DOMAIN outputs /\ outputs[vaults[m]].lock \in Policies
        /\ outputs'[k].lock \in Policies /\ outputs'[k].sats = outputs[vaults[m]].sats
        /\ outputs'[k].items = outputs[vaults[m]].items
    BY <1>2 DEF Flow
  <2>2. Wallet \notin Policies
    BY DEF VaultAssumption
  <2> QED BY <2>1, <2>2 DEF LoneItems
<1>3. CASE k = N + n + 1
  BY <1>3 DEF Flow
<1> QED BY <1>1, <1>2, <1>3, FlowCases

LEMMA TransferKeepsNewest ==
  ASSUME NewestUnspent, NEW N, NEW n, NEW vaults, NEW purse, NEW to, NEW signers,
         Flow(N, n, vaults, purse, to, signers)
  PROVE  NewestUnspent'
<1> SUFFICES ASSUME NEW x \in Inscriptions, NEW j \in DOMAIN outputs', NEW k \in DOMAIN outputs',
                    Has(outputs'[j], x), Has(outputs'[k], x), ~outputs'[k].spent
             PROVE  j <= k
  BY DEF NewestUnspent, Holds, Has
<1> DEFINE Live(i) == Has(outputs[i], x) /\ ~outputs[i].spent
<1>0. \A a, b \in 1..N : Has(outputs[a], x) /\ Live(b) => a <= b
  <2>1. DOMAIN outputs = 1..N
    BY FlowSpent
  <2> QED BY <2>1 DEF NewestUnspent, Holds, Has
<1>1. \A a, b \in 1..N : Live(a) /\ Live(b) => a = b
  BY <1>0
<1>2. /\ N \in Nat /\ n \in Nat
      /\ \A i \in 1..N : ~outputs'[i].spent =>
           ~outputs[i].spent /\ \A m \in 1..n : vaults[m] # i
      /\ \A m \in 1..n : vaults[m] \in 1..N /\ ~outputs[vaults[m]].spent
      /\ \A l, m \in 1..n : vaults[l] = vaults[m] => l = m
  BY FlowSpent
<1>3. /\ \A i \in 1..N : Has(outputs'[i], x) <=> Has(outputs[i], x)
      /\ \A m \in 1..n : Has(outputs'[N + m], x) <=> Has(outputs[vaults[m]], x)
      /\ ~Has(outputs'[N + n + 1], x)
  BY FlowHas
<1>4. \A m \in 1..n : Has(outputs'[N + m], x) => Live(vaults[m])
  BY <1>2, <1>3
<1> HIDE DEF Live
<1>5. j \in 1..N \/ \E m \in 1..n : j = N + m
  BY <1>3, FlowCases
<1>6. k \in 1..N \/ \E m \in 1..n : k = N + m
  BY <1>3, FlowCases
<1>7. CASE k \in 1..N
  <2>1. Live(k) /\ \A m \in 1..n : vaults[m] # k
    BY <1>2, <1>3, <1>7 DEF Live
  <2>2. ASSUME NEW m \in 1..n, j = N + m PROVE FALSE
    BY <1>1, <1>2, <1>4, <1>7, <2>1, <2>2
  <2>3. j \in 1..N
    BY <1>5, <2>2
  <2> QED BY <1>0, <1>3, <1>7, <2>1, <2>3
<1>8. ASSUME NEW m \in 1..n, k = N + m PROVE j <= k
  <2>1. CASE j \in 1..N
    BY <1>2, <1>8, <2>1
  <2>2. ASSUME NEW l \in 1..n, j = N + l PROVE j <= k
    <3>1. l = m
      BY <1>1, <1>2, <1>4, <1>8, <2>2
    <3> QED BY <1>2, <1>8, <2>2, <3>1
  <2> QED BY <1>5, <2>1, <2>2
<1> QED BY <1>6, <1>7, <1>8

LEMMA TransferKeepsSeated ==
  ASSUME Seated, NEW N, NEW n, NEW vaults, NEW purse, NEW to, NEW signers,
         Flow(N, n, vaults, purse, to, signers)
  PROVE  Seated'
<1> SUFFICES ASSUME NEW x \in Inscriptions, NEW j \in DOMAIN outputs', Has(outputs'[j], x)
             PROVE  \E k \in DOMAIN outputs' : ~outputs'[k].spent /\ Has(outputs'[k], x)
  BY DEF Seated, Inscribed, Unspent, Holds, Has
<1>1. /\ \A i \in 1..N : i \in DOMAIN outputs'
      /\ \A i \in 1..N : outputs'[i].spent <=>
           (outputs[i].spent \/ i = purse \/ \E m \in 1..n : vaults[m] = i)
      /\ \A m \in 1..n : vaults[m] \in 1..N
      /\ \A m \in 1..n : N + m \in DOMAIN outputs' /\ ~outputs'[N + m].spent
  BY FlowSpent
<1>2. /\ \A i \in 1..N : Has(outputs'[i], x) <=> Has(outputs[i], x)
      /\ \A m \in 1..n : Has(outputs'[N + m], x) <=> Has(outputs[vaults[m]], x)
      /\ ~Has(outputs'[N + n + 1], x) /\ ~Has(outputs[purse], x)
  BY FlowHas
<1>3. \E i \in 1..N : Has(outputs[i], x)
  <2>1. j \in 1..N \/ \E m \in 1..n : j = N + m
    BY <1>2, FlowCases
  <2> QED BY <1>1, <1>2, <2>1
<1>4. PICK k \in 1..N : ~outputs[k].spent /\ Has(outputs[k], x)
  <2>1. DOMAIN outputs = 1..N
    BY FlowSpent
  <2> QED BY <1>3, <2>1 DEF Seated, Inscribed, Unspent, Holds, Has
<1>5. CASE ~outputs'[k].spent
  BY <1>1, <1>2, <1>4, <1>5
<1>6. ASSUME NEW m \in 1..n, vaults[m] = k
      PROVE  N + m \in DOMAIN outputs' /\ ~outputs'[N + m].spent /\ Has(outputs'[N + m], x)
  BY <1>1, <1>2, <1>4, <1>6
<1>7. outputs'[k].spent => \E m \in 1..n : vaults[m] = k
  BY <1>1, <1>2, <1>4
<1> QED BY <1>5, <1>6, <1>7

\* It is what one output does to the next that counts: x goes from vault m to the
\* m-th new output.
LEMMA TransferKeepsWaiting ==
  ASSUME AdministratorWaits, NewestUnspent,
         NEW N, NEW n, NEW vaults, NEW purse, NEW to, NEW signers,
         Flow(N, n, vaults, purse, to, signers)
  PROVE  AdministratorWaits'
<1> DEFINE Earned(o, p) ==
             \/ \E a, b \in o.lock.committee \cap p.by : a # b
             \/ o.lock.admin \in p.by /\ p.born >= o.born + o.lock.csv_delay
<1> SUFFICES ASSUME NEW x \in Inscriptions, NEW j \in DOMAIN outputs', NEW k \in DOMAIN outputs',
                    j < k, Has(outputs'[j], x), Has(outputs'[k], x),
                    \A i \in (j + 1)..(k - 1) : ~Has(outputs'[i], x)
             PROVE  Earned(outputs'[j], outputs'[k])
  BY DEF AdministratorWaits, Moved, Holds, Has
<1>0. \A a, b \in 1..N : Has(outputs[a], x) /\ Has(outputs[b], x) /\ ~outputs[b].spent => a <= b
  <2>1. DOMAIN outputs = 1..N
    BY FlowSpent
  <2> QED BY <2>1 DEF NewestUnspent, Holds, Has
<1>1. /\ N \in Nat /\ n \in Nat /\ DOMAIN outputs = 1..N
      /\ \A m \in 1..n : vaults[m] \in 1..N /\ ~outputs[vaults[m]].spent
      /\ \A l, m \in 1..n : vaults[l] = vaults[m] => l = m
  BY FlowSpent
<1>2. /\ \A i \in 1..N : Has(outputs'[i], x) <=> Has(outputs[i], x)
      /\ \A m \in 1..n : Has(outputs'[N + m], x) <=> Has(outputs[vaults[m]], x)
      /\ ~Has(outputs'[N + n + 1], x)
  BY FlowHas
<1>3. j \in 1..N \/ \E m \in 1..n : j = N + m
  BY <1>2, FlowCases
<1>4. k \in 1..N \/ \E m \in 1..n : k = N + m
  BY <1>2, FlowCases
<1>5. CASE k \in 1..N
  <2>1. j \in 1..N /\ \A i \in (j + 1)..(k - 1) : i \in 1..N
    BY <1>1, <1>3, <1>5
  <2>2. Has(outputs[j], x) /\ Has(outputs[k], x) /\ \A i \in (j + 1)..(k - 1) : ~Has(outputs[i], x)
    BY <1>2, <1>5, <2>1
  <2>3. Earned(outputs[j], outputs[k])
    BY <1>1, <1>5, <2>1, <2>2 DEF AdministratorWaits, Moved, Holds, Has
  <2>4. /\ outputs'[j].lock = outputs[j].lock /\ outputs'[j].born = outputs[j].born
        /\ outputs'[k].by = outputs[k].by /\ outputs'[k].born = outputs[k].born
    BY <1>5, <2>1 DEF Flow
  <2> QED BY <2>3, <2>4
<1>6. ASSUME NEW m \in 1..n, k = N + m PROVE Earned(outputs'[j], outputs'[k])
  <2>1. Has(outputs[vaults[m]], x) /\ vaults[m] \in 1..N /\ ~outputs[vaults[m]].spent
    BY <1>1, <1>2, <1>6
  <2>2. ASSUME NEW l \in 1..n, j = N + l PROVE FALSE
    <3>1. Has(outputs[vaults[l]], x) /\ vaults[l] \in 1..N /\ ~outputs[vaults[l]].spent
      BY <1>1, <1>2, <2>2
    <3>2. vaults[l] = vaults[m]
      BY <1>0, <2>1, <3>1
    <3>3. l = m
      BY <1>1, <3>2
    <3> QED BY <1>1, <1>6, <2>2, <3>3
  <2>3. j \in 1..N /\ Has(outputs[j], x)
    BY <1>2, <1>3, <2>2
  <2>4. j <= vaults[m]
    BY <1>0, <2>1, <2>3
  <2>5. Has(outputs'[vaults[m]], x)
    BY <1>2, <2>1
  <2>6. j = vaults[m]
    <3>1. CASE j < vaults[m]
      <4>1. vaults[m] \in (j + 1)..(k - 1)
        BY <1>1, <1>6, <2>1, <2>3, <3>1
      <4> QED BY <2>5, <4>1
    <3> QED BY <2>1, <2>3, <2>4, <3>1
  <2>7. Signed(vaults[m], signers) /\ outputs'[k].by = signers /\ outputs'[k].born = height
    BY <1>6 DEF Flow
  <2>8. outputs'[j].lock = outputs[j].lock /\ outputs'[j].born = outputs[j].born
    BY <2>3 DEF Flow
  <2> QED BY <2>6, <2>7, <2>8 DEF Signed
<1> HIDE DEF Earned
<1> QED BY <1>4, <1>5, <1>6

LEMMA TransferKeepsTypes ==
  ASSUME TypeInv, VaultAssumption, NEW n, NEW vaults, NEW purse, NEW to, NEW signers,
         Transferred(n, vaults, purse, to, signers),
         transfers < MaxTransfers, transfers' = transfers + 1
  PROVE  TypeInv'
<1> DEFINE N == Len(outputs)
<1>1. Flow(N, n, vaults, purse, to, signers)
  BY TransferredFlow
<1>2. /\ outputs' \in Seq(OutputType) /\ height' = height
      /\ outputs'[N + n + 1].born = height
  BY DEF Transferred
<1>3. height \in Nat /\ \A k \in 1..N : outputs[k].born <= height
  <2>1. DOMAIN outputs = 1..N
    BY DEF TypeInv
  <2> QED BY <2>1, VaultAssumption DEF TypeInv, VaultAssumption
<1>4. ASSUME NEW k \in DOMAIN outputs' PROVE outputs'[k].born <= height
  <2>1. k \in 1..N \/ (\E m \in 1..n : k = N + m) \/ k = N + n + 1
    BY <1>1, FlowCases
  <2>2. /\ \A i \in 1..N : outputs'[i].born = outputs[i].born
        /\ \A m \in 1..n : outputs'[N + m].born = height
    BY <1>1 DEF Flow
  <2> QED BY <1>2, <1>3, <2>1, <2>2
<1>5. transfers' \in 0..MaxTransfers /\ height' \in 0..MaxHeight
  BY <1>2 DEF TypeInv, VaultAssumption
<1> QED BY <1>2, <1>4, <1>5 DEF TypeInv

-----------------------------------------------------------------------------
\* The invariant is inductive: inscribing, and all steps together.

\* A new output, and nothing else, with an inscription that there was not.
Added(N, x, p) ==
  /\ N \in Nat /\ DOMAIN outputs = 1..N /\ DOMAIN outputs' = 1..(N + 1)
  /\ outputs' \in Seq(OutputType)
  /\ \A k \in 1..N : outputs'[k] = outputs[k]
  /\ outputs'[N + 1] = Output(p, Dust, {}, {[of |-> x, offset |-> 0]})
  /\ \A k \in 1..N : ~Has(outputs[k], x)
  /\ height' = height /\ transfers' = transfers

LEMMA InscribeAdds ==
  ASSUME TypeInv, VaultAssumption, NEW x \in Inscriptions, NEW p \in Policies, Inscribe(x, p)
  PROVE  Added(Len(outputs), x, p)
<1> DEFINE o == Output(p, Dust, {}, {[of |-> x, offset |-> 0]})
<1>1. /\ Len(outputs) \in Nat /\ DOMAIN outputs = 1..Len(outputs)
      /\ outputs \in Seq(OutputType) /\ height \in Nat
  BY DEF TypeInv, VaultAssumption
<1>2. o \in OutputType
  <2>1. {[of |-> x, offset |-> 0]} \in SUBSET [of : Inscriptions, offset : Nat]
    OBVIOUS
  <2>2. Dust \in Nat /\ p \in Policies \cup {Wallet} /\ {} \in SUBSET Keys
    BY DEF Dust
  <2> QED BY <1>1, <2>1, <2>2, OutputTyped
<1>3. outputs' = Append(outputs, o) /\ height' = height /\ transfers' = transfers
  BY DEF Inscribe
<1>4. \A k \in 1..Len(outputs) : ~Has(outputs[k], x)
  BY <1>1 DEF Inscribe, Inscribed, Holds, Has
<1> HIDE DEF o
<1>5. /\ DOMAIN outputs' = 1..(Len(outputs) + 1) /\ outputs' \in Seq(OutputType)
      /\ \A k \in 1..Len(outputs) : outputs'[k] = outputs[k]
      /\ outputs'[Len(outputs) + 1] = o
  BY <1>1, <1>2, <1>3
<1> QED BY <1>1, <1>3, <1>4, <1>5 DEF Added, o

LEMMA AddedHas ==
  ASSUME NEW N, NEW x, NEW p, Added(N, x, p), NEW y
  PROVE  /\ \A k \in DOMAIN outputs' : k \in 1..N \/ k = N + 1
         /\ \A k \in 1..N : Has(outputs'[k], y) <=> Has(outputs[k], y)
         /\ Has(outputs'[N + 1], y) <=> y = x
<1>1. \A k \in DOMAIN outputs' : k \in 1..N \/ k = N + 1
  BY DEF Added
<1>2. \A k \in 1..N : Has(outputs'[k], y) <=> Has(outputs[k], y)
  BY DEF Added
<1>3. outputs'[N + 1].items = {[of |-> x, offset |-> 0]}
  BY DEF Added, Output
<1>4. Has(outputs'[N + 1], y) <=> y = x
  BY <1>3 DEF Has
<1> QED BY <1>1, <1>2, <1>4

LEMMA InscribeKeeps ==
  ASSUME IInv, VaultAssumption, NEW x \in Inscriptions, NEW p \in Policies, Inscribe(x, p)
  PROVE  IInv'
<1> DEFINE N == Len(outputs)
<1>0. TypeInv /\ LoneItems /\ NewestUnspent /\ Seated /\ AdministratorWaits
  BY DEF IInv
<1>1. Added(N, x, p)
  BY <1>0, InscribeAdds
<1> HIDE DEF N
<1>2. /\ N \in Nat /\ DOMAIN outputs = 1..N /\ DOMAIN outputs' = 1..(N + 1)
      /\ outputs' \in Seq(OutputType)
      /\ \A k \in 1..N : outputs'[k] = outputs[k]
      /\ \A k \in 1..N : ~Has(outputs[k], x)
      /\ height' = height /\ transfers' = transfers
  BY <1>1 DEF Added
<1>3. LET o == outputs'[N + 1]
      IN  /\ o.lock = p /\ o.sats = Dust /\ o.born = height /\ ~o.spent
          /\ o.items = {[of |-> x, offset |-> 0]}
  <2>1. outputs'[N + 1] = Output(p, Dust, {}, {[of |-> x, offset |-> 0]})
    BY <1>1 DEF Added
  <2> QED BY <2>1 DEF Output
<1>4. \A y : \A k \in 1..N : Has(outputs'[k], y) <=> Has(outputs[k], y)
  BY <1>1, AddedHas
<1>5. \A y : Has(outputs'[N + 1], y) <=> y = x
  BY <1>1, AddedHas
<1>6. \A k \in DOMAIN outputs' : k \in 1..N \/ k = N + 1
  BY <1>2
<1>7. TypeInv'
  <2>1. height \in Nat /\ \A k \in 1..N : outputs[k].born <= height
    BY <1>0, <1>2 DEF TypeInv, VaultAssumption
  <2>2. \A k \in DOMAIN outputs' : outputs'[k].born <= height
    BY <1>2, <1>3, <1>6, <2>1
  <2> QED BY <1>0, <1>2, <2>2 DEF TypeInv
<1>8. LoneItems'
  <2>1. Wallet \notin Policies /\ Dust >= 1
    BY DEF VaultAssumption, Dust
  <2>2. ASSUME NEW k \in 1..N
        PROVE  /\ outputs'[k].lock = Wallet => outputs'[k].items = {}
               /\ outputs'[k].lock # Wallet =>
                    /\ outputs'[k].sats >= 1
                    /\ \E y \in Inscriptions : outputs'[k].items = {[of |-> y, offset |-> 0]}
    <3>1. k \in DOMAIN outputs /\ outputs'[k] = outputs[k]
      BY <1>2
    <3> QED BY <1>0, <3>1 DEF LoneItems
  <2> QED BY <1>3, <1>6, <2>1, <2>2 DEF LoneItems
<1>9. NewestUnspent'
  <2> SUFFICES ASSUME NEW y \in Inscriptions, NEW j \in DOMAIN outputs',
                      NEW k \in DOMAIN outputs', Has(outputs'[j], y), Has(outputs'[k], y),
                      ~outputs'[k].spent
               PROVE  j <= k
    BY DEF NewestUnspent, Holds, Has
  <2>1. \A a, b \in 1..N : Has(outputs[a], y) /\ Has(outputs[b], y) /\ ~outputs[b].spent => a <= b
    BY <1>0, <1>2 DEF NewestUnspent, Holds, Has
  <2>2. CASE k = N + 1
    BY <1>2, <1>6, <2>2
  <2>3. CASE k \in 1..N
    <3>1. Has(outputs[k], y) /\ ~outputs[k].spent /\ y # x
      BY <1>2, <1>4, <2>3
    <3>2. j \in 1..N /\ Has(outputs[j], y)
      BY <1>4, <1>5, <1>6, <3>1
    <3> QED BY <2>1, <2>3, <3>1, <3>2
  <2> QED BY <1>6, <2>2, <2>3
<1>10. Seated'
  <2> SUFFICES ASSUME NEW y \in Inscriptions, NEW j \in DOMAIN outputs', Has(outputs'[j], y)
               PROVE  \E k \in DOMAIN outputs' : ~outputs'[k].spent /\ Has(outputs'[k], y)
    BY DEF Seated, Inscribed, Unspent, Holds, Has
  <2>1. CASE j = N + 1
    BY <1>3, <2>1
  <2>2. CASE j \in 1..N
    <3>1. Has(outputs[j], y)
      BY <1>4, <2>2
    <3>2. PICK k \in 1..N : ~outputs[k].spent /\ Has(outputs[k], y)
      BY <1>0, <1>2, <2>2, <3>1 DEF Seated, Inscribed, Unspent, Holds, Has
    <3>3. k \in DOMAIN outputs' /\ ~outputs'[k].spent /\ Has(outputs'[k], y)
      BY <1>2, <1>4, <3>2
    <3> QED BY <3>3
  <2> QED BY <1>6, <2>1, <2>2
<1>11. AdministratorWaits'
  <2> DEFINE Earned(o, q) ==
               \/ \E a, b \in o.lock.committee \cap q.by : a # b
               \/ o.lock.admin \in q.by /\ q.born >= o.born + o.lock.csv_delay
  <2> SUFFICES ASSUME NEW y \in Inscriptions, NEW j \in DOMAIN outputs',
                      NEW k \in DOMAIN outputs', j < k, Has(outputs'[j], y), Has(outputs'[k], y),
                      \A i \in (j + 1)..(k - 1) : ~Has(outputs'[i], y)
               PROVE  Earned(outputs'[j], outputs'[k])
    BY DEF AdministratorWaits, Moved, Holds, Has
  <2>1. j \in 1..N
    BY <1>2, <1>6
  <2>2. k \in 1..N
    BY <1>2, <1>4, <1>5, <1>6, <2>1
  <2>3. /\ Has(outputs[j], y) /\ Has(outputs[k], y)
        /\ \A i \in (j + 1)..(k - 1) : ~Has(outputs[i], y)
    <3>1. \A i \in (j + 1)..(k - 1) : i \in 1..N
      BY <1>2, <2>1, <2>2
    <3> QED BY <1>4, <2>1, <2>2, <3>1
  <2>4. Earned(outputs[j], outputs[k])
    BY <1>0, <1>2, <2>1, <2>2, <2>3 DEF AdministratorWaits, Moved, Holds, Has
  <2>5. outputs'[j] = outputs[j] /\ outputs'[k] = outputs[k]
    BY <1>2, <2>1, <2>2
  <2> QED BY <2>4, <2>5
<1> QED BY <1>7, <1>8, <1>9, <1>10, <1>11 DEF IInv

LEMMA InitHolds ==
  ASSUME VaultAssumption, VaultInit
  PROVE  IInv
<1>1. /\ height = 0 /\ transfers = 0 /\ WalletFunds \in Seq(Nat)
      /\ MaxHeight \in Nat /\ MaxTransfers \in Nat
      /\ outputs = [k \in DOMAIN WalletFunds |->
                     [lock |-> Wallet, sats |-> WalletFunds[k], born |-> 0, by |-> {},
                      items |-> {}, spent |-> FALSE]]
  BY DEF VaultInit, VaultAssumption
<1>2. \A k \in DOMAIN outputs :
        /\ outputs[k].lock = Wallet /\ outputs[k].items = {} /\ outputs[k].born = 0
        /\ outputs[k] \in OutputType
  <2> TAKE k \in DOMAIN outputs
  <2>1. outputs[k] = [lock |-> Wallet, sats |-> WalletFunds[k], born |-> 0, by |-> {},
                      items |-> {}, spent |-> FALSE]
        /\ WalletFunds[k] \in Nat
    BY <1>1
  <2> QED BY ONLY <2>1 DEF OutputType
<1>3. outputs \in Seq(OutputType)
  <2>1. Len(WalletFunds) \in Nat /\ DOMAIN outputs = 1..Len(WalletFunds)
    BY <1>1
  <2>2. outputs \in [1..Len(WalletFunds) -> OutputType]
    BY <1>1, <1>2, <2>1
  <2> QED BY <2>1, <2>2
<1>4. TypeInv
  BY <1>1, <1>2, <1>3 DEF TypeInv
<1>5. \A k \in DOMAIN outputs : \A x : ~Holds(k, x)
  BY <1>2 DEF Holds
<1>6. LoneItems
  BY <1>2 DEF LoneItems
<1>7. NewestUnspent /\ AdministratorWaits
  BY <1>5 DEF NewestUnspent, AdministratorWaits, Moved
<1>8. Seated
  BY <1>5 DEF Seated, Inscribed
<1> QED BY <1>4, <1>6, <1>7, <1>8 DEF IInv

LEMMA BlockKeeps ==
  ASSUME IInv, VaultAssumption, NewBlock
  PROVE  IInv'
<1>1. /\ height' = height + 1 /\ height < MaxHeight
      /\ outputs' = outputs /\ transfers' = transfers
  BY DEF NewBlock
<1>2. TypeInv'
  <2>1. TypeInv /\ MaxHeight \in Nat
    BY DEF IInv, VaultAssumption
  <2>2. height \in Nat /\ height' \in 0..MaxHeight
    BY <1>1, <2>1 DEF TypeInv
  <2>3. \A k \in DOMAIN outputs : outputs[k].born <= height + 1
    <3> TAKE k \in DOMAIN outputs
    <3>1. outputs[k] \in OutputType /\ outputs[k].born <= height
      BY <2>1 DEF TypeInv
    <3> QED BY <2>2, <3>1 DEF OutputType
  <2> QED BY <1>1, <2>1, <2>2, <2>3 DEF TypeInv
<1>3. (LoneItems /\ NewestUnspent /\ Seated /\ AdministratorWaits)'
  BY <1>1 DEF IInv, LoneItems, NewestUnspent, Seated, AdministratorWaits, Moved, Holds,
              Inscribed, Unspent
<1> QED BY <1>2, <1>3 DEF IInv

LEMMA TransferKeeps ==
  ASSUME IInv, VaultAssumption, NEW vaults \in VaultLists, NEW purse \in Purses,
         NEW to \in Policies, NEW feeRate \in FeeRates, NEW leaf \in {0, 1},
         NEW signers \in Signers, Transfer(vaults, purse, to, feeRate, leaf, signers)
  PROVE  IInv'
<1>1. TypeInv /\ LoneItems /\ NewestUnspent /\ Seated /\ AdministratorWaits
  BY DEF IInv
<1>2. PICK n : Transferred(n, vaults, purse, to, signers)
  BY <1>1, TransferEffect
<1>3. Flow(Len(outputs), n, vaults, purse, to, signers)
  BY <1>1, <1>2, TransferredFlow
<1>4. transfers < MaxTransfers /\ transfers' = transfers + 1
  BY DEF Transfer, Broadcast
<1>5. TypeInv'
  BY <1>1, <1>2, <1>4, TransferKeepsTypes
<1>6. LoneItems'
  BY <1>1, <1>3, TransferKeepsLoneItems
<1>7. NewestUnspent'
  BY <1>1, <1>3, TransferKeepsNewest
<1>8. Seated'
  BY <1>1, <1>3, TransferKeepsSeated
<1>9. AdministratorWaits'
  BY <1>1, <1>3, TransferKeepsWaiting
<1> QED BY <1>5, <1>6, <1>7, <1>8, <1>9 DEF IInv

\* The invariant, which is inductive: vaults hold one inscription each, an unspent
\* output is the newest of its inscription, no inscription is lost, and every move
\* so far was signed for as the policy has it.
THEOREM VaultInductive == VaultSpec => []IInv
<1>1. VaultInit => IInv
  BY InitHolds, VaultAssumption
<1>2. IInv /\ [VaultNext]_vaultVars => IInv'
  <2> SUFFICES ASSUME IInv, [VaultNext]_vaultVars PROVE IInv'
    OBVIOUS
  <2>1. ASSUME NEW x \in Inscriptions, NEW p \in Policies, Inscribe(x, p) PROVE IInv'
    BY <2>1, InscribeKeeps, VaultAssumption
  <2>2. ASSUME NEW vaults \in VaultLists, NEW purse \in Purses, NEW to \in Policies,
               NEW feeRate \in FeeRates, NEW leaf \in {0, 1}, NEW signers \in Signers,
               Transfer(vaults, purse, to, feeRate, leaf, signers)
        PROVE  IInv'
    BY <2>2, TransferKeeps, VaultAssumption
  <2>3. CASE NewBlock
    BY <2>3, BlockKeeps, VaultAssumption
  <2>4. CASE UNCHANGED vaultVars
    BY <2>4 DEF vaultVars, IInv, TypeInv, LoneItems, NewestUnspent, Seated, AdministratorWaits,
                Moved, Holds, Inscribed, Unspent
  <2> QED BY <2>1, <2>2, <2>3, <2>4 DEF VaultNext
<1> QED BY <1>1, <1>2, PTL DEF VaultSpec

\* Type correctness of the outputs of the Bitcoin chain, the change of every
\* transfer included: no fee makes it negative.
THEOREM VaultTypeCorrect == VaultSpec => []VaultTypeOK
<1>1. IInv => VaultTypeOK
  <2> SUFFICES ASSUME TypeInv PROVE VaultTypeOK
    BY DEF IInv
  <2> DEFINE Fine == [lock : Policies \cup {Wallet}, sats : Nat, born : 0..height,
                      by : SUBSET Keys, items : SUBSET [of : Inscriptions, offset : Nat],
                      spent : BOOLEAN]
  <2>1. height \in Nat /\ outputs \in Seq(OutputType)
    BY VaultAssumption DEF TypeInv, VaultAssumption
  <2>2. \A k \in DOMAIN outputs : outputs[k] \in Fine
    <3> TAKE k \in DOMAIN outputs
    <3>1. outputs[k] \in OutputType /\ outputs[k].born <= height
      BY DEF TypeInv
    <3> QED BY <2>1, <3>1 DEF OutputType
  <2>3. outputs \in Seq(Fine)
    <3> HIDE DEF Fine
    <3>1. DOMAIN outputs = 1..Len(outputs) /\ Len(outputs) \in Nat
          /\ outputs = [k \in 1..Len(outputs) |-> outputs[k]]
      BY <2>1
    <3>2. outputs \in [1..Len(outputs) -> Fine]
      BY <2>2, <3>1
    <3> QED BY <3>1, <3>2
  <2> QED BY <2>3 DEF VaultTypeOK, TypeInv
<1> QED BY <1>1, VaultInductive, PTL

\* Whatever is transferred, in whatever order, an inscription is alone in a vault.
THEOREM InscriptionsAlwaysIsolated == VaultSpec => []InscriptionsStayIsolated
<1>1. IInv => InscriptionsStayIsolated
  <2> SUFFICES ASSUME IInv, NEW x \in Inscriptions, Inscribed(x)
               PROVE  \E k \in Vaults : outputs[k].items = {[of |-> x, offset |-> 0]}
    BY DEF InscriptionsStayIsolated
  <2>1. PICK k \in Unspent : Holds(k, x)
    BY DEF IInv, Seated
  <2>2. k \in DOMAIN outputs /\ outputs[k] \in OutputType /\ outputs[k].items # {}
    BY <2>1 DEF IInv, TypeInv, Unspent, Holds
  <2>3. outputs[k].lock # Wallet /\ outputs[k].lock \in Policies
    BY <2>2 DEF IInv, LoneItems, OutputType
  <2>4. PICK y \in Inscriptions : outputs[k].items = {[of |-> y, offset |-> 0]}
    BY <2>2, <2>3 DEF IInv, LoneItems
  <2>5. y = x
    BY <2>1, <2>4 DEF Holds
  <2> QED BY <2>1, <2>3, <2>4, <2>5 DEF Vaults
<1> QED BY <1>1, VaultInductive, PTL

\* The timelock cannot be got round by a sequence of transfers.
THEOREM AdministratorAlwaysWaits == VaultSpec => []AdministratorWaits
<1>1. IInv => AdministratorWaits
  BY DEF IInv
<1> QED BY <1>1, VaultInductive, PTL

-----------------------------------------------------------------------------
\* Vaults implement custody.

HolderBar == [x \in Inscriptions |-> IF Inscribed(x) THEN outputs[Seat(x)].lock ELSE Nobody]
SinceBar  == [x \in Inscriptions |-> IF Inscribed(x) THEN outputs[Seat(x)].born ELSE 0]
ByBar     == [x \in Inscriptions |-> IF Inscribed(x) THEN outputs[Seat(x)].by ELSE {}]

\* The newest output that has x is its seat.
LEMMA SeatValue ==
  ASSUME NewestUnspent, NEW N \in Nat, DOMAIN outputs = 1..N, NEW x \in Inscriptions,
         NEW k \in 1..N, Has(outputs[k], x), ~outputs[k].spent
  PROVE  Inscribed(x) /\ Seat(x) = k
<1>1. k \in Unspent /\ Holds(k, x)
  BY DEF Unspent, Holds, Has
<1>2. \A i \in Unspent : Holds(i, x) => i = k
  BY <1>1 DEF NewestUnspent, Unspent
<1>3. Seat(x) = k
  BY <1>1, <1>2 DEF Seat
<1> QED BY <1>1, <1>3 DEF Inscribed, Unspent

LEMMA NextSeatValue ==
  ASSUME NewestUnspent', NEW N \in Nat, DOMAIN outputs' = 1..N, NEW x \in Inscriptions,
         NEW k \in 1..N, Has(outputs'[k], x), ~outputs'[k].spent
  PROVE  Inscribed(x)' /\ Seat(x)' = k
<1>1. k \in Unspent' /\ Holds(k, x)'
  BY DEF Unspent, Holds, Has
<1>2. \A i \in Unspent' : Holds(i, x)' => i = k
  BY <1>1 DEF NewestUnspent, Unspent
<1>3. Seat(x)' = k
  BY <1>1, <1>2 DEF Seat
<1> QED BY <1>1, <1>3 DEF Inscribed, Unspent

\* Who is inscribed has a seat.
LEMMA SeatTaken ==
  ASSUME Seated, NewestUnspent, NEW N \in Nat, DOMAIN outputs = 1..N, NEW x \in Inscriptions,
         Inscribed(x)
  PROVE  Seat(x) \in 1..N /\ Has(outputs[Seat(x)], x) /\ ~outputs[Seat(x)].spent
<1>1. PICK k \in Unspent : Holds(k, x)
  BY DEF Seated
<1>2. k \in 1..N /\ Has(outputs[k], x) /\ ~outputs[k].spent
  BY <1>1 DEF Unspent, Holds, Has
<1> QED BY <1>2, SeatValue

LEMMA TransferMoves ==
  ASSUME NewestUnspent, Seated, NewestUnspent', VaultAssumption,
         NEW N, NEW n, NEW vaults, NEW purse, NEW to, NEW signers,
         Flow(N, n, vaults, purse, to, signers), height' = height
  PROVE  \E S \in SUBSET Inscriptions : CustodyView!Move(S, to)
<1> DEFINE S == {x \in Inscriptions : \E m \in 1..n : Has(outputs[vaults[m]], x)}
<1>1. /\ N \in Nat /\ N + n + 1 \in Nat /\ DOMAIN outputs = 1..N
      /\ \A k \in 1..N : outputs'[k].spent <=>
           (outputs[k].spent \/ k = purse \/ \E m \in 1..n : vaults[m] = k)
      /\ \A m \in 1..n : vaults[m] \in 1..N /\ ~outputs[vaults[m]].spent
      /\ \A m \in 1..n : ~outputs'[N + m].spent
  BY FlowSpent
<1>2. /\ DOMAIN outputs' = 1..(N + n + 1) /\ n \in Nat /\ signers \in SUBSET Keys
      /\ \A m \in 1..n : N + m \in 1..(N + n + 1)
      /\ \A k \in 1..N : k \in 1..(N + n + 1)
  BY <1>1 DEF Flow
\* Those who go.
<1>3. ASSUME NEW x \in S
      PROVE  /\ Inscribed(x) /\ Inscribed(x)'
             /\ HolderBar'[x] = to /\ SinceBar'[x] = height /\ ByBar'[x] = signers
             /\ HolderBar[x] # Nobody
             /\ \/ \E a, b \in HolderBar[x].committee \cap signers : a # b
                \/ /\ HolderBar[x].admin \in signers
                   /\ height >= SinceBar[x] + HolderBar[x].csv_delay
  <2>1. PICK m \in 1..n : Has(outputs[vaults[m]], x)
    OBVIOUS
  <2>2. Inscribed(x) /\ Seat(x) = vaults[m]
    <3>1. /\ x \in Inscriptions /\ N \in Nat /\ DOMAIN outputs = 1..N
          /\ vaults[m] \in 1..N /\ Has(outputs[vaults[m]], x) /\ ~outputs[vaults[m]].spent
      BY <1>1, <2>1
    <3> QED BY ONLY NewestUnspent, <3>1, SeatValue
  <2>3. Has(outputs'[N + m], x)
    BY <2>1, FlowHas
  <2>4. Inscribed(x)' /\ Seat(x)' = N + m
    BY <1>1, <1>2, <2>3, NextSeatValue
  <2>5. /\ outputs'[N + m].lock = to /\ outputs'[N + m].born = height
        /\ outputs'[N + m].by = signers
        /\ outputs[vaults[m]].lock \in Policies /\ Signed(vaults[m], signers)
    BY DEF Flow
  <2>6. HolderBar[x] = outputs[vaults[m]].lock /\ SinceBar[x] = outputs[vaults[m]].born
    BY <2>2 DEF HolderBar, SinceBar
  <2>7. HolderBar'[x] = to /\ SinceBar'[x] = height /\ ByBar'[x] = signers
    BY <2>4, <2>5 DEF HolderBar, SinceBar, ByBar
  <2>8. Nobody \notin Policies
    BY DEF VaultAssumption
  <2>9. \/ \E a, b \in HolderBar[x].committee \cap signers : a # b
        \/ /\ HolderBar[x].admin \in signers
           /\ height >= SinceBar[x] + HolderBar[x].csv_delay
    BY <2>5, <2>6 DEF Signed
  <2> QED BY <2>2, <2>4, <2>5, <2>6, <2>7, <2>8, <2>9
\* Those who stay.
<1>4. ASSUME NEW x \in Inscriptions, x \notin S
      PROVE  HolderBar'[x] = HolderBar[x] /\ SinceBar'[x] = SinceBar[x] /\ ByBar'[x] = ByBar[x]
  <2>1. CASE Inscribed(x)
    <3> DEFINE k == Seat(x)
    <3>1. k \in 1..N /\ Has(outputs[k], x) /\ ~outputs[k].spent
      BY <1>1, <2>1, SeatTaken
    <3> HIDE DEF k
    <3>2. k # purse /\ \A m \in 1..n : vaults[m] # k
      BY <1>4, <3>1, FlowHas
    <3>3. Has(outputs'[k], x) /\ ~outputs'[k].spent
      <4>1. Has(outputs'[k], x)
        BY <3>1, FlowHas
      <4>2. ~outputs'[k].spent
        BY ONLY <1>1, <3>1, <3>2
      <4> QED BY <4>1, <4>2
    <3>4. Inscribed(x)' /\ Seat(x)' = k
      <4> DEFINE N1 == N + n + 1
      <4>1. N1 \in Nat /\ DOMAIN outputs' = 1..N1 /\ k \in 1..N1
        BY ONLY <1>1, <1>2, <3>1
      <4> HIDE DEF N1
      <4>2. x \in Inscriptions /\ NewestUnspent'
        OBVIOUS
      <4> QED BY ONLY <3>3, <4>1, <4>2, NextSeatValue
    <3>5. /\ outputs'[k].lock = outputs[k].lock /\ outputs'[k].born = outputs[k].born
          /\ outputs'[k].by = outputs[k].by
      BY <3>1 DEF Flow
    <3>6. Seat(x) = k
      BY DEF k
    <3> QED BY <2>1, <3>4, <3>5, <3>6 DEF HolderBar, SinceBar, ByBar
  <2>2. CASE ~Inscribed(x)
    <3>1. \A k \in 1..N : ~Has(outputs[k], x)
      BY <1>1, <2>2 DEF Inscribed, Holds, Has
    <3>2. \A k \in DOMAIN outputs' : ~Has(outputs'[k], x)
      <4> TAKE k \in DOMAIN outputs'
      <4>1. k \in 1..N \/ (\E m \in 1..n : k = N + m) \/ k = N + n + 1
        BY FlowCases
      <4>2. /\ \A i \in 1..N : ~Has(outputs'[i], x)
            /\ \A m \in 1..n : ~Has(outputs'[N + m], x)
            /\ ~Has(outputs'[N + n + 1], x)
        <5>1. /\ \A i \in 1..N : Has(outputs'[i], x) <=> Has(outputs[i], x)
              /\ \A m \in 1..n : Has(outputs'[N + m], x) <=> Has(outputs[vaults[m]], x)
              /\ ~Has(outputs'[N + n + 1], x)
          BY FlowHas
        <5> QED BY <1>1, <3>1, <5>1
      <4> QED BY <4>1, <4>2
    <3>3. ~Inscribed(x)'
      BY <3>2 DEF Inscribed, Holds, Has
    <3> QED BY <2>2, <3>3 DEF HolderBar, SinceBar, ByBar
  <2> QED BY <2>1, <2>2
<1> HIDE DEF S
<1>5. HolderBar' = [x \in Inscriptions |-> IF x \in S THEN to ELSE HolderBar[x]]
  BY <1>3, <1>4 DEF HolderBar
<1>6. SinceBar' = [x \in Inscriptions |-> IF x \in S THEN height ELSE SinceBar[x]]
  BY <1>3, <1>4 DEF SinceBar
<1>7. ByBar' = [x \in Inscriptions |-> IF x \in S THEN signers ELSE ByBar[x]]
  BY <1>3, <1>4 DEF ByBar
<1>8. S \in SUBSET Inscriptions
  BY DEF S
<1>9. \A x \in S : /\ HolderBar[x] # Nobody
                  /\ \/ \E a, b \in HolderBar[x].committee \cap signers : a # b
                     \/ /\ HolderBar[x].admin \in signers
                        /\ height >= SinceBar[x] + HolderBar[x].csv_delay
  BY <1>3
<1>10. CustodyView!Move(S, to)
  BY <1>2, <1>5, <1>6, <1>7, <1>9
     DEF CustodyView!Move, CustodyView!Put, CustodyView!AdministratorMay,
         CustodyView!CommitteeSigned, HolderBar, SinceBar, ByBar
<1> QED BY <1>8, <1>10

LEMMA InscribeMoves ==
  ASSUME NewestUnspent, Seated, NewestUnspent',
         NEW N, NEW x \in Inscriptions, NEW p, Added(N, x, p)
  PROVE  CustodyView!Inscribe(x, p)
<1>1. /\ N \in Nat /\ N + 1 \in Nat /\ DOMAIN outputs = 1..N /\ DOMAIN outputs' = 1..(N + 1)
      /\ \A k \in 1..N : outputs'[k] = outputs[k] /\ k \in 1..(N + 1)
      /\ \A k \in 1..N : ~Has(outputs[k], x)
      /\ height' = height
  BY DEF Added
<1>2. LET o == outputs'[N + 1]
      IN  o.lock = p /\ o.born = height /\ o.by = {} /\ ~o.spent /\ N + 1 \in 1..(N + 1)
  <2>1. outputs'[N + 1] = Output(p, Dust, {}, {[of |-> x, offset |-> 0]})
    BY DEF Added
  <2> QED BY <1>1, <2>1 DEF Output
<1>3. ~Inscribed(x)
  BY <1>1 DEF Inscribed, Holds, Has
<1>4. Inscribed(x)' /\ Seat(x)' = N + 1
  <2>1. Has(outputs'[N + 1], x)
    BY AddedHas
  <2> QED BY <1>1, <1>2, <2>1, NextSeatValue
<1>5. ASSUME NEW y \in Inscriptions, y # x
      PROVE  HolderBar'[y] = HolderBar[y] /\ SinceBar'[y] = SinceBar[y] /\ ByBar'[y] = ByBar[y]
  <2>1. CASE Inscribed(y)
    <3> DEFINE k == Seat(y)
    <3>1. k \in 1..N /\ Has(outputs[k], y) /\ ~outputs[k].spent
      BY <1>1, <2>1, SeatTaken
    <3> HIDE DEF k
    <3>2. k \in 1..(N + 1) /\ outputs'[k] = outputs[k]
      BY <1>1, <3>1
    <3>3. Inscribed(y)' /\ Seat(y)' = k
      BY <1>1, <3>1, <3>2, NextSeatValue
    <3>4. Seat(y) = k
      BY DEF k
    <3> QED BY <2>1, <3>2, <3>3, <3>4 DEF HolderBar, SinceBar, ByBar
  <2>2. CASE ~Inscribed(y)
    <3>1. \A k \in 1..N : ~Has(outputs[k], y)
      BY <1>1, <2>2 DEF Inscribed, Holds, Has
    <3>2. \A k \in DOMAIN outputs' : ~Has(outputs'[k], y)
      <4>1. /\ \A k \in DOMAIN outputs' : k \in 1..N \/ k = N + 1
            /\ \A k \in 1..N : Has(outputs'[k], y) <=> Has(outputs[k], y)
            /\ ~Has(outputs'[N + 1], y)
        BY <1>5, AddedHas
      <4> QED BY <3>1, <4>1
    <3>3. ~Inscribed(y)'
      BY <3>2 DEF Inscribed, Holds, Has
    <3> QED BY <2>2, <3>3 DEF HolderBar, SinceBar, ByBar
  <2> QED BY <2>1, <2>2
<1>6. /\ HolderBar[x] = Nobody /\ ByBar[x] = {}
      /\ HolderBar'[x] = p /\ SinceBar'[x] = height /\ ByBar'[x] = {}
  BY <1>2, <1>3, <1>4 DEF HolderBar, SinceBar, ByBar
<1>7. HolderBar' = [y \in Inscriptions |-> IF y \in {x} THEN p ELSE HolderBar[y]]
  BY <1>5, <1>6 DEF HolderBar
<1>8. SinceBar' = [y \in Inscriptions |-> IF y \in {x} THEN height ELSE SinceBar[y]]
  BY <1>5, <1>6 DEF SinceBar
<1>9. ByBar' = ByBar
  BY <1>5, <1>6 DEF ByBar
<1> QED BY <1>1, <1>6, <1>7, <1>8, <1>9
        DEF CustodyView!Inscribe, CustodyView!Put, HolderBar, SinceBar, ByBar

\* Drafts of transactions, outputs, and the flow of satoshis do what Custody
\* promises, for any number of inscriptions in a transfer: an inscription never
\* leaves the vaults, and goes from one to the next with the signatures and after
\* the delay that the policy of its vault asks for.
THEOREM VaultImplementsCustody == VaultSpec => ImplementsCustody
<1>1. VaultInit => CustodyView!Init
  <2> SUFFICES ASSUME VaultInit PROVE CustodyView!Init
    OBVIOUS
  <2>1. \A x : ~Inscribed(x)
    BY DEF VaultInit, Inscribed, Holds
  <2> QED BY <2>1 DEF CustodyView!Init, VaultInit
<1>2. IInv /\ IInv' /\ [VaultNext]_vaultVars => [CustodyView!Next]_(CustodyView!custodyVars)
  <2> SUFFICES ASSUME IInv, IInv', [VaultNext]_vaultVars
               PROVE  CustodyView!Next \/ UNCHANGED CustodyView!custodyVars
    OBVIOUS
  <2>0. TypeInv /\ LoneItems /\ NewestUnspent /\ Seated /\ NewestUnspent'
    BY DEF IInv
  <2>1. ASSUME NEW x \in Inscriptions, NEW p \in Policies, Inscribe(x, p)
        PROVE  CustodyView!Next
    <3>1. CustodyView!Inscribe(x, p)
      BY <2>0, <2>1, InscribeAdds, InscribeMoves, VaultAssumption
    <3> QED BY <3>1 DEF CustodyView!Next
  <2>2. ASSUME NEW vaults \in VaultLists, NEW purse \in Purses, NEW to \in Policies,
               NEW feeRate \in FeeRates, NEW leaf \in {0, 1}, NEW signers \in Signers,
               Transfer(vaults, purse, to, feeRate, leaf, signers)
        PROVE  CustodyView!Next
    <3>1. PICK n : Transferred(n, vaults, purse, to, signers)
      BY <2>0, <2>2, TransferEffect, VaultAssumption
    <3>2. Flow(Len(outputs), n, vaults, purse, to, signers) /\ height' = height
      BY <2>0, <3>1, TransferredFlow DEF Transferred
    <3>3. PICK S \in SUBSET Inscriptions : CustodyView!Move(S, to)
      BY <2>0, <3>2, TransferMoves, VaultAssumption
    <3> QED BY <3>3 DEF CustodyView!Next
  <2>3. CASE NewBlock
    <3>1. outputs' = outputs /\ height' = height + 1
      BY <2>3 DEF NewBlock
    <3>2. CustodyView!NewBlock
      BY <3>1 DEF CustodyView!NewBlock, Inscribed, Seat, Unspent, Holds
    <3> QED BY <3>2 DEF CustodyView!Next
  <2>4. CASE UNCHANGED vaultVars
    BY <2>4 DEF vaultVars, CustodyView!custodyVars, Inscribed, Seat, Unspent, Holds
  <2> QED BY <2>1, <2>2, <2>3, <2>4 DEF VaultNext
<1> QED BY <1>1, <1>2, VaultInductive, PTL DEF VaultSpec, ImplementsCustody, CustodyView!Spec
=============================================================================
